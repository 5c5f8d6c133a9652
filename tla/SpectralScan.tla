--------------------------- MODULE SpectralScan ---------------------------
(***************************************************************************)
(* The SX1261 radio, which thread_spectral_scan uses for scans in the      *)
(* background and lgw_send for Listen-Before-Talk (lora_pkt_fwd.c,         *)
(* loragw_hal.c, loragw_lbt.c, loragw_sx1261.c).  thread_jit aborts a scan *)
(* before it sends.  Both threads take turns through mx_concent;           *)
(* thread_jit keeps it while it waits for the result of LBT.               *)
(*                                                                         *)
(* Transmission is modelled without time: a scheduled packet is sent at    *)
(* some time.                                                              *)
(***************************************************************************)
EXTENDS Integers

CONSTANTS
    Chains,        \* RF chains with TX enabled
    NbChan,        \* spectral_scan_params.nb_chan
    MaxSends       \* bound: packets taken out of the JIT queue

ASSUME ScanConstants == NbChan \in Nat \ {0} /\ MaxSends \in Nat

VARIABLES
    lbt_enable,            \* configuration: Listen-Before-Talk is enabled
    faults,                \* this time, accesses to the concentrator may
                           \* fail, and time out
    ss_pc, freq_hz,        \* thread_spectral_scan
    jit_pc, chain, sends,  \* thread_jit
    lbt_tx_allowed,        \* lgw_send: the result of LBT
    mx_concent,            \* "free" or "jit"
    mode,                  \* of the SX1261: "idle", "scan", "lbt"
    scan_freq,             \* frequency of the scan
    scan_status,           \* status register of the scan
    result_freq,           \* frequency of the results in memory
    tx,                    \* TX state machine of each chain
    agc,                   \* AGC status of the packet programmed last
    last,                  \* history: the packet in tx is the last one given
                           \* to lgw_send
    outcome                \* history: result of the last lgw_send, per chain

confVars == <<lbt_enable, faults>>
ssVars == <<ss_pc, freq_hz>>
jitVars == <<jit_pc, chain, sends, lbt_tx_allowed, mx_concent>>
sxVars == <<mode, scan_freq, scan_status, result_freq>>
txVars == <<tx, agc, last, outcome>>
scanVars == <<confVars, ssVars, jitVars, sxVars, txVars>>

None == -1

ScanInit ==
    /\ lbt_enable \in BOOLEAN /\ faults \in BOOLEAN
    /\ ss_pc = "pace" /\ freq_hz = 0
    /\ jit_pc = "peek" /\ chain \in Chains /\ sends = 0 /\ lbt_tx_allowed = FALSE
    /\ mx_concent = "free"
    /\ mode = "idle" /\ scan_freq = None /\ scan_status = "NONE"
    /\ result_freq = None
    /\ tx = [c \in Chains |-> "FREE"] /\ agc = "none"
    /\ last = [c \in Chains |-> FALSE] /\ outcome = [c \in Chains |-> "none"]

-----------------------------------------------------------------------------
(* The radios.                                                             *)

ScanDone ==
    /\ mode = "scan"
    /\ mode' = "idle" /\ scan_status' = "COMPLETED" /\ result_freq' = scan_freq
    /\ UNCHANGED <<ssVars, jitVars, scan_freq, txVars>>

(* The time of a packet has come: it is sent, or not if LBT finds the      *)
(* channel busy.  The AGC tells, also when lgw_send has ceased to wait.    *)
TxStart(c) ==
    /\ tx[c] = "SCHEDULED"
    /\ \/ /\ tx' = [tx EXCEPT ![c] = "EMITTING"]
          /\ agc' = IF lbt_enable /\ c = chain THEN "sent" ELSE agc
       \/ /\ lbt_enable /\ mode = "lbt"
          /\ tx' = [tx EXCEPT ![c] = "FREE"]
          /\ agc' = IF c = chain THEN "blocked" ELSE agc
    /\ UNCHANGED <<ssVars, jitVars, sxVars, last, outcome>>

TxEnd(c) ==
    /\ tx[c] = "EMITTING"
    /\ tx' = [tx EXCEPT ![c] = "FREE"]
    /\ UNCHANGED <<ssVars, jitVars, sxVars, agc, last, outcome>>

-----------------------------------------------------------------------------
(* thread_spectral_scan.                                                   *)

SsPace == /\ ss_pc = "pace" /\ ss_pc' = "start"
          /\ UNCHANGED <<freq_hz, jitVars, sxVars, txVars>>

(* A packet is scheduled or on the air: no scan this time.                 *)
SsSkip == /\ ss_pc = "start" /\ mx_concent = "free"
          /\ \E c \in Chains : tx[c] # "FREE"
          /\ ss_pc' = "pace"
          /\ UNCHANGED <<freq_hz, jitVars, sxVars, txVars>>

(* Otherwise the scan starts.  A status that cannot be read is             *)
(* TX_STATUS_UNKNOWN and counts as no packet.                              *)
SsStart ==
    /\ ss_pc = "start" /\ mx_concent = "free"
    /\ faults \/ \A c \in Chains : tx[c] = "FREE"
    /\ ss_pc' = "poll"
    /\ mode' = "scan" /\ scan_freq' = freq_hz /\ scan_status' = "ON_GOING"
    /\ UNCHANGED <<freq_hz, jitVars, result_freq, txVars>>

(* The SX1261 cannot be accessed: at the start, while polling, or for the  *)
(* results; or the scan is not completed in two seconds.                   *)
SsFails ==
    /\ faults /\ mx_concent = "free"
    /\ ss_pc \in {"start", "poll", "results"}
    /\ ss_pc' = "pace"
    /\ UNCHANGED <<freq_hz, jitVars, sxVars, txVars>>

(* Mutant: an aborted scan is not told from a completed one.               *)
SsPollAnyEnd ==
    /\ ss_pc = "poll" /\ mx_concent = "free"
    /\ scan_status \in {"COMPLETED", "ABORTED"} /\ ss_pc' = "results"
    /\ UNCHANGED <<freq_hz, jitVars, sxVars, txVars>>

SsPoll ==
    /\ ss_pc = "poll" /\ mx_concent = "free"
    /\ \/ scan_status = "COMPLETED" /\ ss_pc' = "results"
       \/ scan_status = "ABORTED" /\ ss_pc' = "pace"
    /\ UNCHANGED <<freq_hz, jitVars, sxVars, txVars>>

(* Mutant: the scan starts over with the first frequency.                  *)
SsResultsFirst ==
    /\ ss_pc = "results" /\ mx_concent = "free"
    /\ freq_hz' = 0
    /\ ss_pc' = "pace"
    /\ UNCHANGED <<jitVars, sxVars, txVars>>

(* The results are printed; next frequency.                                *)
SsResults ==
    /\ ss_pc = "results" /\ mx_concent = "free"
    /\ freq_hz' = (freq_hz + 1) % NbChan
    /\ ss_pc' = "pace"
    /\ UNCHANGED <<jitVars, sxVars, txVars>>

thread_spectral_scan == SsPace \/ SsSkip \/ SsStart \/ SsFails \/ SsPoll \/ SsResults

-----------------------------------------------------------------------------
(* thread_jit, from the packet dequeued on.                                *)

(* A packet for a chain that is sending, as far as can be told, is given   *)
(* up.                                                                     *)
JitCheck(c) ==
    /\ jit_pc = "peek" /\ mx_concent = "free" /\ sends < MaxSends
    /\ sends' = sends + 1
    /\ \/ tx[c] = "EMITTING" /\ UNCHANGED <<chain, jit_pc>>
       \/ (faults \/ tx[c] # "EMITTING") /\ chain' = c /\ jit_pc' = "send"
    /\ UNCHANGED <<lbt_tx_allowed, mx_concent, ssVars, sxVars, txVars>>

(* lgw_spectral_scan_abort: whether the status of a completed scan         *)
(* survives is up to the radio's firmware.                                 *)
Aborted ==
    {<<"idle", "ABORTED">>}
    \cup (IF mode # "scan" THEN {<<"idle", scan_status>>} ELSE {})
    \cup (IF faults THEN {<<mode, scan_status>>} ELSE {})

(* What lgw_send leaves when it fails before the end: the packet           *)
(* programmed before, or no trigger.                                       *)
Untriggered(c) == {tx, [tx EXCEPT ![c] = IF @ = "SCHEDULED" THEN "FREE" ELSE @]}

(* Mutant: the scan goes on while the packet is sent.                      *)
JitSendNoAbort ==
    /\ jit_pc = "send" /\ mx_concent = "free"
    /\ last' = [last EXCEPT ![chain] = TRUE]
    /\ tx' = [tx EXCEPT ![chain] = "SCHEDULED"]
    /\ jit_pc' = "peek"
    /\ outcome' = [outcome EXCEPT ![chain] = "ok"]
    /\ UNCHANGED <<chain, sends, lbt_tx_allowed, mx_concent, ssVars, sxVars, agc>>

(* The scan is aborted and the packet given to lgw_send, in one critical   *)
(* section.  With LBT a wrong channel or time on air is refused; otherwise *)
(* the SX1261 listens, the packet is scheduled, and the result awaited.    *)
JitSend ==
    /\ jit_pc = "send" /\ mx_concent = "free"
    /\ \E ab \in Aborted :
         /\ scan_status' = ab[2]
         /\ \/ (* refused, or failed: LBT, if started, is stopped *)
               /\ lbt_enable \/ faults
               /\ mode' = ab[1]
               /\ tx' \in Untriggered(chain)
               /\ last' = [last EXCEPT ![chain] = FALSE]
               /\ outcome' = [outcome EXCEPT ![chain] = "fail"]
               /\ jit_pc' = "peek"
               /\ UNCHANGED <<mx_concent, agc>>
            \/ /\ tx' = [tx EXCEPT ![chain] = "SCHEDULED"]
               /\ last' = [last EXCEPT ![chain] = TRUE]
               /\ IF lbt_enable
                    THEN /\ mode' = "lbt" /\ agc' = "none"
                         /\ jit_pc' = "lbt" /\ mx_concent' = "jit"
                         /\ outcome' = [outcome EXCEPT ![chain] = "none"]
                    ELSE /\ mode' = ab[1]
                         /\ jit_pc' = "peek"
                         /\ outcome' = [outcome EXCEPT ![chain] = "ok"]
                         /\ UNCHANGED <<agc, mx_concent>>
    /\ UNCHANGED <<chain, sends, lbt_tx_allowed, ssVars, scan_freq, result_freq>>

(* lgw_lbt_tx_status has the result, and clears the status of the AGC.  If *)
(* that fails there is no result.                                          *)
LbtResult ==
    /\ jit_pc = "lbt" /\ agc # "none"
    /\ \/ /\ lbt_tx_allowed' = (agc = "sent")
          /\ jit_pc' = "stop"
       \/ /\ faults
          /\ lbt_tx_allowed' = FALSE
          /\ jit_pc' = "abort"
    /\ agc' = "none"
    /\ UNCHANGED <<chain, sends, mx_concent, ssVars, sxVars, tx, last, outcome>>

(* It has none in 500 ms (or, with faults, cannot tell).                   *)
LbtTimeout ==
    /\ jit_pc = "lbt"
    /\ faults \/ agc = "none"
    /\ lbt_tx_allowed' = FALSE
    /\ jit_pc' = "clear"
    /\ UNCHANGED <<chain, sends, mx_concent, ssVars, sxVars, txVars>>

(* Mutant: the SX1261 stops to listen before the packet is aborted.        *)
LbtClearStops ==
    /\ jit_pc = "clear"
    /\ agc' = "none" /\ mode' = "idle"
    /\ jit_pc' = "abort"
    /\ UNCHANGED <<chain, sends, lbt_tx_allowed, mx_concent, ssVars, scan_freq,
                   scan_status, result_freq, tx, last, outcome>>

(* Still the status of the AGC is cleared, and lgw_lbt_tx_status waits up  *)
(* to 500 ms until it is, which goes unnoticed if it is not.               *)
LbtClear ==
    /\ jit_pc = "clear"
    /\ agc' = "none"
    /\ jit_pc' = "abort"
    /\ UNCHANGED <<chain, sends, lbt_tx_allowed, mx_concent, ssVars, sxVars, tx,
                   last, outcome>>

(* Mutant: the trigger of the packet is not cleared.                       *)
LbtAbortNot ==
    /\ jit_pc = "abort"
    /\ jit_pc' = "stop"
    /\ UNCHANGED <<chain, sends, lbt_tx_allowed, mx_concent, ssVars, sxVars, txVars>>

(* sx1302_tx_abort clears the trigger and waits until the packet is off    *)
(* the air, for 1 s at most.                                               *)
LbtAbort ==
    /\ jit_pc = "abort"
    /\ \/ tx' = [tx EXCEPT ![chain] = IF @ = "SCHEDULED" THEN "FREE" ELSE @]
       \/ faults /\ UNCHANGED tx
    /\ jit_pc' = "stop"
    /\ UNCHANGED <<chain, sends, lbt_tx_allowed, mx_concent, ssVars, sxVars, agc,
                   last, outcome>>

(* lgw_lbt_stop, after either; if it fails, so does lgw_send.              *)
LbtStop ==
    /\ jit_pc = "stop"
    /\ \/ /\ mode' = "idle"
          /\ outcome' = [outcome EXCEPT ![chain] =
                           IF lbt_tx_allowed THEN "ok" ELSE "fail"]
       \/ /\ faults
          /\ outcome' = [outcome EXCEPT ![chain] = "fail"]
          /\ UNCHANGED mode
    /\ jit_pc' = "peek" /\ mx_concent' = "free"
    /\ UNCHANGED <<chain, sends, lbt_tx_allowed, ssVars, scan_freq, scan_status,
                   result_freq, tx, agc, last>>

lgw_lbt == LbtResult \/ LbtTimeout \/ LbtClear \/ LbtAbort \/ LbtStop

thread_jit == (\E c \in Chains : JitCheck(c)) \/ JitSend \/ lgw_lbt

-----------------------------------------------------------------------------
ScanNext ==
    /\ UNCHANGED confVars
    /\ \/ ScanDone
       \/ \E c \in Chains : TxStart(c) \/ TxEnd(c)
       \/ thread_spectral_scan
       \/ thread_jit

ScanSpec == ScanInit /\ [][ScanNext]_scanVars

(* The threads run on, a scan ends and so does a transmission.  A packet   *)
(* need not be sent with LBT: its time may have been missed.               *)
ScanFairSpec ==
    /\ ScanSpec
    /\ WF_scanVars(UNCHANGED confVars /\ thread_spectral_scan)
    /\ WF_scanVars(UNCHANGED confVars /\ (JitSend \/ lgw_lbt))
    /\ WF_scanVars(UNCHANGED confVars /\ ScanDone)
    /\ \A c \in Chains :
         /\ WF_scanVars(UNCHANGED confVars /\ TxEnd(c))
         /\ WF_scanVars(UNCHANGED confVars /\ ~lbt_enable /\ TxStart(c))

-----------------------------------------------------------------------------
(* Properties.                                                             *)

(* No scan runs while a packet is scheduled or sent on any chain,          *)
(* whichever of the two threads comes first, provided that the             *)
(* concentrator can be accessed.                                           *)
NoScanDuringTx == ~faults /\ mode = "scan" => \A c \in Chains : tx[c] = "FREE"

(* The thread moves on to the next frequency only when the memory holds    *)
(* the results of a whole scan of this one: aborted scans are repeated,    *)
(* and the results printed are those of the frequency printed with them,   *)
(* though thread_jit and LBT use the radio between the status read and the *)
(* results.                                                                *)
NoFrequencySkipped == [][freq_hz' # freq_hz => result_freq = freq_hz]_scanVars

(* With LBT a packet is sent only while the SX1261 listens.  It may still  *)
(* start after lgw_send has given up waiting for it, until it is aborted,  *)
(* and only then the SX1261 stops to listen (provided that the             *)
(* concentrator can be accessed).                                          *)
ListenBeforeTalk ==
    [][lbt_enable /\ ~faults =>
         \A c \in Chains : tx[c] # "EMITTING" /\ tx'[c] = "EMITTING"
                            => mode = "lbt"]_scanVars

(* When lgw_send returns an error the packet is not left with the radio,   *)
(* to be sent by itself at a time when nothing waits for it, provided that *)
(* the concentrator can be accessed.  It may be on the air: it has started *)
(* between the timeout and the abort.                                      *)
FailedNotLeft ==
    \A c \in Chains :
      ~faults /\ last[c] /\ outcome[c] = "fail" => tx[c] # "SCHEDULED"

(* When no more downlinks come, every frequency is scanned again and       *)
(* again, as long as accesses do not fail.                                 *)
AllScanned == \A f \in 0 .. NbChan - 1 : []<>(faults \/ freq_hz = f)

=============================================================================
