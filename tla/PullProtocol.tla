---------------------------- MODULE PullProtocol ----------------------------
(***************************************************************************)
(* The keep-alive of thread_down (lora_pkt_fwd.c): PULL_DATA every         *)
(* keepalive_time, matched with PULL_ACK by a random token, the auto-quit  *)
(* after a number of PULL_DATA without answer, and the statistics that     *)
(* main copies and resets.  Datagrams are lost, duplicated, delayed past   *)
(* the next PULL_DATA and reordered, and a token may come up again.  A     *)
(* datagram that is lost is one that stays under way.                      *)
(* What a PULL_RESP does is modelled in TxPath.                            *)
(***************************************************************************)
EXTENDS Integers, Sequences

CONSTANTS
    Token,               \* the 16-bit tokens
    keepalive_time,      \* in ticks of the monotonic clock
    autoquit_threshold,  \* 0 when auto-quit is off
    MaxPulls             \* bound: PULL_DATA sent between two reports of main

ASSUME PullConstants ==
    /\ keepalive_time \in Nat \ {0}
    /\ autoquit_threshold \in Nat
    /\ MaxPulls \in Nat \ {0}

VARIABLES
    pull_pc,             \* where thread_down is
    token, req_ack, autoquit_cnt,
    elapsed,             \* time since send_time, up to keepalive_time
    recv_time,           \* the same when recv() returned last
    exit_sig,            \* which of exit_sig and quit_sig is set, and why
    pulls, acks,         \* tokens of the datagrams under way
    meas_dw_pull_sent, meas_dw_ack_rcv,
    report,              \* what main copied last
    window               \* history: the last autoquit_threshold PULL_DATA

downVars == <<pull_pc, token, req_ack, autoquit_cnt, recv_time, window>>
measVars == <<meas_dw_pull_sent, meas_dw_ack_rcv>>
netVars == <<pulls, acks>>
vars == <<downVars, elapsed, exit_sig, netVars, measVars, report>>

(* A PULL_DATA: whether a PULL_ACK with its token came before the next.    *)
Pull == {"unanswered", "in_time"}

Init ==
    /\ pull_pc = "send" /\ token \in Token /\ req_ack = FALSE
    /\ autoquit_cnt = 0 /\ elapsed = 0 /\ recv_time = 0
    /\ exit_sig = "none"
    /\ pulls = {} /\ acks = {}
    /\ meas_dw_pull_sent = 0 /\ meas_dw_ack_rcv = 0
    /\ report = [sent |-> 0, acked |-> 0]
    /\ window = <<>>

-----------------------------------------------------------------------------
(* Clock, signals, server, network and main.                               *)

Tick ==
    /\ elapsed < keepalive_time
    /\ elapsed' = elapsed + 1
    /\ UNCHANGED <<downVars, exit_sig, netVars, measVars, report>>

sig_handler ==
    /\ exit_sig = "none"
    /\ exit_sig' \in {"exit", "quit"}
    /\ UNCHANGED <<downVars, elapsed, netVars, measVars, report>>

(* The server answers each PULL_DATA that reaches it; the network may      *)
(* deliver a copy first.                                                   *)
ServerAck ==
    \E t \in pulls :
      /\ pulls' \in {pulls, pulls \ {t}}
      /\ acks' = acks \cup {t}
      /\ UNCHANGED <<downVars, elapsed, exit_sig, measVars, report>>

(* main, once per stat_interval: copy and reset under mx_meas_dw.          *)
MainReport ==
    /\ report' = [sent |-> meas_dw_pull_sent, acked |-> meas_dw_ack_rcv]
    /\ meas_dw_pull_sent' = 0
    /\ meas_dw_ack_rcv' = 0
    /\ UNCHANGED <<downVars, elapsed, exit_sig, netVars>>

-----------------------------------------------------------------------------
(* thread_down.                                                            *)

AutoquitDue == autoquit_threshold > 0 /\ autoquit_cnt >= autoquit_threshold

(* The window slides when it holds autoquit_threshold PULL_DATA.           *)
Slide(p) ==
    LET longer == Append(window, p)
    IN  IF Len(longer) > autoquit_threshold THEN Tail(longer) ELSE longer

(* Mutant: req_ack is not reset for a new PULL_DATA.                       *)
PullSendKeepsAck ==
    /\ pull_pc = "send" /\ exit_sig = "none" /\ ~AutoquitDue
    /\ meas_dw_pull_sent < MaxPulls
    /\ token' \in Token
    /\ pulls' = pulls \cup {token'}
    /\ meas_dw_pull_sent' = meas_dw_pull_sent + 1
    /\ autoquit_cnt' = autoquit_cnt + 1
    /\ elapsed' = 0 /\ recv_time' = 0
    /\ window' = Slide("unanswered")
    /\ pull_pc' = "listen"
    /\ UNCHANGED <<exit_sig, acks, req_ack, meas_dw_ack_rcv, report>>

(* Mutant: the count starts again with each PULL_DATA.                     *)
PullSendRestarts ==
    /\ pull_pc = "send" /\ exit_sig = "none" /\ ~AutoquitDue
    /\ meas_dw_pull_sent < MaxPulls
    /\ token' \in Token
    /\ pulls' = pulls \cup {token'}
    /\ meas_dw_pull_sent' = meas_dw_pull_sent + 1
    /\ req_ack' = FALSE
    /\ autoquit_cnt' = 1
    /\ elapsed' = 0 /\ recv_time' = 0
    /\ window' = Slide("unanswered")
    /\ pull_pc' = "listen"
    /\ UNCHANGED <<exit_sig, acks, meas_dw_ack_rcv, report>>

(* Send PULL_DATA with a new token and start to listen.                    *)
PullSend ==
    /\ pull_pc = "send" /\ exit_sig = "none" /\ ~AutoquitDue
    /\ meas_dw_pull_sent < MaxPulls
    /\ token' \in Token
    /\ pulls' = pulls \cup {token'}
    /\ meas_dw_pull_sent' = meas_dw_pull_sent + 1
    /\ req_ack' = FALSE
    /\ autoquit_cnt' = autoquit_cnt + 1
    /\ elapsed' = 0 /\ recv_time' = 0
    /\ window' = Slide("unanswered")
    /\ pull_pc' = "listen"
    /\ UNCHANGED <<exit_sig, acks, meas_dw_ack_rcv, report>>

(* The threshold is crossed: the whole application is told to exit.        *)
PullQuit ==
    /\ pull_pc = "send" /\ exit_sig = "none" /\ AutoquitDue
    /\ exit_sig' = "autoquit"
    /\ pull_pc' = "done"
    /\ UNCHANGED <<token, req_ack, autoquit_cnt, recv_time, window, elapsed,
                   netVars, measVars, report>>

PullStop ==
    /\ pull_pc = "send" /\ exit_sig # "none"
    /\ pull_pc' = "done"
    /\ UNCHANGED <<token, req_ack, autoquit_cnt, recv_time, window, elapsed,
                   exit_sig, netVars, measVars, report>>

Listening == pull_pc = "listen" /\ recv_time < keepalive_time /\ exit_sig = "none"

(* The listening loop ends when the datagram received last, or the timeout *)
(* of recv(), came after keepalive_time.                                   *)
ListenEnd ==
    /\ pull_pc = "listen" /\ ~Listening
    /\ pull_pc' = "send"
    /\ UNCHANGED <<token, req_ack, autoquit_cnt, recv_time, window, elapsed,
                   exit_sig, netVars, measVars, report>>

(* recv() times out, or returns a datagram that is not a PULL_ACK.         *)
RecvOther ==
    /\ Listening
    /\ recv_time' = elapsed
    /\ UNCHANGED <<pull_pc, token, req_ack, autoquit_cnt, window, elapsed,
                   exit_sig, netVars, measVars, report>>

Heard(t) ==
    [j \in DOMAIN window |->
       IF j = Len(window) /\ t = token THEN "in_time" ELSE window[j]]

(* Mutant: any acknowledgement counts, whatever its token.                 *)
RecvAckAnyToken ==
    /\ Listening
    /\ \E t \in acks :
         /\ acks' \in {acks, acks \ {t}}
         /\ window' = Heard(t)
         /\ IF ~req_ack
              THEN /\ req_ack' = TRUE
                   /\ autoquit_cnt' = 0
                   /\ meas_dw_ack_rcv' = meas_dw_ack_rcv + 1
              ELSE UNCHANGED <<req_ack, autoquit_cnt, meas_dw_ack_rcv>>
    /\ recv_time' = elapsed
    /\ UNCHANGED <<pull_pc, token, elapsed, exit_sig, pulls,
                   meas_dw_pull_sent, report>>

(* Mutant: duplicate acknowledgements are counted.                         *)
RecvAckTwice ==
    /\ Listening
    /\ \E t \in acks :
         /\ acks' \in {acks, acks \ {t}}
         /\ window' = Heard(t)
         /\ IF t = token
              THEN /\ req_ack' = TRUE
                   /\ autoquit_cnt' = 0
                   /\ meas_dw_ack_rcv' = meas_dw_ack_rcv + 1
              ELSE UNCHANGED <<req_ack, autoquit_cnt, meas_dw_ack_rcv>>
    /\ recv_time' = elapsed
    /\ UNCHANGED <<pull_pc, token, elapsed, exit_sig, pulls,
                   meas_dw_pull_sent, report>>

(* A PULL_ACK is received, the network possibly keeping a copy.  It counts *)
(* once, and only with the token of the latest PULL_DATA.                  *)
RecvAck ==
    /\ Listening
    /\ \E t \in acks :
         /\ acks' \in {acks, acks \ {t}}
         /\ window' = Heard(t)
         /\ IF t = token /\ ~req_ack
              THEN /\ req_ack' = TRUE
                   /\ autoquit_cnt' = 0
                   /\ meas_dw_ack_rcv' = meas_dw_ack_rcv + 1
              ELSE UNCHANGED <<req_ack, autoquit_cnt, meas_dw_ack_rcv>>
    /\ recv_time' = elapsed
    /\ UNCHANGED <<pull_pc, token, elapsed, exit_sig, pulls,
                   meas_dw_pull_sent, report>>

-----------------------------------------------------------------------------
thread_down == \/ PullSend \/ PullQuit \/ PullStop
               \/ ListenEnd \/ RecvOther \/ RecvAck

Next == \/ thread_down
        \/ Tick \/ sig_handler \/ ServerAck \/ MainReport

Spec == Init /\ [][Next]_vars

(* The clock runs, main reports again and again, and thread_down blocks    *)
(* only in recv(), which times out.  Nothing is assumed of server and      *)
(* network.                                                                *)
FairSpec == /\ Spec
            /\ WF_vars(thread_down) /\ WF_vars(Tick) /\ WF_vars(MainReport)

-----------------------------------------------------------------------------
(* Properties.                                                             *)

NoneInTime ==
    /\ Len(window) = autoquit_threshold
    /\ \A j \in DOMAIN window : window[j] # "in_time"

(* thread_down shuts the gateway down only after autoquit_threshold        *)
(* PULL_DATA in a row of which none was answered, with its token, before   *)
(* the next: neither lost and late nor duplicate acknowledgements, nor the *)
(* acknowledgement of an earlier PULL_DATA, make it quit too soon.         *)
AutoquitJustified == exit_sig = "autoquit" => NoneInTime

(* It also does not go on longer: after that many unanswered PULL_DATA no  *)
(* further one is sent, so an acknowledgement that counts was received in  *)
(* time whenever one is.                                                   *)
AutoquitPrompt ==
    [][meas_dw_pull_sent' > meas_dw_pull_sent
         => autoquit_threshold = 0 \/ ~NoneInTime]_vars

(* However acknowledgements are duplicated and whenever main resets the    *)
(* counters, at most one more PULL_ACK is counted between two reports, and *)
(* reported, than PULL_DATA: that of the PULL_DATA sent before the first.  *)
AcksBounded ==
    /\ meas_dw_ack_rcv <= meas_dw_pull_sent + 1
    /\ report.acked <= report.sent + 1

(* With auto-quit on, a gateway that is not acknowledged again and again   *)
(* stops: there is no way to stay without the server for ever.             *)
AckedOrQuits ==
    autoquit_threshold > 0 => <>(pull_pc = "done") \/ []<>req_ack

=============================================================================
