------------------------------ MODULE TimeRef ------------------------------
(***************************************************************************)
(* The GPS time reference: thread_gps pairs the UTC and GPS time of the    *)
(* receiver's messages with the counter latched at the PPS pulse and hands *)
(* the pair to lgw_gps_sync (loragw_gps.c); thread_valid checks the age of *)
(* the reference and computes the crystal correction (lora_pkt_fwd.c).     *)
(*                                                                         *)
(* Time is counted in seconds, from PPS pulse to PPS pulse, and a time is  *)
(* kept as the number of pulses since.  For each second the receiver sends *)
(* an RMC sentence, with UTC, and a NAV-TIMEGPS message, with GPS time,    *)
(* that starts the synchronisation, in one order or the other.  Messages   *)
(* get lost, and thread_gps runs late, so that it reads the counter of a   *)
(* later pulse, within the bounds below.  UTC is that of the latest RMC    *)
(* sentence received.  The crystal is exact and the system clock is not    *)
(* stepped.                                                                *)
(***************************************************************************)
EXTENDS Integers

CONSTANTS
    CounterWrap,      \* seconds until the 32-bit counter rolls over
    GPS_REF_MAX_AGE,
    XERR_INIT_AVG,
    MaxBehind,        \* bound: pulses by which thread_gps is late
    MaxBad,           \* bound: sync points in a row that are late or stale
    MaxOutage,        \* bound: seconds without RMC, or without NAV-TIMEGPS
    VALID_LATENCY     \* bound: pulses between two checks of thread_valid

ASSUME TimeRefConstants ==
    /\ GPS_REF_MAX_AGE \in Nat
    /\ CounterWrap \in Nat /\ CounterWrap > GPS_REF_MAX_AGE
    /\ XERR_INIT_AVG \in Nat \ {0}
    /\ MaxBehind \in Nat /\ MaxBad \in Nat /\ MaxOutage \in Nat \ {0}
    /\ VALID_LATENCY \in Nat \ {0}

VARIABLES
    rmc_first,        \* the order of the two messages
    msg,              \* which of them thread_gps handles next
    behind,           \* pulses since the second it belongs to, -1: next
    utc,              \* age of the UTC time parsed last
    ref,              \* time_reference_gps
    aber_min1, aber_min2,
    silent,           \* seconds since the last synchronisation
    bad_run, settled, \* history, see gps_process_sync
    net,              \* "faulty" until the receiver and thread_gps keep time
    valid_pc, valid_late, ref_valid_local, init_cpt,
    gps_ref_valid, xtal_correct_ok,
    samples           \* history: successive valid checks

gpsVars == <<msg, behind, utc, ref, aber_min1, aber_min2, silent, bad_run, settled>>
validVars == <<valid_pc, valid_late, ref_valid_local, init_cpt,
               gps_ref_valid, xtal_correct_ok, samples>>
vars == <<rmc_first, gpsVars, net, validVars>>

(* Ages, in pulses, of the three parts of the reference and of systime;    *)
(* set tells if systime is not 0; xtal_err is 0, a slope, or 1.0.          *)
NoRef == [set |-> FALSE, utc |-> 0, gps |-> 0, cnt |-> 0, age |-> 0,
          xtal_err |-> "zero"]

FirstMsg == IF rmc_first THEN "rmc" ELSE "ubx"

Init ==
    /\ rmc_first \in BOOLEAN
    /\ msg = FirstMsg /\ behind = -1
    /\ utc = MaxOutage /\ ref = NoRef
    /\ aber_min1 = FALSE /\ aber_min2 = FALSE
    /\ silent = 0 /\ bad_run = 0 /\ settled = FALSE
    /\ net = "faulty"
    /\ valid_pc = "check" /\ valid_late = 0 /\ ref_valid_local = FALSE
    /\ init_cpt = 0 /\ gps_ref_valid = FALSE /\ xtal_correct_ok = FALSE
    /\ samples = 0

-----------------------------------------------------------------------------
(* The next PPS pulse.                                                     *)

Second ==
    /\ behind < (IF net = "good" \/ bad_run = MaxBad THEN 0 ELSE MaxBehind)
    /\ valid_late < VALID_LATENCY
    /\ behind' = behind + 1
    /\ utc' = utc + 1
    /\ silent' = silent + 1
    /\ valid_late' = valid_late + 1
    /\ ref' = IF ref.set
                THEN [set |-> TRUE, utc |-> ref.utc + 1, gps |-> ref.gps + 1,
                      cnt |-> ref.cnt + 1, age |-> ref.age + 1,
                      xtal_err |-> ref.xtal_err]
                ELSE ref
    /\ UNCHANGED <<rmc_first, msg, aber_min1, aber_min2, bad_run, settled,
                   net, valid_pc, ref_valid_local, init_cpt,
                   gps_ref_valid, xtal_correct_ok, samples>>

Heal == /\ net = "faulty" /\ net' = "good"
        /\ behind = -1 /\ (rmc_first \/ bad_run < MaxBad)
        /\ UNCHANGED <<rmc_first, gpsVars, validVars>>

-----------------------------------------------------------------------------
(* thread_gps.                                                             *)

(* A message has been handled, or lost: the next one, of the next second   *)
(* if both are done.                                                       *)
NextMsg ==
    /\ msg' = IF msg = "rmc" THEN "ubx" ELSE "rmc"
    /\ behind' = IF msg = FirstMsg THEN behind ELSE behind - 1

(* The point belongs together: the counter is that of the second of the    *)
(* NAV-TIMEGPS message, and so is UTC, or of the one before if RMC comes   *)
(* later.                                                                  *)
GoodPoint == behind = 0 /\ utc = (IF rmc_first THEN 0 ELSE 1)

(* A message does not arrive, or is invalid.                               *)
LoseMsg ==
    /\ net = "faulty" /\ behind >= 0
    /\ IF msg = "rmc" THEN utc < MaxOutage /\ bad_run < MaxBad
                      ELSE silent < MaxOutage \/ (bad_run = MaxBad /\ ~GoodPoint)
    /\ NextMsg
    /\ UNCHANGED <<rmc_first, utc, ref, aber_min1, aber_min2, silent, bad_run,
                   settled, net, validVars>>

(* lgw_parse_nmea: the date and time of an RMC sentence.                   *)
ParseRmc ==
    /\ msg = "rmc" /\ behind >= 0
    /\ utc' = behind
    /\ NextMsg
    /\ UNCHANGED <<rmc_first, ref, aber_min1, aber_min2, silent, bad_run,
                   settled, net, validVars>>

(* The slope between the reference and the new point, whose counter is     *)
(* that of the latest pulse, is beyond 10 ppm.  In whole seconds that      *)
(* means that the differences differ.  The initial reference is decades    *)
(* away.                                                                   *)
Aberrant ==
    \/ ~ref.set
    \/ ref.utc = utc
    \/ ref.cnt % CounterWrap # ref.utc - utc

NewRef == [set |-> TRUE, utc |-> utc, gps |-> behind, cnt |-> 0, age |-> 0,
           xtal_err |-> IF ~Aberrant THEN "slope"
                        ELSE IF ref.xtal_err = "zero" THEN "one"
                        ELSE ref.xtal_err]

(* Mutant: two aberrant points reset the reference.                        *)
lgw_gps_sync_after_two ==
    /\ ref' = IF Aberrant /\ ~aber_min1 THEN ref ELSE NewRef
    /\ aber_min2' = aber_min1
    /\ aber_min1' = Aberrant

(* Mutant: a reset does not bring xtal_err into range.                     *)
lgw_gps_sync_keeps_xtal ==
    /\ ref' = IF ~Aberrant THEN NewRef
              ELSE IF aber_min1 /\ aber_min2
                THEN [NewRef EXCEPT !.xtal_err = ref.xtal_err]
              ELSE ref
    /\ aber_min2' = aber_min1
    /\ aber_min1' = Aberrant

(* A point that is not aberrant updates the reference, as does the third   *)
(* aberrant point in a row.                                                *)
lgw_gps_sync ==
    /\ ref' = IF Aberrant /\ ~(aber_min1 /\ aber_min2) THEN ref ELSE NewRef
    /\ aber_min2' = aber_min1
    /\ aber_min1' = Aberrant

(* NAV-TIMEGPS, parsed: gps_process_sync reads the latched counter and     *)
(* synchronises.  History: bad points in a row; settled from a good point  *)
(* that agrees with the reference, until three bad points in a row or an   *)
(* outage of a whole roll-over of the counter.                             *)
gps_process_sync ==
    /\ msg = "ubx" /\ behind >= 0
    /\ bad_run' = IF GoodPoint THEN 0 ELSE bad_run + 1
    /\ bad_run' <= MaxBad
    /\ settled' = \/ GoodPoint /\ ~Aberrant
                  \/ settled /\ bad_run' < 3 /\ ref.cnt < CounterWrap
    /\ lgw_gps_sync
    /\ silent' = 0
    /\ NextMsg
    /\ UNCHANGED <<rmc_first, utc, net, validVars>>

-----------------------------------------------------------------------------
(* thread_valid, once per second.                                          *)

(* Mutant: an age of 0 is not accepted.                                    *)
ValidCheckPositive ==
    /\ valid_pc = "check" /\ valid_late > 0
    /\ gps_ref_valid' = (ref.set /\ ref.age > 0 /\ ref.age <= GPS_REF_MAX_AGE)
    /\ ref_valid_local' = gps_ref_valid'
    /\ samples' = IF gps_ref_valid'
                    THEN IF samples < XERR_INIT_AVG THEN samples + 1 ELSE samples
                    ELSE 0
    /\ valid_late' = 0
    /\ valid_pc' = "correct"
    /\ UNCHANGED <<rmc_first, gpsVars, net, init_cpt, xtal_correct_ok>>

(* Under mx_timeref: is the reference recent?                              *)
ValidCheck ==
    /\ valid_pc = "check" /\ valid_late > 0
    /\ gps_ref_valid' = (ref.set /\ ref.age <= GPS_REF_MAX_AGE)
    /\ ref_valid_local' = gps_ref_valid'
    /\ samples' = IF gps_ref_valid'
                    THEN IF samples < XERR_INIT_AVG THEN samples + 1 ELSE samples
                    ELSE 0
    /\ valid_late' = 0
    /\ valid_pc' = "correct"
    /\ UNCHANGED <<rmc_first, gpsVars, net, init_cpt, xtal_correct_ok>>

(* Mutant: the accumulation is not started again.                          *)
ValidCorrectKeeps ==
    /\ valid_pc = "correct"
    /\ IF ~ref_valid_local
         THEN xtal_correct_ok' = FALSE /\ init_cpt' = init_cpt
         ELSE /\ init_cpt' = IF init_cpt <= XERR_INIT_AVG THEN init_cpt + 1
                                                         ELSE init_cpt
              /\ xtal_correct_ok' = (xtal_correct_ok \/ init_cpt >= XERR_INIT_AVG)
    /\ valid_pc' = "check"
    /\ UNCHANGED <<rmc_first, gpsVars, net, valid_late, ref_valid_local,
                   gps_ref_valid, samples>>

(* Under mx_xcorr: accumulate XERR_INIT_AVG values, then set the average,  *)
(* then track; start again when the reference is not valid.                *)
ValidCorrect ==
    /\ valid_pc = "correct"
    /\ IF ~ref_valid_local
         THEN xtal_correct_ok' = FALSE /\ init_cpt' = 0
         ELSE /\ init_cpt' = IF init_cpt <= XERR_INIT_AVG THEN init_cpt + 1
                                                         ELSE init_cpt
              /\ xtal_correct_ok' = (xtal_correct_ok \/ init_cpt = XERR_INIT_AVG)
    /\ valid_pc' = "check"
    /\ UNCHANGED <<rmc_first, gpsVars, net, valid_late, ref_valid_local,
                   gps_ref_valid, samples>>

-----------------------------------------------------------------------------
thread_gps == LoseMsg \/ ParseRmc \/ gps_process_sync

thread_valid == ValidCheck \/ ValidCorrect

Next == Second \/ Heal \/ thread_gps \/ thread_valid

Spec == Init /\ [][Next]_vars

(* Pulses keep coming and both threads run on.                             *)
FairSpec == Spec /\ WF_vars(Second) /\ WF_vars(thread_gps) /\ WF_vars(thread_valid)

-----------------------------------------------------------------------------
(* Properties.                                                             *)

(* The reference relates GPS time to the counter correctly.                *)
RefRight == ref.set /\ (ref.cnt - ref.gps) % CounterWrap = 0

(* When thread_down finds gps_ref_valid it calls lgw_gps2cnt and ignores   *)
(* its result, which is an error for a reference never set or with         *)
(* xtal_err out of range: neither is possible.  The reference it uses is   *)
(* not older than the period of thread_valid beyond GPS_REF_MAX_AGE.       *)
RefUsable ==
    gps_ref_valid => /\ ref.set
                     /\ ref.xtal_err # "zero"
                     /\ ref.age <= GPS_REF_MAX_AGE + VALID_LATENCY

(* thread_valid changes gps_ref_valid and xtal_correct_ok in two critical  *)
(* sections with different locks, and thread_down reads both under one of  *)
(* them.  If it finds both set, the crystal correction rests on            *)
(* XERR_INIT_AVG values taken since the reference was last invalid.        *)
CorrectionFresh ==
    gps_ref_valid /\ xtal_correct_ok => samples = XERR_INIT_AVG

(* lgw_gps_sync checks UTC against the counter only; beacons are sent by   *)
(* the GPS time stored along with it.  Once a good point has agreed with   *)
(* the reference, up to two late or stale points in a row never make the   *)
(* reference wrong, as long as no outage outlasts a roll-over of the       *)
(* counter.                                                                *)
RefStaysRight == settled => RefRight

(* Whatever went wrong before, a wrong reference after a reset and an      *)
(* outage over several roll-overs included: when messages come in time     *)
(* again, the reference becomes right and valid, and the correction        *)
(* available, for good.                                                    *)
RefRecovers ==
    <>[](net = "good")
      => <>[](RefRight /\ gps_ref_valid /\ xtal_correct_ok)

=============================================================================
