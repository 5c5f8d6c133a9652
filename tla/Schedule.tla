------------------------------ MODULE Schedule ----------------------------
(***************************************************************************)
(* What the downlink path of one RF chain promises: packets are admitted   *)
(* into a schedule of limited size only if they go together with all the   *)
(* packets in it, the server is told which downlinks were admitted, and a  *)
(* packet goes on the air out of the schedule, once.                       *)
(*                                                                         *)
(* The abstract counterpart of JitQueue and TxPath: no arrays, no counter, *)
(* no locks and no loops.                                                  *)
(***************************************************************************)
EXTENDS Integers, FiniteSets

CONSTANTS
    Compatible(_, _),  \* the reservations of two packets are disjoint
    Downlink(_),       \* a packet that the server asked for
    MaxPkts

VARIABLES
    sched,   \* the packets admitted and not yet taken out
    hand,    \* the packet about to be sent, as a set
    radio,   \* the packet the radio is programmed with, as a set
    answer   \* to the server: "none", "queued" or "refused"

schedVars == <<sched, hand, radio, answer>>

Init == sched = {} /\ hand = {} /\ radio = {} /\ answer = "none"

(* A downlink is admitted together with the answer that says so.           *)
Admit ==
    \E p \in sched' \ sched :
        /\ sched' = sched \cup {p}
        /\ Cardinality(sched') <= MaxPkts
        /\ \A q \in sched : Compatible(p, q) /\ Compatible(q, p)
        /\ answer' = IF Downlink(p) THEN "queued" ELSE answer
        /\ UNCHANGED <<hand, radio>>

Refuse == answer' = "refused" /\ UNCHANGED <<sched, hand, radio>>

Forget == answer' = "none" /\ UNCHANGED <<sched, hand, radio>>

(* A packet that is too late leaves the schedule.                          *)
Drop == \E p \in sched : sched' = sched \ {p} /\ UNCHANGED <<hand, radio, answer>>

Take ==
    /\ hand = {}
    /\ \E p \in sched : sched' = sched \ {p} /\ hand' = {p}
    /\ UNCHANGED <<radio, answer>>

(* The radio forgets a packet it was programmed with before.               *)
Launch ==
    /\ hand # {} /\ radio' = hand /\ hand' = {}
    /\ UNCHANGED <<sched, answer>>

(* The radio is busy, or cannot be programmed and may be left without any  *)
(* packet.                                                                 *)
GiveUp ==
    /\ hand # {} /\ hand' = {} /\ radio' \in {radio, {}}
    /\ UNCHANGED <<sched, answer>>

Sent == radio # {} /\ radio' = {} /\ UNCHANGED <<sched, hand, answer>>

Next ==
    \/ Admit \/ Refuse \/ Forget \/ Drop \/ Take \/ Launch \/ GiveUp \/ Sent

Spec == Init /\ [][Next]_schedVars
=============================================================================
