----------------------------- MODULE Reception -----------------------------
(***************************************************************************)
(* lgw_receive (loragw_hal.c) as configured: without fine timestamps,      *)
(* packets are returned as parsed, see RxPath; with them, the array goes   *)
(* through merge_packets first, see MergePackets.  The merge works on the  *)
(* caller's array alone, so a behaviour follows either the buffers and the *)
(* counter, or the merge of one array.                                     *)
(***************************************************************************)
EXTENDS RxPath

CONSTANTS
    CounterMod, Tolerance, Times, Sames, MaxIn    \* see MergePackets

VARIABLES
    fine_timestamp,           \* configuration: CONTEXT_FINE_TIMESTAMP.enable
    input, array, index, done \* merge_packets

mergeVars == <<input, array, index, done>>
allVars == <<vars, fine_timestamp, mergeVars>>

Merge == INSTANCE MergePackets WITH p <- array, j <- index

ASSUME MergeAssumption == Merge!MergeConstants

ReceptionInit ==
    /\ Init
    /\ \/ fine_timestamp = TRUE /\ Merge!Init
       \/ /\ fine_timestamp = FALSE
          /\ input = <<>> /\ array = <<>> /\ index = 1 /\ done = FALSE

ReceptionNext ==
    /\ UNCHANGED fine_timestamp
    /\ \/ ~fine_timestamp /\ Next /\ UNCHANGED mergeVars
       \/ fine_timestamp /\ Merge!Next /\ UNCHANGED vars

ReceptionSpec == ReceptionInit /\ [][ReceptionNext]_allVars

-----------------------------------------------------------------------------
(* merge_packets leaves no duplicates, in spite of a tolerance that is not *)
(* transitive and of packets that change places during the search.         *)
NoDuplicateLeft == fine_timestamp => Merge!NoDuplicateLeft

(* merge_packets drops no packet but in favour of one as good: for each    *)
(* packet received, one remains that is linked to it by equal packets,     *)
(* with a right CRC if its own is, and a fine timestamp if it has one.     *)
BestKept == fine_timestamp => Merge!BestKept

=============================================================================
