--------------------------- MODULE MergePackets ---------------------------
(***************************************************************************)
(* merge_packets (loragw_hal.c): with fine timestamps enabled a packet is  *)
(* demodulated twice.  lgw_receive removes the duplicates, compared        *)
(* pairwise within a tolerance that is not transitive, by moving the last  *)
(* packet of the array into the gap and starting again, then sorts.        *)
(*                                                                         *)
(* An initial state is an array; a step is an iteration of the outer loop. *)
(* Channel, data rate, size and payload are one value, `same'.             *)
(***************************************************************************)
EXTENDS Integers, Sequences

CONSTANTS
    CounterMod,    \* 2^32 in the code
    Tolerance,     \* 24 in the code
    Times,         \* the values of count_us
    Sames,
    MaxIn          \* bound: packets in the array

MergeConstants ==
    /\ CounterMod \in Nat /\ CounterMod > 1
    /\ Tolerance \in Nat /\ MaxIn \in Nat
    /\ Times \subseteq 0 .. CounterMod - 1

VARIABLES
    input,         \* the array at the start
    p,             \* the array, up to nb_pkt
    j,             \* the index of the outer loop, from 1
    done

vars == <<input, p, j, done>>

(* Only a packet whose CRC is right has a fine timestamp.  Both            *)
(* demodulations of a packet see its header, so both or none have a CRC;   *)
(* two without one are treated like two whose CRC is wrong.                *)
Packets == {q \in [count_us : Times, same : Sames,
                   status : {"CRC_OK", "CRC_BAD"}, ftime_received : BOOLEAN] :
              q.ftime_received => q.status = "CRC_OK"}

Init ==
    /\ input \in UNION {[1 .. n -> Packets] : n \in 1 .. MaxIn}
    /\ p = input /\ j = 1 /\ done = FALSE

-----------------------------------------------------------------------------
(* The difference of two counters as a signed integer.                     *)
Diff(a, b) == LET d == (a - b) % CounterMod
              IN  IF 2 * d < CounterMod THEN d ELSE d - CounterMod

(* count_us may differ by some samples; abs leaves the least integer as it *)
(* is, less than the tolerance.                                            *)
is_same_pkt(q, r) ==
    /\ LET d == Diff(q.count_us, r.count_us)
       IN  d \in -Tolerance .. Tolerance \/ 2 * d = -CounterMod
    /\ q.same = r.same

(* Mutant: the packet without the fine timestamp is kept.                  *)
DupIndexSwapped(a, b) ==
    IF p[a].status # p[b].status
      THEN IF p[a].status = "CRC_OK" THEN b ELSE a
      ELSE IF p[a].ftime_received THEN a ELSE b

(* Of two equal packets the one to remove.                                 *)
DupIndex(a, b) ==
    IF p[a].status # p[b].status
      THEN IF p[a].status = "CRC_OK" THEN b ELSE a
      ELSE IF p[a].ftime_received THEN b ELSE a

(* The last packet takes the place of the one removed.                     *)
remove_pkt(s, i) == SubSeq([s EXCEPT ![i] = s[Len(s)]], 1, Len(s) - 1)

Duplicates == {k \in j + 1 .. Len(p) : is_same_pkt(p[j], p[k])}

NoDuplicate ==
    /\ j <= Len(p) /\ Duplicates = {}
    /\ j' = j + 1
    /\ UNCHANGED <<input, p, done>>

(* Mutant: the search goes on at the same index.                           *)
RemoveDuplicateNext ==
    /\ j <= Len(p) /\ Duplicates # {}
    /\ LET k == CHOOSE k \in Duplicates : \A l \in Duplicates : k <= l
       IN  p' = remove_pkt(p, DupIndex(j, k))
    /\ j' = j + 1
    /\ UNCHANGED <<input, done>>

(* The first duplicate of packet j: one of the two is removed and the      *)
(* search starts again.                                                    *)
RemoveDuplicate ==
    /\ j <= Len(p) /\ Duplicates # {}
    /\ LET k == CHOOSE k \in Duplicates : \A l \in Duplicates : k <= l
       IN  p' = remove_pkt(p, DupIndex(j, k))
    /\ j' = 1
    /\ UNCHANGED <<input, done>>

(* compare_pkt_tmst: the sign of the wrapped difference.                   *)
Sorted(s) ==
    \A a, b \in 1 .. Len(s) : a < b => Diff(s[b].count_us, s[a].count_us) >= 0

(* The packets of the array in any order.                                  *)
Orders ==
    {[i \in 1 .. Len(p) |-> p[f[i]]] :
       f \in {g \in [1 .. Len(p) -> 1 .. Len(p)] :
                \A a, b \in 1 .. Len(p) : a # b => g[a] # g[b]}}

(* qsort_r, which need not be stable; and which leaves any order if the    *)
(* packets are too far apart for the comparison to order them.             *)
Sort ==
    /\ j > Len(p) /\ ~done
    /\ LET ascending == {s \in Orders : Sorted(s)}
       IN  p' \in (IF ascending # {} THEN ascending ELSE Orders)
    /\ done' = TRUE
    /\ UNCHANGED <<input, j>>

Next == NoDuplicate \/ RemoveDuplicate \/ Sort

Spec == Init /\ [][Next]_vars

-----------------------------------------------------------------------------
(* Properties.                                                             *)

(* Packets of the input that no chain of equal packets links to others.    *)
Closed(S) ==
    \A k \in S, l \in 1 .. Len(input) : is_same_pkt(input[l], input[k]) => l \in S

(* A wrong CRC is worst, a fine timestamp best.                            *)
Rank(q) == IF q.status = "CRC_BAD" THEN 0 ELSE IF q.ftime_received THEN 2 ELSE 1

(* No duplicates remain, in spite of the tolerance that is not transitive  *)
(* and of packets that change places during the search.                    *)
NoDuplicateLeft ==
    done => \A a, b \in 1 .. Len(p) : a # b => ~is_same_pkt(p[a], p[b])

(* The array still has packet i of the input, or one of S as good.         *)
Keeps(S, i) ==
    \E a \in 1 .. Len(p) : /\ Rank(p[a]) >= Rank(input[i])
                           /\ \E k \in S : p[a] = input[k]

(* No packet disappears but in favour of one as good: for each packet      *)
(* received, one remains that is linked to it by equal packets, with a     *)
(* right CRC if its own is, and with a fine timestamp if it has one.       *)
BestKept ==
    done => \A S \in SUBSET (1 .. Len(input)) : Closed(S) => \A i \in S : Keeps(S, i)

=============================================================================
