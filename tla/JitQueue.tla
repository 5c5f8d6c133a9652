------------------------------ MODULE JitQueue ------------------------------
(***************************************************************************)
(* The just-in-time TX queue of one RF chain (jitqueue.c, jitqueue.h): the *)
(* packet nodes, the roll-over arithmetic of the concentrator counter, the *)
(* admission criteria of jit_enqueue and the sort that ends every change.  *)
(* The functions that run in a critical section of mx_jit_queue are the    *)
(* actions of TxPath; this module holds what they compute.                 *)
(*                                                                         *)
(* A queue is the sequence nodes[0..num_pkt-1] of the code, so num_pkt is  *)
(* its length and nodes[i] of the code is nodes[i+1] here.                 *)
(***************************************************************************)
EXTENDS Integers, Sequences, FiniteSets

CONSTANTS
    CounterMod,               \* the counter is a uint32_t: 2^32
    TX_START_DELAY,
    TX_MARGIN_DELAY,
    TX_JIT_DELAY,
    TX_MAX_ADVANCE_DELAY,
    BEACON_GUARD,
    BEACON_RESERVED,
    JIT_QUEUE_MAX,
    JIT_NUM_BEACON_IN_QUEUE,
    TimesOnAir                \* what lgw_time_on_air may return, in us

Half == CounterMod \div 2

(***************************************************************************)
(* The delays are positive, no sum of delays that the code forms overflows *)
(* a uint32_t, and the largest advance of a downlink stays below half the  *)
(* counter range (512 s against 2147 s in the code).                       *)
(***************************************************************************)
ASSUME JitConstants ==
    /\ CounterMod \in Nat \ {0}
    /\ CounterMod = 2 * Half
    /\ TX_START_DELAY \in Nat \ {0}
    /\ TX_MARGIN_DELAY \in Nat \ {0}
    /\ TX_JIT_DELAY \in Nat \ {0}
    /\ TX_MAX_ADVANCE_DELAY \in Nat
    /\ BEACON_GUARD \in Nat
    /\ BEACON_RESERVED \in Nat \ {0}
    /\ JIT_QUEUE_MAX \in Nat \ {0}
    /\ JIT_NUM_BEACON_IN_QUEUE \in Nat
    /\ TimesOnAir \subseteq Nat \ {0}
    /\ 2 * TX_JIT_DELAY + TX_START_DELAY + TX_MARGIN_DELAY
         < TX_MAX_ADVANCE_DELAY
    /\ TX_MAX_ADVANCE_DELAY < Half
    /\ \A d \in TimesOnAir \cup {BEACON_RESERVED} :
         TX_START_DELAY + BEACON_GUARD + 2 * TX_JIT_DELAY + TX_MARGIN_DELAY + d
           < CounterMod

-----------------------------------------------------------------------------
(* uint32_t arithmetic on in-range operands.                               *)

Counter == 0 .. CounterMod - 1

Minus(a, b) == IF a >= b THEN a - b ELSE a - b + CounterMod

(* Mutant: no wrap-around.                                                 *)
PlusWide(a, d) == a + d

Plus(a, d) == IF a + d < CounterMod THEN a + d ELSE a + d - CounterMod

(* What a counter difference means to a reader: t lies behind now.         *)
Past(t, now) == Minus(t, now) >= Half

-----------------------------------------------------------------------------
DownlinkTypes == {"CLASS_A", "CLASS_B", "CLASS_C"}
PktTypes == DownlinkTypes \cup {"BEACON"}

PreDelays == {0, TX_START_DELAY + TX_JIT_DELAY,
              TX_START_DELAY + BEACON_GUARD + TX_JIT_DELAY}
PostDelays == {0, BEACON_RESERVED} \cup TimesOnAir

(* jit_node_s; of lgw_pkt_tx_s only the timestamp matters to the queue.    *)
(* The delays are those of a zeroed node, of a downlink and of a beacon.   *)
Node == [count_us : Counter, pkt_type : PktTypes,
         pre_delay : PreDelays, post_delay : PostDelays]

NoPkt == [count_us |-> 0, pkt_type |-> "CLASS_A",
          pre_delay |-> 0, post_delay |-> 0]

(* Mutant: the time to program the packet is forgotten.                    *)
PacketNodeNoJit(c, type, toa) ==
    [count_us   |-> c,
     pkt_type   |-> type,
     pre_delay  |-> IF type = "BEACON" THEN TX_START_DELAY + BEACON_GUARD
                                       ELSE TX_START_DELAY,
     post_delay |-> IF type = "BEACON" THEN BEACON_RESERVED ELSE toa]

(* The switch of jit_enqueue: the interval a packet reserves around its    *)
(* timestamp, from its type and its time on air.                           *)
PacketNode(c, type, toa) ==
    [count_us   |-> c,
     pkt_type   |-> type,
     pre_delay  |-> IF type = "BEACON"
                      THEN TX_START_DELAY + BEACON_GUARD + TX_JIT_DELAY
                      ELSE TX_START_DELAY + TX_JIT_DELAY,
     post_delay |-> IF type = "BEACON" THEN BEACON_RESERVED ELSE toa]

(* Mutant: off by one.                                                     *)
FullAbove(q) == Len(q) > JIT_QUEUE_MAX

jit_queue_is_full(q) == Len(q) = JIT_QUEUE_MAX

jit_queue_is_empty(q) == Len(q) = 0

-----------------------------------------------------------------------------
(* qsort_r with compare(): the int difference of two uint32_t counters,    *)
(* positive when p is later than q by less than half the counter range.    *)

(* Mutant: descending order.                                               *)
compareSwapped(p, q) == LET d == Minus(q.count_us, p.count_us)
                        IN  IF d < Half THEN d ELSE d - CounterMod

compare(p, q) == LET d == Minus(p.count_us, q.count_us)
                 IN  IF d < Half THEN d ELSE d - CounterMod

Sorted(q) == \A j, k \in 1 .. Len(q) : j < k => compare(q[j], q[k]) <= 0

(* compare() orders the queue.  It does not if the queue spans half the    *)
(* counter range or more.                                                  *)
Ordered(q) ==
    \A j, k, l \in 1 .. Len(q) :
      /\ compare(q[j], q[k]) <= 0 => compare(q[k], q[j]) >= 0
      /\ compare(q[j], q[k]) <= 0 /\ compare(q[k], q[l]) <= 0
           => compare(q[j], q[l]) <= 0

Shuffles(n) == {p \in [1 .. n -> 1 .. n] :
                  /\ \A i, j \in 1 .. n : p[i] = p[j] => i = j
                  /\ \A j \in 1 .. n : \E i \in 1 .. n : p[i] = j}

Orders(q) == {[i \in 1 .. Len(q) |-> q[p[i]]] : p \in Shuffles(Len(q))}

(* The queues the sort may leave: any, if the comparison is no order.      *)
jit_sort_queue(q) == {s \in Orders(q) : Ordered(q) => Sorted(s)}

(* nodes[i] of the code: the entries from num_pkt on are zeroed.           *)
NodeAt(q, i) == IF i < Len(q) THEN q[i+1] ELSE NoPkt

(* Mutant: the last node is dropped instead of moved.                      *)
RemoveLast(q, i) == [j \in 1 .. Len(q) - 1 |-> q[j]]

(* num_pkt--, nodes[i] = nodes[num_pkt]: the last node takes the place of  *)
(* the one removed.                                                        *)
RemoveNode(q, i) ==
    [j \in 1 .. Len(q) - 1 |-> IF j = i THEN q[Len(q)] ELSE q[j]]

-----------------------------------------------------------------------------
(* Admission.                                                              *)

(* Mutant: only the overlap on the post delay is tested.                   *)
CollisionTestPost(c1, pre1, post1, c2, pre2, post2) ==
    Minus(c1, c2) <= pre1 + post2 + TX_MARGIN_DELAY

jit_collision_test(c1, pre1, post1, c2, pre2, post2) ==
    \/ Minus(c1, c2) <= pre1 + post2 + TX_MARGIN_DELAY
    \/ Minus(c2, c1) <= pre2 + post1 + TX_MARGIN_DELAY

(* The collision test of the search for an immediate slot: it honours the  *)
(* beacon guard, unlike criterion 3.                                       *)
AsapCollides(c, p, n) ==
    jit_collision_test(c, p.pre_delay, p.post_delay,
                       n.count_us, n.pre_delay, n.post_delay)

AsapAfter(n, p) ==
    Plus(n.count_us,
         n.post_delay + p.pre_delay + TX_JIT_DELAY + TX_MARGIN_DELAY)

(* The timestamp a Class C downlink gets: NOW + margin if that slot is     *)
(* free, else the slot behind the first node that leaves room before its   *)
(* successor, the last node always qualifying.  A set of one counter.      *)
AsapCounts(q, p, time_us) ==
    LET asap == Plus(time_us, 2 * TX_JIT_DELAY)
        fits(i) == \/ i = Len(q)
                   \/ ~AsapCollides(AsapAfter(q[i], p), p, q[i+1])
    IN  IF \A i \in 1 .. Len(q) : ~AsapCollides(asap, p, q[i])
          THEN {asap}
          ELSE {AsapAfter(q[i], p) :
                  i \in {k \in 1 .. Len(q) :
                           fits(k) /\ \A j \in 1 .. k - 1 : ~fits(j)}}

(* Mutant: the delays to program the packet are not considered.            *)
TooLateNow(p, time_us) == Minus(p.count_us, time_us) <= 1

(* Criterion 1. *)
TooLate(p, time_us) ==
    Minus(p.count_us, time_us)
      <= TX_START_DELAY + TX_MARGIN_DELAY + TX_JIT_DELAY

(* Mutant: not tested for Class A.                                         *)
TooEarlyB(p, time_us) ==
    /\ p.pkt_type = "CLASS_B"
    /\ Minus(p.count_us, time_us) > TX_MAX_ADVANCE_DELAY

(* Criterion 2. *)
TooEarly(p, time_us) ==
    /\ p.pkt_type \in {"CLASS_A", "CLASS_B"}
    /\ Minus(p.count_us, time_us) > TX_MAX_ADVANCE_DELAY

(* Criterion 3: the beacon guard is ignored for Class A and C downlinks.   *)
target_pre_delay(p, n) ==
    IF p.pkt_type \in {"CLASS_A", "CLASS_C"} /\ n.pkt_type = "BEACON"
      THEN TX_START_DELAY
      ELSE n.pre_delay

Collides(p, n) ==
    jit_collision_test(p.count_us, p.pre_delay, p.post_delay,
                       n.count_us, target_pre_delay(p, n), n.post_delay)

(* The first node in queue order that p collides with decides the error.   *)
CollisionError(q, p) ==
    LET first == CHOOSE i \in 1 .. Len(q) :
                   /\ Collides(p, q[i])
                   /\ \A j \in 1 .. i - 1 : ~Collides(p, q[j])
    IN  IF q[first].pkt_type = "BEACON" THEN "COLLISION_BEACON"
                                        ELSE "COLLISION_PACKET"

JitErrors == {"OK", "TOO_LATE", "TOO_EARLY", "FULL",
              "COLLISION_PACKET", "COLLISION_BEACON",
              "TX_FREQ", "TX_POWER", "GPS_UNLOCKED"}

(* What jit_enqueue answers once it holds mx_jit_queue.                    *)
JitError(q, p, time_us) ==
    CASE TooLate(p, time_us) -> "TOO_LATE"
      [] ~TooLate(p, time_us) /\ TooEarly(p, time_us) -> "TOO_EARLY"
      [] /\ ~TooLate(p, time_us) /\ ~TooEarly(p, time_us)
         /\ \E i \in 1 .. Len(q) : Collides(p, q[i]) -> CollisionError(q, p)
      [] OTHER -> "OK"

BeaconNodes(q) == {i \in 1 .. Len(q) : q[i].pkt_type = "BEACON"}

(* The delay that jit_enqueue keeps free in front of n for p, whichever of *)
(* the two was queued first.                                               *)
Ahead(p, n) ==
    IF p.pkt_type \in {"CLASS_A", "CLASS_C"} /\ n.pkt_type = "BEACON"
      THEN TX_START_DELAY
      ELSE n.pre_delay

Apart(p, n) ==
    Minus(p.count_us, n.count_us) > Ahead(n, p) + n.post_delay + TX_MARGIN_DELAY

Spread(q) == \A j, k \in 1 .. Len(q) : j # k => Apart(q[j], q[k])

=============================================================================
