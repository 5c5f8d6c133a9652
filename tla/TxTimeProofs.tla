---------------------------- MODULE TxTimeProofs ----------------------------
(***************************************************************************)
(* Time, for prompt threads and without beacons: TxPath's Prompt. Three    *)
(* invariants say, for every value of the constants, how the counter of    *)
(* the concentrator, the counts the two threads have read and the          *)
(* timestamps of the packets are related.  No packet is more than half the *)
(* range ahead and none is behind (LeadInv), the packet in the hands of    *)
(* thread_jit is the earliest one and is due (ScanInv), and the radio has  *)
(* been given a packet that leaves room for those it was queued with       *)
(* (RadioInv).  Every step preserves them, provided that the slots found   *)
(* for immediate downlinks are not too far ahead (AsapAhead), which        *)
(* TxPromptProofs shows before it concludes.                               *)
(***************************************************************************)
EXTENDS TxPathProofs

(* The provers, and the seconds each of them gets.                         *)
USE SMTT(10), ZenonT(10), SMTT(20), SMTT(30)

-----------------------------------------------------------------------------
(* Time. *)

(* Differences of counters add up, modulo the range of the counter.        *)
LEMMA MinusChain ==
    ASSUME NEW x \in Counter, NEW y \in Counter, NEW z \in Counter
    PROVE  /\ Minus(x, z) \in 0 .. CounterMod - 1
           /\ Minus(x, y) \in 0 .. CounterMod - 1
           /\ Minus(y, z) \in 0 .. CounterMod - 1
           /\ \/ Minus(x, z) = Minus(x, y) + Minus(y, z)
              \/ Minus(x, z) = Minus(x, y) + Minus(y, z) - CounterMod
BY JitConstants DEF Minus, Counter

(* A counter and the same one a delay later.                               *)
LEMMA PlusMinus ==
    ASSUME NEW x \in Counter, NEW d \in Nat, d < CounterMod
    PROVE  Plus(x, d) \in Counter /\ Minus(Plus(x, d), x) = d /\ Minus(x, x) = 0
BY JitConstants DEF Minus, Plus, Counter

(* The counter, as far as the proofs below need it.                        *)
LEMMA Bounds ==
    /\ CounterMod \in Nat /\ Half \in Nat /\ CounterMod = 2 * Half
    /\ TX_START_DELAY \in Nat \ {0} /\ TX_JIT_DELAY \in Nat \ {0}
    /\ TX_MARGIN_DELAY \in Nat \ {0} /\ TX_MAX_ADVANCE_DELAY \in Nat
    /\ JIT_QUEUE_MAX \in Nat \ {0}
    /\ 2 * TX_JIT_DELAY + TX_START_DELAY + TX_MARGIN_DELAY
         < TX_MAX_ADVANCE_DELAY
    /\ TX_MAX_ADVANCE_DELAY < Half
    /\ DOWN_LATENCY \in Nat \ {0} /\ JIT_LATENCY \in Nat \ {0}
<1>1. Half \in Nat
  BY JitConstants DEF Half
<1> QED
  BY <1>1, JitConstants, TxPathConstants

Downlink(n) ==
    /\ n.pkt_type # "BEACON"
    /\ n.pre_delay = TX_START_DELAY + TX_JIT_DELAY
    /\ n.post_delay \in TimesOnAir

Lead(n) == Minus(n.count_us, now)        \* until its timestamp
Due(n) == Minus(n.count_us, jit_time)    \* the same, as thread_jit sees it

Earliest == JIT_LATENCY + TX_START_DELAY + 1
Later == 2 * JIT_LATENCY + TX_START_DELAY + 1

(* Every packet in the queue is a downlink whose time is to come, and not  *)
(* before thread_jit has read the counter once more.                       *)
LeadInv ==
    /\ Minus(now, jit_time) <= JIT_LATENCY
    /\ DownInCall => Minus(now, down_time) <= DOWN_LATENCY /\ Downlink(down_pkt)
    /\ \A n \in Packets(nodes) :
         Downlink(n) /\ Lead(n) < Half /\ Due(n) >= Earliest

(* A downlink that is waiting: how the two differences are related.        *)
LEMMA LeadDue ==
    ASSUME Prompt, TypeOK, NEW n \in Node, Minus(now, jit_time) <= JIT_LATENCY
    PROVE  /\ Lead(n) \in Nat /\ Due(n) \in Nat
           /\ Minus(now, jit_time) \in Nat
           /\ Lead(n) < Half => Due(n) = Lead(n) + Minus(now, jit_time)
           /\ Due(n) >= Earliest =>
                /\ Lead(n) = Due(n) - Minus(now, jit_time)
                /\ Lead(n) >= TX_START_DELAY + 1
<1> DEFINE c == n.count_us
<1>1. c \in Counter /\ now \in Counter /\ jit_time \in Counter
  BY DelayBounds, Types
<1>2. /\ Minus(c, jit_time) \in 0 .. CounterMod - 1
      /\ Minus(c, now) \in 0 .. CounterMod - 1
      /\ Minus(now, jit_time) \in 0 .. CounterMod - 1
      /\ \/ Minus(c, jit_time) = Minus(c, now) + Minus(now, jit_time)
         \/ Minus(c, jit_time) = Minus(c, now) + Minus(now, jit_time) - CounterMod
  BY <1>1, MinusChain
<1>3. 2 * JIT_LATENCY + TX_START_DELAY < TX_JIT_DELAY
  BY DEF Prompt
<1> HIDE DEF c
<1> QED
  BY <1>2, <1>3, Bounds DEF Lead, Due, Earliest, c

(* Where timestamps are less than half the range ahead, compare() compares *)
(* them.                                                                   *)
LEMMA CompareLead ==
    ASSUME TypeOK, NEW m \in Node, NEW n \in Node, Lead(m) < Half, Lead(n) < Half
    PROVE  /\ Lead(m) \in Nat /\ Lead(n) \in Nat
           /\ compare(m, n) = Lead(m) - Lead(n)
<1> DEFINE a == m.count_us
           b == n.count_us
<1>1. a \in Counter /\ b \in Counter /\ now \in Counter
  BY DelayBounds, Types
<1>2. /\ Minus(a, now) \in 0 .. CounterMod - 1
      /\ Minus(a, b) \in 0 .. CounterMod - 1
      /\ Minus(b, now) \in 0 .. CounterMod - 1
      /\ \/ Minus(a, now) = Minus(a, b) + Minus(b, now)
         \/ Minus(a, now) = Minus(a, b) + Minus(b, now) - CounterMod
  BY <1>1, MinusChain
<1> HIDE DEF a, b
<1>3. compare(m, n) = IF Minus(a, b) < Half THEN Minus(a, b)
                                            ELSE Minus(a, b) - CounterMod
  BY DEF compare, a, b
<1> QED
  BY <1>2, <1>3, Bounds DEF Lead, a, b

(* Such a queue is one that compare() orders.                              *)
LEMMA LeadOrders ==
    ASSUME TypeOK, \A n \in Packets(nodes) : Lead(n) < Half
    PROVE  QueueOrdered
<1>1. \A j \in 1 .. Len(nodes) : nodes[j] \in Node /\ Lead(nodes[j]) < Half
  BY SeqElement, Types DEF Packets
<1>2. \A j \in 1 .. Len(nodes) : Lead(nodes[j]) \in Nat
  BY <1>1, CompareLead
<1>3. \A j, k \in 1 .. Len(nodes) :
        compare(nodes[j], nodes[k]) = Lead(nodes[j]) - Lead(nodes[k])
  BY <1>1, CompareLead
<1> QED
  BY <1>2, <1>3 DEF QueueOrdered, Ordered

(* A sorted one is sorted by the timestamps.                               *)
LEMMA SortedLead ==
    ASSUME TypeOK, NoOverlap, Sorted(nodes),
           \A n \in Packets(nodes) : Lead(n) < Half,
           NEW j \in 1 .. Len(nodes), NEW k \in 1 .. Len(nodes), j < k
    PROVE  Lead(nodes[j]) < Lead(nodes[k])
<1>1. nodes \in Seq(Node) /\ Spread(nodes) /\ Ordered(nodes)
  BY LeadOrders, Types DEF NoOverlap, QueueOrdered
<1>2. compare(nodes[j], nodes[k]) < 0
  BY <1>1, SortedStrictly
<1>3. /\ nodes[j] \in Node /\ Lead(nodes[j]) < Half
      /\ nodes[k] \in Node /\ Lead(nodes[k]) < Half
  BY <1>1, SeqElement DEF Packets
<1> QED
  BY <1>2, <1>3, CompareLead

-----------------------------------------------------------------------------
(* The search for an immediate slot of a Class C downlink. *)

(* Multiples, for the induction over the queue.                            *)
LEMMA Multiples ==
    ASSUME NEW a \in Nat, NEW b \in Nat, NEW g \in Nat
    PROVE  /\ a * g \in Nat /\ (a + 1) * g = a * g + g
           /\ a <= b => a * g <= b * g
OBVIOUS

(* How far ahead of a time t the k-th node may be, when there is no room   *)
(* before it: each slot takes w, and so does the gap before the next one.  *)
ChainBound(k, w) == 2 * TX_JIT_DELAY + w + (k - 1) * (2 * w + TX_JIT_DELAY)

(* w bounds a slot.                                                        *)
SlotBound(w) ==
    /\ w \in Nat
    /\ \A d \in TimesOnAir :
         TX_START_DELAY + TX_JIT_DELAY + TX_MARGIN_DELAY + d <= w
    /\ 2 * TX_JIT_DELAY + (JIT_QUEUE_MAX - 1) * (2 * w + TX_JIT_DELAY) < Half

-----------------------------------------------------------------------------
(* The time left. *)

(* Between two scans every packet in the queue has time for two more       *)
(* readings of the counter, except for the one peeked.  That one is the    *)
(* first in the queue, stays the first until it is dequeued, and is due.   *)
ScanInv ==
    /\ jit_pc \notin {"start", "peek"} =>
         \A n \in Packets(nodes) :
           Due(n) >= Later \/ (jit_pc = "dequeue" /\ n = jit_pkt)
    /\ jit_pc = "peek" =>
         \/ /\ idx_highest_priority = NONE
            /\ i = 0 \/ \A n \in Packets(nodes) : ~Fresh(n)
         \/ idx_highest_priority = 0
    /\ jit_pc = "dequeue" => pkt_index = 0 /\ nodes[1] = jit_pkt
    /\ jit_pc \in {"dequeue", "status", "send"} =>
         /\ Downlink(jit_pkt) /\ Lead(jit_pkt) < Half
         /\ Due(jit_pkt) >= Earliest /\ Due(jit_pkt) < TX_JIT_DELAY

(* The packets in the queue are nodes.                                     *)
LEMMA PacketsAreNodes == QueueInv => \A n \in Packets(nodes) : n \in Node
BY SeqElement, QueueTypes DEF Packets

(* The slot that jit_enqueue finds for an immediate packet is less than    *)
(* half the counter range ahead.                                           *)
AsapAhead ==
    down_pc = "enqueue" =>
      \A p \in Node : Downlink(p) =>
        \A c \in AsapCounts(nodes, p, down_time) : Minus(c, down_time) < Half

(* A packet that jit_enqueue accepts has time for two more readings of the *)
(* counter, although thread_down read it some time ago.                    *)
LEMMA AcceptedAhead ==
    ASSUME Prompt, QueueInv, PeekInv, LeadInv, AsapAhead, JitEnqueue,
           NEW p, Enqueues(p, "OK")
    PROVE  p \in Node /\ Downlink(p) /\ Lead(p) < Half /\ Due(p) >= Later
<1> DEFINE e == Minus(now, down_time)
           d == Minus(p.count_us, down_time)
<1>1. /\ p \in Node /\ down_pkt \in Node /\ DownInCall
      /\ now \in Counter /\ down_time \in Counter /\ jit_time \in Counter
      /\ TypeOK /\ Sorted(nodes) /\ Len(nodes) < JIT_QUEUE_MAX
  BY QueueTypes DEF Enqueues, JitEnqueue, DownInCall, PeekInv
<1>2. Downlink(down_pkt) /\ Downlink(p) /\ p.count_us \in Counter
  BY <1>1, DelayBounds DEF LeadInv, Downlink, Enqueues
<1>3. /\ d \in 0 .. CounterMod - 1 /\ Lead(p) \in 0 .. CounterMod - 1
      /\ e \in 0 .. CounterMod - 1 /\ e <= DOWN_LATENCY
      /\ d = Lead(p) + e \/ d = Lead(p) + e - CounterMod
  <2>1. Minus(now, down_time) <= DOWN_LATENCY
    BY <1>1 DEF LeadInv
  <2>2. p.count_us \in Counter /\ now \in Counter /\ down_time \in Counter
    BY <1>1, <1>2
  <2> QED
    BY <2>1, <2>2, MinusChain DEF Lead
<1>4. ~TooLate(p, down_time) /\ ~TooEarly(p, down_time)
  BY DEF Enqueues, JitError, CollisionError
<1>5. d > TX_START_DELAY + TX_MARGIN_DELAY + TX_JIT_DELAY
  BY <1>3, <1>4, Bounds DEF TooLate
<1>6. d < Half
  <2>1. CASE p.pkt_type = "CLASS_C"
    <3>1. p.count_us \in AsapCounts(nodes, down_pkt, down_time)
      BY <2>1 DEF Enqueues
    <3> QED
      BY <1>1, <1>2, <3>1 DEF AsapAhead, JitEnqueue
  <2>2. CASE p.pkt_type # "CLASS_C"
    <3>1. p.pkt_type \in {"CLASS_A", "CLASS_B"}
      BY <1>1, <1>2, <2>2 DEF Node, PktTypes, DownlinkTypes, Downlink
    <3>2. d <= TX_MAX_ADVANCE_DELAY
      BY <1>3, <1>4, <3>1, Bounds DEF TooEarly
    <3> QED
      BY <1>3, <3>2, Bounds
  <2> QED
    BY <2>1, <2>2
<1>7. /\ 2 * JIT_LATENCY + TX_START_DELAY < TX_JIT_DELAY
      /\ DOWN_LATENCY + 2 * JIT_LATENCY <= TX_JIT_DELAY + TX_MARGIN_DELAY
  BY DEF Prompt
<1>8. Lead(p) < Half /\ Lead(p) >= Later /\ Lead(p) \in Nat
  <2> HIDE DEF e, d
  <2> QED
    BY <1>3, <1>5, <1>6, <1>7, Bounds DEF Later
<1>9. /\ Due(p) = Lead(p) + Minus(now, jit_time)
      /\ Minus(now, jit_time) \in Nat
  BY <1>1, <1>8, LeadDue DEF LeadInv
<1> QED
  BY <1>1, <1>2, <1>8, <1>9, Bounds DEF Later

(* A tick brings a packet one tick nearer.                                 *)
LEMMA TickLead ==
    ASSUME Prompt, TypeOK, Tick, NEW n \in Node,
           Minus(now, jit_time) <= JIT_LATENCY, Due(n) >= Earliest
    PROVE  Minus(n.count_us, now') = Lead(n) - 1
<1>1. Lead(n) \in Nat /\ Lead(n) >= 1
  BY LeadDue, Bounds
<1>2. now \in Counter /\ now' = Plus(now, 1) /\ n.count_us \in Counter
  BY DelayBounds, Types DEF Tick
<1>3. now' \in Counter /\ Minus(now', now) = 1
  BY <1>2, PlusMinus, Bounds
<1>4. /\ Minus(n.count_us, now') \in 0 .. CounterMod - 1
      /\ \/ Lead(n) = Minus(n.count_us, now') + 1
         \/ Lead(n) = Minus(n.count_us, now') + 1 - CounterMod
  BY <1>2, <1>3, MinusChain DEF Lead
<1> QED
  BY <1>1, <1>4, Bounds

(* The delays of the threads after a tick.                                 *)
LEMMA TickAge ==
    ASSUME Prompt, TypeOK, Tick
    PROVE  /\ Minus(now', jit_time) <= JIT_LATENCY
           /\ DownInCall => Minus(now', down_time) <= DOWN_LATENCY
<1>1. /\ now \in Counter /\ jit_time \in Counter /\ down_time \in Counter
      /\ now' = Plus(now, 1)
      /\ Minus(now, jit_time) < JIT_LATENCY
      /\ DownInCall => Minus(now, down_time) < DOWN_LATENCY
  BY Types DEF Tick, DownInCall
<1>2. now' \in Counter /\ Minus(now', now) = 1
  BY <1>1, PlusMinus, Bounds
<1>3. /\ Minus(now', jit_time) \in 0 .. CounterMod - 1
      /\ Minus(now, jit_time) \in 0 .. CounterMod - 1
      /\ \/ Minus(now', jit_time) = 1 + Minus(now, jit_time)
         \/ Minus(now', jit_time) = 1 + Minus(now, jit_time) - CounterMod
  BY <1>1, <1>2, MinusChain
<1>4. /\ Minus(now', down_time) \in 0 .. CounterMod - 1
      /\ Minus(now, down_time) \in 0 .. CounterMod - 1
      /\ \/ Minus(now', down_time) = 1 + Minus(now, down_time)
         \/ Minus(now', down_time) = 1 + Minus(now, down_time) - CounterMod
  BY <1>1, <1>2, MinusChain
<1> QED
  BY <1>1, <1>3, <1>4, Bounds

(* A step at which no time passes and no packet enters the queue.          *)
LEMMA LeadKept ==
    ASSUME LeadInv, UNCHANGED <<now, jit_time>>,
           Packets(nodes') \subseteq Packets(nodes),
           DownInCall' => /\ Minus(now, down_time') <= DOWN_LATENCY
                          /\ Downlink(down_pkt)'
    PROVE  LeadInv'
BY DEF LeadInv, Lead, Due, Downlink

(* Every step.                                                             *)
LEMMA NextLeadInv ==
    ASSUME Prompt, QueueInv, PeekInv, LeadInv, AsapAhead, ScanInv, [Next]_vars
    PROVE  LeadInv'
<1> USE DEF queueVars, downVars, beaconVars, radioVars, jitVars, DownInCall
<1>1. /\ TypeOK /\ now \in Counter /\ Minus(now, now) = 0
      /\ Minus(now, jit_time) <= JIT_LATENCY
      /\ DownInCall => Minus(now, down_time) <= DOWN_LATENCY
  BY PlusMinus, Bounds, QueueTypes DEF LeadInv
<1>2. CASE Tick
  <2>1. UNCHANGED <<nodes, jit_time, down_time, down_pc, down_pkt>>
    BY <1>2 DEF Tick
  <2>2. ASSUME NEW n \in Packets(nodes)
        PROVE  /\ Downlink(n) /\ Due(n) >= Earliest
               /\ Minus(n.count_us, now') < Half
    <3>1. n \in Node /\ Downlink(n) /\ Lead(n) < Half /\ Due(n) >= Earliest
      BY PacketsAreNodes DEF LeadInv
    <3>2. Minus(n.count_us, now') = Lead(n) - 1 /\ Lead(n) \in Nat
      BY <1>1, <1>2, <3>1, TickLead, LeadDue
    <3> QED
      BY <3>1, <3>2, Bounds
  <2>3. DownInCall => Downlink(down_pkt)
    BY DEF LeadInv
  <2> QED
    BY <1>1, <1>2, <2>1, <2>2, <2>3, TickAge DEF LeadInv, Lead, Due, Downlink
<1>3. CASE DownRecv \/ DownPrepare
  <2>1. UNCHANGED <<now, nodes, jit_time>> /\ down_time' = now
    BY <1>3 DEF DownRecv, DownPrepare
  <2>2. DownInCall' => Downlink(down_pkt)'
    <3>1. CASE DownRecv
      BY <3>1 DEF DownRecv
    <3>2. CASE DownPrepare
      BY <3>2, TxPathConstants DEF DownPrepare, PacketNode, DownlinkTypes, Downlink
    <3> QED
      BY <1>3, <3>1, <3>2
  <2>3. Minus(now, down_time') <= DOWN_LATENCY
    BY <1>1, <2>1, Bounds
  <2> QED
    BY <2>1, <2>2, <2>3, LeadKept
<1>4. CASE JitEnqueue
  <2>1. PICK p, e : Enqueues(p, e)
    BY <1>4, EnqueueCases
  <2>2. /\ UNCHANGED <<now, jit_time, down_time>> /\ ~DownInCall'
    BY <1>4, <2>1, DoneLoop DEF JitEnqueue, Enqueues, EnqueueDone
  <2>3. CASE e = "OK"
    <3>1. Packets(nodes') = Packets(nodes) \cup {p}
      BY <1>4, <2>1, <2>3, AcceptedQueue
    <3>2. Downlink(p) /\ Lead(p) < Half /\ Due(p) >= Later /\ p \in Node
      BY <1>4, <2>1, <2>3, AcceptedAhead
    <3>3. Due(p) >= Earliest
      <4>1. Due(p) \in Nat
        BY <1>1, <3>2, LeadDue
      <4> QED
        BY <3>2, <4>1, Bounds DEF Earliest, Later
    <3> QED
      BY <1>1, <2>2, <3>1, <3>2, <3>3 DEF LeadInv, Lead, Due
  <2>4. CASE e # "OK"
    <3>1. UNCHANGED nodes
      BY <2>1, <2>4 DEF Enqueues
    <3> QED
      BY <1>1, <2>2, <3>1, LeadKept
  <2> QED
    BY <2>3, <2>4
<1>5. CASE JitReadCounter
  <2>1. /\ UNCHANGED <<now, nodes, down_time, down_pc, down_pkt>>
        /\ jit_pc = "wait" /\ jit_time' = now
    BY <1>5 DEF JitReadCounter
  <2>2. ASSUME NEW n \in Packets(nodes)
        PROVE  Downlink(n) /\ Lead(n) < Half /\ Lead(n) >= Earliest
    <3>1. n \in Node /\ Downlink(n) /\ Lead(n) < Half /\ Due(n) >= Later
      BY <2>1, PacketsAreNodes DEF LeadInv, ScanInv
    <3>2. /\ Due(n) = Lead(n) + Minus(now, jit_time)
          /\ Lead(n) \in Nat /\ Minus(now, jit_time) \in Nat
      BY <1>1, <3>1, LeadDue
    <3> QED
      BY <1>1, <3>1, <3>2, Bounds DEF Later, Earliest
  <2>3. Minus(now', jit_time') <= JIT_LATENCY
    BY <1>1, <2>1, Bounds
  <2>4. DownInCall => Downlink(down_pkt)
    BY DEF LeadInv
  <2> QED
    BY <1>1, <2>1, <2>2, <2>3, <2>4 DEF LeadInv, Lead, Due, Downlink
<1>6. CASE PeekDrop
  <2>1. i + 1 \in 1 .. Len(nodes)
    BY <1>1, <1>6, Types DEF PeekDrop
  <2>2. Packets(nodes') \subseteq Packets(nodes)
    BY <1>6, <2>1, ShortenedQueue DEF PeekDrop
  <2>3. DownInCall' => Downlink(down_pkt)'
    BY <1>6 DEF PeekDrop, LeadInv, Downlink
  <2> QED
    BY <1>1, <1>6, <2>2, <2>3, LeadKept DEF PeekDrop
<1>7. CASE JitDequeue
  <2>1. pkt_index + 1 \in 1 .. Len(nodes)
    BY <1>7, Dequeued, Zenon
  <2>2. Packets(nodes') \subseteq Packets(nodes)
    BY <1>7, Dequeued, Zenon
  <2>3. DownInCall' => Downlink(down_pkt)'
    BY <1>7 DEF JitDequeue, LeadInv, Downlink
  <2> QED
    BY <1>1, <1>7, <2>2, <2>3, LeadKept DEF JitDequeue
<1>8. CASE JitFullCheck
  <2>1. UNCHANGED <<now, nodes, jit_time, down_time>> /\ DownInCall
    BY <1>8 DEF JitFullCheck, EnqueueDone
  <2>2. DownInCall' => Downlink(down_pkt)'
    <3>1. CASE jit_queue_is_full(nodes)
      BY <1>8, <3>1, DoneLoop DEF JitFullCheck
    <3>2. CASE ~jit_queue_is_full(nodes)
      BY <1>8, <3>2 DEF JitFullCheck, LeadInv, Downlink
    <3> QED
      BY <3>1, <3>2
  <2> QED
    BY <1>1, <2>1, <2>2, LeadKept
<1>9. CASE \/ GpsChange \/ BeaconLoopEnd \/ DownIgnore \/ DownReject
           \/ PeekStart \/ PeekScan \/ PeekEnd \/ JitStatus \/ JitSend
           \/ UNCHANGED vars
  <2>1. /\ UNCHANGED <<now, nodes, jit_time, down_time, down_pkt>>
        /\ DownInCall' => DownInCall
    <3>1. CASE GpsChange \/ UNCHANGED vars
      BY <3>1 DEF GpsChange, vars
    <3>2. CASE BeaconLoopEnd
      BY <3>2 DEF BeaconLoopEnd
    <3>3. CASE DownIgnore \/ DownReject
      BY <3>3 DEF DownIgnore, DownReject
    <3>4. CASE PeekStart \/ PeekScan \/ PeekEnd
      BY <3>4 DEF PeekStart, PeekScan, PeekEnd
    <3>5. CASE JitStatus \/ JitSend
      BY <3>5 DEF JitStatus, JitSend
    <3> QED
      BY <1>9, <3>1, <3>2, <3>3, <3>4, <3>5
  <2>2. DownInCall' => Downlink(down_pkt)'
    BY <2>1 DEF LeadInv, Downlink
  <2> QED
    BY <1>1, <2>1, <2>2, LeadKept
<1>10. ~BeaconPrepare
  BY DEF BeaconPrepare, Prompt
<1> QED
  BY <1>2, <1>3, <1>4, <1>5, <1>6, <1>7, <1>8, <1>9, <1>10
     DEF Next, thread_down, thread_jit

(* A downlink that is due keeps all others at a distance.                  *)
LEMMA ApartDue ==
    ASSUME TypeOK, NEW m \in Node, NEW n \in Node, Downlink(m), Downlink(n),
           Apart(m, n), Apart(n, m), Due(n) < TX_JIT_DELAY
    PROVE  /\ Due(m) \in Nat /\ Due(n) \in Nat
           /\ Due(m) > TX_START_DELAY + TX_JIT_DELAY
           /\ Minus(m.count_us, n.count_us) = Due(m) - Due(n)
<1> DEFINE x == m.count_us
           y == n.count_us
<1>1. /\ x \in Counter /\ y \in Counter /\ jit_time \in Counter
      /\ m.post_delay \in Nat /\ n.post_delay \in Nat
  BY DelayBounds, Types
<1>2. Ahead(n, m) = TX_START_DELAY + TX_JIT_DELAY
      /\ Ahead(m, n) = TX_START_DELAY + TX_JIT_DELAY
  BY DEF Ahead, Downlink
<1>3. /\ Due(m) \in 0 .. CounterMod - 1 /\ Due(n) \in 0 .. CounterMod - 1
      /\ Minus(x, y) \in 0 .. CounterMod - 1
      /\ \/ Due(m) = Minus(x, y) + Due(n)
         \/ Due(m) = Minus(x, y) + Due(n) - CounterMod
  BY <1>1, MinusChain DEF Due
<1>4. /\ Minus(y, x) \in 0 .. CounterMod - 1
      /\ \/ Due(n) = Minus(y, x) + Due(m)
         \/ Due(n) = Minus(y, x) + Due(m) - CounterMod
  BY <1>1, MinusChain DEF Due
<1>5. /\ Minus(x, y) > TX_START_DELAY + TX_JIT_DELAY + n.post_delay + TX_MARGIN_DELAY
      /\ Minus(y, x) > TX_START_DELAY + TX_JIT_DELAY + m.post_delay + TX_MARGIN_DELAY
  BY <1>2 DEF Apart
<1> HIDE DEF x, y
<1> QED
  BY <1>1, <1>3, <1>4, <1>5, Bounds DEF x, y

(* Seen from thread_jit, too, the queue is sorted.                         *)
LEMMA SortedDue ==
    ASSUME Prompt, QueueInv, PeekInv, LeadInv,
           NEW j \in 1 .. Len(nodes), NEW k \in 1 .. Len(nodes), j < k
    PROVE  /\ Due(nodes[j]) \in Nat /\ Due(nodes[k]) \in Nat
           /\ Due(nodes[j]) < Due(nodes[k])
<1>1. /\ TypeOK /\ NoOverlap /\ Sorted(nodes)
      /\ \A n \in Packets(nodes) : Lead(n) < Half
      /\ Minus(now, jit_time) <= JIT_LATENCY
  BY DEF QueueInv, PeekInv, LeadInv
<1>2. /\ nodes[j] \in Node /\ Lead(nodes[j]) < Half
      /\ nodes[k] \in Node /\ Lead(nodes[k]) < Half
  BY <1>1, SeqElement, Types DEF Packets
<1>3. Lead(nodes[j]) < Lead(nodes[k])
  BY <1>1, SortedLead
<1>4. /\ Due(nodes[j]) = Lead(nodes[j]) + Minus(now, jit_time)
      /\ Due(nodes[k]) = Lead(nodes[k]) + Minus(now, jit_time)
      /\ Lead(nodes[j]) \in Nat /\ Lead(nodes[k]) \in Nat
      /\ Minus(now, jit_time) \in Nat
  BY <1>1, <1>2, LeadDue
<1> QED
  BY <1>3, <1>4

(* The first node is the earliest.                                         *)
LEMMA FirstDue ==
    ASSUME Prompt, QueueInv, PeekInv, LeadInv, NEW n \in Packets(nodes)
    PROVE  /\ 1 \in 1 .. Len(nodes) /\ nodes[1] \in Packets(nodes)
           /\ Due(nodes[1]) \in Nat /\ Due(n) \in Nat
           /\ Due(nodes[1]) <= Due(n)
<1>1. PICK j \in 1 .. Len(nodes) : n = nodes[j]
  BY DEF Packets
<1>2. Len(nodes) \in Nat
  BY QueueTypes
<1>3. 1 \in 1 .. Len(nodes) /\ nodes[1] \in Packets(nodes)
  BY <1>1, <1>2 DEF Packets
<1>4. \A x \in Packets(nodes) : Due(x) \in Nat
  BY PacketsAreNodes, LeadDue DEF QueueInv, LeadInv
<1>5. CASE j = 1
  BY <1>1, <1>3, <1>4, <1>5
<1>6. CASE 1 < j
  BY <1>1, <1>3, <1>4, <1>6, SortedDue
<1> QED
  BY <1>2, <1>5, <1>6

(* Two packets in the queue are apart.                                     *)
LEMMA PacketsApart ==
    ASSUME QueueInv, NEW m \in Packets(nodes), NEW n \in Packets(nodes), m # n
    PROVE  Apart(m, n) /\ Apart(n, m)
BY DEF QueueInv, NoOverlap, Spread, Packets

(* jit_peek scans another node: the first one remains the best.            *)
LEMMA ScanScan ==
    ASSUME Prompt, QueueInv, PeekInv, LeadInv, ScanInv, PeekScan PROVE ScanInv'
<1> DEFINE idx == idx_highest_priority
<1>1. /\ jit_pc = "peek" /\ i < Len(nodes) /\ Fresh(nodes[i+1])
      /\ i \in Nat /\ Len(nodes) \in Nat /\ i' = i + 1
      /\ UNCHANGED <<nodes, jit_pc, jit_time>>
      /\ idx' = IF idx = NONE \/ Due(nodes[i+1]) < Due(NodeAt(nodes, idx))
                  THEN i ELSE idx
  BY QueueTypes DEF PeekScan, queueVars, Fresh, Due
<1>2. i + 1 \in 1 .. Len(nodes) /\ nodes[i+1] \in Packets(nodes)
  BY <1>1 DEF Packets
<1>3. CASE idx = NONE
  <2>1. i = 0
    BY <1>1, <1>2, <1>3 DEF ScanInv, NONE
  <2>2. idx' = 0
    BY <1>1, <1>3, <2>1
  <2> QED
    BY <1>1, <2>2 DEF ScanInv
<1>4. CASE idx = 0
  <2>1. NodeAt(nodes, idx) = nodes[1]
    BY <1>1, <1>4 DEF NodeAt
  <2>2. Due(nodes[1]) <= Due(nodes[i+1]) /\ Due(nodes[1]) \in Nat
        /\ Due(nodes[i+1]) \in Nat
    BY <1>2, FirstDue
  <2>3. idx' = 0
    BY <1>1, <1>4, <2>1, <2>2 DEF NONE
  <2> QED
    BY <1>1, <2>3 DEF ScanInv
<1> QED
  BY <1>1, <1>3, <1>4 DEF ScanInv

(* jit_peek purges a node: if it is the first, none is fresh.              *)
LEMMA DropScan ==
    ASSUME Prompt, QueueInv, PeekInv, LeadInv, ScanInv, PeekDrop PROVE ScanInv'
<1> DEFINE idx == idx_highest_priority
<1>1. /\ jit_pc = "peek" /\ i < Len(nodes) /\ i \in Nat /\ Len(nodes) \in Nat
      /\ Due(nodes[i+1]) >= TX_MAX_ADVANCE_DELAY
      /\ UNCHANGED <<jit_pc, jit_time, idx>>
  BY QueueTypes DEF PeekDrop, Due
<1>2. i + 1 \in 1 .. Len(nodes)
  BY <1>1
<1>3. Packets(nodes') \subseteq Packets(nodes)
  BY <1>2, ShortenedQueue DEF PeekDrop
<1>4. CASE idx = 0
  BY <1>1, <1>4 DEF ScanInv
<1>5. CASE idx = NONE
  <2>1. ASSUME i = 0, NEW n \in Packets(nodes) PROVE ~Fresh(n)
    <3>1. /\ Due(nodes[1]) <= Due(n) /\ Due(nodes[1]) \in Nat /\ Due(n) \in Nat
      BY FirstDue
    <3>2. Due(nodes[1]) >= TX_MAX_ADVANCE_DELAY
      BY <1>1, <2>1
    <3> QED
      BY <3>1, <3>2, Bounds DEF Fresh, Due
  <2>2. \A n \in Packets(nodes) : ~Fresh(n)
    BY <1>1, <1>5, <2>1 DEF ScanInv, NONE
  <2>3. \A n \in Packets(nodes') : ~(Fresh(n)')
    BY <1>1, <1>3, <2>2 DEF Fresh
  <2> QED
    BY <1>1, <1>5, <2>3 DEF ScanInv
<1> QED
  BY <1>1, <1>4, <1>5 DEF ScanInv

(* The end of jit_peek: a packet that is due is the first, and all others  *)
(* keep their distance from it; else none is due.                          *)
LEMMA EndScan ==
    ASSUME Prompt, QueueInv, PeekInv, LeadInv, ScanInv, PeekEnd PROVE ScanInv'
<1> DEFINE idx == idx_highest_priority
           best == NodeAt(nodes, idx)
           found == idx # NONE /\ Due(best) < TX_JIT_DELAY
<1>1. /\ jit_pc = "peek" /\ i >= Len(nodes) /\ TypeOK
      /\ UNCHANGED <<now, nodes, jit_time>> /\ Len(nodes) \in Nat
      /\ IF found THEN /\ pkt_index' = idx /\ jit_pkt' = best
                       /\ jit_pc' = "dequeue"
                  ELSE jit_pc' = "wait"
  BY QueueTypes DEF PeekEnd, queueVars, Due
<1>2. 2 * JIT_LATENCY + TX_START_DELAY < TX_JIT_DELAY
  BY DEF Prompt
<1>3. \A n \in Packets(nodes) :
        /\ n \in Node /\ Downlink(n) /\ Lead(n) < Half
        /\ Due(n) >= Earliest /\ Due(n) \in Nat
  BY <1>1, PacketsAreNodes, LeadDue DEF LeadInv
<1>4. idx # NONE => idx = 0 /\ best = nodes[1] /\ nodes[1] \in Packets(nodes)
  <2> SUFFICES ASSUME idx # NONE PROVE idx = 0 /\ best = nodes[1] /\ nodes[1] \in Packets(nodes)
    OBVIOUS
  <2>1. idx = 0 /\ 0 < Len(nodes)
    BY <1>1 DEF ScanInv, PeekInv
  <2>2. 1 \in 1 .. Len(nodes) /\ best = nodes[1]
    BY <1>1, <2>1 DEF NodeAt
  <2> QED
    BY <2>1, <2>2 DEF Packets
<1>5. CASE found
  <2>1. /\ idx = 0 /\ best = nodes[1] /\ best \in Packets(nodes)
        /\ Due(best) < TX_JIT_DELAY
    BY <1>4, <1>5
  <2> HIDE DEF best
  <2>2. /\ jit_pc' = "dequeue" /\ pkt_index' = 0 /\ jit_pkt' = best
        /\ nodes'[1] = best
    BY <1>1, <1>5, <2>1
  <2>3. ASSUME NEW n \in Packets(nodes), n # best PROVE Due(n) >= Later
    <3>1. Apart(n, best) /\ Apart(best, n)
      BY <2>1, <2>3, PacketsApart
    <3>2. Due(n) > TX_START_DELAY + TX_JIT_DELAY /\ Due(n) \in Nat
      BY <1>1, <1>3, <2>1, <3>1, ApartDue
    <3> QED
      BY <1>2, <3>2, Bounds DEF Later
  <2> QED
    BY <1>1, <1>3, <2>1, <2>2, <2>3 DEF ScanInv, Due, Lead, Downlink
<1>6. CASE ~found
  <2>1. jit_pc' = "wait"
    BY <1>1, <1>6
  <2>2. ASSUME NEW n \in Packets(nodes) PROVE Due(n) >= Later
    <3>1. Due(nodes[1]) <= Due(n) /\ Due(nodes[1]) \in Nat /\ Due(n) \in Nat
          /\ 1 \in 1 .. Len(nodes)
      BY FirstDue
    <3>2. CASE idx # NONE
      <4>1. ~(Due(nodes[1]) < TX_JIT_DELAY)
        BY <1>4, <1>6, <3>2
      <4> QED
        BY <1>2, <3>1, <4>1, Bounds DEF Later
    <3>3. CASE idx = NONE
      <4>1. i # 0
        BY <1>1, <3>1
      <4>2. ~Fresh(n)
        BY <1>1, <3>3, <4>1 DEF ScanInv, NONE
      <4>3. Due(n) >= TX_MAX_ADVANCE_DELAY
        BY <3>1, <4>2, Bounds DEF Fresh, Due
      <4> QED
        BY <1>2, <3>1, <4>3, Bounds DEF Later
    <3> QED
      BY <3>2, <3>3
  <2> QED
    BY <1>1, <2>1, <2>2 DEF ScanInv, Due
<1> QED
  BY <1>5, <1>6

(* jit_enqueue, between jit_peek and jit_dequeue: the packet that jit_peek *)
(* found remains the first, since a packet queued now keeps its distance   *)
(* from it and is behind it.                                               *)
LEMMA EnqueueScan ==
    ASSUME Prompt, QueueInv, QueueInv', PeekInv, PeekInv', LeadInv, LeadInv',
           AsapAhead, ScanInv, JitEnqueue
    PROVE  ScanInv'
<1>1. PICK p, e : Enqueues(p, e)
  BY EnqueueCases
<1>2. /\ UNCHANGED <<now, jit_time, jit_pc, jit_pkt, i, pkt_index,
                     idx_highest_priority>>
      /\ jit_pc # "peek" /\ TypeOK
  BY DEF JitEnqueue, jitVars, peekVars, PeekInv, QueueInv
<1>3. CASE e # "OK"
  <2>1. UNCHANGED nodes
    BY <1>1, <1>3 DEF Enqueues, queueVars
  <2> QED
    BY <1>2, <2>1 DEF ScanInv, Due, Lead, Downlink
<1>4. CASE e = "OK"
  <2>1. Packets(nodes') = Packets(nodes) \cup {p}
    BY <1>1, <1>4, AcceptedQueue
  <2>2. Due(p) >= Later
    <3>1. Enqueues(p, "OK")
      BY <1>1, <1>4
    <3> QED
      BY <3>1, AcceptedAhead, Zenon
  <2>3. ASSUME jit_pc = "dequeue" PROVE nodes'[1] = jit_pkt
    <3>1. 1 \in 1 .. Len(nodes) /\ nodes[1] = jit_pkt
      <4>1. pkt_index = 0 /\ nodes[1] = jit_pkt
        BY <2>3, Zenon DEF ScanInv
      <4>2. pkt_index + 1 \in 1 .. Len(nodes)
        BY <2>3, PeekedIndex, Zenon
      <4> QED
        BY <4>1, <4>2
    <3>2. jit_pkt \in Packets(nodes')
      BY <2>1, <3>1, Zenon DEF Packets
    <3>3. PICK k \in 1 .. Len(nodes') : nodes'[k] = jit_pkt
      BY <3>2 DEF Packets
    <3> DEFINE m == nodes'[1]
    <3>4. 1 \in 1 .. Len(nodes') /\ m \in Packets(nodes')
      <4>1. Len(nodes') \in Nat
        BY <1>1, <1>4, AcceptedQueue, SeqProperties
      <4> QED
        BY <3>3, <4>1 DEF Packets
    <3>5. /\ jit_pkt \in Node /\ Downlink(jit_pkt) /\ Lead(jit_pkt) < Half
          /\ m \in Node /\ Downlink(m) /\ Lead(m) < Half
      <4>1. \A n \in Packets(nodes') : Downlink(n) /\ Lead(n) < Half
        BY <1>2 DEF LeadInv, Lead, Downlink
      <4>2. \A n \in Packets(nodes') : n \in Node
        BY <1>1, <1>4, AcceptedQueue, SeqElement DEF Packets
      <4> QED
        BY <3>2, <3>4, <4>1, <4>2
    <3> SUFFICES ASSUME m # jit_pkt PROVE FALSE
      OBVIOUS
    <3>6. 1 < k /\ k \in 1 .. Len(nodes')
      BY <3>3, <3>4
    <3>7. compare(m, jit_pkt) <= 0
      <4>1. compare(nodes'[1], nodes'[k]) <= 0
        BY <3>4, <3>6 DEF PeekInv, Sorted
      <4> QED
        BY <3>3, <4>1
    <3>8. Apart(m, jit_pkt) /\ Apart(jit_pkt, m)
      <4>1. Apart(nodes'[1], nodes'[k]) /\ Apart(nodes'[k], nodes'[1])
        BY <3>4, <3>6 DEF QueueInv, NoOverlap, Spread
      <4> QED
        BY <3>3, <4>1
    <3> HIDE DEF m
    <3>9. Lead(m) \in Nat /\ Lead(jit_pkt) \in Nat /\ Lead(m) <= Lead(jit_pkt)
      BY <1>2, <3>5, <3>7, CompareLead
    <3>10. Minus(now, jit_time) <= JIT_LATENCY
      BY DEF LeadInv
    <3>11. /\ Due(m) = Lead(m) + Minus(now, jit_time)
           /\ Due(jit_pkt) = Lead(jit_pkt) + Minus(now, jit_time)
           /\ Minus(now, jit_time) \in Nat
      BY <1>2, <3>5, <3>10, LeadDue
    <3>12. Due(jit_pkt) < TX_JIT_DELAY
      BY <2>3 DEF ScanInv
    <3>13. Due(m) > TX_START_DELAY + TX_JIT_DELAY
      BY <1>2, <3>5, <3>8, <3>12, ApartDue
    <3> QED
      BY <3>9, <3>11, <3>12, <3>13, Bounds
  <2> QED
    BY <1>2, <2>1, <2>2, <2>3 DEF ScanInv, Due, Lead, Downlink
<1> QED
  BY <1>3, <1>4

(* jit_dequeue takes the first packet, the only one that is due.           *)
LEMMA DequeueScan ==
    ASSUME Prompt, QueueInv, PeekInv, LeadInv, ScanInv, JitDequeue
    PROVE  /\ ScanInv' /\ jit_pkt' = jit_pkt /\ nodes[1] = jit_pkt
           /\ pkt_index = 0 /\ 1 \in 1 .. Len(nodes)
<1>1. /\ jit_pc = "dequeue" /\ jit_pc' = "status"
      /\ pkt_index = 0 /\ nodes[1] = jit_pkt
      /\ UNCHANGED <<now, jit_time>>
  BY DEF JitDequeue, ScanInv
<1>2. pkt_index + 1 = 1
  BY <1>1
<1>3. jit_pkt' = jit_pkt /\ 1 \in 1 .. Len(nodes)
  BY <1>1, <1>2, Dequeued, Zenon
<1>4. Packets(nodes') = Packets(nodes) \ {jit_pkt}
  BY <1>1, <1>2, Dequeued, Zenon
<1> QED
  BY <1>1, <1>2, <1>3, <1>4 DEF ScanInv, Due, Lead, Downlink

(* Every step.                                                             *)
LEMMA NextScanInv ==
    ASSUME Prompt, QueueInv, QueueInv', PeekInv, PeekInv', LeadInv, LeadInv',
           AsapAhead, ScanInv, [Next]_vars
    PROVE  ScanInv'
<1> USE DEF queueVars, jitVars, peekVars
<1>1. TypeOK /\ jit_pkt \in Node /\ Minus(now, jit_time) <= JIT_LATENCY
  BY QueueTypes DEF LeadInv
<1>2. CASE Tick
  <2>1. /\ UNCHANGED <<nodes, jit_time, jit_pc, jit_pkt, pkt_index, i,
                       idx_highest_priority>>
    BY <1>2 DEF Tick
  <2>2. ASSUME jit_pc \in {"dequeue", "status", "send"}
        PROVE  Minus(jit_pkt.count_us, now') < Half
    <3>1. Lead(jit_pkt) < Half /\ Due(jit_pkt) >= Earliest
      BY <2>2 DEF ScanInv
    <3>2. Minus(jit_pkt.count_us, now') = Lead(jit_pkt) - 1
      BY <1>1, <1>2, <3>1, TickLead
    <3>3. Lead(jit_pkt) \in Nat
      BY <1>1, LeadDue
    <3> QED
      BY <3>1, <3>2, <3>3, Bounds
  <2> QED
    BY <2>1, <2>2 DEF ScanInv, Due, Lead, Downlink, Fresh
<1>3. CASE \/ GpsChange \/ DownRecv \/ BeaconLoopEnd \/ BeaconPrepare
           \/ DownIgnore \/ DownReject \/ DownPrepare \/ JitFullCheck
           \/ UNCHANGED vars
  <2>1. UNCHANGED <<nodes, jit_time, jit_pc, jit_pkt, pkt_index, i,
                    idx_highest_priority>>
    BY <1>3, OtherSteps
  <2>2. UNCHANGED now
    BY <1>3, DownSteps
  <2> QED
    BY <2>1, <2>2 DEF ScanInv, Due, Lead, Downlink, Fresh
<1>4. CASE JitReadCounter
  BY <1>4 DEF JitReadCounter, ScanInv
<1>5. CASE PeekStart
  <2>1. CASE jit_queue_is_empty(nodes)
    <3>1. Packets(nodes) = {}
      BY <2>1 DEF jit_queue_is_empty, Packets
    <3>2. jit_pc' = "wait" /\ UNCHANGED nodes
      BY <1>5, <2>1 DEF PeekStart
    <3> QED
      BY <3>1, <3>2 DEF ScanInv
  <2>2. CASE ~jit_queue_is_empty(nodes)
    <3>1. jit_pc' = "peek" /\ i = 0 /\ i' = i
          /\ idx_highest_priority' = idx_highest_priority
      BY <1>5, <2>2 DEF PeekStart, PeekInv
    <3>2. idx_highest_priority = NONE
      BY <3>1 DEF PeekInv
    <3> QED
      BY <3>1, <3>2 DEF ScanInv
  <2> QED
    BY <2>1, <2>2
<1>6. CASE JitStatus \/ JitSend
  <2>1. UNCHANGED <<nodes, jit_time, now>>
    BY <1>6 DEF JitStatus, JitSend
  <2>2. /\ jit_pc \in {"status", "send"}
        /\ jit_pc' = "wait" \/ (jit_pc' = "send" /\ jit_pkt' = jit_pkt)
    BY <1>6 DEF JitStatus, JitSend, JitDone
  <2> QED
    BY <2>1, <2>2 DEF ScanInv, Due, Lead, Downlink
<1> QED
  BY <1>2, <1>3, <1>4, <1>5, <1>6, ScanScan, DropScan, EndScan, EnqueueScan,
     DequeueScan DEF Next, thread_down, thread_jit

-----------------------------------------------------------------------------
(* The radio. *)

(* Counters that are moved.                                                *)
LEMMA MovedCounter ==
    ASSUME NEW x \in Counter, NEW y \in Counter, NEW d \in Nat, d < CounterMod
    PROVE  /\ Plus(x, d) \in Counter /\ Minus(x, d) \in Counter
           /\ Minus(x, y) + d < CounterMod =>
                Minus(Plus(x, d), y) = Minus(x, y) + d
           /\ d <= Minus(x, y) =>
                /\ Minus(Minus(x, d), y) = Minus(x, y) - d
                /\ Minus(x, Plus(y, d)) = Minus(x, y) - d
           /\ Minus(x, y) = d <=> y = Minus(x, d)
           /\ Minus(x, y) = 0 <=> y = x
<1>1. CounterMod \in Nat
  BY JitConstants
<1>2. Plus(x, d) \in Counter /\ Minus(x, d) \in Counter
  BY <1>1 DEF Minus, Plus, Counter
<1>3. Minus(x, y) + d < CounterMod => Minus(Plus(x, d), y) = Minus(x, y) + d
  BY <1>1 DEF Minus, Plus, Counter
<1>4. d <= Minus(x, y) => /\ Minus(Minus(x, d), y) = Minus(x, y) - d
                          /\ Minus(x, Plus(y, d)) = Minus(x, y) - d
  BY <1>1 DEF Minus, Plus, Counter
<1>5. Minus(x, y) = d <=> y = Minus(x, d)
  BY <1>1 DEF Minus, Counter
<1>6. Minus(x, y) = 0 <=> y = x
  BY <1>1 DEF Minus, Counter
<1> QED
  BY <1>2, <1>3, <1>4, <1>5, <1>6, Zenon

(* The distance that jit_enqueue kept between a packet and one behind it.  *)
Behind(c, n) ==
    /\ TX_START_DELAY + TX_JIT_DELAY + n.post_delay + TX_MARGIN_DELAY
         < Minus(c, n.count_us)
    /\ Minus(c, n.count_us) < Half

(* Until the end of the emission of n.                                     *)
Left(n) == Minus(Plus(n.count_us, n.post_delay), now)

(* The packets that shared the queue with the one that was taken out, or   *)
(* with the one on the radio, are behind it; the radio triggers a packet   *)
(* TX_START_DELAY ahead and is free at its end.                            *)
RadioInv ==
    /\ jit_pc \in {"status", "send"} => \A c \in jit_peers : Behind(c, jit_pkt)
    /\ tx_status # "FREE" =>
         Downlink(tx_pkt) /\ \A c \in tx_peers : Behind(c, tx_pkt)
    /\ tx_status = "SCHEDULED" =>
         TX_START_DELAY < Lead(tx_pkt) /\ Lead(tx_pkt) < Half
    /\ tx_status = "EMITTING" =>
         1 <= Left(tx_pkt) /\ Left(tx_pkt) <= TX_START_DELAY + tx_pkt.post_delay

(* The delays of a downlink fit into the counter range.                    *)
LEMMA DownlinkDelays ==
    ASSUME NEW n, Downlink(n)
    PROVE  /\ n.post_delay \in Nat
           /\ TX_START_DELAY + n.post_delay < CounterMod
           /\ TX_START_DELAY < CounterMod /\ n.post_delay < CounterMod
<1> DEFINE d == n.post_delay
<1>1. d \in TimesOnAir /\ d \in Nat
  BY JitConstants, Zenon DEF Downlink
<1>2. TX_START_DELAY + BEACON_GUARD + 2 * TX_JIT_DELAY + TX_MARGIN_DELAY + d
        < CounterMod
  BY <1>1, JitConstants
<1>3. BEACON_GUARD \in Nat
  BY JitConstants
<1> HIDE DEF d
<1> QED
  BY <1>1, <1>2, <1>3, Bounds DEF d

(* The TX state machine.                                                   *)
LEMMA TickRadio ==
    ASSUME QueueInv, RadioInv, Tick PROVE RadioInv'
<1> DEFINE c == tx_pkt.count_us
           d == tx_pkt.post_delay
<1>1. /\ c \in Counter /\ now \in Counter /\ now' = Plus(now, 1)
      /\ now' \in Counter /\ sx1302_tx_fsm /\ 1 < CounterMod
      /\ UNCHANGED <<jit_pc, jit_pkt, jit_peers>>
      /\ tx_status \in {"FREE", "SCHEDULED", "EMITTING"}
  <2>1. 1 < CounterMod
    BY Bounds
  <2>2. /\ c \in Counter /\ now \in Counter /\ now' = Plus(now, 1)
        /\ sx1302_tx_fsm /\ UNCHANGED <<jit_pc, jit_pkt, jit_peers>>
        /\ tx_status \in {"FREE", "SCHEDULED", "EMITTING"}
    BY DelayBounds, QueueTypes DEF Tick, jitVars
  <2> QED
    BY <2>1, <2>2, PlusMinus
<1> HIDE DEF c, d
<1>2. jit_pc' \in {"status", "send"} => \A a \in jit_peers' : Behind(a, jit_pkt')
  BY <1>1 DEF RadioInv
<1>3. CASE tx_status = "FREE"
  <2>1. tx_status' = "FREE"
    BY <1>1, <1>3 DEF sx1302_tx_fsm
  <2> QED
    BY <1>2, <2>1 DEF RadioInv, Behind
<1>4. CASE tx_status = "SCHEDULED"
  <2>1. /\ TX_START_DELAY < Minus(c, now) /\ Minus(c, now) < Half
        /\ Downlink(tx_pkt) /\ \A a \in tx_peers : Behind(a, tx_pkt)
    BY <1>4 DEF RadioInv, Lead, c
  <2>2. /\ d \in Nat /\ TX_START_DELAY + d < CounterMod
        /\ TX_START_DELAY < CounterMod /\ d < CounterMod
    BY <2>1, DownlinkDelays DEF d
  <2>3. Minus(c, now) \in Nat
    BY <1>1, MinusChain
  <2>4. Minus(c, now') = Minus(c, now) - 1
    BY <1>1, <2>1, <2>3, MovedCounter, Bounds
  <2>5. CASE now' = Minus(c, TX_START_DELAY)
    <3>1. tx_status' = "EMITTING" /\ UNCHANGED <<tx_pkt, tx_peers>>
      BY <1>4, <2>5 DEF sx1302_tx_fsm, Tick, c, d
    <3>2. Minus(c, now') = TX_START_DELAY
      BY <1>1, <2>2, <2>5, MovedCounter, Bounds
    <3>3. Minus(Plus(c, d), now') = TX_START_DELAY + d
      <4>1. Minus(c, now') + d < CounterMod
        BY <2>2, <3>2
      <4>2. Minus(Plus(c, d), now') = Minus(c, now') + d
        BY <1>1, <2>2, <4>1, MovedCounter
      <4> QED
        BY <3>2, <4>2
    <3>4. /\ 1 <= Minus(Plus(c, d), now')
          /\ Minus(Plus(c, d), now') <= TX_START_DELAY + d
      BY <2>2, <3>3, Bounds
    <3> QED
      BY <1>2, <2>1, <3>1, <3>4 DEF RadioInv, Behind, Downlink, Left, c, d
  <2>6. CASE now' # Minus(c, TX_START_DELAY)
    <3>1. tx_status' = "SCHEDULED" /\ UNCHANGED <<tx_pkt, tx_peers>>
      BY <1>4, <2>6 DEF sx1302_tx_fsm, Tick, c, d
    <3>2. Minus(c, now') # TX_START_DELAY
      BY <1>1, <2>2, <2>6, MovedCounter, Bounds
    <3>3. TX_START_DELAY < Minus(c, now') /\ Minus(c, now') < Half
      BY <2>1, <2>3, <2>4, <3>2, Bounds
    <3> QED
      BY <1>2, <2>1, <3>1, <3>3 DEF RadioInv, Behind, Downlink, Lead, c, d
  <2> QED
    BY <2>5, <2>6
<1>5. CASE tx_status = "EMITTING"
  <2> DEFINE e == Plus(c, d)
  <2>1. /\ 1 <= Minus(e, now) /\ Minus(e, now) <= TX_START_DELAY + d
        /\ Downlink(tx_pkt) /\ \A a \in tx_peers : Behind(a, tx_pkt)
    BY <1>5 DEF RadioInv, Left, c, d
  <2>2. d \in Nat /\ d < CounterMod
    BY <2>1, DownlinkDelays DEF d
  <2>3. e \in Counter
    BY <1>1, <2>2, MovedCounter
  <2> HIDE DEF e
  <2>4. CASE now' = e
    <3>1. tx_status' = "FREE"
      BY <1>5, <2>4 DEF sx1302_tx_fsm, Tick, c, d, e
    <3> QED
      BY <1>2, <3>1 DEF RadioInv, Behind
  <2>5. CASE now' # e
    <3>1. tx_status' = "EMITTING" /\ UNCHANGED <<tx_pkt, tx_peers>>
      BY <1>5, <2>5 DEF sx1302_tx_fsm, Tick, c, d, e
    <3>2. Minus(e, now) \in Nat
      BY <1>1, <2>3, MinusChain
    <3>3. Minus(e, now') = Minus(e, now) - 1
      BY <1>1, <2>1, <2>3, <3>2, MovedCounter
    <3>4. Minus(e, now') # 0
      BY <1>1, <2>3, <2>5, MovedCounter
    <3>5. 1 <= Minus(e, now') /\ Minus(e, now') <= TX_START_DELAY + d
      BY <2>1, <2>2, <3>2, <3>3, <3>4, Bounds
    <3> QED
      BY <1>2, <2>1, <3>1, <3>5 DEF RadioInv, Behind, Downlink, Left, c, d, e
  <2> QED
    BY <2>4, <2>5
<1> QED
  BY <1>1, <1>3, <1>4, <1>5

(* jit_dequeue: the packets left behind keep their distance from the one   *)
(* that was taken out.                                                     *)
LEMMA DequeueRadio ==
    ASSUME Prompt, QueueInv, PeekInv, LeadInv, ScanInv, RadioInv, JitDequeue
    PROVE  RadioInv'
<1>1. /\ jit_pkt' = jit_pkt /\ nodes[1] = jit_pkt
      /\ pkt_index = 0 /\ 1 \in 1 .. Len(nodes)
  BY DequeueScan
<1>2. /\ UNCHANGED <<now, tx_status, tx_pkt, tx_peers>>
      /\ jit_pc = "dequeue" /\ TypeOK
  BY DEF JitDequeue, radioVars, QueueInv
<1> DEFINE rest == RemoveNode(nodes, 1)
<1>3. jit_peers' = {n.count_us : n \in Packets(rest)}
  BY <1>1 DEF JitDequeue, Packets
<1>4. Packets(rest) = Packets(nodes) \ {jit_pkt}
  <2>1. nodes \in Seq(Node) /\ Spread(nodes)
    BY QueueTypes
  <2> QED
    BY <1>1, <2>1, RemovePackets
<1> HIDE DEF rest
<1>5. ASSUME NEW n \in Packets(nodes), n # jit_pkt
      PROVE  Behind(n.count_us, jit_pkt)
  <2>1. /\ jit_pkt \in Packets(nodes) /\ jit_pkt \in Node /\ n \in Node
        /\ Downlink(n) /\ Lead(n) < Half
        /\ Downlink(jit_pkt) /\ Due(jit_pkt) < TX_JIT_DELAY
        /\ Due(jit_pkt) >= Earliest
    BY <1>1, <1>2, PacketsAreNodes DEF Packets, LeadInv, ScanInv
  <2>2. Apart(n, jit_pkt) /\ Apart(jit_pkt, n)
    BY <1>5, <2>1, PacketsApart
  <2>3. /\ Due(n) \in Nat /\ Due(jit_pkt) \in Nat
        /\ Minus(n.count_us, jit_pkt.count_us) = Due(n) - Due(jit_pkt)
    BY <1>2, <2>1, <2>2, ApartDue
  <2>4. /\ Due(n) = Lead(n) + Minus(now, jit_time)
        /\ Lead(n) \in Nat /\ Minus(now, jit_time) \in Nat
        /\ Minus(now, jit_time) <= JIT_LATENCY
    BY <1>2, <2>1, LeadDue DEF LeadInv
  <2>5. Minus(n.count_us, jit_pkt.count_us) < Half
    BY <2>1, <2>3, <2>4, Bounds DEF Earliest
  <2>6. TX_START_DELAY + TX_JIT_DELAY + jit_pkt.post_delay + TX_MARGIN_DELAY
          < Minus(n.count_us, jit_pkt.count_us)
    <3>1. jit_pkt.post_delay \in Nat
      BY <2>1, DownlinkDelays
    <3>2. Ahead(jit_pkt, n) = TX_START_DELAY + TX_JIT_DELAY
      BY <2>1 DEF Ahead, Downlink
    <3> QED
      BY <2>2, <2>3, <3>1, <3>2, Bounds DEF Apart
  <2> QED
    BY <2>5, <2>6 DEF Behind
<1>6. \A c \in jit_peers' : Behind(c, jit_pkt')
  BY <1>1, <1>3, <1>4, <1>5
<1> QED
  BY <1>2, <1>6 DEF RadioInv, Behind, Downlink, Lead, Left

(* lgw_send: the packet is programmed in time.                             *)
LEMMA SendRadio ==
    ASSUME Prompt, QueueInv, LeadInv, ScanInv, RadioInv, JitSend
    PROVE  RadioInv'
<1>1. jit_pc = "send" /\ jit_pc' = "wait" /\ now' = now
  BY DEF JitSend, JitDone
<1>2. CASE UNCHANGED radioVars
  BY <1>1, <1>2 DEF RadioInv, Behind, Downlink, Lead, Left, radioVars
<1>3. CASE tx_status' = "FREE"
  BY <1>1, <1>3 DEF RadioInv
<1>4. CASE tx_status' = "SCHEDULED" /\ tx_pkt' = jit_pkt /\ tx_peers' = jit_peers
  <2>1. /\ Downlink(jit_pkt) /\ Lead(jit_pkt) < Half /\ Due(jit_pkt) >= Earliest
        /\ jit_pkt \in Node /\ TypeOK /\ Minus(now, jit_time) <= JIT_LATENCY
        /\ \A c \in jit_peers : Behind(c, jit_pkt)
    BY <1>1, QueueTypes DEF ScanInv, LeadInv, RadioInv
  <2>2. Lead(jit_pkt) >= TX_START_DELAY + 1 /\ Lead(jit_pkt) \in Nat
    BY <2>1, LeadDue
  <2>3. TX_START_DELAY < Lead(jit_pkt)
    BY <2>2, Bounds
  <2> QED
    BY <1>1, <1>4, <2>1, <2>3 DEF RadioInv, Behind, Downlink, Lead
<1> QED
  BY <1>2, <1>3, <1>4 DEF JitSend

(* Every step.                                                             *)
LEMMA NextRadioInv ==
    ASSUME Prompt, QueueInv, PeekInv, LeadInv, ScanInv, RadioInv, [Next]_vars
    PROVE  RadioInv'
<1> USE DEF queueVars, downVars, jitVars, peekVars, radioVars
<1>1. CASE \/ GpsChange \/ DownRecv \/ BeaconLoopEnd \/ BeaconPrepare
           \/ DownIgnore \/ DownReject \/ DownPrepare \/ JitFullCheck
           \/ JitEnqueue \/ UNCHANGED vars
  <2>1. UNCHANGED <<now, jit_pc, jit_pkt, jit_peers, tx_status, tx_pkt, tx_peers>>
    <3>1. CASE JitEnqueue
      BY <3>1 DEF JitEnqueue
    <3>2. CASE ~JitEnqueue
      BY <1>1, <3>2, DownSteps, OtherSteps
    <3> QED
      BY <3>1, <3>2
  <2> QED
    BY <2>1 DEF RadioInv, Behind, Downlink, Lead, Left
<1>2. CASE JitReadCounter \/ PeekStart \/ PeekDrop \/ PeekScan \/ PeekEnd
  <2>1. /\ UNCHANGED <<now, tx_status, tx_pkt, tx_peers>>
        /\ jit_pc' \notin {"status", "send"}
    BY <1>2 DEF JitReadCounter, PeekStart, PeekDrop, PeekScan, PeekEnd
  <2> QED
    BY <2>1 DEF RadioInv, Behind, Downlink, Lead, Left
<1>3. CASE JitStatus
  <2>1. /\ UNCHANGED <<now, tx_status, tx_pkt, tx_peers>> /\ jit_pc = "status"
        /\ \/ jit_pc' = "wait"
           \/ jit_pc' = "send" /\ UNCHANGED <<jit_pkt, jit_peers>>
    BY <1>3 DEF JitStatus, JitDone
  <2> QED
    BY <2>1 DEF RadioInv, Behind, Downlink, Lead, Left
<1> QED
  BY <1>1, <1>2, <1>3, TickRadio, DequeueRadio, SendRadio
     DEF Next, thread_down, thread_jit

=============================================================================
