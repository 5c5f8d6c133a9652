---------------------------- MODULE TxPathProofs ----------------------------
(***************************************************************************)
(* Type correctness of TxPath and the safety of the JIT queue, for every   *)
(* value of the constants: any size of the queue, any delays, any number   *)
(* of requests and any delay of the two threads.                           *)
(*                                                                         *)
(* The queue is safe because thread_down is the only thread that inserts:  *)
(* what the full check found still bounds the queue at the insertion, and  *)
(* no packet has entered it since.  The packets stay apart because         *)
(* criterion 3 compares the new one with each of the others in both        *)
(* directions, and because removing and sorting only move nodes around.    *)
(* QueueInv is the inductive invariant.                                    *)
(*                                                                         *)
(* As long as compare() orders the queue, jit_peek moreover returns the    *)
(* index of a packet, although it purges and sorts the queue while it goes *)
(* through it (PeekInv).                                                   *)
(***************************************************************************)
EXTENDS TxPath, TLAPS

(* The provers, and the seconds each of them gets.                         *)
USE SMTT(10), ZenonT(10), SMTT(20), SMTT(30)

(* The JIT queue. *)

(* The difference of two counters, as uint32_t, is a counter.              *)
LEMMA MinusType == \A a, b \in Counter : Minus(a, b) \in Counter
BY JitConstants DEF Counter, Minus

(* A counter plus a delay below the modulus, as uint32_t, is a counter.    *)
LEMMA PlusType ==
    \A a \in Counter, d \in Nat : d < CounterMod => Plus(a, d) \in Counter
BY JitConstants DEF Counter, Plus

(* Any integer reduced to a uint32_t is a counter.                         *)
LEMMA ModType == \A a \in Int : a % CounterMod \in Counter
BY JitConstants DEF Counter

(* The interval that jit_enqueue reserves makes a node of any packet, and  *)
(* includes the start delay.                                               *)
LEMMA PacketNodeType ==
    ASSUME NEW c \in Counter, NEW type \in PktTypes,
           NEW toa \in TimesOnAir \cup {BEACON_RESERVED}
    PROVE  /\ PacketNode(c, type, toa) \in Node
           /\ PacketNode(c, type, toa).pre_delay >= TX_START_DELAY
           /\ PacketNode(c, type, toa).count_us = c
           /\ PacketNode(c, type, toa).pkt_type = type
BY JitConstants DEF PacketNode, Node, PreDelays, PostDelays

(* The zeroed node is a node.                                              *)
LEMMA NoPktType == NoPkt \in Node
BY JitConstants
   DEF NoPkt, Node, Counter, PktTypes, DownlinkTypes, PreDelays, PostDelays

(* The delays of a node are small enough for the sums the code forms.      *)
LEMMA DelayBounds ==
    ASSUME NEW n \in Node, NEW p \in Node
    PROVE  /\ n.count_us \in Counter
           /\ n.pre_delay \in Nat /\ n.post_delay \in Nat
           /\ n.post_delay + p.pre_delay + TX_JIT_DELAY + TX_MARGIN_DELAY
                < CounterMod
<1>1. /\ n.count_us \in Counter
      /\ p.pre_delay \in PreDelays /\ n.pre_delay \in PreDelays
      /\ n.post_delay \in PostDelays
  BY DEF Node
<1>2. /\ n.pre_delay \in Nat /\ p.pre_delay \in Nat
      /\ p.pre_delay <= TX_START_DELAY + BEACON_GUARD + TX_JIT_DELAY
  BY <1>1, JitConstants DEF PreDelays
<1>3. /\ n.post_delay \in Nat
      /\ TX_START_DELAY + BEACON_GUARD + 2 * TX_JIT_DELAY + TX_MARGIN_DELAY
           + n.post_delay < CounterMod
  <2>1. CASE n.post_delay \in TimesOnAir \cup {BEACON_RESERVED}
    BY <2>1, JitConstants, Zenon
  <2>2. CASE n.post_delay = 0
    BY <2>2, JitConstants
  <2> QED
    BY <1>1, <2>1, <2>2 DEF PostDelays
<1> QED
  BY <1>1, <1>2, <1>3, JitConstants

(* Reading a node by its index in the code yields a node, beyond num_pkt,  *)
(* too.                                                                    *)
LEMMA NodeAtType == \A q \in Seq(Node), k \in Nat : NodeAt(q, k) \in Node
BY NoPktType DEF NodeAt

(* Sequences: their elements, functions that are sequences, and Append.    *)
LEMMA SeqProperties ==
    ASSUME NEW S, NEW q \in Seq(S)
    PROVE  Len(q) \in Nat /\ q \in [1 .. Len(q) -> S] /\ DOMAIN q = 1 .. Len(q)
OBVIOUS

(* An element of a sequence.                                               *)
LEMMA SeqElement ==
    ASSUME NEW S, NEW q \in Seq(S), NEW k \in 1 .. Len(q) PROVE q[k] \in S
OBVIOUS

(* A function on 1 .. n is a sequence of length n.                         *)
LEMMA FunctionIsSeq ==
    ASSUME NEW S, NEW n \in Nat, NEW f \in [1 .. n -> S]
    PROVE  f \in Seq(S) /\ Len(f) = n /\ DOMAIN f = 1 .. n
OBVIOUS

(* The elements of a sequence with one more.                               *)
LEMMA AppendElements ==
    ASSUME NEW S, NEW q \in Seq(S), NEW x \in S
    PROVE  /\ Append(q, x) \in Seq(S) /\ Len(Append(q, x)) = Len(q) + 1
           /\ \A k \in 1 .. Len(q) : Append(q, x)[k] = q[k]
           /\ Append(q, x)[Len(q) + 1] = x
OBVIOUS

(* Taking a node out, by copying the last one over it, leaves a queue one  *)
(* shorter whose packets are as far apart as before.                       *)
LEMMA RemoveNodeProperties ==
    ASSUME NEW q \in Seq(Node), NEW k \in Nat \ {0}
    PROVE  /\ RemoveNode(q, k) \in Seq(Node)
           /\ Len(RemoveNode(q, k)) <= Len(q)
           /\ Spread(q) => Spread(RemoveNode(q, k))
<1> DEFINE r == RemoveNode(q, k)
<1>1. Len(q) \in Nat /\ \A j \in 1 .. Len(q) : q[j] \in Node
  BY SeqProperties, SeqElement
<1>2. CASE Len(q) = 0
  <2>1. r \in [1 .. 0 -> Node]
    BY <1>2 DEF RemoveNode
  <2>2. r \in Seq(Node) /\ Len(r) = 0
    BY <2>1, FunctionIsSeq
  <2> QED
    BY <1>1, <2>2 DEF Spread
<1>3. CASE Len(q) # 0
  <2>1. Len(q) - 1 \in Nat
    BY <1>1, <1>3
  <2>2. r \in [1 .. Len(q) - 1 -> Node]
    BY <1>1, <2>1 DEF RemoveNode
  <2>3. r \in Seq(Node) /\ Len(r) = Len(q) - 1
    BY <2>1, <2>2, FunctionIsSeq
  <2>4. ASSUME Spread(q) PROVE Spread(r)
    <3> SUFFICES ASSUME NEW j \in 1 .. Len(r), NEW l \in 1 .. Len(r), j # l
                 PROVE  Apart(r[j], r[l])
      BY DEF Spread
    <3> DEFINE at(m) == IF m = k THEN Len(q) ELSE m
    <3>1. at(j) \in 1 .. Len(q) /\ at(l) \in 1 .. Len(q) /\ at(j) # at(l)
      BY <1>1, <2>3
    <3>2. r[j] = q[at(j)] /\ r[l] = q[at(l)]
      BY <1>1, <2>3, Zenon DEF RemoveNode
    <3> HIDE DEF at, r
    <3> QED
      BY <2>4, <3>1, <3>2 DEF Spread
  <2> QED
    BY <1>1, <2>1, <2>3, <2>4
<1> QED
  BY <1>2, <1>3

(* The sort permutes the queue: it stays a queue of the same length, whose *)
(* packets are as far apart as before.                                     *)
LEMMA SortProperties ==
    ASSUME NEW q \in Seq(Node), NEW s \in jit_sort_queue(q)
    PROVE  /\ s \in Seq(Node)
           /\ Len(s) = Len(q)
           /\ Spread(q) => Spread(s)
<1>1. Len(q) \in Nat /\ \A j \in 1 .. Len(q) : q[j] \in Node
  BY SeqProperties, SeqElement
<1>2. s \in Orders(q)
  BY DEF jit_sort_queue
<1>3. PICK p \in Shuffles(Len(q)) : s = [j \in 1 .. Len(q) |-> q[p[j]]]
  BY <1>2 DEF Orders
<1>4. /\ p \in [1 .. Len(q) -> 1 .. Len(q)]
      /\ \A j, l \in 1 .. Len(q) : p[j] = p[l] => j = l
  BY DEF Shuffles
<1>5. s \in [1 .. Len(q) -> Node]
  BY <1>1, <1>3, <1>4
<1>6. s \in Seq(Node) /\ Len(s) = Len(q)
  BY <1>1, <1>5, FunctionIsSeq
<1>7. ASSUME Spread(q) PROVE Spread(s)
  <2> SUFFICES ASSUME NEW j \in 1 .. Len(s), NEW l \in 1 .. Len(s), j # l
               PROVE  Apart(s[j], s[l])
    BY DEF Spread
  <2>1. p[j] \in 1 .. Len(q) /\ p[l] \in 1 .. Len(q) /\ p[j] # p[l]
    BY <1>4, <1>6
  <2>2. s[j] = q[p[j]] /\ s[l] = q[p[l]]
    BY <1>3, <1>6
  <2> QED
    BY <1>7, <2>1, <2>2 DEF Spread
<1> QED
  BY <1>6, <1>7

(* The criteria of jit_enqueue: a packet that collides with no node of the *)
(* queue is apart from each of them, in both directions, if it reserves at *)
(* least the start delay.                                                  *)
LEMMA NoCollisionApart ==
    ASSUME NEW p \in Node, NEW n \in Node, ~Collides(p, n),
           p.pre_delay >= TX_START_DELAY
    PROVE  Apart(p, n) /\ Apart(n, p)
<1>1. /\ p.count_us \in Counter /\ n.count_us \in Counter
      /\ p.pre_delay \in Nat /\ n.pre_delay \in Nat
      /\ p.post_delay \in Nat /\ n.post_delay \in Nat
  BY DelayBounds
<1>2. /\ Minus(p.count_us, n.count_us) \in Int
      /\ Minus(n.count_us, p.count_us) \in Int
  BY <1>1, MinusType DEF Counter
<1>3. /\ Minus(p.count_us, n.count_us)
           > p.pre_delay + n.post_delay + TX_MARGIN_DELAY
      /\ Minus(n.count_us, p.count_us)
           > target_pre_delay(p, n) + p.post_delay + TX_MARGIN_DELAY
  BY <1>1, <1>2, JitConstants DEF Collides, jit_collision_test, target_pre_delay
<1>4. Apart(n, p)
  BY <1>3 DEF Apart, Ahead, target_pre_delay
<1>5. Apart(p, n)
  BY <1>1, <1>2, <1>3, JitConstants DEF Apart, Ahead
<1> QED
  BY <1>4, <1>5

(* Appending such a packet keeps the packets of the queue apart.           *)
LEMMA AppendSpread ==
    ASSUME NEW q \in Seq(Node), NEW p \in Node, Spread(q),
           p.pre_delay >= TX_START_DELAY,
           \A j \in 1 .. Len(q) : ~Collides(p, q[j])
    PROVE  /\ Append(q, p) \in Seq(Node)
           /\ Len(Append(q, p)) = Len(q) + 1
           /\ Spread(Append(q, p))
<1> DEFINE a == Append(q, p)
<1>1. Len(q) \in Nat /\ \A j \in 1 .. Len(q) : q[j] \in Node
  BY SeqProperties, SeqElement
<1>2. /\ a \in Seq(Node) /\ Len(a) = Len(q) + 1
      /\ \A j \in 1 .. Len(q) : a[j] = q[j]
      /\ a[Len(q) + 1] = p
  BY AppendElements
<1>3. ASSUME NEW j \in 1 .. Len(a), NEW k \in 1 .. Len(a), j # k
      PROVE  Apart(a[j], a[k])
  <2>1. CASE j \in 1 .. Len(q) /\ k \in 1 .. Len(q)
    BY <1>2, <1>3, <2>1 DEF Spread
  <2>2. CASE j = Len(q) + 1 /\ k \in 1 .. Len(q)
    BY <1>1, <1>2, <2>2, NoCollisionApart
  <2>3. CASE j \in 1 .. Len(q) /\ k = Len(q) + 1
    BY <1>1, <1>2, <2>3, NoCollisionApart
  <2> QED
    BY <1>1, <1>2, <1>3, <2>1, <2>2, <2>3
<1> QED
  BY <1>2, <1>3 DEF Spread

(* The search for an immediate slot of a Class C downlink yields counters. *)
LEMMA AsapType ==
    ASSUME NEW q \in Seq(Node), NEW p \in Node, NEW t \in Counter
    PROVE  AsapCounts(q, p, t) \subseteq Counter
<1>1. Plus(t, 2 * TX_JIT_DELAY) \in Counter
  <2>1. 2 * TX_JIT_DELAY \in Nat /\ 2 * TX_JIT_DELAY < CounterMod
    BY JitConstants
  <2> QED
    BY <2>1, PlusType
<1>2. ASSUME NEW n \in Node PROVE AsapAfter(n, p) \in Counter
  <2>1. /\ n.count_us \in Counter /\ n.post_delay \in Nat
        /\ n.post_delay + p.pre_delay + TX_JIT_DELAY + TX_MARGIN_DELAY
             < CounterMod
    BY DelayBounds
  <2>2. p.pre_delay \in Nat
    BY DelayBounds
  <2>3. n.post_delay + p.pre_delay + TX_JIT_DELAY + TX_MARGIN_DELAY \in Nat
    BY <2>1, <2>2, JitConstants
  <2> QED
    BY <2>1, <2>3, PlusType DEF AsapAfter
<1>3. \A k \in 1 .. Len(q) : AsapAfter(q[k], p) \in Counter
  BY <1>2, SeqElement
<1> QED
  BY <1>1, <1>3 DEF AsapCounts

-----------------------------------------------------------------------------
(* thread_down, the concentrator and the GPS. *)

(* The inductive invariant.                                                *)
QueueInv ==
    /\ TypeOK
    /\ QueueBounded
    /\ NoOverlap
    /\ down_pc = "enqueue" => Len(nodes) < JIT_QUEUE_MAX
    /\ DownInCall => down_pkt.pre_delay >= TX_START_DELAY
    /\ jit_pc = "dequeue" => pkt_index \in Nat

(* jit_enqueue answers with one of its error codes, and with OK only for a *)
(* packet that collides with none in the queue.                            *)
LEMMA JitErrorMeaning ==
    ASSUME NEW q, NEW p, NEW t
    PROVE  /\ JitError(q, p, t) \in JitErrors
           /\ JitError(q, p, t) = "OK"
                => \A j \in 1 .. Len(q) : ~Collides(p, q[j])
BY DEF JitError, JitErrors, CollisionError

(* Both threads start outside their critical sections, with an empty queue.*)
LEMMA InitQueueInv == Init => QueueInv
<1> SUFFICES ASSUME Init PROVE QueueInv
  OBVIOUS
<1>1. 0 \in Counter
  BY JitConstants DEF Counter
<1>2. /\ nodes \in Seq(Node)
      /\ requests \in Nat
      /\ gps \in {"unlocked", "ref", "xtal"}
  BY TxPathConstants DEF Init
<1>3. beacon_queued \in BOOLEAN
  BY Zenon DEF Init
<1>4. /\ num_beacon \in Int /\ beacon_loop \in Int /\ retry \in Nat
      /\ last_beacon \in Int /\ next_beacon \in Int /\ i \in Nat
      /\ jit_peers \subseteq Counter /\ tx_peers \subseteq Counter
  BY DEF Init
<1>5. TypeOK
  BY <1>1, <1>2, <1>3, <1>4, NoPktType DEF Init, TypeOK
<1>6. Len(nodes) = 0
  BY DEF Init
<1> QED
  BY <1>5, <1>6, JitConstants
     DEF Init, QueueInv, QueueBounded, NoOverlap, Spread, DownInCall

(* A step that leaves the queue and the call of jit_enqueue alone only has *)
(* to keep the types.                                                      *)
LEMMA QueueUntouched ==
    ASSUME QueueInv, TypeOK', UNCHANGED <<nodes, down_pc, down_pkt>>,
           jit_pc' = "dequeue" => pkt_index' \in Nat
    PROVE  QueueInv'
BY DEF QueueInv, QueueBounded, NoOverlap, DownInCall

(* Distances of beacons are integers.                                      *)
LEMMA NearType == \A b \in Int : Near(b) \in Int /\ Nearer(b) \subseteq Int
<1>1. BeaconPeriod \in Int /\ BEACON_HORIZON \in Int
  BY TxPathConstants
<1> QED
  BY <1>1 DEF Near, Nearer

(* The counter and the TX state machine of the concentrator.               *)
LEMMA TickStep == ASSUME QueueInv, Tick PROVE QueueInv'
<1> USE DEF queueVars, jitVars, peekVars
<1>1. TypeOK /\ (jit_pc = "dequeue" => pkt_index \in Nat)
  BY DEF QueueInv
<1>2. now' \in Counter
  <2>1. 1 \in Nat /\ 1 < CounterMod
    BY JitConstants
  <2>2. now \in Counter /\ now' = Plus(now, 1)
    BY <1>1 DEF Tick, TypeOK
  <2> QED
    BY <2>1, <2>2, PlusType
<1>3. /\ tx_status' \in {"FREE", "SCHEDULED", "EMITTING"}
      /\ tx_pkt' \in Node /\ tx_peers' \subseteq Counter
  BY <1>1, NoPktType DEF Tick, sx1302_tx_fsm, RadioIdle, TypeOK
<1>4. last_beacon' \in Int /\ next_beacon' \in Int
  <2>1. last_beacon \in Int /\ next_beacon \in Int
    BY <1>1 DEF TypeOK
  <2> QED
    BY <2>1, NearType DEF Tick
<1>5. TypeOK'
  BY <1>1, <1>2, <1>3, <1>4 DEF Tick, TypeOK
<1> QED
  BY <1>1, <1>5, QueueUntouched DEF Tick

(* thread_gps and thread_valid do not touch the queue.                     *)
LEMMA GpsChangeStep == ASSUME QueueInv, GpsChange PROVE QueueInv'
<1> USE DEF queueVars, downVars, beaconVars, slotVars, jitVars, peekVars,
            radioVars
<1>1. TypeOK /\ (jit_pc = "dequeue" => pkt_index \in Nat)
  BY DEF QueueInv
<1>2. TypeOK'
  BY <1>1, TxPathConstants DEF GpsChange, TypeOK
<1> QED
  BY <1>1, <1>2, QueueUntouched DEF GpsChange

-----------------------------------------------------------------------------
(* thread_down. *)

(* recv() returns: thread_down counts the beacons to be queued.            *)
LEMMA DownRecvStep == ASSUME QueueInv, DownRecv PROVE QueueInv'
<1> USE DEF queueVars, slotVars, jitVars, peekVars, radioVars
<1>1. TypeOK /\ (jit_pc = "dequeue" => pkt_index \in Nat)
  BY DEF QueueInv
<1>2. beacon_loop' \in Int
  BY <1>1, JitConstants DEF DownRecv, TypeOK
<1>3. TypeOK'
  BY <1>1, <1>2 DEF DownRecv, TypeOK
<1> QED
  BY <1>1, <1>3 DEF QueueInv, DownRecv, QueueBounded, NoOverlap, DownInCall

(* The end of the beacon loop.                                             *)
LEMMA BeaconLoopEndStep == ASSUME QueueInv, BeaconLoopEnd PROVE QueueInv'
<1> USE DEF queueVars, slotVars, jitVars, peekVars, radioVars
<1>1. TypeOK /\ (jit_pc = "dequeue" => pkt_index \in Nat)
  BY DEF QueueInv
<1>2. TypeOK'
  BY <1>1 DEF BeaconLoopEnd, TypeOK
<1> QED
  BY <1>1, <1>2
     DEF QueueInv, BeaconLoopEnd, QueueBounded, NoOverlap, DownInCall

(* A datagram that does not reach the queue.                               *)
LEMMA DownIgnoreStep == ASSUME QueueInv, DownIgnore PROVE QueueInv'
<1> USE DEF queueVars, beaconVars, slotVars, jitVars, peekVars, radioVars
<1>1. TypeOK /\ (jit_pc = "dequeue" => pkt_index \in Nat)
  BY DEF QueueInv
<1>2. TypeOK'
  BY <1>1 DEF DownIgnore, TypeOK
<1> QED
  BY <1>1, <1>2 DEF QueueInv, DownIgnore, QueueBounded, NoOverlap, DownInCall

(* A downlink that is answered before it reaches the queue.                *)
LEMMA DownRejectStep == ASSUME QueueInv, DownReject PROVE QueueInv'
<1> USE DEF queueVars, beaconVars, slotVars, jitVars, peekVars, radioVars
<1>1. TypeOK
  BY DEF QueueInv
<1>2. requests' \in Nat
  BY <1>1 DEF DownReject, TypeOK
<1>3. tx_ack' \in JitErrors
  BY DEF DownReject, send_tx_ack, JitErrors
<1>4. TypeOK'
  BY <1>1, <1>2, <1>3 DEF DownReject, TypeOK
<1> QED
  BY <1>4 DEF DownReject, QueueInv, QueueBounded, NoOverlap, DownInCall

(* The slot of a beacon is an integer and its conversion yields a counter. *)
LEMMA BeaconSlotType ==
    ASSUME TypeOK, NEW age \in RefAges, BeaconPeriod # 0
    PROVE  /\ BeaconSlot(age) \in Int
           /\ lgw_gps2cnt(age, BeaconSlot(age)) \subseteq Counter
<1>1. /\ BeaconPeriod \in Nat \ {0} /\ age \in Counter
      /\ now \in Counter /\ retry \in Nat /\ last_beacon \in Int
  BY TxPathConstants DEF TypeOK
<1>2. Minus(now, age) \in Counter
  BY <1>1, MinusType
<1>3. Minus(now, age) % BeaconPeriod \in Int
  BY <1>1, <1>2 DEF Counter
<1>4. retry * BeaconPeriod \in Int
  BY <1>1
<1>5. BeaconSlot(age) \in Int
  BY <1>1, <1>3, <1>4, JitConstants DEF BeaconSlot, Counter
<1>6. now + BeaconSlot(age) \in Int
  BY <1>1, <1>5, JitConstants DEF Counter
<1> HIDE DEF BeaconSlot
<1>7. (now + BeaconSlot(age)) % CounterMod \in Counter
  BY <1>6, ModType
<1>8. Minus(Minus(now, age), 1) \in Counter
  BY <1>2, MinusType, JitConstants DEF Counter
<1> QED
  BY <1>2, <1>5, <1>7, <1>8 DEF lgw_gps2cnt

(* A beacon is prepared: its reservation exceeds TX_START_DELAY.           *)
LEMMA BeaconPrepareStep == ASSUME QueueInv, BeaconPrepare PROVE QueueInv'
<1> USE DEF queueVars, jitVars, peekVars, radioVars
<1>1. TypeOK /\ (jit_pc = "dequeue" => pkt_index \in Nat)
  BY DEF QueueInv
<1>2. PICK age \in RefAges :
        /\ next_beacon' = BeaconSlot(age)
        /\ \E c \in lgw_gps2cnt(age, BeaconSlot(age)) :
             down_pkt' = PacketNode(c, "BEACON", BEACON_RESERVED)
  BY DEF BeaconPrepare
<1>3. PICK c \in lgw_gps2cnt(age, BeaconSlot(age)) :
        down_pkt' = PacketNode(c, "BEACON", BEACON_RESERVED)
  BY <1>2
<1>4. next_beacon' \in Int /\ c \in Counter
  BY <1>1, <1>2, BeaconSlotType DEF BeaconPrepare
<1>5. down_pkt' \in Node /\ down_pkt'.pre_delay >= TX_START_DELAY
  BY <1>3, <1>4, PacketNodeType DEF PktTypes
<1>6. TypeOK'
  BY <1>1, <1>4, <1>5 DEF BeaconPrepare, TypeOK
<1> QED
  BY <1>1, <1>5, <1>6
     DEF QueueInv, BeaconPrepare, QueueBounded, NoOverlap, DownInCall

(* A downlink is prepared: its reservation exceeds TX_START_DELAY.         *)
LEMMA DownPrepareStep == ASSUME QueueInv, DownPrepare PROVE QueueInv'
<1> USE DEF queueVars, beaconVars, slotVars, jitVars, peekVars, radioVars
<1>1. TypeOK /\ (jit_pc = "dequeue" => pkt_index \in Nat)
  BY DEF QueueInv
<1>2. PICK type \in RequestTypes, c \in TargetCounts, toa \in TimesOnAir :
        down_pkt' = PacketNode(IF type = "CLASS_C" THEN 0 ELSE c, type, toa)
  BY DEF DownPrepare
<1>3. /\ (IF type = "CLASS_C" THEN 0 ELSE c) \in Counter
      /\ type \in PktTypes
  BY JitConstants, TxPathConstants DEF Counter, PktTypes
<1>4. down_pkt' \in Node /\ down_pkt'.pre_delay >= TX_START_DELAY
  BY <1>2, <1>3, PacketNodeType
<1>5. requests' \in Nat
  BY <1>1 DEF DownPrepare, TypeOK
<1>6. TypeOK'
  BY <1>1, <1>4, <1>5 DEF DownPrepare, TypeOK
<1> QED
  BY <1>1, <1>4, <1>6
     DEF QueueInv, DownPrepare, QueueBounded, NoOverlap, DownInCall

(* What thread_down makes of an answer keeps its variables in their types  *)
(* and leaves the call.                                                    *)
LEMMA EnqueueDoneType ==
    ASSUME TypeOK, NEW result \in JitErrors, EnqueueDone(result)
    PROVE  /\ down_pkt' \in Node /\ down_time' = down_time
           /\ down_pc' \in {"beacon", "recv"}
           /\ beacon_loop' \in Int /\ retry' \in Nat
           /\ beacon_queued' \in BOOLEAN
           /\ last_beacon' \in Int /\ next_beacon' \in Int
           /\ tx_ack' \in JitErrors \cup {"none"}
<1>1. /\ beacon_loop \in Int /\ retry \in Nat
      /\ last_beacon \in Int /\ next_beacon \in Int
      /\ tx_ack \in JitErrors \cup {"none"}
  BY DEF TypeOK
<1>2. beacon_queued' \in BOOLEAN
  BY Zenon DEF EnqueueDone, BeaconDone, DownlinkDone, TypeOK
<1>3. last_beacon' \in Int /\ next_beacon' \in Int
  BY <1>1, NearType DEF EnqueueDone, BeaconDone, DownlinkDone
<1>4. beacon_loop' \in Int /\ retry' \in Nat
  BY <1>1 DEF EnqueueDone, BeaconDone, DownlinkDone, NextRetry
<1>5. tx_ack' \in JitErrors \cup {"none"}
  BY <1>1 DEF EnqueueDone, BeaconDone, DownlinkDone, send_tx_ack, JitErrors
<1> QED
  BY <1>2, <1>3, <1>4, <1>5, NoPktType DEF EnqueueDone, BeaconDone, DownlinkDone

(* The full check: thread_down goes on only if there is room, and only     *)
(* thread_down takes it.                                                   *)
LEMMA JitFullCheckStep == ASSUME QueueInv, JitFullCheck PROVE QueueInv'
<1> USE DEF queueVars, jitVars, peekVars, radioVars
<1>1. TypeOK /\ (jit_pc = "dequeue" => pkt_index \in Nat)
  BY DEF QueueInv
<1>2. CASE jit_queue_is_full(nodes)
  <2>1. EnqueueDone("FULL") /\ "FULL" \in JitErrors
    BY <1>2 DEF JitFullCheck, JitErrors
  <2>2. TypeOK'
    BY <1>1, <2>1, EnqueueDoneType DEF JitFullCheck, TypeOK
  <2>3. down_pc' \in {"beacon", "recv"}
    BY <1>1, <2>1, EnqueueDoneType
  <2> QED
    BY <1>1, <2>2, <2>3
       DEF QueueInv, JitFullCheck, QueueBounded, NoOverlap, DownInCall
<1>3. CASE ~jit_queue_is_full(nodes)
  <2> USE DEF beaconVars, slotVars
  <2>1. TypeOK'
    BY <1>1, <1>3 DEF JitFullCheck, TypeOK
  <2>2. Len(nodes) < JIT_QUEUE_MAX
    <3>1. Len(nodes) \in Nat /\ Len(nodes) <= JIT_QUEUE_MAX
      BY <1>1, SeqProperties DEF QueueInv, QueueBounded, TypeOK
    <3> QED
      BY <1>3, <3>1, JitConstants DEF jit_queue_is_full
  <2> QED
    BY <1>1, <1>3, <2>1, <2>2
       DEF QueueInv, JitFullCheck, QueueBounded, NoOverlap, DownInCall
<1> QED
  BY <1>2, <1>3

(* The insertion: the new node keeps its distance from all others, and     *)
(* the sort only permutes.                                                 *)
LEMMA JitEnqueueStep == ASSUME QueueInv, JitEnqueue PROVE QueueInv'
<1> USE DEF jitVars, peekVars, radioVars
<1>1. /\ TypeOK /\ QueueBounded /\ NoOverlap
      /\ jit_pc = "dequeue" => pkt_index \in Nat
      /\ Len(nodes) < JIT_QUEUE_MAX
      /\ down_pkt.pre_delay >= TX_START_DELAY
  BY DEF QueueInv, JitEnqueue, DownInCall
<1>2. /\ nodes \in Seq(Node) /\ down_pkt \in Node /\ down_time \in Counter
      /\ num_beacon \in Int
  BY <1>1 DEF TypeOK
<1>3. PICK c \in IF down_pkt.pkt_type = "CLASS_C"
                   THEN AsapCounts(nodes, down_pkt, down_time)
                   ELSE {down_pkt.count_us} :
        LET p == [down_pkt EXCEPT !.count_us = c]
            result == JitError(nodes, p, down_time)
        IN  /\ IF result = "OK"
                 THEN /\ nodes' \in jit_sort_queue(Append(nodes, p))
                      /\ num_beacon' = IF p.pkt_type = "BEACON"
                                         THEN num_beacon + 1
                                         ELSE num_beacon
                 ELSE UNCHANGED queueVars
            /\ EnqueueDone(result)
  BY DEF JitEnqueue
<1> DEFINE p == [down_pkt EXCEPT !.count_us = c]
           result == JitError(nodes, p, down_time)
<1>4. c \in Counter
  BY <1>2, <1>3, AsapType, DelayBounds
<1>5. p \in Node /\ p.pre_delay >= TX_START_DELAY
  BY <1>1, <1>2, <1>4 DEF Node
<1>6. result \in JitErrors /\ EnqueueDone(result)
  BY <1>3, JitErrorMeaning
<1>7. num_beacon' \in Int /\ nodes' \in Seq(Node)
      /\ Len(nodes') <= JIT_QUEUE_MAX /\ Spread(nodes')
  <2>1. CASE result = "OK"
    <3>1. /\ nodes' \in jit_sort_queue(Append(nodes, p))
          /\ num_beacon' \in Int
      BY <1>2, <1>3, <2>1
    <3>2. \A j \in 1 .. Len(nodes) : ~Collides(p, nodes[j])
      BY <2>1, JitErrorMeaning
    <3> HIDE DEF p, result
    <3>3. /\ Append(nodes, p) \in Seq(Node)
          /\ Len(Append(nodes, p)) = Len(nodes) + 1
          /\ Spread(Append(nodes, p))
      BY <1>1, <1>2, <1>5, <3>2, AppendSpread DEF NoOverlap
    <3>4. /\ nodes' \in Seq(Node) /\ Spread(nodes')
          /\ Len(nodes') = Len(nodes) + 1
      BY <3>1, <3>3, SortProperties, Zenon
    <3>5. Len(nodes) \in Nat
      BY <1>2, SeqProperties
    <3> QED
      BY <1>1, <3>1, <3>4, <3>5, JitConstants
  <2>2. CASE result # "OK"
    <3>1. UNCHANGED queueVars
      BY <1>3, <2>2
    <3> HIDE DEF p, result
    <3> QED
      BY <1>1, <1>2, <3>1 DEF QueueBounded, NoOverlap, queueVars
  <2> QED
    BY <2>1, <2>2
<1> HIDE DEF p, result
<1>8. TypeOK'
  BY <1>1, <1>6, <1>7, EnqueueDoneType DEF JitEnqueue, TypeOK
<1>9. down_pc' \in {"beacon", "recv"}
  BY <1>1, <1>6, EnqueueDoneType
<1> QED
  BY <1>1, <1>7, <1>8, <1>9
     DEF QueueInv, JitEnqueue, QueueBounded, NoOverlap, DownInCall

-----------------------------------------------------------------------------
(* thread_jit. *)

(* A step of thread_jit may shorten the queue and reorder it.              *)
LEMMA QueueShrinks ==
    ASSUME QueueInv, TypeOK', UNCHANGED <<down_pc, down_pkt>>,
           NEW k \in Nat \ {0}, nodes' \in jit_sort_queue(RemoveNode(nodes, k)),
           jit_pc' = "dequeue" => pkt_index' \in Nat
    PROVE  QueueInv'
<1>1. nodes \in Seq(Node) /\ Spread(nodes)
  BY DEF QueueInv, TypeOK, NoOverlap
<1>2. /\ RemoveNode(nodes, k) \in Seq(Node) /\ Spread(RemoveNode(nodes, k))
      /\ Len(RemoveNode(nodes, k)) <= Len(nodes)
  BY <1>1, RemoveNodeProperties
<1>3. Spread(nodes') /\ Len(nodes') = Len(RemoveNode(nodes, k))
  BY <1>2, SortProperties
<1>4. Len(nodes) \in Nat /\ Len(nodes') \in Nat
  BY <1>1, SeqProperties DEF TypeOK
<1>5. Len(nodes') <= Len(nodes)
  BY <1>2, <1>3
<1>6. Len(nodes') <= JIT_QUEUE_MAX
  BY <1>4, <1>5, JitConstants DEF QueueInv, QueueBounded
<1>7. down_pc' = "enqueue" => Len(nodes') < JIT_QUEUE_MAX
  BY <1>4, <1>5, JitConstants DEF QueueInv
<1> QED
  BY <1>3, <1>6, <1>7 DEF QueueInv, QueueBounded, NoOverlap, DownInCall

(* What the removal of a node and the sort leave is a queue.               *)
LEMMA RemovedType ==
    ASSUME TypeOK, NEW k \in Nat \ {0},
           NEW s \in jit_sort_queue(RemoveNode(nodes, k))
    PROVE  s \in Seq(Node)
BY RemoveNodeProperties, SortProperties DEF TypeOK

(* num_beacon remains a number when a node is removed.                     *)
LEMMA NumBeaconType ==
    ASSUME num_beacon \in Int
    PROVE  \A n : NumBeaconWithout(n) \in Int
BY DEF NumBeaconWithout

(* thread_jit reads the counter.                                           *)
LEMMA JitReadCounterStep == ASSUME QueueInv, JitReadCounter PROVE QueueInv'
<1> USE DEF queueVars, downVars, beaconVars, slotVars, peekVars, radioVars
<1>1. TypeOK
  BY DEF QueueInv
<1>2. TypeOK'
  BY <1>1 DEF JitReadCounter, TypeOK
<1> QED
  BY <1>2, QueueUntouched DEF JitReadCounter

(* jit_peek finds the queue empty, or takes the lock.                      *)
LEMMA PeekStartStep == ASSUME QueueInv, PeekStart PROVE QueueInv'
<1> USE DEF queueVars, downVars, beaconVars, slotVars, radioVars
<1>1. TypeOK
  BY DEF QueueInv
<1>2. jit_pc' \in {"wait", "peek"} /\ mx_jit_queue' \in {"free", "jit"}
  BY <1>1 DEF PeekStart, TypeOK
<1>3. TypeOK'
  BY <1>1, <1>2 DEF PeekStart, TypeOK
<1> QED
  BY <1>2, <1>3, QueueUntouched DEF PeekStart

(* The purge in jit_peek.                                                  *)
LEMMA PeekDropStep == ASSUME QueueInv, PeekDrop PROVE QueueInv'
<1> USE DEF downVars, beaconVars, slotVars, radioVars
<1>1. TypeOK /\ i \in Nat
  BY DEF QueueInv, TypeOK
<1>2. i + 1 \in Nat \ {0}
  BY <1>1
<1>3. nodes' \in jit_sort_queue(RemoveNode(nodes, i + 1))
  BY DEF PeekDrop
<1>4. nodes' \in Seq(Node)
  BY <1>1, <1>2, <1>3, RemovedType
<1>5. num_beacon' \in Int
  <2>1. num_beacon \in Int
    BY <1>1 DEF TypeOK
  <2> QED
    BY <2>1, NumBeaconType DEF PeekDrop
<1>6. TypeOK'
  BY <1>1, <1>4, <1>5 DEF PeekDrop, TypeOK
<1> QED
  BY <1>2, <1>3, <1>6, QueueShrinks DEF PeekDrop

(* The search for the highest priority in jit_peek.                        *)
LEMMA PeekScanStep == ASSUME QueueInv, PeekScan PROVE QueueInv'
<1> USE DEF queueVars, downVars, beaconVars, slotVars, radioVars
<1>1. TypeOK
  BY DEF QueueInv
<1>2. i' \in Nat /\ idx_highest_priority' \in Nat \cup {NONE}
  <2>1. i \in Nat /\ idx_highest_priority \in Nat \cup {NONE}
    BY <1>1 DEF TypeOK
  <2>2. i' = i + 1 /\ idx_highest_priority' \in {i, idx_highest_priority}
    BY DEF PeekScan
  <2> QED
    BY <2>1, <2>2
<1>3. TypeOK'
  BY <1>1, <1>2 DEF PeekScan, TypeOK
<1> QED
  BY <1>3, QueueUntouched DEF PeekScan

(* The end of jit_peek: an index is answered only if one was found.        *)
LEMMA PeekEndStep == ASSUME QueueInv, PeekEnd PROVE QueueInv'
<1> USE DEF queueVars, downVars, beaconVars, slotVars, radioVars
<1>1. TypeOK
  BY DEF QueueInv
<1>2. /\ jit_pc' \in {"wait", "dequeue"}
      /\ pkt_index' \in Nat \cup {NONE} /\ jit_pkt' \in Node
      /\ jit_pc' = "dequeue" => pkt_index' \in Nat
  <2>1. idx_highest_priority # NONE
          => /\ idx_highest_priority \in Nat
             /\ NodeAt(nodes, idx_highest_priority) \in Node
    BY <1>1, NodeAtType DEF TypeOK
  <2> QED
    BY <1>1, <2>1 DEF PeekEnd, TypeOK
<1>3. i' \in Nat
  BY DEF PeekEnd
<1>4. TypeOK'
  BY <1>1, <1>2, <1>3 DEF PeekEnd, TypeOK
<1> QED
  BY <1>2, <1>4, QueueUntouched DEF PeekEnd

(* jit_dequeue.                                                            *)
LEMMA JitDequeueStep == ASSUME QueueInv, JitDequeue PROVE QueueInv'
<1> USE DEF downVars, beaconVars, slotVars, radioVars
<1>1. TypeOK /\ pkt_index \in Nat
  BY DEF QueueInv, JitDequeue
<1>2. pkt_index + 1 \in Nat \ {0}
  BY <1>1
<1>3. nodes' \in jit_sort_queue(RemoveNode(nodes, pkt_index + 1))
  BY DEF JitDequeue
<1>4. nodes' \in Seq(Node)
  BY <1>1, <1>2, <1>3, RemovedType
<1>5. num_beacon' \in Int
  <2>1. num_beacon \in Int
    BY <1>1 DEF TypeOK
  <2> QED
    BY <2>1, NumBeaconType DEF JitDequeue
<1>6. jit_pkt' \in Node
  BY <1>1, NodeAtType DEF JitDequeue, TypeOK
<1>7. jit_peers' \subseteq Counter
  <2>1. RemoveNode(nodes, pkt_index + 1) \in Seq(Node)
    BY <1>1, <1>2, RemoveNodeProperties DEF TypeOK
  <2>2. \A k \in 1 .. Len(RemoveNode(nodes, pkt_index + 1)) :
          RemoveNode(nodes, pkt_index + 1)[k].count_us \in Counter
    BY <2>1, SeqElement, DelayBounds
  <2> QED
    BY <2>2 DEF JitDequeue
<1>8. TypeOK'
  BY <1>1, <1>4, <1>5, <1>6, <1>7 DEF JitDequeue, TypeOK
<1> QED
  BY <1>2, <1>3, <1>8, QueueShrinks DEF JitDequeue

(* The check of the radio's status.                                        *)
LEMMA JitStatusStep == ASSUME QueueInv, JitStatus PROVE QueueInv'
<1> USE DEF queueVars, downVars, beaconVars, slotVars, peekVars, radioVars
<1>1. TypeOK
  BY DEF QueueInv
<1>2. /\ jit_pc' \in {"wait", "send"}
      /\ jit_pkt' \in Node /\ jit_peers' \subseteq Counter
  BY <1>1, NoPktType DEF JitStatus, JitDone, TypeOK
<1>3. TypeOK'
  BY <1>1, <1>2 DEF JitStatus, TypeOK
<1> QED
  BY <1>2, <1>3, QueueUntouched DEF JitStatus

(* The packet is handed to the concentrator.                               *)
LEMMA JitSendStep == ASSUME QueueInv, JitSend PROVE QueueInv'
<1> USE DEF queueVars, downVars, beaconVars, slotVars, peekVars
<1>1. TypeOK
  BY DEF QueueInv
<1>2. /\ jit_pc' = "wait"
      /\ jit_pkt' \in Node /\ jit_peers' \subseteq Counter
  BY <1>1, NoPktType DEF JitSend, JitDone, TypeOK
<1>3. /\ tx_status' \in {"FREE", "SCHEDULED", "EMITTING"}
      /\ tx_pkt' \in Node /\ tx_peers' \subseteq Counter
  BY <1>1, NoPktType DEF JitSend, RadioIdle, radioVars, TypeOK
<1>4. TypeOK'
  BY <1>1, <1>2, <1>3 DEF JitSend, TypeOK
<1> QED
  BY <1>2, <1>4, QueueUntouched DEF JitSend

-----------------------------------------------------------------------------
(* A step of either thread, of the concentrator or of the GPS, and a       *)
(* stuttering step, preserve the invariant.                                *)
LEMMA NextQueueInv == QueueInv /\ [Next]_vars => QueueInv'
<1> SUFFICES ASSUME QueueInv, [Next]_vars PROVE QueueInv'
  OBVIOUS
<1>1. CASE Tick
  BY <1>1, TickStep
<1>2. CASE GpsChange
  BY <1>2, GpsChangeStep
<1>3. CASE thread_down
  BY <1>3, DownRecvStep, BeaconLoopEndStep, BeaconPrepareStep, DownIgnoreStep,
     DownRejectStep, DownPrepareStep, JitFullCheckStep, JitEnqueueStep DEF thread_down
<1>4. CASE thread_jit
  BY <1>4, JitReadCounterStep, PeekStartStep, PeekDropStep, PeekScanStep,
     PeekEndStep, JitDequeueStep, JitStatusStep, JitSendStep DEF thread_jit
<1>5. CASE UNCHANGED vars
  <2> USE DEF vars, queueVars, downVars, beaconVars, slotVars, jitVars,
              peekVars, radioVars
  <2>1. TypeOK
    BY DEF QueueInv
  <2>2. TypeOK'
    BY <1>5, <2>1 DEF TypeOK
  <2> QED
    BY <1>5, <2>2, QueueUntouched DEF QueueInv
<1> QED
  BY <1>1, <1>2, <1>3, <1>4, <1>5 DEF Next

(* The variables of both threads, of the queue and of the radio keep their *)
(* types; in particular every timestamp the code computes is a uint32_t.   *)
THEOREM TypeCorrect == Spec => []TypeOK
<1>1. QueueInv => TypeOK
  BY DEF QueueInv
<1> QED
  BY <1>1, InitQueueInv, NextQueueInv, PTL DEF Spec

(* jit_enqueue never writes behind the end of nodes[], although it tests   *)
(* for a full queue and inserts in two critical sections.                  *)
THEOREM QueueStaysBounded == Spec => []QueueBounded
<1>1. QueueInv => QueueBounded
  BY DEF QueueInv
<1> QED
  BY <1>1, InitQueueInv, NextQueueInv, PTL DEF Spec

(* No two packets in the queue overlap, whatever jit_enqueue, jit_dequeue  *)
(* and the purge of jit_peek did, in whatever order.                       *)
THEOREM QueueNeverOverlaps == Spec => []NoOverlap
<1>1. QueueInv => NoOverlap
  BY DEF QueueInv
<1> QED
  BY <1>1, InitQueueInv, NextQueueInv, PTL DEF Spec

(* The types, as far as the proofs below need them.                        *)
LEMMA Types ==
    TypeOK => /\ now \in Counter /\ jit_time \in Counter /\ down_time \in Counter
              /\ nodes \in Seq(Node) /\ Len(nodes) \in Nat
              /\ down_pkt \in Node /\ jit_pkt \in Node /\ tx_pkt \in Node
              /\ num_beacon \in Int /\ beacon_loop \in Int
              /\ i \in Nat /\ idx_highest_priority \in Nat \cup {NONE}
              /\ pkt_index \in Nat \cup {NONE}
              /\ tx_status \in {"FREE", "SCHEDULED", "EMITTING"}
BY DEF TypeOK

(* The same of QueueInv, with what it says of the queue.                   *)
LEMMA QueueTypes ==
    QueueInv =>
      /\ TypeOK /\ NoOverlap /\ Spread(nodes)
      /\ now \in Counter /\ jit_time \in Counter /\ down_time \in Counter
      /\ nodes \in Seq(Node) /\ Len(nodes) \in Nat
      /\ down_pkt \in Node /\ jit_pkt \in Node /\ tx_pkt \in Node
      /\ num_beacon \in Int /\ beacon_loop \in Int
      /\ i \in Nat /\ idx_highest_priority \in Nat \cup {NONE}
      /\ pkt_index \in Nat \cup {NONE}
      /\ tx_status \in {"FREE", "SCHEDULED", "EMITTING"}
      /\ jit_pc = "dequeue" => pkt_index \in Nat
      /\ down_pc = "enqueue" => Len(nodes) < JIT_QUEUE_MAX
      /\ DownInCall => down_pkt.pre_delay >= TX_START_DELAY
BY Types DEF QueueInv, NoOverlap

-----------------------------------------------------------------------------
(* The packets in the queue. *)

(* The queue as a set of packets. *)

Packets(q) == {q[j] : j \in 1 .. Len(q)}

(* Packets that are apart have different timestamps.                       *)
LEMMA SpreadDistinct ==
    ASSUME NEW q \in Seq(Node), Spread(q)
    PROVE  \A j, k \in 1 .. Len(q) : q[j].count_us = q[k].count_us => j = k
<1> SUFFICES ASSUME NEW j \in 1 .. Len(q), NEW k \in 1 .. Len(q), j # k
             PROVE  q[j].count_us # q[k].count_us
  OBVIOUS
<1>1. q[j] \in Node /\ q[k] \in Node
  BY SeqElement
<1>2. Apart(q[j], q[k])
  BY DEF Spread
<1>3. /\ q[j].count_us \in Counter /\ q[k].count_us \in Counter
      /\ q[k].post_delay \in Nat /\ q[j].pre_delay \in Nat
  BY <1>1, DelayBounds
<1>4. Ahead(q[k], q[j]) \in Nat
  BY <1>3, JitConstants DEF Ahead
<1> DEFINE d == Minus(q[j].count_us, q[k].count_us)
           a == Ahead(q[k], q[j])
           b == q[k].post_delay
<1>5. d \in Int /\ a \in Nat /\ b \in Nat /\ d > a + b + TX_MARGIN_DELAY
  <2>1. d \in Counter
    BY <1>3, MinusType
  <2>2. d \in Int
    BY <2>1 DEF Counter
  <2> QED
    BY <1>2, <1>3, <1>4, <2>2 DEF Apart
<1>6. d # 0
  <2> HIDE DEF d, a, b
  <2> QED
    BY <1>5, JitConstants
<1>7. Minus(q[j].count_us, q[j].count_us) = 0
  BY <1>3 DEF Minus, Counter
<1> QED
  BY <1>6, <1>7

(* s is q, rearranged by the permutation p.                                *)
Rearranges(p, q, s) ==
    /\ p \in [1 .. Len(q) -> 1 .. Len(q)]
    /\ \A j, k \in 1 .. Len(q) : p[j] = p[k] => j = k
    /\ \A k \in 1 .. Len(q) : \E j \in 1 .. Len(q) : p[j] = k
    /\ \A j \in 1 .. Len(q) : s[j] = q[p[j]]

(* What the sort may leave: a permutation of the queue.                    *)
LEMMA SortPermutes ==
    ASSUME NEW q \in Seq(Node), NEW s \in jit_sort_queue(q)
    PROVE  /\ s \in Seq(Node) /\ Len(s) = Len(q) /\ Len(q) \in Nat
           /\ \E p : Rearranges(p, q, s)
           /\ \A j \in 1 .. Len(q) : \E k \in 1 .. Len(q) : s[j] = q[k]
           /\ \A k \in 1 .. Len(q) : \E j \in 1 .. Len(q) : s[j] = q[k]
<1>1. s \in Orders(q)
  BY DEF jit_sort_queue
<1>2. PICK p \in Shuffles(Len(q)) : s = [j \in 1 .. Len(q) |-> q[p[j]]]
  BY <1>1 DEF Orders
<1>3. Rearranges(p, q, s)
  BY <1>2 DEF Shuffles, Rearranges
<1>4. ASSUME NEW j \in 1 .. Len(q)
      PROVE  \E k \in 1 .. Len(q) : s[j] = q[k]
  <2>1. p[j] \in 1 .. Len(q) /\ s[j] = q[p[j]]
    BY <1>3 DEF Rearranges
  <2> QED
    BY <2>1
<1>5. ASSUME NEW k \in 1 .. Len(q)
      PROVE  \E j \in 1 .. Len(q) : s[j] = q[k]
  <2>1. PICK j \in 1 .. Len(q) : p[j] = k
    BY <1>3 DEF Rearranges
  <2>2. s[j] = q[p[j]]
    BY <1>3 DEF Rearranges
  <2> QED
    BY <2>1, <2>2
<1> QED
  BY <1>3, <1>4, <1>5, SortProperties, SeqProperties

(* It leaves a sorted queue if compare() orders what it leaves.            *)
LEMMA SortSorts ==
    ASSUME NEW q \in Seq(Node), NEW s \in jit_sort_queue(q), Ordered(s)
    PROVE  Sorted(s)
<1>1. /\ Len(s) = Len(q)
      /\ \A k \in 1 .. Len(q) : \E j \in 1 .. Len(q) : s[j] = q[k]
  BY SortPermutes, Zenon
<1>2. Ordered(q)
  <2> SUFFICES ASSUME NEW j \in 1 .. Len(q), NEW k \in 1 .. Len(q),
                      NEW l \in 1 .. Len(q)
               PROVE  /\ compare(q[j], q[k]) <= 0 => compare(q[k], q[j]) >= 0
                      /\ compare(q[j], q[k]) <= 0 /\ compare(q[k], q[l]) <= 0
                           => compare(q[j], q[l]) <= 0
    BY DEF Ordered
  <2>1. PICK a \in 1 .. Len(s), b \in 1 .. Len(s), c \in 1 .. Len(s) :
          q[j] = s[a] /\ q[k] = s[b] /\ q[l] = s[c]
    BY <1>1
  <2> QED
    BY <2>1 DEF Ordered
<1> QED
  BY <1>2 DEF jit_sort_queue

(* The sort keeps the packets.                                             *)
LEMMA SortPackets ==
    ASSUME NEW q \in Seq(Node), NEW s \in jit_sort_queue(q)
    PROVE  Packets(s) = Packets(q)
<1>1. /\ Len(s) = Len(q)
      /\ \A j \in 1 .. Len(q) : \E k \in 1 .. Len(q) : s[j] = q[k]
      /\ \A k \in 1 .. Len(q) : \E j \in 1 .. Len(q) : s[j] = q[k]
  BY SortPermutes, Zenon
<1>2. \A j \in 1 .. Len(q) : s[j] \in Packets(q) /\ q[j] \in Packets(s)
  BY <1>1, Zenon DEF Packets
<1> QED
  BY <1>1, <1>2, Zenon DEF Packets

(* An insertion adds the packet.                                           *)
LEMMA AppendPackets ==
    ASSUME NEW q \in Seq(Node), NEW p \in Node
    PROVE  Packets(Append(q, p)) = Packets(q) \cup {p}
<1>1. /\ Len(Append(q, p)) = Len(q) + 1 /\ Len(q) \in Nat
      /\ \A j \in 1 .. Len(q) : Append(q, p)[j] = q[j]
      /\ Append(q, p)[Len(q) + 1] = p
  BY AppendElements, SeqProperties
<1>2. 1 .. Len(Append(q, p)) = (1 .. Len(q)) \cup {Len(q) + 1}
  BY <1>1
<1> QED
  BY <1>1, <1>2 DEF Packets

(* A removal takes out the packet, and no other.                           *)
LEMMA RemovePackets ==
    ASSUME NEW q \in Seq(Node), Spread(q), NEW k \in 1 .. Len(q)
    PROVE  /\ Len(RemoveNode(q, k)) = Len(q) - 1
           /\ \A j \in 1 .. Len(q) - 1 : j # k => RemoveNode(q, k)[j] = q[j]
           /\ Packets(RemoveNode(q, k)) = Packets(q) \ {q[k]}
<1> DEFINE r == RemoveNode(q, k)
           n == Len(q)
<1>1. n \in Nat \ {0} /\ n - 1 \in Nat
  BY SeqProperties
<1>2. \A j \in 1 .. n : q[j] \in Node
  BY SeqElement
<1>3. r \in [1 .. n - 1 -> Node]
  BY <1>1, <1>2 DEF RemoveNode
<1>4. Len(r) = n - 1
  BY <1>1, <1>3, FunctionIsSeq
<1>5. \A j \in 1 .. n - 1 : r[j] = IF j = k THEN q[n] ELSE q[j]
  BY DEF RemoveNode
<1>6. \A j, l \in 1 .. n : q[j] = q[l] => j = l
  BY SpreadDistinct
<1> HIDE DEF r, n
<1>7. ASSUME NEW x \in Packets(r) PROVE x \in {q[j] : j \in 1 .. n} \ {q[k]}
  <2>1. PICK j \in 1 .. n - 1 : x = r[j]
    BY <1>4 DEF Packets
  <2>2. CASE j = k
    BY <1>1, <1>5, <1>6, <2>1, <2>2 DEF n
  <2>3. CASE j # k
    BY <1>1, <1>5, <1>6, <2>1, <2>3 DEF n
  <2> QED
    BY <2>2, <2>3
<1>8. ASSUME NEW x \in {q[j] : j \in 1 .. n} \ {q[k]} PROVE x \in Packets(r)
  <2>1. PICK j \in 1 .. n : x = q[j] /\ j # k
    OBVIOUS
  <2>2. CASE j = n
    BY <1>1, <1>4, <1>5, <2>1, <2>2 DEF Packets, n
  <2>3. CASE j # n
    BY <1>1, <1>4, <1>5, <2>1, <2>3 DEF Packets
  <2> QED
    BY <2>2, <2>3
<1>9. Packets(r) = Packets(q) \ {q[k]}
  BY <1>7, <1>8, Zenon DEF Packets, n
<1> QED
  BY <1>4, <1>5, <1>9 DEF r, n

-----------------------------------------------------------------------------
(* The order of the queue. *)

(* compare() is an int, and 0 only for equal timestamps.                   *)
LEMMA CompareType ==
    ASSUME NEW m \in Node, NEW n \in Node
    PROVE  /\ compare(m, n) \in Int
           /\ compare(m, n) = 0 => m.count_us = n.count_us
<1>1. m.count_us \in Counter /\ n.count_us \in Counter
  BY DelayBounds
<1> QED
  BY <1>1, JitConstants DEF compare, Minus, Counter, Half

(* In a sorted queue that compare() orders, a later node is later.         *)
LEMMA SortedStrictly ==
    ASSUME NEW q \in Seq(Node), Spread(q), Ordered(q), Sorted(q),
           NEW j \in 1 .. Len(q), NEW k \in 1 .. Len(q), j < k
    PROVE  compare(q[j], q[k]) < 0 /\ compare(q[k], q[j]) > 0
<1>1. q[j] \in Node /\ q[k] \in Node
  BY SeqElement
<1>2. compare(q[j], q[k]) <= 0
  BY DEF Sorted
<1>3. compare(q[k], q[j]) >= 0
  BY <1>2 DEF Ordered
<1>4. q[j].count_us # q[k].count_us
  BY SpreadDistinct
<1>5. /\ compare(q[j], q[k]) \in Int /\ compare(q[j], q[k]) # 0
      /\ compare(q[k], q[j]) \in Int /\ compare(q[k], q[j]) # 0
  BY <1>1, <1>4, CompareType, Zenon
<1> QED
  BY <1>2, <1>3, <1>5

-----------------------------------------------------------------------------
(* What the steps do to the queue. *)

(* jit_enqueue answers e for the packet p, that is for down_pkt with the   *)
(* timestamp it is given.                                                  *)
Enqueues(p, e) ==
    /\ p \in Node
    /\ p.pkt_type = down_pkt.pkt_type
    /\ p.pre_delay = down_pkt.pre_delay /\ p.post_delay = down_pkt.post_delay
    /\ p.count_us \in IF down_pkt.pkt_type = "CLASS_C"
                        THEN AsapCounts(nodes, down_pkt, down_time)
                        ELSE {down_pkt.count_us}
    /\ e = JitError(nodes, p, down_time)
    /\ IF e = "OK"
         THEN /\ nodes' \in jit_sort_queue(Append(nodes, p))
              /\ num_beacon' = IF p.pkt_type = "BEACON" THEN num_beacon + 1
                                                        ELSE num_beacon
         ELSE UNCHANGED queueVars
    /\ EnqueueDone(e)

(* jit_enqueue has one packet and one answer.                              *)
LEMMA EnqueueCases ==
    ASSUME QueueInv, JitEnqueue
    PROVE  \E p, e : Enqueues(p, e)
<1>1. PICK c \in IF down_pkt.pkt_type = "CLASS_C"
                   THEN AsapCounts(nodes, down_pkt, down_time)
                   ELSE {down_pkt.count_us} :
        LET p == [down_pkt EXCEPT !.count_us = c]
            result == JitError(nodes, p, down_time)
        IN  /\ IF result = "OK"
                 THEN /\ nodes' \in jit_sort_queue(Append(nodes, p))
                      /\ num_beacon' = IF p.pkt_type = "BEACON"
                                         THEN num_beacon + 1
                                         ELSE num_beacon
                 ELSE UNCHANGED queueVars
            /\ EnqueueDone(result)
  BY DEF JitEnqueue
<1> DEFINE p == [down_pkt EXCEPT !.count_us = c]
           e == JitError(nodes, p, down_time)
<1>2. nodes \in Seq(Node) /\ down_pkt \in Node /\ down_time \in Counter
  BY QueueTypes
<1>3. c \in Counter
  BY <1>1, <1>2, AsapType, DelayBounds
<1>4. /\ p \in Node /\ p.count_us = c
      /\ p.pkt_type = down_pkt.pkt_type
      /\ p.pre_delay = down_pkt.pre_delay
      /\ p.post_delay = down_pkt.post_delay
  BY <1>2, <1>3 DEF Node
<1>5. /\ IF e = "OK"
           THEN /\ nodes' \in jit_sort_queue(Append(nodes, p))
                /\ num_beacon' = IF p.pkt_type = "BEACON" THEN num_beacon + 1
                                                          ELSE num_beacon
           ELSE UNCHANGED queueVars
      /\ EnqueueDone(e)
  BY <1>1
<1>6. Enqueues(p, e)
  <2> HIDE DEF p
  <2> QED
    BY <1>1, <1>4, <1>5 DEF Enqueues
<1> QED
  BY <1>6

(* The queue after a packet was accepted.                                  *)
LEMMA AcceptedQueue ==
    ASSUME QueueInv, JitEnqueue, NEW p, Enqueues(p, "OK")
    PROVE  /\ nodes' \in Seq(Node) /\ Len(nodes') = Len(nodes) + 1
           /\ Spread(nodes')
           /\ Packets(nodes') = Packets(nodes) \cup {p}
           /\ \A j \in 1 .. Len(nodes) : Apart(p, nodes[j]) /\ Apart(nodes[j], p)
           /\ Ordered(nodes') => Sorted(nodes')
<1>1. /\ nodes \in Seq(Node) /\ Spread(nodes) /\ p \in Node
      /\ p.pre_delay >= TX_START_DELAY
  BY QueueTypes DEF Enqueues, JitEnqueue, DownInCall
<1>2. nodes' \in jit_sort_queue(Append(nodes, p))
  BY DEF Enqueues
<1>3. \A j \in 1 .. Len(nodes) : ~Collides(p, nodes[j])
  BY JitErrorMeaning, Zenon DEF Enqueues
<1>4. /\ Append(nodes, p) \in Seq(Node) /\ Spread(Append(nodes, p))
      /\ Len(Append(nodes, p)) = Len(nodes) + 1
  BY <1>1, <1>3, AppendSpread
<1>5. /\ nodes' \in Seq(Node) /\ Spread(nodes')
      /\ Len(nodes') = Len(nodes) + 1
  BY <1>2, <1>4, SortProperties, Zenon
<1>6. Packets(nodes') = Packets(nodes) \cup {p}
  BY <1>1, <1>2, <1>4, SortPackets, AppendPackets, Zenon
<1>7. \A j \in 1 .. Len(nodes) : Apart(p, nodes[j]) /\ Apart(nodes[j], p)
  BY <1>1, <1>3, NoCollisionApart, SeqElement
<1>8. Ordered(nodes') => Sorted(nodes')
  BY <1>2, <1>4, SortSorts, Zenon
<1> QED
  BY <1>5, <1>6, <1>7, <1>8

(* The queue after a packet was taken out.                                 *)
LEMMA ShortenedQueue ==
    ASSUME QueueInv, NEW k \in 1 .. Len(nodes),
           nodes' \in jit_sort_queue(RemoveNode(nodes, k))
    PROVE  /\ nodes' \in Seq(Node) /\ Len(nodes') = Len(nodes) - 1
           /\ Spread(nodes')
           /\ Packets(nodes') = Packets(nodes) \ {nodes[k]}
           /\ Ordered(nodes') => Sorted(nodes')
<1>1. nodes \in Seq(Node) /\ Spread(nodes)
  BY QueueTypes
<1>2. k \in Nat \ {0}
  BY <1>1, SeqProperties
<1>3. RemoveNode(nodes, k) \in Seq(Node) /\ Spread(RemoveNode(nodes, k))
  BY <1>1, <1>2, RemoveNodeProperties
<1>4. /\ Len(RemoveNode(nodes, k)) = Len(nodes) - 1
      /\ Packets(RemoveNode(nodes, k)) = Packets(nodes) \ {nodes[k]}
  BY <1>1, RemovePackets
<1>5. /\ nodes' \in Seq(Node) /\ Spread(nodes')
      /\ Len(nodes') = Len(nodes) - 1
  BY <1>3, <1>4, SortProperties
<1>6. Packets(nodes') = Packets(nodes) \ {nodes[k]}
  BY <1>3, <1>4, SortPackets
<1>7. Ordered(nodes') => Sorted(nodes')
  BY <1>3, SortSorts
<1> QED
  BY <1>5, <1>6, <1>7

-----------------------------------------------------------------------------
(* The index of jit_peek. *)

Fresh(n) == Minus(n.count_us, jit_time) < TX_MAX_ADVANCE_DELAY

(* The queue is sorted between critical sections.  jit_peek scans it under *)
(* the lock; the nodes scanned since the latest purge, which are those     *)
(* from index 1 on, and those up to the best one are fresh, so that a      *)
(* purge only ever concerns a node behind the best one.                    *)
PeekInv ==
    /\ Sorted(nodes)
    /\ mx_jit_queue = "jit" <=> jit_pc = "peek"
    /\ jit_pc # "peek" => i = 0
    /\ i = 0 => idx_highest_priority = NONE
    /\ idx_highest_priority # NONE => idx_highest_priority < Len(nodes)
    /\ jit_pc = "peek" =>
         \A j \in 1 .. Len(nodes) - 1 :
           j < i \/ j <= idx_highest_priority => Fresh(nodes[j+1])
    /\ jit_pc = "dequeue" => pkt_index < Len(nodes)

(* The index that jit_dequeue is given.                                    *)
LEMMA PeekedIndex ==
    ASSUME QueueInv, PeekInv, jit_pc = "dequeue"
    PROVE  /\ pkt_index \in Nat /\ pkt_index < Len(nodes)
           /\ pkt_index + 1 \in 1 .. Len(nodes)
           /\ NodeAt(nodes, pkt_index) = nodes[pkt_index + 1]
<1>1. pkt_index \in Nat /\ Len(nodes) \in Nat
  BY QueueTypes, Zenon
<1>2. pkt_index < Len(nodes)
  BY Zenon DEF PeekInv
<1>3. pkt_index + 1 \in 1 .. Len(nodes)
  BY <1>1, <1>2
<1> QED
  BY <1>1, <1>2, <1>3, Zenon DEF NodeAt

(* What jit_dequeue takes out, and what it leaves.                         *)
LEMMA Dequeued ==
    ASSUME QueueInv, PeekInv, JitDequeue
    PROVE  /\ jit_pkt' = nodes[pkt_index + 1]
           /\ nodes' \in jit_sort_queue(RemoveNode(nodes, pkt_index + 1))
           /\ Packets(nodes') = Packets(nodes) \ {nodes[pkt_index + 1]}
           /\ pkt_index + 1 \in 1 .. Len(nodes)
<1>1. jit_pc = "dequeue"
  BY Zenon DEF JitDequeue
<1>2. jit_pkt' = NodeAt(nodes, pkt_index)
  BY Zenon DEF JitDequeue
<1>3. nodes' \in jit_sort_queue(RemoveNode(nodes, pkt_index + 1))
  BY Zenon DEF JitDequeue
<1>4. /\ pkt_index + 1 \in 1 .. Len(nodes)
      /\ NodeAt(nodes, pkt_index) = nodes[pkt_index + 1]
  BY <1>1, PeekedIndex, Zenon
<1>5. Packets(nodes') = Packets(nodes) \ {nodes[pkt_index + 1]}
  BY <1>3, <1>4, ShortenedQueue, Zenon
<1> QED
  BY <1>2, <1>3, <1>4, <1>5, Zenon

(* The steps that neither change the queue nor belong to thread_jit.       *)
LEMMA OtherSteps ==
    ASSUME \/ Tick \/ GpsChange \/ DownRecv \/ BeaconLoopEnd \/ BeaconPrepare
           \/ DownIgnore \/ DownReject \/ DownPrepare \/ JitFullCheck
           \/ UNCHANGED vars
    PROVE  UNCHANGED <<queueVars, jitVars>>
BY DEF Tick, GpsChange, DownRecv, BeaconLoopEnd, BeaconPrepare, DownIgnore,
       DownReject, DownPrepare, JitFullCheck, vars

(* Of these, only a tick moves the clock, and none touches the radio.      *)
LEMMA DownSteps ==
    ASSUME \/ GpsChange \/ DownRecv \/ BeaconLoopEnd \/ BeaconPrepare
           \/ DownIgnore \/ DownReject \/ DownPrepare \/ JitFullCheck
           \/ UNCHANGED vars
    PROVE  UNCHANGED now /\ UNCHANGED radioVars
<1>1. CASE GpsChange \/ UNCHANGED vars
  BY <1>1 DEF GpsChange, vars
<1>2. CASE DownRecv \/ BeaconLoopEnd
  BY <1>2 DEF DownRecv, BeaconLoopEnd
<1>3. CASE BeaconPrepare \/ JitFullCheck
  BY <1>3 DEF BeaconPrepare, JitFullCheck
<1>4. CASE DownIgnore \/ DownReject \/ DownPrepare
  BY <1>4 DEF DownIgnore, DownReject, DownPrepare
<1> QED
  BY <1>1, <1>2, <1>3, <1>4

(* The empty queue.                                                        *)
LEMMA InitPeekInv == Init => PeekInv
BY DEF Init, PeekInv, Sorted

(* thread_down takes the answer for a beacon, or for a downlink.           *)
LEMMA DoneLoop ==
    ASSUME NEW e, EnqueueDone(e)
    PROVE  /\ down_pc' \in {"beacon", "recv"}
           /\ beacon_loop' = IF down_pkt.pkt_type = "BEACON" /\ e = "OK"
                               THEN beacon_loop - 1
                               ELSE beacon_loop
BY DEF EnqueueDone, BeaconDone, DownlinkDone

(* A fact about numbers that the lemmas below assume: it comes from the    *)
(* library, whose many definitions would slow down every proof after them. *)
(* TxScheduleProofs and TxPromptProofs prove it before they conclude.      *)
LeastNatural == \A T \in SUBSET Nat : T # {} => \E x \in T : \A y \in T : x <= y

(* Steps that leave the queue and jit_peek alone preserve PeekInv.         *)
LEMMA PeekUntouched ==
    ASSUME PeekInv,
           UNCHANGED <<nodes, mx_jit_queue, jit_pc, jit_time, i,
                       idx_highest_priority, pkt_index>>
    PROVE  PeekInv'
BY DEF PeekInv, Fresh

(* jit_enqueue, which waits for the end of jit_peek.                       *)
LEMMA EnqueuePeek ==
    ASSUME QueueInv, PeekInv, JitEnqueue, QueueOrdered' PROVE PeekInv'
<1> USE DEF jitVars, peekVars
<1>1. jit_pc # "peek"
  BY DEF PeekInv, JitEnqueue
<1>2. PICK p, e : Enqueues(p, e)
  BY EnqueueCases
<1>3. CASE e = "OK"
  <2>1. Len(nodes') = Len(nodes) + 1 /\ Sorted(nodes')
    BY <1>2, <1>3, AcceptedQueue DEF QueueOrdered
  <2>2. Len(nodes) \in Nat /\ pkt_index \in Nat \cup {NONE}
    BY QueueTypes
  <2> QED
    BY <1>1, <2>1, <2>2 DEF PeekInv, JitEnqueue, NONE
<1>4. CASE e # "OK"
  <2>1. UNCHANGED nodes
    BY <1>2, <1>4 DEF Enqueues, queueVars
  <2> QED
    BY <2>1, PeekUntouched DEF JitEnqueue
<1> QED
  BY <1>3, <1>4

(* The purge of a node and the sort leave the nodes in front of it where   *)
(* they are.                                                               *)
LEMMA FrontStays ==
    ASSUME LeastNatural, NEW q \in Seq(Node), Spread(q), Ordered(q), Sorted(q),
           NEW k \in 1 .. Len(q),
           NEW s \in jit_sort_queue(RemoveNode(q, k)), Sorted(s)
    PROVE  \A j \in 1 .. k - 1 : s[j] = q[j]
<1> DEFINE r == RemoveNode(q, k)
           T == {j \in 1 .. k - 1 : s[j] # q[j]}
<1>1. /\ r \in Seq(Node) /\ Len(r) = Len(q) - 1 /\ Len(q) \in Nat
      /\ Packets(r) = Packets(q) \ {q[k]}
  <2>1. Len(q) \in Nat /\ k \in Nat \ {0}
    BY SeqProperties
  <2>2. r \in Seq(Node)
    BY <2>1, RemoveNodeProperties
  <2>3. Len(r) = Len(q) - 1 /\ Packets(r) = Packets(q) \ {q[k]}
    BY RemovePackets
  <2> QED
    BY <2>1, <2>2, <2>3
<1>2. s \in Seq(Node) /\ Len(s) = Len(q) - 1 /\ Packets(s) = Packets(r)
  BY <1>1, SortProperties, SortPackets
<1>3. \A j, l \in 1 .. Len(q) : q[j] = q[l] => j = l
  BY SpreadDistinct
<1>4. \A j, l \in 1 .. Len(s) : s[j] = s[l] => j = l
  <2>1. Spread(s)
    BY <1>1, SortProperties, RemoveNodeProperties
  <2> QED
    BY <1>2, <2>1, SpreadDistinct, Zenon
<1> SUFFICES ASSUME T # {} PROVE FALSE
  OBVIOUS
<1>5. T \in SUBSET Nat
  OBVIOUS
<1>6. PICK m \in T : \A j \in T : m <= j
  <2> HIDE DEF T
  <2> QED
    BY <1>5, Zenon DEF LeastNatural
<1>7. /\ m \in 1 .. Len(q) /\ m \in 1 .. Len(s) /\ m < k /\ s[m] # q[m]
      /\ \A j \in 1 .. m - 1 : s[j] = q[j]
  BY <1>1, <1>2, <1>6
<1> HIDE DEF r, T
<1>8. PICK a \in 1 .. Len(q) : s[m] = q[a]
  <2>1. s[m] \in Packets(q)
    BY <1>1, <1>2, <1>7, Zenon DEF Packets
  <2> QED
    BY <2>1 DEF Packets
<1>9. m < a
  <2>1. a # m
    BY <1>7, <1>8
  <2>2. ASSUME a < m PROVE FALSE
    <3>1. a \in 1 .. m - 1 /\ a \in 1 .. Len(s)
      BY <1>1, <1>2, <1>7, <2>2
    <3>2. s[a] = s[m]
      BY <1>7, <1>8, <3>1
    <3> QED
      BY <1>4, <1>7, <2>1, <3>1, <3>2
  <2> QED
    BY <1>7, <2>1, <2>2
<1>10. PICK b \in 1 .. Len(s) : s[b] = q[m]
  <2>1. q[m] \in Packets(q) \ {q[k]}
    BY <1>3, <1>7 DEF Packets
  <2>2. q[m] \in Packets(s)
    BY <1>1, <1>2, <2>1
  <2> QED
    BY <2>2 DEF Packets
<1>11. m < b
  <2>1. b # m
    BY <1>7, <1>10
  <2>2. ASSUME b < m PROVE FALSE
    <3>1. b \in 1 .. m - 1 /\ b \in 1 .. Len(q)
      BY <1>1, <1>2, <1>7, <2>2
    <3>2. q[b] = q[m]
      BY <1>7, <1>10, <3>1
    <3> QED
      BY <1>3, <1>7, <2>1, <3>1, <3>2
  <2> QED
    BY <1>1, <1>2, <1>7, <2>1, <2>2
<1>12. compare(s[m], s[b]) <= 0
  BY <1>7, <1>11 DEF Sorted
<1>13. compare(q[a], q[m]) > 0
  BY <1>7, <1>9, SortedStrictly
<1>14. compare(q[a], q[m]) \in Int
  BY <1>7, SeqElement, CompareType, Zenon
<1> QED
  BY <1>8, <1>10, <1>12, <1>13, <1>14

(* The purge: what was scanned since the latest one is fresh, hence the    *)
(* node purged lies behind the best one, which stays where it is.          *)
LEMMA DropPeek ==
    ASSUME LeastNatural, QueueInv, PeekInv, PeekDrop, QueueOrdered, QueueOrdered'
    PROVE  PeekInv'
<1> DEFINE idx == idx_highest_priority
<1>1. /\ nodes \in Seq(Node) /\ Spread(nodes) /\ Sorted(nodes)
      /\ Len(nodes) \in Nat /\ i \in Nat /\ i < Len(nodes)
      /\ idx \in Nat \cup {NONE}
  BY QueueTypes DEF PeekInv, PeekDrop
<1>2. /\ jit_pc = "peek" /\ ~Fresh(nodes[i+1])
      /\ nodes' \in jit_sort_queue(RemoveNode(nodes, i + 1))
      /\ i' = 1
      /\ UNCHANGED <<jit_pc, jit_time, mx_jit_queue, idx, pkt_index>>
  <2>1. Minus(nodes[i+1].count_us, jit_time) \in Int
    <3>1. nodes[i+1].count_us \in Counter /\ jit_time \in Counter
      BY <1>1, SeqElement, DelayBounds, QueueTypes
    <3> QED
      BY <3>1, MinusType DEF Counter
  <2> QED
    BY <2>1, JitConstants DEF PeekDrop, Fresh
<1>3. idx # NONE => idx < i
  <2> SUFFICES ASSUME idx # NONE, i <= idx PROVE FALSE
    BY <1>1 DEF NONE
  <2>1. i # 0
    BY DEF PeekInv
  <2>2. i \in 1 .. Len(nodes) - 1
    BY <1>1, <2>1
  <2> QED
    BY <1>2, <2>2 DEF PeekInv
<1>4. i + 1 \in 1 .. Len(nodes)
  BY <1>1
<1>5. Len(nodes') = Len(nodes) - 1 /\ Sorted(nodes')
  BY <1>2, <1>4, ShortenedQueue DEF QueueOrdered
<1>6. \A j \in 1 .. (i + 1) - 1 : nodes'[j] = nodes[j]
  BY <1>1, <1>2, <1>4, <1>5, FrontStays DEF QueueOrdered
<1>7. ASSUME NEW j \in 1 .. Len(nodes') - 1, j < i' \/ j <= idx
      PROVE  Minus(nodes'[j+1].count_us, jit_time) < TX_MAX_ADVANCE_DELAY
  <2>1. idx # NONE /\ j <= idx
    BY <1>1, <1>2, <1>7 DEF NONE
  <2>2. j \in 1 .. Len(nodes) - 1 /\ j + 1 \in 1 .. (i + 1) - 1
    BY <1>1, <1>3, <1>5, <2>1 DEF NONE
  <2>3. Fresh(nodes[j+1])
    BY <1>2, <2>1, <2>2 DEF PeekInv
  <2> QED
    BY <1>6, <2>2, <2>3 DEF Fresh
<1>8. idx # NONE => idx < Len(nodes')
  BY <1>1, <1>3, <1>5 DEF NONE
<1> QED
  BY <1>2, <1>5, <1>7, <1>8 DEF PeekInv, Fresh

(* An iteration of jit_peek that finds a fresh node.                       *)
LEMMA ScanPeek == ASSUME QueueInv, PeekInv, PeekScan PROVE PeekInv'
<1> DEFINE idx == idx_highest_priority
<1>1. /\ Len(nodes) \in Nat /\ i \in Nat /\ i < Len(nodes)
      /\ idx \in Nat \cup {NONE}
  BY QueueTypes DEF PeekScan
<1>2. /\ jit_pc = "peek" /\ Fresh(nodes[i+1])
      /\ idx' \in {i, idx} /\ i' = i + 1
      /\ UNCHANGED <<nodes, jit_pc, jit_time, mx_jit_queue, pkt_index>>
  BY DEF PeekScan, Fresh, queueVars
<1>3. ASSUME NEW j \in 1 .. Len(nodes) - 1, j < i' \/ j <= idx'
      PROVE  Fresh(nodes[j+1])
  <2>1. j = i \/ j < i \/ j <= idx
    BY <1>1, <1>2, <1>3 DEF NONE
  <2> QED
    BY <1>2, <2>1 DEF PeekInv
<1>4. idx' # NONE => idx' < Len(nodes)
  BY <1>1, <1>2 DEF PeekInv
<1>5. i' # 0
  BY <1>1, <1>2
<1> QED
  BY <1>2, <1>3, <1>4, <1>5 DEF PeekInv, Fresh

(* The other steps of thread_jit.                                          *)
LEMMA JitPeek ==
    ASSUME QueueInv, PeekInv, QueueOrdered',
           \/ JitReadCounter \/ PeekStart \/ PeekEnd \/ JitDequeue
           \/ JitStatus \/ JitSend
    PROVE  PeekInv'
<1> USE DEF queueVars, peekVars
<1>1. CASE JitReadCounter
  BY <1>1 DEF PeekInv, JitReadCounter
<1>2. CASE PeekStart
  <2>1. /\ i = 0 /\ idx_highest_priority = NONE
        /\ UNCHANGED <<nodes, i, idx_highest_priority, jit_time, pkt_index>>
        /\ \/ jit_pc' = "wait" /\ mx_jit_queue' = mx_jit_queue /\ jit_pc = "start"
           \/ jit_pc' = "peek" /\ mx_jit_queue' = "jit"
    BY <1>2 DEF PeekInv, PeekStart
  <2>2. \A j \in 1 .. Len(nodes) - 1 : ~(j < 0) /\ ~(j <= NONE)
    BY DEF NONE
  <2> QED
    BY <2>1, <2>2 DEF PeekInv
<1>3. CASE PeekEnd
  <2>1. /\ mx_jit_queue' = "free" /\ i' = 0 /\ idx_highest_priority' = NONE
        /\ UNCHANGED nodes /\ jit_pc' \in {"wait", "dequeue"}
        /\ jit_pc' = "dequeue" => /\ idx_highest_priority # NONE
                                  /\ pkt_index' = idx_highest_priority
    BY <1>3 DEF PeekEnd
  <2> QED
    BY <2>1 DEF PeekInv
<1>4. CASE JitDequeue
  <2>1. /\ pkt_index \in Nat /\ pkt_index < Len(nodes) /\ Len(nodes) \in Nat
        /\ i = 0 /\ idx_highest_priority = NONE /\ mx_jit_queue # "jit"
    BY <1>4, QueueTypes DEF PeekInv, JitDequeue
  <2>2. pkt_index + 1 \in 1 .. Len(nodes)
    BY <2>1
  <2>3. Sorted(nodes')
    BY <1>4, <2>2, ShortenedQueue DEF JitDequeue, QueueOrdered
  <2> QED
    BY <1>4, <2>1, <2>3 DEF PeekInv, JitDequeue
<1>5. CASE JitStatus
  BY <1>5 DEF PeekInv, JitStatus, JitDone
<1>6. CASE JitSend
  BY <1>6 DEF PeekInv, JitSend, JitDone
<1> QED
  BY <1>1, <1>2, <1>3, <1>4, <1>5, <1>6

(* Every step.                                                             *)
LEMMA NextPeekInv ==
    ASSUME LeastNatural, QueueInv, PeekInv, QueueOrdered, QueueOrdered',
           [Next]_vars
    PROVE  PeekInv'
<1>1. CASE \/ Tick \/ GpsChange \/ DownRecv \/ BeaconLoopEnd \/ BeaconPrepare
           \/ DownIgnore \/ DownReject \/ DownPrepare \/ JitFullCheck
           \/ UNCHANGED vars
  BY <1>1, OtherSteps, PeekUntouched DEF queueVars, jitVars, peekVars
<1>2. CASE JitEnqueue
  BY <1>2, EnqueuePeek
<1>3. CASE PeekDrop
  BY <1>3, DropPeek
<1>4. CASE PeekScan
  BY <1>4, ScanPeek
<1>5. CASE \/ JitReadCounter \/ PeekStart \/ PeekEnd \/ JitDequeue
           \/ JitStatus \/ JitSend
  BY <1>5, JitPeek
<1> QED
  BY <1>1, <1>2, <1>3, <1>4, <1>5 DEF Next, thread_down, thread_jit

=============================================================================
