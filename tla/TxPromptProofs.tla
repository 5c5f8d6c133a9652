--------------------------- MODULE TxPromptProofs ---------------------------
(***************************************************************************)
(* The downlink path of prompt threads, without beacons, as Prompt of      *)
(* TxPath defines them, for every value of the constants: compare() orders *)
(* the queue, no downlink expires in it, each is programmed in time, none  *)
(* conflicts with another on the radio, and the index that jit_peek        *)
(* returns is still that of the packet it found when jit_dequeue uses it.  *)
(*                                                                         *)
(* TimeInv is the inductive invariant.  TxTimeProofs shows that the steps  *)
(* preserve it if AsapAhead holds: the slots that jit_enqueue finds for    *)
(* immediate downlinks are less than half the counter range ahead.  This   *)
(* is what is shown first.                                                 *)
(***************************************************************************)
EXTENDS TxTimeProofs

(* The provers, and the seconds each of them gets.                         *)
USE SMTT(10), ZenonT(10), SMTT(20), SMTT(30)

-----------------------------------------------------------------------------
(* The timestamp jit_enqueue finds for a class C downlink. *)

(* A timestamp that collides with x, on either side, is at most a slot     *)
(* later.                                                                  *)
LEMMA CollidesNear ==
    ASSUME NEW x \in Counter, NEW y \in Counter, NEW t \in Counter,
           NEW w \in Nat, w + DOWN_LATENCY < Half,
           Minus(x, t) < Half, Minus(y, t) < Half + DOWN_LATENCY,
           Minus(x, y) <= w \/ Minus(y, x) <= w
    PROVE  Minus(y, t) <= Minus(x, t) + w
<1>1. /\ Minus(x, t) \in 0 .. CounterMod - 1
      /\ Minus(x, y) \in 0 .. CounterMod - 1
      /\ Minus(y, t) \in 0 .. CounterMod - 1
      /\ \/ Minus(x, t) = Minus(x, y) + Minus(y, t)
         \/ Minus(x, t) = Minus(x, y) + Minus(y, t) - CounterMod
  BY MinusChain
<1>2. /\ Minus(y, x) \in 0 .. CounterMod - 1
      /\ \/ Minus(y, t) = Minus(y, x) + Minus(x, t)
         \/ Minus(y, t) = Minus(y, x) + Minus(x, t) - CounterMod
  BY MinusChain
<1>3. CASE Minus(x, y) <= w
  BY <1>1, <1>3, Bounds
<1>4. CASE Minus(y, x) <= w
  BY <1>1, <1>2, <1>4, Bounds
<1> QED
  BY <1>3, <1>4

(* The nodes as seen from the time at which thread_down read the counter.  *)
LEMMA NodesAhead ==
    ASSUME Prompt, QueueInv, LeadInv, Sorted(nodes), DownInCall
    PROVE  \A j \in 1 .. Len(nodes) :
             /\ nodes[j] \in Node /\ Downlink(nodes[j])
             /\ Minus(nodes[j].count_us, down_time) \in Nat
             /\ Minus(nodes[j].count_us, down_time) < Half + DOWN_LATENCY
             /\ \A k \in 1 .. Len(nodes) : j < k =>
                  Minus(nodes[j].count_us, down_time)
                    < Minus(nodes[k].count_us, down_time)
<1> DEFINE e == Minus(now, down_time)
           b(j) == Minus(nodes[j].count_us, down_time)
<1>1. TypeOK /\ NoOverlap /\ now \in Counter /\ down_time \in Counter
  BY QueueTypes
<1>2. \A j \in 1 .. Len(nodes) :
        nodes[j] \in Node /\ nodes[j] \in Packets(nodes)
  BY <1>1, SeqElement, Types DEF Packets
<1>3. e \in 0 .. CounterMod - 1 /\ e <= DOWN_LATENCY
  BY <1>1, MinusChain DEF LeadInv
<1>4. ASSUME NEW j \in 1 .. Len(nodes)
      PROVE  b(j) = Lead(nodes[j]) + e /\ Lead(nodes[j]) \in Nat
  <2>1. nodes[j].count_us \in Counter /\ Lead(nodes[j]) < Half
    BY <1>2, DelayBounds DEF LeadInv
  <2>2. /\ Minus(nodes[j].count_us, down_time) \in 0 .. CounterMod - 1
        /\ Minus(nodes[j].count_us, now) \in 0 .. CounterMod - 1
        /\ \/ b(j) = Minus(nodes[j].count_us, now) + e
           \/ b(j) = Minus(nodes[j].count_us, now) + e - CounterMod
    BY <1>1, <2>1, MinusChain
  <2>3. DOWN_LATENCY + 2 * JIT_LATENCY <= TX_JIT_DELAY + TX_MARGIN_DELAY
    BY DEF Prompt
  <2> HIDE DEF e, b
  <2> QED
    BY <1>3, <2>1, <2>2, <2>3, Bounds DEF Lead, b
<1>5. ASSUME NEW j \in 1 .. Len(nodes), NEW k \in 1 .. Len(nodes), j < k
      PROVE  b(j) < b(k)
  <2>1. Lead(nodes[j]) < Lead(nodes[k])
    BY <1>1, <1>5, SortedLead DEF LeadInv
  <2> HIDE DEF e, b
  <2> QED
    BY <1>3, <1>4, <2>1, Bounds
<1>6. \A j \in 1 .. Len(nodes) : Downlink(nodes[j]) /\ Lead(nodes[j]) < Half
  BY <1>2 DEF LeadInv
<1>7. \A j \in 1 .. Len(nodes) : b(j) \in Nat /\ b(j) < Half + DOWN_LATENCY
  <2> HIDE DEF e, b
  <2> QED
    BY <1>3, <1>4, <1>6, Bounds
<1> QED
  BY <1>2, <1>5, <1>6, <1>7

(* The slot behind a node within the bound is short of half the range.     *)
LEMMA AsapAfterBound ==
    ASSUME NEW w, SlotBound(w), NEW n \in Node, NEW p \in Node,
           Downlink(n), Downlink(p), NEW t \in Counter,
           NEW k \in Nat \ {0}, k < JIT_QUEUE_MAX,
           Minus(n.count_us, t) <= ChainBound(k, w)
    PROVE  /\ AsapAfter(n, p) \in Counter
           /\ Minus(AsapAfter(n, p), t) <= Minus(n.count_us, t) + w + TX_JIT_DELAY
           /\ Minus(AsapAfter(n, p), t) < Half
<1> DEFINE g == n.post_delay + p.pre_delay + TX_JIT_DELAY + TX_MARGIN_DELAY
           G == 2 * w + TX_JIT_DELAY
           a == AsapAfter(n, p)
           c == n.count_us
<1>1. g \in Nat /\ g < CounterMod /\ c \in Counter
  BY DelayBounds, Bounds
<1>2. a \in Counter /\ Minus(a, c) = g
  <2> HIDE DEF g
  <2>1. a = Plus(c, g)
    BY DEF AsapAfter, g
  <2> QED
    BY <1>1, <2>1, PlusMinus
<1>3. /\ Minus(a, t) \in 0 .. CounterMod - 1
      /\ Minus(c, t) \in 0 .. CounterMod - 1
      /\ \/ Minus(a, t) = g + Minus(c, t)
         \/ Minus(a, t) = g + Minus(c, t) - CounterMod
  BY <1>1, <1>2, MinusChain
<1>4. g <= w + TX_JIT_DELAY /\ w \in Nat
  <2>1. /\ TX_START_DELAY + TX_JIT_DELAY + TX_MARGIN_DELAY + n.post_delay <= w
        /\ p.pre_delay = TX_START_DELAY + TX_JIT_DELAY /\ w \in Nat
        /\ n.post_delay \in Nat
    BY DelayBounds DEF SlotBound, Downlink
  <2> QED
    BY <2>1, Bounds
<1>5. Minus(c, t) + g <= 2 * TX_JIT_DELAY + k * G
  <2> HIDE DEF g, a, c, G
  <2>1. k - 1 \in Nat /\ G \in Nat
    BY <1>4, Bounds DEF G
  <2>2. (k - 1) * G \in Nat /\ ((k - 1) + 1) * G = (k - 1) * G + G
    BY <2>1, Multiples
  <2>3. k * G = (k - 1) * G + G
    BY <2>2
  <2>4. Minus(c, t) <= 2 * TX_JIT_DELAY + w + (k - 1) * G
    BY DEF ChainBound, G, c
  <2>5. 2 * TX_JIT_DELAY + w + (k - 1) * G + w + TX_JIT_DELAY
          = 2 * TX_JIT_DELAY + k * G
    BY <1>4, <2>2, <2>3, Bounds DEF G
  <2> QED
    BY <1>1, <1>3, <1>4, <2>2, <2>3, <2>4, <2>5, Bounds
<1>6. 2 * TX_JIT_DELAY + k * G < Half /\ k * G \in Nat
  <2> HIDE DEF G
  <2>1. JIT_QUEUE_MAX - 1 \in Nat /\ k <= JIT_QUEUE_MAX - 1 /\ G \in Nat
    BY <1>4, Bounds DEF G
  <2>2. k * G <= (JIT_QUEUE_MAX - 1) * G /\ k * G \in Nat
        /\ (JIT_QUEUE_MAX - 1) * G \in Nat
    BY <2>1, Multiples
  <2>3. 2 * TX_JIT_DELAY + (JIT_QUEUE_MAX - 1) * G < Half
    BY DEF SlotBound, G
  <2> QED
    BY <2>2, <2>3, Bounds
<1> HIDE DEF g, a, c, G
<1> QED
  BY <1>1, <1>2, <1>3, <1>4, <1>5, <1>6, Bounds DEF a, c

(* Two downlinks collide only if they are less than a slot apart.          *)
LEMMA AsapCollidesSlot ==
    ASSUME NEW w, SlotBound(w), NEW n \in Node, NEW p \in Node,
           Downlink(n), Downlink(p), NEW c \in Counter, AsapCollides(c, p, n)
    PROVE  Minus(c, n.count_us) <= w \/ Minus(n.count_us, c) <= w
<1>1. /\ TX_START_DELAY + TX_JIT_DELAY + TX_MARGIN_DELAY + n.post_delay <= w
      /\ TX_START_DELAY + TX_JIT_DELAY + TX_MARGIN_DELAY + p.post_delay <= w
      /\ w \in Nat
      /\ n.pre_delay = TX_START_DELAY + TX_JIT_DELAY
      /\ p.pre_delay = TX_START_DELAY + TX_JIT_DELAY
  BY DEF SlotBound, Downlink
<1>2. /\ n.post_delay \in Nat /\ p.post_delay \in Nat
      /\ n.count_us \in Counter
  BY DelayBounds
<1>3. Minus(c, n.count_us) \in Int /\ Minus(n.count_us, c) \in Int
  BY <1>2, MinusType DEF Counter
<1>4. \/ Minus(c, n.count_us) <= p.pre_delay + n.post_delay + TX_MARGIN_DELAY
      \/ Minus(n.count_us, c) <= n.pre_delay + p.post_delay + TX_MARGIN_DELAY
  BY DEF AsapCollides, jit_collision_test
<1> QED
  BY <1>1, <1>2, <1>3, <1>4, Bounds

(* What the search answers: NOW + margin, or the slot behind a node, all   *)
(* nodes before it being too close to each other.                          *)
LEMMA AsapCases ==
    ASSUME NEW q, NEW p, NEW t, NEW c \in AsapCounts(q, p, t)
    PROVE  \/ c = Plus(t, 2 * TX_JIT_DELAY)
           \/ /\ \E m \in 1 .. Len(q) :
                    AsapCollides(Plus(t, 2 * TX_JIT_DELAY), p, q[m])
              /\ \E k \in 1 .. Len(q) :
                   /\ c = AsapAfter(q[k], p)
                   /\ \A j \in 1 .. k - 1 :
                        AsapCollides(AsapAfter(q[j], p), p, q[j+1])
BY DEF AsapCounts

(* Prompt bounds the slots.                                                *)
LEMMA PromptSlot == ASSUME Prompt PROVE \E w : SlotBound(w)
<1>1. PICK w \in Counter :
        /\ \A d \in TimesOnAir :
             TX_START_DELAY + TX_JIT_DELAY + TX_MARGIN_DELAY + d <= w
        /\ 2 * TX_JIT_DELAY + (JIT_QUEUE_MAX - 1) * (2 * w + TX_JIT_DELAY) < Half
  BY Zenon DEF Prompt
<1>2. w \in Nat
  BY Bounds DEF Counter
<1> QED
  BY <1>1, <1>2, Zenon DEF SlotBound

(* The bound of one node gives that of the next.                           *)
LEMMA ChainStep ==
    ASSUME NEW a \in Int, NEW b \in Int, NEW c \in Int, NEW d \in Int,
           NEW e, NEW w \in Nat, NEW g \in Nat,
           b <= d, a <= b + w + g, c <= a + w, e = d + 2 * w + g
    PROVE  c <= e
OBVIOUS

(* An immediate downlink gets a slot less than half the range ahead: by    *)
(* induction over the nodes it is queued behind.                           *)
LEMMA AsapBound ==
    ASSUME LeastNatural, Prompt, QueueInv, PeekInv, LeadInv PROVE AsapAhead
<1> SUFFICES ASSUME down_pc = "enqueue", NEW p \in Node, Downlink(p),
                    NEW c \in AsapCounts(nodes, p, down_time)
             PROVE  Minus(c, down_time) < Half
  BY DEF AsapAhead
<1>a. Sorted(nodes) /\ Len(nodes) < JIT_QUEUE_MAX /\ DownInCall
  BY DEF QueueInv, PeekInv, DownInCall
<1> DEFINE asap == Plus(down_time, 2 * TX_JIT_DELAY)
           b(j) == Minus(nodes[j].count_us, down_time)
<1>1. PICK w : SlotBound(w)
  BY PromptSlot
<1>2. down_time \in Counter /\ nodes \in Seq(Node) /\ Len(nodes) \in Nat
  BY QueueTypes
<1>3. asap \in Counter /\ Minus(asap, down_time) = 2 * TX_JIT_DELAY
  BY <1>2, PlusMinus, Bounds
<1>4. 2 * TX_JIT_DELAY < Half
  BY Bounds
<1>5. CASE c = asap
  BY <1>3, <1>4, <1>5
<1>6. ASSUME NEW m \in 1 .. Len(nodes), AsapCollides(asap, p, nodes[m]),
             NEW k \in 1 .. Len(nodes), c = AsapAfter(nodes[k], p),
             \A j \in 1 .. k - 1 :
               AsapCollides(AsapAfter(nodes[j], p), p, nodes[j+1])
      PROVE  Minus(c, down_time) < Half
  <2>1. w \in Nat /\ w + DOWN_LATENCY < Half
    <3>1. /\ w \in Nat
          /\ TX_START_DELAY + TX_JIT_DELAY + TX_MARGIN_DELAY + p.post_delay <= w
          /\ 2 * TX_JIT_DELAY + (JIT_QUEUE_MAX - 1) * (2 * w + TX_JIT_DELAY) < Half
      BY <1>1 DEF SlotBound, Downlink
    <3>2. p.post_delay \in Nat
      BY DelayBounds
    <3>3. DOWN_LATENCY + 2 * JIT_LATENCY <= TX_JIT_DELAY + TX_MARGIN_DELAY
      BY DEF Prompt
    <3>4. 1 <= JIT_QUEUE_MAX - 1 /\ JIT_QUEUE_MAX - 1 \in Nat
      BY <1>a, <1>2, Bounds
    <3>5. 2 * w + TX_JIT_DELAY \in Nat
      BY <3>1, Bounds
    <3>6. 1 * (2 * w + TX_JIT_DELAY)
            <= (JIT_QUEUE_MAX - 1) * (2 * w + TX_JIT_DELAY)
      BY <3>4, <3>5, Multiples
    <3>7. (JIT_QUEUE_MAX - 1) * (2 * w + TX_JIT_DELAY) \in Nat
      BY <3>4, <3>5, Multiples
    <3> QED
      BY <3>1, <3>2, <3>3, <3>5, <3>6, <3>7, Bounds
  <2>2. \A j \in 1 .. Len(nodes) :
          /\ nodes[j] \in Node /\ Downlink(nodes[j])
          /\ nodes[j].count_us \in Counter
          /\ b(j) \in Nat /\ b(j) < Half + DOWN_LATENCY
          /\ \A l \in 1 .. Len(nodes) : j < l => b(j) < b(l)
    BY <1>a, NodesAhead, DelayBounds
  <2>3. b(1) <= ChainBound(1, w)
    <3>1. Minus(asap, nodes[m].count_us) <= w \/ Minus(nodes[m].count_us, asap) <= w
      BY <1>1, <1>3, <1>6, <2>2, AsapCollidesSlot
    <3>2. b(m) <= 2 * TX_JIT_DELAY + w
      BY <1>2, <1>3, <1>4, <2>1, <2>2, <3>1, CollidesNear
    <3>3. 1 \in 1 .. Len(nodes) /\ (1 = m \/ 1 < m)
      BY <1>2
    <3>4. b(1) <= b(m)
      BY <2>2, <3>3
    <3>5. ChainBound(1, w) = 2 * TX_JIT_DELAY + w
      BY <2>1, Bounds DEF ChainBound
    <3> HIDE DEF b
    <3> QED
      BY <2>1, <2>2, <3>2, <3>3, <3>4, <3>5, Bounds
  <2>4. ASSUME NEW j \in 1 .. k - 1, b(j) <= ChainBound(j, w)
        PROVE  b(j + 1) <= ChainBound(j + 1, w)
    <3> DEFINE a == AsapAfter(nodes[j], p)
    <3>1. /\ j \in 1 .. Len(nodes) /\ j + 1 \in 1 .. Len(nodes)
          /\ j \in Nat \ {0} /\ j < JIT_QUEUE_MAX
      BY <1>a, <1>2, Bounds
    <3>2. /\ a \in Counter /\ Minus(a, down_time) <= b(j) + w + TX_JIT_DELAY
          /\ Minus(a, down_time) < Half
      BY <1>1, <1>2, <2>2, <2>4, <3>1, AsapAfterBound
    <3>3. AsapCollides(a, p, nodes[j+1])
      BY <1>6
    <3>4. \/ Minus(a, nodes[j+1].count_us) <= w
          \/ Minus(nodes[j+1].count_us, a) <= w
      BY <1>1, <2>2, <3>1, <3>2, <3>3, AsapCollidesSlot
    <3>5. b(j + 1) <= Minus(a, down_time) + w
      BY <1>2, <2>1, <2>2, <3>1, <3>2, <3>4, CollidesNear
    <3>6. ChainBound(j + 1, w) = ChainBound(j, w) + 2 * w + TX_JIT_DELAY
      <4>1. j - 1 \in Nat /\ 2 * w + TX_JIT_DELAY \in Nat
        BY <2>1, <3>1, Bounds
      <4>2. /\ ((j - 1) + 1) * (2 * w + TX_JIT_DELAY)
                 = (j - 1) * (2 * w + TX_JIT_DELAY) + (2 * w + TX_JIT_DELAY)
            /\ (j - 1) * (2 * w + TX_JIT_DELAY) \in Nat
        BY <4>1, Multiples
      <4>3. (j - 1) + 1 = (j + 1) - 1
        BY <3>1
      <4> QED
        BY <2>1, <4>1, <4>2, <4>3, Bounds DEF ChainBound
    <3>7. Minus(a, down_time) \in Int /\ b(j) \in Int /\ b(j + 1) \in Int
          /\ ChainBound(j, w) \in Int
      <4>1. j - 1 \in Nat /\ 2 * w + TX_JIT_DELAY \in Nat
        BY <2>1, <3>1, Bounds
      <4>2. (j - 1) * (2 * w + TX_JIT_DELAY) \in Nat
        BY <4>1, Multiples
      <4>3. ChainBound(j, w) \in Int
        BY <2>1, <4>2, Bounds DEF ChainBound
      <4>4. Minus(a, down_time) \in Int
        BY <1>2, <3>2, MinusChain
      <4> QED
        BY <2>2, <3>1, <4>3, <4>4
    <3> HIDE DEF a, b
    <3> QED
      BY <2>1, <2>4, <3>2, <3>5, <3>6, <3>7, Bounds, ChainStep
  <2>5. b(k) <= ChainBound(k, w)
    <3> DEFINE T == {j \in 1 .. k : ~(b(j) <= ChainBound(j, w))}
    <3> SUFFICES ASSUME T # {} PROVE FALSE
      BY <1>2
    <3>1. PICK j \in T : \A l \in T : j <= l
      <4>1. T \in SUBSET Nat
        OBVIOUS
      <4> HIDE DEF T
      <4> QED
        BY <4>1, Zenon DEF LeastNatural
    <3>2. j # 1
      BY <2>3
    <3>3. j - 1 \in 1 .. k - 1 /\ j - 1 \notin T
      BY <1>2, <3>1, <3>2
    <3>4. b(j - 1) <= ChainBound(j - 1, w)
      BY <3>3
    <3>5. b((j - 1) + 1) <= ChainBound((j - 1) + 1, w)
      BY <2>4, <3>3, <3>4
    <3>6. (j - 1) + 1 = j
      BY <3>1
    <3> QED
      BY <3>1, <3>5, <3>6
  <2>6. k \in Nat \ {0} /\ k < JIT_QUEUE_MAX
    BY <1>a, <1>2, Bounds
  <2> QED
    BY <1>1, <1>2, <1>6, <2>2, <2>5, <2>6, AsapAfterBound
<1> QED
  BY <1>5, <1>6, AsapCases

-----------------------------------------------------------------------------
(* What prompt threads achieve. *)

TimeInv == QueueInv /\ PeekInv /\ LeadInv /\ ScanInv /\ RadioInv

(* No packet is waiting initially.                                         *)
LEMMA InitTimeInv == ASSUME Prompt, Init PROVE TimeInv
<1>1. QueueInv /\ PeekInv
  BY InitQueueInv, InitPeekInv
<1>2. Packets(nodes) = {}
  BY DEF Init, Packets
<1>3. now \in Counter /\ now = jit_time /\ now = down_time /\ Minus(now, now) = 0
  <2>1. now \in Counter /\ now = jit_time /\ now = down_time
    BY <1>1, QueueTypes DEF Init
  <2> QED
    BY <2>1, PlusMinus, Bounds
<1>4. LeadInv
  BY <1>2, <1>3, Bounds DEF Init, LeadInv, DownInCall
<1>5. ScanInv /\ RadioInv
  BY <1>2 DEF Init, ScanInv, RadioInv
<1> QED
  BY <1>1, <1>4, <1>5 DEF TimeInv

(* A step keeps the leads of the packets,                                  *)
LEMMA StepLeadInv ==
    ASSUME LeastNatural, Prompt, QueueInv, PeekInv, LeadInv, ScanInv, [Next]_vars
    PROVE  LeadInv'
BY NextLeadInv, AsapBound, Zenon

(* and the packet that jit_peek found.                                     *)
LEMMA StepScanInv ==
    ASSUME LeastNatural, Prompt, QueueInv, QueueInv', PeekInv, PeekInv',
           LeadInv, LeadInv', ScanInv, [Next]_vars
    PROVE  ScanInv'
BY NextScanInv, AsapBound, Zenon

(* Then no downlink has outlived its timestamp,                            *)
LEMMA NoneExpires == ASSUME Prompt, TimeInv PROVE NoDownlinkExpires
<1> SUFFICES ASSUME NEW j \in 1 .. Len(nodes)
             PROVE  ~Past(nodes[j].count_us, now)
  BY DEF NoDownlinkExpires
<1>1. nodes[j] \in Packets(nodes) /\ nodes[j] \in Node /\ TypeOK
  BY PacketsAreNodes DEF Packets, TimeInv, QueueInv
<1>2. Lead(nodes[j]) < Half /\ Lead(nodes[j]) \in Nat
  BY <1>1, LeadDue DEF TimeInv, LeadInv
<1> QED
  BY <1>2, Bounds DEF Past, Lead

(* the packet to be programmed is ahead of its trigger,                    *)
LEMMA InTime == ASSUME Prompt, TimeInv PROVE ProgrammedInTime
<1> SUFFICES ASSUME jit_pc = "send"
             PROVE  ~Past(Minus(jit_pkt.count_us, TX_START_DELAY + 1), now)
  BY DEF ProgrammedInTime
<1> DEFINE c == jit_pkt.count_us
<1>1. jit_pkt \in Node /\ TypeOK /\ c \in Counter /\ now \in Counter
  BY DelayBounds, QueueTypes DEF TimeInv
<1>2. /\ Lead(jit_pkt) < Half /\ Due(jit_pkt) >= Earliest
      /\ Minus(now, jit_time) <= JIT_LATENCY
  BY DEF TimeInv, ScanInv, LeadInv
<1>3. Lead(jit_pkt) \in Nat /\ Lead(jit_pkt) >= TX_START_DELAY + 1
  BY <1>1, <1>2, LeadDue
<1>4. Minus(c, now) \in Nat /\ TX_START_DELAY + 1 <= Minus(c, now)
      /\ Minus(c, now) < Half
  BY <1>2, <1>3 DEF Lead
<1> HIDE DEF c
<1>5. TX_START_DELAY + 1 \in Nat /\ TX_START_DELAY + 1 < CounterMod
  BY Bounds
<1>6. Minus(Minus(c, TX_START_DELAY + 1), now) = Minus(c, now) - (TX_START_DELAY + 1)
  BY <1>1, <1>4, <1>5, MovedCounter
<1>7. ~(Minus(Minus(c, TX_START_DELAY + 1), now) >= Half)
  BY <1>4, <1>5, <1>6, Bounds
<1> QED
  BY <1>7 DEF Past, c

(* the index is that of the packet that jit_peek found,                    *)
LEMMA IndexStays == ASSUME Prompt, TimeInv PROVE DequeuesPeeked
BY DEF TimeInv, PeekInv, ScanInv, DequeuesPeeked

(* and the radio has sent the earlier packet of its peers.                 *)
LEMMA NoConflict == ASSUME Prompt, TimeInv PROVE NoRadioConflict
<1> SUFFICES ASSUME jit_pc \in {"status", "send"},
                    tx_status # "FREE", jit_pkt.count_us \in tx_peers
             PROVE  FALSE
  BY DEF NoRadioConflict
<1> DEFINE x == jit_pkt.count_us
           y == tx_pkt.count_us
           d == tx_pkt.post_delay
<1>1. /\ jit_pkt \in Node /\ tx_pkt \in Node /\ TypeOK /\ now \in Counter
      /\ x \in Counter /\ y \in Counter
      /\ tx_status \in {"FREE", "SCHEDULED", "EMITTING"}
  BY DelayBounds, QueueTypes DEF TimeInv
<1>2. Minus(x, now) \in Nat /\ Minus(x, now) < TX_JIT_DELAY
  <2>1. /\ Due(jit_pkt) >= Earliest /\ Due(jit_pkt) < TX_JIT_DELAY
        /\ Minus(now, jit_time) <= JIT_LATENCY
    BY DEF TimeInv, ScanInv, LeadInv
  <2>2. /\ Lead(jit_pkt) \in Nat /\ Minus(now, jit_time) \in Nat
        /\ Lead(jit_pkt) = Due(jit_pkt) - Minus(now, jit_time)
        /\ Due(jit_pkt) \in Nat
    BY <1>1, <2>1, LeadDue
  <2> QED
    BY <2>1, <2>2, Bounds DEF Lead
<1>3. /\ TX_START_DELAY + TX_JIT_DELAY + d + TX_MARGIN_DELAY < Minus(x, y)
      /\ Minus(x, y) < Half /\ Downlink(tx_pkt)
  BY DEF TimeInv, RadioInv, Behind
<1>4. d \in Nat /\ d < CounterMod /\ TX_START_DELAY + d < CounterMod
  BY <1>3, DownlinkDelays
<1>5. CASE tx_status = "SCHEDULED"
  <2>1. Minus(y, now) < Half
    BY <1>5 DEF TimeInv, RadioInv, Lead
  <2> HIDE DEF x, y, d
  <2>2. /\ Minus(x, now) \in 0 .. CounterMod - 1
        /\ Minus(x, y) \in 0 .. CounterMod - 1
        /\ Minus(y, now) \in 0 .. CounterMod - 1
        /\ \/ Minus(x, now) = Minus(x, y) + Minus(y, now)
           \/ Minus(x, now) = Minus(x, y) + Minus(y, now) - CounterMod
    BY <1>1, MinusChain
  <2> QED
    BY <1>2, <1>3, <1>4, <2>1, <2>2, Bounds
<1>6. CASE tx_status = "EMITTING"
  <2> DEFINE z == Plus(y, d)
  <2>1. 1 <= Minus(z, now) /\ Minus(z, now) <= TX_START_DELAY + d
    BY <1>6 DEF TimeInv, RadioInv, Left
  <2> HIDE DEF x, y, d
  <2>2. z \in Counter
    BY <1>1, <1>4, MovedCounter
  <2>3. Minus(x, y) \in Nat /\ d <= Minus(x, y)
    <3>1. Minus(x, y) \in Nat
      BY <1>1, MinusChain
    <3> QED
      BY <1>3, <1>4, <3>1, Bounds
  <2>4. Minus(x, z) = Minus(x, y) - d
    BY <1>1, <1>4, <2>3, MovedCounter
  <2> HIDE DEF z
  <2>5. /\ Minus(x, now) \in 0 .. CounterMod - 1
        /\ Minus(x, z) \in 0 .. CounterMod - 1
        /\ Minus(z, now) \in 0 .. CounterMod - 1
        /\ \/ Minus(x, now) = Minus(x, z) + Minus(z, now)
           \/ Minus(x, now) = Minus(x, z) + Minus(z, now) - CounterMod
    BY <1>1, <2>2, MinusChain
  <2> QED
    BY <1>2, <1>3, <1>4, <2>1, <2>3, <2>4, <2>5, Bounds
<1> QED
  BY <1>1, <1>5, <1>6

-----------------------------------------------------------------------------
(* The theorems. *)

LOCAL INSTANCE WellFoundedInduction

(* Every set of naturals has a least element.                              *)
LEMMA LeastNaturalHolds == LeastNatural
<1> SUFFICES ASSUME NEW T \in SUBSET Nat, T # {}
             PROVE  \E x \in T : \A y \in T : x <= y
  BY Zenon DEF LeastNatural
<1> DEFINE R == OpToRel(<, Nat)
<1>1. IsWellFoundedOn(R, Nat)
  BY NatLessThanWellFounded, Zenon
<1>2. PICK x \in T : \A y \in T : ~ (<<y, x>> \in R)
  <2> HIDE DEF R
  <2> QED
    BY <1>1, WFMin, Zenon
<1>3. \A y \in T : ~ (y < x)
  BY <1>2, Zenon DEF OpToRel
<1> QED
  BY <1>3

(* The inductive invariant of prompt threads holds for ever, and the queue *)
(* is one that compare() orders.                                           *)
LEMMA TimeInvariant == ASSUME Prompt PROVE Spec => [](TimeInv /\ QueueOrdered)
<1>1. Init => TimeInv
  BY InitTimeInv
<1>2. QueueInv /\ LeadInv => QueueOrdered
  BY LeadOrders DEF QueueInv, LeadInv
<1>3. QueueInv /\ PeekInv /\ LeadInv /\ ScanInv /\ [Next]_vars => LeadInv'
  BY LeastNaturalHolds, StepLeadInv, Zenon
<1>4. QueueInv /\ QueueInv' /\ PeekInv /\ PeekInv' /\ LeadInv /\ LeadInv'
        /\ ScanInv /\ [Next]_vars => ScanInv'
  BY LeastNaturalHolds, StepScanInv, Zenon
<1>5. TimeInv /\ [Next]_vars => RadioInv'
  BY NextRadioInv DEF TimeInv
<1>6. TimeInv <=> QueueInv /\ PeekInv /\ LeadInv /\ ScanInv /\ RadioInv
  BY DEF TimeInv
<1>7. QueueInv /\ PeekInv /\ QueueOrdered /\ QueueOrdered' /\ [Next]_vars
        => PeekInv'
  BY LeastNaturalHolds, NextPeekInv, Zenon
<1> QED
  BY <1>1, <1>2, <1>3, <1>4, <1>5, <1>6, <1>7, NextQueueInv, PTL DEF Spec

(* So compare() orders the queue for ever, and the sort is one: what       *)
(* TxScheduleProofs shows on that premise holds of prompt threads.         *)
THEOREM QueueStaysOrdered == ASSUME Prompt PROVE Spec => []QueueOrdered
BY TimeInvariant, PTL

(* Where the threads are prompt and no beacons are sent, no downlink       *)
(* outlives its timestamp in the queue.                                    *)
THEOREM DownlinksNeverExpire == ASSUME Prompt PROVE Spec => []NoDownlinkExpires
<1>1. TimeInv => NoDownlinkExpires
  BY NoneExpires, Zenon
<1> QED
  BY <1>1, TimeInvariant, PTL

(* They program every packet before the concentrator has to trigger it.    *)
THEOREM PacketsProgrammedInTime == ASSUME Prompt PROVE Spec => []ProgrammedInTime
<1>1. TimeInv => ProgrammedInTime
  BY InTime, Zenon
<1> QED
  BY <1>1, TimeInvariant, PTL

(* The index that jit_peek returned still denotes the packet it found when *)
(* jit_dequeue uses it.                                                    *)
THEOREM PeekedPacketDequeued == ASSUME Prompt PROVE Spec => []DequeuesPeeked
<1>1. TimeInv => DequeuesPeeked
  BY IndexStays, Zenon
<1> QED
  BY <1>1, TimeInvariant, PTL

(* Of two packets that were in the queue together, the later never finds   *)
(* the earlier on the radio.                                               *)
THEOREM RadioNeverConflicts == ASSUME Prompt PROVE Spec => []NoRadioConflict
<1>1. TimeInv => NoRadioConflict
  BY NoConflict, Zenon
<1> QED
  BY <1>1, TimeInvariant, PTL

=============================================================================
