-------------------------- MODULE TxScheduleProofs --------------------------
(***************************************************************************)
(* The queue shared by the two threads, with beacons and whatever their    *)
(* delays, as long as compare() orders it, and for every value of the      *)
(* constants: the count of beacons is right, and TxPath implements         *)
(* Schedule.  BeaconInv is the inductive invariant of the first; both need *)
(* PeekInv of TxPathProofs, by which the index that jit_peek returns is    *)
(* that of a packet.                                                       *)
(***************************************************************************)
EXTENDS TxSchedule, TxPathProofs

(* The provers, and the seconds each of them gets.                         *)
USE SMTT(10), ZenonT(10), SMTT(20), SMTT(30)

-----------------------------------------------------------------------------
(* The number of beacons. *)

Beacons(S) == {n \in S : n.pkt_type = "BEACON"}

(* The library has its own Cardinality and IsFiniteSet.                    *)
Number(S) == Cardinality(S)
Finite(S) == IsFiniteSet(S)

(* What is needed of numbers of packets, from the library as well.         *)
Counting ==
    /\ Number(Beacons({})) = 0
    /\ \A q \in Seq(Node) :
         Spread(q) =>
           /\ Finite(Packets(q)) /\ Number(Packets(q)) = Len(q)
           /\ Number(BeaconNodes(q)) = Number(Beacons(Packets(q)))
    /\ \A S, p :
         Finite(S) =>
           /\ p \notin S =>
                Number(Beacons(S \cup {p})) =
                  IF p.pkt_type = "BEACON" THEN Number(Beacons(S)) + 1
                                           ELSE Number(Beacons(S))
           /\ p \in S =>
                Number(Beacons(S \ {p})) =
                  IF p.pkt_type = "BEACON" THEN Number(Beacons(S)) - 1
                                           ELSE Number(Beacons(S))

(* As many packets as nodes, and as many beacons as beacon nodes.          *)
LEMMA PacketCount ==
    ASSUME Counting, NEW q \in Seq(Node), Spread(q)
    PROVE  /\ Finite(Packets(q)) /\ Number(Packets(q)) = Len(q)
           /\ Number(BeaconNodes(q)) = Number(Beacons(Packets(q)))
BY Zenon DEF Counting

(* One more packet.                                                        *)
LEMMA BeaconsMore ==
    ASSUME Counting, NEW S, Finite(S), NEW p, p \notin S
    PROVE  Number(Beacons(S \cup {p})) =
             IF p.pkt_type = "BEACON" THEN Number(Beacons(S)) + 1
                                      ELSE Number(Beacons(S))
BY Zenon DEF Counting

(* One packet less.                                                        *)
LEMMA BeaconsLess ==
    ASSUME Counting, NEW S, Finite(S), NEW p \in S
    PROVE  Number(Beacons(S \ {p})) =
             IF p.pkt_type = "BEACON" THEN Number(Beacons(S)) - 1
                                      ELSE Number(Beacons(S))
BY Zenon DEF Counting

(* The beacons in the queue and those to be queued; thread_down calls      *)
(* jit_enqueue for a beacon only if there is one to be queued.             *)
BeaconInv ==
    /\ num_beacon = Number(Beacons(Packets(nodes)))
    /\ beacon_loop >= 0
    /\ num_beacon + beacon_loop <= JIT_NUM_BEACON_IN_QUEUE
    /\ DownInCall /\ down_pkt.pkt_type = "BEACON" => beacon_loop >= 1

(* A packet that was accepted was not in the queue before.                 *)
LEMMA AcceptedIsNew ==
    ASSUME QueueInv, NEW p \in Node,
           \A j \in 1 .. Len(nodes) : Apart(p, nodes[j])
    PROVE  p \notin Packets(nodes)
<1> SUFFICES ASSUME NEW j \in 1 .. Len(nodes), Apart(p, p) PROVE FALSE
  BY DEF Packets
<1>1. Minus(p.count_us, p.count_us) = 0 /\ p.post_delay \in Nat
  BY DelayBounds DEF Minus, Counter
<1>2. Ahead(p, p) \in Nat
  BY DelayBounds, JitConstants DEF Ahead
<1> QED
  BY <1>1, <1>2, JitConstants DEF Apart

(* jit_enqueue.                                                            *)
LEMMA EnqueueBeacons ==
    ASSUME Counting, QueueInv, BeaconInv, JitEnqueue PROVE BeaconInv'
<1>1. PICK p, e : Enqueues(p, e)
  BY EnqueueCases
<1>2. /\ num_beacon \in Int /\ beacon_loop \in Int
      /\ nodes \in Seq(Node) /\ Spread(nodes) /\ DownInCall
      /\ p \in Node /\ p.pkt_type = down_pkt.pkt_type /\ EnqueueDone(e)
  BY <1>1, QueueTypes DEF Enqueues, JitEnqueue, DownInCall
<1>3. down_pc' \in {"beacon", "recv"}
  BY <1>2, DoneLoop
<1>4. CASE e = "OK"
  <2>1. /\ Packets(nodes') = Packets(nodes) \cup {p}
        /\ p \notin Packets(nodes) /\ Finite(Packets(nodes))
    BY <1>1, <1>2, <1>4, AcceptedQueue, AcceptedIsNew, PacketCount, Zenon
  <2>2. num_beacon' = IF p.pkt_type = "BEACON" THEN num_beacon + 1
                                               ELSE num_beacon
    BY <1>1, <1>4 DEF Enqueues
  <2>3. num_beacon' = Number(Beacons(Packets(nodes')))
    BY <2>1, <2>2, BeaconsMore DEF BeaconInv
  <2>4. beacon_loop' = IF p.pkt_type = "BEACON" THEN beacon_loop - 1
                                                ELSE beacon_loop
    BY <1>2, <1>4, DoneLoop
  <2>5. /\ beacon_loop' >= 0
        /\ num_beacon' + beacon_loop' <= JIT_NUM_BEACON_IN_QUEUE
    BY <1>2, <2>2, <2>4, JitConstants DEF BeaconInv
  <2> QED
    BY <1>3, <2>3, <2>5 DEF BeaconInv, DownInCall
<1>5. CASE e # "OK"
  <2>1. UNCHANGED <<nodes, num_beacon>>
    BY <1>1, <1>5 DEF Enqueues, queueVars
  <2>2. beacon_loop' = beacon_loop
    BY <1>2, <1>5, DoneLoop
  <2> QED
    BY <1>3, <2>1, <2>2 DEF BeaconInv, DownInCall
<1> QED
  BY <1>4, <1>5

(* The steps of thread_jit that take a packet out.                         *)
LEMMA ShortenBeacons ==
    ASSUME Counting, QueueInv, BeaconInv, NEW k \in 1 .. Len(nodes),
           nodes' \in jit_sort_queue(RemoveNode(nodes, k)),
           num_beacon' = NumBeaconWithout(nodes[k]),
           UNCHANGED <<down_pc, down_pkt, beacon_loop>>
    PROVE  BeaconInv'
<1>1. /\ nodes \in Seq(Node) /\ Spread(nodes)
      /\ num_beacon \in Int /\ beacon_loop \in Int
  BY QueueTypes
<1>2. /\ Packets(nodes') = Packets(nodes) \ {nodes[k]}
      /\ nodes[k] \in Packets(nodes) /\ Finite(Packets(nodes))
  BY <1>1, ShortenedQueue, PacketCount, Zenon DEF Packets
<1>3. num_beacon' = Number(Beacons(Packets(nodes')))
  BY <1>2, BeaconsLess DEF NumBeaconWithout, BeaconInv
<1>4. num_beacon' <= num_beacon /\ num_beacon' \in Int
  BY <1>1 DEF NumBeaconWithout
<1>5. num_beacon' + beacon_loop' <= JIT_NUM_BEACON_IN_QUEUE
  BY <1>1, <1>4, JitConstants DEF BeaconInv
<1> QED
  BY <1>3, <1>5 DEF BeaconInv, DownInCall

(* The steps of thread_down that do not change the queue.                  *)
LEMMA DownBeacons ==
    ASSUME QueueInv, BeaconInv,
           \/ DownRecv \/ BeaconLoopEnd \/ BeaconPrepare \/ DownIgnore
           \/ DownReject \/ DownPrepare \/ JitFullCheck
    PROVE  BeaconInv'
<1> USE DEF queueVars, beaconVars, DownInCall
<1>1. num_beacon \in Int /\ beacon_loop \in Int
  BY QueueTypes
<1>2. UNCHANGED <<nodes, num_beacon>>
  BY OtherSteps
<1>3. CASE DownRecv
  <2>1. /\ beacon_loop' = JIT_NUM_BEACON_IN_QUEUE - num_beacon
        /\ down_pc' = "beacon"
    BY <1>3 DEF DownRecv
  <2>2. /\ beacon_loop' >= 0
        /\ num_beacon + beacon_loop' <= JIT_NUM_BEACON_IN_QUEUE
    BY <1>1, <2>1, JitConstants DEF BeaconInv
  <2> QED
    BY <1>2, <2>1, <2>2 DEF BeaconInv
<1>4. CASE BeaconLoopEnd
  <2>1. beacon_loop' = 0 /\ down_pc' = "datagram"
    BY <1>4 DEF BeaconLoopEnd
  <2>2. num_beacon + 0 <= JIT_NUM_BEACON_IN_QUEUE
    BY <1>1, JitConstants DEF BeaconInv
  <2> QED
    BY <1>2, <2>1, <2>2 DEF BeaconInv
<1>5. CASE BeaconPrepare
  BY <1>1, <1>2, <1>5 DEF BeaconInv, BeaconPrepare
<1>6. CASE DownIgnore \/ DownReject
  BY <1>2, <1>6 DEF BeaconInv, DownIgnore, DownReject
<1>7. CASE DownPrepare
  <2>1. /\ down_pkt'.pkt_type # "BEACON" /\ UNCHANGED beacon_loop
    BY <1>7, TxPathConstants DEF DownPrepare, PacketNode, DownlinkTypes
  <2> QED
    BY <1>2, <2>1 DEF BeaconInv
<1>8. CASE JitFullCheck
  <2>1. CASE jit_queue_is_full(nodes)
    <3>1. EnqueueDone("FULL")
      BY <1>8, <2>1 DEF JitFullCheck
    <3>2. down_pc' \in {"beacon", "recv"} /\ beacon_loop' = beacon_loop
      BY <3>1, DoneLoop
    <3> QED
      BY <1>2, <3>2 DEF BeaconInv
  <2>2. CASE ~jit_queue_is_full(nodes)
    <3>1. down_pc = "full" /\ UNCHANGED <<beacon_loop, down_pkt>>
      BY <1>8, <2>2 DEF JitFullCheck
    <3> QED
      BY <1>2, <3>1 DEF BeaconInv
  <2> QED
    BY <2>1, <2>2
<1> QED
  BY <1>3, <1>4, <1>5, <1>6, <1>7, <1>8

(* Every step.                                                             *)
LEMMA NextBeaconInv ==
    ASSUME Counting, QueueInv, PeekInv, BeaconInv, [Next]_vars
    PROVE  BeaconInv'
<1> USE DEF queueVars, downVars, beaconVars
<1>1. CASE \/ DownRecv \/ BeaconLoopEnd \/ BeaconPrepare \/ DownIgnore
           \/ DownReject \/ DownPrepare \/ JitFullCheck
  BY <1>1, DownBeacons
<1>2. CASE JitEnqueue
  BY <1>2, EnqueueBeacons
<1>3. CASE PeekDrop
  <2>1. i + 1 \in 1 .. Len(nodes)
    BY <1>3, QueueTypes DEF PeekDrop
  <2> QED
    BY <1>3, <2>1, ShortenBeacons DEF PeekDrop
<1>4. CASE JitDequeue
  <2>1. /\ pkt_index \in Nat /\ pkt_index < Len(nodes)
        /\ pkt_index + 1 \in 1 .. Len(nodes)
    <3>1. jit_pc = "dequeue"
      BY <1>4, Zenon DEF JitDequeue
    <3> QED
      BY <3>1, PeekedIndex, Zenon
  <2>2. NodeAt(nodes, pkt_index) = nodes[pkt_index + 1]
    BY <2>1, Zenon DEF NodeAt
  <2> QED
    BY <1>4, <2>1, <2>2, ShortenBeacons DEF JitDequeue
<1>5. CASE \/ Tick \/ GpsChange \/ JitReadCounter \/ PeekStart \/ PeekScan
           \/ PeekEnd \/ JitStatus \/ JitSend \/ UNCHANGED vars
  <2>1. UNCHANGED <<nodes, num_beacon, beacon_loop, down_pc, down_pkt>>
    <3>1. CASE Tick \/ GpsChange \/ UNCHANGED vars
      BY <3>1 DEF Tick, GpsChange, vars
    <3>2. CASE JitReadCounter \/ PeekStart \/ PeekScan
      BY <3>2 DEF JitReadCounter, PeekStart, PeekScan
    <3>3. CASE PeekEnd \/ JitStatus \/ JitSend
      BY <3>3 DEF PeekEnd, JitStatus, JitSend
    <3> QED
      BY <1>5, <3>1, <3>2, <3>3
  <2> QED
    BY <2>1 DEF BeaconInv, DownInCall
<1> QED
  BY <1>1, <1>2, <1>3, <1>4, <1>5 DEF Next, thread_down, thread_jit

(* The empty queue.                                                        *)
LEMMA InitBeaconInv == ASSUME Counting, Init PROVE BeaconInv
<1>1. Packets(nodes) = {}
  BY DEF Init, Packets
<1>2. Number(Beacons(Packets(nodes))) = 0
  BY <1>1 DEF Counting
<1> QED
  BY <1>2, JitConstants DEF Init, BeaconInv, DownInCall

(* What it means.                                                          *)
LEMMA BeaconInvCounts == ASSUME Counting, QueueInv, BeaconInv PROVE BeaconCount
<1>1. nodes \in Seq(Node) /\ Spread(nodes)
  BY QueueTypes
<1>2. Number(BeaconNodes(nodes)) = Number(Beacons(Packets(nodes)))
  BY <1>1, PacketCount, Zenon
<1> QED
  BY <1>2 DEF BeaconInv, BeaconCount, Number

-----------------------------------------------------------------------------
(* The refinement of Schedule. *)

(* Cardinality means the same in TxPath and in Schedule.                   *)
LEMMA ScheduleCardinality == \A S : Promise!Cardinality(S) = Cardinality(S)
BY Zenon DEF Promise!Cardinality, Cardinality

(* So does IsFiniteSet.                                                    *)
LEMMA ScheduleFinite == \A S : Promise!IsFiniteSet(S) <=> IsFiniteSet(S)
BY Zenon DEF Promise!IsFiniteSet, IsFiniteSet

Hand == IF jit_pc \in {"status", "send"} THEN {jit_pkt} ELSE {}
Radio == IF tx_status = "FREE" THEN {} ELSE {tx_pkt}
Answer == CASE tx_ack = "none" -> "none"
            [] tx_ack \in {"OK", "TX_POWER"} -> "queued"
            [] OTHER -> "refused"

(* The empty queue is the empty schedule.                                  *)
LEMMA InitSchedule == Init => Promise!Init
BY DEF Init, Promise!Init, Queued

(* What the answer to the server means.                                    *)
LEMMA AnswerMeaning ==
    /\ tx_ack' = "none" => Answer' = "none"
    /\ tx_ack' \in {"OK", "TX_POWER"} => Answer' = "queued"
    /\ tx_ack' \notin {"none", "OK", "TX_POWER"} => Answer' = "refused"
    /\ tx_ack' = tx_ack => Answer' = Answer
BY DEF Answer

(* The steps of Schedule, in terms of the mapping.                         *)
LEMMA ScheduleSteps ==
    /\ UNCHANGED <<Queued, Hand, Radio, Answer>> => UNCHANGED Promise!schedVars
    /\ Answer' = "none" /\ UNCHANGED <<Queued, Hand, Radio>> => Promise!Forget
    /\ Answer' = "refused" /\ UNCHANGED <<Queued, Hand, Radio>> => Promise!Refuse
    /\ Radio # {} /\ Radio' = {} /\ UNCHANGED <<Queued, Hand, Answer>>
         => Promise!Sent
    /\ Hand # {} /\ Hand' = {} /\ Radio' = Hand /\ UNCHANGED <<Queued, Answer>>
         => Promise!Launch
    /\ Hand # {} /\ Hand' = {} /\ Radio' \in {Radio, {}}
         /\ UNCHANGED <<Queued, Answer>> => Promise!GiveUp
BY DEF Promise!schedVars, Promise!Forget, Promise!Refuse, Promise!Sent,
       Promise!Launch, Promise!GiveUp, Hand, Radio, Answer

(* The steps of Schedule that take a packet out.                           *)
LEMMA ScheduleRemovals ==
    ASSUME NEW n \in Queued, Queued' = Queued \ {n}, UNCHANGED <<Radio, Answer>>
    PROVE  /\ UNCHANGED Hand => Promise!Drop
           /\ Hand = {} /\ Hand' = {n} => Promise!Take
BY DEF Promise!Drop, Promise!Take, Hand, Radio, Answer

(* The step that admits one.                                               *)
LEMMA ScheduleAdmits ==
    ASSUME NEW p, p \notin Queued, Queued' = Queued \cup {p},
           Cardinality(Queued') <= JIT_QUEUE_MAX,
           \A n \in Queued : Apart(p, n) /\ Apart(n, p),
           Answer' = IF IsDownlink(p) THEN "queued" ELSE Answer,
           UNCHANGED <<Hand, Radio>>
    PROVE  Promise!Admit
<1>1. p \in Queued' \ Queued
  OBVIOUS
<1> QED
  BY <1>1, ScheduleCardinality DEF Promise!Admit, Hand, Radio, Answer

(* The counter runs on: the radio may have sent its packet.                *)
LEMMA TickSchedule ==
    ASSUME QueueInv, Tick PROVE Promise!Next \/ UNCHANGED Promise!schedVars
<1>1. UNCHANGED <<nodes, jit_pc, jit_pkt, tx_ack>>
  BY DEF Tick, queueVars, jitVars
<1>2. UNCHANGED <<Queued, Hand, Answer>>
  BY <1>1, AnswerMeaning DEF Queued, Hand
<1>3. UNCHANGED Radio \/ (Radio # {} /\ Radio' = {})
  BY DEF Tick, sx1302_tx_fsm, Radio
<1> QED
  BY <1>2, <1>3, ScheduleSteps, Zenon DEF Promise!Next

(* What jit_enqueue may answer.                                            *)
LEMMA JitErrorRange ==
    \A q, p, t : JitError(q, p, t) \in {"OK", "TOO_LATE", "TOO_EARLY",
                                        "COLLISION_PACKET", "COLLISION_BEACON"}
BY DEF JitError, CollisionError

(* A packet that is not queued: the server is told, unless it is a beacon. *)
LEMMA RefuseSchedule ==
    ASSUME QueueInv, UNCHANGED <<nodes, jit_pc, jit_pkt, tx_status, tx_pkt>>,
           NEW e \in {"FULL", "TOO_LATE", "TOO_EARLY",
                      "COLLISION_PACKET", "COLLISION_BEACON"},
           EnqueueDone(e)
    PROVE  Promise!Next \/ UNCHANGED Promise!schedVars
<1>1. UNCHANGED <<Queued, Hand, Radio>>
  BY DEF Queued, Hand, Radio
<1>2. tx_ack' = tx_ack \/ tx_ack' \notin {"none", "OK", "TX_POWER"}
  BY DEF EnqueueDone, BeaconDone, DownlinkDone, send_tx_ack
<1>3. Answer' = Answer \/ Answer' = "refused"
  BY <1>2, AnswerMeaning
<1> QED
  BY <1>1, <1>3, ScheduleSteps, Zenon DEF Promise!Next

(* A step of thread_down.                                                  *)
LEMMA DownSchedule ==
    ASSUME QueueInv,
           \/ GpsChange \/ DownRecv \/ BeaconLoopEnd \/ BeaconPrepare
           \/ DownIgnore \/ DownReject \/ DownPrepare \/ JitFullCheck
           \/ UNCHANGED vars
    PROVE  Promise!Next \/ UNCHANGED Promise!schedVars
<1> USE DEF queueVars, jitVars, radioVars
<1>1. UNCHANGED <<nodes, jit_pc, jit_pkt, tx_status, tx_pkt>>
  BY OtherSteps, DownSteps
<1>2. UNCHANGED <<Queued, Hand, Radio>>
  BY <1>1 DEF Queued, Hand, Radio
<1>3. CASE JitFullCheck /\ jit_queue_is_full(nodes)
  <2>1. EnqueueDone("FULL")
    BY <1>3 DEF JitFullCheck
  <2> QED
    BY <1>1, <2>1, RefuseSchedule
<1>4. CASE ~(JitFullCheck /\ jit_queue_is_full(nodes))
  <2>1. tx_ack' = tx_ack \/ tx_ack' = "none"
          \/ tx_ack' \notin {"none", "OK", "TX_POWER"}
    <3> USE DEF downVars
    <3>1. CASE GpsChange \/ UNCHANGED vars
      BY <3>1 DEF GpsChange, vars
    <3>2. CASE DownRecv \/ BeaconLoopEnd \/ BeaconPrepare
      BY <3>2 DEF DownRecv, BeaconLoopEnd, BeaconPrepare
    <3>3. CASE DownIgnore \/ DownReject
      BY <3>3 DEF DownIgnore, DownReject, send_tx_ack
    <3>4. CASE DownPrepare \/ JitFullCheck
      BY <1>4, <3>4 DEF DownPrepare, JitFullCheck
    <3> QED
      BY <3>1, <3>2, <3>3, <3>4
  <2>2. Answer' \in {Answer, "none", "refused"}
    BY <2>1, AnswerMeaning
  <2> QED
    BY <1>2, <2>2, ScheduleSteps, Zenon DEF Promise!Next
<1> QED
  BY <1>3, <1>4

(* jit_enqueue: the packet is admitted together with the answer.           *)
LEMMA EnqueueSchedule ==
    ASSUME Counting, QueueInv, QueueInv', JitEnqueue
    PROVE  Promise!Next \/ UNCHANGED Promise!schedVars
<1>1. PICK p, e : Enqueues(p, e)
  BY EnqueueCases
<1>2. UNCHANGED <<jit_pc, jit_pkt, tx_status, tx_pkt>>
  BY DEF JitEnqueue, jitVars, radioVars
<1>3. EnqueueDone(e) /\ p \in Node /\ p.pkt_type = down_pkt.pkt_type
  BY <1>1 DEF Enqueues
<1>4. CASE e = "OK"
  <2>1. /\ Queued' = Queued \cup {p} /\ nodes' \in Seq(Node) /\ Spread(nodes')
        /\ \A n \in Queued : Apart(p, n) /\ Apart(n, p)
        /\ \A j \in 1 .. Len(nodes) : Apart(p, nodes[j])
    BY <1>1, <1>4, AcceptedQueue, Zenon DEF Queued, Packets
  <2>2. p \notin Queued
    BY <1>3, <2>1, AcceptedIsNew DEF Queued, Packets
  <2>3. Cardinality(Queued') = Len(nodes')
    BY <2>1, PacketCount, Zenon DEF Queued, Packets, Number
  <2>4. Cardinality(Queued') <= JIT_QUEUE_MAX
    BY <2>3 DEF QueueInv, QueueBounded
  <2>5. UNCHANGED <<Hand, Radio>>
    BY <1>2 DEF Hand, Radio
  <2>6. Answer' = IF IsDownlink(p) THEN "queued" ELSE Answer
    <3>1. p.pkt_type \in PktTypes
      BY <1>3 DEF Node
    <3>2. IF IsDownlink(p) THEN tx_ack' \in {"OK", "TX_POWER"}
                           ELSE tx_ack' = tx_ack
      BY <1>3, <1>4, <3>1
         DEF EnqueueDone, BeaconDone, DownlinkDone, send_tx_ack, IsDownlink,
             PktTypes, DownlinkTypes
    <3> QED
      BY <3>2, AnswerMeaning
  <2>7. Promise!Admit
    BY <2>1, <2>2, <2>4, <2>5, <2>6, ScheduleAdmits, Zenon
  <2> QED
    BY <2>7 DEF Promise!Next
<1>5. CASE e # "OK"
  <2>1. UNCHANGED nodes
    BY <1>1, <1>5 DEF Enqueues, queueVars
  <2>2. e \in {"FULL", "TOO_LATE", "TOO_EARLY",
               "COLLISION_PACKET", "COLLISION_BEACON"}
    BY <1>1, <1>5, JitErrorRange DEF Enqueues
  <2> QED
    BY <1>2, <1>3, <2>1, <2>2, RefuseSchedule
<1> QED
  BY <1>4, <1>5

(* A step of thread_jit.                                                   *)
LEMMA JitSchedule ==
    ASSUME QueueInv, PeekInv, thread_jit
    PROVE  Promise!Next \/ UNCHANGED Promise!schedVars
<1> USE DEF queueVars, downVars, radioVars
<1>1. UNCHANGED Answer
  <2>1. UNCHANGED tx_ack
    BY DEF thread_jit, JitReadCounter, PeekStart, PeekDrop, PeekScan, PeekEnd,
           JitDequeue, JitStatus, JitSend
  <2> QED
    BY <2>1, AnswerMeaning
<1>2. CASE JitReadCounter \/ PeekStart \/ PeekScan \/ PeekEnd
  <2>1. /\ UNCHANGED <<nodes, tx_status, tx_pkt>>
        /\ jit_pc \notin {"status", "send"} /\ jit_pc' \notin {"status", "send"}
    BY <1>2 DEF JitReadCounter, PeekStart, PeekScan, PeekEnd
  <2>2. UNCHANGED <<Queued, Hand, Radio>>
    BY <2>1 DEF Queued, Hand, Radio
  <2> QED
    BY <1>1, <2>2, ScheduleSteps, Zenon
<1>3. CASE PeekDrop
  <2>1. i + 1 \in 1 .. Len(nodes)
    BY <1>3, QueueTypes DEF PeekDrop
  <2>2. nodes[i + 1] \in Queued /\ Queued' = Queued \ {nodes[i + 1]}
    BY <1>3, <2>1, ShortenedQueue, Zenon DEF PeekDrop, Queued, Packets
  <2>3. UNCHANGED <<Hand, Radio>>
    BY <1>3 DEF PeekDrop, Hand, Radio
  <2> QED
    BY <1>1, <2>2, <2>3, ScheduleRemovals DEF Promise!Next
<1>4. CASE JitDequeue
  <2>1. /\ pkt_index \in Nat /\ pkt_index < Len(nodes)
        /\ pkt_index + 1 \in 1 .. Len(nodes)
    <3>1. jit_pc = "dequeue"
      BY <1>4, Zenon DEF JitDequeue
    <3> QED
      BY <3>1, PeekedIndex, Zenon
  <2> DEFINE n == nodes[pkt_index + 1]
  <2>2. NodeAt(nodes, pkt_index) = n
    BY <2>1, Zenon DEF NodeAt
  <2>3. n \in Queued /\ Queued' = Queued \ {n}
    BY <1>4, <2>1, ShortenedQueue, Zenon DEF JitDequeue, Queued, Packets
  <2>4. Hand = {} /\ Hand' = {n} /\ UNCHANGED Radio
    BY <1>4, <2>2 DEF JitDequeue, Hand, Radio
  <2> HIDE DEF n
  <2> QED
    BY <1>1, <2>3, <2>4, ScheduleRemovals DEF Promise!Next
<1>5. CASE JitStatus
  <2>1. /\ UNCHANGED <<Queued, Radio>>
        /\ UNCHANGED Hand \/ (Hand # {} /\ Hand' = {})
    BY <1>5 DEF JitStatus, JitDone, Queued, Hand, Radio
  <2> QED
    BY <1>1, <2>1, ScheduleSteps DEF Promise!Next
<1>6. CASE JitSend
  <2>1. UNCHANGED Queued /\ Hand # {} /\ Hand' = {}
    BY <1>6 DEF JitSend, JitDone, Queued, Hand
  <2>2. Radio' = Hand \/ Radio' \in {Radio, {}}
    BY <1>6 DEF JitSend, RadioIdle, Hand, Radio
  <2> QED
    BY <1>1, <2>1, <2>2, ScheduleSteps DEF Promise!Next
<1> QED
  BY <1>2, <1>3, <1>4, <1>5, <1>6 DEF thread_jit

(* Every step of the two threads, of the concentrator and of the GPS is a  *)
(* step of Schedule, or none.                                              *)
LEMMA NextSchedule ==
    ASSUME Counting, QueueInv, QueueInv', PeekInv, [Next]_vars
    PROVE  [Promise!Next]_(Promise!schedVars)
<1> SUFFICES Promise!Next \/ UNCHANGED Promise!schedVars
  OBVIOUS
<1>1. CASE Tick
  BY <1>1, TickSchedule
<1>2. CASE \/ GpsChange \/ DownRecv \/ BeaconLoopEnd \/ BeaconPrepare
           \/ DownIgnore \/ DownReject \/ DownPrepare \/ JitFullCheck
           \/ UNCHANGED vars
  BY <1>2, DownSchedule
<1>3. CASE JitEnqueue
  BY <1>3, EnqueueSchedule
<1>4. CASE thread_jit
  BY <1>4, JitSchedule
<1> QED
  BY <1>1, <1>2, <1>3, <1>4 DEF Next, thread_down

-----------------------------------------------------------------------------
(* Numbers and cardinalities, from the library. *)

LOCAL INSTANCE FiniteSetTheorems

(* They mean the same in the library.                                      *)
LEMMA SameCardinality == \A S : Promise!Cardinality(S) = Cardinality(S)
BY Zenon DEF Promise!Cardinality, Cardinality

(* Both of them.                                                           *)
LEMMA SameFinite == \A S : Promise!IsFiniteSet(S) <=> IsFiniteSet(S)
BY Zenon DEF Promise!IsFiniteSet, IsFiniteSet

(* Every set of naturals has a least element.                              *)
LEMMA LeastNaturalHolds == LeastNatural
<1> SUFFICES ASSUME NEW T \in SUBSET Nat, T # {}
             PROVE  \E x \in T : \A y \in T : x <= y
  BY Zenon DEF LeastNatural
<1> DEFINE R == OpToRel(<, Nat)
<1>1. IsWellFoundedOn(R, Nat)
  BY NatLessThanWellFounded, Zenon
<1>2. PICK x \in T : \A y \in T : ~ (<<y, x>> \in R)
  <2> HIDE DEF R
  <2> QED
    BY <1>1, WFMin, Zenon
<1>3. \A y \in T : ~ (y < x)
  BY <1>2, Zenon DEF OpToRel
<1> QED
  BY <1>3

(* As many packets as nodes, and as many beacons as beacon nodes.          *)
LEMMA QueueCount ==
    ASSUME NEW q \in Seq(Node), Spread(q)
    PROVE  /\ IsFiniteSet(Packets(q)) /\ Cardinality(Packets(q)) = Len(q)
           /\ Cardinality(BeaconNodes(q))
                = Cardinality(Beacons(Packets(q)))
<1> DEFINE f == [j \in 1 .. Len(q) |-> q[j]]
           B == Beacons(Packets(q))
           g == [j \in BeaconNodes(q) |-> q[j]]
<1>1. \A j, l \in 1 .. Len(q) : q[j] = q[l] => j = l
  BY SpreadDistinct
<1>2. Len(q) \in Nat
  BY SeqProperties
<1>3. f \in Bijection(1 .. Len(q), Packets(q))
  <2>1. f \in [1 .. Len(q) -> Packets(q)]
    BY DEF Packets
  <2>2. \A j, l \in 1 .. Len(q) : f[j] = f[l] => j = l
    BY <1>1
  <2>3. \A n \in Packets(q) : \E j \in 1 .. Len(q) : f[j] = n
    BY DEF Packets
  <2> HIDE DEF f
  <2> QED
    BY <2>1, <2>2, <2>3, Zenon DEF Bijection, Injection, Surjection, IsInjective
<1>4. ExistsBijection(1 .. Len(q), Packets(q))
  BY <1>3 DEF ExistsBijection
<1>5. Cardinality(Packets(q)) = Len(q)
  BY <1>2, <1>4, FS_CountingElements
<1>6. IsFiniteSet(Packets(q))
  BY <1>2, <1>4, FS_NatBijection
<1>7. g \in Bijection(BeaconNodes(q), B)
  <2>1. g \in [BeaconNodes(q) -> B]
    BY DEF Packets, BeaconNodes, Beacons
  <2>2. \A j, l \in BeaconNodes(q) : g[j] = g[l] => j = l
    BY <1>1 DEF BeaconNodes
  <2>3. \A n \in B : \E j \in BeaconNodes(q) : g[j] = n
    BY DEF Packets, BeaconNodes, Beacons
  <2> HIDE DEF g, B
  <2> QED
    BY <2>1, <2>2, <2>3, Zenon DEF Bijection, Injection, Surjection, IsInjective
<1>8. ExistsBijection(BeaconNodes(q), B)
  BY <1>7 DEF ExistsBijection
<1>9. IsFiniteSet(BeaconNodes(q))
  <2>1. IsFiniteSet(1 .. Len(q))
    BY <1>2, FS_Interval
  <2>2. BeaconNodes(q) \in SUBSET (1 .. Len(q))
    BY DEF BeaconNodes
  <2> QED
    BY <2>1, <2>2, FS_Subset
<1> QED
  BY <1>5, <1>6, <1>8, <1>9, FS_Bijection


(* There are finitely many beacons.                                        *)
LEMMA BeaconsFinite ==
    ASSUME NEW S, IsFiniteSet(S)
    PROVE  IsFiniteSet(Beacons(S)) /\ Cardinality(Beacons(S)) \in Nat
<1>1. Beacons(S) \in SUBSET S
  BY DEF Beacons
<1>2. IsFiniteSet(Beacons(S))
  BY <1>1, FS_Subset
<1> QED
  BY <1>2, FS_CardinalityType

(* One more packet.                                                        *)
LEMMA OneMore ==
    ASSUME NEW S, IsFiniteSet(S), NEW p, p \notin S
    PROVE  Cardinality(Beacons(S \cup {p})) =
             IF p.pkt_type = "BEACON" THEN Cardinality(Beacons(S)) + 1
                                      ELSE Cardinality(Beacons(S))
<1>1. CASE p.pkt_type = "BEACON"
  <2>1. Beacons(S \cup {p}) = Beacons(S) \cup {p} /\ p \notin Beacons(S)
    BY <1>1 DEF Beacons
  <2> QED
    BY <1>1, <2>1, BeaconsFinite, FS_AddElement, Zenon
<1>2. CASE p.pkt_type # "BEACON"
  <2>1. Beacons(S \cup {p}) = Beacons(S)
    BY <1>2 DEF Beacons
  <2> QED
    BY <1>2, <2>1
<1> QED
  BY <1>1, <1>2

(* One packet less.                                                        *)
LEMMA OneLess ==
    ASSUME NEW S, IsFiniteSet(S), NEW p \in S
    PROVE  Cardinality(Beacons(S \ {p})) =
             IF p.pkt_type = "BEACON" THEN Cardinality(Beacons(S)) - 1
                                      ELSE Cardinality(Beacons(S))
<1>1. CASE p.pkt_type = "BEACON"
  <2>1. Beacons(S \ {p}) = Beacons(S) \ {p} /\ p \in Beacons(S)
    BY <1>1 DEF Beacons
  <2> QED
    BY <1>1, <2>1, BeaconsFinite, FS_RemoveElement, Zenon
<1>2. CASE p.pkt_type # "BEACON"
  <2>1. Beacons(S \ {p}) = Beacons(S)
    BY <1>2 DEF Beacons
  <2> QED
    BY <1>2, <2>1
<1> QED
  BY <1>1, <1>2

(* The names used above.                                                   *)
LEMMA SameNumber ==
    \A S : Number(S) = Cardinality(S) /\ (Finite(S) <=> IsFiniteSet(S))
<1>1. \A S : Number(S) = Promise!Cardinality(S)
  BY ScheduleCardinality, Zenon DEF Number
<1>2. \A S : Finite(S) <=> Promise!IsFiniteSet(S)
  BY ScheduleFinite, Zenon DEF Finite
<1> QED
  BY <1>1, <1>2, SameCardinality, SameFinite, Zenon

(* All of this together.                                                   *)
LEMMA CountingHolds == Counting
<1>1. Number(Beacons({})) = 0
  <2>1. Beacons({}) = {}
    BY DEF Beacons
  <2> QED
    BY <2>1, SameNumber, FS_EmptySet, Zenon
<1>2. ASSUME NEW q \in Seq(Node), Spread(q)
      PROVE  /\ Finite(Packets(q)) /\ Number(Packets(q)) = Len(q)
             /\ Number(BeaconNodes(q)) = Number(Beacons(Packets(q)))
  BY <1>2, QueueCount, SameNumber, Zenon
<1>3. ASSUME NEW S, NEW p, Finite(S), p \notin S
      PROVE  Number(Beacons(S \cup {p})) =
               IF p.pkt_type = "BEACON" THEN Number(Beacons(S)) + 1
                                        ELSE Number(Beacons(S))
  BY <1>3, OneMore, SameNumber, Zenon
<1>4. ASSUME NEW S, NEW p, Finite(S), p \in S
      PROVE  Number(Beacons(S \ {p})) =
               IF p.pkt_type = "BEACON" THEN Number(Beacons(S)) - 1
                                        ELSE Number(Beacons(S))
  BY <1>4, OneLess, SameNumber, Zenon
<1> QED
  BY <1>1, <1>2, <1>3, <1>4, Zenon DEF Counting

-----------------------------------------------------------------------------
(* What holds for ever. *)

(* The index that jit_peek passes to jit_dequeue is that of a packet, as   *)
(* long as compare() orders the queue.                                     *)
LEMMA IndexInvariant == Spec /\ []QueueOrdered => [](QueueInv /\ PeekInv)
<1>1. QueueInv /\ PeekInv /\ QueueOrdered /\ QueueOrdered' /\ [Next]_vars
        => PeekInv'
  BY LeastNaturalHolds, NextPeekInv, Zenon
<1> QED
  BY <1>1, InitQueueInv, NextQueueInv, InitPeekInv, PTL DEF Spec

(* As long as compare() orders the queue, num_beacon is the number of      *)
(* beacons in it, whatever jit_enqueue, jit_dequeue and the purge of       *)
(* jit_peek did, and thread_down never queues too many, although it reads  *)
(* num_beacon without the lock and keeps beacon_loop meanwhile.            *)
THEOREM BeaconsCounted == Spec /\ []QueueOrdered => []BeaconCount
<1>1. Init => BeaconInv
  BY CountingHolds, InitBeaconInv, Zenon
<1>2. QueueInv /\ PeekInv /\ BeaconInv /\ [Next]_vars => BeaconInv'
  BY CountingHolds, NextBeaconInv, Zenon
<1>3. QueueInv /\ BeaconInv => BeaconCount
  BY CountingHolds, BeaconInvCounts, Zenon
<1> QED
  BY <1>1, <1>2, <1>3, IndexInvariant, PTL DEF Spec

(* As long as compare() orders the queue, the two threads, the array with  *)
(* its sorts, its purge and the index passed from jit_peek to jit_dequeue, *)
(* and the TX state machine implement Schedule: no packet is sent twice,   *)
(* or without having been admitted, or lost but by a drop, and the server  *)
(* is told of exactly the downlinks admitted.                              *)
THEOREM ScheduleImplemented == Spec /\ []QueueOrdered => ImplementsSchedule
<1>1. QueueInv /\ QueueInv' /\ PeekInv /\ [Next]_vars
        => [Promise!Next]_(Promise!schedVars)
  BY CountingHolds, NextSchedule, Zenon
<1> QED
  BY <1>1, IndexInvariant, InitSchedule, PTL
     DEF Spec, ImplementsSchedule, Promise!Spec

=============================================================================
