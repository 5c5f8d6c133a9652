------------------------------- MODULE TxPath -------------------------------
(***************************************************************************)
(* The downlink path of RF chain 0 (lora_pkt_fwd.c): thread_down schedules *)
(* beacons and server downlinks into the JIT queue, thread_jit takes the   *)
(* packet whose time has come and programs it into the concentrator, whose *)
(* counter runs on meanwhile.  A step is a critical section of             *)
(* mx_jit_queue or mx_concent, except for the loop of jit_peek, which      *)
(* holds mx_jit_queue for several steps.                                   *)
(*                                                                         *)
(* Three bounds say how far a thread may be delayed: at most JIT_LATENCY   *)
(* ticks pass between two readings of the counter by thread_jit, at most   *)
(* DOWN_LATENCY from one of the points where thread_down returns from      *)
(* recv() or reads the counter to the next, or to the end of the           *)
(* iteration, and at most PULL_TIMEOUT from there until recv() returns.    *)
(* GPS time and counter advance together.  The GPS time of a beacon is     *)
(* kept relative to the present, as the signed number of ticks until it.   *)
(* A distance of up to a period beyond BEACON_HORIZON stands for all those *)
(* that differ from it by periods; outages last up to BEACON_HORIZON.      *)
(***************************************************************************)
EXTENDS JitQueue

CONSTANTS
    BeaconPeriod,    \* beacon_period, 0 when beaconing is off
    RefAges,         \* possible ages of the latest GPS time reference
    TargetCounts,    \* timestamps the server asks for
    RequestTypes,    \* classes of the downlinks the server asks for
    MaxRequests,     \* bound: number of downlinks the server asks for
    GpsStates,       \* states of the GPS reference that occur
    BEACON_HORIZON,  \* bound on the distance of a beacon, see above
    DOWN_LATENCY,    \* bound on the delay of thread_down, see above
    PULL_TIMEOUT,    \* the same in recv() (PULL_TIMEOUT_MS)
    JIT_LATENCY      \* bound on the delay of thread_jit, see above

NONE == -1

ASSUME TxPathConstants ==
    /\ BeaconPeriod \in Nat
    /\ BeaconPeriod # 0 => CounterMod % BeaconPeriod = 0
    /\ BEACON_HORIZON \in Nat /\ BEACON_HORIZON + BeaconPeriod < CounterMod
    /\ BeaconPeriod # 0 => BEACON_HORIZON >= TX_MAX_ADVANCE_DELAY
    /\ RefAges \subseteq Counter
    /\ TargetCounts \subseteq Counter
    /\ RequestTypes \subseteq DownlinkTypes
    /\ MaxRequests \in Nat
    /\ GpsStates \subseteq {"unlocked", "ref", "xtal"} /\ GpsStates # {}
    /\ DOWN_LATENCY \in Nat \ {0}
    /\ PULL_TIMEOUT \in Nat /\ PULL_TIMEOUT >= DOWN_LATENCY
    /\ JIT_LATENCY \in Nat \ {0}
    /\ JIT_NUM_BEACON_IN_QUEUE < JIT_QUEUE_MAX

VARIABLES
    now,                   \* the concentrator counter
    nodes, num_beacon,     \* jit_queue[0]
    mx_jit_queue,          \* "jit" while jit_peek holds it, else "free"
    down_pc, beacon_loop, retry,
    beacon_queued,         \* last_beacon_gps_time is set
    last_beacon, next_beacon,
    down_pkt, down_time,   \* the arguments of jit_enqueue
    tx_ack,                \* the latest answer to the server
    requests,              \* downlinks the server may still ask for
    jit_pc, jit_time, i, idx_highest_priority, pkt_index, jit_pkt,
    tx_status, tx_pkt,     \* the TX state machine of the concentrator
    jit_peers, tx_peers,   \* history: see JitDequeue
    gps                    \* gps_ref_valid and xtal_correct_ok

queueVars == <<nodes, num_beacon>>
slotVars == <<beacon_queued, last_beacon, next_beacon>>
beaconVars == <<beacon_loop, retry, slotVars>>
downVars == <<down_pc, beaconVars, down_pkt, down_time, tx_ack, requests>>
peekVars == <<mx_jit_queue, i, idx_highest_priority, pkt_index>>
jitVars == <<jit_pc, jit_time, peekVars, jit_pkt, jit_peers>>
radioVars == <<tx_status, tx_pkt, tx_peers>>
vars == <<now, queueVars, downVars, jitVars, radioVars, gps>>

Init ==
    /\ now = 0
    /\ nodes = <<>> /\ num_beacon = 0 /\ mx_jit_queue = "free"
    /\ down_pc = "recv" /\ beacon_loop = 0 /\ retry = 0
    /\ beacon_queued = FALSE /\ last_beacon = 0 /\ next_beacon = 0
    /\ down_pkt = NoPkt /\ down_time = 0 /\ tx_ack = "none"
    /\ requests = MaxRequests
    /\ jit_pc = "wait" /\ jit_time = 0 /\ jit_pkt = NoPkt /\ jit_peers = {}
    /\ i = 0 /\ idx_highest_priority = NONE /\ pkt_index = NONE
    /\ tx_status = "FREE" /\ tx_pkt = NoPkt /\ tx_peers = {}
    /\ gps \in GpsStates

-----------------------------------------------------------------------------
(* The concentrator.                                                       *)

RadioIdle == tx_pkt' = NoPkt /\ tx_peers' = {}

(* The TX state machine: a scheduled packet is triggered TX_START_DELAY    *)
(* ahead of its timestamp and occupies the radio for its time on air.      *)
sx1302_tx_fsm ==
    /\ tx_status' =
         CASE tx_status = "SCHEDULED"
                /\ now' = Minus(tx_pkt.count_us, TX_START_DELAY) -> "EMITTING"
           [] tx_status = "EMITTING"
                /\ now' = Plus(tx_pkt.count_us, tx_pkt.post_delay) -> "FREE"
           [] OTHER -> tx_status
    /\ IF tx_status' = "FREE"
         THEN RadioIdle
         ELSE UNCHANGED <<tx_pkt, tx_peers>>

DownInCall == down_pc \in {"full", "enqueue"}

(* The distance that stands for that of a beacon, see above.               *)
Near(beacon) ==
    CASE beacon > BEACON_HORIZON + BeaconPeriod -> beacon - BeaconPeriod
      [] beacon < -BEACON_HORIZON               -> beacon + BeaconPeriod
      [] OTHER                                  -> beacon

(* What becomes of a distance when time passes: a beacon at the horizon    *)
(* gets below it, unless the distance stands for a greater one.            *)
Nearer(beacon) ==
    {Near(beacon - 1)} \cup
    (IF beacon = BEACON_HORIZON + 1 THEN {BEACON_HORIZON + BeaconPeriod} ELSE {})

Tick ==
    /\ mx_jit_queue = "free"
    /\ Minus(now, down_time)
         < (IF down_pc = "recv" THEN PULL_TIMEOUT ELSE DOWN_LATENCY)
    /\ Minus(now, jit_time) < JIT_LATENCY
    /\ now' = Plus(now, 1)
    /\ sx1302_tx_fsm
    /\ last_beacon' \in IF beacon_queued THEN Nearer(last_beacon)
                                          ELSE {last_beacon}
    /\ next_beacon' \in IF DownInCall /\ down_pkt.pkt_type = "BEACON"
                           THEN Nearer(next_beacon)
                           ELSE {next_beacon}
    /\ UNCHANGED <<queueVars, down_pc, beacon_loop, retry, beacon_queued,
                   down_pkt, down_time, tx_ack, requests, jitVars, gps>>

(* thread_valid and thread_gps, seen from here: the reference comes and    *)
(* goes.                                                                   *)
GpsChange ==
    /\ gps' \in GpsStates \ {gps}
    /\ UNCHANGED <<now, queueVars, downVars, jitVars, radioVars>>

-----------------------------------------------------------------------------
(* thread_down: the listening loop.                                        *)

(* Mutant: the beacons already queued are not subtracted.                  *)
DownRecvAll ==
    /\ down_pc = "recv"
    /\ beacon_loop' = JIT_NUM_BEACON_IN_QUEUE
    /\ retry' = 0
    /\ tx_ack' = "none"
    /\ down_time' = now
    /\ down_pc' = "beacon"
    /\ UNCHANGED <<now, queueVars, slotVars, down_pkt, requests,
                   jitVars, radioVars, gps>>

(* recv() returns, with or without a datagram, then the number of beacons  *)
(* to be queued is computed from num_beacon, which is read unlocked.       *)
DownRecv ==
    /\ down_pc = "recv"
    /\ beacon_loop' = JIT_NUM_BEACON_IN_QUEUE - num_beacon
    /\ retry' = 0
    /\ tx_ack' = "none"
    /\ down_time' = now
    /\ down_pc' = "beacon"
    /\ UNCHANGED <<now, queueVars, slotVars, down_pkt, requests,
                   jitVars, radioVars, gps>>

BeaconLoopEnd ==
    /\ down_pc = "beacon"
    /\ beacon_loop = 0 \/ BeaconPeriod = 0 \/ gps # "xtal"
    /\ down_pc' = "datagram"
    /\ beacon_loop' = 0 /\ retry' = 0
    /\ UNCHANGED <<now, queueVars, slotVars, down_pkt, down_time, tx_ack,
                   requests, jitVars, radioVars, gps>>

(* Mutant: the slot of the latest beacon itself.                           *)
BeaconSlotSame(age) ==
    (IF beacon_queued
       THEN last_beacon
       ELSE BeaconPeriod - (Minus(now, age) % BeaconPeriod) - age)
    + retry * BeaconPeriod

(* The slot to try, relative to now: the one after the latest beacon       *)
(* queued, or the first one after the GPS reference, which is age old;     *)
(* then one period later for each retry.                                   *)
BeaconSlot(age) ==
    (IF beacon_queued
       THEN last_beacon + BeaconPeriod
       ELSE BeaconPeriod - (Minus(now, age) % BeaconPeriod) - age)
    + retry * BeaconPeriod

(* The conversion to uint32_t of the delay from the reference to the slot  *)
(* is undefined when the slot is behind the reference: it may wrap, which  *)
(* gives the counter at the slot, or saturate at 0, which gives the        *)
(* counter at the reference.  A slot beyond the horizon may be at any      *)
(* distance: the delay may exceed a uint32_t, and wrap or saturate.        *)
lgw_gps2cnt(age, slot) ==
    LET ref == Minus(now, age)
        count == (now + slot) % CounterMod
    IN  CASE slot + age < 0 -> {count, ref}
          [] slot > BEACON_HORIZON ->
               {c \in Counter : (c - now - slot) % BeaconPeriod = 0}
                 \cup {Minus(ref, 1)}
          [] OTHER -> {count}

BeaconPrepare ==
    /\ down_pc = "beacon"
    /\ beacon_loop # 0 /\ BeaconPeriod # 0 /\ gps = "xtal"
    /\ \E age \in RefAges :
         /\ next_beacon' = BeaconSlot(age)
         /\ \E c \in lgw_gps2cnt(age, BeaconSlot(age)) :
              down_pkt' = PacketNode(c, "BEACON", BEACON_RESERVED)
    /\ down_time' = now
    /\ down_pc' = "full"
    /\ UNCHANGED <<now, queueVars, beacon_loop, retry, beacon_queued,
                   last_beacon, tx_ack, requests, jitVars, radioVars, gps>>

(* What a TX_ACK reports: a full queue as a collision.                     *)
send_tx_ack(error) == IF error = "FULL" THEN "COLLISION_PACKET" ELSE error

(* No datagram, a PULL_ACK, or a PULL_RESP that is not well-formed or for  *)
(* the other RF chain.                                                     *)
DownIgnore ==
    /\ down_pc = "datagram"
    /\ down_pc' = "recv"
    /\ UNCHANGED <<now, queueVars, beaconVars, down_pkt, down_time, tx_ack,
                   requests, jitVars, radioVars, gps>>

(* A PULL_RESP that is rejected before it reaches the queue: on an         *)
(* unsupported frequency, or on GPS time without a reference.              *)
DownReject ==
    /\ down_pc = "datagram"
    /\ requests > 0
    /\ requests' = requests - 1
    /\ \/ tx_ack' = send_tx_ack("TX_FREQ")
       \/ /\ gps = "unlocked" /\ "CLASS_B" \in RequestTypes
          /\ tx_ack' = send_tx_ack("GPS_UNLOCKED")
    /\ down_pc' = "recv"
    /\ UNCHANGED <<now, queueVars, beaconVars, down_pkt, down_time,
                   jitVars, radioVars, gps>>

(* A PULL_RESP: immediate (Class C), on a timestamp (A) or on GPS time (B).*)
DownPrepare ==
    /\ down_pc = "datagram"
    /\ requests > 0
    /\ requests' = requests - 1
    /\ \E type \in RequestTypes, c \in TargetCounts, toa \in TimesOnAir :
         /\ type = "CLASS_B" => gps # "unlocked"
         /\ down_pkt' = PacketNode(IF type = "CLASS_C" THEN 0 ELSE c,
                                   type, toa)
    /\ down_time' = now
    /\ down_pc' = "full"
    /\ UNCHANGED <<now, queueVars, beaconVars, tx_ack, jitVars, radioVars,
                   gps>>

(* retry++, saturating once the slot tried is beyond the horizon.          *)
NextRetry == IF next_beacon > BEACON_HORIZON THEN retry ELSE retry + 1

(* The result of jit_enqueue for a beacon.                                 *)
BeaconDone(result) ==
    /\ down_pc' = "beacon"
    /\ UNCHANGED tx_ack
    /\ IF result = "OK"
         THEN /\ beacon_loop' = beacon_loop - 1
              /\ retry' = 0
              /\ beacon_queued' = TRUE
              /\ last_beacon' = Near(next_beacon)
         ELSE /\ retry' = NextRetry
              /\ UNCHANGED <<beacon_loop, beacon_queued, last_beacon>>

(* The result of jit_enqueue for a downlink.  On success the server is     *)
(* still warned when the power it asked for is not supported.              *)
DownlinkDone(result) ==
    /\ down_pc' = "recv"
    /\ tx_ack' \in {send_tx_ack(e) :
                     e \in IF result = "OK" THEN {"OK", "TX_POWER"}
                                           ELSE {result}}
    /\ UNCHANGED <<beacon_loop, retry, beacon_queued, last_beacon>>

EnqueueDone(result) ==
    /\ down_pkt' = NoPkt /\ next_beacon' = 0
    /\ UNCHANGED down_time
    /\ IF down_pkt.pkt_type = "BEACON" THEN BeaconDone(result)
                                       ELSE DownlinkDone(result)

(* jit_enqueue: the full check, in a critical section of its own.          *)
JitFullCheck ==
    /\ down_pc = "full"
    /\ mx_jit_queue = "free"
    /\ IF jit_queue_is_full(nodes)
         THEN EnqueueDone("FULL")
         ELSE /\ down_pc' = "enqueue"
              /\ UNCHANGED <<beaconVars, down_pkt, down_time, tx_ack>>
    /\ UNCHANGED <<now, queueVars, requests, jitVars, radioVars, gps>>

(* jit_enqueue: timestamp of an immediate packet, criteria, insertion and  *)
(* sort.                                                                   *)
JitEnqueue ==
    /\ down_pc = "enqueue"
    /\ mx_jit_queue = "free"
    /\ \E c \in IF down_pkt.pkt_type = "CLASS_C"
                  THEN AsapCounts(nodes, down_pkt, down_time)
                  ELSE {down_pkt.count_us} :
         LET p == [down_pkt EXCEPT !.count_us = c]
             result == JitError(nodes, p, down_time)
         IN  /\ IF result = "OK"
                  THEN /\ nodes' \in jit_sort_queue(Append(nodes, p))
                       /\ num_beacon' = IF p.pkt_type = "BEACON"
                                          THEN num_beacon + 1
                                          ELSE num_beacon
                  ELSE UNCHANGED queueVars
             /\ EnqueueDone(result)
    /\ UNCHANGED <<now, requests, jitVars, radioVars, gps>>

-----------------------------------------------------------------------------
(* thread_jit.                                                             *)

(* wait_ms(10), which takes at least a tick, then lgw_get_instcnt.         *)
JitReadCounter ==
    /\ jit_pc = "wait"
    /\ now # jit_time
    /\ jit_time' = now
    /\ jit_pc' = "start"
    /\ UNCHANGED <<now, queueVars, downVars, peekVars, jit_pkt, jit_peers,
                   radioVars, gps>>

PeekStart ==
    /\ jit_pc = "start"
    /\ IF jit_queue_is_empty(nodes)
         THEN jit_pc' = "wait" /\ UNCHANGED mx_jit_queue
         ELSE jit_pc' = "peek" /\ mx_jit_queue' = "jit"
    /\ UNCHANGED <<now, queueVars, downVars, jit_time, i,
                   idx_highest_priority, pkt_index, jit_pkt, jit_peers,
                   radioVars, gps>>

NumBeaconWithout(n) ==
    IF n.pkt_type = "BEACON" THEN num_beacon - 1 ELSE num_beacon

(* Mutant: the outdated node is skipped, not dropped.                      *)
PeekSkip ==
    /\ jit_pc = "peek"
    /\ i < Len(nodes)
    /\ Minus(nodes[i+1].count_us, jit_time) >= TX_MAX_ADVANCE_DELAY
    /\ i' = i + 1
    /\ UNCHANGED <<now, queueVars, downVars, jit_pc, jit_time, mx_jit_queue,
                   idx_highest_priority, pkt_index, jit_pkt, jit_peers,
                   radioVars, gps>>

(* An iteration that finds an outdated node: "i = 0; continue" leaves the  *)
(* scan at index 1.                                                        *)
PeekDrop ==
    /\ jit_pc = "peek"
    /\ i < Len(nodes)
    /\ Minus(nodes[i+1].count_us, jit_time) >= TX_MAX_ADVANCE_DELAY
    /\ num_beacon' = NumBeaconWithout(nodes[i+1])
    /\ nodes' \in jit_sort_queue(RemoveNode(nodes, i + 1))
    /\ i' = 1
    /\ UNCHANGED <<now, downVars, jit_pc, jit_time, mx_jit_queue,
                   idx_highest_priority, pkt_index, jit_pkt, jit_peers,
                   radioVars, gps>>

(* An iteration that compares a node with the best one so far.             *)
PeekScan ==
    /\ jit_pc = "peek"
    /\ i < Len(nodes)
    /\ Minus(nodes[i+1].count_us, jit_time) < TX_MAX_ADVANCE_DELAY
    /\ idx_highest_priority' =
         IF \/ idx_highest_priority = NONE
            \/ Minus(nodes[i+1].count_us, jit_time)
                 < Minus(NodeAt(nodes, idx_highest_priority).count_us, jit_time)
           THEN i
           ELSE idx_highest_priority
    /\ i' = i + 1
    /\ UNCHANGED <<now, queueVars, downVars, jit_pc, jit_time, mx_jit_queue,
                   pkt_index, jit_pkt, jit_peers, radioVars, gps>>

(* After the loop.  With idx_highest_priority = -1 the code reads          *)
(* nodes[-1], but answers -1 whatever it reads.  jit_pkt remembers the     *)
(* packet peeked; the code only keeps its index.                           *)
PeekEnd ==
    LET best == NodeAt(nodes, idx_highest_priority)
        found == /\ idx_highest_priority # NONE
                 /\ Minus(best.count_us, jit_time) < TX_JIT_DELAY
    IN  /\ jit_pc = "peek"
        /\ i >= Len(nodes)
        /\ IF found
             THEN /\ pkt_index' = idx_highest_priority
                  /\ jit_pkt' = best
                  /\ jit_pc' = "dequeue"
             ELSE /\ jit_pc' = "wait"
                  /\ UNCHANGED <<pkt_index, jit_pkt>>
        /\ mx_jit_queue' = "free"
        /\ i' = 0 /\ idx_highest_priority' = NONE
        /\ UNCHANGED <<now, queueVars, downVars, jit_time, jit_peers,
                       radioVars, gps>>

(* jit_dequeue(pkt_index); its tests of an empty queue and of the index    *)
(* never fail after a jit_peek that found a packet.  jit_peers records    *)
(* the timestamps of the packets that shared the queue with the one taken  *)
(* out.                                                                    *)
JitDequeue ==
    LET n == NodeAt(nodes, pkt_index)
        rest == RemoveNode(nodes, pkt_index + 1)
    IN  /\ jit_pc = "dequeue"
        /\ jit_pkt' = n
        /\ num_beacon' = NumBeaconWithout(n)
        /\ nodes' \in jit_sort_queue(rest)
        /\ jit_peers' = {rest[k].count_us : k \in 1 .. Len(rest)}
        /\ pkt_index' = NONE
        /\ jit_pc' = "status"
        /\ UNCHANGED <<now, downVars, jit_time, mx_jit_queue, i,
                       idx_highest_priority, radioVars, gps>>

JitDone ==
    /\ jit_pc' = "wait"
    /\ jit_pkt' = NoPkt
    /\ jit_peers' = {}

(* lgw_status: a packet that finds the radio emitting is given up; one     *)
(* that finds another packet scheduled goes on to overwrite it, and so     *)
(* does one for which the status register cannot be read.                  *)
JitStatus ==
    /\ jit_pc = "status"
    /\ \E code \in {tx_status, "UNKNOWN"} :
         IF code = "EMITTING"
           THEN JitDone
           ELSE jit_pc' = "send" /\ UNCHANGED <<jit_pkt, jit_peers>>
    /\ UNCHANGED <<now, queueVars, downVars, jit_time, peekVars, radioVars,
                   gps>>

(* lgw_send programs the packet; or fails before it touches the trigger,   *)
(* and leaves the radio alone; or fails after it reset the trigger.        *)
JitSend ==
    /\ jit_pc = "send"
    /\ \/ /\ tx_status' = "SCHEDULED"
          /\ tx_pkt' = jit_pkt
          /\ tx_peers' = jit_peers
       \/ UNCHANGED radioVars
       \/ tx_status' = "FREE" /\ RadioIdle
    /\ JitDone
    /\ UNCHANGED <<now, queueVars, downVars, jit_time, peekVars, gps>>

-----------------------------------------------------------------------------
thread_down == \/ DownRecv \/ BeaconLoopEnd \/ BeaconPrepare
               \/ DownIgnore \/ DownReject \/ DownPrepare
               \/ JitFullCheck \/ JitEnqueue

thread_jit == \/ JitReadCounter
              \/ PeekStart \/ PeekDrop \/ PeekScan \/ PeekEnd
              \/ JitDequeue \/ JitStatus \/ JitSend

Next == Tick \/ GpsChange \/ thread_down \/ thread_jit

Spec == Init /\ [][Next]_vars

(* Both threads loop for ever and block only on calls that time out, and   *)
(* the counter runs on.                                                    *)
FairSpec == Spec /\ WF_vars(Tick) /\ WF_vars(thread_down) /\ WF_vars(thread_jit)

(* The threads are prompt: thread_jit reads the counter often enough to    *)
(* see a packet twice between TX_JIT_DELAY and TX_START_DELAY ahead of its *)
(* timestamp, and thread_down takes less time for a downlink than what     *)
(* criterion 1 leaves.  No beacons are sent.  A full queue of downlinks    *)
(* one behind the other, each with a slot of at most w, is short of half   *)
(* the counter range.                                                      *)
Prompt ==
    /\ BeaconPeriod = 0
    /\ 2 * JIT_LATENCY + TX_START_DELAY < TX_JIT_DELAY
    /\ DOWN_LATENCY + 2 * JIT_LATENCY <= TX_JIT_DELAY + TX_MARGIN_DELAY
    /\ \E w \in Counter :
         /\ \A d \in TimesOnAir :
              TX_START_DELAY + TX_JIT_DELAY + TX_MARGIN_DELAY + d <= w
         /\ 2 * TX_JIT_DELAY + (JIT_QUEUE_MAX - 1) * (2 * w + TX_JIT_DELAY)
              < Half

-----------------------------------------------------------------------------
(* Properties.                                                             *)

(* The variables of both threads, the queue and the radio have their type. *)
TypeOK ==
    /\ now \in Counter
    /\ nodes \in Seq(Node) /\ num_beacon \in Int
    /\ mx_jit_queue \in {"free", "jit"}
    /\ down_pc \in {"recv", "beacon", "datagram", "full", "enqueue"}
    /\ beacon_loop \in Int /\ retry \in Nat
    /\ beacon_queued \in BOOLEAN /\ last_beacon \in Int /\ next_beacon \in Int
    /\ down_pkt \in Node /\ down_time \in Counter
    /\ tx_ack \in JitErrors \cup {"none"}
    /\ requests \in Nat
    /\ jit_pc \in {"wait", "start", "peek", "dequeue", "status", "send"}
    /\ jit_time \in Counter /\ jit_pkt \in Node
    /\ i \in Nat /\ idx_highest_priority \in Nat \cup {NONE}
    /\ pkt_index \in Nat \cup {NONE}
    /\ tx_status \in {"FREE", "SCHEDULED", "EMITTING"} /\ tx_pkt \in Node
    /\ jit_peers \subseteq Counter /\ tx_peers \subseteq Counter
    /\ gps \in {"unlocked", "ref", "xtal"}

(* jit_enqueue tests for a full queue in one critical section and writes   *)
(* nodes[num_pkt] in another: the write stays inside the array.            *)
QueueBounded == Len(nodes) <= JIT_QUEUE_MAX

(* num_beacon counts the beacons in the queue whatever jit_enqueue,        *)
(* jit_dequeue and the purge of jit_peek did, and thread_down, which reads *)
(* it without the lock, never queues more than JIT_NUM_BEACON_IN_QUEUE     *)
(* (beacon_loop is a uint8_t and would wrap).                              *)
BeaconCount ==
    /\ num_beacon = Cardinality(BeaconNodes(nodes))
    /\ beacon_loop >= 0
    /\ num_beacon + beacon_loop <= JIT_NUM_BEACON_IN_QUEUE

(* Criterion 3 as an invariant: the intervals reserved by any two packets  *)
(* in the queue are disjoint, with TX_MARGIN_DELAY between them, also      *)
(* across a roll-over of the counter, and whatever was queued first.       *)
NoOverlap == Spread(nodes)

(* compare() is an order on the queue, as qsort_r requires: an int         *)
(* difference is none for timestamps half the counter range or more apart, *)
(* but neither the criteria for downlinks, nor the slots that thread_down  *)
(* tries for beacons, nor the delay of an immediate packet behind those    *)
(* queued already, let the queue span that much.                           *)
QueueOrdered == Ordered(nodes)

(* thread_jit hands jit_dequeue an index that jit_peek computed before it  *)
(* released mx_jit_queue.  It still denotes the packet that was peeked,    *)
(* although thread_down may have queued, and sorted, in between.           *)
DequeuesPeeked ==
    jit_pc = "dequeue" => /\ pkt_index < Len(nodes)
                          /\ nodes[pkt_index + 1] = jit_pkt

(* What the reservations are for: of two packets that were in the queue    *)
(* together, the later never reaches the radio before the earlier has left *)
(* it (else it is given up, or overwrites the earlier).  A beacon behind a *)
(* Class A or C downlink is the exception: criterion 3 ignores its guard,  *)
(* and thread_jit may come to program it while the downlink is emitted.    *)
NoRadioConflict ==
    /\ jit_pc \in {"status", "send"}
    /\ tx_status # "FREE"
    /\ jit_pkt.count_us \in tx_peers
    => jit_pkt.pkt_type = "BEACON" /\ tx_pkt.pkt_type \in {"CLASS_A", "CLASS_C"}

(* A downlink that thread_jit programs is programmed before the instant    *)
(* the concentrator has to trigger it, TX_START_DELAY ahead of its         *)
(* timestamp: jit_peek never picks it up too late.                         *)
ProgrammedInTime ==
    jit_pc = "send" =>
      ~Past(Minus(jit_pkt.count_us, TX_START_DELAY + 1), now)

(* "If a packet seems too much in advance, and was not rejected at enqueue *)
(* time, it means that we missed it for peeking" (jit_peek): no beacon     *)
(* that is to come is purged, also when thread_down had to retry in a      *)
(* later slot.  It would then be gone, as thread_down goes on from there.  *)
PurgedWasMissed ==
    jit_pc = "peek" /\ i < Len(nodes) /\ nodes[i+1].pkt_type = "BEACON"
      => \/ Minus(nodes[i+1].count_us, jit_time) < TX_MAX_ADVANCE_DELAY
         \/ Past(nodes[i+1].count_us, jit_time)

(* No downlink outlives its timestamp in the queue: the purge of jit_peek, *)
(* meant to avoid a lock-up, only ever concerns beacons.                   *)
NoDownlinkExpires ==
    \A j \in 1 .. Len(nodes) :
      nodes[j].pkt_type # "BEACON" => ~Past(nodes[j].count_us, now)

(* When thread_jit is so late that it misses a downlink, the purge of      *)
(* jit_peek takes it out of the queue, at the latest in the second scan    *)
(* after it expired, as the scan that purges a node skips another one.     *)
ExpiredPurged ==
    \A j \in 1 .. Len(nodes) :
      nodes[j].pkt_type # "BEACON" /\ Past(nodes[j].count_us, now)
        => Minus(now, nodes[j].count_us) <= 3 * JIT_LATENCY

(* Once GPS time stays valid there is always a beacon to come: after an    *)
(* outage thread_down works its way from the last beacon slot up to the    *)
(* present.                                                                *)
BeaconsResume ==
    <>[](gps = "xtal")
      => []<>(\E j \in BeaconNodes(nodes) : ~Past(nodes[j].count_us, now))

=============================================================================
