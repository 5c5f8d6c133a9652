------------------------------ MODULE RxPath ------------------------------
(***************************************************************************)
(* Reception: lgw_receive fetches the packets in the FIFO of the           *)
(* concentrator, then updates the counter, then parses the packets         *)
(* (loragw_hal.c, loragw_sx1302.c, loragw_sx1302_rx.c).  The concentrator  *)
(* counts 27 bits of microseconds; the driver counts its roll-overs and    *)
(* puts them in front (loragw_sx1302_timestamp.c).                         *)
(*                                                                         *)
(* A 32-bit counter value is a pair [wrap, cnt].  `now' is the value that  *)
(* would result if no roll-over were missed.                               *)
(*                                                                         *)
(* lgw_receive holds mx_concent, so the other users of the counter         *)
(* (thread_jit, thread_gps...) run between two calls; the concentrator     *)
(* and time do not wait.  A failure other than that of reading the counter *)
(* ends the program (thread_up exits when lgw_receive fails).              *)
(***************************************************************************)
EXTENDS Integers, Sequences

CONSTANTS
    CntMod,       \* 2^27 in the code
    WrapMod,      \* 32 in the code
    NB_PKT_MAX,
    MaxPkts,      \* bound: packets received
    PpsRegular    \* the pulses come at least once per roll-over

ASSUME RxConstants ==
    /\ CntMod \in Nat /\ CntMod > 1
    /\ WrapMod \in Nat /\ WrapMod > 2
    /\ NB_PKT_MAX \in Nat \ {0} /\ MaxPkts \in Nat
    /\ PpsRegular \in BOOLEAN

VARIABLES
    now,          \* the counter
    pulse,        \* its value at the last PPS pulse
    inst, pps,    \* counter_us: the last values read, expanded
    seen, seen_pulse, \* history: now and pulse when they were last read
    fifo,         \* packets in the concentrator
    received,     \* number of packets received
    rx_buffer,    \* packets fetched
    rx_pc,        \* lgw_receive
    nb_left,      \* packets this call has yet to parse
    reading,      \* history: whether this call could read the counter
    pkt_data,     \* packets parsed in this call
    delivered     \* ids of the packets returned to thread_up

counterVars == <<inst, pps, seen, seen_pulse>>
airVars == <<now, pulse, fifo, received>>
rxVars == <<rx_buffer, rx_pc, nb_left, reading, pkt_data, delivered>>
vars == <<airVars, counterVars, rxVars>>

Value == [wrap : 0 .. WrapMod - 1, cnt : 0 .. CntMod - 1]

(* A packet on the air, as fetched; status: "ok", "bad" (checksum, length  *)
(* or sync word wrong, or truncated) or "fatal" (metadata out of range, or *)
(* a CRC that does not match the payload).  What a fetch leaves in the     *)
(* FIFO of a packet that it truncates is another bad one.                  *)
Packet == [id : 1 .. MaxPkts, t : Value, status : {"ok", "bad", "fatal"}]

Ids(s) == [i \in 1 .. Len(s) |-> s[i].id]

NextWrap(w) == (w + 1) % WrapMod
PrevWrap(w) == (w - 1) % WrapMod

(* b is later than a by less than a roll-over.                             *)
Within(a, b) ==
    \/ b.wrap = a.wrap /\ b.cnt >= a.cnt
    \/ b.wrap = NextWrap(a.wrap) /\ b.cnt < a.cnt

Zero == [wrap |-> 0, cnt |-> 0]

Init ==
    /\ now = Zero /\ pulse = Zero
    /\ inst = Zero /\ pps = Zero /\ seen = Zero /\ seen_pulse = Zero
    /\ fifo = <<>> /\ received = 0 /\ rx_buffer = <<>>
    /\ rx_pc = "idle" /\ nb_left = 0 /\ reading = "failed" /\ pkt_data = <<>> /\ delivered = <<>>

-----------------------------------------------------------------------------
(* The concentrator.                                                       *)

(* The counter is read, and packets are parsed, at least once per          *)
(* roll-over.                                                              *)
InTime(t) ==
    /\ Within(seen, t)
    /\ PpsRegular => Within(seen_pulse, t)
    /\ \A i \in 1 .. Len(fifo) : Within(fifo[i].t, t)
    /\ \A i \in 1 .. Len(rx_buffer) : Within(rx_buffer[i].t, t)

Later == IF now.cnt < CntMod - 1
           THEN [now EXCEPT !.cnt = @ + 1]
           ELSE [wrap |-> NextWrap(now.wrap), cnt |-> 0]

Tick == /\ InTime(Later)
        /\ now' = Later
        /\ UNCHANGED <<pulse, fifo, received, counterVars, rxVars>>

Pulse == /\ pulse' = now
         /\ UNCHANGED <<now, fifo, received, counterVars, rxVars>>

Arrive ==
    /\ received < MaxPkts
    /\ received' = received + 1
    /\ \E status \in {"ok", "bad", "fatal"} :
         fifo' = Append(fifo, [id |-> received', t |-> now, status |-> status])
    /\ UNCHANGED <<now, pulse, counterVars, rxVars>>

-----------------------------------------------------------------------------
(* loragw_sx1302_timestamp.c.                                              *)

(* Mutant: equal values count as a roll-over.                              *)
counter_update_equal(c, cnt) ==
    [wrap |-> IF cnt <= c.cnt /\ c.cnt > 0 THEN NextWrap(c.wrap) ELSE c.wrap,
     cnt |-> cnt]

(* One counter: a value less than the last one read means a roll-over.     *)
timestamp_counter_update(c, cnt) ==
    [wrap |-> IF cnt < c.cnt THEN NextWrap(c.wrap) ELSE c.wrap, cnt |-> cnt]

(* timestamp_counter_get: both counters are read, reading and expanded.    *)
CounterRead ==
    /\ inst' = timestamp_counter_update(inst, now.cnt)
    /\ pps' = timestamp_counter_update(pps, pulse.cnt)
    /\ seen' = now
    /\ seen_pulse' = pulse

CounterReadFails == UNCHANGED counterVars

(* Mutant: the current number of roll-overs, always.                       *)
timestamp_pkt_expand_current(cnt) == [wrap |-> inst.wrap, cnt |-> cnt]

(* A packet received before the last reading of the counter.               *)
timestamp_pkt_expand(cnt) ==
    [wrap |-> IF inst.cnt >= cnt THEN inst.wrap ELSE PrevWrap(inst.wrap),
     cnt |-> cnt]

(* lgw_get_instcnt and lgw_get_trigcnt, by any thread.  A failed reading   *)
(* changes nothing (and returns a variable that was never set).            *)
lgw_get_cnt ==
    /\ rx_pc = "idle"
    /\ CounterRead
    /\ UNCHANGED <<airVars, rxVars>>

-----------------------------------------------------------------------------
(* lgw_receive.                                                            *)

(* What rx_buffer_fetch makes of the FIFO: the packets from the first sync *)
(* word on; or nothing, if one is bad: too short, or the next sync word is *)
(* not where its length says.                                              *)
Fetched ==
    LET Bad(i) == fifo[i].status = "bad"
    IN  {SubSeq(fifo, k, Len(fifo)) :
            k \in {n \in 1 .. Len(fifo) + 1 : \A i \in 1 .. n - 1 : Bad(i)}}
        \cup {s \in {<<>>} : \E i \in 1 .. Len(fifo) : Bad(i)}

(* Mutant: packets are fetched though some are left.                       *)
sx1302_fetch_always ==
    /\ rx_pc = "idle"
    /\ rx_buffer' \in Fetched /\ fifo' = <<>>
    /\ nb_left' = IF Len(rx_buffer') <= NB_PKT_MAX THEN Len(rx_buffer')
                                                   ELSE NB_PKT_MAX
    /\ pkt_data' = <<>>
    /\ rx_pc' = "update"
    /\ UNCHANGED <<now, pulse, received, counterVars, reading, delivered>>

(* Fetch, unless packets are left from the last call.                      *)
sx1302_fetch ==
    /\ rx_pc = "idle"
    /\ IF rx_buffer = <<>>
         THEN rx_buffer' \in Fetched /\ fifo' = <<>>
         ELSE UNCHANGED <<rx_buffer, fifo>>
    /\ nb_left' = IF Len(rx_buffer') <= NB_PKT_MAX THEN Len(rx_buffer')
                                                   ELSE NB_PKT_MAX
    /\ pkt_data' = <<>>
    /\ rx_pc' = "update"
    /\ UNCHANGED <<now, pulse, received, counterVars, reading, delivered>>

(* The counter is read; a failure is not noticed.                          *)
sx1302_update ==
    /\ rx_pc = "update"
    /\ \/ CounterRead /\ reading' = "ok"
       \/ CounterReadFails /\ reading' = "failed"
    /\ rx_pc' = IF rx_buffer = <<>> THEN "idle" ELSE "parse"
    /\ UNCHANGED <<airVars, rx_buffer, nb_left, pkt_data, delivered>>

(* The next packet.  A bad one clears the buffer and ends the call, which  *)
(* returns no packet, not even those parsed before; a fatal one ends the   *)
(* program.                                                                *)
sx1302_parse ==
    /\ rx_pc = "parse" /\ nb_left > 0
    /\ LET p == Head(rx_buffer) IN
         \/ /\ p.status = "ok"
            /\ pkt_data' = Append(pkt_data, [id |-> p.id, t |-> p.t,
                                  count_us |-> timestamp_pkt_expand(p.t.cnt)])
            /\ rx_buffer' = Tail(rx_buffer)
            /\ nb_left' = nb_left - 1
            /\ UNCHANGED rx_pc
         \/ /\ p.status = "bad"
            /\ rx_buffer' = <<>> /\ pkt_data' = <<>> /\ nb_left' = 0
            /\ rx_pc' = "idle"
         \/ /\ p.status = "fatal"
            /\ rx_pc' = "exit"
            /\ UNCHANGED <<rx_buffer, nb_left, pkt_data>>
    /\ UNCHANGED <<airVars, counterVars, reading, delivered>>

(* All are parsed: they are returned.                                      *)
lgw_receive_return ==
    /\ rx_pc = "parse" /\ nb_left = 0
    /\ delivered' = delivered \o Ids(pkt_data)
    /\ pkt_data' = <<>>
    /\ rx_pc' = "idle"
    /\ UNCHANGED <<airVars, counterVars, rx_buffer, nb_left, reading>>

lgw_receive == sx1302_fetch \/ sx1302_update \/ sx1302_parse \/ lgw_receive_return

-----------------------------------------------------------------------------
Next == Tick \/ Pulse \/ Arrive \/ lgw_get_cnt \/ lgw_receive

Spec == Init /\ [][Next]_vars

(* Properties.                                                             *)

(* timestamp_counter_update notices every roll-over of the free running    *)
(* counter: lgw_get_instcnt returns the counter.                           *)
InstExact == inst = seen

(* lgw_get_trigcnt returns the counter at the latest pulse, as long as     *)
(* pulses come, and are read, at least once per roll-over: the register    *)
(* keeps its value in between.                                             *)
PpsExact == PpsRegular => pps = seen_pulse

(* A packet has the timestamp of its reception, also if the counter rolled *)
(* over between its reception and its parsing, or between its fetching and *)
(* the reading of the counter; unless that reading failed, which           *)
(* sx1302_update ignores.                                                  *)
PktExact ==
    reading = "ok" =>
      \A i \in 1 .. Len(pkt_data) : pkt_data[i].count_us = pkt_data[i].t

(* The packets received, in their order: returned, parsed, fetched, and in *)
(* the FIFO.                                                               *)
Stream == delivered \o Ids(pkt_data) \o Ids(rx_buffer) \o Ids(fifo)

(* A step loses no packet but along with a bad one fetched with it, and    *)
(* keeps the others in the order of reception.                             *)
LosesWithBadOnly ==
    \/ Stream' = Stream
    \/ Stream' = Append(Stream, received')
    \/ /\ \/ \E i \in 1 .. Len(rx_buffer) : rx_buffer[i].status = "bad"
          \/ /\ rx_buffer = <<>>
             /\ \E i \in 1 .. Len(fifo) : fifo[i].status = "bad"
       /\ \A i, k \in 1 .. Len(Stream') : i < k => Stream'[i] < Stream'[k]

(* Each packet reaches thread_up once and in the order of reception, those *)
(* left in the buffer by a call included; it is lost only along with a bad *)
(* packet fetched with it.                                                 *)
LostWithBad == [][LosesWithBadOnly]_vars

=============================================================================
