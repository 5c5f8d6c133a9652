-------------------------- MODULE ReceptionProofs --------------------------
(***************************************************************************)
(* Proofs about reception.  The expansion of the 27-bit counter is exact,  *)
(* for every width of the counter and of the number of roll-overs, as long *)
(* as the counter is read once per roll-over; packets are lost only with a *)
(* bad one, for every number of packets; and merge_packets, on arrays of   *)
(* every length, leaves no duplicates and keeps the best of them.          *)
(***************************************************************************)
EXTENDS Reception, SequenceTheorems, FiniteSetTheorems, WellFoundedInduction, TLAPS

(* The roll-overs are counted modulo WrapMod, in both directions, and two  *)
(* in a row are told apart from none.                                      *)
LEMMA WrapFacts ==
    ASSUME NEW w \in 0 .. WrapMod - 1
    PROVE  /\ NextWrap(w) \in 0 .. WrapMod - 1
           /\ PrevWrap(w) \in 0 .. WrapMod - 1
           /\ PrevWrap(NextWrap(w)) = w
           /\ NextWrap(w) # w
           /\ NextWrap(NextWrap(w)) # w
           /\ NextWrap(NextWrap(w)) # NextWrap(w)
<1>1. WrapMod \in Nat /\ WrapMod > 2
  BY RxConstants
<1>2. NextWrap(w) = IF w = WrapMod - 1 THEN 0 ELSE w + 1
  BY <1>1 DEF NextWrap
<1>3. PrevWrap(w) = IF w = 0 THEN WrapMod - 1 ELSE w - 1
  BY <1>1 DEF PrevWrap
<1>4. NextWrap(w) \in 0 .. WrapMod - 1
  BY <1>1, <1>2
<1>5. PrevWrap(NextWrap(w)) = IF NextWrap(w) = 0 THEN WrapMod - 1
                                                ELSE NextWrap(w) - 1
  BY <1>1, <1>4 DEF PrevWrap
<1>6. NextWrap(NextWrap(w)) = IF NextWrap(w) = WrapMod - 1 THEN 0
                                                          ELSE NextWrap(w) + 1
  <2>1. ASSUME NEW v \in 0 .. WrapMod - 1
        PROVE  (v + 1) % WrapMod = IF v = WrapMod - 1 THEN 0 ELSE v + 1
    BY <1>1
  <2> QED
    BY <1>4, <2>1 DEF NextWrap
<1> QED
  BY <1>1, <1>2, <1>3, <1>4, <1>5, <1>6

(* timestamp_counter_update follows the counter over less than a roll-over. *)
LEMMA UpdateExact ==
    ASSUME NEW c \in Value, NEW t \in Value, Within(c, t)
    PROVE  timestamp_counter_update(c, t.cnt) = t
BY WrapFacts DEF Value, Within, timestamp_counter_update

(* timestamp_pkt_expand goes back from the counter to a time less than a   *)
(* roll-over earlier.                                                      *)
LEMMA ExpandExact ==
    ASSUME NEW t \in Value, inst \in Value, Within(t, inst)
    PROVE  timestamp_pkt_expand(t.cnt) = t
BY WrapFacts DEF Value, Within, timestamp_pkt_expand

(* A time is within a roll-over of itself.                                 *)
LEMMA WithinSelf == \A t \in Value : Within(t, t)
BY DEF Within, Value

(* The counter goes on to a value.                                         *)
LEMMA LaterType == now \in Value => Later \in Value
BY RxConstants, WrapFacts DEF Later, Value

-----------------------------------------------------------------------------
(* The values read last, and how far the counter has gone on since.        *)
CounterInv ==
    /\ now \in Value /\ pulse \in Value
    /\ inst \in Value /\ seen \in Value
    /\ inst = seen
    /\ Within(seen, now)

(* A step leaves the counters alone, or the counter goes on, or they are   *)
(* read.                                                                   *)
LEMMA StepKinds ==
    ASSUME [Next]_vars
    PROVE  \/ Tick
           \/ Pulse
           \/ UNCHANGED <<now, pulse, counterVars>>
           \/ CounterRead /\ UNCHANGED <<now, pulse>>
BY DEF Next, Tick, Pulse, Arrive, lgw_get_cnt, lgw_receive, sx1302_fetch,
       sx1302_update, sx1302_parse, lgw_receive_return, CounterReadFails,
       vars, airVars

(* Reading the counter sets what was seen to the counter.                  *)
LEMMA NextCounterInv == CounterInv /\ [Next]_vars => CounterInv'
<1> SUFFICES ASSUME CounterInv, [Next]_vars PROVE CounterInv'
  OBVIOUS
<1>1. CASE Tick
  BY <1>1, LaterType DEF CounterInv, Tick, InTime, counterVars, Within
<1>2. CASE Pulse
  BY <1>2 DEF CounterInv, Pulse, counterVars, Within
<1>3. CASE UNCHANGED <<now, pulse, counterVars>>
  BY <1>3 DEF CounterInv, counterVars, Within
<1>4. CASE CounterRead /\ UNCHANGED <<now, pulse>>
  <2>1. inst' = now /\ seen' = now
    BY <1>4, UpdateExact DEF CounterInv, CounterRead
  <2> QED
    BY <1>4, <2>1, WithinSelf DEF CounterInv, Within
<1> QED
  BY <1>1, <1>2, <1>3, <1>4, StepKinds

(* Zero is a value.                                                        *)
LEMMA ZeroType == Zero \in Value
BY RxConstants DEF Zero, Value

(* lgw_get_instcnt follows the counter through every roll-over, whichever  *)
(* threads read it, and also if some of the readings fail.                 *)
THEOREM InstStaysExact == Spec => []InstExact
<1>1. Init => CounterInv
  BY ZeroType, WithinSelf DEF Init, CounterInv
<1>2. CounterInv => InstExact
  BY DEF CounterInv, InstExact
<1> QED
  BY <1>1, <1>2, NextCounterInv, PTL DEF Spec

-----------------------------------------------------------------------------
(* The pulse lies between the pulse that was read last and the counter.    *)
PulseInv ==
    /\ now \in Value /\ pulse \in Value
    /\ pps \in Value /\ seen_pulse \in Value
    /\ pps = seen_pulse
    /\ Within(seen_pulse, pulse)
    /\ Within(pulse, now)
    /\ Within(seen_pulse, now)

(* If the counter has not left the pulse that was read last behind by a    *)
(* roll-over, it has not left a later pulse behind either.                 *)
LEMMA PulseFollowed ==
    ASSUME now \in Value, NEW a \in Value, NEW b \in Value,
           Within(a, b), Within(b, now), Within(a, now), Within(a, Later)
    PROVE  Within(b, Later)
<1>1. a.wrap \in 0 .. WrapMod - 1 /\ b.wrap \in 0 .. WrapMod - 1
      /\ now.wrap \in 0 .. WrapMod - 1
      /\ a.cnt \in 0 .. CntMod - 1 /\ b.cnt \in 0 .. CntMod - 1
      /\ now.cnt \in 0 .. CntMod - 1
  BY DEF Value
<1>2. CASE now.cnt < CntMod - 1
  <2>1. Later.wrap = now.wrap /\ Later.cnt = now.cnt + 1
    BY <1>2 DEF Later, Value
  <2> QED
    BY <1>1, <2>1, WrapFacts, RxConstants DEF Within
<1>3. CASE ~(now.cnt < CntMod - 1)
  <2>1. Later.wrap = NextWrap(now.wrap) /\ Later.cnt = 0
    BY <1>3 DEF Later
  <2> QED
    BY <1>1, <1>3, <2>1, WrapFacts, RxConstants DEF Within
<1> QED
  BY <1>2, <1>3

(* Reading both counters sets what was seen to the latest pulse.           *)
LEMMA NextPulseInv ==
    ASSUME PpsRegular, PulseInv, [Next]_vars
    PROVE  PulseInv'
<1>1. CASE Tick
  <2>1. Later \in Value /\ Within(seen_pulse, Later)
    BY <1>1, LaterType DEF PulseInv, Tick, InTime
  <2>2. Within(pulse, Later)
    BY <2>1, PulseFollowed DEF PulseInv
  <2> QED
    BY <1>1, <2>1, <2>2 DEF PulseInv, Tick, counterVars, Within
<1>2. CASE Pulse
  BY <1>2, WithinSelf DEF PulseInv, Pulse, counterVars, Within
<1>3. CASE UNCHANGED <<now, pulse, counterVars>>
  BY <1>3 DEF PulseInv, counterVars, Within
<1>4. CASE CounterRead /\ UNCHANGED <<now, pulse>>
  <2>1. pps' = pulse /\ seen_pulse' = pulse
    BY <1>4, UpdateExact DEF PulseInv, CounterRead
  <2> QED
    BY <1>4, <2>1, WithinSelf DEF PulseInv, Within
<1> QED
  BY <1>1, <1>2, <1>3, <1>4, StepKinds

(* lgw_get_trigcnt returns the counter at the latest pulse, provided that  *)
(* pulses come, and are read, once per roll-over.                          *)
THEOREM PpsStaysExact == Spec => []PpsExact
<1>1. Init => (PpsRegular => PulseInv)
  BY ZeroType, WithinSelf DEF Init, PulseInv
<1>2. (PpsRegular => PulseInv) /\ [Next]_vars => (PpsRegular => PulseInv)'
  BY NextPulseInv
<1>3. (PpsRegular => PulseInv) => PpsExact
  BY DEF PulseInv, PpsExact
<1> QED
  BY <1>1, <1>2, <1>3, PTL DEF Spec

-----------------------------------------------------------------------------
(* The packets in s were received less than a roll-over before t.          *)
Recent(s, t) == \A i \in 1 .. Len(s) : Within(s[i].t, t)

Packets == [id : Nat, t : Value, status : {"ok", "bad", "fatal"}]

Parsed == [id : Nat, t : Value, count_us : Value]

(* Packets wait less than a roll-over; those about to be parsed were       *)
(* received before the counter was read, if it could be read.              *)
PacketInv ==
    /\ CounterInv
    /\ received \in Nat /\ nb_left \in Nat /\ nb_left <= Len(rx_buffer)
    /\ fifo \in Seq(Packets) /\ rx_buffer \in Seq(Packets)
    /\ pkt_data \in Seq(Parsed) /\ (rx_pc = "update" => pkt_data = <<>>)
    /\ Recent(fifo, now) /\ Recent(rx_buffer, now)
    /\ rx_pc = "parse" /\ reading = "ok" => Recent(rx_buffer, seen)
    /\ PktExact

(* What rx_buffer_fetch makes of the FIFO are packets of the FIFO.         *)
LEMMA FetchedRecent ==
    ASSUME fifo \in Seq(Packets), Recent(fifo, now), NEW s \in Fetched
    PROVE  s \in Seq(Packets) /\ Recent(s, now)
<1>1. CASE s = <<>>
  BY <1>1 DEF Recent
<1>2. CASE \E k \in 1 .. Len(fifo) + 1 : s = SubSeq(fifo, k, Len(fifo))
  <2>1. PICK k \in 1 .. Len(fifo) + 1 : s = SubSeq(fifo, k, Len(fifo))
    BY <1>2
  <2>2. /\ Len(fifo) \in Nat
        /\ \A i \in k .. Len(fifo) : fifo[i] \in Packets
    OBVIOUS
  <2>3. /\ s \in Seq(Packets)
        /\ Len(s) = IF k <= Len(fifo) THEN Len(fifo) - k + 1 ELSE 0
        /\ \A i \in 1 .. Len(fifo) - k + 1 : s[i] = fifo[k + i - 1]
    BY <2>1, <2>2, SubSeqProperties
  <2>4. \A i \in 1 .. Len(s) : k + i - 1 \in 1 .. Len(fifo) /\ s[i] = fifo[k + i - 1]
    BY <2>2, <2>3
  <2> QED
    BY <2>3, <2>4, Zenon DEF Recent
<1> QED
  BY <1>1, <1>2 DEF Fetched

(* lgw_receive reads the counter between fetching and parsing.             *)
LEMMA NextPacketInv ==
    ASSUME PacketInv, [Next]_vars
    PROVE  PacketInv'
<1>0. CounterInv /\ CounterInv'
  BY NextCounterInv DEF PacketInv
<1>1. CASE Tick
  <2>1. Recent(fifo, now)' /\ Recent(rx_buffer, now)'
    BY <1>1 DEF Tick, InTime, Recent, rxVars, Within
  <2> QED
    BY <1>0, <1>1, <2>1
    DEF PacketInv, Tick, rxVars, counterVars, PktExact, Recent, Within
<1>2. CASE Pulse \/ lgw_get_cnt \/ UNCHANGED vars
  <2>1. UNCHANGED <<now, fifo, received, rx_buffer, rx_pc, nb_left, reading, pkt_data>>
    BY <1>2 DEF Pulse, lgw_get_cnt, vars, airVars, rxVars
  <2>2. rx_pc = "idle" \/ UNCHANGED seen
    BY <1>2 DEF Pulse, lgw_get_cnt, vars, counterVars
  <2>3. PktExact'
    BY <2>1 DEF PacketInv, PktExact
  <2> QED
    BY <1>0, <2>1, <2>2, <2>3 DEF PacketInv, Recent, Within
<1>3. CASE Arrive
  <2>1. PICK p \in Packets : fifo' = Append(fifo, p) /\ p.t = now
    <3>1. PICK status \in {"ok", "bad", "fatal"} :
            fifo' = Append(fifo, [id |-> received', t |-> now, status |-> status])
      BY <1>3 DEF Arrive
    <3>2. [id |-> received', t |-> now, status |-> status] \in Packets
      BY <1>0, <1>3 DEF Arrive, PacketInv, Packets, CounterInv
    <3> QED
      BY <3>1, <3>2
  <2>2. fifo' \in Seq(Packets) /\ Recent(fifo, now)'
    BY <1>0, <1>3, <2>1, WithinSelf
    DEF Arrive, PacketInv, Recent, CounterInv, Within
  <2>3. PktExact'
    BY <1>3 DEF Arrive, rxVars, PacketInv, PktExact
  <2> QED
    BY <1>0, <1>3, <2>2, <2>3
    DEF PacketInv, Arrive, rxVars, counterVars, Recent, Within
<1>4. CASE sx1302_fetch
  <2>1. /\ fifo' \in Seq(Packets) /\ Recent(fifo, now)'
        /\ rx_buffer' \in Seq(Packets) /\ Recent(rx_buffer, now)'
    <3>1. CASE rx_buffer = <<>>
      <4>1. rx_buffer' \in Seq(Packets) /\ Recent(rx_buffer', now)
        BY <1>4, <3>1, FetchedRecent DEF sx1302_fetch, PacketInv
      <4> QED
        BY <1>4, <3>1, <4>1 DEF sx1302_fetch, Recent, Within
    <3>2. CASE rx_buffer # <<>>
      BY <1>4, <3>2 DEF sx1302_fetch, PacketInv, Recent, Within
    <3> QED
      BY <3>1, <3>2
  <2>2. nb_left' \in Nat /\ nb_left' <= Len(rx_buffer')
    BY <1>4, <2>1, RxConstants DEF sx1302_fetch
  <2> QED
    BY <1>0, <1>4, <2>1, <2>2 DEF PacketInv, sx1302_fetch, PktExact
<1>5. CASE sx1302_update
  <2>1. PktExact'
    BY <1>5 DEF sx1302_update, PacketInv, PktExact
  <2>2. reading' = "ok" => Recent(rx_buffer, seen)'
    BY <1>5 DEF sx1302_update, CounterRead, PacketInv, Recent, Within
  <2> QED
    BY <1>0, <1>5, <2>1, <2>2
    DEF PacketInv, sx1302_update, airVars, Recent, Within
<1>6. CASE sx1302_parse
  <2> DEFINE p == Head(rx_buffer)
  <2>1. Len(rx_buffer) > 0 /\ p = rx_buffer[1] /\ p \in Packets
    BY <1>6 DEF sx1302_parse, PacketInv
  <2>2. UNCHANGED <<now, pulse, received, fifo, inst, seen, reading>>
    BY <1>6 DEF sx1302_parse, airVars, counterVars
  <2>3. CASE UNCHANGED <<rx_buffer, nb_left, pkt_data>> /\ rx_pc' = "exit"
    BY <1>0, <2>2, <2>3 DEF PacketInv, PktExact, Recent, Within
  <2>4. CASE /\ rx_buffer' = <<>> /\ pkt_data' = <<>> /\ nb_left' = 0
             /\ rx_pc' = "idle"
    BY <1>0, <2>2, <2>4 DEF PacketInv, PktExact, Recent, Within
  <2>5. CASE /\ pkt_data' = Append(pkt_data, [id |-> p.id, t |-> p.t,
                                   count_us |-> timestamp_pkt_expand(p.t.cnt)])
             /\ rx_buffer' = Tail(rx_buffer)
             /\ nb_left' = nb_left - 1
             /\ UNCHANGED rx_pc
    <3>1. reading = "ok" => timestamp_pkt_expand(p.t.cnt) = p.t
      <4>1. p.t \in Value /\ inst \in Value
        BY <2>1 DEF Packets, PacketInv, CounterInv
      <4>2. reading = "ok" => Within(p.t, inst)
        BY <1>6, <2>1 DEF sx1302_parse, PacketInv, CounterInv, Recent
      <4> QED
        BY <4>1, <4>2, ExpandExact
    <3>2. timestamp_pkt_expand(p.t.cnt) \in Value
      BY <2>1, WrapFacts, Zenon DEF timestamp_pkt_expand, Packets, PacketInv, CounterInv, Value
    <3>3. PICK d \in Parsed : /\ pkt_data' = Append(pkt_data, d)
                              /\ reading = "ok" => d.count_us = d.t
      BY <2>1, <2>5, <3>1, <3>2 DEF Packets, Parsed
    <3>4. pkt_data' \in Seq(Parsed) /\ PktExact'
      BY <2>2, <3>3 DEF PacketInv, PktExact
    <3>5. /\ rx_buffer' \in Seq(Packets) /\ Len(rx_buffer') = Len(rx_buffer) - 1
          /\ \A i \in 1 .. Len(rx_buffer') : rx_buffer'[i] = rx_buffer[i + 1]
      BY <2>1, <2>5 DEF PacketInv
    <3>6. Recent(rx_buffer', now) /\ (reading = "ok" => Recent(rx_buffer', seen))
      <4>1. \A i \in 1 .. Len(rx_buffer') : i + 1 \in 1 .. Len(rx_buffer)
        BY <3>5 DEF PacketInv
      <4>2. Recent(rx_buffer, now) /\ (reading = "ok" => Recent(rx_buffer, seen))
        BY <1>6 DEF sx1302_parse, PacketInv
      <4> QED
        BY <3>5, <4>1, <4>2, Zenon DEF Recent
    <3>7. nb_left' \in Nat /\ nb_left' <= Len(rx_buffer')
      BY <1>6, <2>5, <3>5 DEF sx1302_parse, PacketInv
    <3>8. rx_pc' = "parse"
      BY <1>6, <2>5 DEF sx1302_parse
    <3> QED
      BY <1>0, <2>2, <3>4, <3>5, <3>6, <3>7, <3>8 DEF PacketInv, Recent, Within
  <2> QED
    BY <1>6, <2>3, <2>4, <2>5 DEF sx1302_parse
<1>7. CASE lgw_receive_return
  BY <1>0, <1>7
  DEF PacketInv, lgw_receive_return, airVars, counterVars, PktExact, Recent, Within
<1> QED
  BY <1>1, <1>2, <1>3, <1>4, <1>5, <1>6, <1>7 DEF Next, lgw_receive

(* Nothing is received or read at the start.                               *)
LEMMA InitPacketInv == ASSUME Init PROVE PacketInv
BY ZeroType, WithinSelf DEF Init, PacketInv, CounterInv, Recent, PktExact

(* Every packet gets the timestamp of its reception, also around a         *)
(* roll-over, provided that lgw_receive could read the counter.            *)
THEOREM PktStaysExact == Spec => []PktExact
<1>1. Init => PacketInv
  BY InitPacketInv
<1>2. PacketInv /\ [Next]_vars => PacketInv'
  BY NextPacketInv
<1>3. PacketInv => PktExact
  BY DEF PacketInv
<1> QED
  BY <1>1, <1>2, <1>3, PTL DEF Spec

-----------------------------------------------------------------------------
(* Strictly increasing ids, and ids that are all less than others.         *)
Inc(s) == \A i, k \in 1 .. Len(s) : i < k => s[i] < s[k]

Below(s, t) == \A i \in 1 .. Len(s), k \in 1 .. Len(t) : s[i] < t[k]

(* The ids of packets, as a sequence of the same length.                   *)
LEMMA IdsType ==
    ASSUME NEW T, \A q \in T : q.id \in Nat, NEW s \in Seq(T)
    PROVE  /\ Ids(s) \in Seq(Nat) /\ Len(Ids(s)) = Len(s)
           /\ \A i \in 1 .. Len(s) : Ids(s)[i] = s[i].id
<1>1. \A i \in 1 .. Len(s) : s[i].id \in Nat
  BY ElementOfSeq
<1>2. Len(s) \in Nat
  OBVIOUS
<1> QED
  BY <1>1, <1>2 DEF Ids

(* A concatenation increases if its parts do, one below the other.         *)
LEMMA IncConcat ==
    ASSUME NEW s \in Seq(Nat), NEW t \in Seq(Nat)
    PROVE  Inc(s \o t) <=> Inc(s) /\ Inc(t) /\ Below(s, t)
<1> DEFINE u == s \o t
<1>1. /\ Len(u) = Len(s) + Len(t) /\ Len(s) \in Nat /\ Len(t) \in Nat
      /\ \A i \in 1 .. Len(s) : i \in 1 .. Len(u) /\ u[i] = s[i]
      /\ \A i \in 1 .. Len(t) : Len(s) + i \in 1 .. Len(u) /\ u[Len(s) + i] = t[i]
      /\ \A i \in 1 .. Len(u) : i > Len(s) => /\ i - Len(s) \in 1 .. Len(t)
                                             /\ u[i] = t[i - Len(s)]
  BY ConcatProperties
<1> HIDE DEF u
<1>2. ASSUME Inc(u) PROVE Inc(s) /\ Inc(t) /\ Below(s, t)
  <2>1. Inc(s)
    BY <1>1, <1>2 DEF Inc
  <2>2. Inc(t)
    <3> SUFFICES ASSUME NEW i \in 1 .. Len(t), NEW k \in 1 .. Len(t), i < k
                 PROVE  t[i] < t[k]
      BY DEF Inc
    <3>1. Len(s) + i < Len(s) + k
      BY <1>1
    <3> QED
      BY <1>1, <1>2, <3>1, Zenon DEF Inc
  <2>3. Below(s, t)
    <3> SUFFICES ASSUME NEW i \in 1 .. Len(s), NEW k \in 1 .. Len(t)
                 PROVE  s[i] < t[k]
      BY DEF Below
    <3>1. i < Len(s) + k
      BY <1>1
    <3> QED
      BY <1>1, <1>2, <3>1 DEF Inc
  <2> QED
    BY <2>1, <2>2, <2>3
<1>3. ASSUME Inc(s), Inc(t), Below(s, t) PROVE Inc(u)
  <2> SUFFICES ASSUME NEW i \in 1 .. Len(u), NEW k \in 1 .. Len(u), i < k
               PROVE  u[i] < u[k]
    BY DEF Inc
  <2>1. CASE k <= Len(s)
    <3>1. i \in 1 .. Len(s) /\ k \in 1 .. Len(s)
      BY <1>1, <2>1
    <3> QED
      BY <1>1, <1>3, <3>1 DEF Inc
  <2>2. CASE i <= Len(s) /\ k > Len(s)
    <3>1. i \in 1 .. Len(s)
      BY <1>1, <2>2
    <3> QED
      BY <1>1, <1>3, <2>2, <3>1, Zenon DEF Below
  <2>3. CASE i > Len(s)
    <3>1. k > Len(s) /\ i - Len(s) < k - Len(s)
      BY <1>1, <2>3
    <3> QED
      BY <1>1, <1>3, <2>3, <3>1, Zenon DEF Inc
  <2> QED
    BY <1>1, <2>1, <2>2, <2>3
<1> QED
  BY <1>2, <1>3 DEF u

(* Packets are numbered as they are received, and are passed on in order;  *)
(* between two calls none is left that lgw_receive parsed.                 *)
StreamInv ==
    /\ PacketInv
    /\ delivered \in Seq(Nat)
    /\ Inc(Stream \o <<received + 1>>)
    /\ rx_pc = "idle" => pkt_data = <<>>

(* The parts are sequences of ids.                                         *)
LEMMA PartsType ==
    ASSUME PacketInv, delivered \in Seq(Nat)
    PROVE  /\ Ids(pkt_data) \in Seq(Nat) /\ Ids(rx_buffer) \in Seq(Nat)
           /\ Ids(fifo) \in Seq(Nat) /\ Stream \in Seq(Nat)
<1>1. (\A q \in Packets : q.id \in Nat) /\ (\A q \in Parsed : q.id \in Nat)
  BY DEF Packets, Parsed
<1>2. /\ Ids(pkt_data) \in Seq(Nat) /\ Ids(rx_buffer) \in Seq(Nat)
      /\ Ids(fifo) \in Seq(Nat)
  BY <1>1, IdsType, Zenon DEF PacketInv
<1> QED
  BY <1>2 DEF Stream

(* Appending a packet appends its id, and passing on the first packet      *)
(* passes on its id.                                                       *)
LEMMA IdsAppend ==
    ASSUME NEW T, \A q \in T : q.id \in Nat, NEW s \in Seq(T), NEW q \in T
    PROVE  Ids(Append(s, q)) = Append(Ids(s), q.id)
<1> DEFINE a == Append(s, q)
           w == Ids(s)
           b == Append(w, q.id)
<1>1. /\ a \in Seq(T) /\ Len(a) = Len(s) + 1 /\ Len(s) \in Nat
      /\ \A i \in 1 .. Len(s) : a[i] = s[i]
      /\ a[Len(s) + 1] = q
  BY AppendProperties, LenProperties
<1>2. /\ w \in Seq(Nat) /\ Len(w) = Len(s)
      /\ \A i \in 1 .. Len(s) : w[i] = s[i].id
  BY IdsType
<1>3. q.id \in Nat
  OBVIOUS
<1> HIDE DEF a, w
<1>4. /\ Ids(a) \in Seq(Nat) /\ Len(Ids(a)) = Len(s) + 1
      /\ \A i \in 1 .. Len(s) + 1 : Ids(a)[i] = a[i].id
  BY <1>1, IdsType
<1>5. /\ b \in Seq(Nat) /\ Len(b) = Len(s) + 1
      /\ \A i \in 1 .. Len(s) : b[i] = w[i]
      /\ b[Len(s) + 1] = q.id
  <2> HIDE DEF b
  <2>1. b = Append(w, q.id)
    BY DEF b
  <2> QED
    BY <1>2, <1>3, <2>1, AppendProperties
<1> HIDE DEF b
<1>6. ASSUME NEW i \in 1 .. Len(s) + 1 PROVE Ids(a)[i] = b[i]
  <2>1. i = Len(s) + 1 \/ i \in 1 .. Len(s)
    BY <1>1
  <2> QED
    BY <1>1, <1>2, <1>4, <1>5, <2>1, Zenon
<1>7. Ids(a) = b
  BY <1>4, <1>5, <1>6, SeqEqual
<1> QED
  BY <1>7 DEF a, b, w

(* The identities of a buffer without its first packet.                    *)
LEMMA IdsTail ==
    ASSUME NEW T, \A q \in T : q.id \in Nat, NEW s \in Seq(T), s # <<>>
    PROVE  Ids(s) = <<Head(s).id>> \o Ids(Tail(s))
<1>1. /\ Ids(s) \in Seq(Nat) /\ Len(Ids(s)) = Len(s)
      /\ \A i \in 1 .. Len(s) : Ids(s)[i] = s[i].id
  BY IdsType
<1>2. /\ Tail(s) \in Seq(T) /\ Len(Tail(s)) = Len(s) - 1
      /\ \A i \in 1 .. Len(s) - 1 : Tail(s)[i] = s[i + 1]
      /\ Head(s) = s[1] /\ Head(s) \in T /\ Len(s) \in Nat \ {0}
  BY HeadTailProperties
<1>3. /\ Ids(Tail(s)) \in Seq(Nat) /\ Len(Ids(Tail(s))) = Len(s) - 1
      /\ \A i \in 1 .. Len(s) - 1 : Ids(Tail(s))[i] = Tail(s)[i].id
  BY <1>2, IdsType, Zenon
<1> DEFINE h == <<Head(s).id>>
           u == h \o Ids(Tail(s))
<1>4. /\ u \in Seq(Nat) /\ Len(u) = Len(s)
      /\ \A i \in 1 .. Len(s) : u[i] = s[i].id
  <2>1. h \in Seq(Nat) /\ Len(h) = 1 /\ h[1] = s[1].id
    BY <1>2
  <2> HIDE DEF h
  <2>2. /\ u \in Seq(Nat) /\ Len(u) = Len(s)
        /\ \A i \in 1 .. Len(s) : u[i] = IF i <= 1 THEN h[i] ELSE Ids(Tail(s))[i - 1]
    <3> DEFINE v == Ids(Tail(s))
    <3>1. v \in Seq(Nat) /\ Len(v) = Len(s) - 1
      BY <1>3
    <3> HIDE DEF v
    <3>2. /\ h \o v \in Seq(Nat) /\ Len(h \o v) = Len(h) + Len(v)
          /\ \A i \in 1 .. Len(h) + Len(v) :
               (h \o v)[i] = IF i <= Len(h) THEN h[i] ELSE v[i - Len(h)]
      BY <2>1, <3>1, ConcatProperties, Zenon
    <3>3. Len(h) + Len(v) = Len(s)
      BY <1>2, <2>1, <3>1
    <3>4. u = h \o v
      BY DEF v
    <3> HIDE DEF u
    <3> QED
      BY <2>1, <3>2, <3>3, <3>4 DEF v
  <2> HIDE DEF u
  <2>3. ASSUME NEW i \in 1 .. Len(s) PROVE u[i] = s[i].id
    <3>1. CASE i = 1
      BY <2>1, <2>2, <3>1
    <3>2. CASE i # 1
      <4>1. i - 1 \in 1 .. Len(s) - 1 /\ (i - 1) + 1 = i /\ ~(i <= 1)
        BY <1>2, <3>2
      <4>2. Ids(Tail(s))[i - 1] = Tail(s)[i - 1].id /\ Tail(s)[i - 1] = s[i]
        BY <1>2, <1>3, <4>1
      <4> QED
        BY <2>2, <4>1, <4>2
    <3> QED
      BY <3>1, <3>2
  <2> QED
    BY <2>2, <2>3
<1> HIDE DEF u
<1>5. Ids(s) = u
  BY <1>1, <1>4, SeqEqual
<1> QED
  BY <1>5 DEF u

(* A step that keeps the stream keeps the invariant.                       *)
LEMMA SameStream ==
    ASSUME StreamInv, PacketInv', Stream' = Stream, received' = received,
           delivered' \in Seq(Nat), rx_pc' = "idle" => pkt_data' = <<>>
    PROVE  StreamInv' /\ LosesWithBadOnly
BY DEF StreamInv, LosesWithBadOnly

(* Concatenation of ids is associative.                                    *)
LEMMA IdsAssociative ==
    ASSUME NEW a \in Seq(Nat), NEW b \in Seq(Nat), NEW c \in Seq(Nat)
    PROVE  (a \o b) \o c = a \o (b \o c)
BY ConcatAssociative, SMTT(30)

(* The first part of the third sequence, moved to the second.              *)
Regrouped(a, b, h, c, d) == a \o b \o (h \o c) \o d = a \o (b \o h) \o c \o d

(* That leaves the whole as it was.                                        *)
LEMMA Regroup ==
    ASSUME NEW a \in Seq(Nat), NEW b \in Seq(Nat), NEW h \in Seq(Nat),
           NEW c \in Seq(Nat), NEW d \in Seq(Nat)
    PROVE  Regrouped(a, b, h, c, d)
<1>1. a \o b \in Seq(Nat)
  BY ConcatProperties
<1>2. (a \o b) \o (h \o c) = ((a \o b) \o h) \o c
  BY <1>1, IdsAssociative, ZenonT(30)
<1>3. (a \o b) \o h = a \o (b \o h)
  BY IdsAssociative, SMTT(30)
<1> QED
  BY <1>2, <1>3, Zenon DEF Regrouped

(* A concatenation is below what both its parts are below.                 *)
LEMMA BelowConcat ==
    ASSUME NEW a \in Seq(Nat), NEW b \in Seq(Nat), NEW c \in Seq(Nat)
    PROVE  Below(a \o b, c) <=> Below(a, c) /\ Below(b, c)
<1> DEFINE u == a \o b
<1>1. /\ Len(a) \in Nat /\ Len(b) \in Nat /\ Len(u) = Len(a) + Len(b)
      /\ \A i \in 1 .. Len(u) : u[i] = IF i <= Len(a) THEN a[i] ELSE b[i - Len(a)]
  BY ConcatProperties
<1> HIDE DEF u
<1>2. \A i \in 1 .. Len(a) : i \in 1 .. Len(u) /\ u[i] = a[i]
  BY <1>1, SMTT(30)
<1>3. \A i \in 1 .. Len(b) : i + Len(a) \in 1 .. Len(u) /\ u[i + Len(a)] = b[i]
  BY <1>1, SMTT(30)
<1>4. \A i \in 1 .. Len(u) : i \notin 1 .. Len(a) =>
        i - Len(a) \in 1 .. Len(b) /\ u[i] = b[i - Len(a)]
  <2>1. ASSUME NEW i \in 1 .. Len(u), i \notin 1 .. Len(a)
        PROVE  i - Len(a) \in 1 .. Len(b) /\ u[i] = b[i - Len(a)]
    <3>1. ~(i <= Len(a)) /\ i - Len(a) \in 1 .. Len(b)
      BY <1>1, <2>1
    <3> QED
      BY <1>1, <3>1
  <2> QED
    BY <2>1
<1>5. Below(u, c) => Below(a, c) /\ Below(b, c)
  BY <1>2, <1>3, Zenon DEF Below
<1>6. Below(a, c) /\ Below(b, c) => Below(u, c)
  BY <1>2, <1>4, Zenon DEF Below
<1> QED
  BY <1>5, <1>6 DEF u

(* What is left when the middle of an increasing sequence is lost.         *)
LEMMA IncDrop ==
    ASSUME NEW a \in Seq(Nat), NEW b \in Seq(Nat), NEW c \in Seq(Nat),
           Inc(a \o b \o c)
    PROVE  Inc(a \o c)
<1>1. a \o b \in Seq(Nat)
  BY ConcatProperties
<1>2. Inc(a \o b) /\ Inc(c) /\ Below(a \o b, c)
  BY <1>1, IncConcat, Zenon
<1>3. Inc(a)
  BY <1>2, IncConcat
<1>4. Below(a, c)
  <2>1. \A i \in 1 .. Len(a) : i \in 1 .. Len(a \o b) /\ (a \o b)[i] = a[i]
    BY ConcatProperties
  <2> QED
    BY <1>2, <2>1 DEF Below
<1> QED
  BY <1>2, <1>3, <1>4, IncConcat

(* The same, of four parts and the number of the next packet.              *)
LEMMA IncLoss ==
    ASSUME NEW d \in Seq(Nat), NEW p \in Seq(Nat), NEW r \in Seq(Nat),
           NEW f \in Seq(Nat), NEW n \in Seq(Nat), Inc(d \o p \o r \o f \o n)
    PROVE  Inc((d \o f) \o n) /\ Inc(d \o f)
<1>1. d \o p \in Seq(Nat) /\ d \o p \o r \in Seq(Nat) /\ d \o p \o r \o f \in Seq(Nat)
  BY ConcatProperties
<1>2. /\ Inc(d \o p \o r \o f) /\ Inc(n) /\ Below(d \o p \o r \o f, n)
  BY <1>1, IncConcat, Zenon
<1>3. Inc(d \o p \o r) /\ Inc(f) /\ Below(d \o p \o r, f)
  BY <1>1, <1>2, IncConcat, Zenon
<1>4. Inc(d \o p) /\ Inc(d)
  BY <1>1, <1>3, IncConcat, Zenon
<1>5. Below(d, f)
  BY <1>1, <1>3, BelowConcat, Zenon
<1>6. Below(d, n) /\ Below(f, n)
  <2>1. Below(d \o p \o r, n) /\ Below(f, n)
    BY <1>1, <1>2, BelowConcat, Zenon
  <2>2. Below(d \o p, n)
    BY <1>1, <2>1, BelowConcat, ZenonT(30)
  <2> QED
    BY <2>1, <2>2, BelowConcat
<1>7. d \o f \in Seq(Nat) /\ Inc(d \o f)
  BY <1>3, <1>4, <1>5, IncConcat, ConcatProperties
<1>8. Below(d \o f, n)
  BY <1>6, BelowConcat
<1> QED
  BY <1>2, <1>7, <1>8, IncConcat, Zenon

(* A packet that arrives comes last.                                       *)
LEMMA AppendLast ==
    ASSUME NEW a \in Seq(Nat), NEW f \in Seq(Nat), NEW x \in Nat
    PROVE  /\ a \o Append(f, x) = Append(a \o f, x)
           /\ Append(a, x) = a \o <<x>>
<1>1. Append(a, x) = a \o <<x>>
  BY AppendIsConcat
<1>2. a \o Append(f, x) = Append(a \o f, x)
  OBVIOUS
<1> QED
  BY <1>1, <1>2

(* The number of the next packet exceeds those of all others.              *)
LEMMA NextNumber ==
    ASSUME NEW s \in Seq(Nat), NEW r \in Nat, Inc(s \o <<r + 1>>)
    PROVE  Inc((s \o <<r + 1>>) \o <<(r + 1) + 1>>)
<1>1. /\ <<r + 1>> \in Seq(Nat) /\ <<(r + 1) + 1>> \in Seq(Nat)
      /\ s \o <<r + 1>> \in Seq(Nat)
  OBVIOUS
<1>2. Below(s, <<r + 1>>)
  BY <1>1, IncConcat, Zenon
<1>3. Below(s \o <<r + 1>>, <<(r + 1) + 1>>)
  <2>1. /\ Len(s) \in Nat /\ Len(s \o <<r + 1>>) = Len(s) + 1
        /\ \A i \in 1 .. Len(s) : (s \o <<r + 1>>)[i] = s[i] /\ s[i] \in Nat
        /\ (s \o <<r + 1>>)[Len(s) + 1] = r + 1
    OBVIOUS
  <2>2. \A i \in 1 .. Len(s) : s[i] < r + 1
    BY <1>2 DEF Below
  <2>3. \A i \in 1 .. Len(s) + 1 : (s \o <<r + 1>>)[i] < (r + 1) + 1
    BY <2>1, <2>2
  <2> QED
    BY <2>1, <2>3 DEF Below
<1>4. Inc(<<(r + 1) + 1>>)
  BY DEF Inc
<1> QED
  BY <1>1, <1>3, <1>4, IncConcat, Zenon

(* What is left of increasing ids if the first ones of a part are dropped. *)
LEMMA IncSuffix ==
    ASSUME NEW d \in Seq(Nat), NEW f \in Seq(Nat), NEW r \in Nat,
           NEW k \in 1 .. Len(f) + 1, Inc((d \o f) \o <<r>>)
    PROVE  LET s == SubSeq(f, k, Len(f))
           IN  Inc((d \o s) \o <<r>>) /\ Inc(d \o s)
<1> DEFINE a == SubSeq(f, 1, k - 1)
           s == SubSeq(f, k, Len(f))
           l == <<r>>
<1>1. a \in Seq(Nat) /\ s \in Seq(Nat) /\ l \in Seq(Nat)
  <2>1. /\ Len(f) \in Nat /\ k - 1 \in Int /\ k \in Int /\ Len(f) \in Int
        /\ \A i \in 1 .. k - 1 : f[i] \in Nat
        /\ \A i \in k .. Len(f) : f[i] \in Nat
    OBVIOUS
  <2> QED
    BY <2>1, SubSeqProperties
<1>2. f = a \o s
  <2>1. /\ 1 \in 1 .. Len(f) + 1 /\ k - 1 \in 1 - 1 .. Len(f)
        /\ Len(f) \in k - 1 .. Len(f) /\ (k - 1) + 1 = k
    OBVIOUS
  <2>2. SubSeq(f, 1, Len(f)) = f
    BY SubSeqFull
  <2>3. SubSeq(f, 1, k - 1) \o SubSeq(f, (k - 1) + 1, Len(f)) = SubSeq(f, 1, Len(f))
    BY <2>1, ConcatAdjacentSubSeq, Zenon
  <2> QED
    BY <2>1, <2>2, <2>3, Zenon
<1> HIDE DEF a, s, l
<1>3. (d \o (a \o s)) \o l = (d \o a) \o (s \o l)
  <2>1. (d \o a) \o s = d \o (a \o s)
    BY <1>1, IdsAssociative, Zenon
  <2>2. d \o a \in Seq(Nat)
    BY <1>1, ConcatProperties
  <2>3. ((d \o a) \o s) \o l = (d \o a) \o (s \o l)
    BY <1>1, <2>2, IdsAssociative, Zenon
  <2> QED
    BY <2>1, <2>3, Zenon
<1>4. s \o l \in Seq(Nat) /\ d \o s \in Seq(Nat)
  BY <1>1, ConcatProperties
<1>5. Inc(d \o (s \o l))
  <2>1. Inc((d \o a) \o (s \o l))
    BY <1>2, <1>3, Zenon DEF l
  <2> QED
    BY <1>1, <1>4, <2>1, IncDrop, Zenon
<1>6. d \o (s \o l) = (d \o s) \o l
  BY <1>1, IdsAssociative, Zenon
<1>7. Inc((d \o s) \o l)
  BY <1>5, <1>6
<1>8. Inc(d \o s)
  BY <1>1, <1>4, <1>7, IncConcat, Zenon
<1> QED
  BY <1>7, <1>8 DEF s, l

(* The ids in the FIFO.                                                    *)
LEMMA FifoIds ==
    ASSUME PacketInv
    PROVE  /\ fifo \in Seq(Packets) /\ Len(fifo) \in Nat
           /\ Ids(fifo) \in Seq(Nat) /\ Len(Ids(fifo)) = Len(fifo)
           /\ \A i \in 1 .. Len(fifo) : Ids(fifo)[i] = fifo[i].id
<1>1. fifo \in Seq(Packets) /\ \A q \in Packets : q.id \in Nat
  BY DEF PacketInv, Packets
<1> QED
  BY <1>1, IdsType

(* rx_buffer_fetch keeps all packets, or if one is bad the last ones.      *)
LEMMA FetchedIds ==
    ASSUME PacketInv, NEW s \in Fetched
    PROVE  \/ Ids(s) = Ids(fifo)
           \/ \E k \in 1 .. Len(fifo) + 1 :
                 /\ Ids(s) = SubSeq(Ids(fifo), k, Len(Ids(fifo)))
                 /\ \E i \in 1 .. Len(fifo) : fifo[i].status = "bad"
<1> DEFINE n == Len(fifo)
           w == Ids(fifo)
<1>0. /\ fifo \in Seq(Packets) /\ n \in Nat /\ w \in Seq(Nat) /\ Len(w) = n
      /\ \A i \in 1 .. n : w[i] = fifo[i].id
  BY FifoIds
<1>1. ASSUME NEW k \in 1 .. n + 1 PROVE Ids(SubSeq(fifo, k, n)) = SubSeq(w, k, n)
  <2> DEFINE t == SubSeq(fifo, k, n)
             u == SubSeq(w, k, n)
             m == IF k <= n THEN n - k + 1 ELSE 0
  <2>1. /\ t \in Seq(Packets) /\ Len(t) = m
        /\ \A i \in 1 .. n - k + 1 : t[i] = fifo[k + i - 1]
    <3>1. k \in Int /\ n \in Int /\ \A i \in k .. n : fifo[i] \in Packets
      BY <1>0
    <3> QED
      BY <3>1, SubSeqProperties
  <2>2. /\ u \in Seq(Nat) /\ Len(u) = m
        /\ \A i \in 1 .. n - k + 1 : u[i] = w[k + i - 1]
    <3>1. k \in Int /\ n \in Int /\ \A i \in k .. n : w[i] \in Nat
      BY <1>0
    <3> QED
      BY <3>1, SubSeqProperties
  <2>3. /\ Ids(t) \in Seq(Nat) /\ Len(Ids(t)) = m
        /\ \A i \in 1 .. m : Ids(t)[i] = t[i].id
    <3>1. \A q \in Packets : q.id \in Nat
      BY DEF Packets
    <3> QED
      BY <2>1, <3>1, IdsType, Zenon
  <2> HIDE DEF t, u, w
  <2>4. m \in Nat /\ \A i \in 1 .. m : i \in 1 .. n - k + 1 /\ k + i - 1 \in 1 .. n
    BY <1>0
  <2>5. \A i \in 1 .. m : Ids(t)[i] = u[i]
    BY <1>0, <2>1, <2>2, <2>3, <2>4, Zenon
  <2>6. Ids(t) = u
    BY <2>2, <2>3, <2>4, <2>5, SeqEqual
  <2> QED
    BY <2>6 DEF t, u
<1>2. CASE s = <<>> /\ \E i \in 1 .. n : fifo[i].status = "bad"
  <2>1. n + 1 \in 1 .. n + 1 /\ SubSeq(fifo, n + 1, n) = <<>>
    BY <1>0, SubSeqEmpty
  <2> QED
    BY <1>0, <1>1, <1>2, <2>1, Zenon
<1>3. ASSUME NEW k \in 1 .. n + 1, s = SubSeq(fifo, k, n),
             \A i \in 1 .. k - 1 : fifo[i].status = "bad"
      PROVE  \/ Ids(s) = w
             \/ /\ Ids(s) = SubSeq(w, k, Len(w))
                /\ \E i \in 1 .. n : fifo[i].status = "bad"
  <2>1. CASE k = 1
    <3>1. SubSeq(fifo, 1, Len(fifo)) = fifo
      BY <1>0, SubSeqFull
    <3> QED
      BY <1>3, <2>1, <3>1, Zenon
  <2>2. CASE k # 1
    <3>1. 1 \in 1 .. k - 1 /\ 1 \in 1 .. n
      BY <1>0, <2>2
    <3> QED
      BY <1>0, <1>1, <1>3, <3>1, Zenon
  <2> QED
    BY <2>1, <2>2
<1> QED
  BY <1>2, <1>3 DEF Fetched

(* Every step of lgw_receive, of the radio and of the other readers of the *)
(* counter preserves StreamInv.                                            *)
LEMMA NextStream ==
    ASSUME StreamInv, [Next]_vars
    PROVE  StreamInv' /\ (LosesWithBadOnly \/ UNCHANGED vars)
<1> DEFINE D == delivered
           P == Ids(pkt_data)
           R == Ids(rx_buffer)
           F == Ids(fifo)
<1>0. PacketInv /\ PacketInv' /\ received \in Nat /\ delivered \in Seq(Nat)
  BY NextPacketInv DEF StreamInv, PacketInv
<1>t. D \in Seq(Nat) /\ P \in Seq(Nat) /\ R \in Seq(Nat) /\ F \in Seq(Nat)
  BY <1>0, PartsType
<1>s. Stream = D \o P \o R \o F /\ Stream' = D' \o P' \o R' \o F'
  BY DEF Stream
<1>e. Ids(<<>>) = <<>>
  BY DEF Ids
<1>1. CASE Tick \/ Pulse \/ lgw_get_cnt \/ sx1302_update \/ UNCHANGED vars
  <2>1. UNCHANGED <<received, delivered, pkt_data, rx_buffer, fifo>>
    BY <1>1 DEF Tick, Pulse, lgw_get_cnt, sx1302_update, vars, airVars, rxVars
  <2>2. rx_pc' = "idle" => pkt_data' = <<>>
    BY <1>0, <1>1, <2>1 DEF StreamInv, PacketInv, Tick, Pulse, lgw_get_cnt,
                            sx1302_update, vars, rxVars
  <2>3. Stream' = Stream
    BY <2>1 DEF Stream, Ids
  <2> QED
    BY <1>0, <2>1, <2>2, <2>3, SameStream
<1>2. CASE Arrive
  <2>1. PICK p \in Packets : fifo' = Append(fifo, p) /\ p.id = received + 1
    <3>1. PICK status \in {"ok", "bad", "fatal"} :
            fifo' = Append(fifo, [id |-> received + 1, t |-> now, status |-> status])
      BY <1>2 DEF Arrive
    <3>2. [id |-> received + 1, t |-> now, status |-> status] \in Packets
      BY <1>0 DEF Packets, PacketInv, CounterInv
    <3> QED
      BY <3>1, <3>2
  <2>2. received' = received + 1 /\ UNCHANGED <<delivered, pkt_data, rx_buffer, rx_pc>>
    BY <1>2 DEF Arrive, rxVars
  <2>3. F' = Append(F, received + 1)
    <3>1. \A q \in Packets : q.id \in Nat
      BY DEF Packets
    <3> QED
      BY <1>0, <2>1, <3>1, IdsAppend, Zenon DEF PacketInv
  <2>4. D' = D /\ P' = P /\ R' = R
    BY <2>2 DEF Ids
  <2> HIDE DEF D, P, R, F
  <2>5. D \o P \o R \in Seq(Nat)
    BY <1>t, ConcatProperties
  <2>6. Stream' = Append(Stream, received + 1)
    <3>1. received + 1 \in Nat
      BY <1>0
    <3>2. (D \o P \o R) \o Append(F, received + 1)
            = Append((D \o P \o R) \o F, received + 1)
      BY <1>t, <2>5, <3>1, AppendLast, SMTT(30)
    <3> QED
      BY <1>s, <2>3, <2>4, <3>2, Zenon
  <2>7. Stream \in Seq(Nat)
    BY <1>0, PartsType
  <2>8. Stream' = Stream \o <<received + 1>>
    BY <1>0, <2>6, <2>7, AppendLast
  <2>9. Inc(Stream' \o <<received' + 1>>)
    BY <1>0, <2>2, <2>7, <2>8, NextNumber DEF StreamInv
  <2> QED
    BY <1>0, <2>2, <2>6, <2>9 DEF StreamInv, LosesWithBadOnly
<1>3. CASE sx1302_fetch
  <2>1. /\ D' = D /\ P = <<>> /\ P' = <<>> /\ rx_pc' # "idle"
        /\ received' = received /\ delivered' \in Seq(Nat)
    BY <1>0, <1>3, <1>e DEF sx1302_fetch, StreamInv, Ids
  <2>2. CASE rx_buffer # <<>>
    <3>1. R' = R /\ F' = F
      BY <1>3, <2>2 DEF sx1302_fetch, Ids
    <3>2. Stream' = Stream
      BY <1>s, <2>1, <3>1, Zenon
    <3> QED
      BY <1>0, <2>1, <3>2, SameStream
  <2>3. CASE rx_buffer = <<>>
    <3>1. R = <<>> /\ F' = <<>> /\ rx_buffer' \in Fetched
      BY <1>3, <1>e, <2>3 DEF sx1302_fetch, Ids
    <3>2. CASE R' = F
      <4> HIDE DEF D, P, R, F
      <4>1. Stream' = Stream
        <5>1. D \o <<>> = D /\ (D \o F) \o <<>> = D \o F
          BY <1>t, ConcatEmptySeq, ConcatProperties
        <5> QED
          BY <1>s, <2>1, <3>1, <3>2, <5>1, Zenon
      <4> QED
        BY <1>0, <2>1, <4>1, SameStream
    <3>3. R' \in Seq(Nat)
      <4>1. (\A q \in Packets : q.id \in Nat) /\ rx_buffer' \in Seq(Packets)
        BY <1>0 DEF PacketInv, Packets
      <4> QED
        BY <4>1, IdsType
    <3>4. ASSUME NEW k \in 1 .. Len(fifo) + 1, R' = SubSeq(F, k, Len(F)),
                 \E i \in 1 .. Len(fifo) : fifo[i].status = "bad"
          PROVE  StreamInv' /\ LosesWithBadOnly
      <4>1. k \in 1 .. Len(F) + 1
        BY <1>0, <3>4, FifoIds
      <4> HIDE DEF D, P, R, F
      <4>2. Stream = D \o F /\ Stream' = D \o R'
        <5>1. D \o <<>> = D /\ (D \o R') \o <<>> = D \o R'
          BY <1>t, <3>3, ConcatEmptySeq, ConcatProperties
        <5> QED
          BY <1>s, <2>1, <3>1, <5>1, Zenon
      <4>3. Inc((D \o F) \o <<received + 1>>)
        BY <4>2 DEF StreamInv
      <4>4. Inc((D \o R') \o <<received + 1>>) /\ Inc(D \o R')
        <5>1. received + 1 \in Nat
          BY <1>0
        <5> QED
          BY <1>t, <3>4, <4>1, <4>3, <5>1, IncSuffix, Zenon
      <4> QED
        BY <1>0, <2>1, <2>3, <3>4, <4>2, <4>4, Zenon DEF StreamInv, LosesWithBadOnly, Inc
    <3>5. R' = F \/ \E k \in 1 .. Len(fifo) + 1 :
                      /\ R' = SubSeq(F, k, Len(F))
                      /\ \E i \in 1 .. Len(fifo) : fifo[i].status = "bad"
      BY <1>0, <1>e, <3>1, FetchedIds, Zenon
    <3> QED
      BY <3>2, <3>4, <3>5
  <2> QED
    BY <2>2, <2>3
<1>4. CASE sx1302_parse
  <2>0. /\ D' = D /\ F' = F /\ received' = received /\ delivered' \in Seq(Nat)
        /\ rx_pc = "parse"
    BY <1>0, <1>4 DEF sx1302_parse, airVars, Ids
  <2>1. rx_buffer # <<>> /\ Head(rx_buffer) \in Packets /\ rx_buffer \in Seq(Packets)
    BY <1>0, <1>4 DEF sx1302_parse, PacketInv
  <2>2. CASE Head(rx_buffer).status = "ok" /\ rx_buffer' = Tail(rx_buffer)
    <3>1. PICK x \in Nat : x = Head(rx_buffer).id
      BY <2>1 DEF Packets
    <3>2. R = <<x>> \o R'
      <4>1. \A q \in Packets : q.id \in Nat
        BY DEF Packets
      <4> QED
        BY <2>1, <2>2, <3>1, <4>1, IdsTail, Zenon
    <3>3. P' = Append(P, x) /\ rx_pc' = "parse"
      <4>1. \A q \in Parsed : q.id \in Nat
        BY DEF Parsed
      <4>2. PICK q : /\ pkt_data' = Append(pkt_data, q) /\ q.id = x
        BY <1>4, <2>2, <3>1 DEF sx1302_parse
      <4>3. q \in Parsed
        <5>1. pkt_data \in Seq(Parsed) /\ pkt_data' \in Seq(Parsed)
          BY <1>0 DEF PacketInv
        <5>2. Len(pkt_data) + 1 \in 1 .. Len(pkt_data') /\ pkt_data'[Len(pkt_data) + 1] = q
          BY <4>2, <5>1
        <5> QED
          BY <5>1, <5>2
      <4>4. P' = Append(P, x)
        BY <1>0, <4>1, <4>2, <4>3, IdsAppend, Zenon DEF PacketInv
      <4> QED
        BY <1>4, <2>0, <2>2, <4>4 DEF sx1302_parse
    <3>4. PICK h \in Seq(Nat) : h = <<x>>
      <4>1. <<x>> \in Seq(Nat)
        OBVIOUS
      <4> QED
        BY <4>1, Zenon
    <3>5. R' \in Seq(Nat)
      <4>1. (\A q \in Packets : q.id \in Nat) /\ rx_buffer' \in Seq(Packets)
        BY <1>0 DEF PacketInv, Packets
      <4> QED
        BY <4>1, IdsType
    <3>6. P' = P \o h
      BY <1>t, <3>3, <3>4, AppendLast
    <3> HIDE DEF D, P, R, F
    <3>7. Regrouped(D, P, h, R', F)
      BY <1>t, <3>5, Regroup
    <3>8. Stream' = Stream
      BY <1>s, <2>0, <3>2, <3>4, <3>6, <3>7, Zenon DEF Regrouped
    <3> QED
      BY <1>0, <2>0, <3>3, <3>8, SameStream
  <2>3. CASE /\ Head(rx_buffer).status = "bad"
             /\ rx_buffer' = <<>> /\ pkt_data' = <<>>
    <3>1. P' = <<>> /\ R' = <<>>
      BY <1>e, <2>3 DEF Ids
    <3>2. \E i \in 1 .. Len(rx_buffer) : rx_buffer[i].status = "bad"
      BY <2>1, <2>3
    <3>3. PICK n \in Seq(Nat) : n = <<received + 1>>
      <4>1. <<received + 1>> \in Seq(Nat)
        BY <1>0
      <4> QED
        BY <4>1, Zenon
    <3> HIDE DEF D, P, R, F
    <3>4. Stream' = D \o F
      <4>1. D \o <<>> = D
        BY <1>t, ConcatEmptySeq
      <4> QED
        BY <1>s, <2>0, <3>1, <4>1, Zenon
    <3>5. Inc(D \o P \o R \o F \o n)
      BY <1>s, <3>3, Zenon DEF StreamInv
    <3>6. PICK d \in Seq(Nat), p \in Seq(Nat), r \in Seq(Nat), f \in Seq(Nat) :
            d = D /\ p = P /\ r = R /\ f = F
      BY <1>t
    <3>8. Inc((D \o F) \o n) /\ Inc(D \o F)
      <4>1. Inc(d \o p \o r \o f \o n)
        BY <3>5, <3>6, Zenon
      <4>2. Inc((d \o f) \o n) /\ Inc(d \o f)
        BY <4>1, IncLoss
      <4> QED
        BY <3>6, <4>2, Zenon
    <3>7. Inc(Stream' \o <<received' + 1>>) /\ Inc(Stream')
      BY <2>0, <3>3, <3>4, <3>8, Zenon
    <3> QED
      BY <1>0, <2>0, <2>3, <3>2, <3>7, Zenon DEF StreamInv, LosesWithBadOnly, Inc
  <2>4. CASE rx_pc' = "exit" /\ UNCHANGED <<rx_buffer, pkt_data>>
    <3>1. P' = P /\ R' = R
      BY <2>4 DEF Ids
    <3>2. Stream' = Stream
      BY <1>s, <2>0, <3>1, Zenon
    <3> QED
      BY <1>0, <2>0, <2>4, <3>2, SameStream
  <2> QED
    BY <1>4, <2>2, <2>3, <2>4 DEF sx1302_parse
<1>5. CASE lgw_receive_return
  <2>1. /\ D' = D \o P /\ P' = <<>> /\ R' = R /\ F' = F
        /\ received' = received /\ pkt_data' = <<>>
    BY <1>5, <1>e DEF lgw_receive_return, airVars, Ids
  <2> HIDE DEF D, P, R, F
  <2>2. D \o P \in Seq(Nat) /\ (D \o P) \o <<>> = D \o P
    BY <1>t, ConcatProperties, ConcatEmptySeq
  <2>3. Stream' = Stream
    BY <1>s, <2>1, <2>2
  <2>4. delivered' \in Seq(Nat)
    BY <2>1, <2>2 DEF D
  <2> QED
    BY <1>0, <2>1, <2>3, <2>4, SameStream
<1> QED
  BY <1>1, <1>2, <1>3, <1>4, <1>5 DEF Next, lgw_receive

(* Each packet reaches thread_up once and in the order of reception, and   *)
(* is lost only along with a bad packet fetched with it: the return of     *)
(* sx1302_parse with an error, which drops rx_buffer and the packets       *)
(* parsed so far, and the loss of the sync word in rx_buffer_fetch are the *)
(* only steps that lose any.                                               *)
THEOREM PacketsLostWithBad == Spec => LostWithBad
<1>1. Init => StreamInv
  <2> SUFFICES ASSUME Init PROVE StreamInv
    OBVIOUS
  <2>1. PacketInv
    BY InitPacketInv
  <2>2. delivered = <<>> /\ pkt_data = <<>> /\ rx_buffer = <<>> /\ fifo = <<>> /\ received = 0
    BY DEF Init
  <2>3. Ids(<<>>) = <<>>
    BY DEF Ids
  <2>4. Stream \o <<received + 1>> = <<1>>
    <3>1. Stream = <<>> \o <<>> \o <<>> \o <<>>
      BY <2>2, <2>3, Zenon DEF Stream
    <3>2. <<>> \o <<>> \o <<>> \o <<>> \o <<1>> = <<1>>
      OBVIOUS
    <3>3. received + 1 = 1
      BY <2>2
    <3> QED
      BY <3>1, <3>2, <3>3, Zenon
  <2> QED
    BY <2>1, <2>2, <2>4 DEF StreamInv, Inc
<1>2. StreamInv /\ [Next]_vars => StreamInv' /\ [LosesWithBadOnly]_vars
  BY NextStream
<1> QED
  BY <1>1, <1>2, PTL DEF Spec, LostWithBad

-----------------------------------------------------------------------------
(* merge_packets.                                                          *)

(* Naturals have a least one.                                              *)
LEMMA LeastNatural ==
    ASSUME NEW T \in SUBSET Nat, T # {}
    PROVE  \E x \in T : \A y \in T : x <= y
<1> DEFINE R == OpToRel(<, Nat)
<1>1. IsWellFoundedOn(R, Nat)
  BY NatLessThanWellFounded, Zenon
<1>2. PICK x \in T : \A y \in T : ~ (<<y, x>> \in R)
  <2> HIDE DEF R
  <2> QED
    BY <1>1, WFMin, Zenon
<1>3. \A y \in T : ~ (y < x)
  BY <1>2, Zenon DEF OpToRel
<1> QED
  BY <1>3

(* The remainder of a number in -CounterMod .. CounterMod - 1.             *)
LEMMA ModRange ==
    ASSUME NEW x \in Int
    PROVE  /\ 0 <= x /\ x < CounterMod => x % CounterMod = x
           /\ -CounterMod <= x /\ x < 0 => x % CounterMod = x + CounterMod
BY MergeAssumption DEF Merge!MergeConstants

(* is_same_pkt is symmetric, in spite of abs and of the wrapping           *)
(* difference.                                                             *)
LEMMA SameSymmetric ==
    ASSUME NEW q \in Merge!Packets, NEW r \in Merge!Packets, Merge!is_same_pkt(q, r)
    PROVE  Merge!is_same_pkt(r, q)
<1> DEFINE a == q.count_us
           b == r.count_us
           M == CounterMod
<1>1. a \in 0 .. M - 1 /\ b \in 0 .. M - 1 /\ M \in Nat /\ M > 1
  BY MergeAssumption, Zenon DEF Merge!MergeConstants, Merge!Packets
<1> HIDE DEF a, b
<1>2. \/ a = b /\ (a - b) % M = 0 /\ (b - a) % M = 0
      \/ a > b /\ (a - b) % M = a - b /\ (b - a) % M = (b - a) + M
      \/ a < b /\ (a - b) % M = (a - b) + M /\ (b - a) % M = b - a
  BY <1>1, ModRange
<1>3. \/ Merge!Diff(b, a) = -Merge!Diff(a, b)
      \/ 2 * Merge!Diff(b, a) = -M /\ 2 * Merge!Diff(a, b) = -M
  BY <1>1, <1>2 DEF Merge!Diff
<1>4. /\ Merge!Diff(a, b) \in Int /\ Merge!Diff(b, a) \in Int
      /\ 2 * Merge!Diff(b, a) < M
  BY <1>1, <1>2 DEF Merge!Diff
<1>5. /\ Merge!Diff(a, b) \in -Tolerance .. Tolerance \/ 2 * Merge!Diff(a, b) = -M
      /\ q.same = r.same
  BY Zenon DEF Merge!is_same_pkt, a, b
<1>6. Merge!Diff(b, a) \in -Tolerance .. Tolerance \/ 2 * Merge!Diff(b, a) = -M
  <2>1. PICK x \in Int, y \in Int : x = Merge!Diff(a, b) /\ y = Merge!Diff(b, a)
    BY <1>4
  <2>2. /\ y = -x \/ (2 * y = -M /\ 2 * x = -M)
        /\ x \in -Tolerance .. Tolerance \/ 2 * x = -M
        /\ 2 * y < M
    BY <1>3, <1>4, <1>5, <2>1, Zenon
  <2>3. Tolerance \in Nat /\ M \in Nat
    BY MergeAssumption DEF Merge!MergeConstants
  <2>4. y \in -Tolerance .. Tolerance \/ 2 * y = -M
    BY <2>2, <2>3, SMTT(30)
  <2> QED
    BY <2>1, <2>4, Zenon
<1> QED
  BY <1>5, <1>6 DEF Merge!is_same_pkt, a, b

(* remove_pkt: all but the one removed are left.                           *)
LEMMA RemoveKeepsOthers ==
    ASSUME NEW T, NEW s \in Seq(T), NEW i \in 1 .. Len(s)
    PROVE  /\ Merge!remove_pkt(s, i) \in Seq(T)
           /\ Len(Merge!remove_pkt(s, i)) = Len(s) - 1
           /\ \A a \in 1 .. Len(s) - 1 :
                \E b \in 1 .. Len(s) : Merge!remove_pkt(s, i)[a] = s[b]
           /\ \A b \in 1 .. Len(s) : b # i =>
                \E a \in 1 .. Len(s) - 1 : Merge!remove_pkt(s, i)[a] = s[b]
<1> DEFINE e == [s EXCEPT ![i] = s[Len(s)]]
           w == SubSeq(e, 1, Len(s) - 1)
<1>0. Len(s) \in Nat
  OBVIOUS
<1>1. /\ Len(s) \in Nat \ {0} /\ \A b \in 1 .. Len(s) : s[b] \in T
      /\ DOMAIN s = 1 .. Len(s)
  OBVIOUS
<1>2. /\ e \in Seq(T) /\ Len(e) = Len(s)
      /\ \A b \in 1 .. Len(s) : (b = i => e[b] = s[Len(s)]) /\ (b # i => e[b] = s[b])
  BY <1>1
<1> HIDE DEF e
<1>3. /\ w \in Seq(T) /\ Len(w) = Len(s) - 1
      /\ \A a \in 1 .. Len(s) - 1 : w[a] = e[a]
  BY <1>1, <1>2
<1> HIDE DEF w
<1>4. \A a \in 1 .. Len(s) - 1 : \E b \in 1 .. Len(s) : w[a] = s[b]
  BY <1>1, <1>2, <1>3, SMTT(30)
<1>5. ASSUME NEW b \in 1 .. Len(s), b # i
      PROVE  \E a \in 1 .. Len(s) - 1 : w[a] = s[b]
  <2>1. CASE b # Len(s)
    <3>1. b \in 1 .. Len(s) - 1
      BY <1>0, <2>1
    <3>3. e[b] = s[b]
      BY <1>2, <1>5
    <3>2. w[b] = s[b]
      BY <1>3, <3>1, <3>3
    <3> QED
      BY <3>1, <3>2, Zenon
  <2>2. CASE b = Len(s)
    <3>1. i \in 1 .. Len(s) - 1
      BY <1>0, <1>5, <2>2
    <3>3. e[i] = s[b]
      BY <1>2, <2>2
    <3>2. w[i] = s[b]
      BY <1>3, <3>1, <3>3
    <3> QED
      BY <3>1, <3>2, Zenon
  <2> QED
    BY <2>1, <2>2
<1>6. Merge!remove_pkt(s, i) = w
  BY DEF Merge!remove_pkt, w, e
<1> QED
  BY <1>3, <1>4, <1>5, <1>6

(* The ranks of packets.                                                   *)
LEMMA RankRange ==
    ASSUME NEW q \in Merge!Packets
    PROVE  /\ \/ q.status = "CRC_BAD" /\ Merge!Rank(q) = 0
              \/ q.status = "CRC_OK" /\ Merge!Rank(q) \in 1 .. 2
           /\ q.ftime_received => Merge!Rank(q) = 2
           /\ ~q.ftime_received /\ q.status = "CRC_OK" => Merge!Rank(q) = 1
<1>1. q.status \in {"CRC_OK", "CRC_BAD"}
  BY DEF Merge!Packets
<1>2. q.ftime_received => q.status = "CRC_OK"
  BY Zenon DEF Merge!Packets
<1>3. "CRC_OK" # "CRC_BAD"
  OBVIOUS
<1>4. q.status = "CRC_BAD" => Merge!Rank(q) = 0
  BY Zenon DEF Merge!Rank
<1>5. q.status = "CRC_OK" /\ q.ftime_received => Merge!Rank(q) = 2
  BY <1>3, Zenon DEF Merge!Rank
<1>6. q.status = "CRC_OK" /\ ~q.ftime_received => Merge!Rank(q) = 1
  BY <1>3, Zenon DEF Merge!Rank
<1>7. q.status = "CRC_OK" => Merge!Rank(q) = 1 \/ Merge!Rank(q) = 2
  BY <1>5, <1>6, Zenon
<1>8. q.status = "CRC_OK" => Merge!Rank(q) \in 1 .. 2
  BY <1>7
<1>9. q.status = "CRC_OK" \/ q.status = "CRC_BAD"
  BY <1>1
<1> QED
  BY <1>2, <1>4, <1>5, <1>6, <1>8, <1>9, Zenon

(* How good a packet is, is a number.                                      *)
LEMMA RankInt == \A q \in Merge!Packets : Merge!Rank(q) \in Int
<1>1. \A q \in Merge!Packets : Merge!Rank(q) = 0 \/ Merge!Rank(q) \in 1 .. 2
  BY RankRange, Zenon
<1> QED
  BY <1>1

(* Of two equal packets the one that stays is as good.                     *)
LEMMA BetterStays ==
    ASSUME NEW a, NEW b, array[a] \in Merge!Packets, array[b] \in Merge!Packets
    PROVE  \/ /\ Merge!DupIndex(a, b) = b
              /\ Merge!Rank(array[a]) >= Merge!Rank(array[b])
           \/ /\ Merge!DupIndex(a, b) = a
              /\ Merge!Rank(array[b]) >= Merge!Rank(array[a])
<1> DEFINE A == array[a]
           B == array[b]
           RA == Merge!Rank(A)
           RB == Merge!Rank(B)
<1>0. A \in Merge!Packets /\ B \in Merge!Packets
  OBVIOUS
<1> HIDE DEF A, B
<1>1. (A.status = "CRC_BAD" /\ RA = 0) \/ (A.status = "CRC_OK" /\ RA \in 1 .. 2)
  BY <1>0, RankRange, Zenon
<1>2. (B.status = "CRC_BAD" /\ RB = 0) \/ (B.status = "CRC_OK" /\ RB \in 1 .. 2)
  BY <1>0, RankRange, Zenon
<1>3. A.ftime_received => RA = 2
  BY <1>0, RankRange, Zenon
<1>4. ~A.ftime_received /\ A.status = "CRC_OK" => RA = 1
  BY <1>0, RankRange, Zenon
<1> HIDE DEF RA, RB
<1>5. CASE A.status # B.status
  <2>1. CASE A.status = "CRC_OK"
    <3>1. Merge!DupIndex(a, b) = b
      BY <1>5, <2>1 DEF Merge!DupIndex, A, B
    <3>2. RA >= RB
      BY <1>1, <1>2, <1>5, <2>1
    <3> QED
      BY <3>1, <3>2 DEF A, B, RA, RB
  <2>2. CASE A.status # "CRC_OK"
    <3>1. Merge!DupIndex(a, b) = a
      BY <1>5, <2>2 DEF Merge!DupIndex, A, B
    <3>2. RB >= RA
      BY <1>1, <1>2, <2>2
    <3> QED
      BY <3>1, <3>2 DEF A, B, RA, RB
  <2> QED
    BY <2>1, <2>2
<1>6. CASE A.status = B.status
  <2>1. CASE A.ftime_received
    <3>1. Merge!DupIndex(a, b) = b
      BY <1>6, <2>1, Zenon DEF Merge!DupIndex, A, B
    <3>2. RA = 2
      BY <1>3, <2>1, Zenon
    <3>3. RA >= RB
      BY <1>2, <3>2
    <3> QED
      BY <3>1, <3>3, Zenon DEF A, B, RA, RB
  <2>2. CASE ~A.ftime_received
    <3>1. Merge!DupIndex(a, b) = a
      BY <1>6, <2>2, Zenon DEF Merge!DupIndex, A, B
    <3>2. A.status = "CRC_OK" => RA = 1
      BY <1>4, <2>2, Zenon
    <3>3. RB >= RA
      BY <1>1, <1>2, <1>6, <3>2
    <3> QED
      BY <3>1, <3>3, Zenon DEF A, B, RA, RB
  <2> QED
    BY <2>1, <2>2, Zenon
<1> QED
  BY <1>5, <1>6

(* What an order of the array has: its packets, each once.                 *)
LEMMA OrderPermutes ==
    ASSUME NEW T, array \in Seq(T), NEW s \in Merge!Orders
    PROVE  /\ s \in Seq(T) /\ Len(s) = Len(array)
           /\ \E f \in [1 .. Len(array) -> 1 .. Len(array)] :
                /\ \A a \in 1 .. Len(array) : s[a] = array[f[a]]
                /\ \A a, b \in 1 .. Len(array) : a # b => f[a] # f[b]
                /\ \A b \in 1 .. Len(array) : \E a \in 1 .. Len(array) : f[a] = b
<1> DEFINE N == 1 .. Len(array)
<1>0. Len(array) \in Nat /\ \A a \in N : array[a] \in T
  OBVIOUS
<1>1. PICK f \in [N -> N] : /\ s = [i \in N |-> array[f[i]]]
                            /\ \A a, b \in N : a # b => f[a] # f[b]
  BY DEF Merge!Orders
<1>2. \A a \in N : s[a] = array[f[a]] /\ s[a] \in T
  BY <1>0, <1>1
<1>3. s \in Seq(T) /\ Len(s) = Len(array)
  BY <1>0, <1>1, <1>2
<1>4. f \in Surjection(N, N)
  <2>1. f \in Injection(N, N)
    BY <1>1 DEF Injection, IsInjective
  <2>2. IsFiniteSet(N)
    BY <1>0, FS_Interval
  <2> HIDE DEF N
  <2> QED
    <3>1. Cardinality(N) = Cardinality(N) <=> f \in Surjection(N, N)
      BY <2>1, <2>2, FS_Injection, Zenon
    <3> QED
      BY <3>1
<1>5. \A b \in N : \E a \in N : f[a] = b
  BY <1>4 DEF Surjection
<1> QED
  BY <1>1, <1>2, <1>3, <1>5, Zenon

(* The inductive invariant of merge_packets: every packet of the array is  *)
(* one of the input, for every packet of the input one as good is left,    *)
(* and those before the index equal none behind them.                      *)
MergeInv ==
    /\ input \in Seq(Merge!Packets) /\ array \in Seq(Merge!Packets)
    /\ index \in Nat \ {0}
    /\ \A a \in 1 .. Len(array) : \E k \in 1 .. Len(input) : array[a] = input[k]
    /\ \A S \in SUBSET (1 .. Len(input)) :
         Merge!Closed(S) => \A i \in S : Merge!Keeps(S, i)
    /\ \A a, b \in 1 .. Len(array) :
         a < b /\ a < index => ~Merge!is_same_pkt(array[a], array[b])
    /\ done => index > Len(array)

(* The first duplicate is one.                                             *)
LEMMA FirstDuplicate ==
    ASSUME MergeInv, Merge!Duplicates # {}
    PROVE  LET k == CHOOSE k \in Merge!Duplicates : \A l \in Merge!Duplicates : k <= l
           IN  k \in Merge!Duplicates
<1>1. Merge!Duplicates \in SUBSET Nat
  BY DEF Merge!Duplicates, MergeInv
<1>2. \E k \in Merge!Duplicates : \A l \in Merge!Duplicates : k <= l
  BY <1>1, LeastNatural
<1> QED
  BY <1>2

(* A duplicate removed.                                                    *)
LEMMA NextRemove ==
    ASSUME MergeInv, Merge!RemoveDuplicate
    PROVE  MergeInv'
<1> DEFINE P == Merge!Packets
<1>1. PICK k \in Merge!Duplicates : array' = Merge!remove_pkt(array, Merge!DupIndex(index, k))
  BY FirstDuplicate, Zenon DEF Merge!RemoveDuplicate
<1>2. index' = 1 /\ input' = input /\ done' = done /\ index \in Nat \ {0} /\ index <= Len(array)
  BY DEF Merge!RemoveDuplicate, MergeInv
<1>3. PICK d \in 1 .. Len(array), o \in 1 .. Len(array) :
        /\ d = Merge!DupIndex(index, k) /\ d # o
        /\ Merge!Rank(array[o]) >= Merge!Rank(array[d])
        /\ Merge!is_same_pkt(array[o], array[d])
  <2>0. /\ k \in index + 1 .. Len(array) /\ Len(array) \in Nat
        /\ Merge!is_same_pkt(array[index], array[k])
        /\ \A a \in 1 .. Len(array) : array[a] \in P
    BY DEF Merge!Duplicates, MergeInv
  <2>1. /\ k \in 1 .. Len(array) /\ index \in 1 .. Len(array) /\ index # k
        /\ Merge!is_same_pkt(array[index], array[k])
        /\ array[index] \in P /\ array[k] \in P
    BY <1>2, <2>0
  <2>2. Merge!is_same_pkt(array[k], array[index])
    BY <2>1, SameSymmetric
  <2>3. \/ /\ Merge!DupIndex(index, k) = k
           /\ Merge!Rank(array[index]) >= Merge!Rank(array[k])
        \/ /\ Merge!DupIndex(index, k) = index
           /\ Merge!Rank(array[k]) >= Merge!Rank(array[index])
    BY <2>1, BetterStays, Zenon
  <2> QED
    BY <2>1, <2>2, <2>3
<1>4. /\ array' \in Seq(P) /\ Len(array') = Len(array) - 1
      /\ \A a \in 1 .. Len(array') : \E b \in 1 .. Len(array) : array'[a] = array[b]
      /\ \A b \in 1 .. Len(array) : b # d =>
           \E a \in 1 .. Len(array') : array'[a] = array[b]
  <2> DEFINE w == Merge!remove_pkt(array, d)
  <2>1. /\ w \in Seq(P) /\ Len(w) = Len(array) - 1
        /\ \A a \in 1 .. Len(array) - 1 : \E b \in 1 .. Len(array) : w[a] = array[b]
        /\ \A b \in 1 .. Len(array) : b # d =>
             \E a \in 1 .. Len(array) - 1 : w[a] = array[b]
    BY RemoveKeepsOthers, SMTT(30) DEF MergeInv
  <2>2. array' = w
    BY <1>1, <1>3
  <2> HIDE DEF w
  <2> QED
    BY <2>1, <2>2, Zenon
<1>5. \A a \in 1 .. Len(array') : \E l \in 1 .. Len(input') : array'[a] = input'[l]
  <2>1. \A a \in 1 .. Len(array') : \E l \in 1 .. Len(input) : array'[a] = input[l]
    <3>1. \A b \in 1 .. Len(array) : \E l \in 1 .. Len(input) : array[b] = input[l]
      BY Zenon DEF MergeInv
    <3>2. \A a \in 1 .. Len(array') : \E b \in 1 .. Len(array) : array'[a] = array[b]
      BY <1>4
    <3> QED
      BY <3>1, <3>2, SMTT(30)
  <2> QED
    BY <1>2, <2>1
<1>6. ASSUME NEW S \in SUBSET (1 .. Len(input)), Merge!Closed(S), NEW i \in S
      PROVE  Merge!Keeps(S, i)'
  <2>1. PICK a \in 1 .. Len(array), l \in S :
          /\ array[a] = input[l] /\ Merge!Rank(array[a]) >= Merge!Rank(input[i])
    BY <1>6, Zenon DEF MergeInv, Merge!Keeps
  <2>2. PICK b \in 1 .. Len(array), m \in S :
          /\ b # d
          /\ array[b] = input[m] /\ Merge!Rank(array[b]) >= Merge!Rank(input[i])
    <3>1. CASE a # d
      BY <2>1, <3>1, Zenon
    <3>2. CASE a = d
      <4>1. PICK m \in 1 .. Len(input) : array[o] = input[m]
        BY Zenon DEF MergeInv
      <4>2. Merge!is_same_pkt(input[m], input[l])
        BY <1>3, <2>1, <3>2, <4>1, Zenon
      <4>3. m \in S
        BY <1>6, <4>2 DEF Merge!Closed
      <4>4. Merge!Rank(array[o]) >= Merge!Rank(input[i])
        <5>1. \A q \in P : Merge!Rank(q) \in Int
          BY RankInt
        <5>2. array[o] \in P /\ array[d] \in P /\ input[i] \in P
          BY SMTT(30) DEF MergeInv
        <5> QED
          BY <1>3, <2>1, <3>2, <5>1, <5>2, SMTT(30)
      <4> QED
        BY <1>3, <4>1, <4>3, <4>4, Zenon
    <3> QED
      BY <3>1, <3>2
  <2>3. PICK e \in 1 .. Len(array') : array'[e] = array[b]
    BY <1>4, <2>2
  <2>4. Merge!Rank(array'[e]) >= Merge!Rank(input'[i]) /\ array'[e] = input'[m]
    BY <1>2, <2>2, <2>3
  <2> QED
    BY <2>2, <2>4, Zenon DEF Merge!Keeps, Merge!Rank
<1>7. ASSUME NEW S \in SUBSET (1 .. Len(input')), Merge!Closed(S)', NEW i \in S
      PROVE  Merge!Keeps(S, i)'
  <2>1. Merge!Closed(S) /\ S \in SUBSET (1 .. Len(input))
    BY <1>2, <1>7 DEF Merge!Closed, Merge!is_same_pkt, Merge!Diff
  <2> QED
    BY <1>6, <2>1, Zenon
<1>8. \A a, b \in 1 .. Len(array') :
         a < b /\ a < index' => ~Merge!is_same_pkt(array'[a], array'[b])
  <2>1. \A a \in 1 .. Len(array') : ~(a < 1)
    OBVIOUS
  <2> QED
    BY <1>2, <2>1, Zenon
<1>9. ~done'
  <2>1. ~(index > Len(array))
    BY <1>2 DEF MergeInv
  <2> QED
    BY <1>2, <2>1, Zenon DEF MergeInv
<1>10. index' \in Nat \ {0} /\ input' \in Seq(P)
  BY <1>2 DEF MergeInv
<1> QED
  BY <1>4, <1>5, <1>7, <1>8, <1>9, <1>10, Zenon DEF MergeInv

(* At the end of the search no two packets are equal.                      *)
LEMMA OrderedPairs ==
    ASSUME MergeInv, index > Len(array)
    PROVE  \A a, b \in 1 .. Len(array) :
             a # b => ~Merge!is_same_pkt(array[a], array[b])
<1> DEFINE N == 1 .. Len(array)
<1>0. index \in Nat /\ Len(array) \in Nat /\ \A a \in N : array[a] \in Merge!Packets
  BY SMTT(30) DEF MergeInv
<1>1. \A a, b \in N : a < b => ~Merge!is_same_pkt(array[a], array[b])
  <2>1. \A a \in N : a < index
    BY <1>0
  <2> QED
    BY <2>1 DEF MergeInv
<1>2. \A a, b \in N : Merge!is_same_pkt(array[a], array[b]) =>
                       Merge!is_same_pkt(array[b], array[a])
  BY <1>0, SameSymmetric
<1>3. \A a, b \in N : a # b => a < b \/ b < a
  BY <1>0
<1> QED
  BY <1>1, <1>2, <1>3, Zenon

(* The invariant is about the array alone.                                 *)
LEMMA MergeSame ==
    ASSUME MergeInv, UNCHANGED <<input, array, index, done>>
    PROVE  MergeInv'
<1>1. \A S : Merge!Closed(S)' <=> Merge!Closed(S)
  BY SMTT(30) DEF Merge!Closed, Merge!is_same_pkt, Merge!Diff
<1>2. \A S, i : Merge!Keeps(S, i)' <=> Merge!Keeps(S, i)
  BY Zenon DEF Merge!Keeps, Merge!Rank
<1> QED
  BY <1>1, <1>2, Zenon DEF MergeInv

(* The next index.                                                         *)
LEMMA NextNoDuplicate ==
    ASSUME MergeInv, Merge!NoDuplicate
    PROVE  MergeInv'
<1>1. /\ index' = index + 1 /\ input' = input /\ array' = array /\ done' = done
      /\ index \in Nat \ {0} /\ index <= Len(array) /\ Len(array) \in Nat
  BY DEF Merge!NoDuplicate, MergeInv
<1>2. \A b \in index + 1 .. Len(array) : ~Merge!is_same_pkt(array[index], array[b])
  BY DEF Merge!NoDuplicate, Merge!Duplicates
<1>3. ASSUME NEW a \in 1 .. Len(array), NEW b \in 1 .. Len(array), a < b, a < index + 1
      PROVE  ~Merge!is_same_pkt(array[a], array[b])
  <2>1. CASE a < index
    BY <1>3, <2>1 DEF MergeInv
  <2>2. CASE a = index
    <3>1. b \in index + 1 .. Len(array)
      BY <1>1, <1>3, <2>2
    <3> QED
      BY <1>2, <2>2, <3>1
  <2> QED
    BY <1>1, <1>3, <2>1, <2>2
<1>4. \A a, b \in 1 .. Len(array') :
        a < b /\ a < index' => ~Merge!is_same_pkt(array'[a], array'[b])
  BY <1>1, <1>3
<1>5. ~done'
  <2>1. ~(index > Len(array))
    BY <1>1
  <2> QED
    BY <1>1, <2>1, Zenon DEF MergeInv
<1>6. index' \in Nat \ {0}
  BY <1>1
<1>7. /\ input' \in Seq(Merge!Packets) /\ array' \in Seq(Merge!Packets)
      /\ \A a \in 1 .. Len(array') : \E k \in 1 .. Len(input') : array'[a] = input'[k]
  BY <1>1 DEF MergeInv
<1>8. \A S \in SUBSET (1 .. Len(input')) :
        Merge!Closed(S)' => \A i \in S : Merge!Keeps(S, i)'
  <2>1. \A S : Merge!Closed(S)' <=> Merge!Closed(S)
    BY <1>1, SMTT(30) DEF Merge!Closed, Merge!is_same_pkt, Merge!Diff
  <2>2. \A S, i : Merge!Keeps(S, i)' <=> Merge!Keeps(S, i)
    BY <1>1, Zenon DEF Merge!Keeps, Merge!Rank
  <2>3. \A S \in SUBSET (1 .. Len(input)) :
          Merge!Closed(S) => \A i \in S : Merge!Keeps(S, i)
    BY Zenon DEF MergeInv
  <2> QED
    BY <1>1, <2>1, <2>2, <2>3, Zenon
<1> QED
  BY <1>4, <1>5, <1>6, <1>7, <1>8, Zenon DEF MergeInv

(* The packets that are left, sorted.                                      *)
LEMMA NextSort ==
    ASSUME MergeInv, Merge!Sort
    PROVE  MergeInv'
<1> DEFINE N == 1 .. Len(array)
<1>0. /\ input' = input /\ index' = index /\ index > Len(array) /\ index \in Nat \ {0}
      /\ array \in Seq(Merge!Packets) /\ Len(array) \in Nat
  <2>1. index \in Nat \ {0} /\ array \in Seq(Merge!Packets)
    BY Zenon DEF MergeInv
  <2>2. Len(array) \in Nat
    BY <2>1, SMTT(30)
  <2>3. input' = input /\ index' = index /\ index > Len(array)
    BY Zenon DEF Merge!Sort
  <2> QED
    BY <2>1, <2>2, <2>3, Zenon
<1>1. array' \in Merge!Orders
  BY Zenon DEF Merge!Sort
<1>2. /\ array' \in Seq(Merge!Packets) /\ Len(array') = Len(array)
      /\ \E f \in [N -> N] :
           /\ \A a \in N : array'[a] = array[f[a]]
           /\ \A a, b \in N : a # b => f[a] # f[b]
           /\ \A b \in N : \E a \in N : f[a] = b
  <2>1. \A s \in Merge!Orders :
          /\ s \in Seq(Merge!Packets) /\ Len(s) = Len(array)
          /\ \E f \in [N -> N] :
               /\ \A a \in N : s[a] = array[f[a]]
               /\ \A a, b \in N : a # b => f[a] # f[b]
               /\ \A b \in N : \E a \in N : f[a] = b
    BY <1>0, OrderPermutes, Zenon
  <2> QED
    BY <1>1, <2>1, Zenon
<1>3. PICK f \in [N -> N] :
        /\ \A a \in N : array'[a] = array[f[a]]
        /\ \A a, b \in N : a # b => f[a] # f[b]
        /\ \A b \in N : \E a \in N : f[a] = b
  BY <1>2, Zenon
<1>4. \A a \in N : f[a] \in N
  OBVIOUS
<1>5. \A a \in 1 .. Len(array') : \E k \in 1 .. Len(input') : array'[a] = input'[k]
  <2>1. \A b \in N : \E k \in 1 .. Len(input) : array[b] = input[k]
    BY Zenon DEF MergeInv
  <2>2. \A a \in N : \E k \in 1 .. Len(input) : array'[a] = input[k]
    <3>1. ASSUME NEW a \in N PROVE \E k \in 1 .. Len(input) : array'[a] = input[k]
      <4>1. f[a] \in N /\ array'[a] = array[f[a]]
        BY <1>3, <1>4, Zenon
      <4> QED
        BY <2>1, <4>1, Zenon
    <3> QED
      BY <3>1
  <2> QED
    BY <1>0, <1>2, <2>2, Zenon
<1>6. \A a, b \in N : a # b => ~Merge!is_same_pkt(array[a], array[b])
  BY <1>0, OrderedPairs, Zenon
<1>7. \A a, b \in N : a # b => ~Merge!is_same_pkt(array'[a], array'[b])
  <2>1. ASSUME NEW a \in N, NEW b \in N, a # b
        PROVE  ~Merge!is_same_pkt(array'[a], array'[b])
    <3>1. /\ f[a] \in N /\ f[b] \in N /\ f[a] # f[b]
          /\ array'[a] = array[f[a]] /\ array'[b] = array[f[b]]
      BY <1>3, <1>4, <2>1
    <3> QED
      BY <1>6, <3>1, Zenon
  <2> QED
    BY <2>1
<1>8. \A a, b \in 1 .. Len(array') :
        a < b /\ a < index' => ~Merge!is_same_pkt(array'[a], array'[b])
  <2>1. \A a, b \in N : a < b => a # b
    BY <1>0
  <2>2. 1 .. Len(array') = N
    BY <1>2
  <2> QED
    BY <1>7, <2>1, <2>2, Zenon
<1>9. \A S \in SUBSET (1 .. Len(input')) :
        Merge!Closed(S)' => \A i \in S : Merge!Keeps(S, i)'
  <2>1. \A S : Merge!Closed(S)' <=> Merge!Closed(S)
    BY <1>0, SMTT(30) DEF Merge!Closed, Merge!is_same_pkt, Merge!Diff
  <2>2. ASSUME NEW S, NEW i, Merge!Keeps(S, i) PROVE Merge!Keeps(S, i)'
    <3>1. PICK b \in N, k \in S : /\ Merge!Rank(array[b]) >= Merge!Rank(input[i])
                                 /\ array[b] = input[k]
      BY <2>2, Zenon DEF Merge!Keeps
    <3>2. PICK a \in 1 .. Len(array') : array'[a] = array[b]
      <4>1. PICK a \in N : f[a] = b
        BY <1>3
      <4>2. array'[a] = array[b]
        BY <1>3, <4>1
      <4> QED
        BY <1>2, <4>2, Zenon
    <3>3. Merge!Rank(array'[a]) >= Merge!Rank(input'[i]) /\ array'[a] = input'[k]
      BY <1>0, <3>1, <3>2
    <3> QED
      BY <3>1, <3>3 DEF Merge!Keeps, Merge!Rank
  <2>3. \A S \in SUBSET (1 .. Len(input)) :
          Merge!Closed(S) => \A i \in S : Merge!Keeps(S, i)
    BY Zenon DEF MergeInv
  <2> QED
    BY <1>0, <2>1, <2>2, <2>3, Zenon
<1>10. /\ input' \in Seq(Merge!Packets) /\ index' \in Nat \ {0}
       /\ index' > Len(array')
  BY <1>0, <1>2 DEF MergeInv
<1> QED
  BY <1>2, <1>5, <1>8, <1>9, <1>10, Zenon DEF MergeInv

-----------------------------------------------------------------------------
(* With fine timestamps; without them merge_packets does nothing.          *)
FineInv == fine_timestamp => MergeInv

(* lgw_receive calls merge_packets with the packets as they were parsed.   *)
LEMMA InitMerge == ASSUME Merge!Init PROVE MergeInv
<1>1. PICK n \in 1 .. MaxIn : input \in [1 .. n -> Merge!Packets]
  BY DEF Merge!Init
<1>2. array = input /\ index = 1 /\ ~done
  BY DEF Merge!Init
<1>3. n \in Nat
  BY MergeAssumption DEF Merge!MergeConstants
<1>4. input \in Seq(Merge!Packets)
  BY <1>1, <1>3
<1>5. \A a \in 1 .. Len(array) : \E k \in 1 .. Len(input) : array[a] = input[k]
  BY <1>2
<1>6. ASSUME NEW S \in SUBSET (1 .. Len(input)), NEW i \in S PROVE Merge!Keeps(S, i)
  <2>1. input[i] \in Merge!Packets /\ Merge!Rank(input[i]) \in Int
    BY <1>4, RankInt
  <2>2. Merge!Rank(array[i]) >= Merge!Rank(input[i]) /\ array[i] = input[i]
    BY <1>2, <2>1
  <2>3. i \in 1 .. Len(array)
    BY <1>2
  <2> QED
    BY <2>2, <2>3, Zenon DEF Merge!Keeps
<1>7. \A a, b \in 1 .. Len(array) : ~(a < index)
  BY <1>2, <1>4
<1>8. index \in Nat \ {0} /\ array \in Seq(Merge!Packets)
  BY <1>2, <1>4
<1> QED
  BY <1>2, <1>4, <1>5, <1>6, <1>7, <1>8, Zenon DEF MergeInv

(* Every step of lgw_receive keeps the invariant of merge_packets.         *)
LEMMA NextFine == ASSUME FineInv, [ReceptionNext]_allVars PROVE FineInv'
<1>1. CASE UNCHANGED allVars
  <2>1. UNCHANGED <<fine_timestamp, input, array, index, done>>
    BY <1>1 DEF allVars, mergeVars
  <2>2. MergeInv => MergeInv'
    BY <2>1, MergeSame
  <2> QED
    BY <2>1, <2>2, Zenon DEF FineInv
<1>2. CASE ReceptionNext
  <2>1. fine_timestamp' = fine_timestamp
    BY <1>2 DEF ReceptionNext
  <2>2. CASE ~fine_timestamp
    BY <2>1, <2>2, Zenon DEF FineInv
  <2>3. CASE fine_timestamp
    <3>1. MergeInv /\ Merge!Next
      BY <1>2, <2>3, Zenon DEF FineInv, ReceptionNext
    <3>2. MergeInv'
      BY <3>1, NextNoDuplicate, NextRemove, NextSort DEF Merge!Next
    <3> QED
      BY <3>2 DEF FineInv
  <2> QED
    BY <2>2, <2>3, Zenon
<1> QED
  BY <1>1, <1>2

(* merge_packets leaves no duplicates, for every tolerance, period of the  *)
(* counter and array: although the comparison is not transitive and each   *)
(* removal puts the last packet in the place of another, because the       *)
(* search starts again.                                                    *)
THEOREM NoDuplicatesLeft == ReceptionSpec => []NoDuplicateLeft
<1>1. ReceptionInit => FineInv
  BY InitMerge, Zenon DEF ReceptionInit, FineInv
<1>2. FineInv /\ [ReceptionNext]_allVars => FineInv'
  BY NextFine
<1>3. FineInv => NoDuplicateLeft
  <2> SUFFICES ASSUME MergeInv, done
               PROVE  \A a, b \in 1 .. Len(array) :
                        a # b => ~Merge!is_same_pkt(array[a], array[b])
    BY Zenon DEF FineInv, NoDuplicateLeft, Merge!NoDuplicateLeft
  <2>1. index > Len(array) /\ index \in Nat /\ array \in Seq(Merge!Packets)
    BY Zenon DEF MergeInv
  <2> QED
    BY <2>1, OrderedPairs
<1> QED
  BY <1>1, <1>2, <1>3, PTL DEF ReceptionSpec

(* merge_packets drops a packet only in favour of one it is linked to by   *)
(* equal packets and that is as good: with a right CRC if its own is, and  *)
(* a fine timestamp if it has one.                                         *)
THEOREM BestAlwaysKept == ReceptionSpec => []BestKept
<1>1. ReceptionInit => FineInv
  BY InitMerge, Zenon DEF ReceptionInit, FineInv
<1>2. FineInv /\ [ReceptionNext]_allVars => FineInv'
  BY NextFine
<1>3. FineInv => BestKept
  BY Zenon DEF FineInv, BestKept, MergeInv, Merge!BestKept
<1> QED
  BY <1>1, <1>2, <1>3, PTL DEF ReceptionSpec

=============================================================================
