--------------------------- MODULE ProtocolProofs ---------------------------
(***************************************************************************)
(* The protocol with the server, for every set of tokens and any number of *)
(* datagrams: the auto-quit of thread_down and its count of                *)
(* acknowledgements, for every threshold and keep-alive time; the          *)
(* statistics and the status report that main and thread_up share, for     *)
(* every filter and number of packets.                                     *)
(***************************************************************************)
EXTENDS PullProtocol, PushProtocol, SequenceTheorems, TLAPS

-----------------------------------------------------------------------------
(* PULL_DATA. *)

(* Whether the PULL_DATA at position j of w was answered in time.          *)
InTimeAt(w, j) == w[j] = "in_time"

(* The last n PULL_DATA of w were not answered in time, the one before was. *)
Unanswered(w, n) ==
    /\ n <= Len(w)
    /\ \A j \in 1 .. Len(w) : j > Len(w) - n => ~InTimeAt(w, j)
    /\ Len(w) - n > 0 => InTimeAt(w, Len(w) - n)

(* autoquit_cnt counts the PULL_DATA since the last one answered in time,  *)
(* as far as the window reaches; it is 0 once an answer has come.          *)
AutoquitInv ==
    /\ pull_pc \in {"send", "listen", "done"}
    /\ exit_sig \in {"none", "exit", "quit", "autoquit"}
    /\ autoquit_cnt \in Nat
    /\ window \in Seq(Pull) /\ Len(window) <= autoquit_threshold
    /\ autoquit_threshold > 0 => Unanswered(window, autoquit_cnt)
    /\ req_ack => autoquit_cnt = 0
    /\ pull_pc = "listen" /\ autoquit_threshold > 0 => window # <<>>
    /\ exit_sig = "autoquit" => AutoquitDue /\ pull_pc = "done"

(* A new PULL_DATA at the end of the window is one more unanswered.        *)
LEMMA SlideUnanswered ==
    ASSUME NEW p \in Pull, p = "unanswered", NEW n \in Nat,
           window \in Seq(Pull), Len(window) <= autoquit_threshold
    PROVE  /\ Slide(p) \in Seq(Pull) /\ Len(Slide(p)) <= autoquit_threshold
           /\ autoquit_threshold > 0 => Slide(p) # <<>>
           /\ autoquit_threshold > 0 /\ n < autoquit_threshold
              /\ Unanswered(window, n) => Unanswered(Slide(p), n + 1)
<1> DEFINE L == Append(window, p)
<1>1. autoquit_threshold \in Nat
  BY PullConstants
<1>2. /\ L \in Seq(Pull) /\ Len(L) = Len(window) + 1
      /\ \A j \in 1 .. Len(window) : L[j] = window[j]
      /\ L[Len(window) + 1] = p
  OBVIOUS
<1>3. CASE Len(L) <= autoquit_threshold
  <2>1. Slide(p) = L
    BY <1>1, <1>2, <1>3 DEF Slide
  <2>2. L # <<>>
    BY <1>2
  <2>3. ASSUME Unanswered(window, n)
        PROVE  Unanswered(L, n + 1)
    <3>1. n + 1 <= Len(L)
      BY <1>2, <2>3 DEF Unanswered
    <3>2. ASSUME NEW j \in 1 .. Len(L), j > Len(L) - (n + 1)
          PROVE  ~InTimeAt(L, j)
      <4>1. CASE j = Len(window) + 1
        BY <1>2, <4>1 DEF InTimeAt
      <4>2. CASE j # Len(window) + 1
        BY <1>2, <2>3, <3>2, <4>2 DEF Unanswered, InTimeAt
      <4> QED
        BY <4>1, <4>2
    <3>3. Len(L) - (n + 1) > 0 => InTimeAt(L, Len(L) - (n + 1))
      BY <1>2, <2>3 DEF Unanswered, InTimeAt
    <3> QED
      BY <3>1, <3>2, <3>3 DEF Unanswered
  <2> HIDE DEF L
  <2> QED
    BY <1>2, <1>3, <2>1, <2>2, <2>3
<1>4. CASE Len(L) > autoquit_threshold
  <2>1. Slide(p) = Tail(L)
    BY <1>1, <1>2, <1>4 DEF Slide
  <2>2. /\ Tail(L) \in Seq(Pull) /\ Len(Tail(L)) = Len(window)
        /\ \A j \in 1 .. Len(window) : Tail(L)[j] = L[j + 1]
        /\ Len(window) = autoquit_threshold
    BY <1>1, <1>2, <1>4
  <2>3. autoquit_threshold > 0 => Tail(L) # <<>>
    BY <2>2
  <2>4. ASSUME autoquit_threshold > 0, n < autoquit_threshold,
               Unanswered(window, n)
        PROVE  Unanswered(Tail(L), n + 1)
    <3>1. n + 1 <= Len(Tail(L))
      BY <1>1, <2>2, <2>4
    <3>2. ASSUME NEW j \in 1 .. Len(Tail(L)), j > Len(Tail(L)) - (n + 1)
          PROVE  ~InTimeAt(Tail(L), j)
      <4>1. CASE j = Len(window)
        BY <1>1, <1>2, <2>2, <4>1 DEF InTimeAt
      <4>2. CASE j # Len(window)
        BY <1>1, <1>2, <2>2, <2>4, <3>2, <4>2 DEF Unanswered, InTimeAt
      <4> QED
        BY <4>1, <4>2
    <3>3. Len(Tail(L)) - (n + 1) > 0 => InTimeAt(Tail(L), Len(Tail(L)) - (n + 1))
      BY <1>1, <1>2, <2>2, <2>4 DEF Unanswered, InTimeAt
    <3> QED
      BY <3>1, <3>2, <3>3 DEF Unanswered
  <2> QED
    BY <2>1, <2>2, <2>3, <2>4, Zenon
<1> QED
  BY <1>1, <1>2, <1>3, <1>4

(* A PULL_ACK with the latest token marks the last PULL_DATA, no other.    *)
LEMMA HeardFacts ==
    ASSUME window \in Seq(Pull), NEW t
    PROVE  /\ Heard(t) \in Seq(Pull) /\ Len(Heard(t)) = Len(window)
           /\ \A j \in 1 .. Len(window) :
                InTimeAt(Heard(t), j)
                  <=> InTimeAt(window, j) \/ (j = Len(window) /\ t = token)
<1>1. DOMAIN window = 1 .. Len(window) /\ Len(window) \in Nat
  OBVIOUS
<1>2. ASSUME NEW j \in 1 .. Len(window)
      PROVE  /\ Heard(t)[j] \in Pull
             /\ InTimeAt(Heard(t), j)
                  <=> InTimeAt(window, j) \/ (j = Len(window) /\ t = token)
  <2>1. window[j] \in Pull
    OBVIOUS
  <2>2. Heard(t)[j] = IF j = Len(window) /\ t = token THEN "in_time"
                                                      ELSE window[j]
    BY <1>1 DEF Heard
  <2> QED
    BY <2>1, <2>2 DEF Pull, InTimeAt
<1>3. Heard(t) = [j \in 1 .. Len(window) |-> Heard(t)[j]]
  BY <1>1 DEF Heard
<1>4. Heard(t) \in [1 .. Len(window) -> Pull]
  BY <1>2, <1>3, Zenon
<1>5. Heard(t) \in Seq(Pull) /\ Len(Heard(t)) = Len(window)
  BY <1>1, <1>4
<1> QED
  BY <1>2, <1>5

-----------------------------------------------------------------------------
(* Sending PULL_DATA and receiving PULL_ACK change the window; every other *)
(* step leaves it and the count alone.                                     *)
LEMMA NextAutoquitInv == AutoquitInv /\ [Next]_vars => AutoquitInv'
<1> SUFFICES ASSUME AutoquitInv, [Next]_vars PROVE AutoquitInv'
  OBVIOUS
<1>0. autoquit_threshold \in Nat
  BY PullConstants
<1>1. CASE PullSend
  <2> DEFINE p == "unanswered"
  <2>1. p \in Pull /\ p = "unanswered"
    BY DEF Pull
  <2>2. window' = Slide(p)
    BY <1>1 DEF PullSend
  <2>3. autoquit_threshold > 0 => autoquit_cnt < autoquit_threshold
    BY <1>0, <1>1 DEF PullSend, AutoquitDue, AutoquitInv
  <2>4. /\ window' \in Seq(Pull) /\ Len(window') <= autoquit_threshold
        /\ autoquit_threshold > 0 => window' # <<>>
        /\ autoquit_threshold > 0 => Unanswered(window', autoquit_cnt + 1)
    BY <2>1, <2>2, <2>3, SlideUnanswered DEF AutoquitInv
  <2>5. /\ autoquit_cnt' = autoquit_cnt + 1 /\ req_ack' = FALSE
        /\ pull_pc' = "listen"
        /\ exit_sig' = exit_sig /\ exit_sig = "none"
    BY <1>1 DEF PullSend
  <2> QED
    BY <2>4, <2>5 DEF AutoquitInv
<1>2. CASE RecvAck
  <2>1. PICK t \in acks :
          /\ window' = Heard(t)
          /\ IF t = token /\ ~req_ack
               THEN req_ack' = TRUE /\ autoquit_cnt' = 0
               ELSE UNCHANGED <<req_ack, autoquit_cnt>>
    BY <1>2 DEF RecvAck
  <2>2. UNCHANGED <<pull_pc, exit_sig>> /\ exit_sig = "none"
        /\ pull_pc = "listen"
    BY <1>2 DEF RecvAck, Listening
  <2>3. /\ window' \in Seq(Pull) /\ Len(window') = Len(window)
        /\ \A j \in 1 .. Len(window) :
             InTimeAt(window', j)
               <=> InTimeAt(window, j) \/ (j = Len(window) /\ t = token)
    BY <2>1, HeardFacts DEF AutoquitInv
  <2>4. autoquit_cnt' \in Nat /\ (req_ack' => autoquit_cnt' = 0)
    BY <2>1 DEF AutoquitInv
  <2>5. Len(window) \in Nat /\ (autoquit_threshold > 0 => Len(window) > 0)
    BY <2>2 DEF AutoquitInv
  <2>6. autoquit_threshold > 0 => Unanswered(window', autoquit_cnt')
    <3>1. CASE t = token
      <4>1. autoquit_cnt' = 0
        BY <2>1, <3>1 DEF AutoquitInv
      <4> QED
        BY <2>3, <2>5, <3>1, <4>1 DEF Unanswered
    <3>2. CASE t # token
      <4>1. autoquit_cnt' = autoquit_cnt
        BY <2>1, <3>2
      <4> QED
        BY <2>3, <2>5, <3>2, <4>1 DEF Unanswered, AutoquitInv
    <3> QED
      BY <3>1, <3>2
  <2>7. autoquit_threshold > 0 => window' # <<>>
    BY <2>3, <2>5
  <2> QED
    BY <2>2, <2>3, <2>4, <2>6, <2>7 DEF AutoquitInv
<1>3. CASE PullQuit
  BY <1>3 DEF PullQuit, AutoquitInv, AutoquitDue
<1>4. CASE PullStop \/ ListenEnd
  BY <1>4 DEF PullStop, ListenEnd, AutoquitInv, AutoquitDue
<1>5. CASE sig_handler
  BY <1>5 DEF sig_handler, downVars, AutoquitInv, AutoquitDue
<1>6. CASE UNCHANGED <<pull_pc, req_ack, autoquit_cnt, window, exit_sig>>
  BY <1>6 DEF AutoquitInv, AutoquitDue
<1> QED
  BY <1>1, <1>2, <1>3, <1>4, <1>5, <1>6
  DEF Next, thread_down, RecvOther, Tick, ServerAck, MainReport, vars, downVars

(* Nothing has been sent.                                                  *)
LEMMA InitAutoquitInv == Init => AutoquitInv
BY PullConstants DEF Init, AutoquitInv, Unanswered

(* thread_down shuts the gateway down only after autoquit_threshold        *)
(* PULL_DATA in a row that were not answered in time.                      *)
THEOREM QuitsOnlyJustified == Spec => []AutoquitJustified
<1>1. AutoquitInv => AutoquitJustified
  <2> SUFFICES ASSUME AutoquitInv, exit_sig = "autoquit" PROVE NoneInTime
    BY DEF AutoquitJustified
  <2>1. autoquit_cnt >= autoquit_threshold /\ Unanswered(window, autoquit_cnt)
    BY DEF AutoquitInv, AutoquitDue
  <2>2. /\ autoquit_threshold \in Nat /\ autoquit_cnt \in Nat
        /\ Len(window) \in Nat /\ Len(window) <= autoquit_threshold
    BY PullConstants DEF AutoquitInv
  <2>3. autoquit_cnt <= Len(window)
    BY <2>1 DEF Unanswered
  <2>4. Len(window) = autoquit_threshold /\ autoquit_cnt = Len(window)
    BY <2>1, <2>2, <2>3
  <2>5. \A j \in 1 .. Len(window) : ~InTimeAt(window, j)
    BY <2>1, <2>2, <2>4 DEF Unanswered
  <2>6. DOMAIN window = 1 .. Len(window)
    BY DEF AutoquitInv
  <2> QED
    BY <2>4, <2>5, <2>6 DEF InTimeAt, NoneInTime
<1> QED
  BY <1>1, InitAutoquitInv, NextAutoquitInv, PTL DEF Spec

-----------------------------------------------------------------------------
(* Until the latest PULL_DATA is acknowledged, no more PULL_ACK have been  *)
(* counted than PULL_DATA.                                                 *)
CountInv ==
    /\ meas_dw_pull_sent \in Nat /\ meas_dw_ack_rcv \in Nat
    /\ AcksBounded
    /\ pull_pc = "listen" /\ ~req_ack => meas_dw_ack_rcv <= meas_dw_pull_sent

(* The counters, the token matched and main's reset.                       *)
LEMMA NextCountInv == CountInv /\ [Next]_vars => CountInv'
<1> SUFFICES ASSUME CountInv, [Next]_vars PROVE CountInv'
  OBVIOUS
<1>1. CASE PullSend
  BY <1>1 DEF PullSend, CountInv, AcksBounded
<1>2. CASE RecvAck
  <2>1. PICK t \in acks :
          IF t = token /\ ~req_ack
            THEN req_ack' = TRUE /\ meas_dw_ack_rcv' = meas_dw_ack_rcv + 1
            ELSE UNCHANGED <<req_ack, meas_dw_ack_rcv>>
    BY <1>2 DEF RecvAck
  <2>2. UNCHANGED <<pull_pc, meas_dw_pull_sent, report>> /\ pull_pc = "listen"
    BY <1>2 DEF RecvAck, Listening
  <2> QED
    BY <2>1, <2>2 DEF CountInv, AcksBounded
<1>3. CASE MainReport
  BY <1>3 DEF MainReport, CountInv, AcksBounded
<1>4. CASE PullQuit \/ PullStop \/ ListenEnd
  BY <1>4 DEF PullQuit, PullStop, ListenEnd, measVars, CountInv, AcksBounded
<1>5. CASE UNCHANGED <<pull_pc, req_ack, measVars, report>>
  BY <1>5 DEF measVars, CountInv, AcksBounded
<1> QED
  BY <1>1, <1>2, <1>3, <1>4, <1>5
  DEF Next, thread_down, RecvOther, Tick, sig_handler, ServerAck, vars, downVars

(* At most one more PULL_ACK is counted between two reports than           *)
(* PULL_DATA, whatever is duplicated, late or reordered.                   *)
THEOREM AcksStayBounded == Spec => []AcksBounded
<1>1. Init => CountInv
  BY DEF Init, CountInv, AcksBounded
<1>2. CountInv => AcksBounded
  BY DEF CountInv
<1> QED
  BY <1>1, <1>2, NextCountInv, PTL DEF Spec

(* Only PullSend counts a PULL_DATA.                                       *)
LEMMA OnlySendCounts ==
    ASSUME CountInv, [Next]_vars, meas_dw_pull_sent' > meas_dw_pull_sent
    PROVE  PullSend
<1>1. CASE MainReport
  BY <1>1 DEF MainReport, CountInv
<1>2. CASE UNCHANGED meas_dw_pull_sent
  BY <1>2 DEF CountInv
<1> QED
  BY <1>1, <1>2
  DEF Next, thread_down, PullQuit, PullStop, ListenEnd, RecvOther, RecvAck,
      Tick, sig_handler, ServerAck, vars, measVars

(* No PULL_DATA is sent after autoquit_threshold in a row that were not    *)
(* answered in time.                                                       *)
THEOREM QuitsPromptly == Spec => AutoquitPrompt
<1>1. ASSUME AutoquitInv, CountInv, [Next]_vars
      PROVE  meas_dw_pull_sent' > meas_dw_pull_sent
               => autoquit_threshold = 0 \/ ~NoneInTime
  <2> SUFFICES ASSUME PullSend, autoquit_threshold # 0, NoneInTime PROVE FALSE
    BY <1>1, OnlySendCounts
  <2>1. /\ autoquit_threshold \in Nat /\ autoquit_threshold > 0
        /\ autoquit_cnt \in Nat /\ autoquit_cnt < autoquit_threshold
        /\ Len(window) = autoquit_threshold
        /\ DOMAIN window = 1 .. Len(window)
        /\ Unanswered(window, autoquit_cnt)
    BY <1>1, PullConstants DEF AutoquitInv, AutoquitDue, PullSend, NoneInTime
  <2>2. /\ Len(window) - autoquit_cnt \in DOMAIN window
        /\ InTimeAt(window, Len(window) - autoquit_cnt)
    BY <2>1 DEF Unanswered
  <2> QED
    BY <2>2 DEF InTimeAt, NoneInTime
<1>2. Init => CountInv
  BY DEF Init, CountInv, AcksBounded
<1> QED
  BY <1>1, <1>2, InitAutoquitInv, NextAutoquitInv, NextCountInv, PTL
  DEF Spec, AutoquitPrompt

-----------------------------------------------------------------------------
(* PUSH_DATA. *)

(* A flag that is up stands for a report that has not been sent.           *)
ReportInv ==
    /\ report_ready => report_state = "new"
    /\ up_pc = "filter" /\ send_report => report_state = "new"
    /\ up_pc = "report" => report_state = "new"

(* Only UpReport marks the report as sent, and it lowers the flag in the   *)
(* same critical section.                                                  *)
LEMMA NextReportInv == ReportInv /\ [PushNext]_pushVars => ReportInv'
<1> SUFFICES ASSUME ReportInv, [PushNext]_pushVars PROVE ReportInv'
  OBVIOUS
<1>1. CASE UpFetch \/ UpEnd
  BY <1>1 DEF UpFetch, UpEnd, reportVars, ReportInv
<1>2. CASE UpCheck
  BY <1>2 DEF UpCheck, reportVars, ReportInv
<1>3. CASE UpFilter
  BY <1>3 DEF UpFilter, reportVars, ReportInv
<1>4. CASE UpFiltered
  BY <1>4 DEF UpFiltered, reportVars, ReportInv
<1>5. CASE UpReport \/ UpSend
  BY <1>5 DEF UpReport, UpSend, reportVars, ReportInv
<1>6. CASE UpTimeout \/ UpConnError \/ UpRecv
  <2>1. up_pc' \in {"ack", "fetch"} /\ UNCHANGED reportVars
    BY <1>6, Zenon DEF UpTimeout, UpConnError, UpRecv, NotAcked
  <2> QED
    BY <2>1 DEF reportVars, ReportInv
<1>7. CASE MainStatus
  BY <1>7 DEF MainStatus, upVars, ReportInv
<1>8. CASE UNCHANGED <<upVars, reportVars>>
  BY <1>8 DEF upVars, reportVars, ReportInv
<1> QED
  BY <1>1, <1>2, <1>3, <1>4, <1>5, <1>6, <1>7, <1>8
  DEF PushNext, thread_up, main, Network, MainCopy, Arrive, Lose, Heal, pushVars

(* A status report is sent at most once, although report_ready is read     *)
(* without mx_stat_rep.                                                    *)
THEOREM ReportsSentOnce == PushSpec => []NoReportTwice
<1>1. PushInit => ReportInv
  BY DEF PushInit, ReportInv
<1>2. ReportInv => NoReportTwice
  BY DEF ReportInv, NoReportTwice
<1> QED
  BY <1>1, <1>2, NextReportInv, PTL DEF PushSpec

-----------------------------------------------------------------------------
(* Counters that make a consistent report.                                 *)
Consistent(m) ==
    /\ m["ack"] <= m["sent"]
    /\ m["ok"] + m["bad"] + m["nocrc"] <= m["rcv"]
    /\ m["fwd"] <= m["rcv"]

(* While thread_up waits for a PUSH_ACK it has not been counted.           *)
CountersInv ==
    /\ meas \in [Counters -> Nat] /\ cp \in [Counters -> Nat]
    /\ Consistent(meas) /\ Consistent(cp)
    /\ up_pc = "ack" => meas["ack"] < meas["sent"]

(* Counting gives natural numbers.                                         *)
LEMMA CountType ==
    ASSUME meas \in [Counters -> Nat], NEW cs, Count(cs)
    PROVE  /\ meas' \in [Counters -> Nat]
           /\ \A c \in Counters :
                meas'[c] = IF c \in cs THEN meas[c] + 1 ELSE meas[c]
BY DEF Count

(* The counters start at zero.                                             *)
LEMMA ZeroConsistent == Zero \in [Counters -> Nat] /\ Consistent(Zero)
BY DEF Zero, Counters, Consistent

(* mx_meas_up is held from the counting of a datagram to that of its       *)
(* acknowledgement, and main copies and resets all counters together.      *)
LEMMA NextCountersInv == CountersInv /\ [PushNext]_pushVars => CountersInv'
<1> SUFFICES ASSUME CountersInv, [PushNext]_pushVars PROVE CountersInv'
  OBVIOUS
<1>0. /\ \A c \in Counters : meas[c] \in Nat
      /\ Counters = {"rcv", "ok", "bad", "nocrc", "fwd", "sent", "ack"}
  BY DEF CountersInv, Counters
<1>1. CASE UpFilter
  <2> DEFINE status == Head(rxpkt)
             cs == {"rcv"}
                   \cup {c \in {"ok"} : status = STAT_CRC_OK}
                   \cup {c \in {"bad"} : status = STAT_CRC_BAD}
                   \cup {c \in {"nocrc"} : status = STAT_NO_CRC}
                   \cup {c \in {"fwd"} : status \in Forwarded}
  <2>1. Count(cs) /\ up_pc = "filter" /\ up_pc' = up_pc /\ cp' = cp
    BY <1>1 DEF UpFilter, mainVars
  <2>2. /\ meas' \in [Counters -> Nat]
        /\ \A c \in Counters :
             meas'[c] = IF c \in cs THEN meas[c] + 1 ELSE meas[c]
    BY <2>1, CountType DEF CountersInv
  <2>3. meas'["ack"] = meas["ack"] /\ meas'["sent"] = meas["sent"]
        /\ meas'["rcv"] = meas["rcv"] + 1
    BY <1>0, <2>2
  <2>4. meas'["fwd"] \in {meas["fwd"], meas["fwd"] + 1}
    BY <1>0, <2>2
  <2>5. /\ meas'["ok"] = IF status = STAT_CRC_OK THEN meas["ok"] + 1 ELSE meas["ok"]
        /\ meas'["bad"] = IF status = STAT_CRC_BAD THEN meas["bad"] + 1 ELSE meas["bad"]
        /\ meas'["nocrc"] = IF status = STAT_NO_CRC THEN meas["nocrc"] + 1
                                                    ELSE meas["nocrc"]
    BY <1>0, <2>2
  <2>6. meas'["ok"] + meas'["bad"] + meas'["nocrc"]
          <= meas["ok"] + meas["bad"] + meas["nocrc"] + 1
    BY <1>0, <2>5 DEF STAT_CRC_OK, STAT_CRC_BAD, STAT_NO_CRC
  <2>7. Consistent(meas')
    <3> HIDE DEF cs, status
    <3> QED
      BY <1>0, <2>2, <2>3, <2>4, <2>6 DEF CountersInv, Consistent
  <2> QED
    BY <2>1, <2>2, <2>7 DEF CountersInv, Consistent
<1>2. CASE UpSend
  <2>1. Count({"sent"}) /\ cp' = cp /\ up_pc' = "ack"
    BY <1>2 DEF UpSend, mainVars
  <2>2. /\ meas' \in [Counters -> Nat]
        /\ \A c \in Counters :
             meas'[c] = IF c = "sent" THEN meas[c] + 1 ELSE meas[c]
    BY <2>1, CountType DEF CountersInv
  <2>3. meas'["sent"] = meas["sent"] + 1 /\ meas'["ack"] = meas["ack"]
        /\ meas'["ok"] = meas["ok"] /\ meas'["bad"] = meas["bad"]
        /\ meas'["nocrc"] = meas["nocrc"] /\ meas'["fwd"] = meas["fwd"]
        /\ meas'["rcv"] = meas["rcv"]
    BY <1>0, <2>2
  <2>4. Consistent(meas') /\ meas'["ack"] < meas'["sent"]
    BY <1>0, <2>3 DEF CountersInv, Consistent
  <2> QED
    BY <2>1, <2>2, <2>4 DEF CountersInv, Consistent
<1>3. CASE Count({"ack"}) /\ cp' = cp /\ up_pc = "ack" /\ up_pc' = "fetch"
  <2>2. /\ meas' \in [Counters -> Nat]
        /\ \A c \in Counters :
             meas'[c] = IF c = "ack" THEN meas[c] + 1 ELSE meas[c]
    BY <1>3, CountType DEF CountersInv
  <2>3. meas'["sent"] = meas["sent"] /\ meas'["ack"] = meas["ack"] + 1
        /\ meas'["ok"] = meas["ok"] /\ meas'["bad"] = meas["bad"]
        /\ meas'["nocrc"] = meas["nocrc"] /\ meas'["fwd"] = meas["fwd"]
        /\ meas'["rcv"] = meas["rcv"]
    BY <1>0, <2>2
  <2>4. Consistent(meas')
    BY <1>0, <1>3, <2>3 DEF CountersInv, Consistent
  <2> QED
    BY <1>3, <2>2, <2>4 DEF CountersInv, Consistent
<1>4. CASE MainCopy
  <2>1. meas' = Zero /\ cp' = meas /\ up_pc # "ack" /\ up_pc' = up_pc
    BY <1>4 DEF MainCopy, upVars
  <2> QED
    BY <2>1, ZeroConsistent DEF CountersInv, Consistent
<1>5. CASE MainStatus
  <2>1. meas' = meas /\ cp' = Zero /\ up_pc' = up_pc
    BY <1>5 DEF MainStatus, upVars
  <2> QED
    BY <2>1, ZeroConsistent DEF CountersInv, Consistent
<1>6. CASE UNCHANGED <<meas, cp>> /\ (up_pc' = "ack" => up_pc = "ack")
  BY <1>6 DEF CountersInv, Consistent
<1>7. CASE UpRecv \/ UpTimeout \/ UpConnError
  BY <1>3, <1>6, <1>7, Zenon DEF UpRecv, UpTimeout, UpConnError, NotAcked, mainVars
<1>8. CASE UpFetch \/ UpEnd \/ UpCheck \/ UpFiltered \/ UpReport
  <2>1. UNCHANGED <<meas, cp>> /\ up_pc' # "ack"
    BY <1>8 DEF UpFetch, UpEnd, UpCheck, UpFiltered, UpReport, mainVars
  <2> QED
    BY <1>6, <2>1
<1>9. CASE Network \/ UNCHANGED pushVars
  BY <1>6, <1>9 DEF Network, Arrive, Lose, Heal, pushVars, upVars, mainVars
<1> QED
  BY <1>1, <1>2, <1>4, <1>5, <1>7, <1>8, <1>9 DEF PushNext, thread_up, main

(* A report never has more acknowledgements than datagrams, or more        *)
(* packets by status or forwarded than received.                           *)
THEOREM ReportsConsistent == PushSpec => []ReportConsistent
<1>1. PushInit => CountersInv
  BY ZeroConsistent DEF PushInit, CountersInv
<1>2. CountersInv => ReportConsistent
  BY DEF CountersInv, Consistent, ReportConsistent
<1> QED
  BY <1>1, <1>2, NextCountersInv, PTL DEF PushSpec

=============================================================================
