---------------------------- MODULE PushProtocol ----------------------------
(***************************************************************************)
(* The upstream path (lora_pkt_fwd.c): thread_up fetches packets, filters  *)
(* and counts them, and sends them in a PUSH_DATA datagram, with the       *)
(* status report that main prepares, then waits for the PUSH_ACK.  main    *)
(* copies and resets the statistics.  A step is a critical section or the  *)
(* code between two; thread_up holds mx_meas_up while it waits for the     *)
(* acknowledgement.                                                        *)
(* The socket is a FIFO.  Acknowledgements are lost, duplicated and late   *)
(* until the network heals, which it may do at any time, for good.         *)
(***************************************************************************)
EXTENDS Integers, Sequences, SequencesExt

CONSTANTS
    UpToken,      \* the 16-bit tokens of thread_up
    PktStatus,    \* values of status in packets received
    Forwarded,    \* those let through by fwd_valid_pkt, fwd_error_pkt, ...
    NB_PKT_MAX,   \* packets per fetch
    MaxRx,        \* bound: packets received between two reports
    MaxDgrams,    \* bound: datagrams sent between two reports
    MaxSock       \* bound: acknowledgements waiting in the socket

STAT_CRC_OK == "CRC_OK"
STAT_CRC_BAD == "CRC_BAD"
STAT_NO_CRC == "NO_CRC"

(* A packet with any other status is never forwarded.                      *)
ASSUME PushConstants ==
    /\ Forwarded \subseteq PktStatus \cap {STAT_CRC_OK, STAT_CRC_BAD, STAT_NO_CRC}
    /\ NB_PKT_MAX \in Nat \ {0} /\ MaxSock \in Nat
    /\ MaxRx \in Nat /\ MaxDgrams \in Nat

VARIABLES
    up_pc,                \* where thread_up is
    rxpkt,                \* packets fetched and not yet handled
    pkt_in_dgram, send_report, up_token,
    attempt,              \* how many times recv() was tried
    acked,                \* whether the latest datagram was acknowledged
    meas,                 \* the counters meas_nb_rx_*, meas_up_*
    main_pc, cp,          \* main, and its copy of the counters
    report_ready,
    report_state,         \* history: what became of the latest status_report
    wire, sock,           \* acknowledgements under way and in the socket
    net                   \* "faulty" or "good"

upVars == <<up_pc, rxpkt, pkt_in_dgram, send_report, up_token, attempt, acked>>
mainVars == <<main_pc, cp>>
reportVars == <<report_ready, report_state>>
linkVars == <<wire, sock, net>>
pushVars == <<upVars, meas, mainVars, reportVars, linkVars>>

Counters == {"rcv", "ok", "bad", "nocrc", "fwd", "sent", "ack"}
Zero == [c \in Counters |-> 0]

(* Add 1 to a set of counters.                                             *)
Count(cs) == meas' = [c \in Counters |-> IF c \in cs THEN meas[c] + 1 ELSE meas[c]]

PushInit ==
    /\ up_pc = "fetch" /\ rxpkt = <<>> /\ pkt_in_dgram = 0
    /\ send_report = FALSE /\ up_token \in UpToken /\ attempt = 0 /\ acked = FALSE
    /\ meas = Zero
    /\ main_pc = "wait" /\ cp = Zero
    /\ report_ready = FALSE /\ report_state = "none"
    /\ wire = {} /\ sock = <<>> /\ net = "faulty"

-----------------------------------------------------------------------------
(* thread_up.                                                              *)

(* lgw_receive, under mx_concent.                                          *)
UpFetch ==
    /\ up_pc = "fetch"
    /\ rxpkt' \in BoundedSeq(PktStatus, NB_PKT_MAX)
    /\ meas["rcv"] + Len(rxpkt') <= MaxRx
    /\ up_pc' = "check"
    /\ UNCHANGED <<pkt_in_dgram, send_report, up_token, attempt, acked, meas,
                   mainVars, reportVars, linkVars>>

(* An exit signal is seen, or lgw_receive fails, which ends the program.   *)
UpEnd ==
    /\ up_pc = "fetch"
    /\ up_pc' = "exit"
    /\ UNCHANGED <<rxpkt, pkt_in_dgram, send_report, up_token, attempt, acked,
                   meas, mainVars, reportVars, linkVars>>

(* Mutant: a report waits for packets to go with it.                       *)
UpCheckPacketsOnly ==
    /\ up_pc = "check"
    /\ send_report' = report_ready
    /\ up_pc' = IF rxpkt = <<>> THEN "fetch" ELSE "filter"
    /\ UNCHANGED <<rxpkt, pkt_in_dgram, up_token, attempt, acked, meas, mainVars,
                   reportVars, linkVars>>

(* report_ready is read without mx_stat_rep.                               *)
UpCheck ==
    /\ up_pc = "check"
    /\ send_report' = report_ready
    /\ up_pc' = IF rxpkt = <<>> /\ ~send_report' THEN "fetch" ELSE "filter"
    /\ UNCHANGED <<rxpkt, pkt_in_dgram, up_token, attempt, acked, meas, mainVars,
                   reportVars, linkVars>>

(* The next packet is counted, under mx_meas_up, and forwarded or skipped. *)
UpFilter ==
    /\ up_pc = "filter" /\ rxpkt # <<>>
    /\ LET status == Head(rxpkt)
           fwd == status \in Forwarded
       IN  /\ Count({"rcv"}
                    \cup {c \in {"ok"} : status = STAT_CRC_OK}
                    \cup {c \in {"bad"} : status = STAT_CRC_BAD}
                    \cup {c \in {"nocrc"} : status = STAT_NO_CRC}
                    \cup {c \in {"fwd"} : fwd})
           /\ pkt_in_dgram' = IF fwd THEN pkt_in_dgram + 1 ELSE pkt_in_dgram
    /\ rxpkt' = Tail(rxpkt)
    /\ UNCHANGED <<up_pc, send_report, up_token, attempt, acked, mainVars,
                   reportVars, linkVars>>

(* All packets are handled: nothing to send, or the datagram is completed. *)
UpFiltered ==
    /\ up_pc = "filter" /\ rxpkt = <<>>
    /\ up_pc' = IF send_report THEN "report"
                ELSE IF pkt_in_dgram > 0 THEN "send" ELSE "fetch"
    /\ UNCHANGED <<rxpkt, pkt_in_dgram, send_report, up_token, attempt, acked,
                   meas, mainVars, reportVars, linkVars>>

(* Mutant: report_ready is not cleared.                                    *)
UpReportAgain ==
    /\ up_pc = "report"
    /\ report_state' = "sent"
    /\ up_pc' = "send"
    /\ UNCHANGED <<rxpkt, pkt_in_dgram, send_report, up_token, attempt, acked,
                   meas, mainVars, report_ready, linkVars>>

(* status_report is added to the datagram, under mx_stat_rep.              *)
UpReport ==
    /\ up_pc = "report"
    /\ report_ready' = FALSE
    /\ report_state' = "sent"
    /\ up_pc' = "send"
    /\ UNCHANGED <<rxpkt, pkt_in_dgram, send_report, up_token, attempt, acked,
                   meas, mainVars, linkVars>>

(* Send the datagram, with a random token, which the server acknowledges   *)
(* at once; lock mx_meas_up and count it.  pkt_in_dgram, done with, starts *)
(* again from 0.                                                           *)
UpSend ==
    /\ up_pc = "send" /\ meas["sent"] < MaxDgrams
    /\ Count({"sent"})
    /\ up_token' \in UpToken
    /\ wire' = wire \cup {up_token'}
    /\ attempt' = 0
    /\ pkt_in_dgram' = 0
    /\ up_pc' = "ack"
    /\ UNCHANGED <<rxpkt, send_report, acked, mainVars, reportVars, sock, net>>

(* The attempt is over without the acknowledgement: another, or give up,   *)
(* unlocking mx_meas_up.                                                   *)
NotAcked(again) ==
    /\ attempt' = IF again THEN attempt + 1 ELSE 0
    /\ up_pc' = IF again THEN "ack" ELSE "fetch"
    /\ acked' = IF again THEN acked ELSE FALSE
    /\ UNCHANGED meas

(* recv() times out (EAGAIN).  On a good network that means that nothing   *)
(* is under way.                                                           *)
UpTimeout ==
    /\ up_pc = "ack" /\ sock = <<>>
    /\ net = "good" => wire = {}
    /\ NotAcked(attempt + 1 < 2)
    /\ UNCHANGED <<rxpkt, pkt_in_dgram, send_report, up_token, mainVars,
                   reportVars, linkVars>>

(* recv() fails for another reason: no second attempt.                     *)
UpConnError ==
    /\ up_pc = "ack" /\ net = "faulty"
    /\ NotAcked(FALSE)
    /\ UNCHANGED <<rxpkt, pkt_in_dgram, send_report, up_token, mainVars,
                   reportVars, linkVars>>

(* Mutant: an unexpected datagram ends the wait.                           *)
UpRecvOnce ==
    /\ up_pc = "ack" /\ sock # <<>>
    /\ sock' = Tail(sock)
    /\ IF Head(sock) # up_token
         THEN NotAcked(FALSE)
         ELSE Count({"ack"}) /\ acked' = TRUE /\ up_pc' = "fetch"
                /\ attempt' = 0
    /\ UNCHANGED <<rxpkt, pkt_in_dgram, send_report, up_token, mainVars,
                   reportVars, wire, net>>

(* recv() returns a datagram: out of sync (or not a PUSH_ACK), and one     *)
(* more attempt is made; or the acknowledgement, and mx_meas_up is         *)
(* unlocked.                                                               *)
UpRecv ==
    /\ up_pc = "ack" /\ sock # <<>>
    /\ sock' = Tail(sock)
    /\ IF Head(sock) # up_token
         THEN NotAcked(attempt + 1 < 2)
         ELSE Count({"ack"}) /\ acked' = TRUE /\ up_pc' = "fetch"
                /\ attempt' = 0
    /\ UNCHANGED <<rxpkt, pkt_in_dgram, send_report, up_token, mainVars,
                   reportVars, wire, net>>

-----------------------------------------------------------------------------
(* main.                                                                   *)

(* Mutant: mx_meas_up is not taken.                                        *)
MainCopyUnlocked ==
    /\ main_pc = "wait" /\ up_pc # "exit"
    /\ cp' = meas
    /\ meas' = Zero
    /\ main_pc' = "report"
    /\ UNCHANGED <<upVars, reportVars, linkVars>>

(* Copy and reset, under mx_meas_up.                                       *)
MainCopy ==
    /\ main_pc = "wait" /\ up_pc \notin {"ack", "exit"}
    /\ cp' = meas
    /\ meas' = Zero
    /\ main_pc' = "report"
    /\ UNCHANGED <<upVars, reportVars, linkVars>>

(* Write the report from the copy, which is not used again, under          *)
(* mx_stat_rep.                                                            *)
MainStatus ==
    /\ main_pc = "report" /\ up_pc # "exit"
    /\ cp' = Zero
    /\ report_ready' = TRUE
    /\ report_state' = "new"
    /\ main_pc' = "wait"
    /\ UNCHANGED <<upVars, meas, linkVars>>

-----------------------------------------------------------------------------
(* The network.                                                            *)

Arrive ==
    /\ Len(sock) < MaxSock
    /\ \E t \in wire :
         /\ wire' \in {wire \ {t}} \cup {w \in {wire} : net = "faulty"}
         /\ sock' = Append(sock, t)
    /\ UNCHANGED <<upVars, meas, mainVars, reportVars, net>>

Lose ==
    /\ net = "faulty"
    /\ \E t \in wire : wire' = wire \ {t}
    /\ UNCHANGED <<upVars, meas, mainVars, reportVars, sock, net>>

Heal ==
    /\ net = "faulty"
    /\ net' = "good"
    /\ UNCHANGED <<upVars, meas, mainVars, reportVars, wire, sock>>

-----------------------------------------------------------------------------
thread_up == \/ UpFetch \/ UpEnd \/ UpCheck \/ UpFilter \/ UpFiltered
             \/ UpReport \/ UpSend \/ UpTimeout \/ UpConnError \/ UpRecv

main == MainCopy \/ MainStatus

Network == Arrive \/ Lose \/ Heal

PushNext == thread_up \/ main \/ Network

PushSpec == PushInit /\ [][PushNext]_pushVars

(* thread_up and main loop for ever, and block only in calls that time     *)
(* out; what is under way arrives or is lost.                              *)
PushFairSpec == /\ PushSpec
                /\ WF_pushVars(thread_up) /\ WF_pushVars(main)
                /\ WF_pushVars(Arrive \/ Lose)

-----------------------------------------------------------------------------
(* Properties.                                                             *)

(* PROTOCOL.md calls ackr a percentage of upstream datagrams: a report     *)
(* never has more acknowledgements than datagrams, although the two are    *)
(* counted up to PUSH_TIMEOUT_MS apart and main may ask for a report in    *)
(* between.  Nor has it more packets by status, or forwarded, than         *)
(* packets received.                                                       *)
ReportConsistent ==
    /\ cp["ack"] <= cp["sent"]
    /\ cp["ok"] + cp["bad"] + cp["nocrc"] <= cp["rcv"]
    /\ cp["fwd"] <= cp["rcv"]

(* A status report is sent at most once, although thread_up decides to     *)
(* send one without the lock and copies it later: what it copies is a      *)
(* report that main has written since the last one was sent.               *)
NoReportTwice == up_pc = "report" => report_state = "new"

(* Every report goes out (or is replaced by the next one, which does),     *)
(* with or without packets to forward, as long as the program runs.        *)
ReportSent == report_state = "new" ~> report_state = "sent" \/ up_pc = "exit"

(* "wait for acknowledge (in 2 times, to catch extra packets)": whatever   *)
(* late and duplicate acknowledgements have piled up in the socket, once   *)
(* the network delivers each acknowledgement once and in time, thread_up   *)
(* comes to see that of every datagram it sends.                           *)
AcksCaught ==
    <>[](net = "good") /\ []<>(up_pc = "ack")
      => <>[](up_pc = "fetch" => acked)

=============================================================================
