----------------------------- MODULE Shutdown -----------------------------
(***************************************************************************)
(* How the packet forwarder starts its threads, and how it ends: signals,  *)
(* auto-quit, joining and cancelling the threads, stopping the             *)
(* concentrator (main, sig_handler and the loops of the threads in         *)
(* lora_pkt_fwd.c; lgw_stop in loragw_hal.c).                              *)
(*                                                                         *)
(* Of an iteration of a thread only its access to the concentrator, under  *)
(* mx_concent, is kept, and the loop in which thread_down queues beacons   *)
(* (beacon_period is not 0): it does not end by a signal.  Of the JIT      *)
(* queue only the numbers of packets are kept.                             *)
(***************************************************************************)
EXTENDS Integers, Sequences, SequencesExt

CONSTANTS
    Scan,          \* spectral_scan_params.enable
    Gps,           \* gps_enabled
    JIT_QUEUE_MAX,
    JIT_NUM_BEACON_IN_QUEUE

ASSUME ShutdownConstants ==
    /\ Scan \in BOOLEAN /\ Gps \in BOOLEAN
    /\ JIT_QUEUE_MAX \in Nat
    /\ JIT_NUM_BEACON_IN_QUEUE \in 1 .. JIT_QUEUE_MAX

Joined == <<"up", "down", "jit">> \o IF Scan THEN <<"ss">> ELSE <<>>
Created == Joined \o IF Gps THEN <<"gps", "valid">> ELSE <<>>
Threads == ToSet(Created)

VARIABLES
    com_type,      \* of the concentrator; with USB it is accessed by read() and
                   \* write(), which are cancellation points
    exit_sig, quit_sig,
    main_pc,
    next,          \* main: number of the thread to create, or to join
    pc,            \* of each thread
    cancelled,     \* pthread_cancel has been called, for thrid_gps and thrid_valid
    mx_concent,    \* "free" or the thread that holds it
    hw,            \* the concentrator: "running", "stopped" by lgw_stop, left in
                   \* an unknown state by an lgw_stop that "failed", or "reset"
    num_pkt,       \* jit_queue[0]: number of packets, and how many of them are
    num_beacon,    \* beacons
    beacon_loop,   \* thread_down: number of beacons to queue
    gps_ref_valid  \* and xtal_correct_ok

sigVars == <<exit_sig, quit_sig, com_type>>
mainVars == <<main_pc, next, cancelled, hw>>
threadVars == <<pc, mx_concent>>
beaconVars == <<num_pkt, num_beacon, beacon_loop, gps_ref_valid>>
vars == <<sigVars, mainVars, threadVars, beaconVars>>

(* After lgw_start.                                                        *)
Init ==
    /\ com_type \in {"SPI", "USB"}
    /\ exit_sig = FALSE /\ quit_sig = FALSE
    /\ main_pc = "create" /\ next = 1 /\ cancelled = FALSE /\ hw = "running"
    /\ pc = [t \in Threads |-> "none"] /\ mx_concent = "free"
    /\ num_pkt = 0 /\ num_beacon = 0 /\ beacon_loop = 0 /\ gps_ref_valid = FALSE

Ending == exit_sig \/ quit_sig
Running == main_pc \notin {"exited", "failed"}

-----------------------------------------------------------------------------
(* Signals.  Until main has installed the handlers they end the process.   *)

sig_handler ==
    /\ Running
    /\ IF main_pc = "create"
       THEN /\ main_pc' = "failed" /\ next' = 1
            /\ UNCHANGED <<sigVars, cancelled, hw>>
       ELSE /\ \/ exit_sig' = TRUE /\ UNCHANGED quit_sig
               \/ quit_sig' = TRUE /\ UNCHANGED exit_sig
            /\ UNCHANGED <<com_type, mainVars>>
    /\ UNCHANGED <<threadVars, beaconVars>>

-----------------------------------------------------------------------------
(* Threads.                                                                *)

(* while (!exit_sig && !quit_sig), at the end of an iteration: a thread in *)
(* "work" has found neither flag set.                                      *)
Again == IF Ending THEN "ended" ELSE "work"

(* pthread_mutex_lock: the thread waits until the mutex is free.           *)
ThreadLock(t) ==
    /\ Running /\ pc[t] = "lock"
    /\ mx_concent = "free"
    /\ pc' = [pc EXCEPT ![t] = "concent"] /\ mx_concent' = t
    /\ UNCHANGED <<sigVars, mainVars, beaconVars>>

(* An iteration of thread_up, thread_spectral_scan or thread_gps, which    *)
(* may need the concentrator.                                              *)
ThreadNext(t) ==
    /\ Running /\ t \in {"up", "ss", "gps"}
    /\ \/ /\ pc[t] = "work"
          /\ \E v \in {"lock", Again} : pc' = [pc EXCEPT ![t] = v]
          /\ UNCHANGED mx_concent
       \/ /\ pc[t] = "concent"
          /\ pc' = [pc EXCEPT ![t] = Again] /\ mx_concent' = "free"
    /\ UNCHANGED <<sigVars, mainVars, beaconVars>>

(* thread_jit reads the counter; packets are purged, and one is sent.      *)
JitNext ==
    /\ Running
    /\ \/ /\ pc["jit"] = "work"
          /\ pc' = [pc EXCEPT !["jit"] = "lock"]
          /\ UNCHANGED <<mx_concent, num_pkt, num_beacon>>
       \/ /\ pc["jit"] = "concent"
          /\ pc' = [pc EXCEPT !["jit"] = Again] /\ mx_concent' = "free"
          /\ num_beacon' \in 0 .. num_beacon
          /\ num_pkt' \in num_beacon' .. num_beacon' + num_pkt - num_beacon
    /\ UNCHANGED <<sigVars, mainVars, beacon_loop, gps_ref_valid>>

(* thread_valid sleeps, then looks at the age of the time reference.       *)
ValidNext ==
    /\ Running /\ pc["valid"] = "work"
    /\ pc' = [pc EXCEPT !["valid"] = Again]
    /\ gps_ref_valid' \in BOOLEAN
    /\ UNCHANGED <<sigVars, mainVars, mx_concent, num_pkt, num_beacon, beacon_loop>>

(* thread_down, in the loop that queues beacons, which tests neither flag. *)
(* After it a datagram is ignored, or has a downlink, for which the        *)
(* counter is read, too.                                                   *)
BeaconLoop(n) ==
    IF n # 0 /\ gps_ref_valid
    THEN pc' = [pc EXCEPT !["down"] = "lock"] /\ beacon_loop' = n
    ELSE /\ \E v \in {"lock", Again} : pc' = [pc EXCEPT !["down"] = v]
         /\ beacon_loop' = 0

(* recv() returns.                                                         *)
DownRecv ==
    /\ Running /\ pc["down"] = "work"
    /\ BeaconLoop(JIT_NUM_BEACON_IN_QUEUE - num_beacon)
    /\ UNCHANGED <<sigVars, mainVars, mx_concent, num_pkt, num_beacon, gps_ref_valid>>

(* jit_enqueue, once the counter has been read: a beacon is queued, ...    *)
BeaconQueued ==
    /\ Running /\ pc["down"] = "concent" /\ beacon_loop # 0
    /\ num_pkt < JIT_QUEUE_MAX
    /\ num_pkt' = num_pkt + 1 /\ num_beacon' = num_beacon + 1
    /\ BeaconLoop(beacon_loop - 1) /\ mx_concent' = "free"
    /\ UNCHANGED <<sigVars, mainVars, gps_ref_valid>>

(* ... or refused, also because the queue is full, and is tried again one  *)
(* period later.                                                           *)
BeaconRefused ==
    /\ Running /\ pc["down"] = "concent" /\ beacon_loop # 0
    /\ BeaconLoop(beacon_loop) /\ mx_concent' = "free"
    /\ UNCHANGED <<sigVars, mainVars, num_pkt, num_beacon, gps_ref_valid>>

(* A downlink is queued or refused.                                        *)
DownEnqueue ==
    /\ Running /\ pc["down"] = "concent" /\ beacon_loop = 0
    /\ num_pkt' = num_pkt \/ (num_pkt < JIT_QUEUE_MAX /\ num_pkt' = num_pkt + 1)
    /\ pc' = [pc EXCEPT !["down"] = Again] /\ mx_concent' = "free"
    /\ UNCHANGED <<sigVars, mainVars, num_beacon, beacon_loop, gps_ref_valid>>

(* thread_down: too many PULL_DATA without an answer.                      *)
AutoQuit ==
    /\ Running /\ pc["down"] = "work"
    /\ exit_sig' = TRUE /\ pc' = [pc EXCEPT !["down"] = "ended"]
    /\ UNCHANGED <<quit_sig, com_type, mainVars, mx_concent, beaconVars>>

(* thread_up: lgw_receive failed.                                          *)
UpExit ==
    /\ Running /\ pc["up"] = "concent"
    /\ main_pc' = "failed" /\ next' = 1 /\ mx_concent' = "free"
    /\ UNCHANGED <<sigVars, cancelled, hw, pc, beaconVars>>

(* The cancellation takes effect where thread_valid sleeps, or thread_gps  *)
(* blocks in read(), on the serial port or on the USB device.  A mutex it  *)
(* holds stays locked.                                                     *)
Cancelled(t) ==
    /\ Running /\ cancelled /\ t \in {"gps", "valid"}
    /\ \/ pc[t] = "work"
       \/ pc[t] = "concent" /\ com_type = "USB"
    /\ pc' = [pc EXCEPT ![t] = "ended"]
    /\ UNCHANGED <<sigVars, mainVars, mx_concent, beaconVars>>

-----------------------------------------------------------------------------
(* main.                                                                   *)

(* pthread_create for the next thread, or its failure; after the last one  *)
(* the handlers are installed.                                             *)
MainCreate ==
    /\ main_pc = "create"
    /\ \/ /\ next <= Len(Created)
          /\ pc' = [pc EXCEPT ![Created[next]] = "work"]
          /\ next' = next + 1 /\ UNCHANGED main_pc
       \/ /\ next <= Len(Created)
          /\ main_pc' = "failed" /\ next' = 1 /\ UNCHANGED pc
       \/ /\ next > Len(Created)
          /\ main_pc' = "loop" /\ next' = 1 /\ UNCHANGED pc
    /\ UNCHANGED <<sigVars, cancelled, hw, mx_concent, beaconVars>>

(* The loop of main: sleep, then the statistics, for which the counters    *)
(* and the temperature are read.                                           *)
MainLoop ==
    /\ \/ /\ main_pc = "loop" /\ main_pc' = IF Ending THEN "join" ELSE "stat"
          /\ UNCHANGED mx_concent
       \/ /\ main_pc = "stat" /\ mx_concent = "free"
          /\ main_pc' = "concent" /\ mx_concent' = "main"
       \/ main_pc = "concent" /\ main_pc' = "loop" /\ mx_concent' = "free"
    /\ UNCHANGED <<sigVars, next, cancelled, hw, pc, beaconVars>>

(* Mutant: thread_jit is not joined.                                       *)
MainJoinNotJit ==
    /\ main_pc = "join"
    /\ IF next <= 2
       THEN pc[Joined[next]] = "ended" /\ next' = next + 1 /\ UNCHANGED main_pc
       ELSE main_pc' = "cancel" /\ UNCHANGED next
    /\ UNCHANGED <<sigVars, cancelled, hw, threadVars, beaconVars>>

(* Mutant: thread_gps is cancelled before the others are joined.           *)
MainJoinCancelsFirst ==
    /\ main_pc = "join"
    /\ cancelled' = Gps
    /\ IF next <= Len(Joined)
       THEN pc[Joined[next]] = "ended" /\ next' = next + 1 /\ UNCHANGED main_pc
       ELSE main_pc' = "cancel" /\ UNCHANGED next
    /\ UNCHANGED <<sigVars, hw, threadVars, beaconVars>>

(* pthread_join, in the order of creation.                                 *)
MainJoin ==
    /\ main_pc = "join"
    /\ IF next <= Len(Joined)
       THEN pc[Joined[next]] = "ended" /\ next' = next + 1 /\ UNCHANGED main_pc
       ELSE main_pc' = "cancel" /\ UNCHANGED next
    /\ UNCHANGED <<sigVars, cancelled, hw, threadVars, beaconVars>>

MainCancel ==
    /\ main_pc = "cancel"
    /\ cancelled' = Gps /\ main_pc' = "stop"
    /\ UNCHANGED <<sigVars, next, hw, threadVars, beaconVars>>

(* Mutant: SIGQUIT prevails.                                               *)
MainStopOneSignal ==
    /\ main_pc = "stop"
    /\ hw' \in IF exit_sig /\ ~quit_sig THEN {"stopped", "failed"} ELSE {hw}
    /\ main_pc' = "reset"
    /\ UNCHANGED <<sigVars, next, cancelled, threadVars, beaconVars>>

(* lgw_stop, without mx_concent, after SIGINT, SIGTERM or auto-quit only.  *)
(* main only warns when it fails.                                          *)
MainStop ==
    /\ main_pc = "stop"
    /\ hw' \in IF exit_sig THEN {"stopped", "failed"} ELSE {hw}
    /\ main_pc' = "reset"
    /\ UNCHANGED <<sigVars, next, cancelled, threadVars, beaconVars>>

(* The reset script, for SPI, which may fail; exit().                      *)
MainExit ==
    /\ main_pc = "reset"
    /\ \/ hw' = (IF com_type = "SPI" THEN "reset" ELSE hw) /\ main_pc' = "exited"
       \/ com_type = "SPI" /\ main_pc' = "failed" /\ UNCHANGED hw
    /\ UNCHANGED <<sigVars, next, cancelled, threadVars, beaconVars>>

-----------------------------------------------------------------------------
thread_down == DownRecv \/ BeaconQueued \/ BeaconRefused \/ DownEnqueue

Thread(t) ==
    \/ ThreadLock(t) \/ ThreadNext(t)
    \/ t = "down" /\ thread_down
    \/ t = "jit" /\ JitNext
    \/ t = "valid" /\ ValidNext

Main ==
    \/ MainCreate \/ MainLoop \/ MainJoin \/ MainCancel \/ MainStop \/ MainExit

Next ==
    \/ \E t \in Threads : Thread(t) \/ Cancelled(t)
    \/ Main \/ AutoQuit \/ UpExit \/ sig_handler
    \/ ~Running /\ UNCHANGED vars

Spec == Init /\ [][Next]_vars

(* Every thread goes on: it blocks only in calls with a timeout and for    *)
(* mx_concent, for which no order of service is assumed but that           *)
(* thread_jit gets it at last, although thread_down takes it over and      *)
(* over.  While the queue is not full a beacon is not refused for ever:    *)
(* each retry is for a later slot, and the packets queued take up finitely *)
(* many of them.                                                           *)
FairSpec ==
    /\ Spec
    /\ \A t \in Threads \ {"jit"} : WF_vars(Thread(t))
    /\ SF_vars(Thread("jit"))
    /\ SF_vars(BeaconQueued)
    /\ WF_vars(Main)

-----------------------------------------------------------------------------
Stopping == main_pc \in {"stop", "reset", "exited"}

(* "wait for all threads with a COM with the concentrator board to         *)
(* finish": when main stops or resets the concentrator, which it does      *)
(* without mx_concent, thread_up, thread_down, thread_jit and              *)
(* thread_spectral_scan have ended, and none of them left it locked.       *)
StopsAlone ==
    Stopping => \A t \in ToSet(Joined) : pc[t] = "ended" /\ mx_concent # t

(* thread_down tries for ever to queue a beacon, in a queue that is full:  *)
(* the threads that would take a packet out of it, or see the time         *)
(* reference get old, have ended.                                          *)
Hung ==
    /\ pc["down"] \in {"lock", "concent"} /\ beacon_loop # 0
    /\ gps_ref_valid /\ num_pkt = JIT_QUEUE_MAX
    /\ pc["jit"] = "ended" /\ Gps /\ pc["valid"] = "ended"

(* Once a signal has come or thread_down has given up, the program ends,   *)
(* although a thread may be cancelled while it holds mx_concent and        *)
(* although the loop that queues beacons does not test for a signal.  The  *)
(* one exception to "1 fetch cycle max" (main) is that loop with the queue *)
(* full.                                                                   *)
Ends == Ending ~> ~Running \/ Hung

(* After SIGINT, SIGTERM or auto-quit the concentrator is stopped, also    *)
(* when the end began with SIGQUIT, unless the process fails or hangs on   *)
(* the way; with SPI it is reset if lgw_stop fails, with USB main only     *)
(* warns of it.                                                            *)
ExitStops ==
    exit_sig /\ main_pc \in {"loop", "stat", "concent", "join"} ~>
        \/ hw \in {"stopped", "reset"}
        \/ hw = "failed" /\ com_type = "USB"
        \/ main_pc = "failed" \/ Hung

=============================================================================
