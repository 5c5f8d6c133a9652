--------------------------- MODULE ShutdownProofs ---------------------------
(***************************************************************************)
(* main stops the concentrator alone, whichever threads there are.         *)
(***************************************************************************)
EXTENDS Shutdown, SequenceTheorems, TLAPS

(* Three elements followed by one.                                         *)
LEMMA ThreeAndOne ==
    ASSUME NEW S, NEW a \in Seq(S), NEW b \in Seq(S), Len(a) = 3, Len(b) = 1
    PROVE  /\ a \o b \in Seq(S) /\ Len(a \o b) = 4
           /\ \A i \in 1 .. 3 : (a \o b)[i] = a[i]
           /\ (a \o b)[4] = b[1]
<1>1. /\ a \o b \in Seq(S) /\ Len(a \o b) = Len(a) + Len(b)
      /\ \A i \in 1 .. Len(a) + Len(b) :
           (a \o b)[i] = IF i <= Len(a) THEN a[i] ELSE b[i - Len(a)]
  BY ConcatProperties, Zenon
<1>2. /\ Len(a \o b) = 4
      /\ \A i \in 1 .. 4 : (a \o b)[i] = IF i <= 3 THEN a[i] ELSE b[i - 3]
  <2>1. Len(a) + Len(b) = 4
    OBVIOUS
  <2> QED
    BY <1>1, <2>1, Zenon
<1>3. ASSUME NEW f, \A i \in 1 .. 4 : f[i] = IF i <= 3 THEN a[i] ELSE b[i - 3]
      PROVE  (\A i \in 1 .. 3 : f[i] = a[i]) /\ f[4] = b[1]
  BY <1>3
<1> QED
  BY <1>1, <1>2, <1>3, Zenon

(* The threads joined, and those created: the same and two more.           *)
LEMMA JoinedIs ==
    /\ Joined \in Seq({"up", "down", "jit", "ss"})
    /\ Len(Joined) = IF Scan THEN 4 ELSE 3
    /\ Joined[1] = "up" /\ Joined[2] = "down" /\ Joined[3] = "jit"
    /\ Scan => Joined[4] = "ss"
<1> DEFINE base == <<"up", "down", "jit">>
<1>1. /\ base \in Seq({"up", "down", "jit", "ss"}) /\ Len(base) = 3
      /\ base[1] = "up" /\ base[2] = "down" /\ base[3] = "jit"
  OBVIOUS
<1>3. Joined = base \o IF Scan THEN <<"ss">> ELSE <<>>
  BY DEF Joined
<1> HIDE DEF base
<1>4. CASE Scan
  <2>1. Joined = base \o <<"ss">>
    BY <1>3, <1>4
  <2>2. /\ Joined \in Seq({"up", "down", "jit", "ss"})
        /\ Len(Joined) = 4
        /\ \A i \in 1 .. 3 : Joined[i] = base[i]
        /\ Joined[4] = <<"ss">>[1]
    <3> DEFINE ss == <<"ss">>
    <3>1. ss \in Seq({"up", "down", "jit", "ss"}) /\ Len(ss) = 1
      OBVIOUS
    <3>2. Joined = base \o ss
      BY <2>1
    <3> HIDE DEF ss
    <3>3. /\ Joined \in Seq({"up", "down", "jit", "ss"}) /\ Len(Joined) = 4
          /\ \A i \in 1 .. 3 : Joined[i] = base[i]
          /\ Joined[4] = ss[1]
      BY <1>1, <3>1, <3>2, ThreeAndOne
    <3> QED
      BY <3>3 DEF ss
  <2> QED
    BY <1>1, <1>4, <2>2
<1>5. CASE ~Scan
  <2>1. Joined = base
    BY <1>1, <1>3, <1>5
  <2> QED
    BY <1>1, <1>5, <2>1
<1> QED
  BY <1>4, <1>5

(* The threads created, in order.                                          *)
LEMMA CreatedIs == Created = IF Gps THEN Joined \o <<"gps", "valid">> ELSE Joined
<1>1. CASE ~Gps
  BY <1>1, JoinedIs DEF Created
<1> QED
  BY <1>1 DEF Created

(* Each thread is created once; all but the last two are joined.           *)
LEMMA ThreadFacts ==
    /\ Len(Joined) \in Nat /\ Len(Created) \in Nat
    /\ ToSet(Joined) = {Joined[i] : i \in 1 .. Len(Joined)}
    /\ Threads = {Created[i] : i \in 1 .. Len(Created)}
    /\ \A i, j \in 1 .. Len(Created) : Created[i] = Created[j] => i = j
    /\ ToSet(Joined) \subseteq Threads
    /\ ToSet(Joined) \subseteq {"up", "down", "jit", "ss"}
    /\ Threads \subseteq {"up", "down", "jit", "ss", "gps", "valid"}
<1>1. /\ Joined \in Seq({"up", "down", "jit", "ss"})
      /\ Len(Joined) \in Nat /\ DOMAIN Joined = 1 .. Len(Joined)
      /\ \A i \in 1 .. Len(Joined) : Joined[i] \in {"up", "down", "jit", "ss"}
      /\ \A i, j \in 1 .. Len(Joined) : Joined[i] = Joined[j] => i = j
  <2>1. CASE Scan
    BY <2>1, JoinedIs
  <2>2. CASE ~Scan
    BY <2>2, JoinedIs
  <2> QED
    BY <2>1, <2>2
<1>2. /\ Len(Created) \in Nat /\ DOMAIN Created = 1 .. Len(Created)
      /\ Len(Joined) <= Len(Created)
      /\ \A i \in 1 .. Len(Joined) : Created[i] = Joined[i]
      /\ \A i \in 1 .. Len(Created) :
           Created[i] \in {"up", "down", "jit", "ss", "gps", "valid"}
      /\ \A i, j \in 1 .. Len(Created) : Created[i] = Created[j] => i = j
  <2>1. CASE Gps
    <3>1. Created = Joined \o <<"gps", "valid">>
      BY <2>1, CreatedIs
    <3>2. /\ Len(Created) = Len(Joined) + 2 /\ DOMAIN Created = 1 .. Len(Joined) + 2
          /\ \A i \in 1 .. Len(Joined) : Created[i] = Joined[i]
          /\ Created[Len(Joined) + 1] = "gps" /\ Created[Len(Joined) + 2] = "valid"
      BY <1>1, <3>1
    <3> QED
      BY <1>1, <3>2
  <2>2. CASE ~Gps
    BY <1>1, <2>2, CreatedIs
  <2> QED
    BY <2>1, <2>2
<1>3. /\ ToSet(Joined) = {Joined[i] : i \in 1 .. Len(Joined)}
      /\ Threads = {Created[i] : i \in 1 .. Len(Created)}
  BY <1>1, <1>2 DEF Threads, ToSet
<1>4. ToSet(Joined) \subseteq Threads
  BY <1>1, <1>2, <1>3
<1> QED
  BY <1>1, <1>2, <1>3, <1>4

-----------------------------------------------------------------------------
Past == main_pc \in {"cancel", "stop", "reset", "exited"}

(* Threads are created once, a thread that is joined holds mx_concent only *)
(* while it works with the concentrator, and main has waited for as many   *)
(* threads as it has counted.                                              *)
StopInv ==
    /\ next \in Nat \ {0}
    /\ pc \in [Threads -> {"none", "work", "lock", "concent", "ended"}]
    /\ main_pc = "create" =>
         \A i \in 1 .. Len(Created) : i >= next => pc[Created[i]] = "none"
    /\ Running => \A t \in ToSet(Joined) : mx_concent = t => pc[t] = "concent"
    /\ main_pc = "join" =>
         \A i \in 1 .. Len(Joined) : i < next => pc[Joined[i]] = "ended"
    /\ Past => \A t \in ToSet(Joined) : pc[t] = "ended" /\ mx_concent # t
    /\ main_pc \in {"loop", "stat", "concent"} => next = 1

(* The program starts without threads.                                     *)
LEMMA InitStopInv == Init => StopInv
<1> SUFFICES ASSUME Init PROVE StopInv
  OBVIOUS
<1>1. \A i \in 1 .. Len(Created) : Created[i] \in Threads
  BY ThreadFacts
<1>2. \A t \in ToSet(Joined) : mx_concent # t
  BY ThreadFacts, Zenon DEF Init
<1> QED
  BY <1>1, <1>2 DEF Init, StopInv, Past, Running

(* A step of a thread that has neither ended nor yet begun.                *)
LEMMA ThreadStep ==
    ASSUME StopInv, Running, UNCHANGED <<main_pc, next>>,
           NEW t \in Threads, pc[t] \notin {"none", "ended"},
           NEW v \in {"work", "lock", "concent", "ended"},
           pc' = [pc EXCEPT ![t] = v],
           \A u \in ToSet(Joined) : mx_concent' = u => pc'[u] = "concent"
    PROVE  StopInv'
<1>1. pc' \in [Threads -> {"none", "work", "lock", "concent", "ended"}]
  BY DEF StopInv
<1>2. \A u \in Threads : pc[u] \in {"none", "ended"} => pc'[u] = pc[u]
  BY DEF StopInv
<1>3. /\ \A i \in 1 .. Len(Created) : Created[i] \in Threads
      /\ \A i \in 1 .. Len(Joined) : Joined[i] \in Threads
      /\ \A u \in ToSet(Joined) : u \in Threads
  BY ThreadFacts, Zenon
<1>4. main_pc' = "create" =>
        \A i \in 1 .. Len(Created) : i >= next' => pc'[Created[i]] = "none"
  BY <1>2, <1>3 DEF StopInv
<1>5. main_pc' = "join" =>
        \A i \in 1 .. Len(Joined) : i < next' => pc'[Joined[i]] = "ended"
  BY <1>2, <1>3 DEF StopInv
<1>6. Past' => \A u \in ToSet(Joined) : pc'[u] = "ended" /\ mx_concent' # u
  <2> SUFFICES ASSUME Past', NEW u \in ToSet(Joined)
               PROVE  pc'[u] = "ended" /\ mx_concent' # u
    OBVIOUS
  <2>1. pc[u] = "ended"
    BY DEF StopInv, Past
  <2> QED
    BY <1>2, <1>3, <2>1
<1> QED
  BY <1>1, <1>4, <1>5, <1>6 DEF StopInv, Running

(* A step of main that leaves the threads alone.                           *)
LEMMA MainStep ==
    ASSUME StopInv, UNCHANGED pc, next' \in Nat \ {0},
           main_pc' # "create",
           main_pc' \in {"loop", "stat", "concent"} => next' = 1,
           main_pc' = "join" =>
             \A i \in 1 .. Len(Joined) : i < next' => pc[Joined[i]] = "ended",
           Running' => \A u \in ToSet(Joined) : mx_concent' = u => pc[u] = "concent",
           Past' => \A u \in ToSet(Joined) : pc[u] = "ended" /\ mx_concent' # u
    PROVE  StopInv'
BY DEF StopInv

-----------------------------------------------------------------------------
(* Threads end for good, and release the mutex before.                     *)
LEMMA NextStopInv == StopInv /\ [Next]_vars => StopInv'
<1> SUFFICES ASSUME StopInv, [Next]_vars PROVE StopInv'
  OBVIOUS
<1>0. /\ \A u \in ToSet(Joined) : u \in Threads
      /\ \A u \in ToSet(Joined) : u \notin {"free", "main", "gps", "valid"}
  BY ThreadFacts, Zenon
<1>a. Again \in {"work", "ended"}
  BY DEF Again
<1>b. ASSUME NEW t \in Threads, Running, UNCHANGED <<main_pc, next>>,
             NEW v \in {"work", "lock", "concent", "ended"},
             pc' = [pc EXCEPT ![t] = v],
             \/ pc[t] \in {"work", "lock"} /\ UNCHANGED mx_concent
             \/ pc[t] = "lock" /\ v = "concent" /\ mx_concent' = t
             \/ pc[t] = "concent" /\ mx_concent' = "free"
      PROVE  StopInv'
  <2>1. \A u \in ToSet(Joined) : mx_concent' = u => pc'[u] = "concent"
    BY <1>0, <1>b DEF StopInv
  <2>2. pc[t] \notin {"none", "ended"}
    BY <1>b
  <2> QED
    BY <1>b, <2>1, <2>2, ThreadStep, Zenon
<1>1. ASSUME NEW t \in Threads, Thread(t) PROVE StopInv'
  <2>1. CASE ThreadLock(t)
    BY <1>b, <2>1, Zenon DEF ThreadLock, mainVars
  <2>2. CASE ThreadNext(t)
    BY <1>a, <1>b, <2>2 DEF ThreadNext, mainVars
  <2>3. CASE t = "down" /\ thread_down
    <3>1. /\ Running /\ UNCHANGED <<main_pc, next>>
          /\ \E v \in {"lock", Again} : pc' = [pc EXCEPT !["down"] = v]
          /\ \/ pc["down"] = "work" /\ UNCHANGED mx_concent
             \/ pc["down"] = "concent" /\ mx_concent' = "free"
      BY <2>3
      DEF thread_down, DownRecv, BeaconQueued, BeaconRefused, DownEnqueue, BeaconLoop,
          mainVars
    <3> QED
      BY <1>a, <1>b, <2>3, <3>1, Zenon
  <2>4. CASE t = "jit" /\ JitNext
    BY <1>a, <1>b, <2>4 DEF JitNext, mainVars
  <2>5. CASE t = "valid" /\ ValidNext
    BY <1>a, <1>b, <2>5, Zenon DEF ValidNext, mainVars
  <2> QED
    BY <1>1, <2>1, <2>2, <2>3, <2>4, <2>5 DEF Thread
<1>2. CASE MainCreate
  <2>1. CASE next <= Len(Created) /\ main_pc' = main_pc
    <3>1. /\ pc' = [pc EXCEPT ![Created[next]] = "work"] /\ next' = next + 1
          /\ main_pc = "create" /\ mx_concent' = mx_concent
      BY <1>2, <2>1 DEF MainCreate
    <3>2. next \in 1 .. Len(Created)
      BY <2>1, ThreadFacts DEF StopInv
    <3>3. pc[Created[next]] = "none"
      BY <3>1, <3>2 DEF StopInv
    <3>4. pc' \in [Threads -> {"none", "work", "lock", "concent", "ended"}]
      BY <3>1, Zenon DEF StopInv
    <3>5. \A i \in 1 .. Len(Created) : i >= next' => pc'[Created[i]] = "none"
      BY <3>1, <3>2, ThreadFacts DEF StopInv
    <3>6. \A u \in ToSet(Joined) : mx_concent' = u => pc'[u] = "concent"
      BY <1>0, <3>1, <3>3 DEF StopInv, Running
    <3> QED
      BY <2>1, <3>1, <3>4, <3>5, <3>6 DEF StopInv, Past
  <2>2. CASE main_pc' \in {"failed", "loop"} /\ next' = 1 /\ UNCHANGED pc
    <3>1. main_pc = "create" /\ mx_concent' = mx_concent
      BY <1>2 DEF MainCreate
    <3> QED
      BY <2>2, <3>1, MainStep DEF StopInv, Past, Running
  <2> QED
    BY <1>2, <2>1, <2>2 DEF MainCreate
<1>3. CASE MainLoop
  <2>1. /\ UNCHANGED <<next, pc>> /\ next = 1
        /\ main_pc' \in {"loop", "stat", "concent", "join"}
        /\ mx_concent' \in {mx_concent, "free", "main"}
        /\ main_pc \in {"loop", "stat", "concent"}
    BY <1>3 DEF MainLoop, StopInv
  <2>2. \A u \in ToSet(Joined) : mx_concent' = u => pc[u] = "concent"
    BY <1>0, <2>1 DEF StopInv, Running
  <2> QED
    BY <2>1, <2>2, MainStep, ThreadFacts DEF Past
<1>4. CASE MainJoin
  <2>1. UNCHANGED <<pc, mx_concent>> /\ main_pc = "join"
    BY <1>4 DEF MainJoin, threadVars
  <2>2. \A u \in ToSet(Joined) : mx_concent = u => pc[u] = "concent"
    BY <2>1 DEF StopInv, Running
  <2>3. CASE next <= Len(Joined)
    <3>1. /\ pc[Joined[next]] = "ended" /\ next' = next + 1 /\ main_pc' = "join"
      BY <1>4, <2>1, <2>3 DEF MainJoin
    <3>2. \A i \in 1 .. Len(Joined) : i < next' => pc[Joined[i]] = "ended"
      BY <2>1, <3>1 DEF StopInv
    <3>3. next' \in Nat \ {0}
      BY <3>1 DEF StopInv
    <3> QED
      BY <2>1, <2>2, <3>1, <3>2, <3>3, MainStep DEF Past
  <2>4. CASE ~(next <= Len(Joined))
    <3>1. main_pc' = "cancel" /\ next' = next
      BY <1>4, <2>4 DEF MainJoin
    <3>2. \A u \in ToSet(Joined) : pc[u] = "ended"
      BY <2>1, <2>4, ThreadFacts DEF StopInv
    <3>3. \A u \in ToSet(Joined) : mx_concent # u
      BY <2>2, <3>2
    <3>4. next' \in Nat \ {0}
      BY <3>1 DEF StopInv
    <3> QED
      BY <2>1, <2>2, <3>1, <3>2, <3>3, <3>4, MainStep
  <2> QED
    BY <2>3, <2>4
<1>5. CASE MainCancel \/ MainStop \/ MainExit
  <2>1. UNCHANGED <<pc, mx_concent, next>> /\ Past /\ Running
        /\ main_pc' \in {"stop", "reset", "exited", "failed"}
    BY <1>5 DEF MainCancel, MainStop, MainExit, threadVars, Past, Running
  <2> QED
    BY <2>1, MainStep DEF StopInv
<1>6. CASE AutoQuit
  <2>1. "down" \in Threads
    <3>1. 2 \in 1 .. Len(Joined) /\ Joined[2] = "down"
      BY JoinedIs
    <3> QED
      BY <3>1, ThreadFacts
  <2>2. \A u \in ToSet(Joined) : mx_concent' = u => pc'[u] = "concent"
    BY <1>0, <1>6, <2>1 DEF AutoQuit, StopInv
  <2> QED
    BY <1>6, <2>1, <2>2, ThreadStep, Zenon DEF AutoQuit, mainVars
<1>7. CASE UpExit
  BY <1>7, MainStep DEF UpExit, Past, Running
<1>8. CASE sig_handler
  <2>1. CASE main_pc = "create"
    BY <1>8, <2>1, MainStep DEF sig_handler, threadVars, Past, Running
  <2>2. CASE main_pc # "create"
    BY <1>8, <2>2 DEF sig_handler, threadVars, mainVars, StopInv, Past, Running
  <2> QED
    BY <2>1, <2>2
<1>9. ASSUME NEW t \in Threads, Cancelled(t) PROVE StopInv'
  <2>1. \A u \in ToSet(Joined) : mx_concent' = u => pc'[u] = "concent"
    BY <1>0, <1>9 DEF Cancelled, StopInv
  <2> QED
    BY <1>9, <2>1, ThreadStep, Zenon DEF Cancelled, mainVars
<1>10. CASE UNCHANGED vars
  BY <1>10 DEF vars, mainVars, threadVars, StopInv, Past, Running
<1> QED
  BY <1>1, <1>2, <1>3, <1>4, <1>5, <1>6, <1>7, <1>8, <1>9, <1>10 DEF Next, Main

(* When main stops or resets the concentrator, without mx_concent, every   *)
(* thread but thread_gps and thread_valid has ended, and none of them left *)
(* it locked.                                                              *)
THEOREM AlwaysStopsAlone == Spec => []StopsAlone
<1>1. StopInv => StopsAlone
  BY DEF StopInv, StopsAlone, Stopping, Past
<1> QED
  BY <1>1, InitStopInv, NextStopInv, PTL DEF Spec

=============================================================================
