------------------------- MODULE LinuxMonitorProofs -------------------------
(***************************************************************************)
(* Theorems about LinuxMonitor, for every set of devices, every choice of  *)
(* faults and every size of the socket's buffer.                           *)
(***************************************************************************)
EXTENDS LinuxMonitor, TLAPS

-----------------------------------------------------------------------------
(***************************************************************************)
(* The inductive invariant.                                                *)
(***************************************************************************)
BeforeThread ==
  {"idle", "calloc", "mutex_init", "cond_init", "pipe", "lock", "create"}

CleanUpPlaces == {"cleanup_init", "cleanup_pfd", "cleanup_m", "out"}

\* There is a thread from pthread_create to pthread_join, and pr tells, after
\* the wait, which of the two ends of ser_dev_monitor_init is being reached.
Threads ==
  /\ app \in BeforeThread => td = "none"
  /\ app \in AppPlaces \ (BeforeThread \cup CleanUpPlaces) => td # "none"
  /\ app \in CleanUpPlaces => (td # "none" <=> pr = "0")
  /\ app \in BeforeThread \cup {"timedwait", "waiting", "running", "stopping"}
       => pr = "none"
  /\ app = "reacquire" => pr # "none"
  /\ app \in {"abandon", "join"} => pr = "ETIMEDOUT"

\* init_m excludes.
Mutex ==
  /\ owner = "app" <=>
       app \in {"create", "timedwait", "abandon", "join", "cleanup_init"}
  /\ owner = "td" <=> td \in {"signal", "unlock"}

\* What is acquired, by the place of the application thread.
WithMutex ==
  {"cond_init", "pipe", "lock", "create", "timedwait", "waiting", "reacquire",
   "abandon", "join", "cleanup_init", "cleanup_pfd", "cleanup_m"}

WithCond == WithMutex \ {"cond_init", "cleanup_m"}

Memory ==
  /\ app \in AppPlaces \ {"idle", "calloc", "out"} => "mon" \in live
  /\ app = "out" /\ pr = "0" => "mon" \in live
  /\ app \in {"idle", "calloc"} => "mon" \notin live
  /\ "mutex" \in live <=> app \in WithMutex
  /\ "cond" \in live <=> app \in WithCond

\* The two ends of the pipe; without a failure of pthread_create they are
\* open only as long as somebody is there to close them.
HoldsWriteEnd ==
  \/ app \in {"lock", "create", "timedwait", "waiting", "reacquire", "abandon",
              "running"}
  \/ app \in CleanUpPlaces /\ pr = "0"

HoldsReadEnd == app \in {"lock", "create"} \/ Alive

Pipe ==
  /\ HoldsWriteEnd => "pfd1" \in live
  /\ HoldsReadEnd => "pfd0" \in live
  /\ app = "stopping" => "pfd1" \notin live
  /\ "create" \notin faults =>
       /\ "pfd1" \in live => HoldsWriteEnd
       /\ "pfd0" \in live => HoldsReadEnd

\* Until the thread has signalled, ser_dev_monitor_init is not past its wait.
Startup ==
  "spurious" \notin faults =>
    /\ td \in {"setup", "lock", "signal", "unlock"} =>
         app \in {"timedwait", "waiting", "reacquire", "abandon", "join"}
    /\ td \in {"setup", "lock", "signal"} => ~(app = "reacquire" /\ pr = "0")

\* A callback that begins after the stop is the last.
LastCallback ==
  /\ late \in {0, 1}
  /\ late = 1 => app = "stopping" /\ td \in {"callback", "select", "exit", "done"}
  /\ td = "receive" => uq # <<>>

IInv ==
  /\ TypeOK /\ Threads /\ Mutex /\ Memory /\ Pipe /\ Startup /\ LastCallback

-----------------------------------------------------------------------------
(***************************************************************************)
(* The invariant holds at first and is preserved by every action.          *)
(***************************************************************************)
\* The socket's buffer, as an action may leave it.
Buffer == uq \in Seq(Event) /\ Len(uq) <= QCap

LEMMA EmptyBuffer == <<>> \in Seq(Event) /\ Len(<<>>) <= QCap
  BY QCapAssumption

LEMMA ShorterBuffer ==
  ASSUME Buffer, uq # <<>>
  PROVE  /\ Tail(uq) \in Seq(Event) /\ Len(Tail(uq)) <= QCap
         /\ Head(uq) \in Event
  BY QCapAssumption DEF Buffer

LEMMA LongerBuffer ==
  ASSUME Buffer, NEW e \in Event, Len(uq) < QCap
  PROVE  Append(uq, e) \in Seq(Event) /\ Len(Append(uq, e)) <= QCap
  BY QCapAssumption DEF Buffer

LEMMA InitEstablishes == Init => IInv
<1> SUFFICES ASSUME Init PROVE IInv
  OBVIOUS
<1>1. uq \in Seq(Event) /\ Len(uq) <= QCap
  BY EmptyBuffer DEF Init
<1>2. TypeOK
  BY <1>1 DEF Init, TypeOK, AppPlaces, TdPlaces
<1>3. QED
  BY <1>2 DEF Init, IInv, Threads, Mutex, Memory, Pipe, Startup, LastCallback,
              BeforeThread, CleanUpPlaces, WithMutex, WithCond, HoldsWriteEnd,
              HoldsReadEnd, Alive, AppPlaces

LEMMA StepPreserves == IInv /\ [Next]_vars => IInv'
<1> SUFFICES ASSUME IInv, [Next]_vars PROVE IInv'
  OBVIOUS
<1> USE DEF IInv, TypeOK, Threads, Mutex, Memory, Pipe, Startup, LastCallback,
        BeforeThread, CleanUpPlaces, WithMutex, WithCond, HoldsWriteEnd,
        HoldsReadEnd, Alive, AppPlaces, TdPlaces, appv, kernel
<1>1. CASE InitBegin
  BY <1>1 DEF InitBegin
<1>2. CASE Prepare
  <2>0. UNCHANGED <<faults, td, pr, owner, kernel, known, late>>
    BY <1>2 DEF Prepare
  <2>1. CASE Acquire("calloc", {"mon"}, "mutex_init", "out")
    BY <2>0, <2>1 DEF Acquire
  <2>2. CASE Acquire("mutex_init", {"mutex"}, "cond_init", "out")
    BY <2>0, <2>2 DEF Acquire
  <2>3. CASE Acquire("cond_init", {"cond"}, "pipe", "cleanup_m")
    BY <2>0, <2>3 DEF Acquire
  <2>4. CASE Acquire("pipe", {"pfd0", "pfd1"}, "lock", "cleanup_pfd")
    BY <2>0, <2>4 DEF Acquire
  <2>5. QED
    BY <1>2, <2>1, <2>2, <2>3, <2>4 DEF Prepare
<1>3. CASE InitLock
  BY <1>3 DEF InitLock
<1>4. CASE CreateThread
  BY <1>4 DEF CreateThread, Acquire
<1>5. CASE BeginWait
  BY <1>5 DEF BeginWait
<1>6. CASE WaitEnds
  <2>1. app = "waiting" /\ app' = "reacquire"
    BY <1>6 DEF WaitEnds
  <2>2. TypeOK' /\ Threads' /\ Mutex' /\ Memory' /\ Pipe' /\ LastCallback'
    BY <1>6, <2>1 DEF WaitEnds
  <2>3. pr' = "ETIMEDOUT" \/ "spurious" \in faults'
    BY <1>6 DEF WaitEnds
  <2>4. Startup'
    BY <1>6, <2>1, <2>3 DEF WaitEnds
  <2>5. QED
    BY <2>2, <2>4
<1>7. CASE Reacquire
  BY <1>7 DEF Reacquire
<1>8. CASE Abandon
  BY <1>8 DEF Abandon
<1>9. CASE InitJoin
  BY <1>9 DEF InitJoin
<1>10. CASE CleanUp
  <2>0. UNCHANGED <<faults, td, pr, err, kernel, known, late>>
    BY <1>10 DEF CleanUp
  <2>1. CASE app = "cleanup_init"
    <3>1. app' = "cleanup_pfd" /\ owner' = "none" /\ UNCHANGED live
      BY <1>10, <2>1 DEF CleanUp
    <3>2. TypeOK' /\ Threads' /\ Mutex' /\ Startup' /\ LastCallback'
      BY <2>0, <2>1, <3>1
    <3>3. Memory' /\ Pipe'
      BY <2>0, <2>1, <3>1
    <3>4. QED
      BY <3>2, <3>3
  <2>2. CASE app = "cleanup_pfd"
    <3>1. app' = "cleanup_m" /\ live' = live \ {"cond"} /\ UNCHANGED owner
      BY <1>10, <2>2 DEF CleanUp
    <3>2. TypeOK' /\ Threads' /\ Mutex' /\ Startup' /\ LastCallback'
      BY <2>0, <2>2, <3>1
    <3>3. Memory' /\ Pipe'
      BY <2>0, <2>2, <3>1
    <3>4. QED
      BY <3>2, <3>3
  <2>3. CASE app = "cleanup_m"
    <3>1. app' = "out" /\ live' = live \ {"mutex"} /\ UNCHANGED owner
      BY <1>10, <2>3 DEF CleanUp
    <3>2. TypeOK' /\ Threads' /\ Mutex' /\ Startup' /\ LastCallback'
      BY <2>0, <2>3, <3>1
    <3>3. Memory' /\ Pipe'
      BY <2>0, <2>3, <3>1
    <3>4. QED
      BY <3>2, <3>3
  <2>4. app = "cleanup_init" \/ app = "cleanup_pfd" \/ app = "cleanup_m"
    BY <1>10 DEF CleanUp
  <2>5. QED
    BY <2>1, <2>2, <2>3, <2>4
<1>11. CASE InitReturn
  <2>0. /\ app = "out" /\ pr' = "none"
        /\ UNCHANGED <<faults, td, owner, err, kernel, known, late>>
    BY <1>11 DEF InitReturn
  <2>1. CASE pr = "0"
    <3>1. app' = "running" /\ UNCHANGED live
      BY <1>11, <2>1 DEF InitReturn
    <3>2. QED
      BY <2>0, <2>1, <3>1
  <2>2. CASE pr # "0"
    <3>1. app' = "idle" /\ live' = live \ {"mon"}
      BY <1>11, <2>2 DEF InitReturn
    <3>2. QED
      BY <2>0, <2>2, <3>1
  <2>3. QED
    BY <2>1, <2>2
<1>12. CASE StopClose
  BY <1>12 DEF StopClose
<1>13. CASE StopJoin
  BY <1>13 DEF StopJoin
<1>14. CASE TdSetup
  <2>1. Buffer'
    BY <1>14, EmptyBuffer DEF TdSetup, Buffer
  <2>2. TypeOK'
    BY <1>14, <2>1 DEF TdSetup, Buffer
  <2>3. Threads' /\ Mutex' /\ Memory' /\ Pipe' /\ Startup' /\ LastCallback'
    BY <1>14 DEF TdSetup
  <2>4. QED
    BY <2>2, <2>3
<1>15. CASE TdLock
  BY <1>15 DEF TdLock
<1>16. CASE TdSignal
  BY <1>16 DEF TdSignal
<1>17. CASE TdUnlock
  BY <1>17 DEF TdUnlock
<1>18. CASE TdSelect
  BY <1>18 DEF TdSelect
<1>19. CASE TdReceive
  <2>1. Buffer' /\ Head(uq) \in Event
    BY <1>19, ShorterBuffer DEF TdReceive, Buffer
  <2>2. known' \subseteq Devices
    BY <1>19, <2>1 DEF TdReceive, Reported, Event
  <2>3. late = 0
    BY <1>19 DEF TdReceive
  <2>4. td' \in {"callback", "select"} /\ late' \in {0, 1}
    BY <1>19, <2>3 DEF TdReceive
  <2>5. late' = 1 => app' = "stopping" /\ td' = "callback"
    BY <1>19, <2>3 DEF TdReceive
  <2>6. TypeOK'
    <3>1. UNCHANGED <<appv, owner, live, plugged, listening>> /\ lost' \in BOOLEAN
      BY <1>19 DEF TdReceive
    <3>2. QED
      BY <2>1, <2>2, <2>4, <3>1 DEF Buffer
  <2>7. Threads' /\ Mutex' /\ Memory' /\ Pipe' /\ Startup'
    BY <1>19, <2>4 DEF TdReceive
  <2>8. LastCallback'
    BY <2>4, <2>5
  <2>9. QED
    BY <2>6, <2>7, <2>8
<1>20. CASE TdCallbackReturns
  BY <1>20 DEF TdCallbackReturns
<1>21. CASE TdExit
  <2>1. Buffer'
    BY <1>21, EmptyBuffer DEF TdExit, Buffer
  <2>2. TypeOK'
    BY <1>21, <2>1 DEF TdExit, Buffer
  <2>3. Threads' /\ Mutex' /\ Memory' /\ Pipe' /\ Startup' /\ LastCallback'
    BY <1>21 DEF TdExit
  <2>4. QED
    BY <2>2, <2>3
<1>22. ASSUME NEW d \in Devices, Plug(d) \/ Unplug(d) \/ Other(d)
       PROVE  IInv'
  <2>1. PICK kind \in {"add", "remove"} \cup Noise : Emit(kind, d)
    BY <1>22 DEF Plug, Unplug, Other
  <2>2. Buffer'
    <3>1. [kind |-> kind, dev |-> d] \in Event
      BY DEF Event
    <3>2. QED
      BY <2>1, <3>1, LongerBuffer DEF Emit, Buffer
  <2>3. plugged' \subseteq Devices
    BY <1>22 DEF Plug, Unplug, Other
  <2>4. lost' \in BOOLEAN
    BY <2>1 DEF Emit
  <2>5. TypeOK'
    BY <2>1, <2>2, <2>3, <2>4 DEF Emit, Buffer
  <2>6. Threads' /\ Mutex' /\ Memory' /\ Pipe' /\ Startup'
    BY <2>1 DEF Emit
  <2>7. td = "receive" => uq' # <<>>
    BY <2>1 DEF Emit
  <2>8. LastCallback'
    BY <2>1, <2>7 DEF Emit
  <2>9. QED
    BY <2>5, <2>6, <2>8
<1>23. CASE UNCHANGED vars
  BY <1>23 DEF vars
<1>24. QED
  BY <1>1, <1>2, <1>3, <1>4, <1>5, <1>6, <1>7, <1>8, <1>9, <1>10, <1>11, <1>12,
     <1>13, <1>14, <1>15, <1>16, <1>17, <1>18, <1>19, <1>20, <1>21, <1>22, <1>23 DEF Next, InitStep, TdStep

-----------------------------------------------------------------------------
(***************************************************************************)
(* What follows for every behaviour.                                       *)
(***************************************************************************)

\* The invariant holds in every state of every behaviour.
THEOREM Invariance == Spec => []IInv
  BY InitEstablishes, StepPreserves, PTL DEF Spec

\* Type correctness (dev_linux.c, the ser_dev_mon_t and the two threads).
THEOREM TypeCorrect == Spec => []TypeOK
<1>1. IInv => TypeOK
  BY DEF IInv
<1>2. QED
  BY <1>1, Invariance, PTL

\* No thread uses the monitor, its pipe, mutex or condition after they are
\* released (dev_linux.c:431-466).
THEOREM NoUseAfterRelease == Spec => []UsesOnlyLive
<1>1. IInv => UsesOnlyLive
  BY DEF IInv, TypeOK, UsesOnlyLive, Threads, Memory, Pipe, Startup, HoldsWriteEnd,
         HoldsReadEnd, Alive, BeforeThread, CleanUpPlaces, WithMutex, WithCond,
         AppPlaces, TdPlaces
<1>2. QED
  BY <1>1, Invariance, PTL

\* Every way out of ser_dev_monitor_init and ser_dev_monitor_stop gives back
\* what was acquired (dev_linux.c:442-456, 463-466).
THEOREM NothingLeaks == Spec => []NoLeak
<1>1. IInv => NoLeak
  BY DEF IInv, TypeOK, NoLeak, Threads, Memory, Pipe, HoldsWriteEnd, HoldsReadEnd,
         Alive, BeforeThread, CleanUpPlaces, WithMutex, WithCond, AppPlaces
<1>2. QED
  BY <1>1, Invariance, PTL

\* A monitor that is returned has signalled its initialization
\* (dev_linux.c:431-440).
THEOREM ReturnedIsInitialized == Spec => []RunningIsInitialized
<1>1. IInv => RunningIsInitialized
  BY DEF IInv, RunningIsInitialized, Startup
<1>2. QED
  BY <1>1, Invariance, PTL

-----------------------------------------------------------------------------
(***************************************************************************)
(* The reason of a failure.  Only a failure of the monitoring thread, or   *)
(* its slowness, makes the wait time out: the thread is otherwise on its   *)
(* way to the signal as long as the application waits.                     *)
(***************************************************************************)
Reason ==
  faults \cap UnseenFaults = {} =>
    /\ app \in {"timedwait", "waiting"} => td \in {"setup", "lock", "signal"}
    /\ pr # "ETIMEDOUT"
    /\ app \in CleanUpPlaces /\ pr = "none" => err

LEMMA FaultsAreFixed == [Next]_vars => UNCHANGED faults
<1> SUFFICES ASSUME [Next]_vars
             PROVE  UNCHANGED faults
  OBVIOUS
<1>1. CASE InitBegin \/ StopClose \/ StopJoin \/ UNCHANGED vars
  BY <1>1 DEF InitBegin, StopClose, StopJoin, vars, appv
<1>2. CASE InitStep
  BY <1>2 DEF InitStep, Prepare, InitLock, CreateThread, BeginWait, WaitEnds,
     Reacquire, Abandon, InitJoin, CleanUp, InitReturn
<1>3. CASE TdStep
  BY <1>3 DEF TdStep, TdSetup, TdLock, TdSignal, TdUnlock, TdSelect, TdReceive,
     TdCallbackReturns, TdExit, appv
<1>4. CASE \E d \in Devices : Plug(d) \/ Unplug(d) \/ Other(d)
  BY <1>4 DEF Plug, Unplug, Other, Emit, appv
<1>5. QED
  BY <1>1, <1>2, <1>3, <1>4 DEF Next

LEMMA ReasonPreserved == IInv /\ Reason /\ [Next]_vars => Reason'
<1> SUFFICES ASSUME IInv, Reason, [Next]_vars,
                    faults \cap UnseenFaults = {}
             PROVE  /\ app' \in {"timedwait", "waiting"} =>
                         td' \in {"setup", "lock", "signal"}
                    /\ pr' # "ETIMEDOUT"
                    /\ app' \in CleanUpPlaces /\ pr' = "none" => err'
  BY FaultsAreFixed DEF Reason, UnseenFaults, CleanUpPlaces
<1> USE DEF Reason, UnseenFaults, CleanUpPlaces
<1>1. CASE InitBegin \/ InitLock \/ BeginWait \/ Abandon
  BY <1>1 DEF InitBegin, InitLock, BeginWait, Abandon, IInv, Threads
<1>2. CASE Prepare
  <2>0. UNCHANGED <<faults, td, pr, owner, kernel, known, late>>
    BY <1>2 DEF Prepare
  <2>1. CASE Acquire("calloc", {"mon"}, "mutex_init", "out")
    BY <2>0, <2>1 DEF Acquire
  <2>2. CASE Acquire("mutex_init", {"mutex"}, "cond_init", "out")
    BY <2>0, <2>2 DEF Acquire
  <2>3. CASE Acquire("cond_init", {"cond"}, "pipe", "cleanup_m")
    BY <2>0, <2>3 DEF Acquire
  <2>4. CASE Acquire("pipe", {"pfd0", "pfd1"}, "lock", "cleanup_pfd")
    BY <2>0, <2>4 DEF Acquire
  <2>5. QED
    BY <1>2, <2>1, <2>2, <2>3, <2>4 DEF Prepare
<1>3. CASE CreateThread
  BY <1>3 DEF CreateThread, Acquire
<1>4. CASE WaitEnds
  BY <1>4 DEF WaitEnds
<1>5. CASE Reacquire
  BY <1>5 DEF Reacquire, IInv, Threads
<1>6. CASE InitJoin
  BY <1>6 DEF InitJoin, IInv, Threads
<1>7. CASE CleanUp
  BY <1>7 DEF CleanUp
<1>8. CASE InitReturn \/ StopClose \/ StopJoin
  BY <1>8 DEF InitReturn, StopClose, StopJoin, IInv, Threads
<1>9. CASE TdSetup
  BY <1>9 DEF TdSetup, appv
<1>10. CASE TdLock
  BY <1>10 DEF TdLock, appv
<1>11. CASE TdSignal
  <2>1. app # "timedwait"
    BY <1>11 DEF TdSignal, IInv, Mutex
  <2>2. QED
    BY <1>11, <2>1 DEF TdSignal, IInv, Threads, AppPlaces, TypeOK
<1>12. CASE TdUnlock \/ TdSelect \/ TdReceive \/ TdCallbackReturns \/ TdExit
  <2>1. app \notin {"timedwait", "waiting"}
    BY <1>12 DEF TdUnlock, TdSelect, TdReceive, TdCallbackReturns, TdExit
  <2>2. UNCHANGED <<app, pr, err>>
    BY <1>12 DEF TdUnlock, TdSelect, TdReceive, TdCallbackReturns, TdExit, appv
  <2>3. QED
    BY <2>1, <2>2
<1>13. CASE \E d \in Devices : Plug(d) \/ Unplug(d) \/ Other(d)
  <2>1. UNCHANGED <<app, pr, err, td>>
    BY <1>13 DEF Plug, Unplug, Other, Emit, appv
  <2>2. QED
    BY <2>1
<1>14. CASE UNCHANGED vars
  BY <1>14 DEF vars, appv
<1>15. QED
  BY <1>1, <1>2, <1>3, <1>4, <1>5, <1>6, <1>7, <1>8, <1>9, <1>10, <1>11, <1>12,
     <1>13, <1>14 DEF Next, InitStep, TdStep

\* When a call of the application's own thread failed, the NULL it is given
\* comes with the reason (dev_linux.c:386-426, 451-456).
THEOREM FailureHasReason == Spec => NullHasReason
<1>1. Init => Reason
  BY DEF Init, Reason, CleanUpPlaces
<1>2. IInv /\ Reason /\ [Next]_vars =>
        [app = "out" /\ app' = "idle" /\ faults \cap UnseenFaults = {} => err]_vars
  <2> SUFFICES ASSUME IInv, Reason, [Next]_vars, app = "out", app' = "idle",
                      faults \cap UnseenFaults = {}
               PROVE  err
    OBVIOUS
  <2>1. InitReturn
    BY DEF Next, vars, InitBegin, InitStep, StopClose, StopJoin, TdStep, Prepare,
       Acquire, InitLock, CreateThread, BeginWait, WaitEnds, Reacquire, Abandon,
       InitJoin, CleanUp, TdSetup, TdLock, TdSignal, TdUnlock, TdSelect,
       TdReceive, TdCallbackReturns, TdExit, Plug, Unplug, Other, Emit, appv
  <2>2. pr = "none"
    BY <2>1 DEF InitReturn, Reason, IInv, TypeOK
  <2>3. QED
    BY <2>2 DEF Reason, CleanUpPlaces
<1>3. QED
  BY <1>1, <1>2, Invariance, ReasonPreserved, PTL DEF Spec, NullHasReason

-----------------------------------------------------------------------------
(***************************************************************************)
(* What the queue of events says, when one is taken from it or added.      *)
(***************************************************************************)
IsAbout(e, d) == e.dev = d /\ e.kind \in {"add", "remove"}

\* Reporting the first event moves it from the queue to what was told.
LEMMA PresentAfterFirst ==
  ASSUME NEW q \in Seq(Event), q # <<>>, NEW known_, NEW d,
         NEW n \in Nat, n + 1 <= Len(q)
  PROVE  Present(Tail(q), Reported(Head(q), known_), d, n) <=>
           Present(q, known_, d, n + 1)
<1> DEFINE t == Tail(q)
           told == Reported(Head(q), known_)
           A == About(q, d, n + 1)
           B == About(t, d, n)
<1>1. q[1] = Head(q) /\ \A i \in 1..n : t[i] = q[i + 1]
  OBVIOUS
<1> HIDE DEF t, told
<1>2. /\ A = {i \in 1..n + 1 : IsAbout(q[i], d)}
      /\ B = {i \in 1..n : IsAbout(t[i], d)}
  BY DEF About, IsAbout
<1>3. /\ \A i \in B : i \in 1..n /\ i + 1 \in A
      /\ \A j \in A : j \in 1..n + 1 /\ (j = 1 \/ j - 1 \in B)
      /\ 1 \in A <=> IsAbout(Head(q), d)
  <2>1. ASSUME NEW i \in B PROVE i \in 1..n /\ i + 1 \in A
    BY <1>1, <1>2
  <2>2. ASSUME NEW j \in A, j # 1 PROVE j - 1 \in B
    <3>1. j \in 1..n + 1 /\ IsAbout(q[j], d)
      BY <1>2
    <3>2. j - 1 \in 1..n /\ j = (j - 1) + 1
      BY <2>2, <3>1
    <3>3. t[j - 1] = q[j]
      BY <1>1, <3>2
    <3>4. QED
      BY <1>2, <3>1, <3>2, <3>3
  <2>3. 1 \in A <=> IsAbout(Head(q), d)
    BY <1>1, <1>2
  <2>4. QED
    BY <1>2, <2>1, <2>2, <2>3
<1> HIDE DEF A, B
<1>4. CASE B # {}
  <2>1. PICK k \in B : TRUE
    BY <1>4
  <2>2. A # {}
    BY <1>3, <2>1
  <2>3. ASSUME NEW i \in B, t[i].kind = "add", \A j \in B : j <= i
        PROVE  \E h \in A : q[h].kind = "add" /\ \A j \in A : j <= h
    <3>1. i + 1 \in A /\ q[i + 1].kind = "add"
      BY <1>1, <1>3, <2>3
    <3>2. ASSUME NEW j \in A PROVE j <= i + 1
      BY <1>3, <2>3
    <3>3. QED
      BY <3>1, <3>2
  <2>4. ASSUME NEW h \in A, q[h].kind = "add", \A j \in A : j <= h
        PROVE  \E i \in B : t[i].kind = "add" /\ \A j \in B : j <= i
    <3>1. k \in 1..n /\ k + 1 <= h
      BY <1>3, <2>1, <2>4
    <3>2. h \in 1..n + 1 /\ h # 1
      BY <1>3, <3>1
    <3>3. h - 1 \in B
      BY <1>3, <3>2
    <3>4. h - 1 \in 1..n /\ h = (h - 1) + 1
      BY <3>2
    <3>5. t[h - 1].kind = "add"
      BY <1>1, <2>4, <3>4
    <3>6. ASSUME NEW j \in B PROVE j <= h - 1
      <4>1. j \in 1..n /\ j + 1 <= h
        BY <1>3, <2>4
      <4>2. QED
        BY <3>2, <4>1
    <3>7. QED
      BY <3>3, <3>5, <3>6
  <2>5. /\ Present(t, told, d, n) <=>
             \E i \in B : t[i].kind = "add" /\ \A j \in B : j <= i
        /\ Present(q, known_, d, n + 1) <=>
             \E h \in A : q[h].kind = "add" /\ \A j \in A : j <= h
    BY <1>4, <2>2 DEF Present, A, B
  <2>6. QED
    BY <2>3, <2>4, <2>5 DEF t, told
<1>5. CASE B = {}
  <2>1. Present(t, told, d, n) <=> d \in told
    BY <1>5 DEF Present, B
  <2>2. CASE 1 \in A
    <3>1. A = {1} /\ IsAbout(Head(q), d)
      BY <1>3, <1>5, <2>2
    <3>2. Present(q, known_, d, n + 1) <=> Head(q).kind = "add"
      <4>1. Present(q, known_, d, n + 1) <=>
              \E h \in {1} : q[h].kind = "add" /\ \A j \in {1} : j <= h
        BY <3>1 DEF Present, A
      <4>2. QED
        BY <1>1, <4>1
    <3>3. d \in told <=> Head(q).kind = "add"
      BY <3>1 DEF told, Reported, IsAbout
    <3>4. QED
      BY <2>1, <3>2, <3>3 DEF t, told
  <2>3. CASE 1 \notin A
    <3>1. A = {} /\ ~IsAbout(Head(q), d)
      BY <1>3, <1>5, <2>3
    <3>2. Present(q, known_, d, n + 1) <=> d \in known_
      BY <3>1 DEF Present, A
    <3>3. d \in told <=> d \in known_
      BY <3>1 DEF told, Reported, IsAbout
    <3>4. QED
      BY <2>1, <3>2, <3>3 DEF t, told
  <2>4. QED
    BY <2>2, <2>3
<1>6. QED
  BY <1>4, <1>5

\* A new event says nothing of what is before it...
LEMMA PresentBefore ==
  ASSUME NEW q \in Seq(Event), NEW e \in Event, NEW known_, NEW d,
         NEW n \in Nat, n <= Len(q)
  PROVE  /\ About(Append(q, e), d, n) = About(q, d, n)
         /\ Present(Append(q, e), known_, d, n) <=> Present(q, known_, d, n)
<1>1. \A i \in 1..n : Append(q, e)[i] = q[i]
  OBVIOUS
<1>2. About(Append(q, e), d, n) = About(q, d, n)
  BY <1>1 DEF About
<1>3. About(q, d, n) \subseteq 1..n
  BY DEF About
<1>4. QED
  BY <1>1, <1>2, <1>3 DEF Present

\* ... and has the last word on its device.
LEMMA PresentAfterLast ==
  ASSUME NEW q \in Seq(Event), NEW e \in Event, NEW known_, NEW d
  PROVE  Present(Append(q, e), known_, d, Len(q) + 1) <=>
           IF IsAbout(e, d) THEN e.kind = "add" ELSE Present(q, known_, d, Len(q))
<1> DEFINE a == Append(q, e)
           n == Len(q)
           A == About(a, d, n + 1)
           B == About(q, d, n)
<1>1. n \in Nat /\ a[n + 1] = e /\ \A i \in 1..n : a[i] = q[i]
  OBVIOUS
<1> HIDE DEF a, n
<1>2. /\ A = {i \in 1..n + 1 : IsAbout(a[i], d)}
      /\ B = {i \in 1..n : IsAbout(q[i], d)}
  BY DEF About, IsAbout
<1>3. CASE IsAbout(e, d)
  <2>1. n + 1 \in A /\ \A j \in A : j \in 1..n + 1
    BY <1>1, <1>2, <1>3
  <2> HIDE DEF A, B
  <2>2. \A h \in A : (\A j \in A : j <= h) <=> h = n + 1
    BY <1>1, <2>1
  <2>3. Present(a, known_, d, n + 1) <=>
          \E h \in A : a[h].kind = "add" /\ \A j \in A : j <= h
    BY <2>1 DEF Present, A
  <2>4. Present(a, known_, d, n + 1) <=> e.kind = "add"
    BY <1>1, <2>1, <2>2, <2>3
  <2>5. QED
    BY <1>3, <2>4 DEF a, n
<1>4. CASE ~IsAbout(e, d)
  <2>1. A = B
    <3>1. ASSUME NEW i \in A PROVE i \in B
      <4>1. i \in 1..n + 1 /\ IsAbout(a[i], d) /\ i # n + 1
        BY <1>1, <1>2, <1>4
      <4>2. i \in 1..n
        BY <1>1, <4>1
      <4>3. QED
        BY <1>1, <1>2, <4>1, <4>2
    <3>2. ASSUME NEW i \in B PROVE i \in A
      BY <1>1, <1>2
    <3>3. QED
      BY <3>1, <3>2
  <2>2. \A i \in B : a[i] = q[i]
    BY <1>1, <1>2
  <2> HIDE DEF A, B
  <2>3. Present(a, known_, d, n + 1) <=> Present(q, known_, d, n)
    BY <2>1, <2>2 DEF Present, A, B
  <2>4. QED
    BY <1>4, <2>3 DEF a, n
<1>5. QED
  BY <1>3, <1>4

-----------------------------------------------------------------------------
(***************************************************************************)
(* No event is missed.                                                     *)
(***************************************************************************)
\* A thread that watches and has lost nothing has a socket that receives.
Receives == Watching /\ ~lost => listening

LEMMA KeepsReceiving == Receives /\ [Next]_vars => Receives'
<1> SUFFICES ASSUME Receives, [Next]_vars PROVE Receives'
  OBVIOUS
<1> USE DEF Receives, Watching
<1>1. CASE InitBegin \/ InitStep \/ StopClose
  BY <1>1
     DEF InitBegin, InitStep, Prepare, InitLock, CreateThread, BeginWait, WaitEnds,
         Reacquire, Abandon, InitJoin, CleanUp, InitReturn, StopClose, kernel
<1>2. CASE StopJoin
  BY <1>2 DEF StopJoin
<1>3. CASE TdSetup \/ TdReceive \/ TdExit
  BY <1>3 DEF TdSetup, TdReceive, TdExit
<1>4. CASE TdLock \/ TdSignal \/ TdUnlock \/ TdSelect \/ TdCallbackReturns
  BY <1>4 DEF TdLock, TdSignal, TdUnlock, TdSelect, TdCallbackReturns, kernel
<1>5. ASSUME NEW d \in Devices, Plug(d) \/ Unplug(d) \/ Other(d)
      PROVE  Receives'
  BY <1>5 DEF Plug, Unplug, Other, Emit
<1>6. CASE UNCHANGED vars
  BY <1>6 DEF vars, kernel
<1>7. QED
  BY <1>1, <1>2, <1>3, <1>4, <1>5, <1>6 DEF Next, TdStep

LEMMA ReceiveMissesNothing ==
  ASSUME IInv, NothingMissed, TdReceive, ~lost'
  PROVE  NothingMissed'
<1>1. /\ uq \in Seq(Event) /\ uq # <<>> /\ uq' = Tail(uq)
      /\ known' = Reported(Head(uq), known)
      /\ Watching /\ UNCHANGED <<plugged, lost>>
  BY DEF Watching, TdReceive, IInv, TypeOK, LastCallback
<1>2. Len(uq) \in Nat /\ Len(uq') \in Nat /\ Len(uq') + 1 = Len(uq)
  BY <1>1
<1> SUFFICES ASSUME Watching, ~lost, NEW d \in Devices
             PROVE  /\ d \in plugged <=> Present(uq', known', d, Len(uq'))
                    /\ \A i \in About(uq', d, Len(uq')) :
                         uq'[i].kind = "add" <=> ~Present(uq', known', d, i - 1)
  BY <1>1 DEF NothingMissed
<1>3. /\ d \in plugged <=> Present(uq, known, d, Len(uq))
      /\ \A i \in About(uq, d, Len(uq)) :
           uq[i].kind = "add" <=> ~Present(uq, known, d, i - 1)
  BY DEF NothingMissed
<1>4. \A n \in 0..Len(uq') : Present(uq', known', d, n) <=> Present(uq, known, d, n + 1)
  BY <1>1, <1>2, PresentAfterFirst
<1>5. d \in plugged <=> Present(uq', known', d, Len(uq'))
  BY <1>2, <1>3, <1>4
<1>6. ASSUME NEW i \in About(uq', d, Len(uq'))
      PROVE  uq'[i].kind = "add" <=> ~Present(uq', known', d, i - 1)
  <2>1. i \in 1..Len(uq') /\ IsAbout(uq'[i], d)
    BY DEF About, IsAbout
  <2>2. uq'[i] = uq[i + 1]
    BY <1>1, <1>2, <2>1
  <2>3. i + 1 \in About(uq, d, Len(uq))
    BY <1>2, <2>1, <2>2 DEF About, IsAbout
  <2>4. uq[i + 1].kind = "add" <=> ~Present(uq, known, d, i)
    <3>1. (i + 1) - 1 = i
      BY <2>1
    <3>2. uq[i + 1].kind = "add" <=> ~Present(uq, known, d, (i + 1) - 1)
      BY <1>3, <2>3
    <3>3. QED
      BY <3>1, <3>2
  <2>5. Present(uq', known', d, i - 1) <=> Present(uq, known, d, i)
    <3>1. i - 1 \in 0..Len(uq') /\ (i - 1) + 1 = i
      BY <1>2, <2>1
    <3>2. QED
      BY <1>4, <3>1
  <2>6. QED
    BY <2>2, <2>4, <2>5
<1>7. QED
  BY <1>5, <1>6

LEMMA EmitMissesNothing ==
  ASSUME TypeOK, Receives, NothingMissed, NEW dd \in Devices, Plug(dd) \/ Unplug(dd) \/ Other(dd)
  PROVE  NothingMissed'
<1>1. PICK kind \in {"add", "remove"} \cup Noise :
        /\ Emit(kind, dd)
        /\ \/ kind = "add" /\ dd \notin plugged /\ plugged' = plugged \cup {dd}
           \/ kind = "remove" /\ dd \in plugged /\ plugged' = plugged \ {dd}
           \/ kind \in Noise /\ plugged' = plugged
  BY DEF Plug, Unplug, Other
<1> DEFINE e == [kind |-> kind, dev |-> dd]
<1>2. e \in Event /\ e.kind = kind /\ e.dev = dd
  BY DEF Event
<1> HIDE DEF e
<1>3. uq \in Seq(Event) /\ Len(uq) \in Nat /\ Len(uq) <= QCap /\ QCap \in Nat
  BY QCapAssumption DEF TypeOK
<1> SUFFICES ASSUME Watching', ~lost', NEW d \in Devices
             PROVE  /\ d \in plugged' <=> Present(uq', known', d, Len(uq'))
                    /\ \A i \in About(uq', d, Len(uq')) :
                         uq'[i].kind = "add" <=> ~Present(uq', known', d, i - 1)
  BY DEF NothingMissed
<1>4. /\ Watching /\ ~lost /\ known' = known
      /\ uq' = Append(uq, e) /\ Len(uq') = Len(uq) + 1
  <2>1. /\ Watching /\ listening /\ ~lost /\ known' = known
        /\ Len(uq) < QCap
    <3>1. /\ Watching /\ known' = known
          /\ lost' = (lost \/ (listening /\ Len(uq) >= QCap))
      BY <1>1 DEF Emit, Watching
    <3>2. ~lost /\ listening /\ ~(Len(uq) >= QCap)
      BY <3>1 DEF Receives
    <3>3. QED
      BY <1>3, <3>1, <3>2
  <2>2. uq' = Append(uq, e)
    BY <1>1, <2>1 DEF Emit, e
  <2>3. QED
    BY <1>2, <1>3, <2>1, <2>2
<1>5. /\ d \in plugged <=> Present(uq, known, d, Len(uq))
      /\ \A i \in About(uq, d, Len(uq)) :
           uq[i].kind = "add" <=> ~Present(uq, known, d, i - 1)
  BY <1>4 DEF NothingMissed
<1>6. /\ IsAbout(e, d) => d = dd /\ kind \in {"add", "remove"}
      /\ d = dd /\ kind \in {"add", "remove"} => IsAbout(e, d)
  BY <1>2 DEF IsAbout
<1>7. d \in plugged' <=> IF IsAbout(e, d) THEN e.kind = "add" ELSE d \in plugged
  BY <1>1, <1>2, <1>6, NoiseAssumption
<1>8. d \in plugged' <=> Present(uq', known', d, Len(uq'))
  BY <1>2, <1>3, <1>4, <1>5, <1>7, PresentAfterLast
<1>9. ASSUME NEW i \in About(uq', d, Len(uq'))
      PROVE  uq'[i].kind = "add" <=> ~Present(uq', known', d, i - 1)
  <2>1. i \in 1..Len(uq) + 1 /\ IsAbout(uq'[i], d)
    BY <1>4 DEF About, IsAbout
  <2>2. Present(uq', known', d, i - 1) <=> Present(uq, known, d, i - 1)
    <3>1. i - 1 \in Nat /\ i - 1 <= Len(uq)
      BY <1>3, <2>1
    <3>2. QED
      BY <1>2, <1>3, <1>4, <3>1, PresentBefore
  <2>3. CASE i \in 1..Len(uq)
    <3>1. uq'[i] = uq[i]
      BY <1>2, <1>3, <1>4, <2>3
    <3>2. i \in About(uq, d, Len(uq))
      BY <2>1, <2>3, <3>1 DEF About, IsAbout
    <3>3. QED
      BY <1>5, <2>2, <3>1, <3>2
  <2>4. CASE i = Len(uq) + 1
    <3>1. uq'[i] = e
      BY <1>2, <1>3, <1>4, <2>4
    <3>2. d \in plugged <=> ~(e.kind = "add")
      BY <1>1, <1>2, <1>6, <2>1, <3>1, NoiseAssumption
    <3>3. i - 1 = Len(uq)
      BY <1>3, <2>4
    <3>4. QED
      BY <1>5, <2>2, <3>1, <3>2, <3>3
  <2>5. QED
    BY <1>3, <2>1, <2>3, <2>4
<1>10. QED
  BY <1>8, <1>9

LEMMA MissesNothing ==
  IInv /\ Receives /\ NothingMissed /\ [Next]_vars => NothingMissed'
<1> SUFFICES ASSUME IInv, Receives, NothingMissed, [Next]_vars PROVE NothingMissed'
  OBVIOUS
<1>1. CASE UNCHANGED <<kernel, known>> /\ (Watching' => Watching)
  BY <1>1 DEF kernel, NothingMissed
<1>2. CASE TdSetup
  <2>1. CASE td' = "lock"
    <3>1. uq' = <<>> /\ known' = plugged /\ plugged' = plugged
      BY <1>2, <2>1 DEF TdSetup
    <3>2. Len(uq') = 0 /\ \A d : About(uq', d, 0) = {}
      BY <3>1 DEF About
    <3>3. QED
      BY <3>1, <3>2 DEF NothingMissed, Present
  <2>2. CASE td' = "exit"
    BY <2>2 DEF NothingMissed, Watching
  <2>3. QED
    BY <1>2, <2>1, <2>2 DEF TdSetup
<1>3. CASE TdExit
  BY <1>3 DEF TdExit, NothingMissed, Watching
<1>4. CASE InitBegin \/ InitStep \/ StopClose \/ StopJoin \/ UNCHANGED vars
  BY <1>1, <1>4
     DEF InitBegin, InitStep, Prepare, InitLock, CreateThread, BeginWait, WaitEnds,
         Reacquire, Abandon, InitJoin, CleanUp, InitReturn, StopClose, StopJoin, vars,
         Watching
<1>5. CASE TdLock \/ TdSignal \/ TdUnlock \/ TdSelect \/ TdCallbackReturns
  BY <1>1, <1>5
     DEF TdLock, TdSignal, TdUnlock, TdSelect, TdCallbackReturns, Watching
<1>6. CASE TdReceive
  <2>1. CASE lost'
    BY <2>1 DEF NothingMissed
  <2>2. QED
    BY <1>6, <2>1, ReceiveMissesNothing
<1>7. QED
  BY <1>2, <1>3, <1>4, <1>5, <1>6, EmitMissesNothing DEF Next, TdStep, IInv

\* While the thread watches and no event is lost, what was reported and what is
\* queued add up to the devices present, and no event is out of place
\* (dev_linux.c:238-277).
THEOREM NoneIsMissed == Spec => []NothingMissed
<1>1. Init => Receives /\ NothingMissed
  BY DEF Init, Receives, Watching, NothingMissed
<1>2. QED
  BY <1>1, Invariance, KeepsReceiving, MissesNothing, PTL DEF Spec

-----------------------------------------------------------------------------
(***************************************************************************)
(* LinuxMonitor implements DevMonitor.                                     *)
(***************************************************************************)
LEMMA InitRefines == Init => Monitor!Init
  BY DEF Init, Monitor!Init, Phase

LEMMA StepRefines == IInv /\ [Next]_vars => [Monitor!Next]_(Monitor!dvars)
<1> SUFFICES ASSUME IInv, [Next]_vars
             PROVE  Monitor!Next \/ UNCHANGED Monitor!dvars
  OBVIOUS
<1> USE DEF Phase, Monitor!dvars
<1> USE DEF IInv, Monitor!Next
<1>1. CASE InitBegin
  BY <1>1 DEF InitBegin, Monitor!Start
<1>2. CASE InitStep /\ ~InitReturn
  <2>1. Phase = "starting" /\ Phase' = "starting"
    BY <1>2 DEF InitStep, Prepare, Acquire, InitLock, CreateThread, BeginWait,
       WaitEnds, Reacquire, Abandon, InitJoin, CleanUp
  <2>2. (td' = "callback") = (td = "callback")
    BY <1>2 DEF InitStep, Prepare, Acquire, InitLock, CreateThread, BeginWait,
       WaitEnds, Reacquire, Abandon, InitJoin, CleanUp, Threads, AppPlaces,
       BeforeThread, CleanUpPlaces
  <2>3. UNCHANGED <<known, late>>
    BY <1>2 DEF InitStep, Prepare, Acquire, InitLock, CreateThread, BeginWait,
       WaitEnds, Reacquire, Abandon, InitJoin, CleanUp
  <2>4. QED
    BY <2>1, <2>2, <2>3
<1>3. CASE InitReturn
  <2>1. CASE pr = "0"
    BY <1>3, <2>1 DEF InitReturn, Monitor!Started
  <2>2. CASE pr # "0"
    <3>1. td = "none"
      BY <1>3, <2>2 DEF InitReturn, Threads, CleanUpPlaces
    <3>2. QED
      BY <1>3, <2>2, <3>1 DEF InitReturn, Monitor!StartFailed
  <2>3. QED
    BY <2>1, <2>2
<1>4. CASE StopClose
  BY <1>4 DEF StopClose, Monitor!Stop
<1>5. CASE StopJoin
  BY <1>5 DEF StopJoin, Monitor!Stopped
<1>6. CASE TdSetup
  <2>1. app # "idle"
    BY <1>6 DEF TdSetup, Threads, BeforeThread
  <2>2. CASE td' = "lock"
    BY <1>6, <2>1, <2>2 DEF TdSetup, Monitor!Watch, TypeOK, appv
  <2>3. CASE td' = "exit"
    BY <1>6, <2>3 DEF TdSetup, appv
  <2>4. QED
    BY <1>6, <2>2, <2>3 DEF TdSetup
<1>7. CASE TdLock
  BY <1>7 DEF TdLock, appv
<1>8. CASE TdSignal
  BY <1>8 DEF TdSignal
<1>9. CASE TdUnlock
  BY <1>9 DEF TdUnlock, appv
<1>10. CASE TdSelect
  BY <1>10 DEF TdSelect, appv
<1>11. CASE TdReceive
  <2>1. Head(uq) \in Event
    BY <1>11, ShorterBuffer DEF TdReceive, Buffer, LastCallback, TypeOK
  <2>2. late = 0 /\ app # "idle" /\ UNCHANGED app
    BY <1>11 DEF TdReceive, LastCallback, Threads, BeforeThread, appv
  <2>3. CASE td' = "callback"
    <3>1. td = "receive" /\ td' = "callback"
      BY <1>11, <2>3 DEF TdReceive
    <3>2. Head(uq).kind \in {"add", "remove"} /\ known' = Reported(Head(uq), known)
      BY <1>11, <2>3 DEF TdReceive
    <3>3. (late' > 0) = (app = "stopping")
      BY <1>11, <2>2, <2>3 DEF TdReceive
    <3>4. /\ Head(uq).dev \in Devices
          /\ known' \in {known \cup {Head(uq).dev}, known \ {Head(uq).dev}}
      BY <2>1, <3>2 DEF Reported, Event
    <3>5. QED
      BY <2>2, <3>1, <3>3, <3>4 DEF Monitor!Callback
  <2>4. CASE td' = "select" /\ UNCHANGED <<known, late>>
    BY <1>11, <2>2, <2>4 DEF TdReceive
  <2>5. td' = "callback" \/ (td' = "select" /\ UNCHANGED <<known, late>>)
    BY <1>11 DEF TdReceive, Reported
  <2>6. QED
    BY <2>3, <2>4, <2>5
<1>12. CASE TdCallbackReturns
  BY <1>12 DEF TdCallbackReturns, Monitor!CallbackReturns, appv
<1>13. CASE TdExit
  BY <1>13 DEF TdExit, appv
<1>14. CASE \E d \in Devices : Plug(d) \/ Unplug(d) \/ Other(d)
  BY <1>14 DEF Plug, Unplug, Other, Emit, appv
<1>15. CASE UNCHANGED vars
  BY <1>15 DEF vars, appv
<1>16. QED
  BY <1>1, <1>2, <1>3, <1>4, <1>5, <1>6, <1>7, <1>8, <1>9, <1>10, <1>11, <1>12,
     <1>13, <1>14, <1>15 DEF Next, TdStep

\* ser_dev_monitor_init and ser_dev_monitor_stop keep the promise of dev.h:
\* no callback outside of a monitor's life, one at most after the stop began,
\* none once it returned.
THEOREM Implements == Spec => MonitorsDevices
  BY InitRefines, StepRefines, Invariance, PTL DEF Spec, MonitorsDevices, Monitor!Spec

-----------------------------------------------------------------------------
(***************************************************************************)
(* Every call returns: what of it is safety.  Somebody can always go on,   *)
(* and who goes on brings the end of the call closer.                      *)
(***************************************************************************)
InCall == app \notin {"idle", "running"}

\* The guards of the application thread's steps, and of the monitoring thread's.
AppCanGo ==
  CASE app \in {"lock", "reacquire"} -> owner = "none"
    [] app = "waiting" -> faults \cap {"slow", "spurious"} # {} \/ td \in {"exit", "done"}
    [] app \in {"join", "stopping"} -> td = "done"
    [] OTHER -> InCall

TdCanGo ==
  CASE td = "lock" -> owner = "none"
    [] td = "select" -> "pfd1" \notin live \/ uq # <<>> \/ "signal" \in faults
    [] OTHER -> Alive

\* The steps left to the application thread, and to the monitoring thread when
\* it has been asked to end.
AppLeft ==
  CASE app = "calloc" -> 15 [] app = "mutex_init" -> 14 [] app = "cond_init" -> 13
    [] app = "pipe" -> 12 [] app = "lock" -> 11 [] app = "create" -> 10
    [] app = "timedwait" -> 9 [] app = "waiting" -> 8 [] app = "reacquire" -> 7
    [] app = "abandon" -> 6 [] app = "join" -> 5 [] app = "cleanup_init" -> 4
    [] app = "cleanup_pfd" -> 3 [] app = "cleanup_m" -> 2
    [] app \in {"out", "stopping"} -> 1 [] OTHER -> 0

TdLeft ==
  CASE td = "setup" -> 8 [] td = "lock" -> 7 [] td = "signal" -> 6
    [] td = "unlock" -> 5 [] td = "receive" -> 4 [] td = "callback" -> 3
    [] td = "select" -> 2 [] td = "exit" -> 1 [] OTHER -> 0

\* The thread signals while ser_dev_monitor_init waits, and no later; a timeout
\* means that it has failed, unless it is slow; and when it is joined, it has
\* been told to end.
Handshake ==
  /\ app \in {"timedwait", "waiting"} =>
       td \in {"setup", "lock", "signal", "exit", "done"}
  /\ "slow" \notin faults /\ app \in {"reacquire", "abandon", "join"}
       /\ pr = "ETIMEDOUT" => td \in {"exit", "done"}
  /\ app = "join" => "pfd1" \notin live

\* Some thread can go on with a call, unless the monitoring thread is slower
\* than the timeout: the application may then join it with the mutex it needs.
SomebodyGoesOn == InCall /\ "slow" \notin faults => AppCanGo \/ TdCanGo

\* A step is taken where its guard says so and brings the end of the call closer:
\* a step of the application always, one of the thread as long as the application
\* cannot go on.
CallsComeCloser ==
  [][/\ InitStep \/ StopJoin => AppCanGo /\ AppLeft' < AppLeft
     /\ TdStep => TdCanGo /\ AppLeft' <= AppLeft
     /\ TdStep /\ InCall => AppCanGo \/ TdLeft' < TdLeft]_vars

LEMMA HandshakeInit == Init => Handshake
  BY DEF Init, Handshake

LEMMA HandshakeStep == IInv /\ Handshake /\ [Next]_vars => Handshake'
<1> SUFFICES ASSUME IInv, Handshake, [Next]_vars PROVE Handshake'
  OBVIOUS
<1> USE DEF Handshake, appv, kernel
<1>0. TypeOK /\ Threads /\ Mutex
  BY DEF IInv
<1>1. CASE InitStep
  <2>1. CASE Prepare
    BY <2>1, <1>0 DEF Prepare, Acquire
  <2>2. CASE CreateThread
    BY <2>2, <1>0 DEF CreateThread, Acquire
  <2>3. CASE InitLock \/ BeginWait \/ WaitEnds
    BY <2>3, <1>0 DEF InitLock, BeginWait, WaitEnds, TypeOK
  <2>4. CASE Reacquire \/ Abandon \/ InitJoin
    BY <2>4, <1>0 DEF Reacquire, Abandon, InitJoin, TypeOK
  <2>5. CASE CleanUp \/ InitReturn
    BY <2>5, <1>0 DEF CleanUp, InitReturn
  <2>6. QED
    BY <1>1, <2>1, <2>2, <2>3, <2>4, <2>5 DEF InitStep
<1>2. CASE InitBegin \/ StopClose \/ StopJoin
  BY <1>2 DEF InitBegin, StopClose, StopJoin
<1>3. CASE TdStep
  <2>1. CASE TdSetup \/ TdLock
    BY <2>1 DEF TdSetup, TdLock
  <2>2. CASE TdSignal
    BY <2>2, <1>0 DEF TdSignal, Mutex, Threads
  <2>3. CASE TdUnlock \/ TdSelect \/ TdReceive \/ TdCallbackReturns
    BY <2>3 DEF TdUnlock, TdSelect, TdReceive, TdCallbackReturns
  <2>4. CASE TdExit
    BY <2>4 DEF TdExit
  <2>5. QED
    BY <1>3, <2>1, <2>2, <2>3, <2>4 DEF TdStep
<1>4. ASSUME NEW d \in Devices, Plug(d) \/ Unplug(d) \/ Other(d)
      PROVE  Handshake'
  BY <1>4 DEF Plug, Unplug, Other, Emit
<1>5. CASE UNCHANGED vars
  BY <1>5 DEF vars
<1>6. QED
  BY <1>1, <1>2, <1>3, <1>4, <1>5 DEF Next

LEMMA HandshakeAlways == Spec => []Handshake
  BY HandshakeInit, HandshakeStep, Invariance, PTL DEF Spec

\* ser_dev_monitor_init and ser_dev_monitor_stop never wait in vain: no deadlock
\* of the two threads over init_m, init_cond, the pipe and pthread_join
\* (dev_linux.c:422-440, 463), as long as the thread is not too slow.
THEOREM NobodyWaitsInVain == Spec => []SomebodyGoesOn
<1>1. IInv /\ Handshake => SomebodyGoesOn
  <2> SUFFICES ASSUME IInv, Handshake, InCall, "slow" \notin faults
               PROVE  AppCanGo \/ TdCanGo
    BY DEF SomebodyGoesOn
  <2>0. /\ app \in AppPlaces /\ td \in TdPlaces /\ owner \in {"none", "app", "td"}
        /\ pr \in {"none", "0", "ETIMEDOUT"} /\ Threads /\ Mutex
        /\ app = "stopping" => "pfd1" \notin live
    BY DEF IInv, TypeOK, Pipe
  <2> USE DEF AppCanGo, TdCanGo, Alive, InCall
  <2>1. CASE app = "lock"
    BY <2>0, <2>1 DEF Threads, Mutex, BeforeThread
  <2>2. CASE app = "reacquire"
    BY <2>0, <2>2 DEF Mutex
  <2>3. CASE app = "waiting"
    BY <2>0, <2>3 DEF Mutex, Handshake
  <2>4. CASE app = "join"
    BY <2>0, <2>4 DEF Threads, Handshake
  <2>5. CASE app = "stopping"
    BY <2>0, <2>5 DEF Threads, Mutex, BeforeThread, CleanUpPlaces, TdPlaces, AppPlaces
  <2>6. CASE app \notin {"lock", "reacquire", "waiting", "join", "stopping"}
    BY <2>6
  <2>7. QED
    BY <2>1, <2>2, <2>3, <2>4, <2>5, <2>6
<1>2. QED
  BY <1>1, Invariance, HandshakeAlways, PTL

LEMMA AppComesCloser ==
  ASSUME IInv, InitStep \/ StopJoin
  PROVE  AppCanGo /\ AppLeft' < AppLeft
<1> USE DEF AppCanGo, AppLeft, InCall
<1>1. CASE Prepare
  BY <1>1 DEF Prepare, Acquire
<1>2. CASE InitLock \/ CreateThread \/ BeginWait
  BY <1>2 DEF InitLock, CreateThread, Acquire, BeginWait
<1>3. CASE WaitEnds \/ Reacquire
  BY <1>3 DEF WaitEnds, Reacquire
<1>4. CASE Abandon \/ InitJoin \/ StopJoin
  BY <1>4 DEF Abandon, InitJoin, StopJoin
<1>5. CASE CleanUp \/ InitReturn
  BY <1>5 DEF CleanUp, InitReturn
<1>6. QED
  BY <1>1, <1>2, <1>3, <1>4, <1>5 DEF InitStep

LEMMA TdComesCloser ==
  ASSUME IInv, Handshake, TdStep
  PROVE  /\ TdCanGo /\ AppLeft' <= AppLeft
         /\ InCall => AppCanGo \/ TdLeft' < TdLeft
<1>1. TdCanGo
  BY DEF TdStep, TdSetup, TdLock, TdSignal, TdUnlock, TdSelect, TdReceive,
         TdCallbackReturns, TdExit, TdCanGo, Alive
<1>2. app' = app \/ (app = "waiting" /\ app' = "reacquire")
  BY DEF TdStep, TdSetup, TdLock, TdSignal, TdUnlock, TdSelect, TdReceive,
         TdCallbackReturns, TdExit, appv
<1>3. AppLeft' <= AppLeft
  <2>1. CASE app' = app
    <3>1. AppLeft' = AppLeft /\ AppLeft \in Nat
      BY <2>1 DEF AppLeft
    <3>2. QED
      BY <3>1
  <2>2. CASE app = "waiting" /\ app' = "reacquire"
    BY <2>2 DEF AppLeft
  <2>3. QED
    BY <1>2, <2>1, <2>2
<1>4. ASSUME InCall, ~AppCanGo PROVE TdLeft' < TdLeft
  <2>0. /\ app \in {"lock", "reacquire", "waiting", "join", "stopping"}
        /\ Threads /\ Mutex /\ owner \in {"none", "app", "td"}
        /\ app = "stopping" => "pfd1" \notin live
    BY <1>4 DEF AppCanGo, IInv, TypeOK, Pipe
  <2>1. td \in {"select", "receive", "callback"} => "pfd1" \notin live
    <3>1. CASE app = "lock"
      BY <2>0, <3>1 DEF Threads, BeforeThread
    <3>2. CASE app = "reacquire"
      BY <1>4, <2>0, <3>2 DEF AppCanGo, Mutex
    <3>3. CASE app = "waiting"
      BY <3>3 DEF Handshake
    <3>4. CASE app = "join" \/ app = "stopping"
      BY <2>0, <3>4 DEF Handshake
    <3>5. QED
      BY <2>0, <3>1, <3>2, <3>3, <3>4
  <2>2. CASE TdSelect
    BY <2>1, <2>2 DEF TdSelect, TdLeft
  <2>3. CASE TdSetup \/ TdLock \/ TdSignal \/ TdUnlock
    BY <2>3 DEF TdSetup, TdLock, TdSignal, TdUnlock, TdLeft
  <2>4. CASE TdReceive \/ TdCallbackReturns \/ TdExit
    BY <2>4 DEF TdReceive, TdCallbackReturns, TdExit, TdLeft
  <2>5. QED
    BY <2>2, <2>3, <2>4 DEF TdStep
<1>5. QED
  BY <1>1, <1>3, <1>4

\* Every step of a call is progress, whatever the events and the faults: no two
\* steps undo each other.  With the fairness of FairSpec this is why
\* ser_dev_monitor_init and ser_dev_monitor_stop return.
THEOREM EveryStepIsProgress == Spec => CallsComeCloser
<1> DEFINE Closer ==
      /\ InitStep \/ StopJoin => AppCanGo /\ AppLeft' < AppLeft
      /\ TdStep => TdCanGo /\ AppLeft' <= AppLeft
      /\ TdStep /\ InCall => AppCanGo \/ TdLeft' < TdLeft
<1>1. IInv /\ Handshake /\ [Next]_vars => [Closer]_vars
  BY AppComesCloser, TdComesCloser
<1>2. QED
  BY <1>1, Invariance, HandshakeAlways, PTL DEF Spec, CallsComeCloser
=============================================================================
