-------------------------- MODULE MacMonitorProofs --------------------------
(***************************************************************************)
(* Theorems about MacMonitor, for every set of devices, every choice of    *)
(* faults and every number of notifications an iterator holds.             *)
(***************************************************************************)
EXTENDS MacMonitor, FiniteSetTheorems, TLAPS

-----------------------------------------------------------------------------
(***************************************************************************)
(* How often a device is in an iterator.                                   *)
(***************************************************************************)
Where(iter, d) == {i \in DOMAIN iter : iter[i] = d}

LEMMA WhereIsFinite ==
  ASSUME NEW S, NEW s \in Seq(S), NEW d
  PROVE  IsFiniteSet(Where(s, d)) /\ Times(s, d) \in Nat
<1>1. DOMAIN s = 1..Len(s) /\ Len(s) \in Nat
  OBVIOUS
<1>2. IsFiniteSet(1..Len(s))
  BY <1>1, FS_Interval
<1>3. Where(s, d) \in SUBSET (1..Len(s))
  BY <1>1 DEF Where
<1>4. IsFiniteSet(Where(s, d))
  BY <1>2, <1>3, FS_Subset
<1>5. Cardinality(Where(s, d)) \in Nat
  BY <1>4, FS_CardinalityType
<1>6. QED
  BY <1>4, <1>5 DEF Times, Where

LEMMA TimesNone == ASSUME NEW d PROVE Times(<<>>, d) = 0
<1>1. Where(<<>>, d) = {}
  BY DEF Where
<1>2. QED
  BY <1>1, FS_EmptySet DEF Times, Where

LEMMA TimesLast ==
  ASSUME NEW S, NEW s \in Seq(S), NEW e \in S, NEW d
  PROVE  Times(Append(s, e), d) = Times(s, d) + (IF d = e THEN 1 ELSE 0)
<1> DEFINE n == Len(s) + 1
<1>1. /\ Len(s) \in Nat /\ DOMAIN s = 1..Len(s) /\ DOMAIN Append(s, e) = 1..n
      /\ \A i \in 1..Len(s) : Append(s, e)[i] = s[i]
      /\ Append(s, e)[n] = e
  OBVIOUS
<1>2. \A i : i \in 1..n <=> i \in 1..Len(s) \/ i = n
  BY <1>1
<1>3. n \notin 1..Len(s)
  BY <1>1
<1>4. IsFiniteSet(Where(s, d)) /\ Times(s, d) \in Nat
  BY WhereIsFinite
<1> HIDE DEF n
<1>5. CASE d = e
  <2>1. Where(Append(s, e), d) = Where(s, d) \cup {n} /\ n \notin Where(s, d)
    BY <1>1, <1>2, <1>3, <1>5 DEF Where
  <2>2. Cardinality(Where(s, d) \cup {n}) = Cardinality(Where(s, d)) + 1
    BY <1>4, <2>1, FS_AddElement
  <2>3. QED
    BY <1>4, <1>5, <2>1, <2>2 DEF Times, Where
<1>6. CASE d # e
  <2>1. Where(Append(s, e), d) = Where(s, d)
    BY <1>1, <1>2, <1>3, <1>6 DEF Where
  <2>2. Times(Append(s, e), d) = Times(s, d)
    BY <2>1 DEF Times, Where
  <2>3. QED
    BY <1>4, <1>6, <2>2
<1>7. QED
  BY <1>5, <1>6

LEMMA TimesFirst ==
  ASSUME NEW S, NEW s \in Seq(S), s # <<>>, NEW d
  PROVE  Times(s, d) = Times(Tail(s), d) + (IF d = Head(s) THEN 1 ELSE 0)
<1> DEFINE A == Where(Tail(s), d)
           B == Where(s, d) \ {1}
           f == [i \in A |-> i + 1]
<1>1. /\ Tail(s) \in Seq(S) /\ Head(s) = s[1]
      /\ Len(s) \in Nat \ {0} /\ DOMAIN s = 1..Len(s)
      /\ DOMAIN Tail(s) = 1..(Len(s) - 1)
      /\ \A i \in 1..(Len(s) - 1) : Tail(s)[i] = s[i + 1]
  OBVIOUS
<1>2. /\ IsFiniteSet(A) /\ Times(Tail(s), d) \in Nat
      /\ IsFiniteSet(Where(s, d)) /\ Times(s, d) \in Nat
  BY <1>1, WhereIsFinite
<1>3. A \subseteq Nat /\ B \subseteq Nat
  BY <1>1 DEF Where
<1>4. \A i \in A : i + 1 \in B
  BY <1>1 DEF Where
<1>5. \A i \in B : i - 1 \in A
  BY <1>1 DEF Where
<1>6. f \in Bijection(A, B)
  <2>1. f \in Injection(A, B)
    BY <1>3, <1>4 DEF Injection, IsInjective
  <2>2. f \in Surjection(A, B)
    BY <1>3, <1>4, <1>5 DEF Surjection
  <2>3. QED
    BY <2>1, <2>2 DEF Bijection
<1>7. Cardinality(B) = Cardinality(A) /\ IsFiniteSet(B)
  <2>1. ExistsBijection(A, B)
    BY <1>6 DEF ExistsBijection
  <2>2. QED
    BY <1>2, <2>1, FS_Bijection
<1>8. CASE d = Head(s)
  <2>1. Where(s, d) = B \cup {1} /\ 1 \notin B
    BY <1>1, <1>8 DEF Where
  <2>2. Cardinality(B \cup {1}) = Cardinality(B) + 1
    BY <1>7, <2>1, FS_AddElement
  <2>3. QED
    BY <1>2, <1>7, <1>8, <2>1, <2>2 DEF Times, Where
<1>9. CASE d # Head(s)
  <2>1. Where(s, d) = B
    BY <1>1, <1>9 DEF Where
  <2>2. Times(s, d) = Cardinality(B) /\ Times(Tail(s), d) = Cardinality(A)
    BY <2>1 DEF Times, Where
  <2>3. QED
    BY <1>2, <1>7, <1>9, <2>2
<1>10. QED
  BY <1>8, <1>9

LEMMA FirstIn ==
  ASSUME NEW S, NEW s \in Seq(S), s # <<>>
  PROVE  Head(s) \in S /\ Tail(s) \in Seq(S)
  OBVIOUS

-----------------------------------------------------------------------------
(***************************************************************************)
(* The inductive invariant.                                                *)
(***************************************************************************)
BeforeThread == {"idle", "calloc", "mutex_init", "cond_init", "lock", "create"}

CleanUpPlaces == {"cleanup_init", "cleanup_m", "out"}

\* There is a thread from pthread_create to pthread_join, and pr tells, after
\* the wait, which of the two ends of ser_dev_monitor_init is being reached.
Threads ==
  /\ app \in BeforeThread => td = "none"
  /\ app \in {"timedwait", "waiting", "reacquire", "join", "running", "stopping"}
       => td # "none"
  /\ app \in CleanUpPlaces => (td # "none" <=> pr = "0")
  /\ app \in BeforeThread \cup {"timedwait", "waiting", "running", "stopping"}
       => pr = "none"
  /\ app = "reacquire" => pr # "none"
  /\ app = "join" => pr = "ETIMEDOUT"

\* init_m excludes.
Mutex ==
  /\ owner = "app" <=> app \in {"create", "timedwait", "join", "cleanup_init"}
  /\ owner = "td" <=> td \in {"signal", "unlock"}

\* An iterator that is not armed is empty, and each is armed in its turn.
Iterators ==
  /\ "add" \notin armed => added = <<>>
  /\ "rm" \notin armed => removed = <<>>
  /\ td \in {"none", "setup", "port_add", "match_add", "done"} => armed = {}
  /\ td \in {"port_rm", "match_rm"} => armed = {"add"}
  /\ td = "cleanup_add" => "rm" \notin armed

\* What was told of a device and what waits in the iterators add up, from the
\* arming of the first notification until one of the ports is destroyed.
Accounted(d) ==
  told[d] + Times(added, d) - Times(removed, d) = Presence[d] + unseen[d]

Accounts ==
  armed = {"add", "rm"} \/ td \in {"port_rm", "match_rm"} =>
    \A d \in Devices : Accounted(d)

IInv == TypeOK /\ Threads /\ Mutex /\ Iterators /\ Accounts

-----------------------------------------------------------------------------
(***************************************************************************)
(* The invariant holds at first and is preserved by every action.          *)
(***************************************************************************)
LEMMA InitEstablishes == Init => IInv
<1> SUFFICES ASSUME Init PROVE IInv
  OBVIOUS
<1>1. <<>> \in Seq(Devices) /\ Len(<<>>) <= IterCap
  BY IterCapAssumption
<1>2. TypeOK
  <2>1. told \in [Devices -> Int] /\ unseen \in [Devices -> Int]
    BY DEF Init, Never
  <2>2. /\ added \in Seq(Devices) /\ removed \in Seq(Devices)
        /\ Len(added) <= IterCap /\ Len(removed) <= IterCap
    BY <1>1 DEF Init
  <2>3. QED
    BY <2>1, <2>2 DEF Init, TypeOK, Releasable
<1>3. QED
  BY <1>2 DEF Init, IInv, Threads, Mutex, Iterators, Accounts, BeforeThread,
              CleanUpPlaces

\* The steps of the application leave IOKit and what was reported alone.
LEMMA AppSteps ==
  ASSUME IInv, Prepare \/ AppStep \/ StopRunLoop
  PROVE  IInv'
<1> USE DEF TypeOK, Threads, Mutex, BeforeThread, CleanUpPlaces, Releasable, iokit
<1>0. TypeOK /\ Threads /\ Mutex /\ Iterators /\ Accounts
  BY DEF IInv
<1>1. UNCHANGED <<iokit, told, faults>>
  BY DEF Prepare, AppStep, StopRunLoop, InitLock, CreateThread, BeginWait, WaitEnds,
         Reacquire, InitJoin, CleanUp, InitReturn, StopJoin
<1>2. td' = td \/ (td \in {"none", "done"} /\ td' \in {"none", "setup"})
  BY <1>0 DEF Prepare, AppStep, StopRunLoop, InitLock, CreateThread, Acquire,
              BeginWait, WaitEnds, Reacquire, InitJoin, CleanUp, InitReturn, StopJoin
<1>3. Iterators' /\ Accounts'
  BY <1>0, <1>1, <1>2 DEF Iterators, Accounts, Accounted, Presence
<1>4. TypeOK' /\ Threads' /\ Mutex'
  <2>1. CASE Prepare
    <3>0. UNCHANGED <<td, pr, owner, stopped, late>>
      BY <2>1 DEF Prepare
    <3>1. CASE app = "idle" /\ app' = "calloc" /\ UNCHANGED live
      BY <1>0, <1>1, <3>0, <3>1
    <3>2. CASE Acquire(app, "calloc", {"mon"}, "mutex_init", "out")
      BY <1>0, <1>1, <3>0, <3>2 DEF Acquire
    <3>3. CASE Acquire(app, "mutex_init", {"mutex"}, "cond_init", "out")
      BY <1>0, <1>1, <3>0, <3>3 DEF Acquire
    <3>4. CASE Acquire(app, "cond_init", {"cond"}, "lock", "cleanup_m")
      BY <1>0, <1>1, <3>0, <3>4 DEF Acquire
    <3>5. QED
      BY <2>1, <3>1, <3>2, <3>3, <3>4 DEF Prepare
  <2>2. CASE InitLock \/ BeginWait
    BY <1>0, <1>1, <2>2 DEF InitLock, BeginWait
  <2>3. CASE CreateThread
    BY <1>0, <1>1, <2>3 DEF CreateThread, Acquire
  <2>4. CASE WaitEnds
    BY <1>0, <1>1, <2>4 DEF WaitEnds
  <2>5. CASE Reacquire
    BY <1>0, <1>1, <2>5 DEF Reacquire
  <2>6. CASE InitJoin
    BY <1>0, <1>1, <2>6 DEF InitJoin
  <2>7. CASE CleanUp
    <3>0. UNCHANGED <<td, pr, stopped, late>>
      BY <2>7 DEF CleanUp
    <3>1. CASE /\ app = "cleanup_init" /\ app' = "cleanup_m" /\ owner' = "none"
               /\ live' = live \ {"cond"}
      BY <1>0, <1>1, <3>0, <3>1
    <3>2. CASE /\ app = "cleanup_m" /\ app' = "out" /\ UNCHANGED owner
               /\ live' = live \ {"mutex"}
      BY <1>0, <1>1, <3>0, <3>2
    <3>3. QED
      BY <2>7, <3>1, <3>2 DEF CleanUp
  <2>8. CASE InitReturn
    BY <1>0, <1>1, <2>8 DEF InitReturn
  <2>9. CASE StopJoin
    BY <1>0, <1>1, <2>9 DEF StopJoin
  <2>10. CASE StopRunLoop
    BY <1>0, <1>1, <2>10 DEF StopRunLoop
  <2>11. QED
    BY <2>1, <2>2, <2>3, <2>4, <2>5, <2>6, <2>7, <2>8, <2>9, <2>10 DEF AppStep
<1>5. QED
  BY <1>3, <1>4 DEF IInv

\* The steps of the thread that leave IOKit alone.
LEMMA TdSteps ==
  ASSUME IInv,
         TdPort \/ TdLock \/ TdSignal \/ TdUnlock \/ TdRun \/ TdWake
           \/ TdCallbackReturns
  PROVE  IInv'
<1> USE DEF TypeOK, Threads, Mutex, BeforeThread, CleanUpPlaces, Releasable, iokit
<1>0. TypeOK /\ Threads /\ Mutex /\ Iterators /\ Accounts
  BY DEF IInv
<1>1. UNCHANGED <<iokit, told, faults, late, stopped>>
  BY DEF TdPort, TdLock, TdSignal, TdUnlock, TdRun, TdWake, TdCallbackReturns
<1>2. Accounts'
  <2>1. td' \in {"port_rm", "match_rm"} =>
          armed = {"add", "rm"} \/ td \in {"port_rm", "match_rm"}
    BY DEF TdPort, Acquire, TdLock, TdSignal, TdUnlock, TdRun, TdWake,
           TdCallbackReturns
  <2>2. QED
    BY <1>0, <1>1, <2>1 DEF Accounts, Accounted, Presence
<1>3. CASE TdPort
  <2>1. Iterators'
    BY <1>0, <1>1, <1>3 DEF TdPort, Acquire, Iterators
  <2>2. TypeOK' /\ Threads' /\ Mutex'
    <3>1. UNCHANGED <<app, pr, owner>>
      BY <1>3 DEF TdPort
    <3>2. live' \subseteq Releasable
      BY <1>0, <1>3 DEF TdPort, Acquire
    <3>3. /\ td \in {"setup", "port_add", "port_rm"}
          /\ td' \in {"port_add", "match_add", "done", "match_rm", "cleanup_add"}
      BY <1>3 DEF TdPort, Acquire
    <3>4. QED
      BY <1>0, <1>1, <3>1, <3>2, <3>3
  <2>3. QED
    BY <1>2, <2>1, <2>2 DEF IInv
<1>4. CASE TdLock \/ TdUnlock
  <2>1. UNCHANGED <<app, pr, live>>
    BY <1>4 DEF TdLock, TdUnlock
  <2>2. TypeOK' /\ Threads' /\ Mutex'
    <3>1. CASE TdLock
      BY <1>0, <1>1, <2>1, <3>1 DEF TdLock
    <3>2. CASE TdUnlock
      BY <1>0, <1>1, <2>1, <3>2 DEF TdUnlock
    <3>3. QED
      BY <1>4, <3>1, <3>2
  <2>3. Iterators'
    BY <1>0, <1>1, <1>4 DEF TdLock, TdUnlock, Iterators
  <2>4. QED
    BY <1>2, <2>2, <2>3 DEF IInv
<1>5. CASE TdSignal
  BY <1>0, <1>1, <1>2, <1>5 DEF TdSignal, Iterators, IInv
<1>6. CASE TdRun \/ TdWake \/ TdCallbackReturns
  <2>1. /\ UNCHANGED <<app, pr, owner, live>>
        /\ td \in {"run", "sleep", "cb_added", "cb_removed"}
        /\ td' \in {"sleep", "cleanup_rm", "added", "removed"}
    BY <1>6 DEF TdRun, TdWake, TdCallbackReturns
  <2>2. TypeOK' /\ Threads' /\ Mutex'
    BY <1>0, <1>1, <2>1
  <2>3. Iterators'
    BY <1>0, <1>1, <2>1 DEF Iterators
  <2>4. QED
    BY <1>2, <2>2, <2>3 DEF IInv
<1>7. QED
  BY <1>3, <1>4, <1>5, <1>6

\* The notifications are asked for, one after the other.
LEMMA MatchAddStep == ASSUME IInv, TdMatchAdd PROVE IInv'
<1> USE DEF TypeOK, Threads, Mutex, BeforeThread, CleanUpPlaces, Releasable
<1>0. TypeOK /\ Threads /\ Mutex /\ Iterators /\ td = "match_add"
  BY DEF IInv, TdMatchAdd
<1>1. /\ armed = {} /\ added = <<>> /\ removed = <<>>
      /\ UNCHANGED <<faults, app, pr, owner, stopped, plugged, added, removed, late>>
  BY <1>0 DEF TdMatchAdd, Iterators
<1>2. live' \subseteq Releasable
  BY <1>0 DEF TdMatchAdd
<1>p. Presence \in [Devices -> Int] /\ Never \in [Devices -> Int]
  BY DEF Presence, Never
<1>3. CASE /\ td' = "port_rm" /\ armed' = {"add"}
           /\ told' = Presence /\ unseen' = Never
  <2>1. \A d \in Devices : Accounted(d)'
    <3>1. TAKE d \in Devices
    <3>2. Times(added', d) = 0 /\ Times(removed', d) = 0
      BY <1>1, TimesNone
    <3>3. told'[d] = Presence'[d] /\ Presence'[d] \in Int /\ unseen'[d] = 0
      BY <1>1, <1>3 DEF Presence, Never
    <3>4. QED
      BY <3>2, <3>3 DEF Accounted
  <2>2. Iterators' /\ Accounts'
    BY <1>1, <1>3, <2>1 DEF Iterators, Accounts
  <2>3. TypeOK' /\ Threads' /\ Mutex'
    BY <1>0, <1>1, <1>2, <1>3, <1>p
  <2>4. QED
    BY <2>2, <2>3 DEF IInv
<1>4. CASE td' = "cleanup_add" /\ UNCHANGED <<armed, told, unseen>>
  <2>1. Iterators' /\ Accounts'
    BY <1>1, <1>4 DEF Iterators, Accounts
  <2>2. TypeOK' /\ Threads' /\ Mutex'
    BY <1>0, <1>1, <1>2, <1>4
  <2>3. QED
    BY <2>1, <2>2 DEF IInv
<1>5. QED
  BY <1>3, <1>4 DEF TdMatchAdd

LEMMA MatchRmStep == ASSUME IInv, TdMatchRm PROVE IInv'
<1> USE DEF TypeOK, Threads, Mutex, BeforeThread, CleanUpPlaces, Releasable
<1>0. TypeOK /\ Threads /\ Mutex /\ Iterators /\ Accounts /\ td = "match_rm"
  BY DEF IInv, TdMatchRm
<1>1. /\ armed = {"add"} /\ removed = <<>>
      /\ UNCHANGED <<faults, app, pr, owner, stopped, plugged, added, removed,
                     unseen, told, late>>
  BY <1>0 DEF TdMatchRm, Iterators
<1>2. /\ td' \in {"td_lock", "cleanup_rm"} /\ live' \subseteq Releasable
      /\ armed' \in {{"add"}, {"add", "rm"}}
  BY <1>0, <1>1 DEF TdMatchRm
<1>3. Accounts'
  BY <1>0, <1>1 DEF Accounts, Accounted, Presence
<1>4. Iterators'
  BY <1>1, <1>2 DEF Iterators
<1>5. TypeOK' /\ Threads' /\ Mutex'
  BY <1>0, <1>1, <1>2
<1>6. QED
  BY <1>3, <1>4, <1>5 DEF IInv

\* A callback takes the first device of an iterator, and what the iterator said
\* of it is told.
LEMMA AddedStep == ASSUME IInv, DevAdded PROVE IInv'
<1> USE DEF TypeOK, Threads, Mutex, BeforeThread, CleanUpPlaces
<1>0. TypeOK /\ Threads /\ Mutex /\ Iterators /\ Accounts /\ td = "added"
  BY DEF IInv, DevAdded, TdNext
<1>1. UNCHANGED <<faults, app, pr, owner, live, stopped, plugged, armed, unseen>>
  BY DEF DevAdded, TdNext
<1>2. CASE added = <<>>
  <2>1. td' \in {"cleanup_rm", "sleep"} /\ UNCHANGED <<added, removed, told, late>>
    BY <1>2 DEF DevAdded, TdNext
  <2>2. Iterators' /\ Accounts'
    BY <1>0, <1>1, <2>1 DEF Iterators, Accounts, Accounted, Presence
  <2>3. QED
    BY <1>0, <1>1, <2>1, <2>2 DEF IInv
<1>3. CASE added # <<>>
  <2>1. /\ td' = "cb_added" /\ told' = [told EXCEPT ![Head(added)] = @ + 1]
        /\ late' \in BOOLEAN /\ added' = Tail(added) /\ UNCHANGED removed
    BY <1>3 DEF DevAdded, TdNext
  <2>2. /\ Head(added) \in Devices /\ Tail(added) \in Seq(Devices)
        /\ Len(Tail(added)) <= IterCap
    <3>1. Len(Tail(added)) <= IterCap
      BY <1>0, <1>3, IterCapAssumption
    <3>2. QED
      BY <1>0, <1>3, <3>1, FirstIn
  <2>3. ASSUME armed = {"add", "rm"}, NEW d \in Devices PROVE Accounted(d)'
    <3>1. /\ Times(added, d) = Times(added', d) + (IF d = Head(added) THEN 1 ELSE 0)
          /\ Times(removed', d) = Times(removed, d)
      BY <1>0, <1>3, <2>1, TimesFirst
    <3>2. /\ Times(added', d) \in Nat /\ Times(removed, d) \in Nat
          /\ told[d] \in Int /\ unseen[d] \in Int /\ Presence[d] \in Int
      <4>1. /\ told[d] \in Int /\ unseen[d] \in Int
            /\ added' \in Seq(Devices) /\ removed \in Seq(Devices)
        BY <1>0, <2>1, <2>2
      <4>2. Presence[d] \in Int
        BY DEF Presence
      <4>3. Times(added', d) \in Nat /\ Times(removed, d) \in Nat
        BY <4>1, WhereIsFinite
      <4>4. QED
        BY <4>1, <4>2, <4>3
    <3>3. told'[d] = told[d] + (IF d = Head(added) THEN 1 ELSE 0)
      BY <1>0, <2>1, <2>2, <3>2
    <3>4. Accounted(d)
      BY <1>0, <2>3 DEF Accounts
    <3>5. Presence'[d] = Presence[d] /\ unseen'[d] = unseen[d]
      BY <1>1 DEF Presence
    <3>6. QED
      BY <3>1, <3>2, <3>3, <3>4, <3>5 DEF Accounted
  <2>4. Accounts'
    BY <1>1, <2>1, <2>3 DEF Accounts
  <2>5. Iterators'
    BY <1>0, <1>1, <1>3, <2>1 DEF Iterators
  <2>6. told' \in [Devices -> Int]
    BY <1>0, <2>1, <2>2
  <2>7. TypeOK' /\ Threads' /\ Mutex'
    BY <1>0, <1>1, <2>1, <2>2, <2>6
  <2>8. QED
    BY <2>4, <2>5, <2>7 DEF IInv
<1>4. QED
  BY <1>2, <1>3

LEMMA RemovedStep == ASSUME IInv, DevRemoved PROVE IInv'
<1> USE DEF TypeOK, Threads, Mutex, BeforeThread, CleanUpPlaces
<1>0. TypeOK /\ Threads /\ Mutex /\ Iterators /\ Accounts /\ td = "removed"
  BY DEF IInv, DevRemoved, TdNext
<1>1. UNCHANGED <<faults, app, pr, owner, live, stopped, plugged, armed, unseen>>
  BY DEF DevRemoved, TdNext
<1>2. CASE removed = <<>>
  <2>1. td' \in {"cleanup_rm", "sleep"} /\ UNCHANGED <<added, removed, told, late>>
    BY <1>2 DEF DevRemoved, TdNext
  <2>2. Iterators' /\ Accounts'
    BY <1>0, <1>1, <2>1 DEF Iterators, Accounts, Accounted, Presence
  <2>3. QED
    BY <1>0, <1>1, <2>1, <2>2 DEF IInv
<1>3. CASE removed # <<>>
  <2>1. /\ td' = "cb_removed" /\ told' = [told EXCEPT ![Head(removed)] = @ + (-1)]
        /\ late' \in BOOLEAN /\ removed' = Tail(removed) /\ UNCHANGED added
    BY <1>3 DEF DevRemoved, TdNext
  <2>2. /\ Head(removed) \in Devices /\ Tail(removed) \in Seq(Devices)
        /\ Len(Tail(removed)) <= IterCap
    <3>1. Len(Tail(removed)) <= IterCap
      BY <1>0, <1>3, IterCapAssumption
    <3>2. QED
      BY <1>0, <1>3, <3>1, FirstIn
  <2>3. ASSUME armed = {"add", "rm"}, NEW d \in Devices PROVE Accounted(d)'
    <3>1. /\ Times(removed, d) = Times(removed', d) + (IF d = Head(removed) THEN 1 ELSE 0)
          /\ Times(added', d) = Times(added, d)
      BY <1>0, <1>3, <2>1, TimesFirst
    <3>2. /\ Times(removed', d) \in Nat /\ Times(added, d) \in Nat
          /\ told[d] \in Int /\ unseen[d] \in Int /\ Presence[d] \in Int
      <4>1. /\ told[d] \in Int /\ unseen[d] \in Int
            /\ removed' \in Seq(Devices) /\ added \in Seq(Devices)
        BY <1>0, <2>1, <2>2
      <4>2. Presence[d] \in Int
        BY DEF Presence
      <4>3. Times(removed', d) \in Nat /\ Times(added, d) \in Nat
        BY <4>1, WhereIsFinite
      <4>4. QED
        BY <4>1, <4>2, <4>3
    <3>3. told'[d] = told[d] - (IF d = Head(removed) THEN 1 ELSE 0)
      BY <1>0, <2>1, <2>2, <3>2
    <3>4. Accounted(d)
      BY <1>0, <2>3 DEF Accounts
    <3>5. Presence'[d] = Presence[d] /\ unseen'[d] = unseen[d]
      BY <1>1 DEF Presence
    <3>6. QED
      BY <3>1, <3>2, <3>3, <3>4, <3>5 DEF Accounted
  <2>4. Accounts'
    BY <1>1, <2>1, <2>3 DEF Accounts
  <2>5. Iterators'
    BY <1>0, <1>1, <1>3, <2>1 DEF Iterators
  <2>6. told' \in [Devices -> Int]
    BY <1>0, <2>1, <2>2
  <2>7. TypeOK' /\ Threads' /\ Mutex'
    BY <1>0, <1>1, <2>1, <2>2, <2>6
  <2>8. QED
    BY <2>4, <2>5, <2>7 DEF IInv
<1>4. QED
  BY <1>2, <1>3

LEMMA CleanUpStep == ASSUME IInv, TdCleanUp PROVE IInv'
<1> USE DEF TypeOK, Threads, Mutex, BeforeThread, CleanUpPlaces
<1>0. /\ TypeOK /\ Threads /\ Mutex /\ Iterators
      /\ <<>> \in Seq(Devices) /\ Len(<<>>) <= IterCap
  BY IterCapAssumption DEF IInv
<1>1. /\ UNCHANGED <<faults, app, pr, owner, plugged, told, late>>
      /\ stopped' = FALSE /\ unseen' \in [Devices -> Int] /\ live' \subseteq live
  BY DEF TdCleanUp, Never
<1>2. CASE td = "cleanup_rm"
  <2>1. /\ td' = "cleanup_add" /\ armed' = armed \ {"rm"} /\ removed' = <<>>
        /\ UNCHANGED added
    BY <1>2 DEF TdCleanUp
  <2>2. Iterators' /\ Accounts'
    BY <1>0, <2>1 DEF Iterators, Accounts
  <2>3. TypeOK' /\ Threads' /\ Mutex'
    BY <1>0, <1>1, <1>2, <2>1
  <2>4. QED
    BY <2>2, <2>3 DEF IInv
<1>3. CASE td = "cleanup_add"
  <2>1. /\ td' = "done" /\ armed' = {} /\ added' = <<>> /\ UNCHANGED removed
    BY <1>3 DEF TdCleanUp
  <2>2. Iterators' /\ Accounts'
    BY <1>0, <1>3, <2>1 DEF Iterators, Accounts
  <2>3. TypeOK' /\ Threads' /\ Mutex'
    BY <1>0, <1>1, <1>3, <2>1
  <2>4. QED
    BY <2>2, <2>3 DEF IInv
<1>4. QED
  BY <1>2, <1>3 DEF TdCleanUp

\* IOKit notes a change in one iterator, or nowhere.
LEMMA PlugStep == ASSUME IInv, NEW d \in Devices, Plug(d) PROVE IInv'
<1>0. /\ TypeOK /\ Iterators /\ Accounts
      /\ d \notin plugged /\ Len(added) < IterCap
      /\ UNCHANGED <<faults, app, td, pr, owner, live, stopped, armed, removed, told,
                     late>>
      /\ plugged' = plugged \cup {d}
      /\ added' = IF "add" \in armed THEN Append(added, d) ELSE added
      /\ unseen' = unseen
  BY DEF IInv, Plug
<1>1. Append(added, d) \in Seq(Devices) /\ Len(Append(added, d)) <= IterCap
  BY <1>0, IterCapAssumption DEF TypeOK
<1>2. unseen' \in [Devices -> Int]
  BY <1>0 DEF TypeOK
<1>3. TypeOK'
  BY <1>0, <1>1, <1>2 DEF TypeOK
<1>4. Threads' /\ Mutex'
  BY <1>0 DEF IInv, Threads, Mutex
<1>5. Iterators'
  BY <1>0 DEF Iterators
<1>6. ASSUME armed = {"add", "rm"} \/ td \in {"port_rm", "match_rm"},
             NEW e \in Devices
      PROVE  Accounted(e)'
  <2>1. "add" \in armed /\ added' = Append(added, d)
    BY <1>0, <1>6 DEF Iterators
  <2>2. /\ Times(added', e) = Times(added, e) + (IF e = d THEN 1 ELSE 0)
        /\ Times(removed', e) = Times(removed, e)
    BY <1>0, <2>1, TimesLast DEF TypeOK
  <2>3. Presence'[e] = Presence[e] + (IF e = d THEN 1 ELSE 0)
    BY <1>0 DEF Presence
  <2>4. /\ Times(added, e) \in Nat /\ Times(removed, e) \in Nat
        /\ told[e] \in Int /\ unseen[e] \in Int /\ Presence[e] \in Int
    BY <1>0, WhereIsFinite DEF TypeOK, Presence
  <2>5. Accounted(e) /\ told'[e] = told[e] /\ unseen'[e] = unseen[e]
    BY <1>0, <1>6 DEF Accounts
  <2>6. QED
    BY <2>2, <2>3, <2>4, <2>5 DEF Accounted
<1>7. Accounts'
  BY <1>0, <1>6 DEF Accounts
<1>8. QED
  BY <1>3, <1>4, <1>5, <1>7 DEF IInv

LEMMA UnplugStep == ASSUME IInv, NEW d \in Devices, Unplug(d) PROVE IInv'
<1>0. /\ TypeOK /\ Iterators /\ Accounts
      /\ d \in plugged /\ Len(removed) < IterCap
      /\ UNCHANGED <<faults, app, td, pr, owner, live, stopped, armed, added, told,
                     late>>
      /\ plugged' = plugged \ {d}
      /\ removed' = IF "rm" \in armed THEN Append(removed, d) ELSE removed
      /\ unseen' = IF armed = {"add"} THEN [unseen EXCEPT ![d] = @ + 1] ELSE unseen
  BY DEF IInv, Unplug
<1>1. Append(removed, d) \in Seq(Devices) /\ Len(Append(removed, d)) <= IterCap
  BY <1>0, IterCapAssumption DEF TypeOK
<1>2. unseen' \in [Devices -> Int]
  BY <1>0 DEF TypeOK
<1>3. TypeOK'
  BY <1>0, <1>1, <1>2 DEF TypeOK
<1>4. Threads' /\ Mutex'
  BY <1>0 DEF IInv, Threads, Mutex
<1>5. Iterators'
  BY <1>0 DEF Iterators
<1>6. ASSUME armed = {"add", "rm"} \/ td \in {"port_rm", "match_rm"},
             NEW e \in Devices
      PROVE  Accounted(e)'
  <2>1. Presence'[e] = Presence[e] - (IF e = d THEN 1 ELSE 0)
    BY <1>0 DEF Presence
  <2>2. /\ Times(added, e) \in Nat /\ Times(removed, e) \in Nat
        /\ told[e] \in Int /\ unseen[e] \in Int /\ Presence[e] \in Int
    BY <1>0, WhereIsFinite DEF TypeOK, Presence
  <2>3. Accounted(e) /\ told'[e] = told[e] /\ Times(added', e) = Times(added, e)
    BY <1>0, <1>6 DEF Accounts
  <2>4. CASE armed = {"add", "rm"}
    <3>1. removed' = Append(removed, d) /\ unseen'[e] = unseen[e]
      BY <1>0, <2>4
    <3>2. Times(removed', e) = Times(removed, e) + (IF e = d THEN 1 ELSE 0)
      BY <1>0, <3>1, TimesLast DEF TypeOK
    <3>3. QED
      BY <2>1, <2>2, <2>3, <3>1, <3>2 DEF Accounted
  <2>5. CASE td \in {"port_rm", "match_rm"}
    <3>1. armed = {"add"} /\ removed' = removed
      BY <1>0, <2>5 DEF Iterators
    <3>2. unseen'[e] = unseen[e] + (IF e = d THEN 1 ELSE 0)
      BY <1>0, <2>2, <3>1 DEF TypeOK
    <3>3. QED
      BY <2>1, <2>2, <2>3, <3>1, <3>2 DEF Accounted
  <2>6. QED
    BY <1>6, <2>4, <2>5
<1>7. Accounts'
  BY <1>0, <1>6 DEF Accounts
<1>8. QED
  BY <1>3, <1>4, <1>5, <1>7 DEF IInv

LEMMA StepPreserves == IInv /\ [Next]_vars => IInv'
<1> SUFFICES ASSUME IInv, [Next]_vars PROVE IInv'
  OBVIOUS
<1>1. CASE UNCHANGED vars
  BY <1>1 DEF vars, iokit, IInv, TypeOK, Threads, Mutex, Iterators, Accounts,
                  Accounted, Presence
<1>2. QED
  BY <1>1, AppSteps, TdSteps, MatchAddStep, MatchRmStep, AddedStep, RemovedStep,
     CleanUpStep, PlugStep, UnplugStep DEF Next, TdStep

-----------------------------------------------------------------------------
(***************************************************************************)
(* What follows for every behaviour.                                       *)
(***************************************************************************)

\* The invariant holds in every state of every behaviour.
THEOREM Invariance == Spec => []IInv
  BY InitEstablishes, StepPreserves, PTL DEF Spec

\* Type correctness (dev_macos.c, the ser_dev_mon_t, the two threads and the
\* iterators).
THEOREM TypeCorrect == Spec => []TypeOK
<1>1. IInv => TypeOK
  BY DEF IInv
<1>2. QED
  BY <1>1, Invariance, PTL

\* As long as both notifications are armed, the callbacks about a device and its
\* notifications that wait in the iterators add up to whether it is there, but
\* for the removals between the arming of the two: none is skipped and none is
\* told of twice, although the run loop serves the two ports in any order.
THEOREM NoneIsMissed == Spec => []NothingMissed
<1>1. IInv => NothingMissed
  BY DEF IInv, Accounts, Accounted, NothingMissed
<1>2. QED
  BY <1>1, Invariance, PTL

-----------------------------------------------------------------------------
(***************************************************************************)
(* MacMonitor implements DevMonitor.                                       *)
(***************************************************************************)
Seen == {d \in Devices : told[d] > 0}

LEMMA InitRefines == Init => Monitor!Init
  BY DEF Init, Monitor!Init, Phase

Calling == td \in {"cb_added", "cb_removed"}

LEMMA StepRefines == IInv /\ [Next]_vars => [Monitor!Next]_(Monitor!dvars)
<1> SUFFICES ASSUME IInv, [Next]_vars
             PROVE  Monitor!Next \/ UNCHANGED Monitor!dvars
  OBVIOUS
<1>0. TypeOK /\ Threads
  BY DEF IInv
<1> USE DEF Phase, Monitor!dvars, Monitor!Next
<1>1. CASE Prepare
  <2>1. UNCHANGED <<td, told, late>>
    BY <1>1 DEF Prepare
  <2>2. CASE app = "idle"
    <3>1. app' = "calloc"
      BY <1>1, <2>2 DEF Prepare, Acquire
    <3>2. QED
      BY <2>1, <2>2, <3>1 DEF Monitor!Start
  <2>3. CASE app # "idle"
    <3>1. Phase = "starting" /\ Phase' = "starting"
      BY <1>1, <2>3 DEF Prepare, Acquire
    <3>2. QED
      BY <2>1, <3>1
  <2>4. QED
    BY <2>2, <2>3
<1>2. CASE \/ InitLock \/ CreateThread \/ BeginWait \/ WaitEnds \/ Reacquire
           \/ InitJoin \/ CleanUp
  <2>1. Phase = "starting" /\ Phase' = "starting"
    BY <1>2 DEF InitLock, CreateThread, Acquire, BeginWait, WaitEnds, Reacquire,
                InitJoin, CleanUp
  <2>2. td' = td \/ (td \in {"none", "done"} /\ td' \in {"none", "setup"})
    BY <1>0, <1>2 DEF InitLock, CreateThread, Acquire, BeginWait, WaitEnds, Reacquire,
                      InitJoin, CleanUp, Threads, BeforeThread
  <2>3. UNCHANGED <<told, late>>
    BY <1>2 DEF InitLock, CreateThread, BeginWait, WaitEnds, Reacquire, InitJoin,
                CleanUp
  <2>4. QED
    BY <2>1, <2>2, <2>3
<1>3. CASE InitReturn
  <2>1. CASE pr = "0"
    BY <1>3, <2>1 DEF InitReturn, Monitor!Started
  <2>2. CASE pr # "0"
    <3>1. td = "none"
      BY <1>0, <1>3, <2>2 DEF InitReturn, Threads, CleanUpPlaces
    <3>2. QED
      BY <1>3, <2>2, <3>1 DEF InitReturn, Monitor!StartFailed
  <2>3. QED
    BY <2>1, <2>2
<1>4. CASE StopRunLoop
  BY <1>4 DEF StopRunLoop, Monitor!Stop
<1>5. CASE StopJoin
  BY <1>5 DEF StopJoin, Monitor!Stopped
<1>6. CASE TdMatchAdd \/ TdMatchRm
  <2>1. /\ app # "idle" /\ UNCHANGED <<app, late>>
        /\ td \in {"match_add", "match_rm"}
        /\ td' \in {"port_rm", "td_lock", "cleanup_add", "cleanup_rm"}
    BY <1>0, <1>6 DEF TdMatchAdd, TdMatchRm, Threads, BeforeThread
  <2>2. Seen' \in SUBSET Devices
    BY DEF Seen
  <2>3. QED
    BY <2>1, <2>2 DEF Monitor!Watch, Seen
<1>7. CASE TdSignal
  BY <1>7 DEF TdSignal
<1>8. CASE TdPort \/ TdLock \/ TdUnlock \/ TdRun \/ TdWake \/ TdCleanUp
  <2>1. UNCHANGED <<app, told, late>>
    BY <1>8 DEF TdPort, TdLock, TdUnlock, TdRun, TdWake, TdCleanUp
  <2>2. ~Calling /\ ~Calling'
    BY <1>8 DEF TdPort, Acquire, TdLock, TdUnlock, TdRun, TdWake, TdCleanUp, Calling
  <2>3. QED
    BY <2>1, <2>2 DEF Calling
<1>9. CASE DevAdded
  <2>1. app # "idle" /\ UNCHANGED app /\ td = "added"
    BY <1>0, <1>9 DEF DevAdded, TdNext, Threads, BeforeThread
  <2>2. CASE added = <<>>
    BY <1>9, <2>1, <2>2 DEF DevAdded, TdNext
  <2>3. CASE added # <<>>
    <3>1. /\ td' = "cb_added" /\ late' = (Phase = "stopping")
          /\ told' = [told EXCEPT ![Head(added)] = @ + 1]
      BY <1>9, <2>3 DEF DevAdded, TdNext
    <3>2. Head(added) \in Devices
      BY <1>0, <2>3, FirstIn DEF TypeOK
    <3>3. \A d \in Devices \ {Head(added)} : told'[d] = told[d]
      BY <1>0, <3>1 DEF TypeOK
    <3>4. Seen' \in {Seen \cup {Head(added)}, Seen \ {Head(added)}}
      <4>1. CASE Head(added) \in Seen'
        <5>1. Seen' = Seen \cup {Head(added)}
          BY <3>2, <3>3, <4>1 DEF Seen
        <5>2. QED
          BY <5>1
      <4>2. CASE Head(added) \notin Seen'
        <5>1. Seen' = Seen \ {Head(added)}
          BY <3>2, <3>3, <4>2 DEF Seen
        <5>2. QED
          BY <5>1
      <4>3. QED
        BY <4>1, <4>2
    <3>5. QED
      BY <2>1, <3>1, <3>2, <3>4 DEF Monitor!Callback, Seen
  <2>4. QED
    BY <2>2, <2>3
<1>10. CASE DevRemoved
  <2>1. app # "idle" /\ UNCHANGED app /\ td = "removed"
    BY <1>0, <1>10 DEF DevRemoved, TdNext, Threads, BeforeThread
  <2>2. CASE removed = <<>>
    BY <1>10, <2>1, <2>2 DEF DevRemoved, TdNext
  <2>3. CASE removed # <<>>
    <3>1. /\ td' = "cb_removed" /\ late' = (Phase = "stopping")
          /\ told' = [told EXCEPT ![Head(removed)] = @ + (-1)]
      BY <1>10, <2>3 DEF DevRemoved, TdNext
    <3>2. Head(removed) \in Devices
      BY <1>0, <2>3, FirstIn DEF TypeOK
    <3>3. \A d \in Devices \ {Head(removed)} : told'[d] = told[d]
      BY <1>0, <3>1 DEF TypeOK
    <3>4. Seen' \in {Seen \cup {Head(removed)}, Seen \ {Head(removed)}}
      <4>1. CASE Head(removed) \in Seen'
        <5>1. Seen' = Seen \cup {Head(removed)}
          BY <3>2, <3>3, <4>1 DEF Seen
        <5>2. QED
          BY <5>1
      <4>2. CASE Head(removed) \notin Seen'
        <5>1. Seen' = Seen \ {Head(removed)}
          BY <3>2, <3>3, <4>2 DEF Seen
        <5>2. QED
          BY <5>1
      <4>3. QED
        BY <4>1, <4>2
    <3>5. QED
      BY <2>1, <3>1, <3>2, <3>4 DEF Monitor!Callback, Seen
  <2>4. QED
    BY <2>2, <2>3
<1>11. CASE TdCallbackReturns
  BY <1>11 DEF TdCallbackReturns, Monitor!CallbackReturns
<1>12. CASE \E d \in Devices : Plug(d) \/ Unplug(d)
  BY <1>12 DEF Plug, Unplug
<1>13. CASE UNCHANGED vars
  BY <1>13 DEF vars
<1>14. QED
  BY <1>1, <1>2, <1>3, <1>4, <1>5, <1>6, <1>7, <1>8, <1>9, <1>10, <1>11, <1>12,
     <1>13 DEF Next, AppStep, TdStep

\* ser_dev_monitor_init and ser_dev_monitor_stop keep the promise of dev.h:
\* no callback before the start, outside of a monitor's life or after the
\* stop returned.
THEOREM Implements == Spec => MonitorsDevices
  BY InitRefines, StepRefines, Invariance, PTL DEF Spec, MonitorsDevices, Monitor!Spec

-----------------------------------------------------------------------------
(***************************************************************************)
(* Every call returns: what of it is safety.  But for a stop that is lost  *)
(* somebody can always go on, and who does brings the end closer.          *)
(***************************************************************************)
InCall == app \notin {"idle", "running"}

\* The guards of the application thread's steps, and of the monitoring thread's.
AppCanGo ==
  CASE app \in {"lock", "reacquire"} -> owner = "none"
    [] app = "waiting" -> faults \cap {"slow", "spurious"} # {} \/ td = "done"
    [] app \in {"join", "stopping"} -> td = "done"
    [] OTHER -> InCall

TdCanGo ==
  CASE td = "td_lock" -> owner = "none"
    [] td = "sleep" -> stopped \/ added # <<>> \/ removed # <<>>
    [] OTHER -> td \notin {"none", "done"}

\* The steps left to the application thread, and those left to the monitoring
\* thread if no more devices come or go: a bound, with four for each device in
\* an iterator.
AppLeft ==
  CASE app = "calloc" -> 13 [] app = "mutex_init" -> 12 [] app = "cond_init" -> 11
    [] app = "lock" -> 10 [] app = "create" -> 9 [] app = "timedwait" -> 8
    [] app = "waiting" -> 7 [] app = "reacquire" -> 6 [] app = "join" -> 5
    [] app = "cleanup_init" -> 4 [] app = "cleanup_m" -> 3
    [] app \in {"out", "stopping"} -> 1 [] OTHER -> 0

\* A callback that finds its iterator empty is past the others.
TdPlace ==
  CASE td = "setup" -> 15 [] td = "port_add" -> 14 [] td = "match_add" -> 13
    [] td = "port_rm" -> 12 [] td = "match_rm" -> 11 [] td = "td_lock" -> 10
    [] td = "signal" -> 9 [] td = "unlock" -> 8 [] td = "run" -> 7
    [] td \in {"cb_added", "cb_removed"} -> 6
    [] td = "added" -> IF added = <<>> THEN 5 ELSE 3
    [] td = "removed" -> IF removed = <<>> THEN 5 ELSE 3
    [] td = "sleep" -> 4
    [] td = "cleanup_rm" -> 2 [] td = "cleanup_add" -> 1 [] OTHER -> 0

TdLeft == 4 * (Len(added) + Len(removed)) + TdPlace

\* The thread signals while ser_dev_monitor_init waits, and no later; a timeout
\* means that it has failed, unless it is slow.
Handshake ==
  /\ app \in {"timedwait", "waiting"} =>
       td \notin {"unlock", "run", "sleep", "added", "removed", "cb_added",
                  "cb_removed"}
  /\ "slow" \notin faults /\ app \in {"reacquire", "join"} /\ pr = "ETIMEDOUT" =>
       td = "done"

\* The request to stop came before CFRunLoopRun, and nothing wakes the loop.
StopIsLost ==
  /\ app = "stopping" /\ ~stopped
  /\ td = "sleep" /\ added = <<>> /\ removed = <<>>

\* Unless the thread is slower than the timeout, that is the only place where
\* both threads wait.
SomebodyGoesOn ==
  InCall /\ "slow" \notin faults => AppCanGo \/ TdCanGo \/ StopIsLost

\* A step is taken where its guard says so and brings the end of the call closer,
\* if it is the application's, or else the end of the thread.
CallsComeCloser ==
  [][/\ (Prepare /\ InCall) \/ AppStep => AppCanGo /\ AppLeft' < AppLeft
     /\ TdStep => TdCanGo /\ AppLeft' <= AppLeft /\ TdLeft' < TdLeft]_vars

LEMMA HandshakeInit == Init => Handshake
  BY DEF Init, Handshake

LEMMA HandshakeStep == IInv /\ Handshake /\ [Next]_vars => Handshake'
<1> SUFFICES ASSUME IInv, Handshake, [Next]_vars PROVE Handshake'
  OBVIOUS
<1> USE DEF Handshake
<1>0. TypeOK /\ Threads /\ Mutex
  BY DEF IInv
<1>1. CASE Prepare
  BY <1>1 DEF Prepare, Acquire
<1>2. CASE AppStep
  <2>1. CASE InitLock \/ CreateThread \/ BeginWait
    BY <2>1 DEF InitLock, CreateThread, Acquire, BeginWait
  <2>2. CASE WaitEnds
    BY <2>2 DEF WaitEnds
  <2>3. CASE Reacquire \/ InitJoin
    BY <2>3, <1>0 DEF Reacquire, InitJoin, TypeOK
  <2>4. CASE CleanUp \/ InitReturn \/ StopJoin
    BY <2>4 DEF CleanUp, InitReturn, StopJoin
  <2>5. QED
    BY <1>2, <2>1, <2>2, <2>3, <2>4 DEF AppStep
<1>3. CASE StopRunLoop
  BY <1>3 DEF StopRunLoop
<1>4. CASE TdStep
  <2>1. CASE TdPort
    BY <2>1 DEF TdPort, Acquire
  <2>2. CASE TdMatchAdd \/ TdMatchRm \/ TdLock
    BY <2>2 DEF TdMatchAdd, TdMatchRm, TdLock
  <2>3. CASE TdSignal
    BY <2>3, <1>0 DEF TdSignal, Mutex
  <2>4. CASE TdUnlock
    BY <2>4, <1>0 DEF TdUnlock, Mutex
  <2>5. CASE TdRun \/ TdWake \/ TdCallbackReturns
    BY <2>5 DEF TdRun, TdWake, TdCallbackReturns
  <2>6. CASE DevAdded \/ DevRemoved
    BY <2>6 DEF DevAdded, DevRemoved, TdNext
  <2>7. CASE TdCleanUp
    BY <2>7 DEF TdCleanUp
  <2>8. QED
    BY <1>4, <2>1, <2>2, <2>3, <2>4, <2>5, <2>6, <2>7 DEF TdStep
<1>5. ASSUME NEW d \in Devices, Plug(d) \/ Unplug(d)
      PROVE  Handshake'
  BY <1>5 DEF Plug, Unplug
<1>6. CASE UNCHANGED vars
  BY <1>6 DEF vars
<1>7. QED
  BY <1>1, <1>2, <1>3, <1>4, <1>5, <1>6 DEF Next

LEMMA HandshakeAlways == Spec => []Handshake
  BY HandshakeInit, HandshakeStep, Invariance, PTL DEF Spec

\* ser_dev_monitor_init and ser_dev_monitor_stop wait in vain at one place
\* only, a CFRunLoopStop that came before CFRunLoopRun (dev_macos.c, the stop
\* and the end of ser_dev_monitor), as long as the thread is not too slow.
THEOREM NobodyWaitsInVain == Spec => []SomebodyGoesOn
<1>1. IInv /\ Handshake => SomebodyGoesOn
  <2> SUFFICES ASSUME IInv, Handshake, InCall, "slow" \notin faults
               PROVE  AppCanGo \/ TdCanGo \/ StopIsLost
    BY DEF SomebodyGoesOn
  <2>0. TypeOK /\ Threads /\ Mutex
    BY DEF IInv
  <2> USE DEF AppCanGo, TdCanGo, InCall
  <2>1. CASE app = "lock"
    BY <2>0, <2>1 DEF TypeOK, Threads, Mutex, BeforeThread
  <2>2. CASE app = "reacquire"
    BY <2>0, <2>2 DEF TypeOK, Mutex
  <2>3. CASE app = "waiting"
    BY <2>0, <2>3 DEF TypeOK, Threads, Mutex, Handshake
  <2>4. CASE app = "join"
    BY <2>0, <2>4 DEF Threads, Handshake
  <2>5. CASE app = "stopping"
    BY <2>0, <2>5 DEF TypeOK, Threads, Mutex, StopIsLost
  <2>6. CASE app \notin {"lock", "reacquire", "waiting", "join", "stopping"}
    BY <2>6
  <2>7. QED
    BY <2>1, <2>2, <2>3, <2>4, <2>5, <2>6
<1>2. QED
  BY <1>1, Invariance, HandshakeAlways, PTL

LEMMA AppComesCloser ==
  ASSUME IInv, (Prepare /\ InCall) \/ AppStep
  PROVE  AppCanGo /\ AppLeft' < AppLeft
<1> USE DEF AppCanGo, AppLeft, InCall
<1>1. CASE Prepare /\ InCall
  BY <1>1 DEF Prepare, Acquire
<1>2. CASE InitLock \/ CreateThread \/ BeginWait
  BY <1>2 DEF InitLock, CreateThread, Acquire, BeginWait
<1>3. CASE WaitEnds \/ Reacquire
  BY <1>3 DEF WaitEnds, Reacquire
<1>4. CASE InitJoin \/ StopJoin
  BY <1>4 DEF InitJoin, StopJoin
<1>5. CASE CleanUp \/ InitReturn
  BY <1>5 DEF CleanUp, InitReturn
<1>6. QED
  BY <1>1, <1>2, <1>3, <1>4, <1>5 DEF AppStep

LEMMA TdComesCloser ==
  ASSUME IInv, TdStep
  PROVE  TdCanGo /\ AppLeft' <= AppLeft /\ TdLeft' < TdLeft
<1>1. /\ TdCanGo
      /\ app' = app \/ (app = "waiting" /\ app' = "reacquire")
  <2>1. CASE TdPort \/ TdMatchAdd \/ TdMatchRm \/ TdLock \/ TdSignal \/ TdUnlock
    BY <2>1 DEF TdPort, Acquire, TdMatchAdd, TdMatchRm, TdLock, TdSignal, TdUnlock,
                TdCanGo
  <2>2. CASE TdRun \/ TdWake \/ DevAdded \/ DevRemoved \/ TdCallbackReturns \/ TdCleanUp
    BY <2>2 DEF TdRun, TdWake, DevAdded, DevRemoved, TdNext, TdCallbackReturns,
                TdCleanUp, TdCanGo
  <2>3. QED
    BY <2>1, <2>2 DEF TdStep
<1>2. AppLeft' <= AppLeft
  <2>1. CASE app' = app
    <3>1. AppLeft' = AppLeft /\ AppLeft \in Nat
      BY <2>1 DEF AppLeft
    <3>2. QED
      BY <3>1
  <2>2. CASE app = "waiting" /\ app' = "reacquire"
    BY <2>2 DEF AppLeft
  <2>3. QED
    BY <1>1, <2>1, <2>2
<1>3. /\ added \in Seq(Devices) /\ removed \in Seq(Devices)
      /\ Len(added) \in Nat /\ Len(removed) \in Nat
  BY DEF IInv, TypeOK
<1>4. TdLeft' < TdLeft
  <2>1. CASE TdPort \/ TdLock \/ TdSignal \/ TdUnlock \/ TdRun \/ TdMatchAdd \/ TdMatchRm
    <3>1. added' = added /\ removed' = removed
      BY <2>1 DEF TdPort, TdLock, TdSignal, TdUnlock, TdRun, TdMatchAdd, TdMatchRm,
                  iokit
    <3>2. TdPlace' < TdPlace /\ TdPlace' \in Int /\ TdPlace \in Int
      BY <2>1 DEF TdPort, Acquire, TdLock, TdSignal, TdUnlock, TdRun, TdMatchAdd,
                  TdMatchRm, TdPlace
    <3>3. QED
      BY <1>3, <3>1, <3>2 DEF TdLeft
  <2>2. CASE TdWake \/ TdCallbackReturns
    <3>1. added' = added /\ removed' = removed
      BY <2>2 DEF TdWake, TdCallbackReturns, iokit
    <3>2. TdPlace' < TdPlace /\ TdPlace' \in Int /\ TdPlace \in Int
      BY <2>2, <3>1 DEF TdWake, TdCallbackReturns, TdPlace
    <3>3. QED
      BY <1>3, <3>1, <3>2 DEF TdLeft
  <2>3. CASE DevAdded
    <3>1. CASE added = <<>>
      <4>1. added' = added /\ removed' = removed /\ td' \in {"cleanup_rm", "sleep"}
        BY <2>3, <3>1 DEF DevAdded, TdNext
      <4>2. TdPlace = 5 /\ TdPlace' \in {2, 4}
        BY <2>3, <3>1, <4>1 DEF DevAdded, TdNext, TdPlace
      <4>3. QED
        BY <1>3, <4>1, <4>2 DEF TdLeft
    <3>2. CASE added # <<>>
      <4>1. /\ Len(added') = Len(added) - 1 /\ removed' = removed
            /\ td = "added" /\ td' = "cb_added"
        BY <1>3, <2>3, <3>2 DEF DevAdded, TdNext
      <4>2. TdPlace = 3 /\ TdPlace' = 6
        BY <3>2, <4>1 DEF TdPlace
      <4>3. QED
        BY <1>3, <4>1, <4>2 DEF TdLeft
    <3>3. QED
      BY <3>1, <3>2
  <2>4. CASE DevRemoved
    <3>1. CASE removed = <<>>
      <4>1. added' = added /\ removed' = removed /\ td' \in {"cleanup_rm", "sleep"}
        BY <2>4, <3>1 DEF DevRemoved, TdNext
      <4>2. TdPlace = 5 /\ TdPlace' \in {2, 4}
        BY <2>4, <3>1, <4>1 DEF DevRemoved, TdNext, TdPlace
      <4>3. QED
        BY <1>3, <4>1, <4>2 DEF TdLeft
    <3>2. CASE removed # <<>>
      <4>1. /\ Len(removed') = Len(removed) - 1 /\ added' = added
            /\ td = "removed" /\ td' = "cb_removed"
        BY <1>3, <2>4, <3>2 DEF DevRemoved, TdNext
      <4>2. TdPlace = 3 /\ TdPlace' = 6
        BY <3>2, <4>1 DEF TdPlace
      <4>3. QED
        BY <1>3, <4>1, <4>2 DEF TdLeft
    <3>3. QED
      BY <3>1, <3>2
  <2>5. CASE TdCleanUp
    <3>1. /\ Len(added') \in Nat /\ Len(added') <= Len(added)
          /\ Len(removed') \in Nat /\ Len(removed') <= Len(removed)
      <4>1. added' \in {added, <<>>} /\ removed' \in {removed, <<>>}
        BY <2>5 DEF TdCleanUp
      <4>2. QED
        BY <1>3, <4>1
    <3>2. TdPlace' < TdPlace /\ TdPlace' \in Int /\ TdPlace \in Int
      BY <2>5 DEF TdCleanUp, TdPlace
    <3>3. QED
      BY <1>3, <3>1, <3>2 DEF TdLeft
  <2>6. QED
    BY <2>1, <2>2, <2>3, <2>4, <2>5 DEF TdStep
<1>5. QED
  BY <1>1, <1>2, <1>4

\* Every step of a call is progress, and so is every step of the thread until
\* another device comes or goes: no two steps undo each other.  With the
\* fairness of FairSpec this is why a call returns that is not stuck.
THEOREM EveryStepIsProgress == Spec => CallsComeCloser
<1> DEFINE Closer ==
      /\ (Prepare /\ InCall) \/ AppStep => AppCanGo /\ AppLeft' < AppLeft
      /\ TdStep => TdCanGo /\ AppLeft' <= AppLeft /\ TdLeft' < TdLeft
<1>1. IInv /\ [Next]_vars => [Closer]_vars
  BY AppComesCloser, TdComesCloser
<1>2. QED
  BY <1>1, Invariance, PTL DEF Spec, CallsComeCloser
=============================================================================
