----------------------------- MODULE MacMonitor -----------------------------
(***************************************************************************)
(* The device monitor on macOS (sercomm/posix/dev_macos.c): an application *)
(* thread in ser_dev_monitor_init and ser_dev_monitor_stop, the monitoring *)
(* thread ser_dev_monitor with its run loop, and IOKit.                    *)
(*                                                                         *)
(* IOKit keeps the devices that came and those that went in two iterators, *)
(* one per notification port, and the run loop serves the ports in either  *)
(* order.  A request to stop the run loop is forgotten when the loop is    *)
(* entered.  "live" is what has been acquired and not yet released.        *)
(***************************************************************************)
EXTENDS Sequences, Integers, FiniteSets

CONSTANTS
  Devices,       \* the serial devices that may be plugged in
  FaultChoices,  \* what may go wrong in a behaviour: sets of faults, see below
  IterCap        \* notifications an iterator holds, a bound of the model

(***************************************************************************)
(* A fault names a call that may fail ("calloc", "mutex_init",             *)
(* "cond_init", "create", "port_add", "match_add", "port_rm", "match_rm")  *)
(* or is                                                                   *)
(*   "slow"      the thread may need longer than DEV_MON_INIT_TIMEOUT      *)
(*   "spurious"  pthread_cond_timedwait may return 0 unsignalled           *)
(***************************************************************************)
ASSUME IterCapAssumption == IterCap \in Nat \ {0}

VARIABLES
  faults,   \* what may go wrong in this behaviour
  app,      \* where the application thread is
  td,       \* where the monitoring thread is
  pr,       \* what pthread_cond_timedwait returned
  owner,    \* the thread that holds init_m
  live,     \* memory, mutex, condition, ports, iterators, dictionary references
  stopped,  \* the run loop that runs was asked to stop
  plugged,  \* the devices present
  armed,    \* the notifications IOKit gives: "add", "rm"
  added,    \* the devices in io_iter_add
  removed,  \* the devices in io_iter_rm
  told,     \* history: 1 for a device that was there when the monitor began to
            \* watch, and 1 more or less for each callback about it since
  unseen,   \* history: how often a device was unplugged between the arming of
            \* the first notification and that of the second
  late      \* history: a callback has begun since ser_dev_monitor_stop

iokit == <<plugged, armed, added, removed, unseen>>
vars == <<faults, app, td, pr, owner, live, stopped, iokit, told, late>>

Never == [d \in Devices |-> 0]
Presence == [d \in Devices |-> IF d \in plugged THEN 1 ELSE 0]

Init ==
  /\ faults \in FaultChoices
  /\ app = "idle" /\ td = "none" /\ pr = "none" /\ owner = "none"
  /\ live = {} /\ stopped = FALSE
  /\ plugged \in SUBSET Devices
  /\ armed = {} /\ added = <<>> /\ removed = <<>>
  /\ told = Never /\ unseen = Never /\ late = FALSE

-----------------------------------------------------------------------------
(***************************************************************************)
(* ser_dev_monitor_init and ser_dev_monitor_stop.                          *)
(***************************************************************************)

\* A call that acquires "got", or fails and leaves for a clean up label.
Acquire(thread, at, got, next, onFailure) ==
  \/ thread = at /\ thread' = next /\ live' = live \cup got
  \/ thread = at /\ at \in faults /\ thread' = onFailure /\ UNCHANGED live

Prepare ==
  /\ \/ app = "idle" /\ app' = "calloc" /\ UNCHANGED live
     \/ Acquire(app, "calloc", {"mon"}, "mutex_init", "out")
     \/ Acquire(app, "mutex_init", {"mutex"}, "cond_init", "out")
     \/ Acquire(app, "cond_init", {"cond"}, "lock", "cleanup_m")
  /\ UNCHANGED <<faults, td, pr, owner, stopped, iokit, told, late>>

InitLock ==
  /\ app = "lock" /\ owner = "none"
  /\ app' = "create" /\ owner' = "app"
  /\ UNCHANGED <<faults, td, pr, live, stopped, iokit, told, late>>

CreateThread ==
  /\ Acquire(app, "create", {}, "timedwait", "cleanup_init")
  /\ td' = IF app' = "timedwait" THEN "setup" ELSE td
  /\ UNCHANGED <<faults, pr, owner, stopped, iokit, told, late>>

BeginWait ==
  /\ app = "timedwait"
  /\ app' = "waiting" /\ owner' = "none"
  /\ UNCHANGED <<faults, td, pr, live, stopped, iokit, told, late>>

\* The wait ends without a signal.  After a second: unless "slow" is among the
\* faults, a thread that comes as far as the signal is faster than that.
WaitEnds ==
  /\ app = "waiting"
  /\ app' = "reacquire"
  /\ \/ pr' = "ETIMEDOUT" /\ ("slow" \in faults \/ td = "done")
     \/ pr' = "0" /\ "spurious" \in faults
  /\ UNCHANGED <<faults, td, owner, live, stopped, iokit, told, late>>

\* pthread_cond_timedwait returns with the mutex held.
Reacquire ==
  /\ app = "reacquire" /\ owner = "none"
  /\ owner' = "app"
  /\ app' = IF pr = "0" THEN "cleanup_init" ELSE "join"
  /\ UNCHANGED <<faults, td, pr, live, stopped, iokit, told, late>>

\* pthread_join after a timeout, with the mutex held and the run loop, if the
\* thread gets there, not asked to stop.
InitJoin ==
  /\ app = "join" /\ td = "done"
  /\ app' = "cleanup_init" /\ td' = "none"
  /\ UNCHANGED <<faults, pr, owner, live, stopped, iokit, told, late>>

\* The labels cleanup_init and cleanup_m.
CleanUp ==
  /\ \/ app = "cleanup_init" /\ app' = "cleanup_m" /\ owner' = "none"
        /\ live' = live \ {"cond"}
     \/ app = "cleanup_m" /\ app' = "out" /\ live' = live \ {"mutex"}
        /\ UNCHANGED owner
  /\ UNCHANGED <<faults, td, pr, stopped, iokit, told, late>>

\* The label out: initialized is true when the wait returned 0.
InitReturn ==
  /\ app = "out"
  /\ IF pr = "0" THEN app' = "running" /\ UNCHANGED live
                 ELSE app' = "idle" /\ live' = live \ {"mon"}
  /\ pr' = "none"
  /\ UNCHANGED <<faults, td, owner, stopped, iokit, told, late>>

\* ser_dev_monitor_stop: CFRunLoopStop.  It is for the run of the loop that
\* is under way; with none under way it has no effect.
StopRunLoop ==
  /\ app = "running"
  /\ app' = "stopping"
  /\ stopped' = (td \in {"sleep", "added", "removed", "cb_added", "cb_removed"})
  /\ UNCHANGED <<faults, td, pr, owner, live, iokit, told, late>>

\* Mutant: ser_dev_monitor_stop does not join the thread.
StopJoin_NoWait ==
  /\ app = "stopping"
  /\ app' = "idle" /\ live' = live \ {"mon"} /\ late' = FALSE
  /\ UNCHANGED <<faults, td, pr, owner, stopped, iokit, told>>

\* pthread_join returns, then free.
StopJoin ==
  /\ app = "stopping" /\ td = "done"
  /\ app' = "idle" /\ td' = "none" /\ live' = live \ {"mon"} /\ late' = FALSE
  /\ UNCHANGED <<faults, pr, owner, stopped, iokit, told>>

AppStep ==
  \/ InitLock \/ CreateThread \/ BeginWait \/ WaitEnds \/ Reacquire
  \/ InitJoin \/ CleanUp \/ InitReturn \/ StopJoin

-----------------------------------------------------------------------------
(***************************************************************************)
(* The monitoring thread, ser_dev_monitor.                                 *)
(***************************************************************************)

\* IOServiceMatching and CFRetain: two references to the dictionary, one for
\* each notification.  A notification port, then its run loop source.
TdPort ==
  /\ \/ td = "setup" /\ td' = "port_add" /\ live' = live \cup {"dict1", "dict2"}
     \/ Acquire(td, "port_add", {"port_add"}, "match_add", "done")
     \/ Acquire(td, "port_rm", {"port_rm"}, "match_rm", "cleanup_add")
  /\ UNCHANGED <<faults, app, pr, owner, stopped, iokit, told, late>>

\* IOServiceAddMatchingNotification consumes a reference; the devices in the
\* iterator it returns are skipped, which arms the notification.
TdMatchAdd ==
  /\ td = "match_add"
  /\ \/ /\ td' = "port_rm"
        /\ live' = (live \ {"dict1"}) \cup {"iter_add"}
        /\ armed' = {"add"} /\ told' = Presence /\ unseen' = Never
     \/ /\ "match_add" \in faults
        /\ td' = "cleanup_add"
        /\ live' = live \ {"dict1"}
        /\ UNCHANGED <<armed, told, unseen>>
  /\ UNCHANGED <<faults, app, pr, owner, stopped, plugged, added, removed, late>>

\* The same for the devices that go: those that went since the first notification
\* was armed are skipped and never told of.
TdMatchRm ==
  /\ td = "match_rm"
  /\ \/ /\ td' = "td_lock"
        /\ live' = (live \ {"dict2"}) \cup {"iter_rm"}
        /\ armed' = {"add", "rm"}
     \/ /\ "match_rm" \in faults
        /\ td' = "cleanup_rm"
        /\ live' = live \ {"dict2"}
        /\ UNCHANGED armed
  /\ UNCHANGED <<faults, app, pr, owner, stopped, plugged, added, removed, unseen,
                 told, late>>

TdLock ==
  /\ td = "td_lock" /\ owner = "none"
  /\ td' = "signal" /\ owner' = "td"
  /\ UNCHANGED <<faults, app, pr, live, stopped, iokit, told, late>>

\* A signal is lost when nobody waits.
TdSignal ==
  /\ td = "signal"
  /\ td' = "unlock"
  /\ IF app = "waiting" THEN app' = "reacquire" /\ pr' = "0"
                        ELSE UNCHANGED <<app, pr>>
  /\ UNCHANGED <<faults, owner, live, stopped, iokit, told, late>>

TdUnlock ==
  /\ td = "unlock"
  /\ td' = "run" /\ owner' = "none"
  /\ UNCHANGED <<faults, app, pr, live, stopped, iokit, told, late>>

\* CFRunLoopRun: from here on a request to stop has an effect.
TdRun ==
  /\ td = "run"
  /\ td' = "sleep"
  /\ UNCHANGED <<faults, app, pr, owner, live, stopped, iokit, told, late>>

\* Mutant: the run loop does not look whether it was asked to stop.
TdWake_Deaf ==
  /\ td = "sleep"
  /\ \/ added # <<>> /\ td' = "added"
     \/ removed # <<>> /\ td' = "removed"
  /\ UNCHANGED <<faults, app, pr, owner, live, stopped, iokit, told, late>>

\* The run loop wakes up, to end or to call dev_added or dev_removed.
TdWake ==
  /\ td = "sleep"
  /\ \/ stopped /\ td' = "cleanup_rm"
     \/ added # <<>> /\ td' = "added"
     \/ removed # <<>> /\ td' = "removed"
  /\ UNCHANGED <<faults, app, pr, owner, live, stopped, iokit, told, late>>

\* Mutant: only the first device of an iterator is reported.
TdNext_First(which, iter, one, callback) ==
  /\ td = which
  /\ IF iter = <<>>
     THEN td' = (IF stopped THEN "cleanup_rm" ELSE "sleep")
          /\ UNCHANGED <<added, removed, told, late>>
     ELSE /\ td' = callback
          /\ told' = [told EXCEPT ![Head(iter)] = @ + one]
          /\ late' = (app = "stopping")
          /\ IF which = "added" THEN added' = <<>> /\ UNCHANGED removed
                                ELSE removed' = <<>> /\ UNCHANGED added
  /\ UNCHANGED <<faults, app, pr, owner, live, stopped, plugged, armed, unseen>>

\* dev_notify: IOIteratorNext, and on_event for the device it returned; at
\* the end of the iterator the loop looks whether it was asked to stop.
TdNext(which, iter, one, callback) ==
  /\ td = which
  /\ IF iter = <<>>
     THEN td' = (IF stopped THEN "cleanup_rm" ELSE "sleep")
          /\ UNCHANGED <<added, removed, told, late>>
     ELSE /\ td' = callback
          /\ told' = [told EXCEPT ![Head(iter)] = @ + one]
          /\ late' = (app = "stopping")
          /\ IF which = "added" THEN added' = Tail(added) /\ UNCHANGED removed
                                ELSE removed' = Tail(removed) /\ UNCHANGED added
  /\ UNCHANGED <<faults, app, pr, owner, live, stopped, plugged, armed, unseen>>

DevAdded == TdNext("added", added, 1, "cb_added")

DevRemoved == TdNext("removed", removed, -1, "cb_removed")

TdCallbackReturns ==
  /\ td \in {"cb_added", "cb_removed"}
  /\ td' = IF td = "cb_added" THEN "added" ELSE "removed"
  /\ UNCHANGED <<faults, app, pr, owner, live, stopped, iokit, told, late>>

\* The labels cleanup_rm and cleanup_add: a port that is destroyed takes its
\* notifications with it; the iterators are not released.
TdCleanUp ==
  /\ \/ /\ td = "cleanup_rm"
        /\ td' = "cleanup_add" /\ live' = live \ {"port_rm"}
        /\ armed' = armed \ {"rm"} /\ removed' = <<>>
        /\ UNCHANGED added
     \/ /\ td = "cleanup_add"
        /\ td' = "done" /\ live' = live \ {"port_add"}
        /\ armed' = {} /\ added' = <<>>
        /\ UNCHANGED removed
  /\ stopped' = FALSE /\ unseen' = Never
  /\ UNCHANGED <<faults, app, pr, owner, plugged, told, late>>

TdStep ==
  \/ TdPort \/ TdMatchAdd \/ TdMatchRm \/ TdLock \/ TdSignal \/ TdUnlock
  \/ TdRun \/ TdWake \/ DevAdded \/ DevRemoved \/ TdCallbackReturns \/ TdCleanUp

-----------------------------------------------------------------------------
(***************************************************************************)
(* IOKit: devices come and go.                                             *)
(***************************************************************************)
Plug(d) ==
  /\ d \notin plugged /\ Len(added) < IterCap
  /\ plugged' = plugged \cup {d}
  /\ added' = IF "add" \in armed THEN Append(added, d) ELSE added
  /\ UNCHANGED <<faults, app, td, pr, owner, live, stopped, armed, removed,
                 unseen, told, late>>

Unplug(d) ==
  /\ d \in plugged /\ Len(removed) < IterCap
  /\ plugged' = plugged \ {d}
  /\ removed' = IF "rm" \in armed THEN Append(removed, d) ELSE removed
  /\ unseen' = IF armed = {"add"} THEN [unseen EXCEPT ![d] = @ + 1] ELSE unseen
  /\ UNCHANGED <<faults, app, td, pr, owner, live, stopped, armed, added,
                 told, late>>

-----------------------------------------------------------------------------
Next ==
  \/ Prepare \/ AppStep \/ StopRunLoop
  \/ TdStep
  \/ \E d \in Devices : Plug(d) \/ Unplug(d)

Spec == Init /\ [][Next]_vars

\* Both threads run; the timeout expires; a callback returns.
FairSpec == Spec /\ WF_vars(AppStep) /\ WF_vars(TdStep)

-----------------------------------------------------------------------------
(***************************************************************************)
(* Properties.                                                             *)
(***************************************************************************)
Releasable ==
  {"mon", "mutex", "cond", "port_add", "port_rm", "iter_add", "iter_rm",
   "dict1", "dict2"}

\* Every variable is of its type and no iterator exceeds its bound.
TypeOK ==
  /\ faults \in FaultChoices
  /\ app \in {"idle", "calloc", "mutex_init", "cond_init", "lock", "create",
              "timedwait", "waiting", "reacquire", "join", "cleanup_init",
              "cleanup_m", "out", "running", "stopping"}
  /\ td \in {"none", "setup", "port_add", "match_add", "port_rm", "match_rm",
             "td_lock", "signal", "unlock", "run", "sleep", "added", "removed",
             "cb_added", "cb_removed", "cleanup_rm", "cleanup_add", "done"}
  /\ pr \in {"none", "0", "ETIMEDOUT"}
  /\ owner \in {"none", "app", "td"}
  /\ live \subseteq Releasable
  /\ stopped \in BOOLEAN /\ late \in BOOLEAN
  /\ plugged \subseteq Devices
  /\ told \in [Devices -> Int] /\ unseen \in [Devices -> Int]
  /\ armed \subseteq {"add", "rm"}
  /\ added \in Seq(Devices) /\ removed \in Seq(Devices)
  /\ Len(added) <= IterCap /\ Len(removed) <= IterCap

\* How often a device is in an iterator.
Times(iter, d) == Cardinality({i \in DOMAIN iter : iter[i] = d})

\* No change is skipped and none is told of twice: of every device the callbacks
\* and the notifications that wait in the iterators, an addition as 1 and a
\* removal as -1, add up to whether it is there, however often it changes
\* before it is reported.  A device that went while the monitor was being set
\* up, after the one notification was armed and before the other
\* (dev_macos.c:262-300), is excepted: its removal is never told of.
NothingMissed ==
  armed = {"add", "rm"} =>
    \A d \in Devices :
      told[d] + Times(added, d) - Times(removed, d) = Presence[d] + unseen[d]

\* What dev.h promises: see DevMonitor.
Phase ==
  CASE app = "idle"     -> "off"
    [] app = "running"  -> "on"
    [] app = "stopping" -> "stopping"
    [] OTHER            -> "starting"

Monitor ==
  INSTANCE DevMonitor WITH
    Device <- Devices,
    ManyLate <- TRUE,
    phase <- Phase,
    calling <- (td \in {"cb_added", "cb_removed"}),
    late <- late,
    seen <- {d \in Devices : told[d] > 0}

MonitorsDevices == Monitor!Spec

\* ser_dev_monitor_stop returns once the devices stay as they are, if it found
\* the run loop running.  If the monitoring thread had signalled and was yet
\* to enter the loop, the request is lost and the stop never returns.
DevicesSettle == <>[][UNCHANGED plugged]_vars

StopReturns ==
  DevicesSettle => ((app = "stopping" /\ stopped) ~> (app = "idle"))
=============================================================================
