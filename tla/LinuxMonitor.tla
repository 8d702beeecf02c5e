---------------------------- MODULE LinuxMonitor ----------------------------
(***************************************************************************)
(* The device monitor on Linux (sercomm/posix/dev_linux.c): an application *)
(* thread in ser_dev_monitor_init and ser_dev_monitor_stop, the monitoring *)
(* thread it creates (ser_dev_monitor), and the udev socket it watches.    *)
(*                                                                         *)
(* The two threads share the ser_dev_mon_t: init_m and init_cond for the   *)
(* start, the pipe pfd for the stop.  "live" is the set of what has been   *)
(* acquired and not yet released, so a use after the release can be seen:  *)
(* memory, mutex, condition and pipe ends of the monitor being set up or   *)
(* run, and what earlier calls left behind.  Every call that another       *)
(* thread can observe is a step.                                           *)
(*                                                                         *)
(* Once a spurious wake up has made ser_dev_monitor_init destroy mutex and *)
(* condition early, a lock or a signal of the monitoring thread does what  *)
(* glibc then does: it works as before.  UsesOnlyLive excludes that case.  *)
(***************************************************************************)
EXTENDS Sequences, Integers

CONSTANTS
  Devices,       \* the serial devices that may be plugged in
  Noise,         \* events that are no addition and no removal, "change"
  FaultChoices,  \* what may go wrong in a behaviour: sets of faults, see below
  QCap           \* events the socket's buffer holds

(***************************************************************************)
(* A fault names a call that may fail ("calloc", "mutex_init",             *)
(* "cond_init", "pipe", "create", "udev_new", "udev_monitor_new", "enable" *)
(* and "receive" for udev_monitor_enable_receiving and _receive_device) or *)
(* is                                                                      *)
(*   "slow"      the thread may need longer than DEV_MON_INIT_TIMEOUT      *)
(*   "spurious"  pthread_cond_timedwait may return 0 unsignalled           *)
(*   "signal"    a signal handler may run in the monitoring thread         *)
(***************************************************************************)
ASSUME QCapAssumption == QCap \in Nat \ {0}
ASSUME NoiseAssumption == Noise \cap {"add", "remove"} = {}

VARIABLES
  faults,     \* what may go wrong in this behaviour
  app,        \* where the application thread is
  td,         \* where the monitoring thread is
  pr,         \* what pthread_cond_timedwait returned
  owner,      \* the thread that holds init_m
  live,       \* what is acquired: memory, mutex, condition, pipe ends
  err,        \* the application thread's last error is of its last call
  plugged,    \* the devices present
  listening,  \* the udev monitor receives events
  uq,         \* the events in its socket
  lost,       \* history: an event did not arrive since the thread's set up
  known,      \* history: the devices present, going by the callbacks
  late        \* history: callbacks begun since ser_dev_monitor_stop closed

appv == <<faults, app, pr, err>>
kernel == <<plugged, listening, uq, lost>>
vars == <<appv, td, owner, live, kernel, known, late>>

Event == [kind : {"add", "remove"} \cup Noise, dev : Devices]

Init ==
  /\ faults \in FaultChoices
  /\ app = "idle" /\ td = "none" /\ pr = "none"
  /\ owner = "none" /\ live = {} /\ err = FALSE
  /\ plugged \in SUBSET Devices
  /\ listening = FALSE /\ uq = <<>> /\ lost = FALSE
  /\ known = plugged /\ late = 0

-----------------------------------------------------------------------------
(***************************************************************************)
(* ser_dev_monitor_init.                                                   *)
(***************************************************************************)
InitBegin ==
  /\ app = "idle"
  /\ app' = "calloc" /\ err' = FALSE
  /\ UNCHANGED <<faults, td, pr, owner, live, kernel, known, late>>

\* Mutant: the last error is not set.
Acquire_NoReason(at, got, next, onFailure) ==
  /\ app = at
  /\ \/ app' = next /\ live' = live \cup got
     \/ at \in faults /\ app' = onFailure /\ UNCHANGED live
  /\ UNCHANGED err

\* A call that acquires what is in the set "got", or sets the last error and
\* leaves for a clean up label.
Acquire(at, got, next, onFailure) ==
  /\ app = at
  /\ \/ app' = next /\ live' = live \cup got /\ UNCHANGED err
     \/ at \in faults /\ app' = onFailure /\ err' = TRUE /\ UNCHANGED live

Prepare ==
  /\ \/ Acquire("calloc", {"mon"}, "mutex_init", "out")
     \/ Acquire("mutex_init", {"mutex"}, "cond_init", "out")
     \/ Acquire("cond_init", {"cond"}, "pipe", "cleanup_m")
     \/ Acquire("pipe", {"pfd0", "pfd1"}, "lock", "cleanup_pfd")
  /\ UNCHANGED <<faults, td, pr, owner, kernel, known, late>>

InitLock ==
  /\ app = "lock" /\ owner = "none"
  /\ app' = "create" /\ owner' = "app"
  /\ UNCHANGED <<faults, td, pr, live, err, kernel, known, late>>

CreateThread ==
  /\ Acquire("create", {}, "timedwait", "cleanup_init")
  /\ td' = IF app' = "timedwait" THEN "setup" ELSE td
  /\ UNCHANGED <<faults, pr, owner, kernel, known, late>>

BeginWait ==
  /\ app = "timedwait"
  /\ app' = "waiting" /\ owner' = "none"
  /\ UNCHANGED <<faults, td, pr, live, err, kernel, known, late>>

\* Mutant: the wait has no timeout.
WaitEnds_Never ==
  /\ app = "waiting"
  /\ app' = "reacquire"
  /\ pr' = "0" /\ "spurious" \in faults
  /\ UNCHANGED <<faults, td, owner, live, err, kernel, known, late>>

\* The wait ends without a signal.  After a second: unless "slow" is among the
\* faults, a thread that comes as far as the signal is faster than that.
WaitEnds ==
  /\ app = "waiting"
  /\ app' = "reacquire"
  /\ \/ pr' = "ETIMEDOUT" /\ ("slow" \in faults \/ td \in {"exit", "done"})
     \/ pr' = "0" /\ "spurious" \in faults
  /\ UNCHANGED <<faults, td, owner, live, err, kernel, known, late>>

\* Mutant: what pthread_cond_timedwait returned is not looked at.
Reacquire_Ignored ==
  /\ app = "reacquire" /\ owner = "none"
  /\ owner' = "app" /\ pr' = "0"
  /\ app' = "cleanup_init"
  /\ UNCHANGED <<faults, td, live, err, kernel, known, late>>

\* pthread_cond_timedwait returns with the mutex held.
Reacquire ==
  /\ app = "reacquire" /\ owner = "none"
  /\ owner' = "app"
  /\ app' = IF pr = "0" THEN "cleanup_init" ELSE "abandon"
  /\ UNCHANGED <<faults, td, pr, live, err, kernel, known, late>>

\* Mutant: the write end stays open while the thread is joined.
Abandon_NoClose ==
  /\ app = "abandon"
  /\ app' = "join"
  /\ UNCHANGED <<faults, td, pr, owner, live, err, kernel, known, late>>

Abandon ==
  /\ app = "abandon"
  /\ app' = "join" /\ live' = live \ {"pfd1"}
  /\ UNCHANGED <<faults, td, pr, owner, err, kernel, known, late>>

\* Mutant: the thread is not joined before its monitor is freed.
InitJoin_NoWait ==
  /\ app = "join"
  /\ app' = "cleanup_init"
  /\ UNCHANGED <<faults, td, pr, owner, live, err, kernel, known, late>>

InitJoin ==
  /\ app = "join" /\ td = "done"
  /\ app' = "cleanup_init" /\ td' = "none"
  /\ UNCHANGED <<faults, pr, owner, live, err, kernel, known, late>>

\* The labels cleanup_init, cleanup_pfd and cleanup_m.
CleanUp ==
  /\ \/ app = "cleanup_init" /\ app' = "cleanup_pfd" /\ owner' = "none"
        /\ UNCHANGED live
     \/ app = "cleanup_pfd" /\ app' = "cleanup_m" /\ live' = live \ {"cond"}
        /\ UNCHANGED owner
     \/ app = "cleanup_m" /\ app' = "out" /\ live' = live \ {"mutex"}
        /\ UNCHANGED owner
  /\ UNCHANGED <<faults, td, pr, err, kernel, known, late>>

\* The label out: initialized is true when the wait returned 0.
InitReturn ==
  /\ app = "out"
  /\ IF pr = "0" THEN app' = "running" /\ UNCHANGED live
                 ELSE app' = "idle" /\ live' = live \ {"mon"}
  /\ pr' = "none"
  /\ UNCHANGED <<faults, td, owner, err, kernel, known, late>>

InitStep ==
  \/ Prepare \/ InitLock \/ CreateThread \/ BeginWait \/ WaitEnds
  \/ Reacquire \/ Abandon \/ InitJoin \/ CleanUp \/ InitReturn

-----------------------------------------------------------------------------
(***************************************************************************)
(* ser_dev_monitor_stop.                                                   *)
(***************************************************************************)
StopClose ==
  /\ app = "running"
  /\ app' = "stopping" /\ live' = live \ {"pfd1"}
  /\ UNCHANGED <<faults, td, pr, owner, err, kernel, known, late>>

\* Mutant: ser_dev_monitor_stop does not join the thread.
StopJoin_NoWait ==
  /\ app = "stopping"
  /\ app' = "idle" /\ live' = live \ {"mon"} /\ late' = 0
  /\ UNCHANGED <<faults, td, pr, owner, err, kernel, known>>

\* pthread_join returns, then free.
StopJoin ==
  /\ app = "stopping" /\ td = "done"
  /\ app' = "idle" /\ td' = "none" /\ live' = live \ {"mon"} /\ late' = 0
  /\ UNCHANGED <<faults, pr, owner, err, kernel, known>>

-----------------------------------------------------------------------------
(***************************************************************************)
(* The monitoring thread, ser_dev_monitor.                                 *)
(***************************************************************************)

\* udev_new ... udev_monitor_enable_receiving; a failure leads to out, but
\* nobody looks at what the last returns: the thread then watches a socket
\* that receives nothing.
TdSetup ==
  /\ td = "setup"
  /\ \/ /\ td' = "lock"
        /\ \/ listening' = TRUE /\ lost' = FALSE
           \/ "enable" \in faults /\ listening' = FALSE /\ lost' = TRUE
        /\ uq' = <<>> /\ known' = plugged
     \/ /\ faults \cap {"udev_new", "udev_monitor_new"} # {}
        /\ td' = "exit"
        /\ UNCHANGED <<listening, uq, lost, known>>
  /\ UNCHANGED <<appv, owner, live, plugged, late>>

TdLock ==
  /\ td = "lock" /\ owner = "none"
  /\ td' = "signal" /\ owner' = "td"
  /\ UNCHANGED <<appv, live, kernel, known, late>>

\* Mutant: the condition is not signalled.
TdSignal_Forgotten ==
  /\ td = "signal"
  /\ td' = "unlock"
  /\ UNCHANGED <<appv, owner, live, kernel, known, late>>

\* A signal is lost when nobody waits.
TdSignal ==
  /\ td = "signal"
  /\ td' = "unlock"
  /\ IF app = "waiting" THEN app' = "reacquire" /\ pr' = "0"
                        ELSE UNCHANGED <<app, pr>>
  /\ UNCHANGED <<faults, owner, live, err, kernel, known, late>>

TdUnlock ==
  /\ td = "unlock"
  /\ td' = "select" /\ owner' = "none"
  /\ UNCHANGED <<appv, live, kernel, known, late>>

\* Mutant: a pending event is handled before the request to terminate.
TdSelect_EventsFirst ==
  /\ td = "select"
  /\ \/ uq # <<>> /\ td' = "receive"
     \/ "pfd1" \notin live /\ uq = <<>> /\ td' = "exit"
     \/ "signal" \in faults /\ "pfd1" \in live /\ uq = <<>> /\ td' = "exit"
  /\ UNCHANGED <<appv, owner, live, kernel, known, late>>

\* Mutant: the read end of the pipe is not in the set.
TdSelect_NoPipe ==
  /\ td = "select"
  /\ \/ uq # <<>> /\ td' = "receive"
     \/ "signal" \in faults /\ uq = <<>> /\ td' = "exit"
  /\ UNCHANGED <<appv, owner, live, kernel, known, late>>

\* select() returns: the pipe is looked at before the socket.  It fails with
\* EINTR when a signal handler ran and nothing is ready.
TdSelect ==
  /\ td = "select"
  /\ \/ "pfd1" \notin live /\ td' = "exit"
     \/ "pfd1" \in live /\ uq # <<>> /\ td' = "receive"
     \/ "signal" \in faults /\ "pfd1" \in live /\ uq = <<>> /\ td' = "exit"
  /\ UNCHANGED <<appv, owner, live, kernel, known, late>>

\* Mutant: "remove" is taken for an addition.
Reported_Swapped(e, devices) ==
  IF e.kind = "remove" THEN devices \cup {e.dev} ELSE devices \ {e.dev}

\* Mutant: every event that is not an addition is reported as a removal.
Reported_Else(e, devices) ==
  IF e.kind = "add" THEN devices \cup {e.dev} ELSE devices \ {e.dev}

\* Mutant: an action that is not supported is reported all the same, with a
\* device that was never filled in.
Reported_Uninitialized(e, devices) ==
  CASE e.kind = "add"    -> devices \cup {e.dev}
    [] e.kind = "remove" -> devices \ {e.dev}
    [] OTHER             -> devices \cup {"uninitialized"}

\* What the application knows after the callback of event e.
Reported(e, devices) ==
  CASE e.kind = "add"    -> devices \cup {e.dev}
    [] e.kind = "remove" -> devices \ {e.dev}
    [] OTHER             -> devices

\* udev_monitor_receive_device; on_event is called unless the action is not
\* supported.  If it returns NULL, the event is gone.
TdReceive ==
  /\ td = "receive"
  /\ uq' = Tail(uq)
  /\ \/ /\ known' = Reported(Head(uq), known)
        /\ IF Head(uq).kind \in {"add", "remove"}
           THEN td' = "callback" /\ late' = IF app = "stopping" THEN late + 1 ELSE late
           ELSE td' = "select" /\ UNCHANGED late
        /\ UNCHANGED lost
     \/ /\ "receive" \in faults /\ td' = "select" /\ lost' = TRUE
        /\ UNCHANGED <<known, late>>
  /\ UNCHANGED <<appv, owner, live, plugged, listening>>

TdCallbackReturns ==
  /\ td = "callback"
  /\ td' = "select"
  /\ UNCHANGED <<appv, owner, live, kernel, known, late>>

\* Mutant: the read end of the pipe stays open.
TdExit_KeepsPipe ==
  /\ td = "exit"
  /\ td' = "done"
  /\ listening' = FALSE /\ uq' = <<>> /\ lost' = FALSE
  /\ UNCHANGED <<appv, owner, live, plugged, known, late>>

\* The labels cleanup_umon, cleanup_uinst and out.
TdExit ==
  /\ td = "exit"
  /\ td' = "done" /\ live' = live \ {"pfd0"}
  /\ listening' = FALSE /\ uq' = <<>> /\ lost' = FALSE
  /\ UNCHANGED <<appv, owner, plugged, known, late>>

TdStep ==
  \/ TdSetup \/ TdLock \/ TdSignal \/ TdUnlock
  \/ TdSelect \/ TdReceive \/ TdCallbackReturns \/ TdExit

-----------------------------------------------------------------------------
(***************************************************************************)
(* The devices and the socket.  An event that does not fit is dropped.     *)
(***************************************************************************)
Emit(kind, d) ==
  /\ uq' = IF listening /\ Len(uq) < QCap
           THEN Append(uq, [kind |-> kind, dev |-> d]) ELSE uq
  /\ lost' = (lost \/ (listening /\ Len(uq) >= QCap))
  /\ UNCHANGED <<appv, td, owner, live, listening, known, late>>

Plug(d) == d \notin plugged /\ plugged' = plugged \cup {d} /\ Emit("add", d)

Unplug(d) == d \in plugged /\ plugged' = plugged \ {d} /\ Emit("remove", d)

Other(d) == d \in plugged /\ UNCHANGED plugged
              /\ \E kind \in Noise : Emit(kind, d)

-----------------------------------------------------------------------------
Next ==
  \/ InitBegin \/ InitStep
  \/ StopClose \/ StopJoin
  \/ TdStep
  \/ \E d \in Devices : Plug(d) \/ Unplug(d) \/ Other(d)

Spec == Init /\ [][Next]_vars

\* Both threads run; the timeout expires; a callback returns.
Fairness == WF_vars(InitStep) /\ WF_vars(StopJoin) /\ WF_vars(TdStep)

FairSpec == Spec /\ Fairness

-----------------------------------------------------------------------------
(***************************************************************************)
(* Properties.                                                             *)
(***************************************************************************)
AppPlaces ==
  {"idle", "calloc", "mutex_init", "cond_init", "pipe", "lock", "create",
   "timedwait", "waiting", "reacquire", "abandon", "join", "cleanup_init",
   "cleanup_pfd", "cleanup_m", "out", "running", "stopping"}

TdPlaces ==
  {"none", "setup", "lock", "signal", "unlock", "select", "receive",
   "callback", "exit", "done"}

\* Every variable is of its type and the socket holds QCap events at most.
TypeOK ==
  /\ faults \in FaultChoices
  /\ app \in AppPlaces
  /\ td \in TdPlaces
  /\ pr \in {"none", "0", "ETIMEDOUT"}
  /\ owner \in {"none", "app", "td"}
  /\ live \subseteq {"mon", "mutex", "cond", "pfd0", "pfd1"}
  /\ err \in BOOLEAN /\ listening \in BOOLEAN /\ lost \in BOOLEAN
  /\ plugged \subseteq Devices /\ known \subseteq Devices
  /\ uq \in Seq(Event) /\ Len(uq) <= QCap
  /\ late \in Nat

Alive == td \notin {"none", "done"}

\* Nothing is used after its release: the pipe and the thread of a monitor
\* the application holds are there for its stop; and the monitoring thread
\* has the ser_dev_mon_t as long as it runs, the pipe's read end until it
\* closes it, the mutex and the condition while it signals.  A spurious wake
\* up makes ser_dev_monitor_init destroy the last two too early.
UsesOnlyLive ==
  /\ app = "running" => {"mon", "pfd1"} \subseteq live /\ td # "none"
  /\ Alive => {"mon", "pfd0"} \subseteq live
  /\ td \in {"lock", "signal", "unlock"} /\ "spurious" \notin faults =>
       {"mutex", "cond"} \subseteq live

\* Nothing is left behind: with no monitor there is no thread, no memory and
\* no descriptor.  A failure of pthread_create leaves the pipe open.
NoLeak ==
  app = "idle" =>
    /\ td = "none"
    /\ live \subseteq IF "create" \in faults THEN {"pfd0", "pfd1"} ELSE {}

\* A monitor the application received is one whose thread finished its
\* initialization (dev_linux.c:393, "verify successful initialization"),
\* unless the wait for it woke up spuriously.
RunningIsInitialized ==
  app = "running" /\ "spurious" \notin faults =>
    td \notin {"setup", "lock", "signal"}

\* The faults that only the monitoring thread, or nobody, notices.
UnseenFaults == {"slow", "udev_new", "udev_monitor_new"}

\* A NULL of ser_dev_monitor_init comes with a description of what went wrong
\* in the caller's last error, which is what its callers print
\* (examples/monitor.c:35), when it was a call of the caller that failed.
NullHasReason ==
  [][app = "out" /\ app' = "idle" /\ faults \cap UnseenFaults = {} => err]_vars

\* The first n events of a queue that add device d or remove it.
About(events, d, n) ==
  {i \in 1..n : events[i].dev = d /\ events[i].kind \in {"add", "remove"}}

\* Device d is present, for one who knew of "devices" and was told of the
\* first n events: the last one about it decides.
Present(events, devices, d, n) ==
  IF About(events, d, n) = {} THEN d \in devices
  ELSE \E i \in About(events, d, n) :
         events[i].kind = "add" /\ \A j \in About(events, d, n) : j <= i

\* The thread has set up its udev monitor and not yet left its loop.
Watching == td \in {"lock", "signal", "unlock", "select", "receive", "callback"}

\* While the thread watches, the devices the callbacks told of and the events
\* still queued add up to the devices present, and each of these events is a
\* change for who has been told of those before it: none is skipped, repeated
\* or put out of order.  But for an event the socket had no room for or libudev
\* could not read, and a udev monitor that could not be enabled.
NothingMissed ==
  Watching /\ ~lost =>
    \A d \in Devices :
      /\ d \in plugged <=> Present(uq, known, d, Len(uq))
      /\ \A i \in About(uq, d, Len(uq)) :
           uq[i].kind = "add" <=> ~Present(uq, known, d, i - 1)

\* What dev.h promises: see DevMonitor.
Phase ==
  CASE app = "idle"     -> "off"
    [] app = "running"  -> "on"
    [] app = "stopping" -> "stopping"
    [] OTHER            -> "starting"

Monitor ==
  INSTANCE DevMonitor WITH
    Device <- Devices,
    ManyLate <- FALSE,
    phase <- Phase,
    calling <- (td = "callback"),
    late <- (late > 0),
    seen <- known

MonitorsDevices == Monitor!Spec

\* ser_dev_monitor_init returns, if the thread starts or fails in time.
InitReturns ==
  ("slow" \notin faults /\ Phase = "starting") ~> (Phase # "starting")

\* ser_dev_monitor_init returns within its timeout or a little later, with
\* NULL "if it could not be initialized" (dev.h:122), however slow the
\* thread it started is.
InitAlwaysReturns == (Phase = "starting") ~> (Phase # "starting")

\* ser_dev_monitor_stop returns.
StopReturns == (app = "stopping") ~> (app = "idle")

\* A device that is plugged in, or out, is reported while the monitor runs
\* (dev.h:115), unless it changes again or an event was lost, as above.  A
\* signal ends the monitoring thread and with it the reports.
ChangeIsReported ==
  \A d \in Devices :
    /\ (app = "running" /\ "signal" \notin faults /\ d \in plugged \ known)
         ~> (app # "running" \/ lost \/ d \notin plugged \/ d \in known)
    /\ (app = "running" /\ "signal" \notin faults /\ d \in known \ plugged)
         ~> (app # "running" \/ lost \/ d \in plugged \/ d \notin known)
=============================================================================
