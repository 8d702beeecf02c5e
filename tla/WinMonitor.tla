----------------------------- MODULE WinMonitor -----------------------------
(***************************************************************************)
(* The device monitor on Windows (sercomm/win/dev.c): an application       *)
(* thread in ser_dev_monitor_init and ser_dev_monitor_stop, the monitoring *)
(* thread ser_dev_monitor, and the window to which the system sends        *)
(* WM_DEVICECHANGE.                                                        *)
(*                                                                         *)
(* The thread is waited for with an event, which remembers that it was set *)
(* and wakes nobody up by mistake.  A thread that is late is terminated,   *)
(* which takes effect later: until then it is "doomed" and may go on.      *)
(* "live" is what has been acquired and not yet released.  The window      *)
(* class is registered once and stays: class_reg is 0 whether              *)
(* RegisterClass succeeds or finds it there.                               *)
(***************************************************************************)
EXTENDS Sequences, Integers

CONSTANTS
  Devices,       \* the serial devices that may be plugged in
  Noise,         \* messages with no arrival and no removal of an interface
  FaultChoices,  \* what may go wrong in a behaviour: sets of faults, see below
  MsgCap         \* messages that wait for the window, a bound of the model

(***************************************************************************)
(* A fault names a call that may fail ("calloc", "register", "event",      *)
(* "create", "wait", "window", "prop", "notify") or is "slow": the thread  *)
(* may need longer than DEV_MON_INIT_TIMEOUT.                              *)
(***************************************************************************)
ASSUME MsgCapAssumption == MsgCap \in Nat \ {0}
ASSUME NoiseAssumption == Noise \cap {"arrival", "removecomplete"} = {}

VARIABLES
  faults,       \* what may go wrong in this behaviour
  app,          \* where the application thread is
  td,           \* where the monitoring thread is
  doomed,       \* TerminateThread was called and the thread has not ended yet
  initialized,  \* the local variable of ser_dev_monitor_init
  live,         \* memory, event, thread handle, window, notification handle
  init,         \* the event mon->init is set
  quit,         \* WM_QUIT is in the thread's message queue
  plugged,      \* the devices present
  sent,         \* the messages sent to the window, not yet delivered
  known,        \* history: the devices present, going by the callbacks of
                \* a thread that is not doomed
  late          \* history: a callback has begun since ser_dev_monitor_stop

system == <<plugged, sent>>
vars ==
  <<faults, app, td, doomed, initialized, live, init, quit, system, known, late>>

Alive == td \notin {"none", "done"}

Message == [kind : {"arrival", "removecomplete"} \cup Noise, dev : Devices]

Init ==
  /\ faults \in FaultChoices
  /\ app = "idle" /\ td = "none" /\ doomed = FALSE /\ initialized = FALSE
  /\ live = {} /\ init = FALSE /\ quit = FALSE
  /\ plugged \in SUBSET Devices /\ sent = <<>>
  /\ known = plugged /\ late = FALSE

-----------------------------------------------------------------------------
(***************************************************************************)
(* ser_dev_monitor_init.                                                   *)
(***************************************************************************)

\* A call of either thread that acquires "got", or fails and leaves for a
\* clean up label.
Acquire(thread, at, got, next, onFailure) ==
  \/ thread = at /\ thread' = next /\ live' = live \cup got
  \/ thread = at /\ at \in faults /\ thread' = onFailure /\ UNCHANGED live

\* The application starts another monitor only when a doomed thread has ended,
\* an assumption of the model.
Prepare ==
  /\ \/ app = "idle" /\ ~doomed /\ app' = "calloc" /\ UNCHANGED live
     \/ Acquire(app, "calloc", {"mon"}, "register", "out")
     \/ Acquire(app, "register", {}, "event", "out")
     \/ Acquire(app, "event", {"init"}, "create", "out")
  /\ initialized' = FALSE /\ init' = FALSE
  /\ UNCHANGED <<faults, td, doomed, quit, system, known, late>>

CreateThread ==
  /\ Acquire(app, "create", {"thread"}, "wait", "cleanup_init")
  /\ td' = IF app' = "wait" THEN "window" ELSE td
  /\ UNCHANGED <<faults, doomed, initialized, init, quit, system, known, late>>

\* WaitForSingleObject on the event, which it resets.  It times out after a
\* second: unless "slow" is among the faults, a thread that comes as far as
\* SetEvent is faster than that.
WaitInit ==
  /\ app = "wait"
  /\ \/ init /\ app' = "cleanup_init" /\ initialized' = TRUE /\ init' = FALSE
     \/ /\ (~init /\ ("slow" \in faults \/ td = "done")) \/ "wait" \in faults
        /\ app' = "terminate" /\ UNCHANGED <<initialized, init>>
  /\ UNCHANGED <<faults, td, doomed, live, quit, system, known, late>>

\* Mutant: the late thread is left alone.
Terminate_Forgotten ==
  /\ app = "terminate"
  /\ app' = "cleanup_td"
  /\ UNCHANGED <<faults, td, doomed, initialized, live, init, quit, system, known, late>>

\* TerminateThread, which does not wait for the end of the thread.
Terminate ==
  /\ app = "terminate"
  /\ app' = "cleanup_td"
  /\ doomed' = Alive /\ td' = IF Alive THEN td ELSE "none"
  /\ UNCHANGED <<faults, initialized, live, init, quit, system, known, late>>

\* The labels cleanup_td and cleanup_init; cleanup_wndc finds class_reg 0.
CleanUp ==
  /\ \/ app = "cleanup_td" /\ app' = "cleanup_init"
        /\ live' = live \ {"thread"}
     \/ app = "cleanup_init" /\ app' = "out"
        /\ live' = live \ {"init"}
  /\ UNCHANGED <<faults, td, doomed, initialized, init, quit, system, known, late>>

\* The label out.
InitReturn ==
  /\ app = "out"
  /\ IF initialized THEN app' = "running" /\ UNCHANGED live
                    ELSE app' = "idle" /\ live' = live \ {"mon"}
  /\ UNCHANGED <<faults, td, doomed, initialized, init, quit, system, known, late>>

-----------------------------------------------------------------------------
(***************************************************************************)
(* ser_dev_monitor_stop.                                                   *)
(***************************************************************************)

\* PostThreadMessage: the thread that has a window has a message queue.
StopPost ==
  /\ app = "running"
  /\ app' = "stopping" /\ quit' = TRUE
  /\ UNCHANGED <<faults, td, doomed, initialized, live, init, system, known, late>>

\* Mutant: ser_dev_monitor_stop does not wait for the thread.
StopWait_Not ==
  /\ app = "stopping"
  /\ app' = "idle" /\ live' = live \ {"thread", "mon"} /\ late' = FALSE
  /\ UNCHANGED <<faults, td, doomed, initialized, init, quit, system, known>>

\* The thread has ended: its handle is closed, the monitor freed.
StopWait ==
  /\ app = "stopping" /\ td = "done"
  /\ app' = "idle" /\ td' = "none" /\ live' = live \ {"thread", "mon"}
  /\ late' = FALSE
  /\ UNCHANGED <<faults, doomed, initialized, init, quit, system, known>>

AppStep ==
  CreateThread \/ WaitInit \/ Terminate \/ CleanUp \/ InitReturn \/ StopWait

-----------------------------------------------------------------------------
(***************************************************************************)
(* The monitoring thread, ser_dev_monitor, and its window procedure.       *)
(***************************************************************************)

\* CreateWindow, which gives the thread a message queue, and SetProp.
TdWindow ==
  /\ \/ Acquire(td, "window", {"wnd"}, "prop", "done")
     \/ Acquire(td, "prop", {}, "notify", "destroy")
  /\ quit' = FALSE
  /\ UNCHANGED <<faults, app, doomed, initialized, init, system, known, late>>

\* RegisterDeviceNotification: from here on the window is told of devices.
TdNotify ==
  /\ Acquire(td, "notify", {"notif"}, "set_event", "destroy")
  /\ known' = IF td' = "set_event" /\ ~doomed THEN plugged ELSE known
  /\ UNCHANGED <<faults, app, doomed, initialized, init, quit, system, late>>

TdSetEvent ==
  /\ td = "set_event"
  /\ td' = "loop" /\ init' = TRUE
  /\ UNCHANGED <<faults, app, doomed, initialized, live, quit, system, known, late>>

\* What the application knows after the callback of message m.
Reported(m, devices) ==
  CASE m.kind = "arrival"        -> devices \cup {m.dev}
    [] m.kind = "removecomplete" -> devices \ {m.dev}
    [] OTHER                     -> devices

\* GetMessage delivers a message that was sent to the window; the window
\* procedure calls on_event for an arrival or a removal.
TdDeliver ==
  /\ td = "loop" /\ sent # <<>>
  /\ sent' = Tail(sent)
  /\ known' = IF doomed THEN known ELSE Reported(Head(sent), known)
  /\ IF Head(sent).kind \in {"arrival", "removecomplete"}
     THEN td' = "callback" /\ late' = (app = "stopping")
     ELSE UNCHANGED <<td, late>>
  /\ UNCHANGED <<faults, app, doomed, initialized, live, init, quit, plugged>>

TdCallbackReturns ==
  /\ td = "callback"
  /\ td' = "loop"
  /\ UNCHANGED <<faults, app, doomed, initialized, live, init, quit, system, known, late>>

\* Mutant: the loop goes on at WM_QUIT.
TdQuit_Ignored ==
  /\ td = "loop" /\ quit
  /\ quit' = FALSE
  /\ UNCHANGED <<faults, app, td, doomed, initialized, live, init, system, known, late>>

\* GetMessage returns 0 for WM_QUIT: the notification is unregistered.  The
\* messages still waiting are not delivered any more.
TdQuit ==
  /\ td = "loop" /\ quit
  /\ td' = "destroy" /\ quit' = FALSE
  /\ live' = live \ {"notif"} /\ sent' = <<>>
  /\ UNCHANGED <<faults, app, doomed, initialized, init, plugged, known, late>>

\* The label cleanup_wnd.
TdDestroy ==
  /\ td = "destroy"
  /\ td' = "done" /\ live' = live \ {"wnd"}
  /\ UNCHANGED <<faults, app, doomed, initialized, init, quit, system, known, late>>

\* The termination takes effect, wherever the thread is.  Its window goes with
\* it, the handle of the notification stays.
TdEnds ==
  /\ doomed /\ doomed' = FALSE /\ td' = "none"
  /\ live' = live \ {"wnd"} /\ sent' = <<>>
  /\ UNCHANGED <<faults, app, initialized, init, quit, plugged, known, late>>

TdStep ==
  \/ TdWindow \/ TdNotify \/ TdSetEvent \/ TdDeliver \/ TdCallbackReturns
  \/ TdQuit \/ TdDestroy

-----------------------------------------------------------------------------
(***************************************************************************)
(* The system tells the window of the devices that come and go.            *)
(***************************************************************************)
Listening == td \in {"set_event", "loop", "callback"}

Send(kind, d) ==
  /\ Len(sent) < MsgCap
  /\ sent' = IF Listening THEN Append(sent, [kind |-> kind, dev |-> d]) ELSE sent
  /\ UNCHANGED <<faults, app, td, doomed, initialized, live, init, quit, known, late>>

Plug(d) == d \notin plugged /\ plugged' = plugged \cup {d} /\ Send("arrival", d)

Unplug(d) ==
  d \in plugged /\ plugged' = plugged \ {d} /\ Send("removecomplete", d)

Other(d) == UNCHANGED plugged /\ \E kind \in Noise : Send(kind, d)

-----------------------------------------------------------------------------
Next ==
  \/ Prepare \/ AppStep \/ StopPost
  \/ TdStep \/ TdEnds
  \/ \E d \in Devices : Plug(d) \/ Unplug(d) \/ Other(d)

Spec == Init /\ [][Next]_vars

\* Both threads run; the timeout expires; a callback returns.  WM_QUIT is
\* retrieved when nothing is left to deliver.
FairSpec == Spec /\ WF_vars(AppStep) /\ WF_vars(TdStep)

-----------------------------------------------------------------------------
(***************************************************************************)
(* Properties.                                                             *)
(***************************************************************************)

\* Every variable is of its type and at most MsgCap messages wait.
TypeOK ==
  /\ faults \in FaultChoices
  /\ app \in {"idle", "calloc", "register", "event", "create", "wait",
              "terminate", "cleanup_td", "cleanup_init", "out", "running",
              "stopping"}
  /\ td \in {"none", "window", "prop", "notify", "set_event", "loop",
             "callback", "destroy", "done"}
  /\ live \subseteq {"mon", "init", "thread", "wnd", "notif"}
  /\ initialized \in BOOLEAN /\ init \in BOOLEAN /\ quit \in BOOLEAN
  /\ doomed \in BOOLEAN /\ late \in BOOLEAN
  /\ plugged \subseteq Devices /\ known \subseteq Devices
  /\ sent \in Seq(Message) /\ Len(sent) <= MsgCap

\* Nothing is used after its release and nothing is left behind: a monitor
\* the application holds has its memory, its thread and its window; the
\* thread has the monitor as long as it runs and the event until it has set
\* it; with no monitor nothing is held.  There are two exceptions.  A thread
\* that was terminated and has not ended yet has no claim on anything, though
\* it may still use it (dev.c:516), and when it has ended its notification is
\* left behind, which only the thread would have unregistered.
HeldWhileUsed ==
  /\ app = "running" => {"mon", "thread", "wnd", "notif"} \subseteq live
  /\ Alive /\ ~doomed => "mon" \in live
  /\ td = "set_event" /\ ~doomed => "init" \in live
  /\ app = "idle" /\ ~doomed => td = "none" /\ live \subseteq {"notif"}
  /\ app = "idle" /\ faults \cap {"slow", "wait"} = {} => ~doomed /\ live = {}

\* What dev.h promises: see DevMonitor.  The callbacks of a doomed thread, for
\* a monitor the application never got, are left out.
Phase ==
  CASE app = "idle"     -> "off"
    [] app = "running"  -> "on"
    [] app = "stopping" -> "stopping"
    [] OTHER            -> "starting"

Monitor ==
  INSTANCE DevMonitor WITH
    Device <- Devices,
    ManyLate <- TRUE,
    phase <- Phase,
    calling <- (td = "callback" /\ ~doomed),
    late <- late,
    seen <- known

MonitorsDevices == Monitor!Spec

\* ser_dev_monitor_stop returns once the system stops sending messages.
DevicesSettle == <>[][Len(sent') <= Len(sent)]_vars

StopReturns == DevicesSettle => ((app = "stopping") ~> (app = "idle"))
=============================================================================
