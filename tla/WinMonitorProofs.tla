-------------------------- MODULE WinMonitorProofs --------------------------
(***************************************************************************)
(* Theorems about WinMonitor, for every set of devices, every choice of    *)
(* faults and every number of messages that wait for the window.           *)
(***************************************************************************)
EXTENDS WinMonitor, TLAPS

-----------------------------------------------------------------------------
(***************************************************************************)
(* The inductive invariant.                                                *)
(***************************************************************************)
AppPlaces ==
  {"idle", "calloc", "register", "event", "create", "wait", "terminate",
   "cleanup_td", "cleanup_init", "out", "running", "stopping"}

BeforeThread == {"idle", "calloc", "register", "event", "create"}

\* There is a thread from CreateThread until it is terminated or waited for; a
\* doomed one may outlive the start that failed.  And "initialized" tells which
\* of the two ends of ser_dev_monitor_init is being reached.  After the wait for
\* its event the thread is in its loop, and it leaves it at the WM_QUIT of
\* ser_dev_monitor_stop only.
Threads ==
  /\ app \in BeforeThread \cup {"cleanup_td"} => doomed \/ td = "none"
  /\ doomed => /\ app \in {"cleanup_td", "cleanup_init", "out", "idle"}
               /\ ~initialized /\ td # "none"
               /\ faults \cap {"slow", "wait"} # {}
  /\ app \in {"wait", "terminate", "running", "stopping"} => td # "none"
  /\ app \in {"cleanup_init", "out"} =>
       IF initialized THEN td \in {"loop", "callback"} ELSE doomed \/ td = "none"
  /\ app = "running" => td \in {"loop", "callback"}
  /\ app = "stopping" =>
       td \in IF quit THEN {"loop", "callback"} ELSE {"destroy", "done"}
  /\ quit => app = "stopping"

\* Callbacks are late only after a request to stop.
NeverLate == late => app = "stopping"

\* The event is set by the thread that enters its loop.  A thread that is
\* terminated has ended by itself unless it was slow or the wait failed.
Startup ==
  /\ app \in (BeforeThread \cup {"wait", "terminate", "cleanup_td"}) \ {"idle"}
       => ~initialized
  /\ app \in BeforeThread \ {"idle"} => ~init
  /\ app = "wait" /\ init => td \in {"loop", "callback"}
  /\ app = "terminate" /\ faults \cap {"slow", "wait"} = {} => td = "done"

\* The thread handle is closed by cleanup_td, or by ser_dev_monitor_stop.
HoldsThread ==
  \/ app \in {"wait", "terminate", "cleanup_td", "running", "stopping"}
  \/ app \in {"cleanup_init", "out"} /\ initialized

HoldsWindow ==
  td \in {"prop", "notify", "set_event", "loop", "callback", "destroy"}

Memory ==
  /\ app \in AppPlaces \ {"idle", "calloc", "out"} => "mon" \in live
  /\ app = "out" /\ initialized => "mon" \in live
  /\ app \in {"idle", "calloc"} => "mon" \notin live
  /\ "init" \in live <=>
       app \in {"create", "wait", "terminate", "cleanup_td", "cleanup_init"}
  /\ "thread" \in live <=> HoldsThread
  /\ "wnd" \in live <=> HoldsWindow
  /\ Listening => "notif" \in live
  /\ ~Listening /\ faults \cap {"slow", "wait"} = {} => "notif" \notin live

IInv == TypeOK /\ Threads /\ NeverLate /\ Startup /\ Memory

-----------------------------------------------------------------------------
(***************************************************************************)
(* The invariant holds at first and is preserved by every action.          *)
(***************************************************************************)
\* The messages for the window, as an action may leave them.
Waiting == sent \in Seq(Message) /\ Len(sent) <= MsgCap

LEMMA NoneWaiting == <<>> \in Seq(Message) /\ Len(<<>>) <= MsgCap
  BY MsgCapAssumption

LEMMA OneLess ==
  ASSUME Waiting, sent # <<>>
  PROVE  /\ Tail(sent) \in Seq(Message) /\ Len(Tail(sent)) <= MsgCap
         /\ Head(sent) \in Message
  BY MsgCapAssumption DEF Waiting

LEMMA OneMore ==
  ASSUME Waiting, NEW m \in Message, Len(sent) < MsgCap
  PROVE  Append(sent, m) \in Seq(Message) /\ Len(Append(sent, m)) <= MsgCap
  BY MsgCapAssumption DEF Waiting

LEMMA InitEstablishes == Init => IInv
<1> SUFFICES ASSUME Init PROVE IInv
  OBVIOUS
<1>1. sent \in Seq(Message) /\ Len(sent) <= MsgCap
  BY NoneWaiting DEF Init
<1>2. TypeOK
  BY <1>1 DEF Init, TypeOK
<1>3. QED
  BY <1>2 DEF Init, IInv, Threads, NeverLate, Startup, Memory, HoldsThread, HoldsWindow,
              Listening, BeforeThread, AppPlaces

LEMMA StepPreserves == IInv /\ [Next]_vars => IInv'
<1> SUFFICES ASSUME IInv, [Next]_vars PROVE IInv'
  OBVIOUS
<1> USE DEF IInv, TypeOK, Threads, NeverLate, Startup, Memory, HoldsThread, HoldsWindow,
        Listening, BeforeThread, AppPlaces, system
<1>1. CASE Prepare
  <2>0. /\ initialized' = FALSE /\ init' = FALSE
        /\ UNCHANGED <<faults, td, doomed, quit, system, known, late>>
    BY <1>1 DEF Prepare
  <2>1. CASE app = "idle" /\ ~doomed /\ app' = "calloc" /\ UNCHANGED live
    BY <2>0, <2>1
  <2>2. CASE Acquire(app, "calloc", {"mon"}, "register", "out")
    BY <2>0, <2>2 DEF Acquire
  <2>3. CASE Acquire(app, "register", {}, "event", "out")
    BY <2>0, <2>3 DEF Acquire
  <2>4. CASE Acquire(app, "event", {"init"}, "create", "out")
    BY <2>0, <2>4 DEF Acquire
  <2>5. QED
    BY <1>1, <2>1, <2>2, <2>3, <2>4 DEF Prepare
<1>2. CASE CreateThread
  BY <1>2 DEF CreateThread, Acquire
<1>3. CASE WaitInit
  <2>0. app = "wait" /\ UNCHANGED <<faults, td, doomed, live, quit, system, known, late>>
    BY <1>3 DEF WaitInit
  <2>1. CASE init /\ app' = "cleanup_init" /\ initialized' = TRUE /\ init' = FALSE
    <3>1. TypeOK' /\ Threads' /\ NeverLate' /\ Startup'
      BY <2>0, <2>1
    <3>2. Memory'
      BY <2>0, <2>1
    <3>3. QED
      BY <3>1, <3>2
  <2>2. CASE /\ td = "done" \/ faults \cap {"slow", "wait"} # {}
             /\ app' = "terminate" /\ UNCHANGED <<initialized, init>>
    <3>1. TypeOK' /\ Threads' /\ NeverLate' /\ Startup'
      BY <2>0, <2>2
    <3>2. Memory'
      BY <2>0, <2>2
    <3>3. QED
      BY <3>1, <3>2
  <2>3. QED
    BY <1>3, <2>1, <2>2 DEF WaitInit
<1>4. CASE Terminate
  <2>1. TypeOK'
    BY <1>4 DEF Terminate, Alive
  <2>2. Threads' /\ NeverLate' /\ Startup' /\ Memory'
    BY <1>4 DEF Terminate, Alive
  <2>3. QED
    BY <2>1, <2>2
<1>5. CASE CleanUp
  <2>1. CASE app = "cleanup_td"
    BY <1>5, <2>1 DEF CleanUp
  <2>2. CASE app = "cleanup_init"
    BY <1>5, <2>2 DEF CleanUp
  <2>3. QED
    BY <1>5, <2>1, <2>2 DEF CleanUp
<1>6. CASE InitReturn
  BY <1>6 DEF InitReturn
<1>7. CASE StopPost
  BY <1>7 DEF StopPost
<1>8. CASE StopWait
  BY <1>8 DEF StopWait
<1>9. CASE TdWindow
  <2>1. CASE Acquire(td, "window", {"wnd"}, "prop", "done")
    BY <1>9, <2>1 DEF TdWindow, Acquire
  <2>2. CASE Acquire(td, "prop", {}, "notify", "destroy")
    BY <1>9, <2>2 DEF TdWindow, Acquire
  <2>3. QED
    BY <1>9, <2>1, <2>2 DEF TdWindow
<1>10. CASE TdNotify
  BY <1>10 DEF TdNotify, Acquire
<1>11. CASE TdSetEvent
  BY <1>11 DEF TdSetEvent
<1>12. CASE TdDeliver
  <2>1. Waiting' /\ Head(sent) \in Message
    BY <1>12, OneLess DEF TdDeliver, Waiting
  <2>2. known' \subseteq Devices
    BY <1>12, <2>1 DEF TdDeliver, Reported, Message
  <2>3. td = "loop" /\ td' \in {"loop", "callback"} /\ late' \in BOOLEAN
    BY <1>12 DEF TdDeliver
  <2>4. TypeOK'
    BY <1>12, <2>1, <2>2, <2>3 DEF TdDeliver, Waiting
  <2>5. Threads' /\ NeverLate' /\ Startup' /\ Memory'
    BY <1>12, <2>3 DEF TdDeliver
  <2>6. QED
    BY <2>4, <2>5
<1>13. CASE TdCallbackReturns
  BY <1>13 DEF TdCallbackReturns
<1>14. CASE TdQuit
  <2>1. Waiting'
    BY <1>14, NoneWaiting DEF TdQuit, Waiting
  <2>2. TypeOK'
    BY <1>14, <2>1 DEF TdQuit, Waiting
  <2>3. Threads' /\ NeverLate' /\ Startup' /\ Memory'
    BY <1>14 DEF TdQuit
  <2>4. QED
    BY <2>2, <2>3
<1>15. CASE TdDestroy
  BY <1>15 DEF TdDestroy
<1>16. ASSUME NEW d \in Devices, Plug(d) \/ Unplug(d) \/ Other(d)
       PROVE  IInv'
  <2>1. PICK kind \in {"arrival", "removecomplete"} \cup Noise : Send(kind, d)
    BY <1>16 DEF Plug, Unplug, Other
  <2>2. Waiting'
    <3>1. [kind |-> kind, dev |-> d] \in Message
      BY DEF Message
    <3>2. QED
      BY <2>1, <3>1, OneMore DEF Send, Waiting
  <2>3. plugged' \subseteq Devices
    BY <1>16 DEF Plug, Unplug, Other
  <2>4. TypeOK'
    BY <2>1, <2>2, <2>3 DEF Send, Waiting
  <2>5. Threads' /\ NeverLate' /\ Startup' /\ Memory'
    BY <2>1 DEF Send
  <2>6. QED
    BY <2>4, <2>5
<1>17. CASE TdEnds
  <2>1. Waiting'
    BY <1>17, NoneWaiting DEF TdEnds, Waiting
  <2>2. TypeOK'
    BY <1>17, <2>1 DEF TdEnds, Waiting
  <2>3. Threads' /\ NeverLate' /\ Startup' /\ Memory'
    BY <1>17 DEF TdEnds
  <2>4. QED
    BY <2>2, <2>3
<1>18. CASE UNCHANGED vars
  BY <1>18 DEF vars
<1>19. QED
  BY <1>1, <1>2, <1>3, <1>4, <1>5, <1>6, <1>7, <1>8, <1>9, <1>10, <1>11, <1>12,
     <1>13, <1>14, <1>15, <1>16, <1>17, <1>18 DEF Next, AppStep, TdStep

-----------------------------------------------------------------------------
(***************************************************************************)
(* What follows for every behaviour.                                       *)
(***************************************************************************)

\* The invariant holds in every state of every behaviour.
THEOREM Invariance == Spec => []IInv
  BY InitEstablishes, StepPreserves, PTL DEF Spec

\* Type correctness (win/dev.c, the ser_dev_mon_t and the two threads).
THEOREM TypeCorrect == Spec => []TypeOK
<1>1. IInv => TypeOK
  BY DEF IInv
<1>2. QED
  BY <1>1, Invariance, PTL

\* The monitor, its event, its thread, its window and its notification are
\* there as long as somebody uses them, and a failed start or a stop gives
\* all of them back.  When a late thread is terminated all but its
\* notification are given back once it has ended; until then it may go on and
\* use what was released.
THEOREM HeldAndReleased == Spec => []HeldWhileUsed
<1>1. IInv => HeldWhileUsed
  BY DEF IInv, TypeOK, HeldWhileUsed, Threads, Startup, Memory, HoldsThread,
         HoldsWindow, Listening, Alive, BeforeThread, AppPlaces
<1>2. QED
  BY <1>1, Invariance, PTL

-----------------------------------------------------------------------------
(***************************************************************************)
(* WinMonitor implements DevMonitor.                                       *)
(***************************************************************************)
LEMMA InitRefines == Init => Monitor!Init
  BY DEF Init, Monitor!Init, Phase

LEMMA StepRefines == IInv /\ [Next]_vars => [Monitor!Next]_(Monitor!dvars)
<1> SUFFICES ASSUME IInv, [Next]_vars
             PROVE  Monitor!Next \/ UNCHANGED Monitor!dvars
  OBVIOUS
<1> USE DEF Phase, Monitor!dvars
<1> USE DEF IInv, Monitor!Next
<1>1. CASE Prepare
  <2>1. UNCHANGED <<td, doomed, known, late>> /\ (doomed \/ td = "none")
    BY <1>1 DEF Prepare, Acquire, Threads, BeforeThread
  <2>2. CASE app = "idle"
    <3>1. app' = "calloc"
      BY <1>1, <2>2 DEF Prepare, Acquire
    <3>2. QED
      BY <2>1, <2>2, <3>1 DEF Monitor!Start
  <2>3. CASE app # "idle"
    <3>1. Phase = "starting" /\ Phase' = "starting"
      BY <1>1, <2>3 DEF Prepare, Acquire
    <3>2. QED
      BY <2>1, <3>1
  <2>4. QED
    BY <2>2, <2>3
<1>2. CASE CreateThread \/ WaitInit \/ CleanUp
  <2>1. Phase = "starting" /\ Phase' = "starting"
    BY <1>2 DEF CreateThread, Acquire, WaitInit, CleanUp
  <2>2. (td' = "callback" /\ ~doomed') = (td = "callback" /\ ~doomed)
    <3>1. CASE CreateThread
      BY <3>1 DEF CreateThread, Acquire, Threads, BeforeThread
    <3>2. CASE WaitInit \/ CleanUp
      BY <3>2 DEF WaitInit, CleanUp
    <3>3. QED
      BY <1>2, <3>1, <3>2
  <2>3. UNCHANGED <<known, late>>
    BY <1>2 DEF CreateThread, WaitInit, CleanUp
  <2>4. QED
    BY <2>1, <2>2, <2>3
<1>3. CASE Terminate
  <2>1. /\ Phase = "starting" /\ Phase' = "starting"
        /\ ~(td' = "callback" /\ ~doomed') /\ UNCHANGED <<known, late>>
    BY <1>3 DEF Terminate, Alive
  <2>2. CASE td = "callback" /\ ~doomed
    BY <2>1, <2>2 DEF Monitor!CallbackReturns
  <2>3. CASE ~(td = "callback" /\ ~doomed)
    BY <2>1, <2>3
  <2>4. QED
    BY <2>2, <2>3
<1>4. CASE InitReturn
  <2>1. CASE initialized
    BY <1>4, <2>1 DEF InitReturn, Monitor!Started
  <2>2. CASE ~initialized
    <3>1. doomed \/ td = "none"
      BY <1>4, <2>2 DEF InitReturn, Threads
    <3>2. QED
      BY <1>4, <2>2, <3>1 DEF InitReturn, Monitor!StartFailed
  <2>3. QED
    BY <2>1, <2>2
<1>5. CASE StopPost
  BY <1>5 DEF StopPost, Monitor!Stop
<1>6. CASE StopWait
  BY <1>6 DEF StopWait, Monitor!Stopped
<1>7. CASE doomed /\ TdStep
  <2>1. UNCHANGED <<app, doomed, known>>
    BY <1>7 DEF TdStep, TdWindow, TdNotify, TdSetEvent, TdDeliver,
                TdCallbackReturns, TdQuit, TdDestroy
  <2>2. late' = late
    <3>1. app # "stopping"
      BY <1>7 DEF Threads
    <3>2. CASE TdDeliver
      BY <1>7, <3>1, <3>2 DEF TdDeliver, NeverLate, TypeOK
    <3>3. CASE ~TdDeliver
      BY <1>7, <3>3 DEF TdStep, TdWindow, TdNotify, TdSetEvent,
                        TdCallbackReturns, TdQuit, TdDestroy
    <3> QED
      BY <3>2, <3>3
  <2> QED
    BY <1>7, <2>1, <2>2
<1>8. CASE ~doomed /\ TdNotify
  <2>1. app # "idle" /\ UNCHANGED <<app, late>> /\ td # "callback" /\ td' # "callback"
    BY <1>8 DEF TdNotify, Acquire, Threads, BeforeThread
  <2>2. CASE td' = "set_event"
    BY <1>8, <2>1, <2>2 DEF TdNotify, Monitor!Watch, TypeOK
  <2>3. CASE td' # "set_event"
    BY <1>8, <2>1, <2>3 DEF TdNotify
  <2>4. QED
    BY <2>2, <2>3
<1>9. CASE ~doomed /\ TdDeliver
  <2>1. Head(sent) \in Message
    BY <1>9, OneLess DEF TdDeliver, Waiting, TypeOK
  <2>2. app # "idle" /\ UNCHANGED <<app, doomed>>
    BY <1>9 DEF TdDeliver, Threads, BeforeThread
  <2>3. CASE Head(sent).kind \in {"arrival", "removecomplete"}
    <3>1. td = "loop" /\ td' = "callback" /\ late' = (app = "stopping")
      BY <1>9, <2>3 DEF TdDeliver
    <3>2. /\ Head(sent).dev \in Devices
          /\ known' \in {known \cup {Head(sent).dev}, known \ {Head(sent).dev}}
      BY <1>9, <2>1, <2>3 DEF TdDeliver, Reported, Message
    <3>3. late' = (Phase = "stopping")
      BY <3>1
    <3>4. QED
      BY <1>9, <2>2, <3>1, <3>2, <3>3 DEF Monitor!Callback
  <2>4. CASE Head(sent).kind \notin {"arrival", "removecomplete"}
    <3>1. td' = td /\ UNCHANGED late
      BY <1>9, <2>4 DEF TdDeliver
    <3>2. known' = known
      BY <1>9, <2>4 DEF TdDeliver, Reported
    <3>3. QED
      BY <2>2, <3>1, <3>2
  <2>5. QED
    BY <2>3, <2>4
<1>10. CASE ~doomed /\ TdCallbackReturns
  BY <1>10 DEF TdCallbackReturns, Monitor!CallbackReturns
<1>11. CASE ~doomed /\ (TdWindow \/ TdSetEvent \/ TdQuit \/ TdDestroy)
  BY <1>11 DEF TdWindow, Acquire, TdSetEvent, TdQuit, TdDestroy
<1>12. CASE TdEnds
  <2>1. ~(td = "callback" /\ ~doomed) /\ ~(td' = "callback" /\ ~doomed')
    BY <1>12 DEF TdEnds
  <2>2. UNCHANGED <<app, known, late>>
    BY <1>12 DEF TdEnds
  <2>3. QED
    BY <2>1, <2>2
<1>13. CASE \E d \in Devices : Plug(d) \/ Unplug(d) \/ Other(d)
  <2>1. UNCHANGED <<app, td, doomed, known, late>>
    BY <1>13 DEF Plug, Unplug, Other, Send
  <2>2. QED
    BY <2>1
<1>14. CASE UNCHANGED vars
  BY <1>14 DEF vars
<1>15. QED
  BY <1>1, <1>2, <1>3, <1>4, <1>5, <1>6, <1>7, <1>8, <1>9, <1>10, <1>11, <1>12,
     <1>13, <1>14 DEF Next, AppStep, TdStep

\* ser_dev_monitor_init and ser_dev_monitor_stop keep the promise of dev.h:
\* no callback before the start, outside of a monitor's life or after the
\* stop returned, but for those of a late thread between its termination and
\* its end.
THEOREM Implements == Spec => MonitorsDevices
  BY InitRefines, StepRefines, Invariance, PTL DEF Spec, MonitorsDevices, Monitor!Spec

-----------------------------------------------------------------------------
(***************************************************************************)
(* Every call returns: what of it is safety.  Somebody can always go on,   *)
(* and who goes on brings the end of the call closer.                      *)
(***************************************************************************)
InCall == app \notin {"idle", "running"}

\* The guards of the application thread's steps, and of the monitoring thread's.
AppCanGo ==
  CASE app = "wait" -> init \/ faults \cap {"slow", "wait"} # {} \/ td = "done"
    [] app = "stopping" -> td = "done"
    [] OTHER -> InCall

TdCanGo ==
  CASE td = "loop" -> quit \/ sent # <<>>
    [] OTHER -> Alive

\* The steps left to the application thread, and those left to the monitoring
\* thread if no more messages are sent: two for each that waits.
AppLeft ==
  CASE app = "calloc" -> 9 [] app = "register" -> 8 [] app = "event" -> 7
    [] app = "create" -> 6 [] app = "wait" -> 5 [] app = "terminate" -> 4
    [] app = "cleanup_td" -> 3 [] app = "cleanup_init" -> 2
    [] app \in {"out", "stopping"} -> 1 [] OTHER -> 0

TdPlace ==
  CASE td = "window" -> 7 [] td = "prop" -> 6 [] td = "notify" -> 5
    [] td = "set_event" -> 4 [] td = "callback" -> 3 [] td = "loop" -> 2
    [] td = "destroy" -> 1 [] OTHER -> 0

TdLeft == 2 * Len(sent) + TdPlace

\* The event is set before the thread enters its loop.
Handshake == app = "wait" /\ ~init => td \notin {"loop", "callback"}

\* Nobody waits in vain: neither ser_dev_monitor_init for the event nor
\* ser_dev_monitor_stop for the thread, which has a WM_QUIT to retrieve.
SomebodyGoesOn == InCall => AppCanGo \/ TdCanGo

\* A step is taken where its guard says so and brings the end of the call closer,
\* if it is the application's, or else the end of the thread.
CallsComeCloser ==
  [][/\ (Prepare /\ InCall) \/ AppStep => AppCanGo /\ AppLeft' < AppLeft
     /\ TdStep => TdCanGo /\ app' = app /\ TdLeft' < TdLeft]_vars

LEMMA HandshakeInit == Init => Handshake
  BY DEF Init, Handshake

LEMMA HandshakeStep == IInv /\ Handshake /\ [Next]_vars => Handshake'
<1> SUFFICES ASSUME IInv, Handshake, [Next]_vars PROVE Handshake'
  OBVIOUS
<1> USE DEF Handshake
<1>1. CASE Prepare
  BY <1>1 DEF Prepare, Acquire
<1>2. CASE AppStep
  BY <1>2 DEF AppStep, CreateThread, Acquire, WaitInit, Terminate, CleanUp,
              InitReturn, StopWait
<1>3. CASE StopPost
  BY <1>3 DEF StopPost
<1>4. CASE TdStep
  <2>1. CASE TdWindow \/ TdNotify
    BY <2>1 DEF TdWindow, TdNotify, Acquire
  <2>2. CASE TdSetEvent \/ TdDeliver \/ TdCallbackReturns
    BY <2>2 DEF TdSetEvent, TdDeliver, TdCallbackReturns
  <2>3. CASE TdQuit \/ TdDestroy
    BY <2>3 DEF TdQuit, TdDestroy
  <2>4. QED
    BY <1>4, <2>1, <2>2, <2>3 DEF TdStep
<1>5. ASSUME NEW d \in Devices, Plug(d) \/ Unplug(d) \/ Other(d)
      PROVE  Handshake'
  BY <1>5 DEF Plug, Unplug, Other, Send
<1>6. CASE TdEnds
  BY <1>6 DEF TdEnds
<1>7. CASE UNCHANGED vars
  BY <1>7 DEF vars
<1>8. QED
  BY <1>1, <1>2, <1>3, <1>4, <1>5, <1>6, <1>7 DEF Next

LEMMA HandshakeAlways == Spec => []Handshake
  BY HandshakeInit, HandshakeStep, Invariance, PTL DEF Spec

\* ser_dev_monitor_init and ser_dev_monitor_stop never wait in vain: no deadlock
\* of the two threads over the event, WM_QUIT and the end of the thread
\* (win/dev.c, the two WaitForSingleObject), however slow the thread is.
THEOREM NobodyWaitsInVain == Spec => []SomebodyGoesOn
<1>1. IInv /\ Handshake => SomebodyGoesOn
  BY DEF IInv, TypeOK, Threads, BeforeThread, Handshake, SomebodyGoesOn, InCall,
         AppCanGo, TdCanGo, Alive
<1>2. QED
  BY <1>1, Invariance, HandshakeAlways, PTL

LEMMA AppComesCloser ==
  ASSUME IInv, (Prepare /\ InCall) \/ AppStep
  PROVE  AppCanGo /\ AppLeft' < AppLeft
<1> USE DEF AppCanGo, AppLeft, InCall
<1>1. CASE Prepare /\ InCall
  BY <1>1 DEF Prepare, Acquire
<1>2. CASE CreateThread \/ WaitInit
  BY <1>2 DEF CreateThread, Acquire, WaitInit
<1>3. CASE Terminate \/ CleanUp
  BY <1>3 DEF Terminate, CleanUp
<1>4. CASE InitReturn \/ StopWait
  BY <1>4 DEF InitReturn, StopWait
<1>5. QED
  BY <1>1, <1>2, <1>3, <1>4 DEF AppStep

LEMMA TdComesCloser ==
  ASSUME IInv, TdStep
  PROVE  TdCanGo /\ app' = app /\ TdLeft' < TdLeft
<1>1. TdCanGo /\ app' = app
  BY DEF TdStep, TdWindow, TdNotify, Acquire, TdSetEvent, TdDeliver,
         TdCallbackReturns, TdQuit, TdDestroy, TdCanGo, Alive
<1>2. sent \in Seq(Message) /\ Len(sent) \in Nat
  BY DEF IInv, TypeOK
<1>3. CASE TdDeliver
  <2>1. sent # <<>> /\ Len(sent') = Len(sent) - 1
    BY <1>2, <1>3 DEF TdDeliver
  <2>2. TdPlace = 2 /\ TdPlace' \in {2, 3}
    BY <1>3 DEF TdDeliver, TdPlace
  <2>3. QED
    BY <1>1, <1>2, <2>1, <2>2 DEF TdLeft
<1>4. CASE TdQuit
  <2>1. TdPlace = 2 /\ TdPlace' = 1
    BY <1>4 DEF TdQuit, TdPlace
  <2>2. Len(sent') = 0
    BY <1>4 DEF TdQuit
  <2>3. QED
    BY <1>1, <1>2, <2>1, <2>2 DEF TdLeft
<1>5. CASE TdWindow \/ TdNotify \/ TdSetEvent \/ TdCallbackReturns \/ TdDestroy
  <2>1. sent' = sent
    BY <1>5 DEF TdWindow, TdNotify, TdSetEvent, TdCallbackReturns, TdDestroy, system
  <2>2. TdPlace' < TdPlace /\ TdPlace' \in Int /\ TdPlace \in Int
    BY <1>5 DEF TdWindow, TdNotify, Acquire, TdSetEvent, TdCallbackReturns,
                TdDestroy, TdPlace
  <2>3. QED
    BY <1>1, <1>2, <2>1, <2>2 DEF TdLeft
<1>6. QED
  BY <1>3, <1>4, <1>5 DEF TdStep

\* Every step of a call is progress, and so is every step of the thread until
\* the system sends its window another message: no two steps undo each other.
\* With the fairness of FairSpec this is why the calls return.
THEOREM EveryStepIsProgress == Spec => CallsComeCloser
<1> DEFINE Closer ==
      /\ (Prepare /\ InCall) \/ AppStep => AppCanGo /\ AppLeft' < AppLeft
      /\ TdStep => TdCanGo /\ app' = app /\ TdLeft' < TdLeft
<1>1. IInv /\ [Next]_vars => [Closer]_vars
  BY AppComesCloser, TdComesCloser
<1>2. QED
  BY <1>1, Invariance, PTL DEF Spec, CallsComeCloser
=============================================================================
