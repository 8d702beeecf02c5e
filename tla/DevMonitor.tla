----------------------------- MODULE DevMonitor -----------------------------
(***************************************************************************)
(* What the device monitor promises its application (dev.h): callbacks, on *)
(* a thread of the library, about serial devices that come and go, between *)
(* the call of ser_dev_monitor_init and the return of                      *)
(* ser_dev_monitor_stop.                                                   *)
(***************************************************************************)
CONSTANTS
  Device,   \* the serial devices
  ManyLate  \* whether several callbacks may begin after the request to stop

VARIABLES
  phase,    \* "off", "starting", "on" or "stopping"
  calling,  \* a callback is running
  late,     \* a callback has begun since the application asked to stop
  seen      \* the devices present, going by the callbacks

dvars == <<phase, calling, late, seen>>

Init ==
  /\ phase = "off" /\ calling = FALSE /\ late = FALSE
  /\ seen \in SUBSET Device

Start == phase = "off" /\ phase' = "starting" /\ UNCHANGED <<calling, late, seen>>

\* The monitor begins to watch; the devices there now are not reported.  It
\* need not have begun when the application is told that it has.
Watch ==
  /\ phase # "off" /\ ~calling
  /\ seen' \in SUBSET Device
  /\ UNCHANGED <<phase, calling, late>>

Started == phase = "starting" /\ phase' = "on" /\ UNCHANGED <<calling, late, seen>>

StartFailed ==
  /\ phase = "starting" /\ ~calling
  /\ phase' = "off"
  /\ UNCHANGED <<calling, late, seen>>

\* A device is reported as added or as removed.  A callback may still begin
\* after the application asked to stop; whether another one may after it
\* depends on the platform.
Callback ==
  /\ phase # "off" /\ ~calling /\ (late => ManyLate)
  /\ calling' = TRUE
  /\ late' = (phase = "stopping")
  /\ \E d \in Device : seen' \in {seen \cup {d}, seen \ {d}}
  /\ UNCHANGED phase

CallbackReturns == calling /\ calling' = FALSE /\ UNCHANGED <<phase, late, seen>>

Stop == phase = "on" /\ phase' = "stopping" /\ UNCHANGED <<calling, late, seen>>

\* The stop returns when no callback is running: none runs after it.
Stopped ==
  /\ phase = "stopping" /\ ~calling
  /\ phase' = "off" /\ late' = FALSE
  /\ UNCHANGED <<calling, seen>>

Next ==
  \/ Start \/ Watch \/ Started \/ StartFailed
  \/ Callback \/ CallbackReturns
  \/ Stop \/ Stopped

Spec == Init /\ [][Next]_dvars
=============================================================================
