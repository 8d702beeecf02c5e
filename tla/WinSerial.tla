------------------------------ MODULE WinSerial ------------------------------
(***************************************************************************)
(* A library instance on Windows (sercomm/win/comms.c, sercomm/win/base.c):*)
(* an application thread opens, reads and closes the port while a second   *)
(* one writes to it.                                                       *)
(*                                                                         *)
(* Every transfer is an overlapped request to the driver which the call    *)
(* then waits for.  A call that times out returns and leaves its request   *)
(* pending, with a buffer and an OVERLAPPED that are not its own any more: *)
(* such a request is called stray.  A system call is a step.               *)
(***************************************************************************)
EXTENDS Integers, SerErrors

CONSTANTS
  Options,   \* the ser_opts_t the port is opened with
  Sizes,     \* the sizes of the buffers read into
  Faults,    \* calls that may fail though the device is there, see below
  RxCap,     \* bytes the input queue holds, a bound of the model
  StrayCap   \* stray reads and stray writes, a bound of the model

(***************************************************************************)
(* "valid" stands for the byte size, the parity and the stop bits being    *)
(* members of their enumerations; rd and wr are the timeouts in ms.  A     *)
(* fault names a call ("malloc", "create", "getstate", "gettimeouts",      *)
(* "setstate", "settimeouts", "setmask", "event", "wait") that may fail at *)
(* each of its places, or is "slow": a ReadFile may stay pending.          *)
(***************************************************************************)
ASSUME OptionsAssumption ==
  /\ Options # {}
  /\ Options \subseteq [valid : BOOLEAN, rd : Int, wr : Int]
ASSUME SizesAssumption == Sizes \subseteq Nat
ASSUME BoundsAssumption == RxCap \in Nat /\ StrayCap \in Nat

SER_NO_TIMEOUT == 0
INFINITE == -1  \* the DWORD of all ones

VARIABLES
  plugged,    \* the device is there
  settings,   \* its state and timeouts: "found" or what a session set
  hnd,        \* inst->hnd: "none", "ok" or "dead" (the device went)
  old,        \* inst->dcb_old and inst->timeouts_old
  timeouts,   \* inst->timeouts
  opts,       \* the options of the session
  pc,         \* where the application thread is
  wpc,        \* where the writing thread is
  ret,        \* what their last calls returned
  rx,         \* bytes in the driver's input queue
  rxchar,     \* the driver holds an EV_RXCHAR nobody has waited for yet
  waitreq,    \* WaitCommEvent: "none", "pending", "done" or "stray"
  strays,     \* stray reads and stray writes
  drained,    \* history: the session's last ser_read found nothing, and no
              \* ser_read_wait has come to an end since
  abandoned,  \* history: a ser_read_wait of the session has ended without
              \* its event
  failed,     \* history: of "malloc" and "wait", what failed in the session
  left        \* history: settings a call that failed left changed on the port

driver == <<rx, rxchar, waitreq, strays>>
session == <<old, timeouts, opts>>
history == <<drained, abandoned, failed, left>>
vars == <<plugged, settings, hnd, session, pc, wpc, ret, driver, history>>

Found == [dcb |-> "found", cto |-> "found"]

Init ==
  /\ plugged \in BOOLEAN /\ settings = Found
  /\ hnd = "none" /\ old = Found
  /\ timeouts = [rd |-> 0, wr |-> 0] /\ opts \in Options
  /\ pc = "none" /\ wpc = "idle" /\ ret = [app |-> 0, writer |-> 0]
  /\ rx = 0 /\ rxchar = FALSE /\ waitreq = "none"
  /\ strays = [read |-> 0, write |-> 0]
  /\ drained = FALSE /\ abandoned = FALSE /\ failed = {} /\ left = {}

-----------------------------------------------------------------------------
(***************************************************************************)
(* ser_create, ser_destroy and ser_open.                                   *)
(***************************************************************************)
Goto(place) == pc' = place

Ret(r) == ret' = [ret EXCEPT !.app = r]

\* A NULL of calloc changes nothing.
SerCreate ==
  /\ pc = "none" /\ Goto("closed")
  /\ UNCHANGED <<plugged, settings, hnd, session, wpc, ret, driver, history>>

SerDestroy ==
  /\ pc = "closed" /\ Goto("none")
  /\ UNCHANGED <<plugged, settings, hnd, session, wpc, ret, driver, history>>

\* malloc and CreateFile, which shares the port with nobody.  When malloc
\* fails ser_open leaves with r still 0.
SerOpen(o) ==
  /\ pc = "closed"
  /\ opts' = o /\ drained' = FALSE /\ abandoned' = FALSE
  /\ \/ /\ "malloc" \in Faults /\ failed' = {"malloc"}
        /\ Ret(0) /\ Goto("open") /\ UNCHANGED hnd
     \/ /\ failed' = {}
        /\ \/ plugged /\ hnd' = "ok" /\ Goto("getstate") /\ UNCHANGED ret
           \/ ~plugged /\ Ret(Werr("ERROR_FILE_NOT_FOUND")) /\ UNCHANGED <<hnd, pc>>
           \/ /\ "create" \in Faults
              /\ Ret(Werr("ERROR_ACCESS_DENIED")) /\ UNCHANGED <<hnd, pc>>
  /\ UNCHANGED <<plugged, settings, old, timeouts, wpc, driver, left>>

\* The code a call on the port fails with.
Failure ==
  Werr(CASE hnd = "dead" -> "ERROR_BAD_COMMAND"
         [] hnd = "none" -> "ERROR_INVALID_HANDLE"
         [] OTHER        -> "ERROR_INVALID_PARAMETER")

\* The call at "place" fails and ser_open goes on at a clean up label.
Fails(place, label) ==
  /\ pc = place /\ (hnd # "ok" \/ place \in Faults)
  /\ Ret(Failure) /\ Goto(label)

Works(place, next) == pc = place /\ hnd = "ok" /\ Goto(next)

\* port_configure: GetCommState, then GetCommTimeouts.
SaveSettings ==
  /\ \/ Works("getstate", "gettimeouts")
        /\ old' = [old EXCEPT !.dcb = settings.dcb] /\ UNCHANGED ret
     \/ Works("gettimeouts", "setstate")
        /\ old' = [old EXCEPT !.cto = settings.cto] /\ UNCHANGED ret
     \/ Fails("getstate", "closehandle") /\ UNCHANGED old
     \/ Fails("gettimeouts", "closehandle") /\ UNCHANGED old
  /\ UNCHANGED <<plugged, settings, hnd, timeouts, opts, wpc, driver, history>>

\* Mutant: an option that is refused is not an error.
SetState_Lenient ==
  /\ \/ /\ ~opts.valid /\ pc = "setstate"
        /\ Goto("settimeouts") /\ UNCHANGED <<settings, ret>>
     \/ /\ opts.valid /\ Works("setstate", "settimeouts")
        /\ settings' = [settings EXCEPT !.dcb = "set"] /\ UNCHANGED ret
     \/ opts.valid /\ Fails("setstate", "closehandle") /\ UNCHANGED settings
  /\ UNCHANGED <<plugged, hnd, session, wpc, driver, history>>

\* port_configure: the options are checked, SetCommState is called.
SetState ==
  /\ \/ /\ ~opts.valid /\ pc = "setstate"
        /\ Ret(SER_EINVAL) /\ Goto("closehandle") /\ UNCHANGED settings
     \/ /\ opts.valid /\ Works("setstate", "settimeouts")
        /\ settings' = [settings EXCEPT !.dcb = "set"] /\ UNCHANGED ret
     \/ opts.valid /\ Fails("setstate", "closehandle") /\ UNCHANGED settings
  /\ UNCHANGED <<plugged, hnd, session, wpc, driver, history>>

\* Mutant: SER_NO_TIMEOUT is converted like any other value.
Timeouts_Plain(o) == [rd |-> o.rd, wr |-> o.wr]

\* The timeouts of the instance: both come from the option for reading.
Timeouts(o) ==
  [rd |-> IF o.rd = SER_NO_TIMEOUT THEN INFINITE ELSE o.rd,
   wr |-> IF o.wr = SER_NO_TIMEOUT THEN INFINITE ELSE o.rd]

\* The calls that set the state and the timeouts.
Setter == [dcb |-> "setstate", cto |-> "settimeouts"]

\* SetCommState or SetCommTimeouts with what the session has saved; nobody
\* looks at what they return.
PutBack(part) ==
  \/ /\ hnd = "ok" /\ settings' = [settings EXCEPT ![part] = old[part]]
     /\ UNCHANGED left
  \/ /\ hnd = "ok" /\ Setter[part] \in Faults /\ left' = left \cup {part}
     /\ UNCHANGED settings
  \/ hnd # "ok" /\ UNCHANGED <<settings, left>>

\* Mutant: the settings are not put back when SetCommTimeouts fails.
SetTimeouts_NoRestore ==
  /\ \/ /\ Works("settimeouts", "setmask")
        /\ settings' = [settings EXCEPT !.cto = "set"]
        /\ timeouts' = Timeouts(opts) /\ rx' = 0 /\ UNCHANGED ret
     \/ Fails("settimeouts", "closehandle") /\ UNCHANGED <<settings, timeouts, rx>>
  /\ UNCHANGED <<plugged, hnd, old, opts, wpc, rxchar, waitreq, strays, history>>

\* port_configure: SetCommTimeouts, and PurgeComm on the input; or SetCommState
\* with the old state at the label restore.
SetTimeouts ==
  /\ \/ /\ Works("settimeouts", "setmask")
        /\ settings' = [settings EXCEPT !.cto = "set"]
        /\ timeouts' = Timeouts(opts) /\ rx' = 0 /\ UNCHANGED <<ret, left>>
     \/ /\ Fails("settimeouts", "closehandle")
        /\ PutBack("dcb") /\ UNCHANGED <<timeouts, rx>>
  /\ UNCHANGED <<plugged, hnd, old, opts, wpc, rxchar, waitreq, strays,
                 drained, abandoned, failed>>

\* ser_open: SetCommMask, which forgets the events so far.  When it fails the
\* handle is closed, and the port keeps the settings of the session.
SetMask ==
  /\ \/ Works("setmask", "open") /\ Ret(0) /\ rxchar' = FALSE /\ UNCHANGED left
     \/ /\ Fails("setmask", "closehandle") /\ UNCHANGED rxchar
        /\ left' = IF hnd = "ok" THEN {"dcb", "cto"} ELSE left
  /\ UNCHANGED <<plugged, settings, hnd, session, wpc, rx, waitreq, strays,
                 drained, abandoned, failed>>

-----------------------------------------------------------------------------
(***************************************************************************)
(* ser_close.                                                              *)
(***************************************************************************)

\* SetCommState, then SetCommTimeouts.
RestoreSettings ==
  /\ \/ pc = "open" /\ wpc = "idle" /\ Goto("restore") /\ PutBack("dcb")
     \/ pc = "restore" /\ Goto("closehandle") /\ PutBack("cto")
  /\ UNCHANGED <<plugged, hnd, session, wpc, ret, driver, drained, abandoned,
                 failed>>

\* CloseHandle, for ser_close and for a ser_open that failed: the driver gives
\* up the requests that are left.
CloseHandle ==
  /\ pc = "closehandle" /\ Goto("closed")
  /\ hnd' = "none"
  /\ rxchar' = FALSE /\ waitreq' = "none" /\ strays' = [read |-> 0, write |-> 0]
  /\ UNCHANGED <<plugged, settings, session, wpc, ret, rx, history>>

-----------------------------------------------------------------------------
(***************************************************************************)
(* ser_read, ser_read_wait and ser_flush.                                  *)
(***************************************************************************)
Least(m, n) == IF m <= n THEN m ELSE n

\* GetOverlappedResult: the request took n bytes from the queue.
ReadResult(n) ==
  /\ rx' = rx - n
  /\ Ret(IF n = 0 THEN SER_EEMPTY ELSE 0)
  /\ drained' = (n = 0)
  /\ Goto("open")

\* ser_read: CreateEvent and ReadFile, which takes what there is and, with the
\* timeouts set, waits for nothing; with a slow driver it may still be pending.
SerRead(sz) ==
  /\ pc = "open"
  /\ \/ "event" \in Faults /\ Ret(SER_EFAIL) /\ UNCHANGED <<pc, rx, drained>>
     \/ hnd # "ok" /\ Ret(Failure) /\ UNCHANGED <<pc, rx, drained>>
     \/ hnd = "ok" /\ ReadResult(Least(sz, rx))
     \/ /\ hnd = "ok" /\ "slow" \in Faults /\ Goto("reading")
        /\ UNCHANGED <<ret, rx, drained>>
  /\ UNCHANGED <<plugged, settings, hnd, session, wpc, rxchar, waitreq, strays,
                 abandoned, failed, left>>

\* WaitForSingleObject gives up, with the timeout or because it fails: what it
\* returns, and what it adds to the history.
GivesUp(timeout, code) ==
  \/ timeout # INFINITE /\ code = "WAIT_TIMEOUT" /\ UNCHANGED failed
  \/ "wait" \in Faults /\ code = "WAIT_FAILED" /\ failed' = failed \cup {"wait"}

WaitCodes == {"WAIT_TIMEOUT", "WAIT_FAILED"}

\* The request is left to the driver, which has ended it if the device went.
GivenUp(kind) ==
  \/ /\ hnd = "ok" /\ strays[kind] < StrayCap
     /\ strays' = [strays EXCEPT ![kind] = @ + 1]
  \/ hnd = "dead" /\ UNCHANGED strays

\* ser_read: WaitForSingleObject on a pending ReadFile.
ReadWaits(sz) ==
  /\ pc = "reading" /\ Goto("open")
  /\ \/ /\ hnd = "ok" /\ ReadResult(Least(sz, rx)) /\ UNCHANGED <<strays, failed>>
     \/ /\ hnd = "dead" /\ Ret(Failure)
        /\ UNCHANGED <<rx, drained, strays, failed>>
     \/ \E code \in WaitCodes :
          /\ hnd = "dead" => code = "WAIT_FAILED"
          /\ GivesUp(timeouts.rd, code) /\ Ret(Werr(code))
          /\ GivenUp("read") /\ UNCHANGED <<rx, drained>>
  /\ UNCHANGED <<plugged, settings, hnd, session, wpc, rxchar, waitreq, abandoned,
                 left>>

\* Mutant: the events so far are forgotten before the wait.
SerReadWait_Cleared ==
  /\ pc = "open" /\ hnd = "ok" /\ waitreq = "none"
  /\ rxchar' = FALSE /\ waitreq' = "pending" /\ Goto("waiting")
  /\ UNCHANGED <<plugged, settings, hnd, session, wpc, ret, rx, strays, history>>

\* ser_read_wait: CreateEvent and WaitCommEvent, which is refused while another
\* one is pending and returns at once for an event it has not yet told of.
SerReadWait ==
  /\ pc = "open"
  /\ \/ "event" \in Faults /\ Ret(SER_EFAIL) /\ UNCHANGED <<pc, rxchar, waitreq>>
     \/ hnd # "ok" /\ Ret(Failure) /\ UNCHANGED <<pc, rxchar, waitreq>>
     \/ /\ hnd = "ok" /\ waitreq = "stray"
        /\ Ret(Werr("ERROR_INVALID_PARAMETER")) /\ UNCHANGED <<pc, rxchar, waitreq>>
     \/ /\ hnd = "ok" /\ waitreq = "none" /\ rxchar
        /\ rxchar' = FALSE /\ Goto("getmask") /\ UNCHANGED <<ret, waitreq>>
     \/ /\ hnd = "ok" /\ waitreq = "none" /\ ~rxchar
        /\ waitreq' = "pending" /\ Goto("waiting") /\ UNCHANGED <<ret, rxchar>>
  /\ UNCHANGED <<plugged, settings, hnd, session, wpc, rx, strays, history>>

\* ser_read_wait: WaitForSingleObject ends, with the event or without it.
WaitEnds ==
  /\ pc = "waiting"
  /\ \/ /\ waitreq = "done" /\ waitreq' = "none" /\ Goto("getmask")
        /\ UNCHANGED <<ret, abandoned, failed>>
     \/ \E code \in WaitCodes :
          /\ waitreq = "done" => code = "WAIT_FAILED"
          /\ GivesUp(timeouts.rd, code) /\ Ret(Werr(code)) /\ Goto("open")
          /\ waitreq' = (IF waitreq = "done" THEN "none" ELSE "stray")
          /\ abandoned' = TRUE
  /\ UNCHANGED <<plugged, settings, hnd, session, wpc, rx, rxchar, strays, drained,
                 left>>

\* ser_read_wait: GetCommMask, which has EV_RXCHAR since ser_open.
GetMask ==
  /\ pc = "getmask" /\ Goto("open")
  /\ Ret(IF hnd = "ok" THEN 0 ELSE Failure)
  /\ drained' = FALSE
  /\ UNCHANGED <<plugged, settings, hnd, session, wpc, driver, abandoned, failed,
                 left>>

-----------------------------------------------------------------------------
(***************************************************************************)
(* The other thread: ser_write and ser_flush.                              *)
(***************************************************************************)
WRet(r) == ret' = [ret EXCEPT !.writer = r]

\* ser_write: CreateEvent and WriteFile, which is pending until the driver has
\* sent the last byte.
SerWrite ==
  /\ pc \in {"open", "reading", "waiting", "getmask"} /\ wpc = "idle"
  /\ \/ hnd = "ok" /\ wpc' = "writing" /\ UNCHANGED ret
     \/ "event" \in Faults /\ WRet(Werr("ERROR_NO_SYSTEM_RESOURCES")) /\ UNCHANGED wpc
     \/ hnd # "ok" /\ WRet(Failure) /\ UNCHANGED wpc
  /\ UNCHANGED <<plugged, settings, hnd, session, pc, driver, history>>

\* ser_write: WaitForSingleObject and GetOverlappedResult.
WriteEnds ==
  /\ wpc = "writing" /\ wpc' = "idle"
  /\ \/ hnd = "ok" /\ WRet(0) /\ UNCHANGED <<strays, failed>>
     \/ hnd = "dead" /\ WRet(Failure) /\ UNCHANGED <<strays, failed>>
     \/ \E code \in WaitCodes :
          /\ hnd = "dead" => code = "WAIT_FAILED"
          /\ GivesUp(timeouts.wr, code) /\ WRet(Werr(code)) /\ GivenUp("write")
  /\ UNCHANGED <<plugged, settings, hnd, session, pc, rx, rxchar, waitreq,
                 drained, abandoned, left>>

\* ser_flush: PurgeComm, which clears queues and ends no request.  No queues at
\* all stand for a value that is no ser_queue_t.
SerFlush(queues) ==
  /\ pc \in {"open", "reading", "waiting", "getmask"} /\ wpc = "idle"
  /\ WRet(IF queues = {} THEN SER_EINVAL ELSE IF hnd = "ok" THEN 0 ELSE Failure)
  /\ rx' = IF hnd = "ok" /\ "in" \in queues THEN 0 ELSE rx
  /\ UNCHANGED <<plugged, settings, hnd, session, pc, wpc, rxchar, waitreq, strays,
                 history>>

-----------------------------------------------------------------------------
(***************************************************************************)
(* The device and its driver.                                              *)
(***************************************************************************)

\* A byte completes the request that waits for it, a stray one as well;
\* otherwise it is remembered for the next.
Arrive ==
  /\ hnd = "ok" /\ rx < RxCap
  /\ rx' = rx + 1
  /\ waitreq' = CASE waitreq = "pending" -> "done"
                  [] waitreq = "stray"   -> "none"
                  [] OTHER               -> waitreq
  /\ rxchar' = (rxchar \/ waitreq \in {"none", "done"})
  /\ UNCHANGED <<plugged, settings, hnd, session, pc, wpc, ret, strays, history>>

\* A stray read takes bytes away, a stray write sends what its buffer now holds.
StrayEnds ==
  /\ \/ /\ strays.read > 0 /\ strays' = [strays EXCEPT !.read = @ - 1]
        /\ \E sz \in Sizes : rx' = rx - Least(sz, rx)
     \/ /\ strays.write > 0 /\ strays' = [strays EXCEPT !.write = @ - 1]
        /\ UNCHANGED rx
  /\ UNCHANGED <<plugged, settings, hnd, session, pc, wpc, ret, rxchar, waitreq,
                 history>>

\* The requests of a device that goes fail; its successor is as it was found.
Unplug ==
  /\ plugged /\ plugged' = FALSE
  /\ hnd' = IF hnd = "ok" THEN "dead" ELSE hnd
  /\ settings' = Found /\ rx' = 0 /\ rxchar' = FALSE
  /\ waitreq' = IF waitreq \in {"pending", "done"} THEN "done" ELSE "none"
  /\ strays' = [read |-> 0, write |-> 0]
  /\ left' = {}
  /\ UNCHANGED <<session, pc, wpc, ret, drained, abandoned, failed>>

Plug ==
  /\ ~plugged /\ plugged' = TRUE
  /\ UNCHANGED <<settings, hnd, session, pc, wpc, ret, driver, history>>

-----------------------------------------------------------------------------
AppStep ==
  \/ SerCreate \/ SerDestroy \/ (\E o \in Options : SerOpen(o))
  \/ SaveSettings \/ SetState \/ SetTimeouts \/ SetMask
  \/ RestoreSettings \/ CloseHandle
  \/ (\E sz \in Sizes : SerRead(sz) \/ ReadWaits(sz))
  \/ SerReadWait \/ WaitEnds \/ GetMask

WriterStep ==
  \/ SerWrite \/ WriteEnds
  \/ \E queues \in SUBSET {"in", "out"} : SerFlush(queues)

Next == AppStep \/ WriterStep \/ Arrive \/ StrayEnds \/ Unplug \/ Plug

Spec == Init /\ [][Next]_vars

-----------------------------------------------------------------------------
(***************************************************************************)
(* Properties.                                                             *)
(***************************************************************************)
Settings == [dcb : {"found", "set"}, cto : {"found", "set"}]

\* The variables have the types their C counterparts have.
TypeOK ==
  /\ plugged \in BOOLEAN
  /\ settings \in Settings /\ old \in Settings
  /\ hnd \in {"none", "ok", "dead"}
  /\ timeouts \in [rd : Int, wr : Int] /\ opts \in Options
  /\ pc \in {"none", "closed", "getstate", "gettimeouts", "setstate",
             "settimeouts", "setmask", "open", "reading", "waiting", "getmask",
             "restore", "closehandle"}
  /\ wpc \in {"idle", "writing"}
  /\ ret \in [app : ReturnCodes, writer : ReturnCodes]
  /\ rx \in 0..RxCap /\ rxchar \in BOOLEAN
  /\ waitreq \in {"none", "pending", "done", "stray"}
  /\ strays \in [read : 0..StrayCap, write : 0..StrayCap]
  /\ drained \in BOOLEAN /\ abandoned \in BOOLEAN
  /\ failed \subseteq {"malloc", "wait"} /\ left \subseteq {"dcb", "cto"}

InSession == pc \in {"open", "reading", "waiting", "getmask"}

\* A ser_open that returned 0 has opened the port, with both of its settings
\* replaced, and only for options that are good; unless its malloc failed, for
\* which it returns 0 as well (comms.c:250-255).
ZeroMeansOpen ==
  InSession =>
    /\ hnd = "none" => "malloc" \in failed
    /\ hnd = "ok" => opts.valid /\ settings = [dcb |-> "set", cto |-> "set"]

\* When no session is open, whether the last one ran its course or failed half
\* way at any call, the port has the settings it was found with (comms.c:303,
\* "restore old settings"), but for two cases.  A SetCommState or
\* SetCommTimeouts that is to put one back and fails leaves that one changed
\* (comms.c:234, 304, 305); a SetCommMask that fails leaves both (comms.c:286).
\* The sessions that follow take what was left for the settings they found.
ClosedMeansRestored ==
  hnd # "ok" => \A part \in DOMAIN settings \ left : settings[part] = "found"

\* A thread that read until nothing was left and then waits in ser_read_wait
\* is woken up by what arrives from then on, and never waits with bytes in the
\* queue; unless a wait of the session timed out or failed before: its stray
\* request takes the byte's event.
WakesForBytes ==
  pc = "waiting" /\ waitreq = "pending" /\ drained /\ ~abandoned => rx = 0

\* A caller that asked for no timeout never has a request outlive its call,
\* one that writes into its stack or sends from its buffer afterwards, unless a
\* WaitForSingleObject failed; and ser_read_wait is refused (SER_EINVAL) for no
\* other reason than such a request.
NothingOutlivesItsCall ==
  /\ "wait" \notin failed =>
       /\ opts.rd = SER_NO_TIMEOUT => strays.read = 0 /\ waitreq # "stray"
       /\ opts.wr = SER_NO_TIMEOUT => strays.write = 0
  /\ pc = "open" /\ ret.app = SER_EINVAL => abandoned
=============================================================================
