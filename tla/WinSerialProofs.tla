--------------------------- MODULE WinSerialProofs ---------------------------
(***************************************************************************)
(* Theorems about WinSerial, for any options, sizes of reads, faults and   *)
(* bounds.                                                                 *)
(***************************************************************************)
EXTENDS WinSerial, TLAPS

-----------------------------------------------------------------------------
(***************************************************************************)
(* The inductive invariant.                                                *)
(***************************************************************************)

\* The places of ser_open after CreateFile.
Opening == {"getstate", "gettimeouts", "setstate", "settimeouts", "setmask"}

Session == {"open", "reading", "waiting", "getmask"}

\* Where there is a handle.
Handles ==
  /\ pc \in {"none", "closed"} => hnd = "none"
  /\ pc \in Opening => hnd # "none"
  /\ pc \in Session /\ hnd = "none" => "malloc" \in failed

\* Which requests the driver may have.
Requests ==
  /\ waitreq \in {"pending", "done"} <=> pc = "waiting"
  /\ waitreq = "pending" => hnd = "ok" /\ ~rxchar
  /\ waitreq = "stray" => hnd = "ok" /\ abandoned
  /\ pc \in Opening \cup {"none", "closed"} =>
       waitreq = "none" /\ strays = [read |-> 0, write |-> 0]
  /\ wpc = "writing" => pc \in Session

\* What a session has replaced.
Configured ==
  hnd = "ok" =>
    /\ pc = "settimeouts" => opts.valid /\ settings.dcb = "set"
    /\ pc \in Session \cup {"setmask"} =>
         /\ opts.valid /\ settings = [dcb |-> "set", cto |-> "set"]
         /\ timeouts = Timeouts(opts)

\* What it has saved, and what it has not replaced or has put back, but for
\* what a call that failed has left changed.
SavedPart(part) ==
  hnd = "ok" /\ part \notin left =>
    /\ pc \in (Opening \ {"getstate", "gettimeouts"}) \cup Session \cup {"restore"} =>
         old[part] = "found"
    /\ pc = "gettimeouts" /\ part = "dcb" => old[part] = "found"

RestorablePart(part) ==
  part \notin left =>
    /\ hnd # "ok" => settings[part] = "found"
    /\ pc \in {"getstate", "gettimeouts", "setstate", "closehandle"} =>
         settings[part] = "found"
    /\ pc = "settimeouts" /\ part = "cto" => settings[part] = "found"
    /\ pc = "restore" /\ part = "dcb" => settings[part] = "found"

Saved == SavedPart("dcb") /\ SavedPart("cto")
Restorable == RestorablePart("dcb") /\ RestorablePart("cto")

\* What the last ser_read that found nothing says of the queue.
Remembered ==
  /\ pc \in Opening => ~drained
  /\ drained /\ ~abandoned /\ rx > 0 /\ pc \in Session \ {"getmask"} =>
       rxchar \/ waitreq = "done"

IInv ==
  /\ TypeOK /\ Handles /\ Requests /\ Configured /\ NothingOutlivesItsCall
  /\ Saved /\ Restorable
  /\ 0 \notin Sizes => Remembered

-----------------------------------------------------------------------------
(***************************************************************************)
(* The codes the calls fail with.                                          *)
(***************************************************************************)
LEMMA WerrIsCode == ASSUME NEW code PROVE Werr(code) \in ReturnCodes
  BY DEF Werr, ReturnCodes, SER_ENODEV, SER_EBUSY, SER_EINVAL, SER_EDISCONN,
         SER_ETIMEDOUT, SER_EFAIL

\* A call on a handle that is not good is not answered SER_EINVAL, nor is a
\* timeout.
LEMMA RefusalIsInvalid ==
  /\ Failure \in ReturnCodes
  /\ hnd \in {"dead", "none"} => Failure # SER_EINVAL
  /\ \A code \in WaitCodes : Werr(code) # SER_EINVAL
<1>1. Failure \in ReturnCodes
  BY WerrIsCode DEF Failure
<1>2. /\ Werr("ERROR_BAD_COMMAND") = SER_EDISCONN
      /\ Werr("ERROR_INVALID_HANDLE") = SER_EFAIL
      /\ Werr("WAIT_TIMEOUT") = SER_ETIMEDOUT
      /\ Werr("WAIT_FAILED") = SER_EFAIL
  BY DEF Werr
<1>3. ASSUME hnd \in {"dead", "none"} PROVE Failure # SER_EINVAL
  <2>1. CASE hnd = "dead"
    BY <1>2, <2>1 DEF Failure, SER_EINVAL, SER_EDISCONN
  <2>2. CASE hnd = "none"
    BY <1>2, <2>2 DEF Failure, SER_EINVAL, SER_EFAIL
  <2> QED
    BY <1>3, <2>1, <2>2
<1> QED
  BY <1>1, <1>2, <1>3 DEF WaitCodes, SER_EINVAL, SER_ETIMEDOUT, SER_EFAIL

\* A timeout that is not asked for is not set.
LEMMA NoTimeoutIsInfinite ==
  ASSUME NEW o \in Options
  PROVE  /\ Timeouts(o) \in [rd : Int, wr : Int]
         /\ o.rd = SER_NO_TIMEOUT => Timeouts(o).rd = INFINITE
         /\ o.wr = SER_NO_TIMEOUT => Timeouts(o).wr = INFINITE
  BY OptionsAssumption DEF Timeouts, SER_NO_TIMEOUT, INFINITE

\* What a request takes from the queue.
LEMMA LeastTaken ==
  ASSUME NEW sz \in Sizes, NEW n \in 0..RxCap
  PROVE  /\ Least(sz, n) \in Nat /\ n - Least(sz, n) \in 0..n
         /\ Least(sz, n) = 0 /\ 0 \notin Sizes => n = 0
  BY SizesAssumption, BoundsAssumption DEF Least

-----------------------------------------------------------------------------
(***************************************************************************)
(* The invariant holds at first and is preserved by every action.          *)
(***************************************************************************)
LEMMA InitEstablishes == Init => IInv
<1> SUFFICES ASSUME Init PROVE IInv
  OBVIOUS
<1>1. /\ 0 \in 0..RxCap /\ 0 \in ReturnCodes
      /\ [read |-> 0, write |-> 0] \in [read : 0..StrayCap, write : 0..StrayCap]
  BY BoundsAssumption DEF ReturnCodes
<1>2. Found \in Settings /\ timeouts \in [rd : Int, wr : Int]
  BY DEF Init, Settings, Found
<1>3. TypeOK
  BY <1>1, <1>2 DEF Init, TypeOK
<1> QED
  BY <1>3 DEF Init, IInv, Handles, Requests, Configured, NothingOutlivesItsCall,
     Saved, SavedPart, Restorable, RestorablePart, Remembered, Found, Opening, Session, SER_EINVAL

LEMMA TypesPreserved == IInv /\ [Next]_vars => TypeOK'
<1> SUFFICES ASSUME IInv, [Next]_vars PROVE TypeOK'
  OBVIOUS
<1> USE DEF TypeOK, Goto, Ret, WRet, driver, session, history
<1>t. TypeOK
  BY DEF IInv
<1>c. /\ 0 \in ReturnCodes /\ SER_EINVAL \in ReturnCodes
      /\ SER_EFAIL \in ReturnCodes /\ SER_EEMPTY \in ReturnCodes
      /\ Failure \in ReturnCodes
      /\ \A code \in WaitCodes : Werr(code) \in ReturnCodes
      /\ Werr("ERROR_FILE_NOT_FOUND") \in ReturnCodes
      /\ Werr("ERROR_ACCESS_DENIED") \in ReturnCodes
      /\ Werr("ERROR_INVALID_PARAMETER") \in ReturnCodes
      /\ Werr("ERROR_NO_SYSTEM_RESOURCES") \in ReturnCodes
  BY RefusalIsInvalid, WerrIsCode DEF ReturnCodes, SER_EINVAL, SER_EFAIL, SER_EEMPTY
<1>z. /\ 0 \in 0..RxCap
      /\ [read |-> 0, write |-> 0] \in [read : 0..StrayCap, write : 0..StrayCap]
  BY BoundsAssumption
<1> HIDE DEF TypeOK
<1>g. ASSUME NEW kind \in {"read", "write"}, GivenUp(kind)
      PROVE  strays' \in [read : 0..StrayCap, write : 0..StrayCap]
  <2>1. \A n \in 0..StrayCap : n < StrayCap => n + 1 \in 0..StrayCap
    BY BoundsAssumption
  <2> QED
    BY <1>g, <1>t, <2>1 DEF GivenUp, TypeOK
<1>k. ASSUME NEW timeout, NEW code, GivesUp(timeout, code)
      PROVE  failed' \subseteq {"malloc", "wait"}
  BY <1>k, <1>t DEF GivesUp, TypeOK
<1>1. CASE SerCreate \/ SerDestroy
  <2>1. /\ pc' \in {"none", "closed"}
        /\ UNCHANGED <<plugged, settings, hnd, old, timeouts, opts, wpc, ret, rx,
                       rxchar, waitreq, strays, drained, abandoned, failed, left>>
    BY <1>1 DEF SerCreate, SerDestroy
  <2> QED
    BY <1>t, <2>1 DEF TypeOK
<1>2. ASSUME NEW o \in Options, SerOpen(o) PROVE TypeOK'
  <2>1. ret' \in [app : ReturnCodes, writer : ReturnCodes]
    <3>1. \/ ret' = ret
          \/ \E r \in ReturnCodes : ret' = [ret EXCEPT !.app = r]
      BY <1>2, <1>c DEF SerOpen
    <3> QED
      BY <1>t, <3>1 DEF TypeOK
  <2>2. /\ pc' \in {"closed", "getstate", "open"} /\ hnd' \in {"ok", hnd}
        /\ failed' \in {{}, {"malloc"}}
    BY <1>2 DEF SerOpen
  <2>3. /\ opts' = o /\ drained' = FALSE /\ abandoned' = FALSE
        /\ UNCHANGED <<plugged, settings, old, timeouts, wpc, driver, left>>
    BY <1>2 DEF SerOpen
  <2> QED
    BY <1>t, <2>1, <2>2, <2>3 DEF TypeOK
<1>3. CASE SaveSettings
  BY <1>3, <1>t, <1>c DEF SaveSettings, Works, Fails, TypeOK, Settings
<1>4. CASE SetState
  BY <1>4, <1>t, <1>c DEF SetState, Works, Fails, TypeOK, Settings
<1>p. ASSUME NEW part \in {"dcb", "cto"}, PutBack(part)
      PROVE  settings' \in Settings /\ left' \subseteq {"dcb", "cto"}
  BY <1>p, <1>t DEF PutBack, TypeOK, Settings
<1>5. CASE SetTimeouts
  <2>1. 0 \in 0..RxCap /\ Timeouts(opts) \in [rd : Int, wr : Int]
    BY <1>t, NoTimeoutIsInfinite, BoundsAssumption DEF TypeOK
  <2>2. settings' \in Settings /\ left' \subseteq {"dcb", "cto"}
    BY <1>5, <1>t, <1>p DEF SetTimeouts, TypeOK, Settings
  <2> QED
    BY <1>5, <1>t, <1>c, <2>1, <2>2 DEF SetTimeouts, Works, Fails, TypeOK
<1>6. CASE SetMask
  BY <1>6, <1>t, <1>c DEF SetMask, Works, Fails, TypeOK
<1>7. CASE RestoreSettings
  <2>1. settings' \in Settings /\ left' \subseteq {"dcb", "cto"}
    BY <1>7, <1>p DEF RestoreSettings
  <2> QED
    BY <1>7, <1>t, <2>1 DEF RestoreSettings, TypeOK
<1>8. CASE CloseHandle
  BY <1>8, <1>t, <1>z DEF CloseHandle, TypeOK
<1>9. ASSUME NEW sz \in Sizes, SerRead(sz) \/ ReadWaits(sz) PROVE TypeOK'
  <2>1. rx - Least(sz, rx) \in 0..RxCap
    BY <1>t, LeastTaken, BoundsAssumption DEF TypeOK
  <2> DEFINE Result == \E r \in ReturnCodes : ret' = [ret EXCEPT !.app = r]
  <2>2. ReadResult(Least(sz, rx)) =>
          /\ Result /\ rx' = rx - Least(sz, rx)
          /\ drained' \in BOOLEAN /\ pc' = "open"
    BY <1>c DEF ReadResult
  <2>3. /\ Ret(SER_EFAIL) => Result
        /\ Ret(Failure) => Result
        /\ \A code \in WaitCodes : Ret(Werr(code)) => Result
    BY <1>c
  <2>4. Result => ret' \in [app : ReturnCodes, writer : ReturnCodes]
    BY <1>t DEF TypeOK
  <2> HIDE DEF Result, Ret
  <2>5. CASE SerRead(sz)
    <3>1. /\ Result \/ ret' = ret
          /\ rx' = rx \/ rx' = rx - Least(sz, rx)
          /\ drained' \in BOOLEAN
      BY <2>2, <2>3, <2>5, <1>t DEF SerRead, TypeOK
    <3>2. pc' \in {"open", "reading"}
      BY <2>2, <2>5 DEF SerRead
    <3> QED
      BY <3>1, <3>2, <2>1, <2>4, <2>5, <1>t DEF SerRead, TypeOK
  <2>6. CASE ReadWaits(sz)
    <3>1. /\ Result
          /\ rx' = rx \/ rx' = rx - Least(sz, rx)
          /\ drained' \in BOOLEAN
      BY <2>2, <2>3, <2>6, <1>t DEF ReadWaits, TypeOK
    <3>2. /\ strays' \in [read : 0..StrayCap, write : 0..StrayCap]
          /\ failed' \subseteq {"malloc", "wait"}
      BY <2>6, <1>t, <1>g, <1>k DEF ReadWaits, TypeOK
    <3> QED
      BY <3>1, <3>2, <2>1, <2>4, <2>6, <1>t DEF ReadWaits, TypeOK
  <2> QED
    BY <1>9, <2>5, <2>6
<1>10. CASE SerReadWait
  <2>1. /\ waitreq' \in {waitreq, "pending"} /\ rxchar' \in {rxchar, FALSE}
        /\ pc' \in {"open", "getmask", "waiting"}
    BY <1>10, <1>t DEF SerReadWait, TypeOK
  <2>2. ret' \in [app : ReturnCodes, writer : ReturnCodes]
    <3>1. ret' = ret \/ \E r \in ReturnCodes : ret' = [ret EXCEPT !.app = r]
      BY <1>10, <1>c DEF SerReadWait
    <3> QED
      BY <1>t, <3>1 DEF TypeOK
  <2> QED
    BY <1>10, <1>t, <2>1, <2>2 DEF SerReadWait, TypeOK
<1>11. CASE WaitEnds
  <2>1. failed' \subseteq {"malloc", "wait"}
    BY <1>11, <1>t, <1>k DEF WaitEnds, TypeOK
  <2>2. \/ ret' = ret
        \/ \E r \in ReturnCodes : ret' = [ret EXCEPT !.app = r]
    BY <1>11, <1>c DEF WaitEnds
  <2>3. ret' \in [app : ReturnCodes, writer : ReturnCodes]
    BY <1>t, <2>2 DEF TypeOK
  <2> QED
    BY <1>11, <1>t, <2>1, <2>3 DEF WaitEnds, TypeOK
<1>12. CASE GetMask
  BY <1>12, <1>t, <1>c DEF GetMask, TypeOK
<1>13. CASE SerWrite
  BY <1>13, <1>t, <1>c DEF SerWrite, TypeOK
<1>14. CASE WriteEnds
  <2>1. /\ strays' \in [read : 0..StrayCap, write : 0..StrayCap]
        /\ failed' \subseteq {"malloc", "wait"}
    BY <1>14, <1>t, <1>g, <1>k DEF WriteEnds, TypeOK
  <2>2. \E r \in ReturnCodes : ret' = [ret EXCEPT !.writer = r]
    BY <1>14, <1>c DEF WriteEnds
  <2>3. ret' \in [app : ReturnCodes, writer : ReturnCodes]
    BY <1>t, <2>2 DEF TypeOK
  <2> QED
    BY <1>14, <1>t, <2>1, <2>3 DEF WriteEnds, TypeOK
<1>15. ASSUME NEW queues, SerFlush(queues) PROVE TypeOK'
  BY <1>15, <1>t, <1>c, <1>z DEF SerFlush, TypeOK
<1>16. CASE Arrive
  BY <1>16, <1>t, BoundsAssumption DEF Arrive, TypeOK
<1>17. CASE StrayEnds
  <2>1. \A sz \in Sizes : rx - Least(sz, rx) \in 0..RxCap
    BY <1>t, LeastTaken, BoundsAssumption DEF TypeOK
  <2>2. \A n \in 0..StrayCap : n > 0 => n - 1 \in 0..StrayCap
    BY BoundsAssumption
  <2> QED
    BY <1>17, <1>t, <2>1, <2>2 DEF StrayEnds, TypeOK
<1>18. CASE Unplug
  BY <1>18, <1>t, <1>z DEF Unplug, TypeOK, Settings, Found
<1>19. CASE Plug
  BY <1>19, <1>t DEF Plug, TypeOK
<1>20. CASE UNCHANGED vars
  BY <1>20, <1>t DEF vars, TypeOK
<1> QED
  BY <1>1, <1>2, <1>3, <1>4, <1>5, <1>6, <1>7, <1>8, <1>9, <1>10, <1>11, <1>12,
     <1>13, <1>14, <1>15, <1>16, <1>17, <1>18, <1>19, <1>20
     DEF Next, AppStep, WriterStep

LEMMA StepPreserves == IInv /\ [Next]_vars => IInv'
<1> SUFFICES ASSUME IInv, [Next]_vars PROVE IInv'
  OBVIOUS
<1>t. TypeOK /\ TypeOK'
  BY TypesPreserved DEF IInv
<1>i. /\ Handles /\ Requests /\ Configured /\ NothingOutlivesItsCall
      /\ Saved /\ Restorable
      /\ 0 \notin Sizes => Remembered
  BY DEF IInv
<1>c. /\ SER_EINVAL # 0 /\ SER_EFAIL # SER_EINVAL /\ SER_EEMPTY # SER_EINVAL
      /\ hnd \in {"dead", "none"} => Failure # SER_EINVAL
      /\ \A code \in WaitCodes : Werr(code) # SER_EINVAL
  BY RefusalIsInvalid DEF SER_EINVAL, SER_EFAIL, SER_EEMPTY
<1> USE DEF TypeOK, Handles, Requests, Configured, NothingOutlivesItsCall, Saved,
        SavedPart, Restorable, RestorablePart, Remembered, Opening, Session, Goto, Ret, WRet, Works, Fails,
        driver, session, history
<1> DEFINE Parts == /\ Handles' /\ Requests' /\ Configured'
                    /\ NothingOutlivesItsCall'
                    /\ Saved' /\ Restorable'
                    /\ 0 \notin Sizes => Remembered'
<1> SUFFICES Parts
  BY <1>t DEF IInv
<1>1. CASE SerCreate \/ SerDestroy
  BY <1>1, <1>t, <1>i DEF SerCreate, SerDestroy
<1>2. ASSUME NEW o \in Options, SerOpen(o) PROVE Parts
  BY <1>2, <1>t, <1>i, <1>c DEF SerOpen
<1>3. CASE SaveSettings
  BY <1>3, <1>t, <1>i, <1>c DEF SaveSettings, Found, Settings
<1>4. CASE SetState
  BY <1>4, <1>t, <1>i, <1>c DEF SetState, Found, Settings
<1>5. CASE SetTimeouts
  BY <1>5, <1>t, <1>i, <1>c DEF SetTimeouts, PutBack, Found, Settings
<1>6. CASE SetMask
  BY <1>6, <1>t, <1>i, <1>c DEF SetMask
<1>7. CASE RestoreSettings
  BY <1>7, <1>t, <1>i, <1>c DEF RestoreSettings, PutBack, Found, Settings
<1>8. CASE CloseHandle
  BY <1>8, <1>t, <1>i, <1>c DEF CloseHandle
<1>9. ASSUME NEW sz \in Sizes, SerRead(sz) PROVE Parts
  BY <1>9, <1>t, <1>i, <1>c, LeastTaken DEF SerRead, ReadResult
<1>10. ASSUME NEW sz \in Sizes, ReadWaits(sz) PROVE Parts
  BY <1>10, <1>t, <1>i, <1>c, LeastTaken, NoTimeoutIsInfinite
     DEF ReadWaits, ReadResult, GivesUp, GivenUp, WaitCodes
<1>11. CASE SerReadWait
  BY <1>11, <1>t, <1>i, <1>c DEF SerReadWait
<1>12. CASE WaitEnds
  <2>1. CASE waitreq = "done" /\ pc' = "getmask"
    BY <1>12, <2>1, <1>t, <1>i DEF WaitEnds
  <2>2. ASSUME NEW code \in WaitCodes, waitreq = "done" => code = "WAIT_FAILED",
               GivesUp(timeouts.rd, code), Ret(Werr(code)), pc' = "open",
               waitreq' = (IF waitreq = "done" THEN "none" ELSE "stray"),
               abandoned' = TRUE
        PROVE  Parts
    <3>1. /\ pc = "waiting"
          /\ UNCHANGED <<plugged, settings, hnd, session, wpc, rx, rxchar, strays,
                         drained, left>>
      BY <1>12 DEF WaitEnds
    <3>2. failed \subseteq failed'
      BY <2>2 DEF GivesUp
    <3>3. NothingOutlivesItsCall'
      <4>1. CASE "wait" \in failed'
        BY <2>2, <4>1
      <4>2. CASE "wait" \notin failed'
        <5>1. timeouts.rd # INFINITE /\ code = "WAIT_TIMEOUT"
          BY <2>2, <4>2 DEF GivesUp
        <5>2. waitreq = "pending" /\ hnd = "ok" /\ timeouts = Timeouts(opts)
          BY <2>2, <3>1, <5>1, <1>t, <1>i
        <5>3. opts.rd # SER_NO_TIMEOUT
          BY <5>1, <5>2, <1>t, NoTimeoutIsInfinite
        <5> QED
          BY <2>2, <3>1, <3>2, <4>2, <5>3, <1>i
      <4> QED
        BY <4>1, <4>2
    <3>4. Handles' /\ Requests'
      <4>1. Handles'
        BY <2>2, <3>1, <3>2, <1>i
      <4>2. Requests'
        BY <2>2, <3>1, <1>t, <1>i
      <4> QED
        BY <4>1, <4>2
    <3>5. Configured' /\ Saved' /\ Restorable' /\ (0 \notin Sizes => Remembered')
      BY <2>2, <3>1, <1>t, <1>i
    <3> QED
      BY <3>3, <3>4, <3>5
  <2> QED
    BY <1>12, <2>1, <2>2 DEF WaitEnds
<1>13. CASE GetMask
  BY <1>13, <1>t, <1>i, <1>c DEF GetMask
<1>14. CASE SerWrite
  BY <1>14, <1>t, <1>i DEF SerWrite
<1>15. CASE WriteEnds
  BY <1>15, <1>t, <1>i, NoTimeoutIsInfinite DEF WriteEnds, GivesUp, GivenUp, WaitCodes
<1>16. ASSUME NEW queues, SerFlush(queues) PROVE Parts
  BY <1>16, <1>t, <1>i DEF SerFlush
<1>17. CASE Arrive
  BY <1>17, <1>t, <1>i DEF Arrive
<1>18. CASE StrayEnds
  BY <1>18, <1>t, <1>i, LeastTaken DEF StrayEnds
<1>19. CASE Unplug
  BY <1>19, <1>t, <1>i DEF Unplug, Found
<1>20. CASE Plug
  BY <1>20, <1>t, <1>i DEF Plug
<1>21. CASE UNCHANGED vars
  BY <1>21, <1>t, <1>i DEF vars
<1> HIDE DEF Parts
<1> QED
  BY <1>1, <1>2, <1>3, <1>4, <1>5, <1>6, <1>7, <1>8, <1>9, <1>10, <1>11,
     <1>12, <1>13, <1>14, <1>15, <1>16, <1>17, <1>18, <1>19, <1>20, <1>21
     DEF Next, AppStep, WriterStep

-----------------------------------------------------------------------------
(***************************************************************************)
(* The theorems.                                                           *)
(***************************************************************************)

\* The invariant holds in every reachable state.
THEOREM Invariance == Spec => []IInv
  BY InitEstablishes, StepPreserves, PTL DEF Spec

\* The variables of the port have their types: no call, failure or device
\* that goes leaves a value the C code could not hold.
THEOREM TypeCorrect == Spec => []TypeOK
<1>1. IInv => TypeOK
  BY DEF IInv
<1> QED
  BY <1>1, Invariance, PTL

\* While a session is open the port is configured as port_configure does it,
\* from options that are good; there is a session without a port only when
\* the malloc of ser_open failed.
THEOREM OpenedMeansConfigured == Spec => []ZeroMeansOpen
<1>1. IInv => ZeroMeansOpen
  BY DEF IInv, ZeroMeansOpen, InSession, Handles, Configured, Session
<1> QED
  BY <1>1, Invariance, PTL

\* However a session ends, in ser_close, in a ser_open that fails half way or
\* with the device, each of the port's settings is as it was found, unless the
\* SetCommState or SetCommTimeouts that was to put that one back failed, or
\* SetCommMask did.
THEOREM SettingsAreRestored == Spec => []ClosedMeansRestored
<1>1. IInv => ClosedMeansRestored
  BY DEF IInv, ClosedMeansRestored, Restorable, RestorablePart, TypeOK, Settings
<1> QED
  BY <1>1, Invariance, PTL

\* A thread that drained the queue and then waits in ser_read_wait does not
\* wait with bytes in the queue: the driver remembers the event of a byte that
\* arrives between the two calls.  A ser_read with a size of 0 finds nothing
\* without having drained anything, so sizes are positive.
THEOREM ReaderIsWoken ==
  ASSUME 0 \notin Sizes
  PROVE  Spec => []WakesForBytes
<1>1. IInv => WakesForBytes
  <2> SUFFICES ASSUME IInv, pc = "waiting", waitreq = "pending", drained,
                      ~abandoned
               PROVE  rx = 0
    BY DEF WakesForBytes
  <2>1. rx \in Nat /\ ~rxchar
    BY BoundsAssumption DEF IInv, TypeOK, Requests
  <2>2. ~(rx > 0)
    BY <2>1 DEF IInv, Remembered, Session
  <2> QED
    BY <2>1, <2>2
<1> QED
  BY <1>1, Invariance, PTL

\* Without timeouts no request outlives the call that made it, unless a
\* WaitForSingleObject failed; and a ser_read_wait is refused only when an
\* earlier one has ended without its event.
THEOREM RequestsEndWithTheirCall == Spec => []NothingOutlivesItsCall
<1>1. IInv => NothingOutlivesItsCall
  BY DEF IInv
<1> QED
  BY <1>1, Invariance, PTL
=============================================================================
