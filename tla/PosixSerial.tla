----------------------------- MODULE PosixSerial -----------------------------
(***************************************************************************)
(* The data path of an open port on POSIX systems (sercomm/posix/comms.c): *)
(* ser_read, ser_read_wait, ser_available, ser_flush and ser_write, called *)
(* by several threads on one library instance, over the kernel's tty.      *)
(*                                                                         *)
(* The library takes no lock.  A call that is one system call is one step. *)
(* A call that waits is split where the code leaves the kernel: select()   *)
(* returns in one step and the write() that relies on its answer is        *)
(* another, so what another thread, the line or the user's hand on the     *)
(* cable does in between is part of every behaviour.                       *)
(*                                                                         *)
(* Time is counted in milliseconds, the unit of the timeouts: waited = 0   *)
(* is a wait of less than one millisecond.                                 *)
(***************************************************************************)
EXTENDS Integers, Sequences, SerErrors

CONSTANTS
  Readers,      \* threads that call ser_read, ser_read_wait, ser_available
  Writers,      \* threads that call ser_write
  Controllers,  \* threads that call ser_flush
  Timeouts,     \* what ser->timeouts may hold after ser_open
  RdSizes,      \* the sz arguments of ser_read
  WrSizes,      \* the sz arguments of ser_write
  Queues,       \* the queue arguments of ser_flush
  FaultChoices, \* what may go wrong in a behaviour: sets of "unplug", "signal"
                \* and "clock"
  Second,       \* milliseconds in a second: 1000, fewer for TLC
  MaxExact,     \* the largest timeout whose product with 1000 is an int: 2147483
  SizeMod,      \* 2^width of size_t
  TxCap,        \* room of the kernel's output queue
  RxCap,        \* room of the kernel's input queue
  MaxRx,        \* bound: bytes the peer sends
  MaxWait       \* bound: milliseconds counted in one select()

Threads == Readers \cup Writers \cup Controllers

ASSUME ThreadsAssumption ==
  /\ Readers \cap Writers = {}
  /\ Readers \cap Controllers = {}
  /\ Writers \cap Controllers = {}

ASSUME NumbersAssumption ==
  /\ Timeouts \subseteq [rd : Int, wr : Int]
  /\ SizeMod \in Nat \ {0} /\ TxCap \in Nat \ {0} /\ RxCap \in Nat
  /\ MaxRx \in Nat /\ MaxWait \in Nat
  /\ Second \in Nat \ {0} /\ MaxExact \in Nat
  /\ RdSizes \subseteq Nat
  /\ WrSizes \subseteq {n \in Nat : n + 1 < SizeMod}

VARIABLES
  timeouts,  \* ser->timeouts, the same for the life of the session
  faults,    \* what may go wrong in this behaviour
  online,  \* the device is plugged in
  rx,      \* the kernel's input queue: the bytes, numbered as they were sent
  nrx,     \* how many bytes the peer has sent
  txlen,   \* how many bytes the kernel's output queue holds
  pc,      \* where each thread is: "idle", in "select", about to "write"
  call,    \* the locals of the call each thread is in (or was last in)
  ret,     \* what the last call of each thread returned
  taken,   \* history: bytes the kernel took in the current call of ser_write
  intact   \* history: they were the next ones of the caller's buffer

fixed == <<timeouts, faults>>
port == <<online, rx, nrx, txlen>>
hist == <<taken, intact>>
vars == <<fixed, port, pc, call, ret, hist>>

SER_OP_RD == "rd"
SER_OP_WR == "wr"

Init ==
  /\ timeouts \in Timeouts /\ faults \in FaultChoices
  /\ online = TRUE
  /\ rx = <<>> /\ nrx = 0 /\ txlen = 0
  /\ pc = [t \in Threads |-> "idle"]
  /\ call = [t \in Threads |-> [op |-> SER_OP_RD, sz |-> 0, sent |-> 0,
                                timeout |-> 0, waited |-> 0]]
  /\ ret = [t \in Threads |-> [op |-> "none", r |-> 0, n |-> 0]]
  /\ taken = [t \in Threads |-> 0]
  /\ intact = [t \in Threads |-> TRUE]

-----------------------------------------------------------------------------
\* Helpers.

LeastOf(a, b) == IF a < b THEN a ELSE b

\* A sum or difference of two size_t values.
SizeT(x) ==
  IF x < 0 THEN x + SizeMod ELSE IF x >= SizeMod THEN x - SizeMod ELSE x

\* The call of thread t returns r, and n in its output argument.
Return(t, op, r, n) ==
  /\ pc' = [pc EXCEPT ![t] = "idle"]
  /\ ret' = [ret EXCEPT ![t] = [op |-> op, r |-> r, n |-> n]]

-----------------------------------------------------------------------------
(***************************************************************************)
(* port_wait_ready.                                                        *)
(***************************************************************************)

\* Mutant: the descriptor is put in the wrong set for a read.
Ready_WrongSet(op) == ~online \/ txlen < TxCap

\* Mutant: the descriptor is put in the read set for a write.
Ready_ReadSet(op) == ~online \/ rx # <<>>

\* Mutant: the set of descriptors is not handed to select().
Ready_NoSet(op) == FALSE

\* Mutant: a hung up port is not reported as ready.
Ready_NoHangup(op) ==
  online /\ IF op = SER_OP_RD THEN rx # <<>> ELSE txlen < TxCap

\* What select() answers at once: data to read, room to write, or a hung up
\* port, which is ready for both.
Ready(op) ==
  ~online \/ IF op = SER_OP_RD THEN rx # <<>> ELSE txlen < TxCap

\* Mutant: SER_NO_TIMEOUT is handed to select() as a zero wait.
TimedWait_NoForever(c) == c.timeout >= 0

\* A timeout of 0 or less is passed to select() as "wait forever".
TimedWait(c) == c.timeout > 0

\* Mutant: tv_usec is left 0.
Remainders_Dropped(timeout) == {0}

\* The milliseconds in tv_usec.  tv_usec is (*timeout * 1000) % 1000000: what
\* the seconds leave of the timeout, while an int holds the product.  Beyond,
\* its overflow is undefined, and the remainder any one of either sign.
Remainders(timeout) ==
  IF timeout <= MaxExact THEN {timeout % Second}
                         ELSE (1 - Second)..(Second - 1)

\* The time select() was given has passed.  (Which remainder the overflow left
\* is chosen here, since nothing depends on it before.)
Expired(c) ==
  /\ TimedWait(c)
  /\ \E ms \in Remainders(c.timeout) :
       ms >= 0 /\ c.waited >= (c.timeout \div Second) * Second + ms

\* A timeval with a negative tv_usec: select() fails with EINVAL at once.
Refused(c) ==
  /\ TimedWait(c) /\ c.waited = 0
  /\ \E ms \in Remainders(c.timeout) : ms < 0

\* *timeout on return: the time spent, if it was a timed wait.
TimeoutAfter(c) == IF c.timeout > 0 THEN c.waited ELSE c.timeout

\* Enter port_wait_ready with the locals c.
EnterWait(t, c) ==
  /\ pc' = [pc EXCEPT ![t] = "select"]
  /\ call' = [call EXCEPT ![t] = [c EXCEPT !.waited = 0]]

\* port_wait_ready returns r: ser_read_wait returns it, ser_write stops on an
\* error and otherwise goes on to write().
LeaveWait(t, r) ==
  LET c == call[t] IN
  IF c.op = SER_OP_RD
  THEN Return(t, "read_wait", r, 0) /\ UNCHANGED call
  ELSE IF r < 0
  THEN Return(t, "write", r, c.sent) /\ UNCHANGED call
  ELSE /\ pc' = [pc EXCEPT ![t] = "write"]
       /\ call' = [call EXCEPT ![t].timeout = TimeoutAfter(c)]
       /\ UNCHANGED ret

SelectReady(t) ==
  /\ pc[t] = "select"
  /\ Ready(call[t].op)
  /\ LeaveWait(t, 0)
  /\ UNCHANGED <<fixed, port, hist>>

SelectExpires(t) ==
  /\ pc[t] = "select"
  /\ Expired(call[t])
  /\ ~Ready(call[t].op)
  /\ LeaveWait(t, SER_ETIMEDOUT)
  /\ UNCHANGED <<fixed, port, hist>>

\* A signal handler ran in the thread: select() fails with EINTR.
Interrupted(c) == "signal" \in faults /\ ~Ready(c.op)

SelectFails(t) ==
  /\ pc[t] = "select"
  /\ Refused(call[t]) \/ Interrupted(call[t])
  /\ LeaveWait(t, SER_EFAIL)
  /\ UNCHANGED <<fixed, port, hist>>

\* clock_gettime() fails, before a timed wait or after it: what select()
\* answered is dropped.
ClockFails(t) ==
  LET c == call[t] IN
  /\ "clock" \in faults
  /\ pc[t] = "select"
  /\ TimedWait(c)
  /\ \/ c.waited = 0
     \/ Ready(c.op) \/ Expired(c) \/ Interrupted(c)
  /\ LeaveWait(t, ErrorSet("EINVAL"))
  /\ UNCHANGED <<fixed, port, hist>>

-----------------------------------------------------------------------------
(***************************************************************************)
(* Reading.                                                                *)
(***************************************************************************)
SerReadWait(t) ==
  /\ pc[t] = "idle"
  /\ EnterWait(t, [op |-> SER_OP_RD, sz |-> 0, sent |-> 0,
                   timeout |-> timeouts.rd, waited |-> 0])
  /\ UNCHANGED <<fixed, port, ret, hist>>

\* What read() returns for sz bytes: a count and, below zero, an errno.
ReadSyscall(sz) ==
  IF ~online \/ sz = 0 THEN [n |-> 0, errno |-> "none"]
  ELSE IF rx = <<>> THEN [n |-> -1, errno |-> "EAGAIN"]
  ELSE [n |-> LeastOf(sz, Len(rx)), errno |-> "none"]

\* Mutant: end of file is not told apart from an empty queue.
ReadCode_EofIsEmpty(got) ==
  IF got.n > 0 THEN 0
  ELSE IF got.n = 0 THEN ErrorSet("EAGAIN") ELSE ErrorSet(got.errno)

\* Mutant: an empty queue is taken for end of file.
ReadCode_EmptyIsEof(got) == IF got.n > 0 THEN 0 ELSE ErrorSet("EIO")

\* Mutant: the errno value itself is returned, EAGAIN being 11.
ReadCode_Errno(got) ==
  IF got.n > 0 THEN 0
  ELSE IF got.n = 0 THEN ErrorSet("EIO") ELSE -11

\* The code ser_read returns for it: no bytes at all is a hang up.
ReadCode(got) ==
  IF got.n > 0 THEN 0
  ELSE IF got.n = 0 THEN ErrorSet("EIO") ELSE ErrorSet(got.errno)

SerRead(t, sz) ==
  LET got == ReadSyscall(sz) IN
  /\ pc[t] = "idle"
  /\ rx' = IF got.n > 0 THEN SubSeq(rx, got.n + 1, Len(rx)) ELSE rx
  /\ Return(t, "read", ReadCode(got), IF got.n > 0 THEN got.n ELSE 0)
  /\ call' = [call EXCEPT ![t].sz = sz]
  /\ UNCHANGED <<fixed, online, nrx, txlen, hist>>

SerAvailable(t) ==
  /\ pc[t] = "idle"
  /\ IF online THEN Return(t, "available", 0, Len(rx))   \* TIOCINQ
               ELSE Return(t, "available", ErrorSet("EIO"), 0)
  /\ UNCHANGED <<fixed, port, call, hist>>

-----------------------------------------------------------------------------
(***************************************************************************)
(* ser_flush: one tcflush(), refused for an unknown queue.                 *)
(***************************************************************************)
SerFlush(t, queue) ==
  /\ pc[t] = "idle"
  /\ LET ok == queue \in {"in", "out", "all"} /\ online IN
     /\ rx' = IF ok /\ queue # "out" THEN <<>> ELSE rx
     /\ txlen' = IF ok /\ queue # "in" THEN 0 ELSE txlen
     /\ Return(t, "flush",
               IF queue \notin {"in", "out", "all"} THEN SER_EINVAL
               ELSE IF ok THEN 0 ELSE ErrorSet("EIO"), 0)
  /\ UNCHANGED <<fixed, online, nrx, call, hist>>

-----------------------------------------------------------------------------
(***************************************************************************)
(* ser_write: wait for room, write what is left of the buffer, repeat.     *)
(***************************************************************************)
SerWrite(t, sz) ==
  /\ pc[t] = "idle"
  /\ EnterWait(t, [op |-> SER_OP_WR, sz |-> sz, sent |-> 0,
                   timeout |-> timeouts.wr, waited |-> 0])
  /\ taken' = [taken EXCEPT ![t] = 0]
  /\ intact' = [intact EXCEPT ![t] = TRUE]
  /\ UNCHANGED <<fixed, port, ret>>

\* The counts a write() of want bytes may return...
WriteCounts(want) ==
  IF ~online THEN {}
  ELSE IF want = 0 THEN {0} ELSE 1..LeastOf(want, TxCap - txlen)

\* ... and the errors it may fail with.
WriteErrors(want) ==
  {e \in {"EIO", "EAGAIN", "EINTR"} :
     \/ e = "EIO" /\ ~online
     \/ e = "EAGAIN" /\ online /\ want > 0 /\ txlen = TxCap
     \/ e = "EINTR" /\ "signal" \in faults}

\* Mutant: the loop stops after the first write() that took something.
WriteFinished_First(c, sent, now, errno) == errno # "EAGAIN"

\* Mutant: the loop only stops on an error.
WriteFinished_Never(c, sent, now, errno) == now < 0 /\ errno # "EAGAIN"

\* The loop stops when write() gave nothing for a reason other than EAGAIN
\* ("device disconnected") or when everything is sent.
WriteFinished(c, sent, now, errno) ==
  (now < 1 /\ errno # "EAGAIN") \/ sent = c.sz

\* Mutant: the write index is advanced by the whole request.
SentAfter_Whole(c, now) == c.sz

\* Mutant: the write index is not advanced past a short write.
SentAfter_Short(c, now) == IF now < c.sz THEN c.sent ELSE SizeT(c.sent + now)

\* sent_ += (size_t)sent_now, also when sent_now is -1.
SentAfter(c, now) == SizeT(c.sent + now)

\* What ser_write does with write()'s answer.  r is still the 0 that
\* port_wait_ready returned: the code of error_set(EIO) is dropped.
AfterWrite(t, now, errno) ==
  LET c == call[t]
      sent == SentAfter(c, now)
  IN IF WriteFinished(c, sent, now, errno)
     THEN /\ Return(t, "write", 0, sent)
          /\ call' = [call EXCEPT ![t].sent = sent]
     ELSE EnterWait(t, [c EXCEPT !.sent = sent]) /\ UNCHANGED ret

WriteSyscall(t) ==
  LET want == SizeT(call[t].sz - call[t].sent) IN
  /\ pc[t] = "write"
  /\ \/ \E n \in WriteCounts(want) :
          /\ txlen' = txlen + n
          /\ taken' = [taken EXCEPT ![t] = @ + n]
          /\ intact' = [intact EXCEPT ![t] =
                          @ /\ (n > 0 => call[t].sent = taken[t])]
          /\ AfterWrite(t, n, "none")
     \/ \E e \in WriteErrors(want) :
          /\ AfterWrite(t, -1, e)
          /\ UNCHANGED <<txlen, hist>>
  /\ UNCHANGED <<fixed, online, rx, nrx>>

-----------------------------------------------------------------------------
(***************************************************************************)
(* The kernel, the line and the peer.                                      *)
(***************************************************************************)

\* The peer sends a byte; the kernel drops it when the queue is full.
PeerSends ==
  /\ online
  /\ nrx < MaxRx
  /\ nrx' = nrx + 1
  /\ rx' = IF Len(rx) < RxCap THEN Append(rx, nrx + 1) ELSE rx
  /\ UNCHANGED <<fixed, online, txlen, pc, call, ret, hist>>

\* A byte leaves on the line.
Drain ==
  /\ online
  /\ txlen > 0
  /\ txlen' = txlen - 1
  /\ UNCHANGED <<fixed, online, rx, nrx, pc, call, ret, hist>>

\* The tty is hung up and its queues are discarded.
Unplug ==
  /\ "unplug" \in faults
  /\ online
  /\ online' = FALSE
  /\ rx' = <<>> /\ txlen' = 0
  /\ UNCHANGED <<fixed, nrx, pc, call, ret, hist>>

\* A millisecond passes for a thread in a timed wait.  The wait may outlast
\* the timeout: the thread is not scheduled the instant it expires.
Tick(t) ==
  /\ pc[t] = "select"
  /\ TimedWait(call[t])
  /\ call[t].waited < MaxWait
  /\ call' = [call EXCEPT ![t].waited = @ + 1]
  /\ UNCHANGED <<fixed, port, pc, ret, hist>>

-----------------------------------------------------------------------------
Select(t) ==
  SelectReady(t) \/ SelectExpires(t) \/ SelectFails(t) \/ ClockFails(t)

Read(t) ==
  \/ SerReadWait(t)
  \/ \E sz \in RdSizes : SerRead(t, sz)
  \/ SerAvailable(t)

Write(t) == (\E sz \in WrSizes : SerWrite(t, sz)) \/ WriteSyscall(t)

Control(t) == \E queue \in Queues : SerFlush(t, queue)

Environment == PeerSends \/ Drain \/ Unplug \/ \E t \in Threads : Tick(t)

Next ==
  \/ \E t \in Threads : Select(t)
  \/ \E t \in Readers : Read(t)
  \/ \E t \in Writers : Write(t)
  \/ \E t \in Controllers : Control(t)
  \/ Environment

Spec == Init /\ [][Next]_vars

\* The kernel runs threads and timers that can go on.
Running ==
  \A t \in Threads : WF_vars(Select(t)) /\ WF_vars(WriteSyscall(t))
                       /\ WF_vars(Tick(t))

\* A peer that may hold the line (flow control) for as long as it likes...
StallSpec == Spec /\ Running

\* ... and one that lets it move.
FlowSpec == StallSpec /\ WF_vars(Drain)

-----------------------------------------------------------------------------
(***************************************************************************)
(* Properties.                                                             *)
(***************************************************************************)

Places == {"idle", "select", "write"}

Call ==
  [op : {SER_OP_RD, SER_OP_WR}, sz : Nat, sent : Nat, timeout : Int,
   waited : Nat]

Operations == {"none", "read", "read_wait", "available", "flush", "write"}

Answer == [op : Operations, r : ReturnCodes, n : Nat]

\* The variables have the types their C counterparts have; the queues stay
\* within the kernel's room.
TypeOK ==
  /\ timeouts \in Timeouts /\ faults \in FaultChoices
  /\ online \in BOOLEAN
  /\ rx \in Seq(1..MaxRx) /\ Len(rx) <= RxCap
  /\ nrx \in 0..MaxRx
  /\ txlen \in 0..TxCap
  /\ pc \in [Threads -> Places]
  /\ call \in [Threads -> Call]
  /\ ret \in [Threads -> Answer]
  /\ taken \in [Threads -> Nat]
  /\ intact \in [Threads -> BOOLEAN]

Returned(t, op, r) == pc[t] = "idle" /\ ret[t].op = op /\ ret[t].r = r

\* ser_write returns 0 only when it has sent the whole buffer
\* (comms.h:226, "0 on success, error code otherwise").
ZeroMeansAllSent ==
  \A w \in Writers : Returned(w, "write", 0) => taken[w] = call[w].sz

\* What ser_write hands to the kernel is its caller's buffer, in order, no
\* byte twice and none from outside of it (comms.h:219).
OnlyCallerBytes ==
  \A w \in Writers : intact[w] /\ taken[w] <= call[w].sz

\* ser_write keeps the contract of comms.h, call by call, as long as the
\* device stays and no signal interrupts the writer.
Contract ==
  INSTANCE WriteContract WITH
    Writer <- Writers,
    Sizes <- WrSizes,
    busy <- {w \in Writers : pc[w] # "idle"},
    size <- [w \in Writers |-> call[w].sz],
    done <- [w \in Writers |-> taken[w]],
    result <- [w \in Writers |-> [r |-> ret[w].r, n |-> ret[w].n]]

WritesToContract ==
  /\ faults = {} => Contract!Init
  /\ [][faults = {} => Contract!Next]_(Contract!wvars)

\* A call of ser_write returns.
WriteReturns == \A w \in Writers : (pc[w] # "idle") ~> (pc[w] = "idle")

\* A reader that is told the port is ready finds data in it, or learns of a
\* hang up: its next ser_read does not return SER_EEMPTY.
ReadyMeansReadable ==
  \A t \in Readers :
    Returned(t, "read_wait", 0) => ReadCode(ReadSyscall(1)) # SER_EEMPTY

\* ser_read_wait reports a timeout only after the configured time, and never
\* with SER_NO_TIMEOUT (comms.h:42).  Where an int does not hold the timeout in
\* microseconds it may be early, by less than a second (posix/comms.c:521).
NoFalseTimeout ==
  \A t \in Readers :
    Returned(t, "read_wait", SER_ETIMEDOUT) =>
      /\ timeouts.rd > 0
      /\ call[t].waited > timeouts.rd - Second
      /\ timeouts.rd <= MaxExact => call[t].waited >= timeouts.rd

\* A reader is told SER_EDISCONN only when the device is gone (types.h:75,
\* "Device was disconnected."), but for a ser_read of no bytes, which takes the
\* 0 of its read() for a hang up (posix/comms.c:683).
DisconnectIsReal ==
  \A t \in Readers :
    pc[t] = "idle" /\ ret[t].r = SER_EDISCONN =>
      ~online \/ (ret[t].op = "read" /\ call[t].sz = 0)

\* Once the device is gone no thread stays in a wait: ser_read_wait and
\* ser_write return whatever their timeouts are.
UnplugEndsWaits ==
  \A t \in Threads :
    (~online /\ pc[t] = "select") ~> (pc[t] # "select")
=============================================================================
