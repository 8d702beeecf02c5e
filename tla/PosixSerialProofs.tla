-------------------------- MODULE PosixSerialProofs --------------------------
(***************************************************************************)
(* Proofs about PosixSerial, for any sizes, timeouts, faults and bounds,   *)
(* and for any threads, or for one reader or writer where a theorem says   *)
(* so: the library has no lock, and two of them do get in each other's     *)
(* way.                                                                    *)
(***************************************************************************)
EXTENDS PosixSerial, PosixTime, SequenceTheorems, TLAPS

-----------------------------------------------------------------------------
(***************************************************************************)
(* Lemmas about the helpers.                                               *)
(***************************************************************************)
LEMMA ErrorIsCode ==
  ASSUME NEW errno
  PROVE  ErrorSet(errno) \in ReturnCodes
  BY DEF ErrorSet, ReturnCodes, SER_ENODEV, SER_EBUSY, SER_EDISCONN, SER_EEMPTY,
         SER_EFAIL

\* The code of a clock_gettime() that fails.
LEMMA ClockCode == ErrorSet("EINVAL") = SER_EFAIL
  BY DEF ErrorSet

\* A write index stays a size_t when the count of a write() is added to it.
LEMMA SumIsSize ==
  ASSUME NEW a \in Nat, NEW b \in Int, b >= -1
  PROVE  SizeT(a + b) \in Nat
  BY NumbersAssumption DEF SizeT

\* The input queue, as an action may leave it.
Queue == rx \in Seq(1..MaxRx) /\ Len(rx) <= RxCap

LEMMA EmptyQueue == <<>> \in Seq(1..MaxRx) /\ Len(<<>>) <= RxCap
  BY NumbersAssumption

LEMMA ReadQueue ==
  ASSUME Queue, NEW n \in 1..Len(rx)
  PROVE  LET rest == SubSeq(rx, n + 1, Len(rx))
         IN  rest \in Seq(1..MaxRx) /\ Len(rest) <= RxCap
<1>1. Len(rx) \in Nat /\ n \in Nat /\ n <= Len(rx)
  BY DEF Queue
<1>2. ASSUME NEW i \in n + 1..Len(rx) PROVE rx[i] \in 1..MaxRx
  <2>1. i \in 1..Len(rx)
    BY <1>1
  <2>2. rx \in Seq(1..MaxRx)
    BY DEF Queue
  <2>3. QED
    BY ONLY <2>1, <2>2, ElementOfSeq
<1>3. /\ SubSeq(rx, n + 1, Len(rx)) \in Seq(1..MaxRx)
      /\ Len(SubSeq(rx, n + 1, Len(rx))) =
           IF n + 1 <= Len(rx) THEN Len(rx) - (n + 1) + 1 ELSE 0
  BY <1>1, <1>2, SubSeqProperties
<1>4. QED
  BY <1>1, <1>3, NumbersAssumption DEF Queue

LEMMA FullerQueue ==
  ASSUME Queue, NEW b \in 1..MaxRx, Len(rx) < RxCap
  PROVE  Append(rx, b) \in Seq(1..MaxRx) /\ Len(Append(rx, b)) <= RxCap
  BY NumbersAssumption DEF Queue

-----------------------------------------------------------------------------
(***************************************************************************)
(* Type correctness.                                                       *)
(***************************************************************************)
Calls == pc \in [Threads -> Places] /\ call \in [Threads -> Call]
           /\ ret \in [Threads -> Answer]

LEMMA ReturnTypes ==
  ASSUME Calls, NEW t \in Threads, NEW op \in Operations, NEW r \in ReturnCodes,
         NEW n \in Nat, Return(t, op, r, n)
  PROVE  pc' \in [Threads -> Places] /\ ret' \in [Threads -> Answer]
<1>1. "idle" \in Places
  BY DEF Places
<1>2. [op |-> op, r |-> r, n |-> n] \in Answer
  BY DEF Answer
<1>3. QED
  BY <1>1, <1>2 DEF Return, Calls

LEMMA EnterWaitTypes ==
  ASSUME Calls, NEW t \in Threads, NEW c \in Call, EnterWait(t, c)
  PROVE  pc' \in [Threads -> Places] /\ call' \in [Threads -> Call]
<1>1. "select" \in Places
  BY DEF Places
<1>2. [c EXCEPT !.waited = 0] \in Call
  BY DEF Call
<1>3. QED
  BY <1>1, <1>2 DEF EnterWait, Calls

\* What port_wait_ready returns keeps the types.
LEMMA LeaveWaitTypes ==
  ASSUME Calls, NEW t \in Threads, NEW r \in ReturnCodes, LeaveWait(t, r)
  PROVE  Calls'
<1>1. call[t] \in Call
  BY DEF Calls
<1>2. CASE call[t].op = SER_OP_RD
  <2>1. Return(t, "read_wait", r, 0) /\ UNCHANGED call
    BY <1>2 DEF LeaveWait
  <2>2. QED
    BY <2>1, ReturnTypes DEF Calls, Operations
<1>3. CASE call[t].op # SER_OP_RD /\ r < 0
  <2>1. Return(t, "write", r, call[t].sent) /\ UNCHANGED call
    BY <1>3 DEF LeaveWait
  <2>2. call[t].sent \in Nat /\ "write" \in Operations
    BY <1>1 DEF Call, Operations
  <2>3. QED
    BY <2>1, <2>2, ReturnTypes DEF Calls
<1>4. CASE call[t].op # SER_OP_RD /\ ~(r < 0)
  <2>1. TimeoutAfter(call[t]) \in Int
    BY <1>1 DEF TimeoutAfter, Call
  <2>2. [call[t] EXCEPT !.timeout = TimeoutAfter(call[t])] \in Call
    BY <1>1, <2>1 DEF Call
  <2>3. /\ pc' = [pc EXCEPT ![t] = "write"]
        /\ call' = [call EXCEPT ![t] =
                      [call[t] EXCEPT !.timeout = TimeoutAfter(call[t])]]
        /\ UNCHANGED ret
    BY <1>4 DEF LeaveWait
  <2>4. QED
    BY <2>2, <2>3 DEF Calls, Places
<1>5. QED
  BY <1>2, <1>3, <1>4

LEMMA AfterWriteTypes ==
  ASSUME Calls, NEW t \in Threads, NEW now \in Int, now >= -1, NEW errno,
         AfterWrite(t, now, errno)
  PROVE  Calls'
<1> DEFINE sent == SentAfter(call[t], now)
<1> DEFINE c == [call[t] EXCEPT !.sent = sent]
<1>1. call[t] \in Call
  BY DEF Calls
<1>2. sent \in Nat
  BY <1>1, SumIsSize DEF SentAfter, Call
<1>3. c \in Call
  BY <1>1, <1>2 DEF Call
<1>4. CASE WriteFinished(call[t], sent, now, errno)
  <2>1. Return(t, "write", 0, sent) /\ call' = [call EXCEPT ![t] = c]
    BY <1>4 DEF AfterWrite
  <2>2. 0 \in ReturnCodes /\ "write" \in Operations
    BY DEF ReturnCodes, Operations
  <2>3. QED
    BY <1>2, <1>3, <2>1, <2>2, ReturnTypes DEF Calls
<1>5. CASE ~WriteFinished(call[t], sent, now, errno)
  <2>1. EnterWait(t, c) /\ UNCHANGED ret
    BY <1>5 DEF AfterWrite
  <2>2. QED
    BY <1>3, <2>1, EnterWaitTypes DEF Calls
<1>6. QED
  BY <1>4, <1>5

LEMMA InitTypes == Init => TypeOK
<1> SUFFICES ASSUME Init PROVE TypeOK
  OBVIOUS
<1>1. [op |-> SER_OP_RD, sz |-> 0, sent |-> 0, timeout |-> 0, waited |-> 0] \in Call
  BY DEF Call
<1>2. [op |-> "none", r |-> 0, n |-> 0] \in Answer
  BY DEF Answer, Operations, ReturnCodes
<1>3. "idle" \in Places
  BY DEF Places
<1>4. Queue
  BY EmptyQueue DEF Init, Queue
<1>5. nrx \in 0..MaxRx /\ txlen \in 0..TxCap
  BY NumbersAssumption DEF Init
<1>6. QED
  BY <1>1, <1>2, <1>3, <1>4, <1>5 DEF Init, TypeOK, Queue

LEMMA TypesPreserved == TypeOK /\ [Next]_vars => TypeOK'
<1> SUFFICES ASSUME TypeOK, [Next]_vars PROVE TypeOK'
  OBVIOUS
<1>0. Calls /\ Queue
  BY DEF TypeOK, Calls, Queue
<1>1. ASSUME NEW t \in Threads, Select(t) PROVE TypeOK'
  <2>1. \E r \in ReturnCodes : LeaveWait(t, r)
    BY <1>1, ClockCode DEF Select, SelectReady, SelectExpires, SelectFails,
         ClockFails, ReturnCodes, SER_ETIMEDOUT, SER_EFAIL
  <2>2. Calls'
    BY <1>0, <2>1, LeaveWaitTypes
  <2>3. UNCHANGED <<fixed, port, hist>>
    BY <1>1 DEF Select, SelectReady, SelectExpires, SelectFails, ClockFails
  <2>4. QED
    BY <2>2, <2>3 DEF TypeOK, Calls, fixed, port, hist
<1>2. ASSUME NEW t \in Threads, SerReadWait(t) PROVE TypeOK'
  <2>1. timeouts.rd \in Int
    BY NumbersAssumption DEF TypeOK
  <2>2. [op |-> SER_OP_RD, sz |-> 0, sent |-> 0, timeout |-> timeouts.rd,
         waited |-> 0] \in Call
    BY <2>1 DEF Call
  <2>3. pc' \in [Threads -> Places] /\ call' \in [Threads -> Call]
    BY <1>0, <1>2, <2>2, EnterWaitTypes DEF SerReadWait
  <2>4. QED
    BY <1>2, <2>3 DEF SerReadWait, TypeOK, fixed, port, hist
<1>3. ASSUME NEW t \in Threads, NEW sz \in RdSizes, SerRead(t, sz) PROVE TypeOK'
  <2> DEFINE got == ReadSyscall(sz)
  <2> DEFINE n == IF got.n > 0 THEN got.n ELSE 0
  <2>1. Len(rx) \in Nat /\ sz \in Nat
    BY NumbersAssumption DEF TypeOK
  <2>2. got.n \in Int /\ (got.n > 0 => got.n \in 1..Len(rx))
    BY <2>1 DEF ReadSyscall, LeastOf
  <2>3. Queue'
    BY <1>0, <1>3, <2>2, ReadQueue DEF SerRead, Queue
  <2>4. ReadCode(got) \in ReturnCodes
    BY ErrorIsCode DEF ReadCode, ReturnCodes
  <2>5. "read" \in Operations /\ n \in Nat
    BY <2>2 DEF Operations
  <2>6. Return(t, "read", ReadCode(got), n)
    BY <1>3 DEF SerRead
  <2>7. pc' \in [Threads -> Places] /\ ret' \in [Threads -> Answer]
    BY <1>0, <2>4, <2>5, <2>6, ReturnTypes
  <2>8. UNCHANGED <<fixed, online, nrx, txlen, hist>>
    BY <1>3 DEF SerRead
  <2>9. call' \in [Threads -> Call]
    <3>1. [call[t] EXCEPT !.sz = sz] \in Call
      BY <1>0, <2>1 DEF Calls, Call
    <3>2. call' = [call EXCEPT ![t] = [call[t] EXCEPT !.sz = sz]]
      BY <1>3 DEF SerRead
    <3>3. QED
      BY <1>0, <3>1, <3>2 DEF Calls
  <2>10. QED
    BY <2>3, <2>7, <2>8, <2>9 DEF TypeOK, Queue, fixed, hist
<1>4. ASSUME NEW t \in Threads, SerAvailable(t) PROVE TypeOK'
  <2>1. /\ 0 \in ReturnCodes /\ ErrorSet("EIO") \in ReturnCodes
        /\ Len(rx) \in Nat /\ 0 \in Nat /\ "available" \in Operations
    BY ErrorIsCode DEF ReturnCodes, TypeOK, Operations
  <2>2. pc' \in [Threads -> Places] /\ ret' \in [Threads -> Answer]
    BY <1>0, <1>4, <2>1, ReturnTypes DEF SerAvailable
  <2>3. QED
    BY <1>4, <2>2 DEF SerAvailable, TypeOK, fixed, port, hist
<1>5. ASSUME NEW t \in Threads, NEW queue \in Queues, SerFlush(t, queue)
      PROVE  TypeOK'
  <2>1. /\ 0 \in ReturnCodes /\ ErrorSet("EIO") \in ReturnCodes
        /\ SER_EINVAL \in ReturnCodes /\ 0 \in Nat /\ "flush" \in Operations
    BY ErrorIsCode DEF ReturnCodes, SER_EINVAL, Operations
  <2>2. pc' \in [Threads -> Places] /\ ret' \in [Threads -> Answer]
    BY <1>0, <1>5, <2>1, ReturnTypes DEF SerFlush
  <2>3. Queue'
    BY <1>0, <1>5, EmptyQueue DEF SerFlush, Queue
  <2>4. txlen' \in 0..TxCap
    BY <1>5, NumbersAssumption DEF SerFlush, TypeOK
  <2>5. UNCHANGED <<fixed, online, nrx, call, hist>>
    BY <1>5 DEF SerFlush
  <2>6. QED
    BY <2>2, <2>3, <2>4, <2>5 DEF TypeOK, Queue, fixed, hist
<1>6. ASSUME NEW t \in Threads, NEW sz \in WrSizes, SerWrite(t, sz) PROVE TypeOK'
  <2>1. timeouts.wr \in Int /\ sz \in Nat
    BY NumbersAssumption DEF TypeOK
  <2>2. [op |-> SER_OP_WR, sz |-> sz, sent |-> 0, timeout |-> timeouts.wr,
         waited |-> 0] \in Call
    BY <2>1 DEF Call
  <2>3. pc' \in [Threads -> Places] /\ call' \in [Threads -> Call]
    BY <1>0, <1>6, <2>2, EnterWaitTypes DEF SerWrite
  <2>4. taken' \in [Threads -> Nat] /\ intact' \in [Threads -> BOOLEAN]
    BY <1>6 DEF SerWrite, TypeOK
  <2>5. QED
    BY <1>6, <2>3, <2>4 DEF SerWrite, TypeOK, fixed, port
<1>7. ASSUME NEW t \in Threads, WriteSyscall(t) PROVE TypeOK'
  <2> DEFINE want == SizeT(call[t].sz - call[t].sent)
  <2>1. call[t] \in Call /\ want \in Int
    BY <1>0, NumbersAssumption DEF Calls, Call, SizeT
  <2>2. ASSUME NEW n \in WriteCounts(want),
               txlen' = txlen + n,
               taken' = [taken EXCEPT ![t] = @ + n],
               intact' = [intact EXCEPT ![t] =
                            @ /\ (n > 0 => call[t].sent = taken[t])],
               AfterWrite(t, n, "none"),
               UNCHANGED <<fixed, online, rx, nrx>>
        PROVE  TypeOK'
    <3>1. n \in Nat /\ (txlen + n \in 0..TxCap)
      BY <2>1, <2>2, NumbersAssumption DEF WriteCounts, LeastOf, TypeOK
    <3>2. Calls'
      BY <1>0, <2>2, <3>1, AfterWriteTypes
    <3>3. taken' \in [Threads -> Nat] /\ txlen' \in 0..TxCap
      BY <2>2, <3>1 DEF TypeOK
    <3>4. intact' \in [Threads -> BOOLEAN]
      BY <2>2 DEF TypeOK
    <3>5. QED
      BY <2>2, <3>2, <3>3, <3>4 DEF TypeOK, Calls, fixed
  <2>3. ASSUME NEW e, AfterWrite(t, -1, e), UNCHANGED <<txlen, hist>>,
               UNCHANGED <<fixed, online, rx, nrx>>
        PROVE  TypeOK'
    <3>1. Calls'
      BY <1>0, <2>3, AfterWriteTypes
    <3>2. QED
      BY <2>3, <3>1 DEF TypeOK, Calls, fixed, hist
  <2>4. QED
    BY <1>7, <2>2, <2>3 DEF WriteSyscall
<1>8. CASE PeerSends
  <2>1. nrx' \in 0..MaxRx /\ nrx + 1 \in 1..MaxRx
    BY <1>8, NumbersAssumption DEF PeerSends, TypeOK
  <2>2. Queue'
    BY <1>0, <1>8, <2>1, FullerQueue DEF PeerSends, Queue
  <2>3. QED
    BY <1>8, <2>1, <2>2 DEF PeerSends, TypeOK, Queue, fixed, hist
<1>9. CASE Drain
  BY <1>9, NumbersAssumption DEF Drain, TypeOK, fixed, hist
<1>10. CASE Unplug
  <2>1. 0 \in 0..TxCap
    BY NumbersAssumption
  <2>2. QED
    BY <1>10, <2>1, EmptyQueue DEF Unplug, TypeOK, fixed, hist
<1>11. ASSUME NEW t \in Threads, Tick(t) PROVE TypeOK'
  <2>1. call[t] \in Call
    BY <1>0 DEF Calls
  <2>2. [call[t] EXCEPT !.waited = @ + 1] \in Call
    BY <2>1 DEF Call
  <2>3. call' = [call EXCEPT ![t] = [call[t] EXCEPT !.waited = @ + 1]]
    BY <1>11 DEF Tick
  <2>4. call' \in [Threads -> Call]
    BY <1>0, <2>2, <2>3 DEF Calls
  <2>5. QED
    BY <1>11, <2>4 DEF Tick, TypeOK, fixed, port, hist
<1>12. CASE UNCHANGED vars
  BY <1>12 DEF vars, fixed, port, hist, TypeOK
<1>13. QED
  BY <1>1, <1>2, <1>3, <1>4, <1>5, <1>6, <1>7, <1>8, <1>9, <1>10, <1>11, <1>12
     DEF Next, Read, Write, Control, Environment, Threads

\* Every variable keeps the type of its C counterpart and the queues stay
\* within the kernel's room, for any threads on one instance.
THEOREM TypeCorrect == Spec => []TypeOK
  BY InitTypes, TypesPreserved, PTL DEF Spec

-----------------------------------------------------------------------------
(***************************************************************************)
(* One writer.  Its write index is what the kernel took of the buffer, and *)
(* when select() lets it through it finds room, since only it fills the    *)
(* output queue.                                                           *)
(***************************************************************************)
SoleWriter == \A v, w \in Writers : v = w

Sending(w) ==
  /\ pc[w] # "idle" =>
       /\ call[w].op = SER_OP_WR /\ call[w].sz \in WrSizes
       /\ call[w].sent = taken[w]
  /\ taken[w] <= call[w].sz /\ intact[w]

Room(w) == pc[w] = "write" /\ online => txlen < TxCap

Plugged == "unplug" \in faults \/ online

WriterInv == TypeOK /\ Plugged /\ \A w \in Writers : Sending(w) /\ Room(w)

LEMMA InitEstablishes == Init => WriterInv
<1> SUFFICES ASSUME Init PROVE WriterInv
  OBVIOUS
<1>1. ASSUME NEW w \in Writers PROVE Sending(w) /\ Room(w)
  BY DEF Init, Sending, Room, Threads
<1>2. QED
  BY <1>1, InitTypes DEF Init, WriterInv, Plugged

\* What others do: the call of w stays where it is and no room is taken.
Aside(w) ==
  /\ pc'[w] = pc[w] /\ taken'[w] = taken[w] /\ intact'[w] = intact[w]
  /\ call'[w].op = call[w].op /\ call'[w].sz = call[w].sz
  /\ call'[w].sent = call[w].sent
  /\ online' => online
  /\ txlen' = txlen \/ txlen' < TxCap

LEMMA AsideKeeps ==
  ASSUME NEW w, Sending(w), Room(w), Aside(w)
  PROVE  Sending(w)' /\ Room(w)'
<1>1. Sending(w)'
  BY DEF Sending, Aside
<1>2. Room(w)'
  BY DEF Room, Aside
<1>3. QED
  BY <1>1, <1>2

\* A call of ser_write that has returned leaves nothing to keep but history.
LEMMA IdleKeeps ==
  ASSUME NEW w, Sending(w), pc'[w] = "idle", taken'[w] = taken[w],
         intact'[w] = intact[w], call'[w].sz = call[w].sz
  PROVE  Sending(w)' /\ Room(w)'
  BY DEF Sending, Room

\* port_wait_ready returns to a writer: to write() only when it found room.
LEMMA WriterLeavesWait ==
  ASSUME WriterInv, NEW w \in Writers, pc[w] = "select", NEW r,
         LeaveWait(w, r), r < 0 \/ Ready(call[w].op),
         UNCHANGED <<fixed, port, hist>>
  PROVE  Sending(w)' /\ Room(w)'
<1>1. Sending(w) /\ w \in Threads /\ TypeOK
  BY DEF WriterInv, Threads
<1>2. call[w].op = SER_OP_WR
  BY <1>1 DEF Sending
<1>3. SER_OP_WR # SER_OP_RD
  BY DEF SER_OP_WR, SER_OP_RD
<1>4. CASE r < 0
  <2>1. pc'[w] = "idle" /\ UNCHANGED <<call, hist>>
    BY <1>1, <1>2, <1>3, <1>4 DEF LeaveWait, Return, TypeOK
  <2>2. QED
    BY <1>1, <2>1, IdleKeeps DEF hist
<1>5. CASE ~(r < 0)
  <2>1. Ready(call[w].op) /\ pc'[w] = "write"
    BY <1>1, <1>2, <1>3, <1>5 DEF LeaveWait, TypeOK
  <2>2. call' = [call EXCEPT ![w].timeout = TimeoutAfter(call[w])]
    BY <1>1, <1>2, <1>3, <1>5 DEF LeaveWait
  <2>3. call[w] \in Call /\ call \in [Threads -> Call]
    BY <1>1 DEF TypeOK
  <2>4. /\ call'[w].op = call[w].op /\ call'[w].sz = call[w].sz
        /\ call'[w].sent = call[w].sent
    BY <1>1, <2>2, <2>3 DEF Call
  <2>5. Sending(w)'
    BY <1>1, <2>4 DEF Sending, hist
  <2>6. Room(w)'
    BY <1>2, <1>3, <2>1 DEF Ready, Room, port
  <2>7. QED
    BY <2>5, <2>6
<1>6. QED
  BY <1>4, <1>5

\* The bytes a sole writer asks write() to take are those left of its buffer,
\* and the size_t arithmetic does not wrap.
LEMMA WantsTheRest ==
  ASSUME WriterInv, NEW w \in Writers, pc[w] # "idle"
  PROVE  /\ SizeT(call[w].sz - call[w].sent) = call[w].sz - taken[w]
         /\ \A n \in 0..(call[w].sz - taken[w]) :
              SizeT(call[w].sent + n) = taken[w] + n
<1>1. /\ call[w].sent = taken[w] /\ taken[w] <= call[w].sz
      /\ call[w].sz \in WrSizes
  BY DEF WriterInv, Sending
<1>2. taken[w] \in Nat
  BY DEF WriterInv, TypeOK, Threads
<1>3. call[w].sz \in Nat /\ call[w].sz + 1 < SizeMod
  BY <1>1, NumbersAssumption
<1>4. QED
  BY <1>1, <1>2, <1>3, NumbersAssumption DEF SizeT

\* write() took n bytes: the write index follows, or the call is over.
LEMMA TakenKeeps ==
  ASSUME WriterInv, NEW w \in Writers, pc[w] = "write",
         NEW n \in WriteCounts(SizeT(call[w].sz - call[w].sent)),
         taken' = [taken EXCEPT ![w] = @ + n],
         intact' = [intact EXCEPT ![w] =
                      @ /\ (n > 0 => call[w].sent = taken[w])],
         AfterWrite(w, n, "none")
  PROVE  Sending(w)' /\ Room(w)'
<1> DEFINE c == [call[w] EXCEPT !.sent = taken[w] + n]
<1>1. w \in Threads /\ TypeOK /\ Sending(w)
  BY DEF WriterInv, Threads
<1>2. /\ call \in [Threads -> Call] /\ call[w] \in Call
      /\ taken[w] \in Nat /\ call[w].sz \in Nat
  BY <1>1 DEF TypeOK, Call
<1>3. n \in 0..(call[w].sz - taken[w])
  <2>1. n \in WriteCounts(call[w].sz - taken[w])
    BY WantsTheRest
  <2>2. call[w].sz - taken[w] \in Nat /\ txlen \in 0..TxCap
    BY <1>1, <1>2 DEF Sending, TypeOK
  <2>3. QED
    BY <2>1, <2>2, NumbersAssumption DEF WriteCounts, LeastOf
<1>4. SentAfter(call[w], n) = taken[w] + n
  BY <1>3, WantsTheRest DEF SentAfter
<1>5. taken'[w] = taken[w] + n /\ taken'[w] <= call[w].sz
  BY <1>1, <1>2, <1>3 DEF TypeOK
<1>6. intact'[w]
  BY <1>1 DEF Sending, TypeOK
<1>7. CASE WriteFinished(call[w], taken[w] + n, n, "none")
  <2>1. Return(w, "write", 0, taken[w] + n) /\ call' = [call EXCEPT ![w] = c]
    BY <1>4, <1>7 DEF AfterWrite
  <2>2. pc'[w] = "idle" /\ call'[w].sz = call[w].sz
    BY <1>1, <1>2, <2>1 DEF Return, TypeOK, Call
  <2>3. QED
    BY <1>5, <1>6, <2>2 DEF Sending, Room
<1>8. CASE ~WriteFinished(call[w], taken[w] + n, n, "none")
  <2>1. EnterWait(w, c)
    BY <1>4, <1>8 DEF AfterWrite
  <2>2. /\ pc'[w] = "select"
        /\ call'[w] = [c EXCEPT !.waited = 0]
    BY <1>1, <1>2, <2>1 DEF EnterWait, TypeOK
  <2>3. /\ call'[w].op = call[w].op /\ call'[w].sz = call[w].sz
        /\ call'[w].sent = taken[w] + n
    BY <1>2, <2>2 DEF Call
  <2>4. QED
    BY <1>1, <1>5, <1>6, <2>2, <2>3 DEF Sending, Room
<1>9. QED
  BY <1>7, <1>8

\* write() failed: never for want of room, so the call is over.
LEMMA FailedKeeps ==
  ASSUME WriterInv, NEW w \in Writers, pc[w] = "write",
         NEW e \in WriteErrors(SizeT(call[w].sz - call[w].sent)),
         AfterWrite(w, -1, e), UNCHANGED <<txlen, hist>>
  PROVE  Sending(w)' /\ Room(w)'
<1> DEFINE sent == SentAfter(call[w], -1)
<1>1. w \in Threads /\ TypeOK /\ Sending(w) /\ Room(w)
  BY DEF WriterInv, Threads
<1>2. e # "EAGAIN"
  BY <1>1, NumbersAssumption DEF WriteErrors, Room, TypeOK
<1>3. /\ Return(w, "write", 0, sent)
      /\ call' = [call EXCEPT ![w].sent = sent]
  BY <1>2 DEF AfterWrite, WriteFinished
<1>4. pc'[w] = "idle" /\ call'[w].sz = call[w].sz
  BY <1>1, <1>3 DEF Return, TypeOK, Call
<1>5. QED
  BY <1>1, <1>4, IdleKeeps DEF hist

\* A sole writer stays in step with the kernel whatever the others do.
LEMMA StepPreserves ==
  ASSUME SoleWriter, WriterInv, [Next]_vars
  PROVE  WriterInv'
<1>1. TypeOK'
  BY TypesPreserved DEF WriterInv
<1>2. Plugged'
  BY DEF WriterInv, Plugged, Next, Read, Write, Control, Environment, Select,
         SelectReady, SelectExpires, SelectFails, ClockFails, SerReadWait, SerRead,
         SerAvailable, SerFlush, SerWrite, WriteSyscall, PeerSends, Drain, Unplug,
         Tick, vars, fixed, port
<1>3. ASSUME NEW w \in Writers PROVE Sending(w)' /\ Room(w)'
  <2>0. /\ w \in Threads /\ TypeOK /\ Sending(w) /\ Room(w)
        /\ w \notin Readers /\ w \notin Controllers
    BY <1>3, ThreadsAssumption DEF WriterInv, Threads
  <2> DEFINE Stays == /\ pc'[w] = pc[w] /\ call'[w] = call[w]
                      /\ UNCHANGED <<online, txlen, hist>>
  <2>1. Stays => Sending(w)' /\ Room(w)'
    BY <2>0, AsideKeeps DEF Aside, hist
  <2>2. ASSUME NEW t \in Threads, Select(t) PROVE Sending(w)' /\ Room(w)'
    <3>1. PICK r : /\ pc[t] = "select" /\ LeaveWait(t, r)
                   /\ r < 0 \/ Ready(call[t].op)
                   /\ UNCHANGED <<fixed, port, hist>>
      BY <2>2, ClockCode DEF Select, SelectReady, SelectExpires, SelectFails,
           ClockFails, SER_ETIMEDOUT, SER_EFAIL
    <3>2. CASE t = w
      BY <1>3, <3>1, <3>2, WriterLeavesWait
    <3>3. CASE t # w
      <4>1. pc'[w] = pc[w] /\ call'[w] = call[w]
        BY <2>0, <3>1, <3>3 DEF LeaveWait, Return, TypeOK
      <4>2. QED
        BY <2>1, <3>1, <4>1 DEF port
    <3>4. QED
      BY <3>2, <3>3
  <2>3. ASSUME NEW t \in Readers, Read(t) PROVE Sending(w)' /\ Room(w)'
    BY <2>0, <2>1, <2>3 DEF Read, SerReadWait, SerRead, SerAvailable, EnterWait,
         Return, TypeOK, port, hist
  <2>4. ASSUME NEW t \in Writers, NEW sz \in WrSizes, SerWrite(t, sz)
        PROVE  Sending(w)' /\ Room(w)'
    <3>1. t = w
      BY <1>3, SoleWriter DEF SoleWriter
    <3>2. /\ pc'[w] = "select" /\ taken'[w] = 0 /\ intact'[w]
          /\ call'[w].op = SER_OP_WR /\ call'[w].sz = sz /\ call'[w].sent = 0
      BY <2>0, <2>4, <3>1 DEF SerWrite, EnterWait, TypeOK
    <3>3. sz \in Nat
      BY NumbersAssumption
    <3>4. QED
      BY <3>2, <3>3 DEF Sending, Room
  <2>5. ASSUME NEW t \in Writers, WriteSyscall(t) PROVE Sending(w)' /\ Room(w)'
    <3>1. t = w
      BY <1>3, SoleWriter DEF SoleWriter
    <3>2. QED
      BY <1>3, <2>5, <3>1, TakenKeeps, FailedKeeps DEF WriteSyscall
  <2>6. ASSUME NEW t \in Controllers, Control(t) PROVE Sending(w)' /\ Room(w)'
    <3>1. Aside(w)
      BY <2>0, <2>6, NumbersAssumption
         DEF Control, SerFlush, Return, Aside, TypeOK, hist
    <3>2. QED
      BY <2>0, <3>1, AsideKeeps
  <2>7. CASE PeerSends
    BY <2>1, <2>7 DEF PeerSends
  <2>8. CASE Drain \/ Unplug
    <3>1. Aside(w)
      BY <2>0, <2>8, NumbersAssumption DEF Drain, Unplug, Aside, TypeOK, hist
    <3>2. QED
      BY <2>0, <3>1, AsideKeeps
  <2>9. ASSUME NEW t \in Threads, Tick(t) PROVE Sending(w)' /\ Room(w)'
    <3>1. call[w] \in Call /\ call \in [Threads -> Call]
      BY <2>0 DEF TypeOK
    <3>2. Aside(w)
      BY <2>0, <2>9, <3>1 DEF Tick, Aside, Call, port, hist
    <3>3. QED
      BY <2>0, <3>2, AsideKeeps
  <2>10. CASE UNCHANGED vars
    BY <2>1, <2>10 DEF vars, port
  <2>11. QED
    BY <2>2, <2>3, <2>4, <2>5, <2>6, <2>7, <2>8, <2>9, <2>10
       DEF Next, Write, Environment
<1>4. QED
  BY <1>1, <1>2, <1>3 DEF WriterInv

\* With one writer, its write index is what the kernel took of its buffer, and
\* it is let through to write() only while there is room.
THEOREM WriterInvariance == ASSUME SoleWriter PROVE Spec => []WriterInv
<1>1. Init => WriterInv
  BY InitEstablishes
<1>2. SoleWriter /\ WriterInv /\ [Next]_vars => WriterInv'
  BY StepPreserves
<1>3. SoleWriter
  OBVIOUS
<1>4. QED
  BY <1>1, <1>2, <1>3, PTL DEF Spec

-----------------------------------------------------------------------------
(***************************************************************************)
(* One writer keeps the contract of comms.h: every step of it is a step of *)
(* WriteContract, and nobody else's shows there.                           *)
(***************************************************************************)

\* A writer's call as the contract sees it.
Seen(w) == <<pc[w] # "idle", call[w].sz, taken[w], ret[w].r, ret[w].n>>

\* What changes nothing the contract sees is a stutter of it.
LEMMA UnseenStutters ==
  ASSUME \A w \in Writers : UNCHANGED Seen(w)
  PROVE  UNCHANGED Contract!wvars
<1>1. \A w \in Writers : /\ (pc[w] # "idle")' = (pc[w] # "idle")
                         /\ call'[w].sz = call[w].sz /\ taken'[w] = taken[w]
                         /\ ret'[w].r = ret[w].r /\ ret'[w].n = ret[w].n
  BY DEF Seen
<1>2. {w \in Writers : pc[w] # "idle"}' = {w \in Writers : pc[w] # "idle"}
  BY <1>1
<1>3. [w \in Writers |-> call[w].sz]' = [w \in Writers |-> call[w].sz]
  BY <1>1
<1>4. [w \in Writers |-> taken[w]]' = [w \in Writers |-> taken[w]]
  BY <1>1
<1>5. [w \in Writers |-> [r |-> ret[w].r, n |-> ret[w].n]]' =
      [w \in Writers |-> [r |-> ret[w].r, n |-> ret[w].n]]
  BY <1>1
<1>6. QED
  BY <1>2, <1>3, <1>4, <1>5 DEF Contract!wvars

LEMMA InitContract == Init => Contract!Init
  BY DEF Init, Contract!Init, Threads

\* A call that starts is a Begin.
LEMMA BeginImplements ==
  ASSUME SoleWriter, TypeOK, NEW w \in Writers, NEW sz \in WrSizes, SerWrite(w, sz)
  PROVE  Contract!Begin(w, sz)
<1>1. w \in Threads /\ \A v \in Writers : v = w
  BY DEF Threads, SoleWriter
<1>2. /\ pc[w] = "idle" /\ pc'[w] = "select" /\ call'[w].sz = sz
      /\ taken'[w] = 0 /\ ret' = ret
  BY <1>1 DEF SerWrite, EnterWait, TypeOK
<1>3. {v \in Writers : pc'[v] # "idle"} = {v \in Writers : pc[v] # "idle"} \cup {w}
  BY <1>1, <1>2
<1>4. QED
  BY <1>1, <1>2, <1>3 DEF Contract!Begin

\* A call that returns r and the n bytes the kernel has taken is a Finish.
LEMMA FinishImplements ==
  ASSUME SoleWriter, TypeOK, NEW w \in Writers, pc[w] # "idle",
         NEW k \in Nat, NEW r \in ReturnCodes,
         taken[w] + k <= call[w].sz,
         r = 0 => taken[w] + k = call[w].sz,
         Return(w, "write", r, taken[w] + k),
         call'[w].sz = call[w].sz, taken'[w] = taken[w] + k
  PROVE  Contract!Finish(w, k, r)
<1>1. w \in Threads /\ \A v \in Writers : v = w
  BY DEF Threads, SoleWriter
<1>2. pc'[w] = "idle" /\ ret'[w].r = r /\ ret'[w].n = taken[w] + k
  BY <1>1 DEF Return, TypeOK
<1>3. {v \in Writers : pc'[v] # "idle"} = {v \in Writers : pc[v] # "idle"} \ {w}
  BY <1>1, <1>2
<1>4. QED
  BY <1>1, <1>2, <1>3 DEF Contract!Finish

\* A call that goes on after the kernel took k more bytes is a Take.
LEMMA TakeImplements ==
  ASSUME SoleWriter, TypeOK, NEW w \in Writers, pc[w] # "idle", pc'[w] # "idle",
         NEW k \in Nat, taken[w] + k <= call[w].sz,
         call'[w].sz = call[w].sz, taken'[w] = taken[w] + k, ret' = ret
  PROVE  Contract!Take(w, k)
<1>1. \A v \in Writers : v = w
  BY DEF SoleWriter
<1>2. {v \in Writers : pc'[v] # "idle"} = {v \in Writers : pc[v] # "idle"}
  BY <1>1
<1>3. QED
  BY <1>1, <1>2 DEF Contract!Take

\* The kinds of step of a writer inside a call, when nothing goes wrong.
LEMMA SelectImplements ==
  ASSUME SoleWriter, WriterInv, NEW w \in Writers, Select(w)
  PROVE  Contract!Next \/ UNCHANGED Contract!wvars
<1>1. /\ w \in Threads /\ TypeOK /\ pc[w] = "select"
      /\ call[w].op = SER_OP_WR /\ SER_OP_WR # SER_OP_RD
      /\ call[w].sent = taken[w] /\ taken[w] <= call[w].sz
      /\ \A v \in Writers : v = w
  BY DEF WriterInv, Sending, Threads, Select, SelectReady, SelectExpires,
         SelectFails, ClockFails, SER_OP_WR, SER_OP_RD, SoleWriter
<1>2. taken[w] \in Nat /\ call \in [Threads -> Call] /\ call[w] \in Call
  BY <1>1 DEF TypeOK
<1>3. UNCHANGED taken
  BY DEF Select, SelectReady, SelectExpires, SelectFails, ClockFails, hist
<1>4. PICK r \in {0, SER_ETIMEDOUT, SER_EFAIL} : LeaveWait(w, r)
  BY ClockCode DEF Select, SelectReady, SelectExpires, SelectFails, ClockFails
<1>5. CASE r = 0
  <2>1. /\ pc' = [pc EXCEPT ![w] = "write"] /\ UNCHANGED ret
        /\ call' = [call EXCEPT ![w].timeout = TimeoutAfter(call[w])]
    BY <1>1, <1>4, <1>5 DEF LeaveWait
  <2>2. pc'[w] = "write" /\ call'[w].sz = call[w].sz
    BY <1>1, <1>2, <2>1 DEF TypeOK, Call
  <2>3. \A v \in Writers : UNCHANGED Seen(v)
    BY <1>1, <1>3, <2>1, <2>2 DEF Seen
  <2>4. QED
    BY <2>3, UnseenStutters
<1>6. CASE r # 0
  <2>1. r < 0 /\ r \in ReturnCodes
    BY <1>4, <1>6 DEF SER_ETIMEDOUT, SER_EFAIL, ReturnCodes
  <2>2. Return(w, "write", r, taken[w] + 0) /\ UNCHANGED call
    BY <1>1, <1>2, <1>4, <2>1 DEF LeaveWait
  <2>3. Contract!Finish(w, 0, r)
    BY <1>1, <1>2, <1>3, <1>6, <2>1, <2>2, FinishImplements
  <2>4. 0 \in 0..call[w].sz /\ r \in -8..0
    BY <1>2, <2>1 DEF Call, ReturnCodes
  <2>5. QED
    BY <2>3, <2>4 DEF Contract!Next
<1>7. QED
  BY <1>5, <1>6

LEMMA SyscallImplements ==
  ASSUME SoleWriter, WriterInv, faults = {}, NEW w \in Writers, WriteSyscall(w)
  PROVE  Contract!Next \/ UNCHANGED Contract!wvars
<1> DEFINE rest == call[w].sz - taken[w]
<1>1. /\ w \in Threads /\ TypeOK /\ pc[w] = "write" /\ online
      /\ txlen < TxCap /\ taken[w] <= call[w].sz
  BY DEF WriterInv, Sending, Room, Plugged, Threads, WriteSyscall
<1>2. /\ taken[w] \in Nat /\ call \in [Threads -> Call] /\ call[w] \in Call
      /\ call[w].sz \in Nat /\ txlen \in Nat
  BY <1>1, NumbersAssumption DEF TypeOK, Call
<1>3. SizeT(call[w].sz - call[w].sent) = rest /\ rest \in Nat
  BY <1>1, <1>2, WantsTheRest
<1>4. WriteErrors(rest) = {}
  BY <1>1, <1>2, NumbersAssumption DEF WriteErrors
<1>5. PICK n \in WriteCounts(rest) :
        taken' = [taken EXCEPT ![w] = @ + n] /\ AfterWrite(w, n, "none")
  BY <1>3, <1>4 DEF WriteSyscall
<1>6. n \in 0..rest /\ (n = 0 => rest = 0)
  BY <1>1, <1>2, <1>3, NumbersAssumption DEF WriteCounts, LeastOf
<1>7. SentAfter(call[w], n) = taken[w] + n
  BY <1>1, <1>6, WantsTheRest DEF SentAfter
<1>8. /\ taken'[w] = taken[w] + n /\ taken[w] + n <= call[w].sz
      /\ n \in 0..call[w].sz
  BY <1>1, <1>2, <1>5, <1>6 DEF TypeOK
<1>9. CASE WriteFinished(call[w], taken[w] + n, n, "none")
  <2>1. /\ Return(w, "write", 0, taken[w] + n)
        /\ call' = [call EXCEPT ![w].sent = taken[w] + n]
    BY <1>5, <1>7, <1>9 DEF AfterWrite
  <2>2. call'[w].sz = call[w].sz
    BY <1>1, <1>2, <2>1 DEF Call
  <2>3. taken[w] + n = call[w].sz
    BY <1>2, <1>6, <1>9 DEF WriteFinished
  <2>4. 0 \in ReturnCodes /\ 0 \in -8..0
    BY DEF ReturnCodes
  <2>5. Contract!Finish(w, n, 0)
    BY <1>1, <1>8, <2>1, <2>2, <2>3, <2>4, FinishImplements
  <2>6. QED
    BY <1>8, <2>4, <2>5 DEF Contract!Next
<1>10. CASE ~WriteFinished(call[w], taken[w] + n, n, "none")
  <2>1. EnterWait(w, [call[w] EXCEPT !.sent = taken[w] + n]) /\ UNCHANGED ret
    BY <1>5, <1>7, <1>10 DEF AfterWrite
  <2>2. pc'[w] = "select" /\ call'[w].sz = call[w].sz
    BY <1>1, <1>2, <2>1 DEF EnterWait, TypeOK, Call
  <2>3. n \in 1..call[w].sz
    BY <1>6, <1>8, <1>10 DEF WriteFinished
  <2>4. Contract!Take(w, n)
    BY <1>1, <1>8, <2>1, <2>2, TakeImplements
  <2>5. QED
    BY <2>3, <2>4 DEF Contract!Next
<1>11. QED
  BY <1>9, <1>10

LEMMA StepImplements ==
  ASSUME SoleWriter, WriterInv, [Next]_vars, faults = {}
  PROVE  Contract!Next \/ UNCHANGED Contract!wvars
<1>0. /\ TypeOK /\ Writers \subseteq Threads
      /\ \A v \in Writers : v \notin Readers /\ v \notin Controllers
  BY ThreadsAssumption DEF WriterInv, Threads
<1>1. ASSUME NEW t \in Threads \ Writers, Select(t)
      PROVE  \A w \in Writers : UNCHANGED Seen(w)
  BY <1>0, <1>1 DEF Select, SelectReady, SelectExpires, SelectFails, ClockFails,
                    LeaveWait, Return, Seen, TypeOK, hist
<1>2. ASSUME NEW t \in Readers, Read(t) PROVE \A w \in Writers : UNCHANGED Seen(w)
  BY <1>0, <1>2 DEF Read, SerReadWait, SerRead, SerAvailable, EnterWait, Return,
                    Seen, TypeOK, hist
<1>3. ASSUME NEW t \in Controllers, Control(t)
      PROVE  \A w \in Writers : UNCHANGED Seen(w)
  BY <1>0, <1>3 DEF Control, SerFlush, Return, Seen, TypeOK, hist
<1>4. ASSUME NEW t \in Threads, Tick(t) PROVE \A w \in Writers : UNCHANGED Seen(w)
  <2>1. call \in [Threads -> Call] /\ call[t] \in Call
    BY <1>0 DEF TypeOK
  <2>2. QED
    BY <1>0, <1>4, <2>1 DEF Tick, Seen, Call, hist
<1>5. CASE PeerSends \/ Drain \/ Unplug \/ UNCHANGED vars
  <2>1. \A w \in Writers : UNCHANGED Seen(w)
    BY <1>5 DEF PeerSends, Drain, Unplug, vars, Seen, hist
  <2>2. QED
    BY <2>1, UnseenStutters
<1>6. ASSUME NEW t \in Writers, Write(t) PROVE Contract!Next \/ UNCHANGED Contract!wvars
  BY <1>0, <1>6, BeginImplements, SyscallImplements DEF Write, Contract!Next
<1>7. QED
  BY <1>1, <1>2, <1>3, <1>4, <1>5, <1>6, SelectImplements, UnseenStutters
     DEF Next, Environment

\* With one writer on the instance, what ser_write hands to the kernel is its
\* caller's buffer, in order and no further, whatever the line, the cable, the
\* signals and the other threads do.
THEOREM OneWriterSendsItsBytes == ASSUME SoleWriter PROVE Spec => []OnlyCallerBytes
<1>1. WriterInv => OnlyCallerBytes
  BY DEF WriterInv, Sending, OnlyCallerBytes
<1>2. Spec => []WriterInv
  BY WriterInvariance
<1>3. QED
  BY <1>1, <1>2, PTL

\* With one writer on the instance, ser_write keeps the contract of comms.h in
\* every behaviour where the device stays and no signal comes.
THEOREM OneWriterKeepsContract ==
  ASSUME SoleWriter PROVE Spec => WritesToContract
<1>1. Init => (faults = {} => Contract!Init)
  BY InitContract
<1>2. WriterInv /\ [Next]_vars => [faults = {} => Contract!Next]_(Contract!wvars)
  BY StepImplements
<1>3. Spec => []WriterInv
  BY WriterInvariance
<1>4. QED
  BY <1>1, <1>2, <1>3, PTL DEF Spec, WritesToContract

-----------------------------------------------------------------------------
(***************************************************************************)
(* Readers.  A reader is idle or waits with the timeout of its port.       *)
(***************************************************************************)
Waits(t) ==
  /\ pc[t] # "write"
  /\ pc[t] = "select" => call[t].op = SER_OP_RD /\ call[t].timeout = timeouts.rd

\* A wait of c is one of the configured time, or of less than a second less.
Long(c) ==
  /\ c.timeout > 0
  /\ c.waited > c.timeout - Second
  /\ c.timeout <= MaxExact => c.waited >= c.timeout

Patient(t) ==
  Returned(t, "read_wait", SER_ETIMEDOUT) =>
    call[t].timeout = timeouts.rd /\ Long(call[t])

ReaderInv == TypeOK /\ \A t \in Readers : Waits(t) /\ Patient(t)

\* The timeval select() is given is the timeout, or shorter by less than a second.
LEMMA ExpiredIsLong ==
  ASSUME NEW c \in Call, Expired(c)
  PROVE  Long(c)
<1> DEFINE whole == (c.timeout \div Second) * Second
<1>1. PICK ms \in Remainders(c.timeout) : ms >= 0 /\ c.waited >= whole + ms
  BY DEF Expired
<1>2. /\ c.timeout \in Nat /\ c.timeout > 0 /\ c.waited \in Nat
      /\ Second \in Nat \ {0} /\ MaxExact \in Nat
  BY NumbersAssumption DEF Expired, TimedWait, Call
<1>3. /\ whole \in Int /\ whole > c.timeout - Second
      /\ whole + (c.timeout % Second) = c.timeout
      /\ c.timeout % Second \in Int
  BY <1>2
<1>4. CASE c.timeout <= MaxExact
  <2>1. ms = c.timeout % Second
    BY <1>1, <1>4 DEF Remainders
  <2> HIDE DEF whole
  <2>2. QED
    BY <1>1, <1>2, <1>3, <2>1 DEF Long
<1>5. CASE ~(c.timeout <= MaxExact)
  <2>1. ms \in (1 - Second)..(Second - 1)
    BY <1>1, <1>5 DEF Remainders
  <2> HIDE DEF whole
  <2>2. QED
    BY <1>1, <1>2, <1>3, <1>5, <2>1 DEF Long
<1>6. QED
  BY <1>4, <1>5

LEMMA FixedForever == [Next]_vars => UNCHANGED fixed
  BY DEF Next, Read, Write, Control, Environment, Select, SelectReady,
         SelectExpires, SelectFails, ClockFails, SerReadWait, SerRead, SerAvailable,
         SerFlush, SerWrite, WriteSyscall, PeerSends, Drain, Unplug, Tick, vars

\* Only a reader's own steps, and time, touch its locals and its results.
LEMMA ReaderIsAlone ==
  ASSUME TypeOK, [Next]_vars, NEW t \in Readers
  PROVE  Select(t) \/ Read(t) \/ Tick(t) \/ UNCHANGED <<pc[t], call[t], ret[t]>>
<1> DEFINE Untouched == UNCHANGED <<pc[t], call[t], ret[t]>>
<1>0. /\ t \in Threads /\ t \notin Writers /\ t \notin Controllers
      /\ Readers \subseteq Threads /\ Writers \subseteq Threads
  BY ThreadsAssumption DEF Threads
<1>1. ASSUME NEW u \in Threads, u # t, Select(u) PROVE Untouched
  BY <1>0, <1>1 DEF Select, SelectReady, SelectExpires, SelectFails, ClockFails,
                    LeaveWait, Return, TypeOK
<1>2. ASSUME NEW u \in Readers, u # t, Read(u) PROVE Untouched
  BY <1>0, <1>2 DEF Read, SerReadWait, SerRead, SerAvailable, EnterWait, Return,
                    TypeOK
<1>3. ASSUME NEW u \in Writers, Write(u) PROVE Untouched
  <2>1. ASSUME NEW now, NEW e, AfterWrite(u, now, e) PROVE Untouched
    BY <1>0, <2>1 DEF AfterWrite, EnterWait, Return, TypeOK
  <2>2. ASSUME NEW sz \in WrSizes, SerWrite(u, sz) PROVE Untouched
    BY <1>0, <2>2 DEF SerWrite, EnterWait, TypeOK
  <2>3. QED
    BY <1>3, <2>1, <2>2 DEF Write, WriteSyscall
<1>4. ASSUME NEW u \in Controllers, Control(u) PROVE Untouched
  BY <1>0, <1>4 DEF Control, SerFlush, Return, TypeOK
<1>5. ASSUME NEW u \in Threads, u # t, Tick(u) PROVE Untouched
  BY <1>0, <1>5 DEF Tick, TypeOK
<1>6. CASE PeerSends \/ Drain \/ Unplug \/ UNCHANGED vars
  BY <1>6 DEF PeerSends, Drain, Unplug, vars
<1>7. QED
  BY <1>1, <1>2, <1>3, <1>4, <1>5, <1>6 DEF Next, Environment

LEMMA ReaderInit == Init => ReaderInv
<1> SUFFICES ASSUME Init PROVE ReaderInv
  OBVIOUS
<1>1. ASSUME NEW t \in Readers PROVE Waits(t) /\ Patient(t)
  BY DEF Init, Waits, Patient, Returned, Threads
<1>2. QED
  BY <1>1, InitTypes DEF ReaderInv

LEMMA ReaderStep == ReaderInv /\ [Next]_vars => ReaderInv'
<1> SUFFICES ASSUME ReaderInv, [Next]_vars PROVE ReaderInv'
  OBVIOUS
<1>1. TypeOK /\ TypeOK' /\ timeouts' = timeouts
  BY TypesPreserved, FixedForever DEF ReaderInv, fixed
<1>2. ASSUME NEW t \in Readers PROVE Waits(t)' /\ Patient(t)'
  <2>0. t \in Threads /\ Waits(t) /\ Patient(t)
    BY DEF ReaderInv, Threads
  <2>1. call[t] \in Call /\ call'[t] \in Call
    BY <1>1, <2>0 DEF TypeOK
  <2>2. CASE Select(t)
    <3>1. PICK r : /\ pc[t] = "select" /\ LeaveWait(t, r)
                   /\ r = SER_ETIMEDOUT => Expired(call[t])
      BY <2>2, ClockCode DEF Select, SelectReady, SelectExpires, SelectFails,
           ClockFails, SER_ETIMEDOUT, SER_EFAIL
    <3>2. Return(t, "read_wait", r, 0) /\ UNCHANGED call
      BY <2>0, <3>1 DEF LeaveWait, Waits
    <3>3. pc'[t] = "idle" /\ ret'[t].r = r
      BY <1>1, <2>0, <3>2 DEF Return, TypeOK
    <3>4. r = SER_ETIMEDOUT => Long(call[t])
      BY <2>1, <3>1, ExpiredIsLong
    <3>5. QED
      BY <1>1, <2>0, <3>1, <3>2, <3>3, <3>4 DEF Waits, Patient, Returned
  <2>3. CASE SerReadWait(t)
    BY <1>1, <2>0, <2>3 DEF SerReadWait, EnterWait, TypeOK, Waits, Patient, Returned
  <2>4. CASE (\E sz \in RdSizes : SerRead(t, sz)) \/ SerAvailable(t)
    <3>1. pc'[t] = "idle" /\ ret'[t].op # "read_wait"
      BY <1>1, <2>0, <2>4 DEF SerRead, SerAvailable, Return, TypeOK
    <3>2. QED
      BY <3>1 DEF Waits, Patient, Returned
  <2>5. CASE Tick(t)
    <3>1. pc'[t] = "select" /\ call'[t].op = call[t].op
          /\ call'[t].timeout = call[t].timeout
      BY <1>1, <2>0, <2>1, <2>5 DEF Tick, TypeOK, Call
    <3>2. QED
      BY <1>1, <2>0, <2>5, <3>1 DEF Tick, Waits, Patient, Returned
  <2>6. CASE UNCHANGED <<pc[t], call[t], ret[t]>>
    BY <1>1, <2>0, <2>6 DEF Waits, Patient, Returned
  <2>7. QED
    BY <1>1, <2>2, <2>3, <2>4, <2>5, <2>6, ReaderIsAlone DEF Read
<1>3. QED
  BY <1>1, <1>2 DEF ReaderInv

\* ser_read_wait never reports a timeout without one; nor early while an int
\* holds the microseconds of the timeout, and never early by a second, however
\* many threads use the instance.
THEOREM TimeoutsAreTrue == Spec => []NoFalseTimeout
<1>1. ReaderInv => NoFalseTimeout
  BY DEF ReaderInv, Patient, Long, NoFalseTimeout
<1>2. QED
  BY <1>1, ReaderInit, ReaderStep, PTL DEF Spec

\* The device does not come back on the same descriptor.
LEMMA GoneForGood == [Next]_vars => (online' => online)
  BY DEF Next, Read, Write, Control, Environment, Select, SelectReady,
         SelectExpires, SelectFails, ClockFails, SerReadWait, SerRead, SerAvailable,
         SerFlush, SerWrite, WriteSyscall, PeerSends, Drain, Unplug, Tick, vars, port

LEMMA DisconnectStep ==
  ASSUME ReaderInv, DisconnectIsReal, [Next]_vars
  PROVE  DisconnectIsReal'
<1> SUFFICES ASSUME NEW t \in Readers, (pc[t] = "idle")', ret'[t].r = SER_EDISCONN
             PROVE  ~online' \/ (ret'[t].op = "read" /\ call'[t].sz = 0)
  BY DEF DisconnectIsReal
<1>0. /\ t \in Threads /\ TypeOK /\ Waits(t)
      /\ online' => online
  BY GoneForGood DEF ReaderInv, Threads
<1>1. /\ pc'[t] = "idle" /\ call \in [Threads -> Call] /\ call[t] \in Call
      /\ SER_EDISCONN # 0 /\ SER_EDISCONN # SER_ETIMEDOUT
      /\ SER_EDISCONN # SER_EFAIL
  BY <1>0 DEF TypeOK, SER_EDISCONN, SER_ETIMEDOUT, SER_EFAIL
<1>2. CASE UNCHANGED <<pc[t], call[t], ret[t]>>
  BY <1>0, <1>1, <1>2 DEF DisconnectIsReal
<1>3. ASSUME NEW sz \in RdSizes, SerRead(t, sz)
      PROVE  ~online' \/ (ret'[t].op = "read" /\ call'[t].sz = 0)
  <2> DEFINE got == ReadSyscall(sz)
  <2>1. ReadCode(got) = SER_EDISCONN /\ UNCHANGED online /\ ret'[t].op = "read"
    BY <1>0, <1>1, <1>3 DEF SerRead, Return, TypeOK
  <2>2. sz \in Nat /\ Len(rx) \in Nat /\ call'[t].sz = sz
    BY <1>0, <1>1, <1>3, NumbersAssumption DEF SerRead, TypeOK, Call
  <2>3. CASE online /\ sz # 0 /\ rx = <<>>
    <3>1. ReadCode(got) = ErrorSet("EAGAIN")
      BY <2>2, <2>3 DEF ReadSyscall, ReadCode
    <3>2. QED
      BY <2>1, <3>1 DEF ErrorSet, SER_EEMPTY, SER_EDISCONN
  <2>4. CASE online /\ sz # 0 /\ rx # <<>>
    <3>1. Len(rx) > 0
      BY <1>0, <2>2, <2>4, EmptySeq DEF TypeOK
    <3>2. got.n > 0
      BY <2>2, <2>4, <3>1 DEF ReadSyscall, LeastOf
    <3>3. QED
      BY <2>1, <3>2 DEF ReadCode, SER_EDISCONN
  <2>5. QED
    BY <2>1, <2>2, <2>3, <2>4
<1>4. CASE SerReadWait(t)
  BY <1>0, <1>1, <1>4 DEF SerReadWait, EnterWait, TypeOK
<1>5. CASE SerAvailable(t)
  BY <1>0, <1>1, <1>5 DEF SerAvailable, Return, TypeOK
<1>6. CASE Select(t)
  <2>1. PICK r \in {0, SER_ETIMEDOUT, SER_EFAIL} : pc[t] = "select" /\ LeaveWait(t, r)
    BY <1>6, ClockCode DEF Select, SelectReady, SelectExpires, SelectFails, ClockFails
  <2>2. ret'[t].r = r
    BY <1>0, <2>1 DEF LeaveWait, Return, TypeOK, Waits
  <2>3. QED
    BY <1>1, <2>2
<1>7. CASE Tick(t)
  BY <1>0, <1>1, <1>7 DEF Tick
<1>8. QED
  BY <1>0, <1>2, <1>3, <1>4, <1>5, <1>6, <1>7, ReaderIsAlone DEF Read

\* A reader is told of a disconnection only when the device is gone, whatever it
\* calls, or by a ser_read of no bytes.
THEOREM DisconnectionsAreReal == Spec => []DisconnectIsReal
<1>1. Init => DisconnectIsReal
  BY DEF Init, DisconnectIsReal, Threads, SER_EDISCONN
<1>2. ReaderInv /\ DisconnectIsReal /\ [Next]_vars => DisconnectIsReal'
  BY DisconnectStep
<1>3. QED
  BY <1>1, <1>2, ReaderInit, ReaderStep, PTL DEF Spec

SoleReader == Controllers = {} /\ \A t, u \in Readers : t = u

\* There is something for ser_read to say.
Readable == ~online \/ rx # <<>>

LEMMA ReadableIsRead ==
  ASSUME TypeOK
  PROVE  ReadCode(ReadSyscall(1)) # SER_EEMPTY <=> Readable
<1>1. CASE online /\ rx = <<>>
  BY <1>1 DEF ReadCode, ReadSyscall, Readable, ErrorSet, SER_EEMPTY
<1>2. CASE online /\ rx # <<>>
  <2>1. Len(rx) > 0
    BY <1>2, EmptySeq DEF TypeOK
  <2>2. ReadSyscall(1).n > 0
    BY <1>2, <2>1 DEF ReadSyscall, LeastOf
  <2>3. QED
    BY <1>2, <2>2 DEF ReadCode, Readable, SER_EEMPTY
<1>3. CASE ~online
  BY <1>3 DEF ReadCode, ReadSyscall, Readable, ErrorSet, SER_EEMPTY, SER_EDISCONN
<1>4. QED
  BY <1>1, <1>2, <1>3

Told(t) == Returned(t, "read_wait", 0) => Readable

\* Only the reader itself takes bytes out of the queue.
LEMMA ReadableStays ==
  ASSUME SoleReader, TypeOK, [Next]_vars, Readable, NEW t \in Readers
  PROVE  Readable' \/ \E sz \in RdSizes : SerRead(t, sz)
<1>0. \A u \in Readers : u = t
  BY DEF SoleReader
<1>1. CASE UNCHANGED <<online, rx>>
  BY <1>1 DEF Readable
<1>2. ASSUME NEW u \in Threads, Select(u) \/ WriteSyscall(u) \/ Tick(u)
                               \/ SerReadWait(u) \/ SerAvailable(u)
      PROVE  UNCHANGED <<online, rx>>
  BY <1>2 DEF Select, SelectReady, SelectExpires, SelectFails, ClockFails, WriteSyscall,
              Tick, SerReadWait, SerAvailable, port
<1>3. ASSUME NEW u \in Writers, NEW sz \in WrSizes, SerWrite(u, sz)
      PROVE  UNCHANGED <<online, rx>>
  BY <1>3 DEF SerWrite, port
<1>4. CASE PeerSends
  <2>1. Append(rx, nrx + 1) # <<>>
    <3>1. rx \in Seq(1..MaxRx) /\ nrx + 1 \in 1..MaxRx
      BY <1>4, NumbersAssumption DEF PeerSends, TypeOK
    <3>2. Len(Append(rx, nrx + 1)) = Len(rx) + 1 /\ Len(rx) \in Nat
      BY <3>1
    <3>3. QED
      BY <3>2, EmptySeq
  <2>2. QED
    BY <1>4, <2>1 DEF PeerSends, Readable
<1>5. CASE Unplug
  BY <1>5 DEF Unplug, Readable
<1>6. CASE Drain \/ UNCHANGED vars
  BY <1>1, <1>6 DEF Drain, vars, port
<1>7. QED
  BY <1>0, <1>1, <1>2, <1>3, <1>4, <1>5, <1>6
     DEF Next, Read, Write, Environment, Threads, SoleReader

LEMMA ToldStep ==
  ASSUME SoleReader, ReaderInv, NEW t \in Readers, Told(t), [Next]_vars
  PROVE  Told(t)'
<1> SUFFICES ASSUME Returned(t, "read_wait", 0)' PROVE Readable'
  BY DEF Told
<1>0. t \in Threads /\ TypeOK /\ Waits(t)
  BY DEF ReaderInv, Threads
<1>1. pc'[t] = "idle" /\ ret'[t].op = "read_wait" /\ ret'[t].r = 0
  BY DEF Returned
<1>2. ~ \E sz \in RdSizes : SerRead(t, sz)
  BY <1>0, <1>1 DEF SerRead, Return, TypeOK
<1>3. Readable => Readable'
  BY <1>0, <1>2, ReadableStays
<1>4. CASE UNCHANGED <<pc[t], call[t], ret[t]>>
  BY <1>1, <1>3, <1>4 DEF Told, Returned
<1>5. CASE Select(t)
  <2>1. PICK r : /\ LeaveWait(t, r) /\ UNCHANGED port
                 /\ r = 0 => Ready(call[t].op)
                 /\ call[t].op = SER_OP_RD
    BY <1>0, <1>5, ClockCode DEF Select, SelectReady, SelectExpires, SelectFails,
         ClockFails, Waits, SER_ETIMEDOUT, SER_EFAIL
  <2>2. r = 0
    BY <1>0, <1>1, <2>1 DEF LeaveWait, Return, TypeOK
  <2>3. QED
    BY <2>1, <2>2 DEF Ready, Readable, port
<1>6. CASE SerReadWait(t) \/ SerAvailable(t) \/ Tick(t)
  BY <1>0, <1>1, <1>6 DEF SerReadWait, SerAvailable, Tick, EnterWait, Return, TypeOK
<1>7. QED
  BY <1>0, <1>2, <1>4, <1>5, <1>6, ReaderIsAlone DEF Read

\* A sole reader that ser_read_wait tells the port is ready, and whose queues
\* nobody flushes, finds a byte in it or learns of the hang up.
THEOREM ReadyIsReadable == ASSUME SoleReader PROVE Spec => []ReadyMeansReadable
<1> DEFINE Inv == ReaderInv /\ \A t \in Readers : Told(t)
<1>1. Init => Inv
  BY ReaderInit DEF Init, Told, Returned, Threads
<1>2. Inv /\ [Next]_vars => Inv'
  <2> SUFFICES ASSUME Inv, [Next]_vars PROVE Inv'
    OBVIOUS
  <2>1. \A t \in Readers : Told(t)'
    BY ToldStep
  <2>2. QED
    BY <2>1, ReaderStep
<1>3. Inv => ReadyMeansReadable
  <2>1. Inv => TypeOK /\ \A t \in Readers : Told(t)
    BY DEF ReaderInv
  <2>2. QED
    BY <2>1, ReadableIsRead DEF ReadyMeansReadable, Told
<1>4. QED
  BY <1>1, <1>2, <1>3, PTL DEF Spec

-----------------------------------------------------------------------------
(***************************************************************************)
(* The arithmetic of a wait, which PosixSerial counts in milliseconds.     *)
(***************************************************************************)
\* The members of a time, and times from their members.
LEMMA TimespecMembers ==
  /\ \A t \in Timespec : /\ t.tv_sec \in Int /\ t.tv_nsec \in Int
                        /\ 0 <= t.tv_nsec /\ t.tv_nsec < NsPerSec
  /\ \A sec \in Int, nsec \in Int :
       0 <= nsec /\ nsec < NsPerSec =>
         [tv_sec |-> sec, tv_nsec |-> nsec] \in Timespec
<1>1. NsPerSec \in Int
  BY SMT DEF NsPerSec
<1> QED
  BY <1>1, SMT DEF Timespec

\* clock__diff returns a normalised time, and it is the exact difference.
THEOREM DiffIsExact ==
  ASSUME NEW a \in Timespec, NEW b \in Timespec
  PROVE  /\ ClockDiff(a, b) \in Timespec
         /\ Nanos(ClockDiff(a, b)) = Nanos(a) - Nanos(b)
<1>1. /\ a.tv_sec \in Int /\ a.tv_nsec \in Int
      /\ 0 <= a.tv_nsec /\ a.tv_nsec < NsPerSec
      /\ b.tv_sec \in Int /\ b.tv_nsec \in Int
      /\ 0 <= b.tv_nsec /\ b.tv_nsec < NsPerSec
  BY TimespecMembers, SMT
<1>2. CASE a.tv_nsec - b.tv_nsec < 0
  <2>1. ClockDiff(a, b) = [tv_sec |-> a.tv_sec - b.tv_sec - 1,
                           tv_nsec |-> a.tv_nsec - b.tv_nsec + NsPerSec]
    BY <1>2, SMT DEF ClockDiff
  <2>2. ClockDiff(a, b) \in Timespec
    BY <1>1, <1>2, <2>1, TimespecMembers, SMT DEF NsPerSec
  <2> QED
    BY <1>1, <2>1, <2>2, SMT DEF Nanos, NsPerSec
<1>3. CASE ~(a.tv_nsec - b.tv_nsec < 0)
  <2>1. ClockDiff(a, b) = [tv_sec |-> a.tv_sec - b.tv_sec,
                           tv_nsec |-> a.tv_nsec - b.tv_nsec]
    BY <1>3, SMT DEF ClockDiff
  <2>2. ClockDiff(a, b) \in Timespec
    BY <1>1, <1>3, <2>1, TimespecMembers, SMT DEF NsPerSec
  <2> QED
    BY <1>1, <2>1, <2>2, SMT DEF Nanos, NsPerSec
<1> QED
  BY <1>2, <1>3

\* The time spent that port_wait_ready leaves in *timeout is what has elapsed,
\* in whole milliseconds, rounded down.
THEOREM SpentIsElapsed ==
  ASSUME NEW start \in Timespec, NEW end \in Timespec
  PROVE  LET spent   == TimeSpent(ClockDiff(end, start))
             elapsed == Nanos(end) - Nanos(start)
         IN /\ spent \in Int
            /\ spent * NsPerMs <= elapsed /\ elapsed < (spent + 1) * NsPerMs
<1> DEFINE diff == ClockDiff(end, start)
<1>1. diff \in Timespec /\ Nanos(diff) = Nanos(end) - Nanos(start)
  BY DiffIsExact
<1>2. /\ diff.tv_sec \in Int /\ diff.tv_nsec \in Int
      /\ 0 <= diff.tv_nsec /\ diff.tv_nsec < NsPerSec
  BY <1>1, TimespecMembers
<1> HIDE DEF diff
<1>3. PICK ms \in Int : /\ ms = diff.tv_nsec \div 1000000
                        /\ ms * 1000000 <= diff.tv_nsec
                        /\ diff.tv_nsec < (ms + 1) * 1000000
  BY <1>2, SMT
<1>4. TimeSpent(diff) = diff.tv_sec * 1000 + ms
  BY <1>2, <1>3, SMT DEF TimeSpent, NsPerMs
<1>5. /\ TimeSpent(diff) \in Int
      /\ TimeSpent(diff) * NsPerMs <= Nanos(diff)
      /\ Nanos(diff) < (TimeSpent(diff) + 1) * NsPerMs
  BY <1>2, <1>3, <1>4, SMT DEF Nanos, NsPerSec, NsPerMs
<1> QED
  BY <1>1, <1>5, SMT DEF diff

\* A wait that ends within a millisecond leaves a *timeout of 0, which the next
\* wait of the same ser_write takes for no timeout.
COROLLARY ShortWaitForgetsTimeout ==
  ASSUME NEW start \in Timespec, NEW end \in Timespec,
         Nanos(start) <= Nanos(end), Nanos(end) < Nanos(start) + NsPerMs
  PROVE  TimeSpent(ClockDiff(end, start)) = 0
<1> DEFINE spent == TimeSpent(ClockDiff(end, start))
<1>1. /\ spent \in Int
      /\ spent * NsPerMs <= Nanos(end) - Nanos(start)
      /\ Nanos(end) - Nanos(start) < (spent + 1) * NsPerMs
  BY SpentIsElapsed
<1>2. Nanos(start) \in Int /\ Nanos(end) \in Int
  BY TimespecMembers, SMT DEF Nanos, NsPerSec
<1> HIDE DEF spent
<1>3. spent = 0
  BY <1>1, <1>2, SMT DEF NsPerMs
<1> QED
  BY <1>3, SMT DEF spent

\* select() waits for exactly the timeout asked for, as long as it is below
\* 2147484 ms, some 36 minutes: from there on the product overflows.
THEOREM TimeValIsExact ==
  ASSUME NEW timeout \in Nat
  PROVE  /\ Representable(timeout) <=> timeout < 2147484
         /\ 0 <= TimeVal(timeout).tv_usec /\ TimeVal(timeout).tv_usec < 1000000
         /\ Micros(TimeVal(timeout)) = timeout * 1000
<1>1. Representable(timeout) <=> timeout < 2147484
  BY SMT DEF Representable, IntMax
<1>2. PICK q \in Int, r \in Int :
        /\ q = timeout \div 1000
        /\ r * 1000 = (timeout * 1000) % 1000000
        /\ 0 <= r /\ r < 1000 /\ timeout = 1000 * q + r
  BY SMT
<1>3. TimeVal(timeout) = [tv_sec |-> q, tv_usec |-> r * 1000]
  BY <1>2, SMT DEF TimeVal
<1>4. Micros(TimeVal(timeout)) = timeout * 1000
  BY <1>2, <1>3, SMT DEF Micros
<1>5. 0 <= TimeVal(timeout).tv_usec /\ TimeVal(timeout).tv_usec < 1000000
  BY <1>2, <1>3, SMT
<1> QED
  BY <1>1, <1>4, <1>5, SMT
=============================================================================
