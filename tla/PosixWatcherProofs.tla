-------------------------- MODULE PosixWatcherProofs --------------------------
(***************************************************************************)
(* Theorems about the client of PosixWatcher, for any number of bytes and  *)
(* any timeout, and for any number of watchers that print to one output.   *)
(* They rest on what PosixSerialProofs shows of the readers of a port.     *)
(***************************************************************************)
EXTENDS PosixWatcher, PosixSerialProofs

\* The kernel's input queue has room for all the peer sends: it drops none.
QueueIsLarge == MaxRx <= RxCap

-----------------------------------------------------------------------------
(***************************************************************************)
(* A byte that moves from a queue to what has been taken out of it.        *)
(***************************************************************************)
LEMMA ByteMoves ==
  ASSUME NEW S, NEW p \in Seq(S), NEW q \in Seq(S), q # <<>>
  PROVE  Append(p, Head(q)) \o Tail(q) = p \o q
<1>1. /\ Head(q) \in S /\ Tail(q) \in Seq(S) /\ Len(Tail(q)) = Len(q) - 1
      /\ \A i \in 1..Len(Tail(q)) : Tail(q)[i] = q[i + 1]
      /\ Len(q) \in Nat \ {0} /\ Len(p) \in Nat /\ Head(q) = q[1]
  BY HeadTailProperties, EmptySeq, LenProperties
<1>2. /\ Append(p, Head(q)) \in Seq(S) /\ Len(Append(p, Head(q))) = Len(p) + 1
      /\ \A i \in 1..Len(p) : Append(p, Head(q))[i] = p[i]
      /\ Append(p, Head(q))[Len(p) + 1] = Head(q)
  BY <1>1, AppendProperties
<1> DEFINE a == Append(p, Head(q))
           b == Tail(q)
<1> HIDE DEF a, b
<1>3. /\ a \o b \in Seq(S) /\ Len(a \o b) = Len(p) + Len(q)
      /\ \A i \in 1..Len(p) + Len(q) :
           (a \o b)[i] = IF i <= Len(p) + 1 THEN a[i] ELSE b[i - (Len(p) + 1)]
  BY <1>1, <1>2, ConcatProperties DEF a, b
<1>4. /\ p \o q \in Seq(S) /\ Len(p \o q) = Len(p) + Len(q)
      /\ \A i \in 1..Len(p) + Len(q) :
           (p \o q)[i] = IF i <= Len(p) THEN p[i] ELSE q[i - Len(p)]
  BY ConcatProperties
<1>5. ASSUME NEW i \in 1..Len(p) + Len(q) PROVE (a \o b)[i] = (p \o q)[i]
  <2>1. CASE i <= Len(p)
    BY <1>1, <1>2, <1>3, <1>4, <2>1 DEF a
  <2>2. CASE i = Len(p) + 1
    BY <1>1, <1>2, <1>3, <1>4, <2>2 DEF a
  <2>3. CASE i > Len(p) + 1
    <3>1. i - (Len(p) + 1) \in 1..Len(b)
      BY <1>1, <2>3 DEF b
    <3>2. b[i - (Len(p) + 1)] = q[i - Len(p)]
      BY <1>1, <3>1 DEF b
    <3>3. (a \o b)[i] = b[i - (Len(p) + 1)]
      BY <1>1, <1>3, <2>3
    <3>4. (p \o q)[i] = q[i - Len(p)]
      BY <1>1, <1>4, <2>3
    <3> QED
      BY <3>2, <3>3, <3>4
  <2>4. i <= Len(p) \/ i = Len(p) + 1 \/ i > Len(p) + 1
    <3>1. Len(p) \in Nat /\ i \in Int
      BY <1>1
    <3> QED
      BY ONLY <3>1
  <2> QED
    BY <2>1, <2>2, <2>3, <2>4
<1> QED
  BY <1>3, <1>4, <1>5, SeqEqual DEF a, b

Numbered(n) == [i \in 1..n |-> i]

\* The next byte is appended to the queue.
LEMMA ByteArrives ==
  ASSUME NEW n \in Nat, NEW p \in Seq(Nat), NEW q \in Seq(Nat),
         p \o q = Numbered(n)
  PROVE  p \o Append(q, n + 1) = Numbered(n + 1)
<1> DEFINE r == Append(q, n + 1)
<1>1. /\ Len(p) \in Nat /\ Len(q) \in Nat
      /\ Len(p \o q) = Len(p) + Len(q)
      /\ \A i \in 1..Len(p) + Len(q) :
           (p \o q)[i] = IF i <= Len(p) THEN p[i] ELSE q[i - Len(p)]
  BY ConcatProperties, LenProperties
<1>2. Len(Numbered(n)) = n /\ \A i \in 1..n : Numbered(n)[i] = i
  BY DEF Numbered
<1>3. Len(p) + Len(q) = n
  BY <1>1, <1>2
<1>4. /\ r \in Seq(Nat) /\ Len(r) = Len(q) + 1 /\ r[Len(q) + 1] = n + 1
      /\ \A i \in 1..Len(q) : r[i] = q[i]
  BY AppendProperties
<1> HIDE DEF r
<1>5. /\ p \o r \in Seq(Nat) /\ Len(p \o r) = n + 1
      /\ \A i \in 1..n + 1 :
           (p \o r)[i] = IF i <= Len(p) THEN p[i] ELSE r[i - Len(p)]
  <2>1. Len(p) + Len(r) = n + 1
    BY <1>1, <1>3, <1>4
  <2>2. /\ p \o r \in Seq(Nat) /\ Len(p \o r) = Len(p) + Len(r)
        /\ \A i \in 1..Len(p) + Len(r) :
             (p \o r)[i] = IF i <= Len(p) THEN p[i] ELSE r[i - Len(p)]
    BY <1>4, ConcatProperties
  <2> QED
    BY <2>1, <2>2
<1>6. ASSUME NEW i \in 1..n + 1 PROVE (p \o r)[i] = i
  <2>1. CASE i <= Len(p)
    BY <1>1, <1>2, <1>3, <1>5, <2>1
  <2>2. CASE i > Len(p) /\ i <= n
    <3>1. i - Len(p) \in 1..Len(q)
      BY <1>1, <1>3, <2>2
    <3>2. (p \o r)[i] = r[i - Len(p)]
      BY <1>1, <1>5, <2>2
    <3>3. (p \o q)[i] = q[i - Len(p)] /\ Numbered(n)[i] = i
      BY <1>1, <1>2, <1>3, <2>2
    <3>4. r[i - Len(p)] = q[i - Len(p)]
      BY <1>4, <3>1
    <3> QED
      BY <3>2, <3>3, <3>4
  <2>3. CASE i = n + 1
    <3>1. i - Len(p) = Len(q) + 1 /\ ~(i <= Len(p))
      BY <1>1, <1>3, <2>3
    <3> QED
      BY <1>4, <1>5, <2>3, <3>1
  <2>4. i <= Len(p) \/ (i > Len(p) /\ i <= n) \/ i = n + 1
    <3>1. Len(p) \in Nat /\ i \in 1..n + 1
      BY <1>1
    <3> QED
      BY ONLY <3>1, n \in Nat
  <2> QED
    BY <2>1, <2>2, <2>3, <2>4
<1>7. /\ Numbered(n + 1) \in Seq(Nat) /\ Len(Numbered(n + 1)) = n + 1
      /\ \A i \in 1..n + 1 : Numbered(n + 1)[i] = i
  BY DEF Numbered
<1> QED
  BY <1>5, <1>6, <1>7, SeqEqual DEF r

-----------------------------------------------------------------------------
(***************************************************************************)
(* The invariant: the reader's, the types, and the stream.                 *)
(***************************************************************************)
WatchPlaces == {"read", "wait", "waiting", "done", "failed"}

WInv ==
  /\ ReaderInv
  /\ watch \in [Readers -> WatchPlaces]
  /\ printed \in Seq(1..MaxRx)
  /\ StreamIntact

\* A step of the watcher is one of the port: it reads one byte at a time.
LEMMA WatcherStepsPort == ASSUME [WNext]_watchvars PROVE [Next]_vars
<1>1. Readers \subseteq Threads
  BY DEF Threads
<1> QED
  BY <1>1, WatcherAssumption
     DEF WNext, Watch, WatchRead, WatchWait, WatchWaited, SelectAnswers, TimePasses,
         PortChanges, watchvars, Next, Read, Environment

\* What ser_read does when it is asked for one byte.
LEMMA ReadsOneByte ==
  ASSUME TypeOK, NEW t \in Readers, SerRead(t, 1)
  PROVE  /\ UNCHANGED <<online, nrx>>
         /\ \/ online /\ rx = <<>> /\ rx' = rx /\ ret'[t].r = SER_EEMPTY
            \/ ~online /\ rx' = rx /\ ret'[t].r = SER_EDISCONN
            \/ online /\ rx # <<>> /\ rx' = Tail(rx) /\ ret'[t].r = 0
<1> DEFINE got == ReadSyscall(1)
<1>1. /\ UNCHANGED <<online, nrx>> /\ ret'[t].r = ReadCode(got)
      /\ rx' = IF got.n > 0 THEN SubSeq(rx, got.n + 1, Len(rx)) ELSE rx
  BY DEF SerRead, Return, TypeOK, Threads
<1>2. CASE online /\ rx = <<>>
  BY <1>1, <1>2 DEF ReadSyscall, ReadCode, ErrorSet, SER_EEMPTY
<1>3. CASE ~online
  BY <1>1, <1>3 DEF ReadSyscall, ReadCode, ErrorSet, SER_EDISCONN
<1>4. CASE online /\ rx # <<>>
  <2>1. rx \in Seq(1..MaxRx) /\ Len(rx) \in Nat /\ Len(rx) > 0
    BY <1>4, EmptySeq DEF TypeOK
  <2>2. got.n = 1
    <3>1. LeastOf(1, Len(rx)) = 1
      BY <2>1 DEF LeastOf
    <3> QED
      BY <1>4, <3>1 DEF ReadSyscall
  <2>3. Tail(rx) = SubSeq(rx, 2, Len(rx))
    BY <1>4, <2>1, TailIsSubSeq
  <2> QED
    BY <1>1, <1>4, <2>2, <2>3 DEF ReadCode
<1> QED
  BY <1>1, <1>2, <1>3, <1>4

\* The length of the queue, with what was printed, is that of the stream.
LEMMA StreamLength ==
  ASSUME WInv, online
  PROVE  Len(printed) + Len(rx) = nrx /\ Len(printed) \in Nat /\ Len(rx) \in Nat
<1>1. rx \in Seq(1..MaxRx) /\ printed \in Seq(1..MaxRx) /\ nrx \in Nat
  BY NumbersAssumption DEF WInv, ReaderInv, TypeOK
<1>2. Len(printed \o rx) = Len(printed) + Len(rx)
  BY <1>1, ConcatProperties
<1>3. Len([i \in 1..nrx |-> i]) = nrx
  BY <1>1
<1> QED
  BY <1>1, <1>2, <1>3 DEF WInv, StreamIntact

LEMMA WInitEstablishes == WInit => WInv
<1> SUFFICES ASSUME WInit PROVE WInv
  OBVIOUS
<1>1. ReaderInv /\ watch \in [Readers -> WatchPlaces] /\ printed \in Seq(1..MaxRx)
  BY ReaderInit DEF WInit, WatchPlaces
<1>2. <<>> \o <<>> = <<>> /\ [i \in 1..0 |-> i] = <<>>
  BY SMT
<1> QED
  BY <1>1, <1>2 DEF WInit, Init, WInv, StreamIntact

LEMMA WStepPreserves ==
  ASSUME QueueIsLarge, WInv, [WNext]_watchvars
  PROVE  WInv'
<1>1. ReaderInv /\ ReaderInv' /\ TypeOK /\ (online' => online)
  BY WatcherStepsPort, ReaderStep, GoneForGood DEF WInv, ReaderInv
<1>2. /\ printed \in Seq(1..MaxRx) /\ rx \in Seq(1..MaxRx) /\ nrx \in Nat
      /\ watch \in [Readers -> WatchPlaces] /\ StreamIntact
  BY <1>1, NumbersAssumption DEF WInv, TypeOK
<1> DEFINE Kept == /\ watch' \in [Readers -> WatchPlaces]
                   /\ printed' \in Seq(1..MaxRx) /\ StreamIntact'
<1> SUFFICES Kept
  BY <1>1 DEF WInv
<1>3. ASSUME UNCHANGED <<printed, rx, nrx>>, watch' \in [Readers -> WatchPlaces]
      PROVE  Kept
  BY <1>1, <1>2, <1>3 DEF StreamIntact
<1>4. ASSUME NEW t \in Readers, WatchRead(t) PROVE Kept
  <2>1. /\ printed' = PrintedAfter(ret'[t].r)
        /\ watch' = [watch EXCEPT ![t] = AfterRead(ret'[t].r)]
        /\ SerRead(t, 1)
    BY <1>4 DEF WatchRead
  <2>2. watch' \in [Readers -> WatchPlaces]
    BY <1>2, <2>1 DEF AfterRead, WatchPlaces
  <2>3. CASE ret'[t].r # 0
    <3>1. UNCHANGED <<printed, rx, nrx>>
      BY <1>1, <2>1, <2>3, ReadsOneByte DEF PrintedAfter
    <3> QED
      BY <1>3, <2>2, <3>1
  <2>4. CASE ret'[t].r = 0
    <3>1. /\ online /\ rx # <<>> /\ rx' = Tail(rx) /\ nrx' = nrx
          /\ printed' = Append(printed, Head(rx))
      BY <1>1, <2>1, <2>4, ReadsOneByte DEF PrintedAfter, SER_EEMPTY, SER_EDISCONN
    <3>2. printed' \o rx' = printed \o rx
      BY <1>2, <3>1, ByteMoves
    <3>3. printed' \in Seq(1..MaxRx)
      BY <1>2, <3>1, HeadTailProperties, AppendProperties
    <3> QED
      BY <1>2, <2>2, <3>1, <3>2, <3>3 DEF StreamIntact
  <2> QED
    BY <2>3, <2>4
<1>5. ASSUME NEW t \in Readers, WatchWait(t) \/ WatchWaited(t) PROVE Kept
  BY <1>2, <1>3, <1>5
     DEF WatchWait, WatchWaited, SerReadWait, AfterWait, WatchPlaces, vars, port
<1>6. ASSUME NEW t \in Readers, SelectAnswers(t) \/ TimePasses(t) PROVE Kept
  BY <1>2, <1>3, <1>6
     DEF SelectAnswers, TimePasses, Select, SelectReady, SelectExpires,
         SelectFails, ClockFails, Tick, port
<1>7. CASE PortChanges
  <2>1. UNCHANGED <<watch, printed>>
    BY <1>7 DEF PortChanges
  <2>2. CASE Unplug
    BY <1>2, <2>1, <2>2 DEF Unplug, StreamIntact
  <2>3. CASE PeerSends
    <3>1. /\ online /\ nrx < MaxRx /\ nrx' = nrx + 1 /\ Len(rx) < RxCap
      BY <2>3, <1>2, StreamLength, NumbersAssumption DEF PeerSends, QueueIsLarge
    <3>2. rx' = Append(rx, nrx + 1)
      BY <2>3, <3>1 DEF PeerSends
    <3>3. printed \in Seq(Nat) /\ rx \in Seq(Nat)
      BY <1>2, SeqMonotonic, NumbersAssumption
    <3>4. printed \o Append(rx, nrx + 1) = Numbered(nrx + 1)
      BY <1>2, <3>1, <3>3, ByteArrives DEF StreamIntact, Numbered
    <3> QED
      BY <1>2, <2>1, <3>1, <3>2, <3>4 DEF StreamIntact, Numbered
  <2> QED
    BY <1>7, <2>2, <2>3 DEF PortChanges
<1>8. CASE UNCHANGED watchvars
  BY <1>2, <1>3, <1>8 DEF watchvars, vars, port
<1> QED
  BY <1>4, <1>5, <1>6, <1>7, <1>8 DEF WNext, Watch

\* The watchers of a port whose queue is large enough print what was sent, in
\* order, each byte once, whatever falls between ser_read and ser_read_wait.
THEOREM StreamIsIntact == ASSUME QueueIsLarge PROVE WSpec => []StreamIntact
<1>1. WInv => StreamIntact
  BY DEF WInv
<1>2. QED
  BY <1>1, WInitEstablishes, WStepPreserves, PTL DEF WSpec

-----------------------------------------------------------------------------
(***************************************************************************)
(* Giving up.                                                              *)
(***************************************************************************)
LEMMA GivesUpStep ==
  ASSUME WInv, WNext, NEW t \in Readers,
         pc[t] = "select", ret'[t].op = "read_wait",
         ret'[t].r = SER_ETIMEDOUT, pc'[t] = "idle"
  PROVE  Len(printed) = nrx
<1>1. /\ t \in Threads /\ TypeOK /\ Waits(t) /\ call[t].op = SER_OP_RD
  BY DEF WInv, ReaderInv, Threads, Waits
<1>2. Readers \subseteq Threads
  BY DEF Threads
<1>3. ASSUME NEW u \in Readers, Watch(u) PROVE FALSE
  <2>1. CASE u = t
    BY <1>3, <2>1 DEF Watch, WatchRead, WatchWait, WatchWaited, SerRead, SerReadWait,
                      vars
  <2>2. CASE u # t
    BY <1>1, <1>2, <1>3, <2>2
       DEF Watch, WatchRead, WatchWait, WatchWaited, SerRead, SerReadWait, EnterWait,
           Return, TypeOK, vars
  <2> QED
    BY <2>1, <2>2
<1>4. ~PortChanges
  BY DEF PortChanges, PeerSends, Unplug
<1>5. ASSUME NEW u \in Readers PROVE ~TimePasses(u)
  BY DEF TimePasses, Tick
<1>6. PICK u \in Readers : Select(u)
  BY <1>3, <1>4, <1>5 DEF WNext, SelectAnswers
<1>7. u = t
  BY <1>1, <1>2, <1>6 DEF Select, SelectReady, SelectExpires, SelectFails, ClockFails,
                          LeaveWait, Return, TypeOK
<1>8. PICK r : /\ LeaveWait(t, r)
               /\ r = SER_ETIMEDOUT => ~Ready(SER_OP_RD)
  BY <1>1, <1>6, <1>7, ClockCode
     DEF Select, SelectReady, SelectExpires, SelectFails, ClockFails,
         SER_ETIMEDOUT, SER_EFAIL
<1>9. r = SER_ETIMEDOUT
  BY <1>1, <1>8 DEF LeaveWait, Return, TypeOK
<1>10. online /\ rx = <<>>
  BY <1>8, <1>9 DEF Ready
<1> QED
  BY <1>10, StreamLength

\* When ser_read_wait gives up on a watcher nothing is left to print, of all
\* that was sent until then: the timeout is true at the instant it is reported.
THEOREM NothingIsLeft == ASSUME QueueIsLarge PROVE WSpec => GivesUpWhenDrained
<1> DEFINE Drained == \A t \in Readers :
                        pc[t] = "select" /\ ret'[t].op = "read_wait"
                          /\ ret'[t].r = SER_ETIMEDOUT /\ pc'[t] = "idle"
                        => Len(printed) = nrx
<1>1. WInv /\ [WNext]_watchvars => [Drained]_watchvars
  BY GivesUpStep
<1>2. QED
  BY <1>1, WInitEstablishes, WStepPreserves, PTL DEF WSpec, GivesUpWhenDrained

-----------------------------------------------------------------------------
(***************************************************************************)
(* Failing.  Where select() and the clock do not fail, by a signal or by   *)
(* the overflow of a timeout, the wait has two answers.                    *)
(***************************************************************************)
NoFailedWait ==
  /\ \A f \in FaultChoices : "signal" \notin f /\ "clock" \notin f
  /\ \A x \in Timeouts : x.rd <= MaxExact

Answered(t) ==
  watch[t] = "waiting" /\ pc[t] = "idle" => ret[t].r \in {0, SER_ETIMEDOUT}

FailInv ==
  /\ ReaderInv
  /\ watch \in [Readers -> WatchPlaces]
  /\ \A t \in Readers : Answered(t)
  /\ FailureIsReal

LEMMA FailInit == WInit => FailInv
<1> SUFFICES ASSUME WInit PROVE FailInv
  OBVIOUS
<1>1. ReaderInv /\ watch = [t \in Readers |-> "read"]
  BY ReaderInit DEF WInit
<1> QED
  BY <1>1 DEF FailInv, Answered, FailureIsReal, WatchPlaces

LEMMA FailStep ==
  ASSUME NoFailedWait, FailInv, [WNext]_watchvars
  PROVE  FailInv'
<1>1. /\ ReaderInv /\ ReaderInv' /\ TypeOK /\ TypeOK' /\ (online' => online)
      /\ watch \in [Readers -> WatchPlaces]
      /\ "signal" \notin faults /\ "clock" \notin faults /\ timeouts.rd <= MaxExact
  BY WatcherStepsPort, ReaderStep, GoneForGood DEF FailInv, ReaderInv, TypeOK, NoFailedWait
<1>2. Readers \subseteq Threads
  BY DEF Threads
<1> DEFINE Good(t) == /\ watch'[t] \in WatchPlaces
                      /\ Answered(t)'
                      /\ watch'[t] = "failed" => ~online'
<1>3. ASSUME NEW t \in Readers, UNCHANGED <<watch[t], pc[t], ret[t]>> PROVE Good(t)
  BY <1>1, <1>3 DEF FailInv, Answered, FailureIsReal
<1>4. ASSUME NEW t \in Readers, WatchRead(t) PROVE \A u \in Readers : Good(u)
  <2>1. /\ watch' = [watch EXCEPT ![t] = AfterRead(ret'[t].r)] /\ SerRead(t, 1)
        /\ pc' = [pc EXCEPT ![t] = "idle"]
        /\ \A u \in Readers \ {t} : UNCHANGED <<watch[u], pc[u], ret[u]>>
    BY <1>1, <1>2, <1>4 DEF WatchRead, SerRead, Return, TypeOK
  <2>2. AfterRead(ret'[t].r) = "failed" => ~online'
    BY <1>1, <2>1, ReadsOneByte DEF AfterRead
  <2>3. AfterRead(ret'[t].r) \in WatchPlaces \ {"waiting"}
    BY DEF AfterRead, WatchPlaces
  <2>4. Good(t)
    BY <1>1, <2>1, <2>2, <2>3 DEF Answered
  <2> QED
    BY <1>3, <2>1, <2>4
<1>5. ASSUME NEW t \in Readers, WatchWait(t) PROVE \A u \in Readers : Good(u)
  <2>1. /\ watch' = [watch EXCEPT ![t] = "waiting"] /\ pc'[t] = "select"
        /\ \A u \in Readers \ {t} : UNCHANGED <<watch[u], pc[u], ret[u]>>
    BY <1>1, <1>2, <1>5 DEF WatchWait, SerReadWait, EnterWait, TypeOK
  <2>2. Good(t)
    BY <1>1, <2>1 DEF Answered, WatchPlaces
  <2> QED
    BY <1>3, <2>1, <2>2
<1>6. ASSUME NEW t \in Readers, WatchWaited(t) PROVE \A u \in Readers : Good(u)
  <2>1. /\ watch' = [watch EXCEPT ![t] = AfterWait(ret[t].r)]
        /\ \A u \in Readers \ {t} : UNCHANGED <<watch[u], pc[u], ret[u]>>
    BY <1>1, <1>6 DEF WatchWaited, vars
  <2>2. ret[t].r \in {0, SER_ETIMEDOUT}
    BY <1>6 DEF WatchWaited, FailInv, Answered
  <2>3. AfterWait(ret[t].r) \in {"read", "done"}
    BY <2>2 DEF AfterWait, SER_ETIMEDOUT
  <2>4. Good(t)
    BY <1>1, <2>1, <2>3 DEF Answered, WatchPlaces
  <2> QED
    BY <1>3, <2>1, <2>4
<1>7. ASSUME NEW t \in Readers, SelectAnswers(t) PROVE \A u \in Readers : Good(u)
  <2>1. /\ watch' = watch /\ pc[t] = "select" /\ Waits(t) /\ UNCHANGED online
        /\ Select(t)
    BY <1>1, <1>7 DEF SelectAnswers, Select, SelectReady, SelectExpires,
                      SelectFails, ClockFails, ReaderInv, port
  <2>2. PICK r : LeaveWait(t, r) /\ r \in {0, SER_ETIMEDOUT}
    <3>1. ~Refused(call[t])
      <4>1. call[t].timeout = timeouts.rd /\ timeouts.rd \in Int
        BY <1>1, <2>1, NumbersAssumption DEF Waits, TypeOK
      <4>2. Remainders(call[t].timeout) = {timeouts.rd % Second}
        BY <1>1, <4>1 DEF Remainders
      <4>3. timeouts.rd % Second \in Nat
        BY <4>1, NumbersAssumption
      <4> QED
        BY <4>2, <4>3 DEF Refused
    <3> QED
      BY <1>1, <2>1, <3>1
         DEF Select, SelectReady, SelectExpires, SelectFails, ClockFails, Interrupted
  <2>3. Return(t, "read_wait", r, 0)
    BY <2>1, <2>2 DEF LeaveWait, Waits
  <2>4. ret'[t].r = r /\ \A u \in Readers \ {t} : UNCHANGED <<pc[u], ret[u]>>
    BY <1>1, <1>2, <2>3 DEF Return, TypeOK
  <2>5. Good(t)
    BY <1>1, <2>1, <2>2, <2>4 DEF Answered, FailInv, FailureIsReal
  <2> QED
    BY <1>3, <2>1, <2>4, <2>5
<1>8. ASSUME NEW t \in Readers, TimePasses(t) PROVE \A u \in Readers : Good(u)
  BY <1>3, <1>8 DEF TimePasses, Tick
<1>9. ASSUME PortChanges \/ UNCHANGED watchvars PROVE \A u \in Readers : Good(u)
  BY <1>3, <1>9 DEF PortChanges, PeerSends, Unplug, watchvars, vars
<1>10. \A u \in Readers : Good(u)
  BY <1>4, <1>5, <1>6, <1>7, <1>8, <1>9 DEF WNext, Watch
<1>11. watch' \in [Readers -> WatchPlaces]
  <2>1. \A r : AfterRead(r) \in WatchPlaces /\ AfterWait(r) \in WatchPlaces
    BY DEF AfterRead, AfterWait, WatchPlaces
  <2>2. ASSUME NEW t \in Readers, Watch(t)
        PROVE  \E v \in WatchPlaces : watch' = [watch EXCEPT ![t] = v]
    <3>1. CASE WatchRead(t)
      BY <2>1, <3>1 DEF WatchRead
    <3>2. CASE WatchWait(t)
      BY <3>2 DEF WatchWait, WatchPlaces
    <3>3. CASE WatchWaited(t)
      BY <2>1, <3>3 DEF WatchWaited
    <3> QED
      BY <2>2, <3>1, <3>2, <3>3 DEF Watch
  <2>3. watch' = watch \/ \E t \in Readers : Watch(t)
    BY DEF WNext, SelectAnswers, TimePasses, PortChanges, watchvars
  <2> QED
    BY <1>1, <2>2, <2>3
<1> QED
  BY <1>1, <1>10, <1>11 DEF FailInv, FailureIsReal

\* Unless its wait fails, a watcher fails only when the device is gone: an empty
\* queue, or a timeout, is never taken for a failure.
THEOREM FailuresAreReal == ASSUME NoFailedWait PROVE WSpec => []FailureIsReal
<1>1. FailInv => FailureIsReal
  BY DEF FailInv
<1>2. QED
  BY <1>1, FailInit, FailStep, PTL DEF WSpec
=============================================================================
