---------------------------- MODULE PosixWatcher ----------------------------
(***************************************************************************)
(* The library's own client for reading, run() of examples/watcher.c, over *)
(* the data path of PosixSerial: print every byte until none comes within  *)
(* the timeout.  It reads first and waits only when the queue was empty,   *)
(* so what happens between the two calls matters.                          *)
(***************************************************************************)
EXTENDS PosixSerial

\* run() reads one byte at a time.
ASSUME WatcherAssumption == 1 \in RdSizes

VARIABLES
  watch,   \* where run() is: "read", "wait", "waiting", "done" or "failed"
  printed  \* the bytes it printed

watchvars == <<vars, watch, printed>>

\* The port is open, and bytes may have arrived before the first read.
WInit ==
  /\ Init
  /\ watch = [t \in Readers |-> "read"]
  /\ printed = <<>>

\* Mutant: every failed read is taken for an empty queue.
AfterRead_AnyIsEmpty(r) == IF r < 0 THEN "wait" ELSE "read"

\* What the loop does after ser_read returned r.
AfterRead(r) == IF r = SER_EEMPTY THEN "wait"
                ELSE IF r < 0 THEN "failed" ELSE "read"

\* Mutant: a timeout is not told from the other answers.
AfterWait_Ignored(r) == "read"

\* Mutant: every answer below zero ends the loop as a timeout does.
AfterWait_Done(r) == IF r < 0 THEN "done" ELSE "read"

\* What the loop does after ser_read_wait returned r.
AfterWait(r) == IF r = SER_ETIMEDOUT THEN "done"
                ELSE IF r < 0 THEN "failed" ELSE "read"

\* Mutant: success is taken to be a positive answer.
PrintedAfter_Positive(r) == IF r > 0 THEN Append(printed, Head(rx)) ELSE printed

\* The byte ser_read stored is printed if it returned 0.
PrintedAfter(r) == IF r = 0 THEN Append(printed, Head(rx)) ELSE printed

WatchRead(t) ==
  /\ watch[t] = "read"
  /\ SerRead(t, 1)
  /\ printed' = PrintedAfter(ret'[t].r)
  /\ watch' = [watch EXCEPT ![t] = AfterRead(ret'[t].r)]

WatchWait(t) ==
  /\ watch[t] = "wait"
  /\ SerReadWait(t)
  /\ watch' = [watch EXCEPT ![t] = "waiting"]
  /\ UNCHANGED printed

WatchWaited(t) ==
  /\ watch[t] = "waiting"
  /\ pc[t] = "idle"
  /\ watch' = [watch EXCEPT ![t] = AfterWait(ret[t].r)]
  /\ UNCHANGED <<vars, printed>>

Watch(t) == WatchRead(t) \/ WatchWait(t) \/ WatchWaited(t)

\* The kernel's answer to the wait, and the passing of time in it.
SelectAnswers(t) == Select(t) /\ UNCHANGED <<watch, printed>>

TimePasses(t) == Tick(t) /\ UNCHANGED <<watch, printed>>

PortChanges == (PeerSends \/ Unplug) /\ UNCHANGED <<watch, printed>>

WNext ==
  \/ \E t \in Readers : Watch(t) \/ SelectAnswers(t) \/ TimePasses(t)
  \/ PortChanges

\* The program runs, select() returns when it can, and time passes.
WSpec ==
  /\ WInit /\ [][WNext]_watchvars
  /\ \A t \in Readers :
       /\ WF_watchvars(Watch(t))
       /\ WF_watchvars(SelectAnswers(t))
       /\ WF_watchvars(TimePasses(t))

-----------------------------------------------------------------------------
(***************************************************************************)
(* Properties, of one watcher and a queue large enough for MaxRx bytes.    *)
(***************************************************************************)

\* Until the port is unplugged, what was printed and what is queued are the
\* bytes that were sent, in the order they were sent: none is dropped or
\* printed twice between ser_read and ser_read_wait.
StreamIntact == online => printed \o rx = [i \in 1..nrx |-> i]

\* When ser_read_wait gives up, every byte sent until then has been printed
\* (watcher.c:3, "Print all incoming data until no more bytes are received
\* whithin the given timeout").
GivesUpWhenDrained ==
  [][\A t \in Readers :
       pc[t] = "select" /\ ret'[t].op = "read_wait"
         /\ ret'[t].r = SER_ETIMEDOUT /\ pc'[t] = "idle"
       => Len(printed) = nrx]_watchvars

\* The watcher fails only when the device is gone.
FailureIsReal == \A t \in Readers : watch[t] = "failed" => ~online

\* With a timeout the watcher ends, as the peer can only send so much; and
\* whatever its timeout, it ends when the device goes.
WatcherEnds ==
  \A t \in Readers :
    (timeouts.rd > 0 \/ ~online) ~> (watch[t] \in {"done", "failed"})

\* Without a timeout it prints every byte sent while the device is there.
EveryByteIsPrinted ==
  \A n \in 1..MaxRx :
    (timeouts.rd <= 0 /\ nrx >= n) ~> (Len(printed) >= n \/ ~online)
=============================================================================
