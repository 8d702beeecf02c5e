---------------------------- MODULE MCPosixSerial ----------------------------
(***************************************************************************)
(* Instances of PosixSerial for TLC.  The cfg files name the threads and   *)
(* give the numbers.                                                       *)
(***************************************************************************)
EXTENDS PosixSerial

CONSTANTS r1, w1, w2, c1

NoThreads == {}
OneReader == {r1}
OneWriter == {w1}
TwoWriters == {w1, w2}
OneController == {c1}

\* SER_NO_TIMEOUT is 0; a negative timeout is treated as it is.  5 is more than
\* MaxExact.
ReadTimeouts == [rd : {3, 5, 0, -1}, wr : {0}]
WriteTimeouts == [rd : {0}, wr : {2, 5, 0}]
=============================================================================
