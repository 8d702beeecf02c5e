------------------------------ MODULE PosixTime ------------------------------
(***************************************************************************)
(* The arithmetic of timeouts on POSIX systems: the timeval that           *)
(* port_wait_ready gives to select() (posix/comms.c), the difference of    *)
(* two times that clock__diff computes (posix/time.c), and the             *)
(* milliseconds port_wait_ready makes of it.  Every number is an integer   *)
(* here; Representable says where the int of the code is one.              *)
(***************************************************************************)
EXTENDS Integers

IntMax == 2147483647
NsPerSec == 1000000000
NsPerMs == 1000000

Timespec == [tv_sec : Int, tv_nsec : 0..(NsPerSec - 1)]

\* clock__diff: a - b, with a second borrowed for negative nanoseconds.
ClockDiff(a, b) ==
  LET sec  == a.tv_sec - b.tv_sec
      nsec == a.tv_nsec - b.tv_nsec
  IN IF nsec < 0 THEN [tv_sec |-> sec - 1, tv_nsec |-> nsec + NsPerSec]
                 ELSE [tv_sec |-> sec, tv_nsec |-> nsec]

\* port_wait_ready: the milliseconds of a difference.
TimeSpent(diff) == diff.tv_sec * 1000 + diff.tv_nsec \div NsPerMs

\* port_wait_ready: the timeval of a timeout in ms, and whether the product in
\* it fits an int; its overflow is undefined.
TimeVal(timeout) ==
  [tv_sec |-> timeout \div 1000, tv_usec |-> (timeout * 1000) % 1000000]

Representable(timeout) == timeout * 1000 <= IntMax

-----------------------------------------------------------------------------
(***************************************************************************)
(* What they stand for, in the units of the system.                        *)
(***************************************************************************)
Nanos(t) == t.tv_sec * NsPerSec + t.tv_nsec

Micros(tv) == tv.tv_sec * 1000000 + tv.tv_usec
=============================================================================
