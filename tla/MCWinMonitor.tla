---------------------------- MODULE MCWinMonitor ----------------------------
(***************************************************************************)
(* Instances of WinMonitor for TLC.                                        *)
(***************************************************************************)
EXTENDS WinMonitor

CONSTANTS d1, d2

TwoDevices == {d1, d2}

\* The failures of the application's calls and of the thread's, a thread that
\* is late, and a wait that fails.
EveryFault ==
  {{"calloc", "register", "event", "create"},
   {"window", "prop", "notify"},
   {"window", "prop", "slow"},
   {"wait"}}
=============================================================================
