---------------------------- MODULE MCMacMonitor ----------------------------
(***************************************************************************)
(* Instances of MacMonitor for TLC.                                        *)
(***************************************************************************)
EXTENDS MacMonitor

CONSTANTS d1, d2

TwoDevices == {d1, d2}

\* The failures of the application's calls and of the thread's, the latter
\* also in a thread that is slow, and a wait that ends too early.
EveryFault ==
  {{"calloc", "mutex_init", "cond_init", "create"},
   {"port_add", "match_add", "port_rm", "match_rm"},
   {"port_rm", "match_rm", "slow"},
   {"spurious"}}
=============================================================================
