--------------------------- MODULE MCLinuxMonitor ---------------------------
(***************************************************************************)
(* Instances of LinuxMonitor for TLC.                                      *)
(***************************************************************************)
EXTENDS LinuxMonitor

CONSTANTS d1, d2

OneDevice == {d1}
TwoDevices == {d1, d2}

\* Each kind of fault by itself and with those that make it worse.
EveryFault ==
  {{"calloc", "mutex_init", "cond_init", "pipe", "create"},
   {"calloc", "mutex_init", "cond_init", "pipe", "udev_new", "enable"},
   {"udev_monitor_new", "slow", "signal", "receive"},
   {"slow", "spurious", "signal"}}
=============================================================================
