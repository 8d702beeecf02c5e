\* A monitor that is started and stopped again and again, with every fault.
SPECIFICATION FairSpec
CONSTANTS
  d1 = d1
  d2 = d2
  Devices <- TwoDevices
  FaultChoices <- EveryFault
  IterCap = 2
INVARIANTS
  NothingMissed
PROPERTIES
  MonitorsDevices
  StopReturns
\* A start that times out joins a thread that waits for the mutex it holds.
CHECK_DEADLOCK FALSE
