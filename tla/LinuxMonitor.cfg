\* A monitor that is started and stopped again and again, with every fault.
SPECIFICATION FairSpec
CONSTANTS
  d1 = d1
  d2 = d2
  Devices <- TwoDevices
  Noise = {"change"}
  FaultChoices <- EveryFault
  QCap = 2
INVARIANTS
  TypeOK
  UsesOnlyLive
  NoLeak
  RunningIsInitialized
  NothingMissed
PROPERTIES
  NullHasReason
  MonitorsDevices
  InitReturns
  StopReturns
  ChangeIsReported
