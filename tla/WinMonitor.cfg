\* A monitor that is started and stopped again and again, with every fault.
SPECIFICATION FairSpec
CONSTANTS
  d1 = d1
  d2 = d2
  Devices <- TwoDevices
  Noise = {"devnodes_changed"}
  FaultChoices <- EveryFault
  MsgCap = 2
INVARIANTS
  HeldWhileUsed
PROPERTIES
  MonitorsDevices
  StopReturns
