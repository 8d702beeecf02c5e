\* The thread may need longer than DEV_MON_INIT_TIMEOUT.
SPECIFICATION FairSpec
CONSTANTS
  d1 = d1
  d2 = d2
  Devices <- OneDevice
  Noise = {}
  FaultChoices = {{"slow"}}
  QCap = 1
PROPERTY
  InitAlwaysReturns
