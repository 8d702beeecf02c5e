\* One writer on a port that may be unplugged.
SPECIFICATION Spec
CONSTANTS
  r1 = r1
  w1 = w1
  w2 = w2
  c1 = c1
  Readers <- NoThreads
  Writers <- OneWriter
  Controllers <- NoThreads
  Timeouts <- WriteTimeouts
  RdSizes = {}
  WrSizes = {0, 1, 3}
  Queues = {}
  FaultChoices = {{"unplug"}}
  SizeMod = 8
  TxCap = 2
  RxCap = 1
  MaxRx = 0
  Second = 2
  MaxExact = 3
  MaxWait = 6
INVARIANT
  ZeroMeansAllSent
