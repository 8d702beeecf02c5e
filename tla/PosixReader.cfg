\* One reader with a timeout, on a port that may be unplugged while signals
\* are delivered to the thread.  The system stops when a reader without a timeout
\* waits for a peer that has sent its MaxRx bytes.
SPECIFICATION StallSpec
CONSTANTS
  r1 = r1
  w1 = w1
  w2 = w2
  c1 = c1
  Readers <- OneReader
  Writers <- NoThreads
  Controllers <- NoThreads
  Timeouts <- ReadTimeouts
  RdSizes = {0, 1, 2}
  WrSizes = {}
  Queues = {}
  FaultChoices = {{}, {"unplug"}, {"unplug", "signal"}, {"clock"}}
  SizeMod = 8
  TxCap = 1
  RxCap = 2
  MaxRx = 4
  Second = 2
  MaxExact = 3
  MaxWait = 6
CHECK_DEADLOCK FALSE
INVARIANTS
  TypeOK
  ReadyMeansReadable
  NoFalseTimeout
  DisconnectIsReal
PROPERTY
  UnplugEndsWaits
