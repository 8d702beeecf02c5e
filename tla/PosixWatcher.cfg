\* The system may stop: the watcher ends, or waits forever for a silent peer.
SPECIFICATION WSpec
CONSTANTS
  r1 = r1
  Readers <- OneReader
  Writers <- NoThreads
  Controllers <- NoThreads
  Timeouts <- ReadTimeouts
  RdSizes = {1}
  WrSizes = {}
  Queues = {}
  FaultChoices = {{}, {"unplug"}}
  SizeMod = 8
  TxCap = 1
  RxCap = 4
  MaxRx = 4
  Second = 2
  MaxExact = 3
  MaxWait = 3
CHECK_DEADLOCK FALSE
INVARIANTS
  StreamIntact
  FailureIsReal
PROPERTIES
  GivesUpWhenDrained
  WatcherEnds
  EveryByteIsPrinted
