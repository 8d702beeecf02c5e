\* One writer and a thread that flushes the queues.
SPECIFICATION FlowSpec
CONSTANTS
  r1 = r1
  w1 = w1
  w2 = w2
  c1 = c1
  Readers <- NoThreads
  Writers <- OneWriter
  Controllers <- OneController
  Timeouts <- WriteTimeouts
  RdSizes = {}
  WrSizes = {0, 1, 3}
  Queues = {"in", "out", "all", "bad"}
  FaultChoices = {{}, {"unplug", "signal"}, {"clock"}}
  SizeMod = 8
  TxCap = 2
  RxCap = 1
  MaxRx = 1
  Second = 2
  MaxExact = 3
  MaxWait = 6
INVARIANT
  OnlyCallerBytes
PROPERTIES
  WriteReturns
  WritesToContract
