\* One instance, opened with a write timeout.
SPECIFICATION Spec
CONSTANTS
  s1 = s1
  s2 = s2
  Instances <- OneInstance
  Options <- WriteOptions
  InitialTios <- CookedTios
  BaudBase = 1500000
  Faults = {}
INVARIANT
  WriteTimeoutIsOption
