\* Two instances on one port that comes and goes.
SPECIFICATION Spec
CONSTANTS
  s1 = s1
  s2 = s2
  Instances <- TwoInstances
  Options <- MixedOptions
  InitialTios <- CookedTios
  BaudBase = 1500000
  Faults = {"noserial", "open", "tcgetattr", "tcsetattr"}
SYMMETRY Symmetry
INVARIANTS
  TypeOK
  DescriptorIsOwned
  ClosedMeansRestored
  OpenHasOptions
