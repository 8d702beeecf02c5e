\* One session after the other on a port that comes and goes.
SPECIFICATION Spec
CONSTANTS
  Options <- SomeOptions
  Sizes = {1, 2}
  Faults = {"malloc", "create", "getstate", "gettimeouts", "setstate", "settimeouts", "setmask",
            "event", "wait", "slow"}
  RxCap = 3
  StrayCap = 2
INVARIANTS
  TypeOK
  ZeroMeansOpen
  ClosedMeansRestored
  WakesForBytes
  NothingOutlivesItsCall
