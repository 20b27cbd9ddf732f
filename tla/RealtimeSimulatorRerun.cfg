SPECIFICATION Spec
CONSTANTS
  Delays = {0, 2}
  MaxEvents = 3
  MaxRuns = 2
  Epoch = 9
  MaxWall = 14
  NsPerStep = 2
  StepsPerNs = 1
  Jiffy = 1
  SpinJiffies = 1
  IdleDelay = 2
  HardLimit = 1
INVARIANT ListAheadOfClock
CHECK_DEADLOCK FALSE
