SPECIFICATION FairSpec
CONSTANTS
  Delays = {0, 2}
  MaxEvents = 2
  MaxRuns = 1
  Epoch = 9
  MaxWall = 13
  NsPerStep = 2
  StepsPerNs = 1
  Jiffy = 1
  SpinJiffies = 1
  IdleDelay = 2
  HardLimit = 1
INVARIANTS ListAheadOfClock NeverEarly NoLostWakeup
PROPERTIES DueEventRuns StopEndsRun
CHECK_DEADLOCK FALSE
