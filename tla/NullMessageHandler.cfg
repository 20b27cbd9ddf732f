SPECIFICATION Spec
CONSTANTS
  Ranks = {1, 2}
  Links <- Parallel
  Start <- Uneven
  Delays = {2}
  TxTimes = {0, 1}
  StopTime = 4
  MaxTime = 6
  MaxCalls <- Thrice
  SchedulerTune = 100
INVARIANT GuaranteeIsKept
CHECK_DEADLOCK FALSE
