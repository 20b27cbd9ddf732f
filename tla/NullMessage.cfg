SPECIFICATION FairSpec
CONSTANTS
  Ranks = {1, 2, 3}
  Links <- Row
  Start <- Uneven
  Delays = {1}
  TxTimes = {0}
  StopTime = 3
  MaxTime = 4
  MaxCalls <- OnceButLast
  SchedulerTune = 100
INVARIANT GuaranteeIsKept
PROPERTIES ImplementsSequentialOrder EveryRankReturns
CHECK_DEADLOCK FALSE
