SPECIFICATION FairSpec
CONSTANTS
  Ranks = {1, 2, 3}
  Links <- Row
  Delays = {3}
  TxTimes = {0}
  MaxTime = 5
  MaxCalls <- Once
  Start <- Uneven
  StopTimes = {3}
  Bounds = {1, 6}
INVARIANT NothingIsLeftBehind
PROPERTIES ImplementsSequentialOrder RunReturns
CHECK_DEADLOCK FALSE
