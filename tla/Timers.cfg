SPECIFICATION TimersSpec
CONSTANTS
  Policies = {"CANCEL_ON_DESTROY", "REMOVE_ON_DESTROY", "CHECK_ON_DESTROY"}
  Delays = {0, 1, 3}
  MaxTime = 7
  MaxSchedules = 4
  ScheduleSuspended = FALSE
  PingDelays = {0, 1, 2, 5}
  MaxPings = 5
  MaxEnd = 9
INVARIANT NoStrayEvent
PROPERTIES CalledOnTime TriggeredAtLatestEnd PingedTriggers
CHECK_DEADLOCK FALSE
