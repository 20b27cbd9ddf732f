SPECIFICATION TimerSpec
CONSTANTS
  Policies = {"CHECK_ON_DESTROY"}
  Delays = {0, 1, 3}
  MaxTime = 7
  MaxSchedules = 4
  ScheduleSuspended = FALSE
PROPERTY SuspendedIsQuiet
CHECK_DEADLOCK FALSE
