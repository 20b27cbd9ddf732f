SPECIFICATION TimerSpec
CONSTANTS
  Policies = {"CANCEL_ON_DESTROY", "REMOVE_ON_DESTROY"}
  Delays = {0, 1, 3}
  MaxTime = 7
  MaxSchedules = 4
  ScheduleSuspended = TRUE
PROPERTY DestroyedIsQuiet
CHECK_DEADLOCK FALSE
