SPECIFICATION Spec
CONSTANTS
  SchedulerTypes = {"Heap"}
  Times = {0, 1, 2}
  MaxUid = 7
PROPERTY RemoveNextIsEarliest
CHECK_DEADLOCK FALSE
