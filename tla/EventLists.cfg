SPECIFICATION Spec
CONSTANTS
  SchedulerTypes = {"Heap", "List", "Calendar", "ReverseCalendar"}
  Times = {0, 3, 8}
  MaxUid = 6
INVARIANT PeekIsEarliest
PROPERTIES ImplementsScheduler ContentsFollowCalls
CHECK_DEADLOCK FALSE
