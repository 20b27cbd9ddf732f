SPECIFICATION FairSpec
CONSTANTS
  Delays = {0, 1}
  MaxEvents = 3
  UidMod = 7
INVARIANTS ListAheadOfClock UnscheduledCounts HandoverIsFlagged ExpiredIffNotPending
PROPERTIES ExpiredIsFinal ImplementsAgenda RunReturnsEventually PendingGetsItsTurn
