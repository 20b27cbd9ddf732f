SPECIFICATION FairSpec
CONSTANTS
  SduUnits = 3
  Modulus = 4
  Window = 2
  Grants = {1, 4}
  MaxTxBuffer = 5
  NSdus = 2
  MaxInFlight = 2
  MaxLosses = 1
  MaxCuts = 1
  MaxLate = 1
  BigEnough = {TRUE, FALSE}
  StatusOvertakes = FALSE
INVARIANTS AckedIsReceived FirstUnackedIsKept TransitionPossible OutstandingIsWatched
PROPERTIES ImplementsRlcChannel AcceptedIsDelivered
CHECK_DEADLOCK FALSE
