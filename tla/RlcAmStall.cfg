SPECIFICATION Spec
CONSTANTS
  SduUnits = 1
  Modulus = 8
  Window = 4
  Grants = {1}
  MaxTxBuffer = 4
  NSdus = 4
  MaxInFlight = 2
  MaxLosses = 1
  MaxCuts = 0
  MaxLate = 2
  BigEnough = {TRUE}
  StatusOvertakes = FALSE

INVARIANT NeverWaitsForSdu
CHECK_DEADLOCK FALSE
