SPECIFICATION Spec
CONSTANTS
  SduUnits = 3
  Modulus = 4
  Window = 2
  Grants = {1, 4}
  MaxTxBuffer = 5
  NSdus = 2
  MaxInFlight = 2
  MaxLosses = 1
  MaxCuts = 1
  MaxLate = 1
  BigEnough = {FALSE}
  StatusOvertakes = FALSE

PROPERTY WholePduIsPlaced
CHECK_DEADLOCK FALSE
