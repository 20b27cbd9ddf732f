SPECIFICATION Spec
CONSTANTS
  SduUnits = 1
  Modulus = 4
  Window = 2
  Grants = {1}
  MaxTxBuffer = 5
  NSdus = 5
  MaxInFlight = 2
INVARIANT NothingOutsideWindow
CHECK_DEADLOCK FALSE
