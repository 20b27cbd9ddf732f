SPECIFICATION FairSpec
CONSTANTS
  SduUnits = 2
  Modulus = 8
  Window = 4
  Grants = {0, 1, 3}
  MaxTxBuffer = 5
  NSdus = 3
  MaxInFlight = 4
INVARIANTS DeliveredInOrder ReorderingLosesNothing HeldBackIsWatched
PROPERTIES EverythingIsSent NothingIsHeldBackForEver
CHECK_DEADLOCK FALSE
