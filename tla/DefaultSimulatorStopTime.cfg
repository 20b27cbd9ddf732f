SPECIFICATION Spec
CONSTANTS
  Delays = {0, 1}
  MaxEvents = 2
  UidMod = 100
PROPERTY NoEventAtStopTime
