SPECIFICATION Spec
CONSTANTS
  Delays = {0, 1}
  MaxEvents = 3
  UidMod = 6
PROPERTY FifoAmongEqualTimes
