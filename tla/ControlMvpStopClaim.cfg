SPECIFICATION Spec
CONSTANTS
  JamScanLimit = 3
  CounterModulus = 3
  Destinations = {0, 1, 2}
INVARIANT StopHoldsMotorOff
