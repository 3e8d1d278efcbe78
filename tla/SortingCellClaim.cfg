SPECIFICATION Spec
CONSTANTS
  JamScanLimit = 3
  CounterModulus = 4
  Destinations = {0, 1, 2}
  MaxParcels = 1
  Pe1 = 1
  Pe2 = 2
  Divert = 4
  Length = 2
  Events = {"start", "stop", "reset", "inject_jam", "clear_jam"}
INVARIANT JammedNotCounted
