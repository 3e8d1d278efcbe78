SPECIFICATION Spec
CONSTANTS
  JamScanLimit = 2
  CounterModulus = 2
  Destinations = {0, 1, 2}
  MaxParcels = 3
  Pe1 = 1
  Pe2 = 3
  Divert = 4
  Length = 1
  RingSize = 2
  Events = {"start", "estop", "inject_jam", "clear_jam"}
INVARIANTS TypeOK RingMirrorsLine RoutedByOwnLabel NeverReadsAhead
PROPERTIES BacklogNeverShrinks
