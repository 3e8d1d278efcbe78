SPECIFICATION Spec
CONSTANTS
  JamScanLimit = 3
  CounterModulus = 3
  Destinations = {0, 1, 2}
  MaxParcels = 2
  Pe1 = 1
  Pe2 = 2
  Divert = 4
  Length = 2
  Events = {"start", "stop", "reset", "inject_jam", "clear_jam"}
INVARIANTS TypeOK RoutedAsScanned CountersNeverAhead CountersExact NoFalseJam
