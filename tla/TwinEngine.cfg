\* The engine thread may die (see TwinEngineClaim.cfg); then everything stops.
SPECIFICATION Spec
CHECK_DEADLOCK FALSE
CONSTANTS
  JamScanLimit = 2
  CounterModulus = 2
  Destinations = {0, 1, 2}
  Clients = {c1, c2}
  Commands = {"start", "stop", "reset", "estop", "jam"}
  MaxCommands = 3
  MaxParcels = 2
  Pe1 = 1
  Pe2 = 2
  Divert = 3
  Length = 1
INVARIANTS TypeOK EstopHolds ButtonsComeBack LineIsKept
PROPERTIES StartsNeedPresses RoutedForGood
