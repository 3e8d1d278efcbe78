SPECIFICATION Spec
CONSTANTS
  JamScanLimit = 2
  CounterModulus = 2
  Destinations = {0, 1, 2}
  Clients = {c1}
  Commands = {"start", "stop"}
  MaxCommands = 3
  MaxParcels = 2
  Pe1 = 1
  Pe2 = 2
  Divert = 3
  Length = 1
INVARIANT EngineAlive
