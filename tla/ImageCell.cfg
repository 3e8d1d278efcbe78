SPECIFICATION Spec
CONSTANTS
  Size = 6
  WordModulus = 5
  MaxBits = 3
  MaxRegisters = 2
  Registries <- MCRegistries
  Plan <- MCPlan
  MaxToggles = 2
INVARIANTS TypeOK RoutedAsPresented NeverCountedTwice EstopTrips
PROPERTIES StreamFinishes
