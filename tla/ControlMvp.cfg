SPECIFICATION FairSpec
CONSTANTS
  JamScanLimit = 3
  CounterModulus = 3
  Destinations = {0, 1, 2}
INVARIANTS TypeOK NoStaleDecision ArmShowsDecision StoppedIsSafe
PROPERTIES CountFollowsArm RestartNeedsStart JamHoldsUntilReset MotorNeverGrinds KeepsPromise
