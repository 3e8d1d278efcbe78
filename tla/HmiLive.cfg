\* A tick that raises ends the loop; when every client has left, all stops.
SPECIFICATION Spec
CHECK_DEADLOCK FALSE
CONSTANTS
  S1 = s1
  S2 = s2
  Sessions <- MCSessions
  Script <- MCScript
  Room = 2
  Ticks = 2
INVARIANTS TypeOK FramesInOrder AlarmMatchesFrame
PROPERTIES TwinKeepsTicking
