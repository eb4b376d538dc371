SPECIFICATION MCSpec
CONSTANTS
  Levels = {0, 1}
  Window = 3
  SlopeRising = 1
  SlopeFalling <- MinusOne
  ReversalN = 2
  StableN = 2
  ConfFullSlope = 2
  ConfHold = 90
  Cadence = 4
  Margin = 7
  Elapses = {2, 9}
INVARIANTS OutageIsAbsent
CHECK_DEADLOCK FALSE
