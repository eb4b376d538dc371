SPECIFICATION AnalysisSpec
CONSTANTS
  Levels = {0, 1, 2, 3, 4, 5}
  Window = 4
  SlopeRising = 1
  SlopeFalling <- MinusOne
  ReversalN = 3
  StableN = 4
  ConfFullSlope = 2
  ConfHold = 90
  Cadence = 4
  Margin = 7
  Elapses = {2, 9}
  t = t
  Targets = {t}
  Confidences = {59, 60, 100}
  Batches = {1, 4, 2000}
  Bulk = 2000
  MaxWrites = 10
  FewWrites = 3
  K = 2
  Epsilon = 400
  PhaseNames = {"RISING", "FALLING", "STABLE"}
  MaxPhases = 9
  UntilStable = TRUE
  Quantum = 100
  Legs = {6, 7}
  MaxTurns = 3
  MaxRests = 1
  MaxGlitches = 1
INVARIANTS AnalysisTypeOK HalfCyclesAreMeasured FlatsCloseTheHold
  GatesAreSound MovesAreRecognised
  VerdictTellsTheHistory StableIsEarned
  CountsTheRepetitions CyclesAreJudgedAtTheirBoundary
PROPERTIES ImplementsInertia BoundariesReportedOnce
CHECK_DEADLOCK FALSE
