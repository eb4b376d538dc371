SPECIFICATION CalibrationSpec
CONSTANTS
  Quantum = 100
  Legs = {6, 7}
  MaxTurns = 3
  MaxRests = 1
  MaxGlitches = 0
INVARIANT CalibratedRampsAreSeen
CHECK_DEADLOCK FALSE
