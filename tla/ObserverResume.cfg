SPECIFICATION RunSpec
CONSTANTS
  s1 = s1
  s2 = s2
  Sources = {s1, s2}
  Retries = 1
  BackoffCap = 2
  Base = 1
  Grace = 1
  Observe = 1
  Learn = 1
  ArgSets <- ResumeLines
  Fragile = {}
  MaxExits = 0
  MaxLate = 16
CHECK_DEADLOCK FALSE
INVARIANTS ResumedSilosEvaluate
