SPECIFICATION OutagesSpec
CONSTANTS
  s1 = s1
  s2 = s2
  Sources = {s1, s2}
  Retries = 2
  BackoffCap = 2
  Base = 1
  Grace = 1
  Observe = 2
  Learn = 3
  ArgSets <- PlainLines
  Fragile = {s1, s2}
  MaxExits = 2
  MaxLate = 13
CHECK_DEADLOCK FALSE
INVARIANTS TypeOK SourcesAreKept
PROPERTIES CaptureEventsTellTheOutage OutagesEnd NoForkLoop WindowsKeepTheirLength ObserveEnds
