SPECIFICATION ObserverSpec
CONSTANTS
  s1 = s1
  s2 = s2
  Sources = {s1, s2}
  Retries = 1
  BackoffCap = 2
  Base = 1
  Grace = 1
  Observe = 2
  Learn = 1
  ArgSets <- AllLines
  Fragile = {s1, s2}
  MaxExits = 2
  MaxLate = 9
  Order <- Listed
  Recorded <- Files
CHECK_DEADLOCK FALSE
INVARIANTS RunTypeOK JudgedSilosHaveGrammars ExitCodeTellsTheEnd
  RecordIsTheWholeInput
PROPERTIES GrammarFrozen LinesTakeTheirPlace
