SPECIFICATION GrammarSpec
CONSTANTS
  t = t
  Targets = {t}
  Confidences = {100}
  Batches = {1, 2000}
  Bulk = 2000
  MaxWrites = 2
INVARIANTS IncoherentWasNeverSeen
CHECK_DEADLOCK FALSE
