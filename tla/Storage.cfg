SPECIFICATION StorageSpec
CONSTANTS
  None = None
  ObserveFor = 1
  LearnFor = 1
  Results = {"COHERENT", "UNCERTAIN"}
  HoldAfter = 1
  HoldEvery = 1
  MaxTime = 3
  MaxLines = 2
  MaxPolls = 1
  Scenarios <- SomeScenarios
  a = a
  b = b
  c = c
  Paths = {a, b, c}
  Basename <- Names
  Uploads <- Sessions
  MaxUploads = 3
  MaxGrowth = 1
  Layers <- ExtractorLayers
  Frames <- SomeFrames
  NoApp = NoApp
  NoEndpoint = NoEndpoint
  NoFile = NoFile
  Port <- Ports
  Onlys <- SomeOnlys
  All = All
  MaxFrames = 3
  MaxLaunches = 3
  Silos = {s1, s2}
  Configs = {c1, c2}
  Absent = Absent
  Torn = Torn
  MaxRuns = 3
  Versions = {"v1", "v2", "v3"}
  NoVersion = ""
  Empty = "empty"
  MaxUpdates = 4
INVARIANTS StorageTypeOK RecordTellsTheRun ReportCountsEachVerdictOnce
  JudgedWithItsProfile RollbackRestores ProbeHidesNothing SessionIsArchived
CHECK_DEADLOCK FALSE
