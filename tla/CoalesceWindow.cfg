SPECIFICATION FeedSpec
CONSTANTS
  a = a
  b = b
  NoValue = NoValue
  Keys <- ThreeKeys
  Jobs <- SomeJobs
  PendingMax = 2
  PendingTTL = 1
  Writes <- SomeWrites
  DefaultWindow = 2
  DerivedWindows = {1, 3}
  MaxWrites = 3
  MaxRespawns = 1
  Nodes <- SomeNodes
  Handles = {1, 2}
  Types = {"Float", "Int32"}
  Envelope <- Header
  MaxItems = 3
PROPERTIES DerivedWindowApplies
