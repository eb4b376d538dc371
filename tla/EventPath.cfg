SPECIFICATION PathSpec
CONSTANTS
  a = a
  b = b
  NoValue = NoValue
  Keys <- ThreeKeys
  Jobs <- SomeJobs
  PendingMax = 2
  PendingTTL = 1
  Writes <- SomeWrites
  DefaultWindow = 2
  DerivedWindows = {1, 3}
  MaxWrites = 3
  MaxRespawns = 1
  Nodes <- SomeNodes
  Handles = {1, 2}
  Types = {"Float", "Int32"}
  Envelope <- Header
  MaxItems = 3
  Endpoints = {"plc1", "plc2"}
  FlowKeys = {"k1", "k2", "k3"}
  FlowValues = {"v1", "v2"}
  Phases = {"UNKNOWN", "RISING"}
  Layer <- SomeLayer
  Routing = {"plc2"}
  Reads <- SomeReads
  WriteKeys <- SomeWriteKeys
  Murky = {"plc1"}
  Declared <- SomeConfigs
  MaxEvents = 3
INVARIANTS PathTypeOK CountsEveryWrite ItemsAreTheirOwn SamplesAreTheSignal
  ReaderSeesTheSilos WritesProveCommands EveryEventIsNews
PROPERTIES AnswersTellTheJob BurstsAreSplit
CHECK_DEADLOCK FALSE
