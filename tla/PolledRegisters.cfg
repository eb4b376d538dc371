SPECIFICATION SilosSpec
CONSTANTS
  Endpoints = {"plc1", "plc2"}
  FlowKeys = {"k1", "k2", "k3"}
  FlowValues = {"v1", "v2"}
  Phases = {"UNKNOWN", "RISING"}
  Layer <- SomeLayer
  Routing = {"plc2"}
  Reads <- SomeReads
  WriteKeys <- SomeWriteKeys
  Murky = {}
  Declared <- SomeConfigs
  MaxEvents = 1
INVARIANTS StateSignalIsNotMixed
CHECK_DEADLOCK FALSE
