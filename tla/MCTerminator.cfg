SPECIFICATION MCSpec
CONSTANTS
  Parts = {"bytes", "slots", "ends"}
  Clients = {"c1"}
  Ports <- MCPorts
  OtherPorts = {}
  EveryPort = FALSE
  Backlog = 1
  MaxSockets = 2
  RxUnits = 2
  MaxUnits = 2
  MaxInbound = 2
  MaxUndrained = 0
  Depth = 1
  ChunkSize = 2
  MaxWrites = 1
  MaxBurst = 2
  MayEnd = FALSE
INVARIANTS Lossless
PROPERTIES EndsReported
CHECK_DEADLOCK FALSE
