SPECIFICATION MCSpec
CONSTANTS
  Parts = {"bytes"}
  Clients = {"c1"}
  Ports <- MCPorts
  OtherPorts = {}
  EveryPort = FALSE
  Backlog = 1
  MaxSockets = 2
  RxUnits = 2
  MaxUnits = 3
  MaxInbound = 2
  MaxUndrained = 0
  Depth = 1
  ChunkSize = 1
  MaxWrites = 1
  MaxBurst = 2
  MayEnd = FALSE
CHECK_DEADLOCK FALSE
INVARIANT CleanEndIsComplete
