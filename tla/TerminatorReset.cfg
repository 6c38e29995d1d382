SPECIFICATION MCSpec
CONSTANTS
  Parts = {"bytes"}
  Clients = {"c1"}
  Ports <- MCPorts
  OtherPorts = {}
  EveryPort = FALSE
  Backlog = 1
  MaxSockets = 2
  RxUnits = 1
  MaxUnits = 1
  MaxInbound = 1
  MaxUndrained = 0
  Depth = 1
  ChunkSize = 1
  MaxWrites = 1
  MaxBurst = 1
  MayEnd = FALSE
CHECK_DEADLOCK FALSE
INVARIANT ResetIsNotACleanEnd
