SPECIFICATION Spec
CONSTANTS
  Parts = {"stack", "burst", "pair", "reassembly", "tiles", "pool"}
  c1 = c1
  c2 = c2
  c3 = c3
  k1 = k1
  k2 = k2
  k3 = k3
  Clients = {c1, c2}
  Ports <- MCPorts
  OtherPorts <- MCOtherPorts
  EveryPort = TRUE
  Backlog = 1
  MaxSockets = 2
  RxUnits = 1
  MaxUnits = 0
  MaxInbound = 1
  MaxUndrained = 0
  Keys = {k1, k2, k3}
  BlockBytes = 2
  MaxDatagram = 5
  HeaderBytes = 1
  MaxPending = 2
  Timeout = 1
  MaxTime = 2
  Capacity = 5
  MaxExhausted = 2
SYMMETRY Interchangeable
INVARIANTS CompletedTilesExactly
PROPERTIES  ExpiryIsExact BudgetSpec
