SPECIFICATION MCSpec
CONSTANTS
  c1 = c1
  c2 = c2
  a1 = a1
  a2 = a2
  Parts = {"kinds", "queues"}
  MinIpv6Mtu = 4
  MinQuicMtu = 3
  Clients = {c1}
  Addresses = {a1, a2}
  Packets <- AllKinds
  Filter = "InspectHttp"
  Dns = "Intercept"
  Paths <- AllPaths
  PathMtu = 6
  FlowBuffer = 1
  MaxFlows = 1
  PoolSlices = 2
  MaxInspected = 1
  IcmpBurst = 1
  MayExpire = TRUE
  MaxReady = 2
INVARIANTS PlansFitPath ReadyCoversQueues
PROPERTY FlowsServed
