SPECIFICATION MCSpec
CONSTANTS
  c1 = c1
  c2 = c2
  a1 = a1
  a2 = a2
  Parts = {"kinds"}
  MinIpv6Mtu = 4
  MinQuicMtu = 3
  Clients = {c1}
  Addresses = {a1}
  Packets <- Segments
  Filter = "InspectHttp"
  Dns = "Intercept"
  Paths <- OnlyPacketPath
  PathMtu = 6
  FlowBuffer = 1
  MaxFlows = 2
  PoolSlices = 3
  MaxInspected = 1
  IcmpBurst = 1
  MayExpire = FALSE
  MaxReady = 4
INVARIANT ConnectionKeepsItsHost
