SPECIFICATION Spec
CONSTANTS
  Parts = {"relay", "quic", "sessions", "fragments", "dialer", "transports", "carriers", "encrypted"}
  Clients = {"a", "b", "c"}
  Slots = {1, 2, 3}
  MaxAssociations = 2
  AssociationDepth = 1
  MaxOffered = 3
  Streams = {1}
  ChannelDepth = 1
  SinkDepth = 1
  MaxIn = 2
  MaxOut = 1
  Callers = {"x", "y"}
  Generations = {1, 2, 3}
  MaxSessions = 2
  MaxPackets = 3
  MaxLength = 4
  FrameBudget = 1
  MaxFragments = 3
  PacketIds = 4
  Dials = {1, 2, 3}
  Addresses <- MCAddresses
  PortStart = 1
  PortEnd = 3
  MaxMoves = 1
  Stacks = {"plain", "tls", "websocket", "upgrade", "grpc", "http", "quic", "shadowsocks", "socks5", "direct"}
  Flows = {"f", "g"}
  TcpConnect = 1
  TlsHandshake = 2
  ProxyDial = 3
  Slices = 2
  MaxQueued = 3
  Queries = {"p", "q"}
  MaxConns = 3
  MaxIdle = 1
INVARIANTS StreamsWhole  RepliesToTheirQueries
PROPERTIES AdmissionExact  
CHECK_DEADLOCK FALSE
