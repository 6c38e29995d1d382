SPECIFICATION Spec
CONSTANTS
  Parts = {"negotiation", "reading", "writing", "associations", "packets", "names", "lists"}
  Protocols = {"socks5", "hysteria2", "upgrade"}
  MaxNegotiation = 16
  Chunk = 4
  MaxPaid = 2
  Codecs = {"header", "sealed", "grpc", "raw", "websocket", "dot", "datagrams"}
  SizeLists <- MCSizes
  Base = 2
  ReadChunk = 5
  MaxChunk = 2
  MaxMessage = 2
  MaxWrite = 5
  Sessions = {1, 2, 3}
  MaxId = 3
  Width = 2
  Targets = {"s", "t", "u"}
  MaxDestinations = 2
  MaxStreams = 4
  Octet = 8
  Hops = {0, 1, 2, 3, 7}
  HeaderWords = {0, 9, 54, 63}
  OptionBytes = {0, 1, 2, 3, 4, 7}
  MaxOptions = 5
  ClampFor <- MCClamp
  InnerMtu = 6
  Sizes = {1, 5, 6, 7, 9}
  MaxErrorSize = 7
  ErrorHeader = 2
  SliceSize = 8
  Payloads <- MCPayloads
  MessageBytes = {0, 1, 2, 46, 65, 97, 192}
  MaxBytes = 5
  NameAt = {0, 2}
  MaxLabel = 2
  MaxName = 4
  ParamKeys = {0, 2, 4, 5}
  MaxParams = 4
  HeaderBytes = 2
  MinResponse = 4
  MaxResponse = 7
  MaxU16 = 3
  Requests <- MCRequests
  Replies <- MCReplies
  ListHosts = {"a", "b"}
  MaxLines = 2
  MaxTokens = 3
  MaxCount = 3
INVARIANTS
  NegotiatedExactly StreamsFramed  HopKeepsPackets MessagesExact 
PROPERTY AssociationEnds
CHECK_DEADLOCK FALSE
