SPECIFICATION Spec
CONSTANTS
  Parts = {"seam"}
  Requests <- MCRequests
  Threads = {"r1", "c1", "c2"}
  Readers = {"r1"}
  EventDepth = 1
  BufferDepth = 2
  HostCloses = FALSE
  TelemetryDepth = 2
  MaxCount = 1
  Queries = {"q1", "q2", "q3"}
  Question <- MCQuestion
  Policies <- MCPolicies
  Replies <- MCReplies
  MaxInflight = 1
  Depth = 1
  CacheEntries = 1
  MinTtl = 1
  MaxTtl = 2
  NegativeTtl = 1
  MaxReloads = 1
  MaxNow = 2
PROPERTY ContextReleased
CHECK_DEADLOCK FALSE
