SPECIFICATION MCSpec
CHECK_DEADLOCK FALSE
SYMMETRY Interchangeable
CONSTANTS
  Parts = {"upstream", "demotions", "sessions", "hello", "forgery", "exchange", "rewriter"}
  q1 = q1
  q2 = q2
  Callers = {q1, q2}
  Asks <- MCAsks
  SourcePorts = 1
  Depth = 1
  MaxDials = 2
  IdSpace = 2
  MaxPending = 1
  Shown <- MCShown
  MaxExtensions = 4
  c1 = c1
  c2 = c2
  h1 = h1
  h2 = h2
  Conns = {c1, c2}
  Hosts = {"a", "b"}
  Clients <- MCClients
  Allowed = {"a", "b"}
  Ttl <- MCTtl
  Strikes = 2
  PruneAt = 1
  MaxRecord = 2
  MaxClock = 3
  MaxStrikes = 3
  Handshakes = {h1, h2}
  HostNames = {"a", "b"}
  Profiles = {"p", "q"}
  LeafCapacity = 1
  LeafRefresh = 2
  MaxConnectors = 1
  MaxSessions = 1
  RulesCapacity = 1
  MaxAge = 2
  Requests = {"r1", "r2", "r3"}
  Asked <- MCAsked
  Answers <- MCAnswers
  MaxUnits = 4
  Hidden = {2}
  Policies <- MCPolicies
  MaxDecoded = 2
INVARIANTS WaitersAnswered ConnectionsFresh  StreamReplayedWhole GivenItsOwn  
 
