SPECIFICATION FairSpec
CONSTANTS
  Keys = {k1, k2}
  Buckets = 2
  TicksPerSecond = 2
  IdleTimeout = 4
  Ceiling = 1
  EntryIds = {1, 2}
  MaxTime = 12
 
PROPERTIES PassIsComplete IdleFlowEvicted IdleFlowsSpec
CHECK_DEADLOCK FALSE
