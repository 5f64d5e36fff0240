SPECIFICATION Spec
CONSTANTS
  Thread = {t1, t2}
  Request <- MemoryRequests
  MaxRequests = 2
  MaxCrashes = 0
  Lower <- LowerOf
  Contains <- ContainsPairs
  Capitals <- Relations
  AdminTypes <- AdminType
  AdminEdges <- AdminEdge
  Initial <- Peopled
  Close <- Rewordings
  MaxClock = 1
  Pruning = TRUE
  NoRequest = NoRequest
  NoDb = NoDb
SYMMETRY ThreadSymmetry
CHECK_DEADLOCK FALSE
INVARIANTS
  DedupOfSettled
  StandingSpared
