SPECIFICATION Spec
CONSTANTS
  Thread = {t1, t2}
  Request <- PruningRequests
  MaxRequests = 2
  MaxCrashes = 1
  Lower <- LowerOf
  Contains <- ContainsPairs
  Capitals <- Relations
  AdminTypes <- AdminType
  AdminEdges <- AdminEdge
  Initial <- EmptyDb
  Close <- Rewordings
  MaxClock = 1
  Pruning = TRUE
  NoRequest = NoRequest
  NoDb = NoDb
CHECK_DEADLOCK FALSE
PROPERTIES
  RequestsEnd
  OverduePruned
