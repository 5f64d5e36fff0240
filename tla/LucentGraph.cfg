SPECIFICATION Spec
CONSTANTS
  Thread = {t1, t2}
  Request <- GraphRequests
  MaxRequests = 4
  MaxCrashes = 0
  Lower <- LowerOf
  Contains <- ContainsPairs
  Capitals <- Relations
  AdminTypes <- AdminType
  AdminEdges <- AdminEdge
  Initial <- Peopled
  Close = {}
  MaxClock = 0
  Pruning = FALSE
  NoRequest = NoRequest
  NoDb = NoDb
SYMMETRY ThreadSymmetry
CHECK_DEADLOCK FALSE
INVARIANTS
  NothingPending
  NoLateEdge
  IdentityKept
  TypeOK
PROPERTY WholeOperations
