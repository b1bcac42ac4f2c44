SPECIFICATION Spec
CONSTANTS
  LastFd = 3
  Passive = {0}
  ITEMS_MAX_SIZE = 3
  Obj = {o1, o2}
  Thread = {t1}
  MAX_POOL = 1
  NULL = NULL
  MaxConnections = 2
  JobMallocFails = FALSE
  ShutdownAllowed = TRUE
INVARIANTS
  ResolverHoldsLiveSock
