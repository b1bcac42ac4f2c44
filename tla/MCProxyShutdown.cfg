SPECIFICATION FairSpec
CONSTANTS
  LastFd = 4
  Passive = {0}
  ITEMS_MAX_SIZE = 4
  Obj = {o1, o2}
  Thread = {t1, t2}
  MAX_POOL = 1
  NULL = NULL
  MaxConnections = 2
  JobMallocFails = FALSE
  ShutdownAllowed = TRUE
INVARIANTS
  ShutdownFreesAll
  SessionInv
PROPERTIES
  ShutdownTerminates
  ResolutionEnds
