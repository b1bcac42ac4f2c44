SPECIFICATION Spec
CONSTANTS
  LastFd = 4
  Passive = {0}
  ITEMS_MAX_SIZE = 4
  Obj = {o1, o2, o3}
  Thread = {t1, t2}
  MAX_POOL = 1
  NULL = NULL
  MaxConnections = 4
  JobMallocFails = TRUE
  ShutdownAllowed = FALSE
SYMMETRY MCSymmetry
INVARIANTS
  TypeOK
  RefsExact
  NoDescriptorLeak
  NoAbort
  SingleWakeUp
  ResolverLive
  ReportedEventsStand
  SessionInv
  PoolSound
PROPERTIES
  LeaseSpec
