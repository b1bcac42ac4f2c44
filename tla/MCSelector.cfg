SPECIFICATION Spec
CONSTANTS
  Fd = {0, 3, 4}
  ITEMS_MAX_SIZE = 4
  Initial = {0, 1, 4}
  Interest <- MCInterest
  Thread = {t1, t2}
  Job = {j1, j2}
  NULL = NULL
  NoCall = NoCall
INVARIANTS
  TypeOK
  TableExact
  JobsAccounted
  PromiseInv
  DestroyClosesAll
PROPERTIES
  LoopSpec
  Notified
  Served
