SPECIFICATION Spec
CONSTANTS
  Byte <- MCByte
  NUL = 0
  Size = 4
INVARIANTS
  TypeOK
  DrainedOffersAll
PROPERTIES
  QueueSpec
