SPECIFICATION Spec
CONSTANTS
  Client = {c1, c2}
  Lines <- MCLines
  Glyph <- MCGlyph
  Name <- MCName
  None = None
  PASS_LEN = 2
  BUFF_SIZE = 17
  First <- MCFirst
  MaxConnections = 1
  MaxBytes = 2
INVARIANTS
  TypeOK
  Lockstep
  OwnBytes
  PasswordAsTold
PROPERTIES
  ServiceSpec
  Handled
