SPECIFICATION Spec
CONSTANTS
  Client = {c1}
  Lines <- MCLeftover
  Glyph <- MCGlyph
  Name <- MCName
  None = None
  PASS_LEN = 2
  BUFF_SIZE = 17
  First <- MCFirst
  MaxConnections = 0
  MaxBytes = 0
INVARIANTS
  PasswordAsTold
