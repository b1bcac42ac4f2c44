SPECIFICATION Spec
CONSTANTS
  Client = {c1}
  Lines <- MCLines
  Glyph <- MCGlyph
  None = None
  PASS_LEN = 2
  BUFF_SIZE = 17
  Name <- MCName
  First <- MCFirst
  MaxConnections = 0
  MaxBytes = 0
PROPERTIES
  Answered
