SPECIFICATION Spec
CONSTANTS
  Size = 9
  MAX_CMD_SIZE = 4
  Text <- MCText
  Greeting <- MCGreeting
  Lines <- MCLines
  Replies <- MCReplies
  CapaReplies <- MCPlainCapa
  MaxLines = 3
  SplitRecv = {}
  SplitSend = FALSE
  Eager = FALSE
  Closing = FALSE
INVARIANTS
  PipeliningTold
CHECK_DEADLOCK FALSE
