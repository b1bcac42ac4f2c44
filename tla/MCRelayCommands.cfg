SPECIFICATION Spec
CONSTANTS
  Size = 9
  MAX_CMD_SIZE = 4
  Text <- MCText
  Greeting <- MCGreeting
  Lines <- MCLines
  Replies <- MCReplies
  CapaReplies <- MCCapaReplies
  MaxLines = 3
  SplitRecv = {"client", "origin"}
  SplitSend = FALSE
  Eager = TRUE
  Closing = FALSE
INVARIANTS
  CommandsIntact
CHECK_DEADLOCK FALSE
