SPECIFICATION Spec
CONSTANTS
  Size = 10
  MAX_CMD_SIZE = 4
  Text <- MCText
  Greeting <- MCGreeting
  Lines <- MCLines
  Replies <- MCAwkward
  CapaReplies <- MCCapaReplies
  MaxLines = 2
  SplitRecv = {"origin"}
  SplitSend = TRUE
  Eager = FALSE
  Closing = FALSE
PROPERTIES
  Answered
CHECK_DEADLOCK FALSE
