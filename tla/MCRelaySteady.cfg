SPECIFICATION Spec
CONSTANTS
  Size = 9
  MAX_CMD_SIZE = 4
  Text <- MCText
  Greeting <- MCGreeting
  Lines <- MCLines
  Replies <- MCReplies
  CapaReplies <- MCCapaReplies
  MaxLines = 3
  SplitRecv = {}
  SplitSend = FALSE
  Eager = FALSE
  Closing = TRUE
INVARIANTS
  TypeOK
  Relayed
  CommandsIntact
  NoStall
  AnswerInv
PROPERTIES
  Answered
