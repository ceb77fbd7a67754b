SPECIFICATION Spec
CONSTANTS
  NTurns = 2
  Pieces <- MCPieces
  Limit = 2
  Prefix = 1
  Channels <- MCChannels
  Thinking = Thinking
  Retrying = Retrying
  Failed = Failed
  More = More
  None = None
  MaxRounds = 1
  MaxRetries = 1
  MaxFailures = 1
  MaxQueue = 1
INVARIANTS
  DeliveryTypeOK
  AnswerIsShown
  TypingEnds
  NothingLeftStanding
\* All turns are over.
CHECK_DEADLOCK FALSE
