SPECIFICATION StalledSpec
CONSTANTS
  Calls = {c1}
  MaxStreams = 1
  Reuse = FALSE
  UnknownReady <- MCAnswers
  NoCall = NoCall
PROPERTY CancelDelivered
CHECK_DEADLOCK FALSE
