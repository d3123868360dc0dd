SPECIFICATION FairSpec
CONSTANTS
  Calls = {c1, c2, c3}
  MaxStreams = 2
  Reuse = FALSE
  UnknownReady <- MCAnswers
  NoCall = NoCall
INVARIANTS TypeOK PollableLive CancelSound NoLeak IInv
PROPERTY CancelDelivered
CHECK_DEADLOCK FALSE
