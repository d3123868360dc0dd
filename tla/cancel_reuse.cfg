SPECIFICATION Spec
CONSTANTS
  Calls = {c1, c2}
  MaxStreams = 1
  Reuse = TRUE
  UnknownReady <- MCDenies
  NoCall = NoCall
INVARIANT CancelSound
CHECK_DEADLOCK FALSE
