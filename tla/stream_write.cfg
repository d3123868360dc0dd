SPECIFICATION FairSpec
CONSTANTS
  MaxLen = 3
  MaxBytes = 5
  MaxRoom = 2
CHECK_DEADLOCK FALSE
INVARIANTS TypeOK PermitKept SuccessIsComplete ChildFirst IInv
PROPERTIES SinkSpec CallsReturn
