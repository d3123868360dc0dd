SPECIFICATION Spec
CONSTANTS
  MaxLen = 3
  MaxBytes = 3
  MaxRoom = 2
CHECK_DEADLOCK FALSE
INVARIANT CountExact
