SPECIFICATION Spec
CONSTANTS
  Drivers <- MCDrivers
  Declarations <- MCDetected
  MaxChain = 1
INVARIANT NotSupportKept
