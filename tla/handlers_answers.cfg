SPECIFICATION CallsSpec
CONSTANTS
  Imports <- MCImports
  Exports <- MCExports
  Imported <- ImportCrossings
  Arguments <- ArgumentCrossings
  Answers <- AnswerCrossings
  Drivers <- MCDrivers
  Declarations <- MCDeclarations
  MaxChain = 2
  PtrBits = 20
  zeroPtr = 8
  HeapStart = 1024
INVARIANTS TypeOK AdvertisedExactly ContextReleased CauseKept CrossingExact
