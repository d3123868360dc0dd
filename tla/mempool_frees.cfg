SPECIFICATION Spec
CONSTANTS
  MinBlockShift = 4
  MaxBlockShift = 5
  HeaderSize = 8
  WordBits = 16
  Threads = {t1, t2}
  Allocators = {t1}
  StaleFreers = {}
  Blocks = {b1, b2, b3}
  Requests <- MCRequests
  NULL = NULL
  Data = Data
SYMMETRY BlockSymmetry
INVARIANTS TypeOK SingleOwner StacksExact Fits FallbackInside PayloadIntact IInv
PROPERTY KeepsPromise
