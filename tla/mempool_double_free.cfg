SPECIFICATION Spec
CONSTANTS
  MinBlockShift = 4
  MaxBlockShift = 5
  HeaderSize = 8
  WordBits = 16
  Threads = {t1}
  Allocators = {t1}
  StaleFreers = {t1}
  Blocks = {b1, b2, b3}
  Requests <- MCRequests
  NULL = NULL
  Data = Data
SYMMETRY BlockSymmetry
INVARIANT SingleOwner
