SPECIFICATION Spec
CONSTANTS
  Fields = {"token", "note"}
  Omitted = {"note"}
  Hidden = {"cache"}
  Values = {Zero, One, Unsupported}
  Zero = Zero
  One = One
  Unsupported = Unsupported
  Mistyped = Mistyped
  NotJSON = NotJSON
  Configs <- MCConfigs
  FirstTexts <- MCFirstTexts
  InstanceHandles = {i1, i2}
  Total = 3
  ChunkSizes = {2}
  Peeks <- MCPeeks
  MaxReaders = 2
  MaxRead = 2
  MaxLen = 3
  Blocks = {b1, b2}
SYMMETRY Interchangeable
CONSTRAINT Apart
INVARIANTS TypeOK NothingSkipped WholeAtEOF OwnedExactly HeldIntact RoundTrip
PROPERTY ReadsAsPromised
