CONSTANTS
  BlockSize = 4
  LenBytes = 1
  ByteBits = 3
  Radix = 8
  CountMod = 8
  StreamCount = 2
  Chunks <- MCChunks
  MaxLen = 9
  Untouched = Untouched
SPECIFICATION ManySpec
INVARIANTS
  ManyTypeOK
  QueriesExact
PROPERTY ImplementsManyDigests
