CONSTANTS
  BlockSize = 4
  LenBytes = 2
  ByteBits = 2
  Radix = 4
  CountMod = 16
  Streams <- MCStreams
  Requests <- MCRequests
  MinChunk = 2
  MaxChunk = 5
  StackBuf = 4
  MaxInterrupts = 2
SPECIFICATION Spec
INVARIANTS
  TypeOK
  Follows
  Faithful
PROPERTY Returns
