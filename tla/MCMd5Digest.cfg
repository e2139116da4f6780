CONSTANTS
  BlockSize = 4
  LenBytes = 2
  ByteBits = 2
  Radix = 4
  CountMod = 16
  Handles = {h1, h2}
  Chunks <- MCChunks
  MaxLen = 17
SPECIFICATION Spec
INVARIANTS
  TypeOK
  SameAsNative
PROPERTY ImplementsMessageDigest
