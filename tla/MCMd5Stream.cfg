CONSTANTS
  BlockSize = 4
  LenBytes = 1
  ByteBits = 3
  Radix = 8
  CountMod = 8
  Handles = {h1, h2}
  Chunks <- MCChunks
  Prefixes <- MCPrefixes
  MaxLen = 9
  ZeroizeOnDrop = TRUE
SYMMETRY MCSymmetry
SPECIFICATION Spec
INVARIANTS
  TypeOK
  Accounted
  SplitInvariance
PROPERTY ImplementsMessageDigest
