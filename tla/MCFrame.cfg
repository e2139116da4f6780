CONSTANTS
  BlockSize = 64
  LenBytes = 8
  ByteBits = 2
  Radix = 4
  CountMod = 65536
  MaxInput = 200
  WrapFrom = 32740
  WrapTo = 32780
SPECIFICATION Spec
INVARIANTS
  OneShotIsRfc
  HexFaithful
CHECK_DEADLOCK FALSE
