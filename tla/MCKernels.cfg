CONSTANTS
  Word <- MCWord
  WordBits = 4
  Plus <- MCPlus
  Minus <- MCMinus
  And <- MCAnd
  Or <- MCOr
  Xor <- MCXor
  Not <- MCNot
  Rotl <- MCRotl
  Ror <- MCRor
  Shl <- MCShl
  Shr <- MCShr
  Ones <- MCOnes
  Const <- MCConst
  Unset <- MCUnset
  Inputs <- MCInputs
  Chains <- MCChains
SPECIFICATION Spec
INVARIANTS
  TypeOK
  HandOver
PROPERTY ImplementsRfcCompression
CHECK_DEADLOCK FALSE
