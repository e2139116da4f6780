CONSTANTS
  Word <- MCWord
  WordBits = 32
  Plus <- MCPlus
  Minus <- MCMinus
  And <- MCAnd
  Or <- MCOr
  Xor <- MCXor
  Not <- MCNot
  Rotl <- MCRotl
  Ror <- MCRor
  Shl <- MCShl
  Shr <- MCShr
  Ones <- MCOnes
  Const <- MCConst
  Unset <- MCUnset
  Inputs <- MCInputs
  Chains <- MCChains
SPECIFICATION Spec
INVARIANT PublishedDigests
CHECK_DEADLOCK FALSE
