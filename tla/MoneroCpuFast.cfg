SPECIFICATION Spec
CONSTANTS
  Word <- W
  TotalBlocks = 4
  InitBlocks = 2
  TweakUnit = 1
  Stale = Stale
  Xor <- MCXor
  Add <- MCAdd
  MulHi <- MCMulHi
  MulLo <- MCMulLo
  AesRound <- MCAesRound
  KeyGenAssist <- MCKeyGenAssist
  Shuffle <- MCShuffle
  ShiftLane <- MCShiftLane
  keccakf <- MCkeccakf
  LowBits <- MCLowBits
  extra_hashes <- MCextra_hashes
  Iterations = 6
  Inputs <- FastInputs
INVARIANT
  TypeOK
PROPERTY
  ImplementsStandard
CHECK_DEADLOCK FALSE
