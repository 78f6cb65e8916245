\* The inner hashes, one machine per behaviour; see MCHashes for the instances.
SPECIFICATION Spec
INVARIANTS
  SkeinHashesWholeMessage
  GroestlHashesPaddedMessage
  JhHashesPaddedMessage
  BlakeHashesPaddedMessage
  KeccakAbsorbsPaddedMessage
  JhRoundsSpread
  RoundsWorkInPlace
PROPERTIES
  ThreefishMixesNeighbours
  KeccakEnds
CHECK_DEADLOCK FALSE
