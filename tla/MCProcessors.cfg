\* Code with several implementations, one machine per behaviour; see MCProcessors
\* for the instances.
SPECIFICATION Spec
CONSTANTS
  Ctxs = {c1, c2}
  Stale = Stale
SYMMETRY Symmetry
INVARIANTS
  OpenAesSurvivesFailures
  OpenAesRoundTrips
  AesRoundsAgree
  AesBlocksAgree
  IntUtilIsExact
  WaysAreIndependent
  CpuReportsOwnLeaf
PROPERTIES
  PortsImplementReference
  Sha256ImplementsStandard
CHECK_DEADLOCK FALSE
