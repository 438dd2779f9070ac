SPECIFICATION Spec
CONSTANTS
  p = p
  q = q
  None = None
  Procs <- MCProcs
  Counts <- MCCounts
  Warmups <- MCWarmups
SYMMETRY Symmetric
INVARIANTS
  LaunchesMeetFreshStates
  MeasuresItsRounds
  MemoryEstimateHolds
  ManifestTrue
CHECK_DEADLOCK FALSE
