SPECIFICATION FairSpec
CONSTANTS
  N = 4
  Graphs <- MCGraphs
  MaxUsage = 1
  TokenCeiling = 1
  DepthCeiling = 3
INVARIANTS SuccessMeansAllOk DependenciesFirst HaltStops NothingSkipped
PROPERTY EveryRunReturns
