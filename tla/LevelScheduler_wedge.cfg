SPECIFICATION FairSpec
CONSTANTS
  N = 4
  MaxParallel = 2
  MaxHeavy = 2
PROPERTY LevelAlwaysReturns
CHECK_DEADLOCK FALSE
