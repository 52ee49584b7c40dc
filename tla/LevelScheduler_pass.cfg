SPECIFICATION FairSpec
CONSTANTS
  N = 6
  MaxParallel = 3
  MaxHeavy = 3
INVARIANTS NoWedge
PROPERTIES AdmitsAtomically LevelReturns

CHECK_DEADLOCK FALSE
