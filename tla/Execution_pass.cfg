SPECIFICATION MCSpec
CONSTANTS
  Execs = {e1}
  StoresMayFail = TRUE
  MaxCancels = 2
  MaxRestarts = 2
  Clients = {c1, c2, c3}
  CallsMayFail = TRUE
  MaxTries = 2
  n1 = n1
  n2 = n2
  n3 = n3
  Nodes <- MCNodes
  MaxRetries <- MCRetries
  MaxCalls = 2
  FailClosed = TRUE
  Halt = FALSE
  Node = {n1, n2}
  Real = Real
  MaxIterations = 2
  Config <- MCConfig
  Source <- MCSource
  s1 = s1
  s2 = s2
  s3 = s3
  s4 = s4
  Sandboxes <- MCSandboxes
  Limit <- MCLimit
  OriginalSoft = 2
  OriginalHard = 3
INVARIANTS
  NoStoreAhead SettledAgree
  SerialUpdatesKept CacheOnlyCommitted
  InnerLoopWithinPolicy BudgetBoundsSuccesses
  NetworkPolicyAlone
  NestedRestores ConfinedIfUnprivileged
PROPERTIES StatusOnlyAdvances EveryRunSettles RetriesEnd FlowEnds
CHECK_DEADLOCK FALSE
