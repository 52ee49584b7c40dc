SPECIFICATION FairSpec
CONSTANTS
  n1 = n1
  n2 = n2
  n3 = n3
  Nodes <- MCNodes
  MaxRetries <- MCRetries
  MaxCalls = 2
  FailClosed = TRUE
  Halt = FALSE
INVARIANT AttemptsWithinPolicy
