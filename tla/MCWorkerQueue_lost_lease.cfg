\* Two workers, no operator: a fail call of a worker whose lease was reaped.
SPECIFICATION Spec
CONSTANTS
  j1 = j1
  j2 = j2
  NULL = NULL
  Jobs = {j1}
  Workers = {w1, w2}
  Operators = {}
  MaxAttempts <- MCMaxAttempts
  Priority <- MCPriority
  NotBefores = {0}
  LeaseTTL = 1
  RetryAfter = 0
  MaxClock = 2
PROPERTY LostLeaseFailIsInert
