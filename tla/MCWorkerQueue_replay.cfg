\* Two operators replaying the same dead letter.
SPECIFICATION Spec
CONSTANTS
  j1 = j1
  j2 = j2
  NULL = NULL
  Jobs = {j1}
  Workers = {w1, w2}
  Operators = {o1, o2}
  MaxAttempts <- MCMaxAttempts
  Priority <- MCPriority
  NotBefores = {0}
  LeaseTTL = 1
  RetryAfter = 0
  MaxClock = 1
PROPERTY ReplayNeverResurrects
