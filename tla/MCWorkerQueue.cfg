\* Two jobs of different priority and start, two workers and an operator:
\* every interleaving of their statements.
SPECIFICATION Spec
CONSTANTS
  j1 = j1
  j2 = j2
  NULL = NULL
  Jobs = {j1, j2}
  Workers = {w1, w2}
  Operators = {o1}
  MaxAttempts <- MCMaxAttempts
  Priority <- MCPriority
  NotBefores = {0, 1}
  LeaseTTL = 1
  RetryAfter = 1
  MaxClock = 3
SYMMETRY Interchangeable
INVARIANTS
  TypeOK
  LiveLeaseOwnsRow
  AttemptsWithinBudget
  AttemptsBounded
  ReplayFindsDeadLetter
PROPERTIES
  EndedJobsStayEnded
  ImplementsLifecycle
  UrgentFirst
