\* A pool with a connection for every job in flight.
SPECIFICATION Spec
CONSTANTS
  Jobs = {j1, j2, j3}
  MaxConcurrent = 2
  PoolSize = 2
  MaxAttempts = 2
  Loop = Loop
  Ops = Ops
INVARIANTS
  TypeOK
  NoFuturelock
  InFlightRunToCompletion
  ReturnsDrained
  ReportBalances
PROPERTIES
  ServeEnds
  ReadyJobsAreLeased
  JobsLeaveFlight
