\* SQLite: one connection, two jobs in flight.
SPECIFICATION Spec
CONSTANTS
  Jobs = {j1, j2, j3}
  MaxConcurrent = 2
  PoolSize = 1
  MaxAttempts = 2
  Loop = Loop
  Ops = Ops
INVARIANT InFlightRunToCompletion
