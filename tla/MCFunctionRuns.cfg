CONSTANTS
  NULL = NULL
  a = a
  w1 = w1
  w2 = w2
  Jobs <- MCJobs
  Slots <- MCSlots
  RunOf <- MCRunOf
  Alerts = {a}
  Workers = {w1, w2}
  Schedulers = {c1}
  MaxAttempts <- MCMaxAttempts
  MaxClock = 2
  MaxFaults = 1
SPECIFICATION Spec
SYMMETRY WorkerSymmetry
INVARIANTS TypeOK NotifiedOnce CompletedMeansDone SlotsGetJobs
CHECK_DEADLOCK FALSE
