\* SIGTERM while a dispatch is in flight.
SPECIFICATION Spec
CONSTANTS
  Operations = {o1, o2}
  ShutdownOps = {o2}
  RegisterOps = {o1}
  BusCapacity = 2
  MaxFailures = 1
  NULL = NULL
INVARIANT InFlightDispatchesDrain
