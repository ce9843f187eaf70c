\* A registration and an Op::Shutdown; a bus that holds two events, one sink error.
SPECIFICATION Spec
CONSTANTS
  Operations = {o1, o2}
  ShutdownOps = {o2}
  RegisterOps = {o1}
  BusCapacity = 2
  MaxFailures = 1
  NULL = NULL
INVARIANTS
  TypeOK
  SentAfterLogged
  RegistrationIsAnnounced
  BusRetainsNewest
  ShutdownIsBarrier
PROPERTIES
  ServeReturns
  OperationsFinish
  LoggedIsPublished
  ImplementsDelivery
