CONSTANTS
  NULL = NULL
  l = l
  o = o
  b = b
  d = d
  e = e
  r = r
  q = q
  t = t
  a1 = a1
  Facts <- MCFacts
  RelOf <- MCRelOf
  GroupOf <- MCGroupOf
  KeyOf <- MCKeyOf
  Loops = {l}
  EdgePage = 2
  Initial = {o}
  Rules <- MCRules
  StratumOf <- MCStratumOf
  WhenOf <- MCWhenOf
  ThenOf <- MCThenOf
  Ground <- MCGround
  Kinds <- MCKinds
  KeyRank <- MCKeyRank
  Arriving <- MCArriving
  IngestRels = {q}
  MaxArrivals = 1
  MaxFailures = 1
  MaxIterations = 6
  Agents = {a1}
  Learners = {a1}
  MaxProposals = 2
  PendingCap = 2
  TotalCap = 2
  PageMax = 1
  SweepCap = 1
SPECIFICATION Spec
INVARIANTS TypeOK OnlyReadyLands LandedAreTold RuleEdgesIndexed
PROPERTIES LostOnlyToRaces DecisionsAreFinal ReadyIsDecided ToldIsInferred
CHECK_DEADLOCK FALSE
