\* Two scans over two subjects; a gate, an ingester and a user in between.
SPECIFICATION Spec
CONSTANTS
  NULL = NULL
  r1 = r1
  r2 = r2
  Subjects = {1, 2}
  Objects = {1, 2, 3}
  Initial <- MCInitial
  Proposed <- MCProposed
  Arriving <- MCArriving
  Scans = {r1, r2}
  Page = 2
  MaxDay = 2
SYMMETRY Interchangeable
INVARIANTS TypeOK OneCurrentValue
PROPERTY SubjectKeepsValue
