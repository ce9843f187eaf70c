\* A value is approved and another one supersedes it.
SPECIFICATION HistorySpec
CONSTANTS
  NULL = NULL
  r1 = r1
  r2 = r2
  Subjects = {1}
  Objects = {2, 3}
  Initial <- MCApproved
  Proposed <- MCNewlyProposed
  Arriving = {}
  Scans = {r1}
  Page = 2
  MaxDay = 2
INVARIANT NewFactIsCurrent
