SPECIFICATION Spec
CONSTANTS
  a1 = a1  q1 = q1  c1 = c1  d1 = d1  none = none
  Approvals = {}
  Secrets = {}
  Questions = {}
  Offers = {c1}
  Deciders = {d1}
  None = none
  MaxRuns = 2
  MaxCrashes = 0
INVARIANTS ParkedHasRequest
CHECK_DEADLOCK FALSE
