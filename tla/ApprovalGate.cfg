SPECIFICATION Spec
CONSTANTS
  a1 = a1  q1 = q1  c1 = c1  d1 = d1  none = none
  Approvals = {a1}
  Secrets = {a1}
  Questions = {q1}
  Offers = {c1}
  Deciders = {d1}
  None = none
  MaxRuns = 2
  MaxCrashes = 1
INVARIANTS ToldIsFinal SecretIsSaved VerdictReachesAgent
PROPERTIES NeverRevived
\* the task may be over with nobody to send a message: it may really stop
CHECK_DEADLOCK FALSE
