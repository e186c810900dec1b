SPECIFICATION FairSpec
CONSTANTS
  k1 = k1  k2 = k2
  Cards = {k1, k2}
  Window = 2
  Step = 2
  Extra = 1
  Limit = 3
  MaxGranted = 5
INVARIANTS ClockRuns
PROPERTIES TimeoutIsEarned AttemptEnds
\* Once the attempt is over its clock may really stop.
CHECK_DEADLOCK FALSE
