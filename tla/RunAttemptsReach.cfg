SPECIFICATION Spec
CONSTANTS
  r1 = r1  r2 = r2  None = None
  Runs = {r1, r2}
  Chain <- MCChain
SYMMETRY MCSymmetry
\* One at a time: for the others, put their line in the place of this one.
PROPERTIES CancelStopsAll
\* INVARIANTS GuardKnowsNewest
\* Both runs may be over: the system may really stop.
CHECK_DEADLOCK FALSE
