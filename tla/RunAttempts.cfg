SPECIFICATION Spec
CONSTANTS
  r1 = r1  r2 = r2  None = None
  Runs = {r1, r2}
  Chain <- MCChain
SYMMETRY MCSymmetry
INVARIANTS NoneOutOfReach
PROPERTIES ReportIsFinal
\* Both runs may be over: the system may really stop.
CHECK_DEADLOCK FALSE
