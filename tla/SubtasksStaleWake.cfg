SPECIFICATION Spec
CONSTANTS
  lead = lead  s1 = s1  s2 = s2  s3 = s3  t1 = t1  t2 = t2  p1 = p1
  sweep = sweep  boot = boot  none = none
  Lead = lead
  Subs <- MCSubs2
  Tools = {t1}
  Clients = {}
  Sweeper = sweep
  Boot = boot
  None = none
  Acts = {}
  Ends = {"ok", "blocked"}
  Phases = 2
  MaxHeld = 1
  MaxTrouble = 0
SYMMETRY Symmetry
PROPERTIES WakeIsCurrent
\* everything may be over and nobody has to act: the system may really stop
CHECK_DEADLOCK FALSE
