SPECIFICATION CQFairSpec
CONSTANTS
  c1 = c1  c2 = c2  c3 = c3  c4 = c4  a1 = a1  a2 = a2  b1 = b1  ta = ta  tb = tb
  Cmds = {c1, c2, c3, c4}
  Light = {c4}
  Attempts = {a1, a2, b1}
  Tasks = {ta, tb}
  OwnerOf <- MCOwnerOf
  TaskOf <- MCTaskOf
  Slots = {0, 2}
INVARIANTS NoIdleSlot HoldIsTrue OnlyOwnStops
PROPERTIES LimitRespected EachIsServed
\* Every command may be over and every attempt ended: the system may really stop.
CHECK_DEADLOCK FALSE
