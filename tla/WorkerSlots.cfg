SPECIFICATION FairSpec
CONSTANTS
  a1 = a1  a2 = a2  b1 = b1  chat1 = chat1  A = A  B = B
  t1 = t1  t2 = t2  noProject = noProject  none = none
  Jobs <- MCJobs
  Chat = {chat1}
  Projects <- MCProjects
  NoProject = noProject
  ProjectOf <- MCProjectOf
  Ticks = {t1, t2}
  Slots = {1, 2}
  ChatSlots = 1
  None = none
  MaxCrashes = 1
INVARIANTS
  ProjectExclusive SlotsBalance
PROPERTIES
  OneAttempt SlotsAreUsed
\* Everything may really be over: no row left, no call in flight.
CHECK_DEADLOCK FALSE
