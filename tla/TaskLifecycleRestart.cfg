SPECIFICATION FairSpec
CONSTANTS
  j1 = j1  j2 = j2  j3 = j3  c1 = c1  c2 = c2  sweep = sweep
  h1 = h1  m1 = m1  m2 = m2  continue = continue  none = none
  Hooks <- MCHooks0
  Jobs <- MCJobs2
  Clients = {}
  Sweeper = sweep
  Msgs <- MCMsgs2
  Continue = continue
  None = none
  MaxHeld = 1
  MaxContinuations = 0
  MaxCrashes = 2
  Subtask = TRUE
  MayOverrun = TRUE
INVARIANTS
  MessageAccounted
  RunningHasRun
PROPERTIES
  QueuedIsServed
\* The task may really stop: done, with nothing held and no message to come.
CHECK_DEADLOCK FALSE
