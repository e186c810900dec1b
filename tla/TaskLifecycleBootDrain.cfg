SPECIFICATION Spec
CONSTANTS
  j1 = j1  j2 = j2  j3 = j3  c1 = c1  c2 = c2  sweep = sweep
  h1 = h1  m1 = m1  m2 = m2  continue = continue  none = none
  Hooks <- MCHooks1
  Jobs <- MCJobs2
  Clients <- MCClients1
  Sweeper = sweep
  Msgs <- MCMsgs1
  Continue = continue
  None = none
  MaxHeld = 1
  MaxContinuations = 0
  MaxCrashes = 1
  Subtask = FALSE
  MayOverrun = FALSE
PROPERTIES
  DrainedWhenTerminal
\* The task may really stop: done, with nothing held and no message to come.
CHECK_DEADLOCK FALSE
