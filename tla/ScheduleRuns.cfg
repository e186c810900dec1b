SPECIFICATION Spec
CONSTANTS
  script = script  task = task  s1 = s1  s2 = s2  call = call  ed = ed  c1 = c1  c2 = c2
  Schedules = {script, task}
  Servers = {s1, s2}
  Calls = {call}
  Editors = {ed}
  Confs = {c1, c2}
  Kind <- MCKind
  NextRun <- MCNextRun
  HostOf <- MCHostOf
  Broken = {script}
  Take = 1
  Grace = 0
  ScriptMax = 1
  MaxClock = 2
  MaxStops = 1
CONSTRAINT Bound
INVARIANTS ScriptAlone
PROPERTIES FiresAsConfigured OncePerTime
\* Past the bounds of the clock and of the stops nothing may be left to do.
CHECK_DEADLOCK FALSE
