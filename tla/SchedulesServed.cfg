SPECIFICATION FairSpec
CONSTANTS
  script = script  task = task  s1 = s1  s2 = s2  call = call  ed = ed  c1 = c1  c2 = c2
  Schedules = {script, task}
  Servers = {s1, s2}
  Calls = {}
  Editors = {}
  Confs = {c1}
  Kind <- MCKind
  NextRun <- MCNextRun
  HostOf <- MCHostOf
  Broken = {task}
  Take = 1
  Grace = 1
  ScriptMax = 3
  MaxClock = 6
  MaxStops = 1
INVARIANTS TypeOK
PROPERTIES DueIsTaken
\* Past the bounds of the clock and of the stops nothing may be left to do.
CHECK_DEADLOCK FALSE
