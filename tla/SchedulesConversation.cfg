SPECIFICATION Spec
CONSTANTS
  script = script  task = task  s1 = s1  s2 = s2  call = call  ed = ed  c1 = c1  c2 = c2
  Schedules = {script, task}
  Servers = {s1}
  Calls = {call}
  Editors = {ed}
  Confs = {c1, c2}
  Kind <- MCKind
  NextRun <- MCNextRun
  HostOf <- MCHostOf
  Broken = {}
  Take = 2
  Grace = 1
  ScriptMax = 2
  MaxClock = 3
  MaxStops = 0
INVARIANTS OwnConversation
\* Past the bounds of the clock and of the stops nothing may be left to do.
CHECK_DEADLOCK FALSE
