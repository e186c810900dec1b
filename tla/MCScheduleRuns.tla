-------------------------- MODULE MCScheduleRuns --------------------------
(* ScheduleRuns: a script and a task, both of every hour. *)
EXTENDS ScheduleRuns, TLC

CONSTANTS script, task, s1, s2, call, ed, c1, c2

MCKind    == (script :> "script") @@ (task :> "task")
MCNextRun == [s \in Schedules |-> [t \in 0 .. MaxClock |-> t + 1]]
MCHostOf  == [c \in Calls |-> s1]

\* A bound of the exploration: only the task is edited and only the script is
\* run by hand.
Bound ==
  /\ row[script].conf = c1 /\ \A e \in Editors : draft[e] = NoRow \/ draft[e].id = task
  /\ \A c \in Calls : cur[c] = NoRow \/ cur[c].id = script
===========================================================================
