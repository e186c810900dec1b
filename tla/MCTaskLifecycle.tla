-------------------------- MODULE MCTaskLifecycle --------------------------
(* TaskLifecycle on small sets of job slots, requests and messages. *)
EXTENDS TaskLifecycle, TLC

CONSTANTS j1, j2, j3, c1, c2, sweep, h1, m1, m2, continue, none

MCJobs2    == {j1, j2}
MCJobs3    == {j1, j2, j3}
MCClients1 == {c1}
MCClients2 == {c1, c2}
MCHooks0   == {}
MCHooks1   == {h1}
MCMsgs1    == {m1}
MCMsgs2    == {m1, m2}

\* A bound of the exploration where there are people: the sweep is explored
\* without them (TaskLifecycleRestart), and a task that was handed back is
\* followed until that run has settled.
Bound == At(Sweeper, "free") /\ (handedBack => live # {})

Symmetry == Permutations(Jobs) \cup Permutations(Clients) \cup Permutations(Msgs)
============================================================================
