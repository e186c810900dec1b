--------------------------- MODULE MCWorkerSlots ---------------------------
(* WorkerSlots with two jobs of one shared project, one of another, one chat. *)
EXTENDS WorkerSlots

CONSTANTS a1, a2, b1, chat1, A, B, t1, t2, noProject, none

MCJobs      == {a1, a2, b1, chat1}
MCJobsSmall == {a1, a2, b1}
MCProjects  == {A, B}
MCProjectOf == [j \in Jobs |-> CASE j \in {a1, a2} -> A
                                 [] j = b1 -> B
                                 [] OTHER -> noProject]
============================================================================
