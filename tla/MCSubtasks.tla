----------------------------- MODULE MCSubtasks -----------------------------
(* Subtasks on a lead with two or three subtasks and one or two calls at a time. *)
EXTENDS Subtasks, TLC

CONSTANTS lead, s1, s2, s3, t1, t2, p1, sweep, boot, none

MCSubs2   == {s1, s2}
MCSubs3   == {s1, s2, s3}
MCTrouble == {"message", "cancelLead", "cancelSub", "reopen", "delete",
              "promote", "accept", "add", "crash"}
MCCrash   == {"crash"}

Symmetry == Permutations(Subs)
=============================================================================
