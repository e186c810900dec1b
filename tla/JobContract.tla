---------------------------- MODULE JobContract ----------------------------
(***************************************************************************)
(* What both queue drivers promise about a job (queue.constants.ts): one   *)
(* attempt.  A job that was accepted waits until it is started or dropped, *)
(* a started one is over when its call returns or the process dies, and    *)
(* nothing brings a job back.                                              *)
(***************************************************************************)
EXTENDS Naturals

CONSTANT Jobs

VARIABLES
  waiting,  \* accepted and not started
  running,  \* started and not over
  attempts  \* how often each job was started

vars == <<waiting, running, attempts>>

Init ==
  /\ waiting = {} /\ running = {}
  /\ attempts = [j \in Jobs |-> 0]

Accept(j) ==
  /\ j \notin waiting \cup running /\ attempts[j] = 0
  /\ waiting' = waiting \cup {j}
  /\ UNCHANGED <<running, attempts>>

Start(j) ==
  /\ j \in waiting
  /\ waiting' = waiting \ {j} /\ running' = running \cup {j}
  /\ attempts' = [attempts EXCEPT ![j] = @ + 1]

Drop(js) == waiting' = waiting \ js /\ UNCHANGED <<running, attempts>>

End(js) == running' = running \ js /\ UNCHANGED <<waiting, attempts>>

Next ==
  \/ \E j \in Jobs : Accept(j) \/ Start(j)
  \/ \E js \in SUBSET Jobs : Drop(js) \/ End(js)

Spec == Init /\ [][Next]_vars
============================================================================
