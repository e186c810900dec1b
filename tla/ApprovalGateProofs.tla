------------------------ MODULE ApprovalGateProofs ------------------------
(***************************************************************************)
(* Theorems about ApprovalGate, for any sets of approvals, secrets,        *)
(* questions, offers and people, any number of runs and restarts: the      *)
(* types, that a verdict is given once, is final for the agent that heard  *)
(* it, reaches the agent that waits for it, that a secret is approved only *)
(* when it is saved, and that nothing here revives a task that is over.    *)
(*                                                                         *)
(* The lemmas follow the conjuncts of IInv, each with one step per action. *)
(***************************************************************************)
EXTENDS ApprovalGate, TLAPS

\* What a person's request has read stays a request, past its creation; one on
\* its way to claim the approval of a secret has stored it.
Answering ==
  \A d \in Deciders :
    /\ pc[d] # "free" => asked[d] \in Requests /\ row[asked[d]] # "none"
    /\ pc[d] = "store" => asked[d] \in Secrets
    /\ pc[d] = "claim" /\ asked[d] \in Secrets /\ choice[d] = "approved"
         => asked[d] \in stored

\* A hook stands behind a row, and nobody waits for an offer.
Hooked ==
  \A r \in Requests : hook[r] # "none" => r \in Asks /\ row[r] # "none"

\* A request was decided once if its row says so, and never otherwise.
Counted ==
  \A r \in Requests : decided[r] = IF row[r] \in Verdicts THEN 1 ELSE 0

IInv == /\ TypeOK /\ Answering /\ Hooked /\ Counted
        /\ ToldIsFinal /\ SecretIsSaved /\ VerdictReachesAgent

USE RequestsAssumption DEF RequestsAssumption, Requests, Asks

LEMMA InitInv == Init => IInv
<1> SUFFICES ASSUME Init PROVE IInv
  OBVIOUS
<1> USE DEF Init
<1>1. TypeOK
  <2>1. jobs \in 0..MaxRuns /\ gen \in 0..MaxRuns /\ crashes \in 0..MaxCrashes
    OBVIOUS
  <2>2. of \in [Requests -> 0..MaxRuns] /\ decided \in [Requests -> Nat]
    OBVIOUS
  <2> QED BY <2>1, <2>2 DEF TypeOK, Status, Over, Verdicts, HookPC, ActingPC, DeciderPC
<1>2. Answering /\ Hooked /\ Counted
  BY DEF Answering, Hooked, Counted, Verdicts
<1>3. ToldIsFinal /\ SecretIsSaved /\ VerdictReachesAgent
  BY DEF ToldIsFinal, SecretIsSaved, VerdictReachesAgent
<1> QED BY <1>1, <1>2, <1>3 DEF IInv

LEMMA TypeInv == ASSUME IInv, [Next]_vars PROVE TypeOK'
<1> USE DEF IInv, task, waiters, people, effects, Pending,
           TypeOK, Status, Over, Verdicts, HookPC, ActingPC, DeciderPC, Answering, Hooked
<1>1. ASSUME NEW r \in Asks, Ask(r) PROVE TypeOK'
  BY <1>1 DEF Ask, Create, Hook
<1>2. ASSUME NEW r \in Asks, Mark(r) PROVE TypeOK'
  BY <1>2 DEF Mark, Hook, Park
<1>3. ASSUME NEW r \in Asks, Subscribe(r) PROVE TypeOK'
  BY <1>3 DEF Subscribe, Hook
<1>4. ASSUME NEW r \in Asks, Recheck(r) PROVE TypeOK'
  BY <1>4 DEF Recheck, Hook
<1>5. ASSUME NEW r \in Asks, Expire(r) PROVE TypeOK'
  BY <1>5 DEF Expire, Decide, Then, Notify
<1>6. ASSUME NEW d \in Deciders, DeciderStep(d) PROVE TypeOK'
  BY <1>6 DEF DeciderStep, Read, Store, Claim, Decide, Then, Goto, Leave
<1>7. ASSUME NEW r \in Requests, Publish(r) PROVE TypeOK'
  BY <1>7 DEF Publish, Notify, Then
<1>8. ASSUME NEW r \in Requests, Continue(r) PROVE TypeOK'
  BY <1>8 DEF Continue, Then
<1>9. ASSUME NEW r \in Requests, GiveUp(r) PROVE TypeOK'
  BY <1>9 DEF GiveUp, Then, Finish
<1>10. ASSUME NEW r \in Requests, Count(r) PROVE TypeOK'
  BY <1>10 DEF Count, Then
<1>11. ASSUME NEW r \in Requests, Flip(r) PROVE TypeOK'
  BY <1>11 DEF Flip, Then
<1>12. ASSUME NEW q \in Questions, Close(q) PROVE TypeOK'
  BY <1>12 DEF Close, Decide, Then, Notify
<1>13. ASSUME Start PROVE TypeOK'
  <2>1. /\ status' \in Status /\ aborted' \in BOOLEAN
        /\ run' \in {"none", "agent", "after", "offer"}
    BY <1>13 DEF Start
  <2>2. jobs' \in 0..MaxRuns
    BY <1>13 DEF Start
  <2>3. gen' \in 0..MaxRuns
    BY <1>13 DEF Start
  <2> QED BY <1>13, <2>1, <2>2, <2>3 DEF Start
<1>14. ASSUME Return PROVE TypeOK'
  BY <1>14 DEF Return
<1>15. ASSUME Settle PROVE TypeOK'
  BY <1>15 DEF Settle, Finish
<1>16. ASSUME NEW c \in Offers, Offer(c) PROVE TypeOK'
  BY <1>16 DEF Offer, Create
<1>17. ASSUME NEW c \in Offers, OfferPark(c) PROVE TypeOK'
  BY <1>17 DEF OfferPark, Park
<1>18. ASSUME NEW c \in Offers, Waive(c) PROVE TypeOK'
  BY <1>18 DEF Waive, Decide, Then, Finish
<1>19. ASSUME Cancel PROVE TypeOK'
  BY <1>19 DEF Cancel, Finish
<1>20. ASSUME Message PROVE TypeOK'
  BY <1>20 DEF Message
<1>21. ASSUME Restart PROVE TypeOK'
  <2>1. row' \in [Requests -> {"none", "pending"} \cup Verdicts]
    BY <1>21 DEF Restart
  <2>2. decided' \in [Requests -> Nat] /\ crashes' \in 0..MaxCrashes
    BY <1>21 DEF Restart
  <2>3. /\ hook' \in [Requests -> HookPC] /\ acting' \in [Requests -> ActingPC]
        /\ asked' \in [Deciders -> Requests \cup {None}]
        /\ choice' \in [Deciders -> {"approved", "denied"}]
        /\ pc' \in [Deciders -> DeciderPC]
    BY <1>21 DEF Restart
  <2>4. status' \in Status
    BY <1>21 DEF Restart
  <2> QED BY <1>21, <2>1, <2>2, <2>3, <2>4 DEF Restart
<1>22. CASE UNCHANGED vars
  BY <1>22 DEF vars
<1> QED
  BY <1>1, <1>2, <1>3, <1>4, <1>5, <1>6, <1>7, <1>8, <1>9, <1>10, <1>11, <1>12,
     <1>13, <1>14, <1>15, <1>16, <1>17, <1>18, <1>19, <1>20, <1>21, <1>22
  DEF Next, HookStep, ActStep, RunStep

LEMMA AnsweringInv == ASSUME IInv, [Next]_vars PROVE Answering'
<1> USE DEF IInv, task, waiters, people, effects, Pending,
           Answering, TypeOK, Verdicts
<1>1. ASSUME NEW r \in Asks, Ask(r) PROVE Answering'
  BY <1>1 DEF Ask, Create, Hook
<1>2. ASSUME NEW r \in Asks, Mark(r) PROVE Answering'
  BY <1>2 DEF Mark, Hook, Park
<1>3. ASSUME NEW r \in Asks, Subscribe(r) PROVE Answering'
  BY <1>3 DEF Subscribe, Hook
<1>4. ASSUME NEW r \in Asks, Recheck(r) PROVE Answering'
  BY <1>4 DEF Recheck, Hook
<1>5. ASSUME NEW r \in Asks, Expire(r) PROVE Answering'
  BY <1>5 DEF Expire, Decide, Then, Notify
<1>6. ASSUME NEW d \in Deciders, DeciderStep(d) PROVE Answering'
  BY <1>6 DEF DeciderStep, Read, Store, Claim, Decide, Then, Goto, Leave
<1>7. ASSUME NEW r \in Requests, Publish(r) PROVE Answering'
  BY <1>7 DEF Publish, Notify, Then
<1>8. ASSUME NEW r \in Requests, Continue(r) PROVE Answering'
  BY <1>8 DEF Continue, Then
<1>9. ASSUME NEW r \in Requests, GiveUp(r) PROVE Answering'
  BY <1>9 DEF GiveUp, Then, Finish
<1>10. ASSUME NEW r \in Requests, Count(r) PROVE Answering'
  BY <1>10 DEF Count, Then
<1>11. ASSUME NEW r \in Requests, Flip(r) PROVE Answering'
  BY <1>11 DEF Flip, Then
<1>12. ASSUME NEW q \in Questions, Close(q) PROVE Answering'
  BY <1>12 DEF Close, Decide, Then, Notify
<1>13. ASSUME Start PROVE Answering'
  BY <1>13 DEF Start
<1>14. ASSUME Return PROVE Answering'
  BY <1>14 DEF Return
<1>15. ASSUME Settle PROVE Answering'
  BY <1>15 DEF Settle, Finish
<1>16. ASSUME NEW c \in Offers, Offer(c) PROVE Answering'
  BY <1>16 DEF Offer, Create
<1>17. ASSUME NEW c \in Offers, OfferPark(c) PROVE Answering'
  BY <1>17 DEF OfferPark, Park
<1>18. ASSUME NEW c \in Offers, Waive(c) PROVE Answering'
  BY <1>18 DEF Waive, Decide, Then, Finish
<1>19. ASSUME Cancel PROVE Answering'
  BY <1>19 DEF Cancel, Finish
<1>20. ASSUME Message PROVE Answering'
  BY <1>20 DEF Message
<1>21. ASSUME Restart PROVE Answering'
  BY <1>21 DEF Restart
<1>22. CASE UNCHANGED vars
  BY <1>22 DEF vars
<1> QED
  BY <1>1, <1>2, <1>3, <1>4, <1>5, <1>6, <1>7, <1>8, <1>9, <1>10, <1>11, <1>12,
     <1>13, <1>14, <1>15, <1>16, <1>17, <1>18, <1>19, <1>20, <1>21, <1>22
  DEF Next, HookStep, ActStep, RunStep

LEMMA HookedInv == ASSUME IInv, [Next]_vars PROVE Hooked'
<1> USE DEF IInv, task, waiters, people, effects, Pending,
           Hooked, TypeOK, Verdicts, Answering
<1>1. ASSUME NEW r \in Asks, Ask(r) PROVE Hooked'
  BY <1>1 DEF Ask, Create, Hook
<1>2. ASSUME NEW r \in Asks, Mark(r) PROVE Hooked'
  BY <1>2 DEF Mark, Hook, Park
<1>3. ASSUME NEW r \in Asks, Subscribe(r) PROVE Hooked'
  BY <1>3 DEF Subscribe, Hook
<1>4. ASSUME NEW r \in Asks, Recheck(r) PROVE Hooked'
  BY <1>4 DEF Recheck, Hook
<1>5. ASSUME NEW r \in Asks, Expire(r) PROVE Hooked'
  BY <1>5 DEF Expire, Decide, Then, Notify
<1>6. ASSUME NEW d \in Deciders, DeciderStep(d) PROVE Hooked'
  BY <1>6 DEF DeciderStep, Read, Store, Claim, Decide, Then, Goto, Leave
<1>7. ASSUME NEW r \in Requests, Publish(r) PROVE Hooked'
  BY <1>7 DEF Publish, Notify, Then
<1>8. ASSUME NEW r \in Requests, Continue(r) PROVE Hooked'
  BY <1>8 DEF Continue, Then
<1>9. ASSUME NEW r \in Requests, GiveUp(r) PROVE Hooked'
  BY <1>9 DEF GiveUp, Then, Finish
<1>10. ASSUME NEW r \in Requests, Count(r) PROVE Hooked'
  BY <1>10 DEF Count, Then
<1>11. ASSUME NEW r \in Requests, Flip(r) PROVE Hooked'
  BY <1>11 DEF Flip, Then
<1>12. ASSUME NEW q \in Questions, Close(q) PROVE Hooked'
  BY <1>12 DEF Close, Decide, Then, Notify
<1>13. ASSUME Start PROVE Hooked'
  BY <1>13 DEF Start
<1>14. ASSUME Return PROVE Hooked'
  BY <1>14 DEF Return
<1>15. ASSUME Settle PROVE Hooked'
  BY <1>15 DEF Settle, Finish
<1>16. ASSUME NEW c \in Offers, Offer(c) PROVE Hooked'
  BY <1>16 DEF Offer, Create
<1>17. ASSUME NEW c \in Offers, OfferPark(c) PROVE Hooked'
  BY <1>17 DEF OfferPark, Park
<1>18. ASSUME NEW c \in Offers, Waive(c) PROVE Hooked'
  BY <1>18 DEF Waive, Decide, Then, Finish
<1>19. ASSUME Cancel PROVE Hooked'
  BY <1>19 DEF Cancel, Finish
<1>20. ASSUME Message PROVE Hooked'
  BY <1>20 DEF Message
<1>21. ASSUME Restart PROVE Hooked'
  BY <1>21 DEF Restart
<1>22. CASE UNCHANGED vars
  BY <1>22 DEF vars
<1> QED
  BY <1>1, <1>2, <1>3, <1>4, <1>5, <1>6, <1>7, <1>8, <1>9, <1>10, <1>11, <1>12,
     <1>13, <1>14, <1>15, <1>16, <1>17, <1>18, <1>19, <1>20, <1>21, <1>22
  DEF Next, HookStep, ActStep, RunStep

LEMMA CountedInv == ASSUME IInv, [Next]_vars PROVE Counted'
<1> USE DEF IInv, task, waiters, people, effects, Pending,
           Counted, TypeOK, Verdicts, Answering
<1>1. ASSUME NEW r \in Asks, Ask(r) PROVE Counted'
  BY <1>1 DEF Ask, Create, Hook
<1>2. ASSUME NEW r \in Asks, Mark(r) PROVE Counted'
  BY <1>2 DEF Mark, Hook, Park
<1>3. ASSUME NEW r \in Asks, Subscribe(r) PROVE Counted'
  BY <1>3 DEF Subscribe, Hook
<1>4. ASSUME NEW r \in Asks, Recheck(r) PROVE Counted'
  BY <1>4 DEF Recheck, Hook
<1>5. ASSUME NEW r \in Asks, Expire(r) PROVE Counted'
  BY <1>5 DEF Expire, Decide, Then, Notify
<1>6. ASSUME NEW d \in Deciders, DeciderStep(d) PROVE Counted'
  BY <1>6 DEF DeciderStep, Read, Store, Claim, Decide, Then, Goto, Leave
<1>7. ASSUME NEW r \in Requests, Publish(r) PROVE Counted'
  BY <1>7 DEF Publish, Notify, Then
<1>8. ASSUME NEW r \in Requests, Continue(r) PROVE Counted'
  BY <1>8 DEF Continue, Then
<1>9. ASSUME NEW r \in Requests, GiveUp(r) PROVE Counted'
  BY <1>9 DEF GiveUp, Then, Finish
<1>10. ASSUME NEW r \in Requests, Count(r) PROVE Counted'
  BY <1>10 DEF Count, Then
<1>11. ASSUME NEW r \in Requests, Flip(r) PROVE Counted'
  BY <1>11 DEF Flip, Then
<1>12. ASSUME NEW q \in Questions, Close(q) PROVE Counted'
  BY <1>12 DEF Close, Decide, Then, Notify
<1>13. ASSUME Start PROVE Counted'
  BY <1>13 DEF Start
<1>14. ASSUME Return PROVE Counted'
  BY <1>14 DEF Return
<1>15. ASSUME Settle PROVE Counted'
  BY <1>15 DEF Settle, Finish
<1>16. ASSUME NEW c \in Offers, Offer(c) PROVE Counted'
  BY <1>16 DEF Offer, Create
<1>17. ASSUME NEW c \in Offers, OfferPark(c) PROVE Counted'
  BY <1>17 DEF OfferPark, Park
<1>18. ASSUME NEW c \in Offers, Waive(c) PROVE Counted'
  BY <1>18 DEF Waive, Decide, Then, Finish
<1>19. ASSUME Cancel PROVE Counted'
  BY <1>19 DEF Cancel, Finish
<1>20. ASSUME Message PROVE Counted'
  BY <1>20 DEF Message
<1>21. ASSUME Restart PROVE Counted'
  BY <1>21 DEF Restart
<1>22. CASE UNCHANGED vars
  BY <1>22 DEF vars
<1> QED
  BY <1>1, <1>2, <1>3, <1>4, <1>5, <1>6, <1>7, <1>8, <1>9, <1>10, <1>11, <1>12,
     <1>13, <1>14, <1>15, <1>16, <1>17, <1>18, <1>19, <1>20, <1>21, <1>22
  DEF Next, HookStep, ActStep, RunStep

LEMMA ToldInv == ASSUME IInv, [Next]_vars PROVE ToldIsFinal'
<1> USE DEF IInv, task, waiters, people, effects, Pending,
           ToldIsFinal, TypeOK, Verdicts, Hooked, Answering
<1>1. ASSUME NEW r \in Asks, Ask(r) PROVE ToldIsFinal'
  BY <1>1 DEF Ask, Create, Hook
<1>2. ASSUME NEW r \in Asks, Mark(r) PROVE ToldIsFinal'
  BY <1>2 DEF Mark, Hook, Park
<1>3. ASSUME NEW r \in Asks, Subscribe(r) PROVE ToldIsFinal'
  BY <1>3 DEF Subscribe, Hook
<1>4. ASSUME NEW r \in Asks, Recheck(r) PROVE ToldIsFinal'
  BY <1>4 DEF Recheck, Hook
<1>5. ASSUME NEW r \in Asks, Expire(r) PROVE ToldIsFinal'
  BY <1>5 DEF Expire, Decide, Then, Notify
<1>6. ASSUME NEW d \in Deciders, DeciderStep(d) PROVE ToldIsFinal'
  BY <1>6 DEF DeciderStep, Read, Store, Claim, Decide, Then, Goto, Leave
<1>7. ASSUME NEW r \in Requests, Publish(r) PROVE ToldIsFinal'
  BY <1>7 DEF Publish, Notify, Then
<1>8. ASSUME NEW r \in Requests, Continue(r) PROVE ToldIsFinal'
  BY <1>8 DEF Continue, Then
<1>9. ASSUME NEW r \in Requests, GiveUp(r) PROVE ToldIsFinal'
  BY <1>9 DEF GiveUp, Then, Finish
<1>10. ASSUME NEW r \in Requests, Count(r) PROVE ToldIsFinal'
  BY <1>10 DEF Count, Then
<1>11. ASSUME NEW r \in Requests, Flip(r) PROVE ToldIsFinal'
  BY <1>11 DEF Flip, Then
<1>12. ASSUME NEW q \in Questions, Close(q) PROVE ToldIsFinal'
  BY <1>12 DEF Close, Decide, Then, Notify
<1>13. ASSUME Start PROVE ToldIsFinal'
  BY <1>13 DEF Start
<1>14. ASSUME Return PROVE ToldIsFinal'
  BY <1>14 DEF Return
<1>15. ASSUME Settle PROVE ToldIsFinal'
  BY <1>15 DEF Settle, Finish
<1>16. ASSUME NEW c \in Offers, Offer(c) PROVE ToldIsFinal'
  BY <1>16 DEF Offer, Create
<1>17. ASSUME NEW c \in Offers, OfferPark(c) PROVE ToldIsFinal'
  BY <1>17 DEF OfferPark, Park
<1>18. ASSUME NEW c \in Offers, Waive(c) PROVE ToldIsFinal'
  BY <1>18 DEF Waive, Decide, Then, Finish
<1>19. ASSUME Cancel PROVE ToldIsFinal'
  BY <1>19 DEF Cancel, Finish
<1>20. ASSUME Message PROVE ToldIsFinal'
  BY <1>20 DEF Message
<1>21. ASSUME Restart PROVE ToldIsFinal'
  BY <1>21 DEF Restart
<1>22. CASE UNCHANGED vars
  BY <1>22 DEF vars
<1> QED
  BY <1>1, <1>2, <1>3, <1>4, <1>5, <1>6, <1>7, <1>8, <1>9, <1>10, <1>11, <1>12,
     <1>13, <1>14, <1>15, <1>16, <1>17, <1>18, <1>19, <1>20, <1>21, <1>22
  DEF Next, HookStep, ActStep, RunStep

LEMMA SecretInv == ASSUME IInv, [Next]_vars PROVE SecretIsSaved'
<1> USE DEF IInv, task, waiters, people, effects, Pending,
           SecretIsSaved, TypeOK, Verdicts, Answering
<1>1. ASSUME NEW r \in Asks, Ask(r) PROVE SecretIsSaved'
  BY <1>1 DEF Ask, Create, Hook
<1>2. ASSUME NEW r \in Asks, Mark(r) PROVE SecretIsSaved'
  BY <1>2 DEF Mark, Hook, Park
<1>3. ASSUME NEW r \in Asks, Subscribe(r) PROVE SecretIsSaved'
  BY <1>3 DEF Subscribe, Hook
<1>4. ASSUME NEW r \in Asks, Recheck(r) PROVE SecretIsSaved'
  BY <1>4 DEF Recheck, Hook
<1>5. ASSUME NEW r \in Asks, Expire(r) PROVE SecretIsSaved'
  BY <1>5 DEF Expire, Decide, Then, Notify
<1>6. ASSUME NEW d \in Deciders, DeciderStep(d) PROVE SecretIsSaved'
  BY <1>6 DEF DeciderStep, Read, Store, Claim, Decide, Then, Goto, Leave
<1>7. ASSUME NEW r \in Requests, Publish(r) PROVE SecretIsSaved'
  BY <1>7 DEF Publish, Notify, Then
<1>8. ASSUME NEW r \in Requests, Continue(r) PROVE SecretIsSaved'
  BY <1>8 DEF Continue, Then
<1>9. ASSUME NEW r \in Requests, GiveUp(r) PROVE SecretIsSaved'
  BY <1>9 DEF GiveUp, Then, Finish
<1>10. ASSUME NEW r \in Requests, Count(r) PROVE SecretIsSaved'
  BY <1>10 DEF Count, Then
<1>11. ASSUME NEW r \in Requests, Flip(r) PROVE SecretIsSaved'
  BY <1>11 DEF Flip, Then
<1>12. ASSUME NEW q \in Questions, Close(q) PROVE SecretIsSaved'
  BY <1>12 DEF Close, Decide, Then, Notify
<1>13. ASSUME Start PROVE SecretIsSaved'
  BY <1>13 DEF Start
<1>14. ASSUME Return PROVE SecretIsSaved'
  BY <1>14 DEF Return
<1>15. ASSUME Settle PROVE SecretIsSaved'
  BY <1>15 DEF Settle, Finish
<1>16. ASSUME NEW c \in Offers, Offer(c) PROVE SecretIsSaved'
  BY <1>16 DEF Offer, Create
<1>17. ASSUME NEW c \in Offers, OfferPark(c) PROVE SecretIsSaved'
  BY <1>17 DEF OfferPark, Park
<1>18. ASSUME NEW c \in Offers, Waive(c) PROVE SecretIsSaved'
  BY <1>18 DEF Waive, Decide, Then, Finish
<1>19. ASSUME Cancel PROVE SecretIsSaved'
  BY <1>19 DEF Cancel, Finish
<1>20. ASSUME Message PROVE SecretIsSaved'
  BY <1>20 DEF Message
<1>21. ASSUME Restart PROVE SecretIsSaved'
  BY <1>21 DEF Restart
<1>22. CASE UNCHANGED vars
  BY <1>22 DEF vars
<1> QED
  BY <1>1, <1>2, <1>3, <1>4, <1>5, <1>6, <1>7, <1>8, <1>9, <1>10, <1>11, <1>12,
     <1>13, <1>14, <1>15, <1>16, <1>17, <1>18, <1>19, <1>20, <1>21, <1>22
  DEF Next, HookStep, ActStep, RunStep

LEMMA VerdictInv == ASSUME IInv, [Next]_vars PROVE VerdictReachesAgent'
<1> USE DEF IInv, task, waiters, people, effects, Pending,
           VerdictReachesAgent, TypeOK, Answering
<1>1. ASSUME NEW r \in Asks, Ask(r) PROVE VerdictReachesAgent'
  BY <1>1 DEF Ask, Create, Hook
<1>2. ASSUME NEW r \in Asks, Mark(r) PROVE VerdictReachesAgent'
  BY <1>2 DEF Mark, Hook, Park
<1>3. ASSUME NEW r \in Asks, Subscribe(r) PROVE VerdictReachesAgent'
  BY <1>3 DEF Subscribe, Hook
<1>4. ASSUME NEW r \in Asks, Recheck(r) PROVE VerdictReachesAgent'
  BY <1>4 DEF Recheck, Hook
<1>5. ASSUME NEW r \in Asks, Expire(r) PROVE VerdictReachesAgent'
  BY <1>5 DEF Expire, Decide, Then, Notify
<1>6. ASSUME NEW d \in Deciders, DeciderStep(d) PROVE VerdictReachesAgent'
  BY <1>6 DEF DeciderStep, Read, Store, Claim, Decide, Then, Goto, Leave
<1>7. ASSUME NEW r \in Requests, Publish(r) PROVE VerdictReachesAgent'
  BY <1>7 DEF Publish, Notify, Then
<1>8. ASSUME NEW r \in Requests, Continue(r) PROVE VerdictReachesAgent'
  BY <1>8 DEF Continue, Then
<1>9. ASSUME NEW r \in Requests, GiveUp(r) PROVE VerdictReachesAgent'
  BY <1>9 DEF GiveUp, Then, Finish
<1>10. ASSUME NEW r \in Requests, Count(r) PROVE VerdictReachesAgent'
  BY <1>10 DEF Count, Then
<1>11. ASSUME NEW r \in Requests, Flip(r) PROVE VerdictReachesAgent'
  BY <1>11 DEF Flip, Then
<1>12. ASSUME NEW q \in Questions, Close(q) PROVE VerdictReachesAgent'
  BY <1>12 DEF Close, Decide, Then, Notify
<1>13. ASSUME Start PROVE VerdictReachesAgent'
  BY <1>13 DEF Start
<1>14. ASSUME Return PROVE VerdictReachesAgent'
  BY <1>14 DEF Return
<1>15. ASSUME Settle PROVE VerdictReachesAgent'
  BY <1>15 DEF Settle, Finish
<1>16. ASSUME NEW c \in Offers, Offer(c) PROVE VerdictReachesAgent'
  BY <1>16 DEF Offer, Create
<1>17. ASSUME NEW c \in Offers, OfferPark(c) PROVE VerdictReachesAgent'
  BY <1>17 DEF OfferPark, Park
<1>18. ASSUME NEW c \in Offers, Waive(c) PROVE VerdictReachesAgent'
  BY <1>18 DEF Waive, Decide, Then, Finish
<1>19. ASSUME Cancel PROVE VerdictReachesAgent'
  BY <1>19 DEF Cancel, Finish
<1>20. ASSUME Message PROVE VerdictReachesAgent'
  BY <1>20 DEF Message
<1>21. ASSUME Restart PROVE VerdictReachesAgent'
  BY <1>21 DEF Restart
<1>22. CASE UNCHANGED vars
  BY <1>22 DEF vars
<1> QED
  BY <1>1, <1>2, <1>3, <1>4, <1>5, <1>6, <1>7, <1>8, <1>9, <1>10, <1>11, <1>12,
     <1>13, <1>14, <1>15, <1>16, <1>17, <1>18, <1>19, <1>20, <1>21, <1>22
  DEF Next, HookStep, ActStep, RunStep

LEMMA Inductive == Spec => []IInv
<1>1. IInv /\ [Next]_vars => IInv'
  BY TypeInv, AnsweringInv, HookedInv, CountedInv, ToldInv, SecretInv, VerdictInv DEF IInv
<1> QED BY <1>1, InitInv, PTL DEF Spec

\* Status, rows, hooks, people and counters keep their types.
THEOREM TypeCorrect == Spec => []TypeOK
<1>1. IInv => TypeOK
  BY DEF IInv
<1> QED BY <1>1, Inductive, PTL

\* What the agent was told stays the verdict.
THEOREM ToldIsFinalHolds == Spec => []ToldIsFinal
<1>1. IInv => ToldIsFinal
  BY DEF IInv
<1> QED BY <1>1, Inductive, PTL

\* However many people, timers and ends of the task race, one of them decides.
THEOREM DecidedOnceHolds == Spec => []DecidedOnce
<1>1. IInv => DecidedOnce
  BY DEF IInv, Counted, DecidedOnce
<1> QED BY <1>1, Inductive, PTL

\* A secret's request is approved only with the secret saved.
THEOREM SecretIsSavedHolds == Spec => []SecretIsSaved
<1>1. IInv => SecretIsSaved
  BY DEF IInv
<1> QED BY <1>1, Inductive, PTL

\* A verdict is never lost to the agent that waits for it.
THEOREM VerdictReachesAgentHolds == Spec => []VerdictReachesAgent
<1>1. IInv => VerdictReachesAgent
  BY DEF IInv
<1> QED BY <1>1, Inductive, PTL

LEMMA NotRevived ==
  ASSUME IInv, [Next]_vars, status' \notin Over, status \in Over
  PROVE  Message \/ Start
<1> USE DEF IInv, TypeOK, task, Over
<1>1. ASSUME NEW r \in Asks, Ask(r) PROVE Message \/ Start
  BY <1>1 DEF Ask, Create, Hook
<1>2. ASSUME NEW r \in Asks, Mark(r) PROVE Message \/ Start
  BY <1>2 DEF Mark, Hook, Park
<1>3. ASSUME NEW r \in Asks, Subscribe(r) PROVE Message \/ Start
  BY <1>3 DEF Subscribe, Hook
<1>4. ASSUME NEW r \in Asks, Recheck(r) PROVE Message \/ Start
  BY <1>4 DEF Recheck, Hook
<1>5. ASSUME NEW r \in Asks, Expire(r) PROVE Message \/ Start
  BY <1>5 DEF Expire, Decide, Then, Notify
<1>6. ASSUME NEW d \in Deciders, DeciderStep(d) PROVE Message \/ Start
  BY <1>6 DEF DeciderStep, Read, Store, Claim, Decide, Then, Goto, Leave
<1>7. ASSUME NEW r \in Requests, Publish(r) PROVE Message \/ Start
  BY <1>7 DEF Publish, Notify, Then
<1>8. ASSUME NEW r \in Requests, Continue(r) PROVE Message \/ Start
  BY <1>8 DEF Continue, Then
<1>9. ASSUME NEW r \in Requests, GiveUp(r) PROVE Message \/ Start
  BY <1>9 DEF GiveUp, Then, Finish
<1>10. ASSUME NEW r \in Requests, Count(r) PROVE Message \/ Start
  BY <1>10 DEF Count, Then
<1>11. ASSUME NEW r \in Requests, Flip(r) PROVE Message \/ Start
  BY <1>11 DEF Flip, Then
<1>12. ASSUME NEW q \in Questions, Close(q) PROVE Message \/ Start
  BY <1>12 DEF Close, Decide, Then, Notify
<1>13. ASSUME Start PROVE Message \/ Start
  BY <1>13 DEF Start
<1>14. ASSUME Return PROVE Message \/ Start
  BY <1>14 DEF Return
<1>15. ASSUME Settle PROVE Message \/ Start
  BY <1>15 DEF Settle, Finish
<1>16. ASSUME NEW c \in Offers, Offer(c) PROVE Message \/ Start
  BY <1>16 DEF Offer, Create
<1>17. ASSUME NEW c \in Offers, OfferPark(c) PROVE Message \/ Start
  BY <1>17 DEF OfferPark, Park
<1>18. ASSUME NEW c \in Offers, Waive(c) PROVE Message \/ Start
  BY <1>18 DEF Waive, Decide, Then, Finish
<1>19. ASSUME Cancel PROVE Message \/ Start
  BY <1>19 DEF Cancel, Finish
<1>20. ASSUME Message PROVE Message \/ Start
  BY <1>20 DEF Message
<1>21. ASSUME Restart PROVE Message \/ Start
  BY <1>21 DEF Restart
<1>22. CASE UNCHANGED vars
  BY <1>22 DEF vars
<1> QED
  BY <1>1, <1>2, <1>3, <1>4, <1>5, <1>6, <1>7, <1>8, <1>9, <1>10, <1>11, <1>12,
     <1>13, <1>14, <1>15, <1>16, <1>17, <1>18, <1>19, <1>20, <1>21, <1>22
  DEF Next, HookStep, ActStep, RunStep

\* A task that is over is opened again only by a message or by its own job, not
\* by a verdict, a timer, a hook or a continuation that comes late.
THEOREM NeverRevivedHolds == Spec => NeverRevived
<1>1. IInv /\ [Next]_vars
        => [ status' \notin Over /\ status \in Over => Message \/ Start ]_vars
  BY NotRevived
<1> QED BY <1>1, Inductive, PTL DEF Spec, NeverRevived
=============================================================================
