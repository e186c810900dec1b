---------------------------- MODULE ApprovalGate ----------------------------
(***************************************************************************)
(* The requests of one task's agent to a person: approvals of tool calls   *)
(* (some of them for a secret), questions, and the offer to continue a run *)
(* that ran out of steps. Each is a row; the agent's hook waits for it, a  *)
(* person, a timer or the end of the task decides it, and the task is      *)
(* `needs_approval` meanwhile.                                             *)
(*                                                                         *)
(* A step is one database statement with the synchronous code around it.   *)
(* The end of a run and the dispatch of a message are one step each here;  *)
(* TaskLifecycle has their details.                                        *)
(***************************************************************************)
EXTENDS Naturals, FiniteSets

CONSTANTS
  Approvals,  \* approval requests for tool calls
  Secrets,    \* those of them that ask for a secret value
  Questions,  \* questions of the agent
  Offers,     \* continuation requests (no agent waits for them)
  Deciders,   \* people's requests that may be in flight together
  None,
  MaxRuns,    \* bound: runs of the task
  MaxCrashes  \* bound: restarts of the process

Asks     == Approvals \cup Questions
Requests == Asks \cup Offers

ASSUME RequestsAssumption ==
  /\ IsFiniteSet(Requests) /\ None \notin Requests \cup Deciders
  /\ Secrets \subseteq Approvals
  /\ Approvals \cap Questions = {} /\ Offers \cap Asks = {}
  /\ MaxRuns \in Nat \ {0} /\ MaxCrashes \in Nat

\* "ended" stands for review, done, failed, blocked and stalled.
Over     == {"cancelled", "ended"}
Status   == {"queued", "running", "needs_approval"} \cup Over
Verdicts == {"approved", "denied", "timeout", "withdrawn"}

VARIABLES
  status,   \* Task.status
  jobs,     \* its jobs in the queue, those put aside as held messages too
  run,      \* the worker's call: none, the agent works, after, offering
  aborted,  \* the run's controller has been aborted
  gen,      \* history: runs so far
  row,      \* per request: status of its row
  of,       \* history: the run each request was made in
  hook,     \* per request: where the agent's call stands
  recheck,  \* waiters that have a read of their row in flight
  told,     \* what the waiter returned to the agent
  acting,   \* per request: what follows its verdict and is still to do
  closing,  \* questions that cancelForTask has found open
  asked,    \* per decider: the request it read as pending
  choice,   \* per decider: approve (an answer, too) or deny
  pc,       \* per decider
  stored,   \* secrets that were saved
  decided,  \* history: how often a request was decided
  crashes

task    == <<status, jobs, run, aborted, gen>>
waiters == <<hook, recheck, told>>
people  == <<asked, choice, pc>>
effects == <<acting, stored, decided>>
vars    == <<task, row, of, waiters, people, closing, effects, crashes>>

HookPC    == {"none", "mark", "subscribe", "wait", "done", "left"}
ActingPC  == {"no", "publish", "continue", "giveUp", "count", "flip"}
DeciderPC == {"free", "store", "claim"}

TypeOK ==
  /\ status \in Status /\ jobs \in 0..MaxRuns
  /\ run \in {"none", "agent", "after", "offer"} /\ aborted \in BOOLEAN
  /\ gen \in 0..MaxRuns
  /\ row \in [Requests -> {"none", "pending"} \cup Verdicts]
  /\ of \in [Requests -> 0..MaxRuns]
  /\ hook \in [Requests -> HookPC] /\ recheck \subseteq Asks
  /\ told \in [Requests -> {"nothing"} \cup Verdicts]
  /\ acting \in [Requests -> ActingPC]
  /\ closing \subseteq Questions
  /\ asked \in [Deciders -> Requests \cup {None}]
  /\ choice \in [Deciders -> {"approved", "denied"}]
  /\ pc \in [Deciders -> DeciderPC]
  /\ stored \subseteq Secrets
  /\ decided \in [Requests -> Nat] /\ crashes \in 0..MaxCrashes

Init ==
  /\ status = "queued" /\ jobs = 1
  /\ run = "none" /\ aborted = FALSE /\ gen = 0
  /\ row = [r \in Requests |-> "none"] /\ of = [r \in Requests |-> 0]
  /\ hook = [r \in Requests |-> "none"] /\ recheck = {}
  /\ told = [r \in Requests |-> "nothing"]
  /\ acting = [r \in Requests |-> "no"]
  /\ closing = {}
  /\ asked = [d \in Deciders |-> None]
  /\ choice = [d \in Deciders |-> "denied"] /\ pc = [d \in Deciders |-> "free"]
  /\ stored = {} /\ decided = [r \in Requests |-> 0]
  /\ crashes = 0

(***************************************************************************)
(* Helpers.  A definition that stands right before another one with the    *)
(* same parameters, and that nothing uses, is a faulty form of it: the     *)
(* properties are checked to notice it.                                    *)
(***************************************************************************)
Pending(r)     == row[r] = "pending"
Hook(r, to)    == hook' = [hook EXCEPT ![r] = to]
Create(r)      == row' = [row EXCEPT ![r] = "pending"]
Decide(r, v)   == /\ row' = [row EXCEPT ![r] = v]
                  /\ decided' = [decided EXCEPT ![r] = @ + 1]
Then(r, to)    == acting' = [acting EXCEPT ![r] = to]
Goto(d, to)    == pc' = [pc EXCEPT ![d] = to]
Leave(d)       == /\ Goto(d, "free") /\ asked' = [asked EXCEPT ![d] = None]
                  /\ choice' = [choice EXCEPT ![d] = "denied"]

\* setStatus(needs_approval): over a live run only. A question wants `running`.
Park(r) ==
  status' = IF \/ status = "running"
               \/ r \notin Questions /\ status = "queued"
            THEN "needs_approval" ELSE status

\* The event of a verdict makes the one who waits read the row again.
Notify(r) == recheck' = IF hook[r] = "wait" THEN recheck \cup {r} ELSE recheck

\* The task is over: cancelForTask finds its open questions.
Finish(s) == /\ status' = s
             /\ closing' = closing \cup {q \in Questions : Pending(q)}

(***************************************************************************)
(* The agent's hook: check (or ask), then waitForVerdict (or waitFor).     *)
(***************************************************************************)
Ask(r) ==
  /\ run = "agent" /\ ~aborted
  /\ row[r] = "none"
  /\ Create(r) /\ Hook(r, "mark")
  /\ of' = [of EXCEPT ![r] = gen]
  /\ UNCHANGED <<task, recheck, told, people, closing, effects, crashes>>

Mark(r) ==
  /\ hook[r] = "mark" /\ Hook(r, "subscribe")
  /\ Park(r)
  /\ UNCHANGED <<jobs, run, aborted, gen, row, of, recheck, told, people,
                 closing, effects, crashes>>

DeafSubscribe(r) ==
  /\ hook[r] = "subscribe" /\ Hook(r, "wait")
  /\ UNCHANGED <<task, row, of, recheck, told, people, closing, effects, crashes>>

\* Listen, set the timer, and read the row once: the verdict may be in. An
\* aborted agent never comes back to wait for an approval it has asked for.
Subscribe(r) ==
  /\ hook[r] = "subscribe"
  /\ \/ Hook(r, "wait") /\ recheck' = recheck \cup {r}
     \/ /\ r \in Approvals /\ (aborted \/ of[r] # gen \/ run # "agent")
        /\ Hook(r, "left") /\ UNCHANGED recheck
  /\ UNCHANGED <<task, row, of, told, people, closing, effects, crashes>>

Recheck(r) ==
  /\ r \in recheck /\ recheck' = recheck \ {r}
  /\ IF hook[r] = "wait" /\ ~Pending(r)
     THEN Hook(r, "done") /\ told' = [told EXCEPT ![r] = row[r]]
     ELSE UNCHANGED <<hook, told>>
  /\ UNCHANGED <<task, row, of, people, closing, effects, crashes>>

\* timeout, close: only a request that is still pending is flipped.
Expire(r) ==
  /\ hook[r] = "wait"
  /\ IF Pending(r)
     THEN Decide(r, "timeout") /\ Then(r, "count")
     ELSE UNCHANGED <<row, acting, decided>>
  /\ Notify(r)
  /\ UNCHANGED <<task, of, hook, told, people, closing, stored, crashes>>

HookStep(r) == Ask(r) \/ Mark(r) \/ Subscribe(r) \/ Recheck(r) \/ Expire(r)

(***************************************************************************)
(* People: decide and answer read the row, claim it, and then act.         *)
(***************************************************************************)
BareRead(d, r, v) ==
  /\ pc[d] = "free" /\ Pending(r) /\ Goto(d, "claim")
  /\ asked' = [asked EXCEPT ![d] = r] /\ choice' = [choice EXCEPT ![d] = v]
  /\ UNCHANGED <<task, row, of, waiters, closing, effects, crashes>>

StoringRead(d, r, v) ==
  /\ pc[d] = "free" /\ Pending(r)
  /\ asked' = [asked EXCEPT ![d] = r] /\ choice' = [choice EXCEPT ![d] = v]
  /\ Goto(d, IF v = "approved" THEN "store" ELSE "claim")
  /\ UNCHANGED <<task, row, of, waiters, closing, effects, crashes>>

\* A bare approval of a secret is refused. submitSecret stores it first.
Read(d, r, v) ==
  /\ pc[d] = "free" /\ Pending(r)
  /\ r \in Questions => v = "approved"
  /\ asked' = [asked EXCEPT ![d] = r] /\ choice' = [choice EXCEPT ![d] = v]
  /\ Goto(d, IF r \in Secrets /\ v = "approved" THEN "store" ELSE "claim")
  /\ UNCHANGED <<task, row, of, waiters, closing, effects, crashes>>

Store(d) ==
  /\ pc[d] = "store" /\ Goto(d, "claim")
  /\ stored' = stored \cup {asked[d]}
  /\ UNCHANGED <<task, row, of, waiters, closing, acting, decided, asked,
                 choice, crashes>>

UnguardedClaim(d) ==
  /\ pc[d] = "claim" /\ Leave(d)
  /\ Decide(asked[d], choice[d]) /\ Then(asked[d], "publish")
  /\ UNCHANGED <<task, of, waiters, closing, stored, crashes>>

\* The atomic claim: the dock, a button and a reaction may answer together.
Claim(d) ==
  /\ pc[d] = "claim" /\ Leave(d)
  /\ IF Pending(asked[d])
     THEN Decide(asked[d], choice[d]) /\ Then(asked[d], "publish")
     ELSE UNCHANGED <<row, acting, decided>>
  /\ UNCHANGED <<task, of, waiters, closing, stored, crashes>>

DeciderStep(d) ==
  \/ \E r \in Requests, v \in {"approved", "denied"} : Read(d, r, v)
  \/ Store(d) \/ Claim(d)

(***************************************************************************)
(* What follows a verdict.                                                 *)
(***************************************************************************)

\* Tell the waiter (and remember an exception, if the person said so).
Publish(r) ==
  /\ acting[r] = "publish"
  /\ Notify(r)
  /\ Then(r, IF r \notin Offers THEN "count"
             ELSE IF row[r] = "approved" THEN "continue" ELSE "giveUp")
  /\ UNCHANGED <<task, row, of, hook, told, people, closing, stored, decided, crashes>>

\* continueRun: a task that waits for it, or still runs, is queued again.
Continue(r) ==
  /\ acting[r] = "continue" /\ Then(r, "no")
  /\ IF status \in {"needs_approval", "running"}
     THEN jobs < MaxRuns /\ status' = "queued" /\ jobs' = jobs + 1
     ELSE UNCHANGED <<status, jobs>>
  /\ UNCHANGED <<run, aborted, gen, row, of, waiters, people, closing,
                 stored, decided, crashes>>

\* A denied continuation: `stalled`, whatever the task is by now.
GiveUp(r) ==
  /\ acting[r] = "giveUp" /\ Then(r, "no")
  /\ Finish("ended")
  /\ UNCHANGED <<jobs, run, aborted, gen, row, of, waiters, people,
                 stored, decided, crashes>>

\* resumeTaskIfClear: nothing else is open ...
Count(r) ==
  /\ acting[r] = "count"
  /\ Then(r, IF \E q \in Requests : Pending(q) THEN "no" ELSE "flip")
  /\ UNCHANGED <<task, row, of, waiters, people, closing, stored, decided, crashes>>

UnguardedFlip(r) ==
  /\ acting[r] = "flip" /\ Then(r, "no")
  /\ status' = "running"
  /\ UNCHANGED <<jobs, run, aborted, gen, row, of, waiters, people,
                 closing, stored, decided, crashes>>

\* ... and only a task that is still parked moves back to `running`.
Flip(r) ==
  /\ acting[r] = "flip" /\ Then(r, "no")
  /\ status' = IF status = "needs_approval" THEN "running" ELSE status
  /\ UNCHANGED <<jobs, run, aborted, gen, row, of, waiters, people,
                 closing, stored, decided, crashes>>

ActStep(r) == Publish(r) \/ Continue(r) \/ GiveUp(r) \/ Count(r) \/ Flip(r)

\* cancelForTask: close what it found, one by one.
Close(q) ==
  /\ q \in closing /\ closing' = closing \ {q}
  /\ IF Pending(q)
     THEN Decide(q, "withdrawn") /\ Then(q, "count") /\ Notify(q)
     ELSE UNCHANGED <<row, acting, decided, recheck>>
  /\ UNCHANGED <<task, of, hook, told, people, stored, crashes>>

(***************************************************************************)
(* The run around them.                                                    *)
(***************************************************************************)

\* startRunning: a job of a cancelled task is dropped. One that finds the task
\* live is put aside (its message is held) until the task is over.
Start ==
  /\ jobs > 0 /\ run = "none" /\ jobs' = jobs - 1
  /\ IF status = "cancelled" THEN UNCHANGED <<status, run, aborted, gen>>
     ELSE /\ status \in {"queued", "ended"}
          /\ gen < MaxRuns /\ gen' = gen + 1
          /\ status' = "running" /\ run' = "agent" /\ aborted' = FALSE
  /\ UNCHANGED <<row, of, waiters, people, closing, effects, crashes>>

\* An agent that waits for a verdict returns only when it is aborted.
Return ==
  /\ run = "agent" /\ run' = "after"
  /\ aborted \/ \A r \in Asks : of[r] = gen => hook[r] \in {"none", "done"}
  /\ UNCHANGED <<status, jobs, aborted, gen, row, of, waiters, people,
                 closing, effects, crashes>>

\* The worker settles the task, unless somebody has already.
Settle ==
  /\ run = "after" /\ run' = "none"
  /\ IF status \in Over THEN UNCHANGED <<status, closing>> ELSE Finish("ended")
  /\ UNCHANGED <<jobs, aborted, gen, row, of, waiters, people, effects, crashes>>

\* Out of steps: requestContinuation creates the row, announces it ...
Offer(c) ==
  /\ run = "after" /\ status \notin Over /\ row[c] = "none"
  /\ run' = "offer" /\ Create(c)
  /\ of' = [of EXCEPT ![c] = gen]
  /\ UNCHANGED <<status, jobs, aborted, gen, waiters, people, closing,
                 effects, crashes>>

\* ... and parks the task.
OfferPark(c) ==
  /\ run = "offer" /\ run' = "none"
  /\ row[c] # "none" /\ of[c] = gen
  /\ Park(c)
  /\ UNCHANGED <<jobs, aborted, gen, row, of, waiters, people, closing,
                 effects, crashes>>

\* With approvals off it is approved at once, and counted. Where a person was
\* faster the conflict fails the job.
Waive(c) ==
  /\ run = "offer" /\ run' = "none"
  /\ row[c] # "none" /\ of[c] = gen
  /\ \/ /\ Pending(c) /\ Decide(c, "approved") /\ Then(c, "publish")
        /\ UNCHANGED <<status, closing>>
     \/ /\ ~Pending(c) /\ status # "cancelled" /\ Finish("ended")
        /\ UNCHANGED <<row, decided, acting>>
  /\ UNCHANGED <<jobs, aborted, gen, of, waiters, people, stored, crashes>>

RunStep ==
  \/ Start \/ Return \/ Settle
  \/ \E c \in Offers : Offer(c) \/ OfferPark(c) \/ Waive(c)

Cancel ==
  /\ status \notin Over
  /\ Finish("cancelled") /\ jobs' = 0
  /\ aborted' = (run = "agent" \/ aborted)
  /\ UNCHANGED <<run, gen, row, of, waiters, people, effects, crashes>>

\* followUp on a task that is over.
Message ==
  /\ status \in Over /\ jobs < MaxRuns /\ gen + jobs < MaxRuns
  /\ status' = "queued" /\ jobs' = jobs + 1
  /\ UNCHANGED <<run, aborted, gen, row, of, waiters, people, closing,
                 effects, crashes>>

\* The process dies; the next one times every open request out and stalls
\* the tasks that were waiting or running.
Restart ==
  /\ crashes < MaxCrashes /\ crashes' = crashes + 1
  /\ row' = [r \in Requests |-> IF Pending(r) THEN "timeout" ELSE row[r]]
  /\ decided' = [r \in Requests |-> decided[r] + IF Pending(r) THEN 1 ELSE 0]
  /\ status' = IF status \in {"running", "needs_approval"} THEN "ended" ELSE status
  /\ run' = "none" /\ aborted' = FALSE
  /\ hook' = [r \in Requests |-> IF hook[r] \in {"none", "done"} THEN hook[r]
                                 ELSE "left"]
  /\ recheck' = {} /\ acting' = [r \in Requests |-> "no"]
  /\ closing' = {}
  /\ asked' = [d \in Deciders |-> None] /\ pc' = [d \in Deciders |-> "free"]
  /\ choice' = [d \in Deciders |-> "denied"]
  /\ UNCHANGED <<jobs, gen, of, told, stored>>

Next ==
  \/ \E r \in Asks : HookStep(r)
  \/ \E d \in Deciders : DeciderStep(d)
  \/ \E r \in Requests : ActStep(r)
  \/ \E q \in Questions : Close(q)
  \/ RunStep \/ Cancel \/ Message \/ Restart

Spec == Init /\ [][Next]_vars

(***************************************************************************)
(* Properties                                                              *)
(***************************************************************************)

\* What the agent was told stays the verdict: no late button or timer turns a
\* timeout into an approval after the agent has gone on.
ToldIsFinal == \A r \in Asks : told[r] # "nothing" => told[r] = row[r]

\* The dock, a button, the timer, the end of the task: only the first decides.
DecidedOnce == \A r \in Requests : decided[r] <= 1

\* A secret request is approved only with the secret saved.
SecretIsSaved == \A r \in Secrets : row[r] = "approved" => r \in stored

\* No hook, verdict, timer or continuation brings a task back that is over: it
\* leaves that state for `queued` by a message, or for `running` by its job.
NeverRevived ==
  [][ status' \notin Over /\ status \in Over => Message \/ Start ]_vars

\* A verdict reaches the agent that waits for it without the timer's help, also
\* one that landed before the waiter listened: a read or an event is under way.
VerdictReachesAgent ==
  \A r \in Asks :
    hook[r] = "wait" /\ ~Pending(r) => r \in recheck \/ acting[r] = "publish"

\* approvals.service.ts: "Return a task to `running` once it has no more
\* pending approvals". At rest a parked task has an open request.
ParkedHasRequest ==
  (/\ status = "needs_approval" /\ run # "offer"
   /\ \A r \in Requests : hook[r] \notin {"mark"} /\ acting[r] = "no")
    => \E r \in Requests : Pending(r)
=============================================================================
