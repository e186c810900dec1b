--------------------------- MODULE TaskLifecycle ---------------------------
(***************************************************************************)
(* The life of ONE task of the orchestrator: its row (status), the         *)
(* follow-up messages held for it, the jobs the queue keeps for it, the    *)
(* worker that runs those jobs, the requests of people that act on it, the *)
(* sweep that looks for lost jobs, and a crash of the process.             *)
(*                                                                         *)
(* Tasks share no state in this code apart from the lead/subtask relation, *)
(* the project lock and the queue's slots, so one task is enough here.     *)
(*                                                                         *)
(* A step is one database statement together with the synchronous code     *)
(* that follows it up to the next `await`: the process has one thread, so  *)
(* nothing else can happen inside such a step.                             *)
(***************************************************************************)
EXTENDS Naturals, Sequences, FiniteSets

CONSTANTS
  Jobs,             \* slots for queue rows and the worker call that runs them
  Clients,          \* requests of people in flight at the same time
  Sweeper,          \* the reconcile of queued tasks (boot and every 5 minutes)
  Hooks,            \* calls of agents' hooks (approvals, questions) in flight
  Msgs,             \* follow-up messages and scheduled re-checks, each used once
  Continue,         \* the prompt of a continuation or a hand-back
  None,
  MaxHeld,          \* MAX_PENDING_FOLLOWUPS
  MaxContinuations, \* AppConfig.maxContinuations
  MaxCrashes,       \* bound of the model: restarts of the process
  Subtask,          \* has the task a lead? (its clean finish is then `done`)
  MayOverrun        \* may a run outlast the bounded wait of startRunning?

ASSUME SlotsAssumption ==
  /\ Jobs # {} /\ IsFiniteSet(Jobs)
  /\ Jobs \cap Clients = {} /\ Sweeper \notin Jobs \cup Clients
  /\ None \notin Jobs \cup Clients \cup {Sweeper} \cup Msgs \cup {Continue}
  /\ Continue \notin Msgs

ASSUME BoundsAssumption ==
  /\ MaxHeld \in Nat \ {0} /\ MaxContinuations \in Nat /\ MaxCrashes \in Nat
  /\ MayOverrun \in BOOLEAN /\ Subtask \in BOOLEAN

Procs == Jobs \cup Clients \cup {Sweeper}

\* "settled" stands for review, blocked, stalled and failed: every guard of this
\* component treats the four alike (ACCEPTABLE is exactly this set).
Terminal == {"settled", "done", "cancelled"}
Status   == {"queued", "running", "needs_approval"} \cup Terminal

\* Where a process stands. "free" is an idle slot; "queued" is an unclaimed row.
JobPC      == {"queued", "claimed", "waiting", "resumed", "prep", "agent",
               "ended", "verify", "refit", "fixing", "count", "offer", "catch",
               "write", "finish", "tail", "untracked"}
DispatchPC == {"wrote", "find", "delete", "claim", "enqueue", "hold", "create"}
ClientPC   == {"dropHeld", "dropJobs", "cancelled", "abort", "doneJobs",
               "done", "approved", "denied"}
SweepPC    == {"look", "act"}
PC == {"free"} \cup JobPC \cup DispatchPC \cup ClientPC \cup SweepPC

VARIABLES
  status,     \* Task.status
  stray,      \* history: it was parked with no agent at work or no open offer
  left,       \* history: a message was held too late for anybody to drain it
  held,       \* PendingFollowUp rows, oldest first
  pc, msg,    \* per process: where it stands, the prompt it carries
  hook,       \* per hook call: the checks, the row created, nothing to do
  open,       \* hook calls whose row is pending
  resume,     \* per hook call: what is left of resumeTaskIfClear
  cont,       \* how many continuation requests are pending
  conts,      \* how many continuations the task was ever offered
  handedBack, \* TaskWorkerService.decomposeHandedBack (in memory)
  ran,        \* the task has had an agent session
  run,        \* TasksService.runs: the job whose run is tracked (in memory)
  live,       \* jobs between startRunning and runSettled
  active,     \* RealAgentExecutor.active: whose controller is installed
  aborted,    \* jobs whose controller was aborted
  stopping,   \* cancel requests that have not yet reached executor.cancel
  overran,    \* history: a job was started over a run that outlasted the wait
  fate,       \* history: what became of each message
  crashes

calls == <<hook, open, resume>>
asks  == <<calls, cont, conts>>
shown == <<status, stray, left>>
rows  == <<shown, held, asks, ran>>
mem   == <<handedBack, run, live, active, aborted, stopping, overran>>
vars  == <<status, stray, left, held, pc, msg, hook, open, resume, cont, conts,
           handedBack, ran, run, live, active, aborted, stopping, overran,
           fate, crashes>>

agent == <<active, aborted>>
runs  == <<run, live, overran>>

Prompts == Msgs \cup {Continue, None}

TypeOK ==
  /\ status \in Status /\ stray \in BOOLEAN /\ left \in BOOLEAN
  /\ held \in Seq(Msgs \cup {Continue})
  /\ pc \in [Procs -> PC]
  /\ msg \in [Procs -> Prompts]
  /\ hook \in [Hooks -> {"free", "check", "mark"}] /\ open \subseteq Hooks
  /\ resume \in [Hooks -> {"no", "count", "flip"}]
  /\ cont \in Nat /\ conts \in Nat
  /\ handedBack \in BOOLEAN /\ ran \in BOOLEAN /\ overran \in BOOLEAN
  /\ run \in Jobs \cup {None} /\ active \in Jobs \cup {None}
  /\ live \subseteq Jobs /\ aborted \subseteq Jobs /\ stopping \subseteq Clients
  /\ fate \in [Msgs -> {"unsent", "sent", "delivered", "dropped"}]
  /\ crashes \in Nat

\* tasks.create puts the row and, unless autostart is off, the first job.
Init ==
  /\ status = "queued" /\ stray = FALSE /\ left = FALSE /\ held = <<>>
  /\ \E first \in Jobs \cup {None} :
       pc = [p \in Procs |-> IF p = first THEN "queued" ELSE "free"]
  /\ msg = [p \in Procs |-> None]
  /\ hook = [h \in Hooks |-> "free"] /\ open = {}
  /\ resume = [h \in Hooks |-> "no"]
  /\ cont = 0 /\ conts = 0 /\ ran = FALSE
  /\ handedBack = FALSE /\ run = None /\ live = {} /\ active = None
  /\ aborted = {} /\ stopping = {} /\ overran = FALSE
  /\ fate = [m \in Msgs |-> "unsent"]
  /\ crashes = 0

(***************************************************************************)
(* Helpers.  A definition that stands right before another one with the    *)
(* same parameters, and that nothing uses, is a faulty form of it (a guard *)
(* dropped, a case forgotten): the properties are checked to notice it.    *)
(***************************************************************************)
At(p, from)     == pc[p] = from
Goto(p, to)     == pc' = [pc EXCEPT ![p] = to]
Unclaimed       == {j \in Jobs : pc[j] = "queued"}
Carried(ps)     == {msg[p] : p \in ps}
InHeld          == {held[i] : i \in DOMAIN held}
Fate(ms, what)  == fate' = [m \in Msgs |-> IF m \in ms THEN what ELSE fate[m]]
Dropped(ms)     == Fate({m \in ms \cap Msgs : fate[m] = "sent"}, "dropped")

\* Where a process goes on once the message it drained or sent is dispatched:
\* a worker still in its run goes on to publish, a cancel still has to abort.
Return(p) == IF p \in live THEN "tail"
             ELSE IF p \in stopping THEN "abort" ELSE "free"

\* A status written by whoever claims, runs, settles or cancels the task: what
\* the histories say of the status before it is over.
Put(s) == status' = s /\ stray' = FALSE /\ left' = FALSE

\* setStatus(needs_approval): over a task that runs or is queued.
Parked(s) ==
  IF s \in {"running", "queued", "needs_approval"} THEN "needs_approval" ELSE s

\* Somebody is going to look for held messages: a worker that has not settled
\* yet, one that reads the status again, or a drain on its way to its claim.
Draining ==
  live # {} \/ \E p \in Procs :
                 pc[p] \in {"wrote", "untracked", "find", "delete", "claim"}

\* setStatus after a terminal write: the row has been read again, now drain
\* the held messages, but not while a run of this process is tracked (that run
\* drains when it settles).
AfterWrite(p) ==
  /\ At(p, "wrote")
  /\ Goto(p, IF run = None THEN "find" ELSE Return(p))
  /\ UNCHANGED <<rows, mem, msg, fate, crashes>>

(***************************************************************************)
(* Dispatching a message: followUp, runFollowUpNow, enqueueFollowUp,       *)
(* drainPendingFollowUp. Any process may be in the middle of it.           *)
(***************************************************************************)

\* POST follow-up: the status read that decides between running and holding.
FollowUp(c, m) ==
  /\ At(c, "free") /\ fate[m] = "unsent"
  /\ Goto(c, IF status \in Terminal THEN "claim" ELSE "hold")
  /\ msg' = [msg EXCEPT ![c] = m]
  /\ Fate({m}, "sent")
  /\ UNCHANGED <<rows, mem, crashes>>

\* POST start (after the uploads of a task created with autostart off).
Start(c) ==
  /\ At(c, "free") /\ status = "queued"
  /\ Goto(c, "enqueue")
  /\ UNCHANGED <<rows, mem, msg, fate, crashes>>

LosingClaimTask(p) ==
  /\ At(p, "claim")
  /\ IF status \in Terminal
     THEN Put("queued") /\ Goto(p, "enqueue") /\ UNCHANGED msg
     ELSE /\ UNCHANGED shown /\ Goto(p, Return(p))
          /\ msg' = [msg EXCEPT ![p] = None]
  /\ UNCHANGED <<held, asks, ran, mem, fate, crashes>>

\* runFollowUpNow: the atomic claim terminal -> queued.
ClaimTask(p) ==
  /\ At(p, "claim")
  /\ IF status \in Terminal
     THEN Put("queued") /\ Goto(p, "enqueue")
     ELSE UNCHANGED shown /\ Goto(p, "hold")
  /\ UNCHANGED <<held, asks, ran, mem, msg, fate, crashes>>

\* enqueueRun: a row in the queue; an initial run is deduplicated against the
\* rows nobody has claimed yet (EmbeddedTaskQueue.enqueue). A worker call that
\* only has this left to do may give its own slot to the new row.
Enqueue(p) ==
  /\ At(p, "enqueue")
  /\ IF msg[p] = None /\ \E j \in Unclaimed : msg[j] = None
     THEN Goto(p, Return(p)) /\ UNCHANGED msg
     ELSE \E j \in Jobs :
            /\ At(j, "free") \/ (j = p /\ j \notin live)
            /\ pc' = [pc EXCEPT ![p] = Return(p), ![j] = "queued"]
            /\ msg' = [msg EXCEPT ![p] = None, ![j] = msg[p]]
  /\ UNCHANGED <<rows, mem, fate, crashes>>

\* enqueueFollowUp: count, refuse when full (the prompt is dropped) ...
Hold(p) ==
  /\ At(p, "hold")
  /\ IF Len(held) < MaxHeld
     THEN Goto(p, "create") /\ UNCHANGED <<msg, fate>>
     ELSE /\ Goto(p, Return(p))
          /\ msg' = [msg EXCEPT ![p] = None]
          /\ Dropped({msg[p]})
  /\ UNCHANGED <<rows, mem, crashes>>

\* ... and then create the row: the count is not a reservation.
CreateHeld(p) ==
  /\ At(p, "create")
  /\ held' = Append(held, msg[p])
  /\ left' = (left \/ (status \in Terminal /\ ~Draining))
  /\ Goto(p, Return(p))
  /\ msg' = [msg EXCEPT ![p] = None]
  /\ UNCHANGED <<status, stray, asks, ran, mem, fate, crashes>>

\* drainPendingFollowUp: the oldest held message ...
FindHeld(p) ==
  /\ At(p, "find")
  /\ IF held = <<>>
     THEN Goto(p, Return(p)) /\ UNCHANGED msg
     ELSE Goto(p, "delete") /\ msg' = [msg EXCEPT ![p] = Head(held)]
  /\ UNCHANGED <<rows, mem, fate, crashes>>

\* ... is deleted (a row that is already gone is not an error) and dispatched.
DeleteHeld(p) ==
  /\ At(p, "delete")
  /\ held' = IF held # <<>> /\ Head(held) = msg[p] THEN Tail(held) ELSE held
  /\ Goto(p, "claim")
  /\ UNCHANGED <<shown, asks, ran, mem, msg, fate, crashes>>

Dispatch(p) ==
  \/ ClaimTask(p) \/ Enqueue(p) \/ Hold(p) \/ CreateHeld(p)
  \/ FindHeld(p) \/ DeleteHeld(p)

(***************************************************************************)
(* People: cancel, accept as done, withdraw a held message, decide asks.   *)
(***************************************************************************)
Cancel(c) ==
  /\ At(c, "free") /\ status \notin Terminal
  /\ Goto(c, "dropHeld")
  /\ UNCHANGED <<rows, mem, msg, fate, crashes>>

CancelDropHeld(c) ==
  /\ At(c, "dropHeld")
  /\ held' = <<>>
  /\ Dropped(InHeld)
  /\ Goto(c, "dropJobs")
  /\ UNCHANGED <<shown, asks, ran, mem, msg, crashes>>

\* TaskQueue.removeForTask: rows nobody has claimed, then on to `next`.
DropJobs(c, from, next) ==
  /\ At(c, from)
  /\ pc' = [p \in Procs |-> CASE p \in Unclaimed -> "free"
                              [] p = c -> next
                              [] OTHER -> pc[p]]
  /\ msg' = [p \in Procs |-> IF p \in Unclaimed THEN None ELSE msg[p]]
  /\ Dropped(Carried(Unclaimed))
  /\ UNCHANGED <<rows, mem, crashes>>

CancelWrite(c) ==
  /\ At(c, "cancelled")
  /\ Put("cancelled")
  /\ stopping' = stopping \cup {c}
  /\ Goto(c, "wrote")
  /\ UNCHANGED <<held, asks, ran, handedBack, runs, agent, msg, fate,
                 crashes>>

\* executor.cancel: aborts the controller that is installed, if there is one.
CancelAbort(c) ==
  /\ At(c, "abort")
  /\ aborted' = aborted \cup ({active} \ {None})
  /\ stopping' = stopping \ {c}
  /\ Goto(c, "free")
  /\ UNCHANGED <<rows, handedBack, runs, active, msg, fate, crashes>>

MarkDone(c) ==
  /\ At(c, "free") /\ status = "settled"
  /\ Goto(c, "doneJobs")
  /\ UNCHANGED <<rows, mem, msg, fate, crashes>>

MarkDoneWrite(c) ==
  /\ At(c, "done")
  /\ Put("done")
  /\ Goto(c, "wrote")
  /\ UNCHANGED <<held, asks, ran, mem, msg, fate, crashes>>

WithdrawHeld(i) ==
  /\ held' = SubSeq(held, 1, i - 1) \o SubSeq(held, i + 1, Len(held))
  /\ Dropped({held[i]})
  /\ UNCHANGED <<shown, asks, ran, mem, pc, msg, crashes>>

\* A person decides a continuation: the row is claimed first ...
DecideContinuation(c) ==
  /\ At(c, "free") /\ cont > 0
  /\ cont' = cont - 1
  /\ \E verdict \in {"approved", "denied"} : Goto(c, verdict)
  /\ UNCHANGED <<shown, held, calls, conts, ran, mem, msg, fate, crashes>>

\* ... then continueRun re-queues a task that still waits for it ...
ContinueRun(p) ==
  IF status \in {"needs_approval", "running"}
  THEN /\ Put("queued")
       /\ Goto(p, "enqueue") /\ msg' = [msg EXCEPT ![p] = Continue]
  ELSE Goto(p, Return(p)) /\ UNCHANGED <<shown, msg>>

Approved(p) ==
  /\ At(p, "approved")
  /\ ContinueRun(p)
  /\ UNCHANGED <<held, asks, ran, mem, fate, crashes>>

\* ... or the task is stalled, whatever it is by now.
Denied(c) ==
  /\ At(c, "denied")
  /\ Put("settled")
  /\ Goto(c, "wrote")
  /\ UNCHANGED <<held, asks, ran, mem, msg, fate, crashes>>

(***************************************************************************)
(* The queue and the worker: one job from its claim to runSettled.         *)
(***************************************************************************)
Claim(j) ==
  /\ At(j, "queued") /\ Goto(j, "claimed")
  /\ UNCHANGED <<rows, mem, msg, fate, crashes>>

\* startRunning: awaitRunEnd, a bounded wait for the run that is tracked.
WaitRunEnd(j) ==
  /\ At(j, "claimed") /\ run # None /\ Goto(j, "waiting")
  /\ UNCHANGED <<rows, mem, msg, fate, crashes>>

\* Those that waited for the tracked run go on when its entry is resolved.
Wake(new) == [p \in Procs |-> IF new[p] = "waiting" THEN "resumed" ELSE new[p]]

UnguardedStarted(j) ==
  /\ Put("running")
  /\ run' = j /\ live' = live \cup {j}
  /\ overran' = (overran \/ At(j, "waiting"))
  /\ pc' = (IF run = None THEN [pc EXCEPT ![j] = "prep"]
            ELSE Wake([pc EXCEPT ![j] = "prep"]))
  /\ UNCHANGED <<msg, fate>>

\* The guarded transition to running, and the entry in `runs` with it.
Started(j) ==
  /\ status \notin {"cancelled", "done", "running", "needs_approval"}
  /\ Put("running")
  /\ run' = j /\ live' = live \cup {j}
  /\ overran' = (overran \/ At(j, "waiting"))
  /\ pc' = (IF run = None THEN [pc EXCEPT ![j] = "prep"]
            ELSE Wake([pc EXCEPT ![j] = "prep"]))
  /\ UNCHANGED <<msg, fate>>

HoldingBusy(j) ==
  /\ status \in {"running", "needs_approval"}
  /\ Goto(j, "hold")
  /\ UNCHANGED <<shown, runs, msg, fate>>

ForgettingBusy(j) ==
  /\ status \in {"running", "needs_approval"}
  /\ Goto(j, "free")
  /\ msg' = [msg EXCEPT ![j] = None]
  /\ UNCHANGED <<shown, runs, fate>>

\* Another run is live or parked: a follow-up is held, an initial job dropped.
Busy(j) ==
  /\ status \in {"running", "needs_approval"}
  /\ Goto(j, IF msg[j] = None THEN "free" ELSE "hold")
  /\ UNCHANGED <<shown, runs, msg, fate>>

Gone(j) ==
  /\ status \in {"cancelled", "done"}
  /\ Goto(j, "free")
  /\ msg' = [msg EXCEPT ![j] = None] /\ Dropped({msg[j]})
  /\ UNCHANGED <<shown, runs>>

ImpatientStartRunning(j) ==
  /\ pc[j] \in {"claimed", "resumed"}
  /\ Started(j) \/ Busy(j) \/ Gone(j)
  /\ UNCHANGED <<held, asks, ran, handedBack, agent, stopping, crashes>>

StartRunning(j) ==
  /\ \/ At(j, "claimed") /\ run = None
     \/ At(j, "resumed")
     \/ At(j, "waiting") /\ MayOverrun
  /\ Started(j) \/ Busy(j) \/ Gone(j)
  /\ UNCHANGED <<held, asks, ran, handedBack, agent, stopping, crashes>>

\* Until the controller is installed nothing looks at the status again.
Attach(j) ==
  /\ At(j, "prep") /\ Goto(j, "agent")
  /\ ran' = TRUE
  /\ Fate({msg[j]} \cap Msgs, "delivered")
  /\ msg' = [msg EXCEPT ![j] = None]
  /\ aborted' = aborted \cup ({active} \ {None})
  /\ active' = j
  /\ UNCHANGED <<shown, held, asks, handedBack, runs, stopping, crashes>>

\* Checkout, secrets or the provider chain fail before an agent starts.
PrepFails(j) ==
  /\ At(j, "prep") /\ Goto(j, "catch")
  /\ Dropped({msg[j]}) /\ msg' = [msg EXCEPT ![j] = None]
  /\ UNCHANGED <<rows, mem, crashes>>

\* schedule_check: a delayed job of the same task, with a message of its own.
ScheduleCheck(j) ==
  /\ At(j, "agent") /\ j \notin aborted
  /\ \E k \in Jobs, m \in Msgs :
       /\ At(k, "free") /\ fate[m] = "unsent"
       /\ Goto(k, "queued") /\ msg' = [msg EXCEPT ![k] = m]
       /\ Fate({m}, "sent")
  /\ UNCHANGED <<rows, mem, crashes>>

\* The run ends by itself, by its deadline or by an abort.
AgentEnds(j) ==
  /\ At(j, "agent")
  /\ \E next \in {"ended", "catch"} : Goto(j, next)
  /\ active' = IF active = j THEN None ELSE active
  /\ UNCHANGED <<rows, handedBack, runs, aborted, stopping, msg, fate,
                 crashes>>

ParkingAfterRun(j) ==
  /\ At(j, "ended")
  /\ IF status \in Terminal \cup {"needs_approval"}
     THEN Goto(j, "tail")
     ELSE \/ Goto(j, "write")
          \/ /\ j \notin aborted
             /\ \E next \in {"verify", "count"} : Goto(j, next)
  /\ UNCHANGED <<rows, mem, msg, fate, crashes>>

\* The worker reads the status once the run has returned, then decides.
AfterRun(j) ==
  /\ At(j, "ended")
  /\ IF status \in Terminal
     THEN Goto(j, "tail")
     ELSE \/ Goto(j, "write")
          \/ /\ j \notin aborted
             /\ \E next \in {"verify", "count"} : Goto(j, next)
  /\ UNCHANGED <<rows, mem, msg, fate, crashes>>

\* One round of fixing after failed checks: the status is read ...
FixRound(j) ==
  /\ At(j, "verify") /\ status \notin Terminal
  /\ Goto(j, "refit")
  /\ UNCHANGED <<rows, mem, msg, fate, crashes>>

\* ... and a run of the agent starts, with a controller of its own.
FixStarts(j) ==
  /\ At(j, "refit") /\ Goto(j, "fixing")
  /\ aborted' = (aborted \ {j}) \cup ({active} \ {j, None})
  /\ active' = j
  /\ UNCHANGED <<rows, handedBack, runs, stopping, msg, fate, crashes>>

\* It returns to the checks, or throws (before it starts, too).
FixEnds(j) ==
  /\ \/ At(j, "fixing") /\ \E next \in {"verify", "catch"} : Goto(j, next)
     \/ At(j, "refit") /\ Goto(j, "catch")
  /\ active' = IF active = j THEN None ELSE active
  /\ UNCHANGED <<rows, handedBack, runs, aborted, stopping, msg, fate,
                 crashes>>

\* The gate is over: re-read the status, then finish or fail.
Verified(j) ==
  /\ At(j, "verify")
  /\ IF status \in Terminal THEN Goto(j, "tail")
     ELSE \E next \in {"finish", "write"} : Goto(j, next)
  /\ UNCHANGED <<rows, mem, msg, fate, crashes>>

\* Out of steps: offer to continue, at most MaxContinuations times, then hand
\* a top-level task back to be split, once per process, then give up.
\* requestContinuation creates the row ...
OfferContinuation(j) ==
  /\ conts < MaxContinuations /\ conts' = conts + 1
  /\ cont' = cont + 1 /\ Goto(j, "offer")
  /\ UNCHANGED <<shown, msg, handedBack>>

HandBack(j) ==
  /\ conts >= MaxContinuations /\ ~(Subtask \/ handedBack)
  /\ handedBack' = TRUE
  /\ ContinueRun(j)
  /\ UNCHANGED <<cont, conts>>

GiveUp(j) ==
  /\ conts >= MaxContinuations /\ (Subtask \/ handedBack)
  /\ Goto(j, "write")
  /\ UNCHANGED <<shown, msg, cont, conts, handedBack>>

OutOfSteps(j) ==
  /\ At(j, "count")
  /\ OfferContinuation(j) \/ HandBack(j) \/ GiveUp(j)
  /\ UNCHANGED <<held, calls, ran, runs, agent, stopping, fate, crashes>>

\* ... asks for the mode, and then parks the task for the person, who may have
\* decided already ...
OfferPark(j) ==
  /\ At(j, "offer") /\ Goto(j, "tail")
  /\ status' = Parked(status)
  /\ stray' = (status' = "needs_approval" /\ cont = 0)
  /\ UNCHANGED <<left, held, asks, ran, mem, msg, fate, crashes>>

\* ... or, with approvals off, decides by itself: an error when a person was
\* faster.
OfferWaived(j) ==
  /\ At(j, "offer")
  /\ IF cont > 0 THEN cont' = cont - 1 /\ Goto(j, "approved")
                 ELSE UNCHANGED cont /\ Goto(j, "catch")
  /\ UNCHANGED <<shown, held, calls, conts, ran, mem, msg, fate, crashes>>

\* The worker's catch: only a task already cancelled is left alone.
Catch(j) ==
  /\ At(j, "catch")
  /\ IF status = "cancelled" THEN Goto(j, "tail")
     ELSE Goto(j, "write")
  /\ UNCHANGED <<rows, mem, msg, fate, crashes>>

\* setStatus of the worker: no guard, the decision above is all there is.
WriteStatus(j) ==
  /\ pc[j] \in {"write", "finish"}
  /\ Put(IF Subtask /\ At(j, "finish") THEN "done" ELSE "settled")
  /\ Goto(j, "wrote")
  /\ UNCHANGED <<held, asks, ran, mem, msg, fate, crashes>>

\* runSettled: untrack the run, let the next one go ...
Settle(j) ==
  /\ At(j, "tail")
  /\ live' = live \ {j} /\ run' = None
  /\ aborted' = aborted \ {j}
  /\ pc' = Wake([pc EXCEPT ![j] = "untracked"])
  /\ UNCHANGED <<rows, handedBack, active, stopping, overran, msg, fate, crashes>>

ForgettingReread(j) ==
  /\ At(j, "untracked")
  /\ Goto(j, IF status \in {"settled", "done"} THEN "find" ELSE "free")
  /\ UNCHANGED <<rows, mem, msg, fate, crashes>>

\* ... and drain if the task is over: the status is read again.
Reread(j) ==
  /\ At(j, "untracked")
  /\ Goto(j, IF status \in Terminal THEN "find" ELSE "free")
  /\ UNCHANGED <<rows, mem, msg, fate, crashes>>

(***************************************************************************)
(* A hook of an agent that asks a person (an approval of a tool call, or a *)
(* question): a request of its own to the server, that goes on whatever    *)
(* becomes of the run which made it.                                       *)
(***************************************************************************)
AgentAtWork == \E j \in Jobs : pc[j] \in {"agent", "fixing"}

Hook(h, to) == hook' = [hook EXCEPT ![h] = to]

\* check: the exceptions and the repeats are read ...
AskTool(j, h) ==
  /\ pc[j] \in {"agent", "fixing"} /\ j \notin aborted
  /\ hook[h] = "free" /\ h \notin open /\ resume[h] = "no"
  /\ Hook(h, "check")
  /\ UNCHANGED <<shown, held, open, resume, cont, conts, ran, mem, pc, msg,
                 fate, crashes>>

\* ... then nobody need be asked, or the row is created ...
Create(h) ==
  /\ hook[h] = "check"
  /\ \/ Hook(h, "free") /\ UNCHANGED open
     \/ Hook(h, "mark") /\ open' = open \cup {h}
  /\ UNCHANGED <<shown, held, resume, cont, conts, ran, mem, pc, msg,
                 fate, crashes>>

\* ... and the task is parked: for a question only while it runs.
Mark(h) ==
  /\ hook[h] = "mark" /\ Hook(h, "free")
  /\ \/ status' = Parked(status)
     \/ status' = IF status = "running" THEN "needs_approval" ELSE status
  /\ stray' = (stray \/ (status' # status /\ ~AgentAtWork))
  /\ UNCHANGED <<left, held, open, resume, cont, conts, ran, mem, pc, msg,
                 fate, crashes>>

\* A verdict, an answer, the timeout, or the task's end that withdraws it.
Verdict(h) ==
  /\ h \in open /\ open' = open \ {h}
  /\ resume' = [resume EXCEPT ![h] = "count"]
  /\ UNCHANGED <<shown, held, hook, cont, conts, ran, mem, pc, msg, fate, crashes>>

\* resumeTaskIfClear: nothing else is pending ...
Count(h) ==
  /\ resume[h] = "count"
  /\ resume' = [resume EXCEPT ![h] = IF open = {} /\ cont = 0 THEN "flip" ELSE "no"]
  /\ UNCHANGED <<shown, held, hook, open, cont, conts, ran, mem, pc, msg,
                 fate, crashes>>

UnguardedFlip(h) ==
  /\ resume[h] = "flip" /\ resume' = [resume EXCEPT ![h] = "no"]
  /\ status' = "running"
  /\ UNCHANGED <<stray, left, held, hook, open, cont, conts, ran, mem, pc, msg,
                 fate, crashes>>

\* ... and only a task that is still parked moves back to running.
Flip(h) ==
  /\ resume[h] = "flip" /\ resume' = [resume EXCEPT ![h] = "no"]
  /\ status' = IF status = "needs_approval" THEN "running" ELSE status
  /\ UNCHANGED <<stray, left, held, hook, open, cont, conts, ran, mem, pc, msg,
                 fate, crashes>>

HookStep(h) == Create(h) \/ Mark(h) \/ Verdict(h) \/ Count(h) \/ Flip(h)

(***************************************************************************)
(* The sweep for tasks that are queued without a job.                      *)
(***************************************************************************)

\* At boot: the worker already runs, and rows that are claimed do not count.
SweepAtBoot ==
  /\ At(Sweeper, "look")
  /\ Goto(Sweeper, IF status = "queued" /\ Unclaimed = {} THEN "act" ELSE "free")
  /\ UNCHANGED <<rows, mem, msg, fate, crashes>>

\* Every five minutes: queued for ten minutes, and claimed rows do count.
SweepPeriodic ==
  /\ At(Sweeper, "free") /\ status = "queued"
  /\ \A j \in Jobs : At(j, "free")
  /\ \A p \in Procs : ~At(p, "enqueue")
  /\ Goto(Sweeper, "act")
  /\ UNCHANGED <<rows, mem, msg, fate, crashes>>

ForgettingSweepAct ==
  /\ At(Sweeper, "act")
  /\ IF ran THEN Put("settled") /\ Goto(Sweeper, "wrote")
            ELSE UNCHANGED shown /\ Goto(Sweeper, "free")
  /\ UNCHANGED <<held, asks, ran, mem, msg, fate, crashes>>

\* queuedFate: queue again what never ran, stall what did.
SweepAct ==
  /\ At(Sweeper, "act")
  /\ IF ran THEN Put("settled") /\ Goto(Sweeper, "wrote")
            ELSE UNCHANGED shown /\ Goto(Sweeper, "enqueue")
  /\ UNCHANGED <<held, asks, ran, mem, msg, fate, crashes>>

(***************************************************************************)
(* The process dies at any moment and starts again: claimed rows are       *)
(* dropped, asks time out, a parked task is stalled without a drain and a  *)
(* running one with a drain of one held message.                           *)
(***************************************************************************)
Drained == status = "running" /\ held # <<>>

NoBootReconcile(s) == s

\* What boot makes of a status that a dead process left behind.
BootStatus(s) ==
  CASE Drained -> "queued"
    [] s \in {"running", "needs_approval"} /\ ~Drained -> "settled"
    [] OTHER -> s

Restart ==
  /\ crashes < MaxCrashes /\ crashes' = crashes + 1
  /\ status' = BootStatus(status)
  /\ \E k \in IF Drained THEN Jobs \ Unclaimed ELSE {None} :
       /\ pc' = [p \in Procs |-> IF p = k \/ p \in Unclaimed THEN "queued"
                                ELSE IF p = Sweeper THEN "look" ELSE "free"]
       /\ msg' = [p \in Procs |-> IF p = k THEN Head(held)
                                 ELSE IF p \in Unclaimed THEN msg[p] ELSE None]
  /\ held' = IF Drained THEN Tail(held) ELSE held
  /\ Dropped(Carried(Procs \ Unclaimed) \ (InHeld \cup Carried(Unclaimed)))
  /\ stray' = FALSE /\ left' = (status' \in Terminal /\ held' # <<>>)
  /\ hook' = [h \in Hooks |-> "free"] /\ open' = {}
  /\ resume' = [h \in Hooks |-> "no"] /\ cont' = 0
  /\ handedBack' = FALSE /\ run' = None /\ live' = {} /\ active' = None
  /\ aborted' = {} /\ stopping' = {} /\ overran' = FALSE
  /\ UNCHANGED <<conts, ran>>

(***************************************************************************)
(* One thread, and one connection that executes statements in the order    *)
(* they were issued: the start of a job that waited is issued in the same  *)
(* turn as the settle it waited for, so no other step comes between, but   *)
(* for reads that were issued before it (Look).                            *)
(***************************************************************************)
Quiet == \A j \in Jobs : ~At(j, "resumed")

JobStep(j) ==
  \/ Claim(j) \/ WaitRunEnd(j) \/ StartRunning(j) \/ Attach(j) \/ PrepFails(j)
  \/ AgentEnds(j) \/ AfterRun(j) \/ FixStarts(j) \/ FixEnds(j)
  \/ OutOfSteps(j) \/ OfferPark(j) \/ OfferWaived(j) \/ Approved(j)
  \/ Catch(j) \/ WriteStatus(j) \/ Settle(j)

AgentActs(j) ==
  (\E h \in Hooks : AskTool(j, h)) \/ ScheduleCheck(j) \/ FixRound(j)

\* The reads that look whether there is something to drain.
Look(p) == AfterWrite(p) \/ Reread(p)

ClientStep(c) ==
  \/ CancelDropHeld(c) \/ DropJobs(c, "dropJobs", "cancelled")
  \/ CancelWrite(c) \/ CancelAbort(c)
  \/ DropJobs(c, "doneJobs", "done") \/ MarkDoneWrite(c)
  \/ Approved(c) \/ Denied(c)

ClientActs(c) ==
  \/ \E m \in Msgs : FollowUp(c, m)
  \/ Start(c) \/ Cancel(c) \/ MarkDone(c) \/ DecideContinuation(c)

SweepStep == SweepAtBoot \/ SweepPeriodic \/ SweepAct

Next ==
  \/ \E j \in Jobs : At(j, "resumed") /\ StartRunning(j)
  \/ \E p \in Procs : Look(p)
  \/ Quiet /\ \/ \E j \in Jobs : JobStep(j) \/ Verified(j) \/ AgentActs(j)
              \/ \E c \in Clients : ClientStep(c) \/ ClientActs(c)
              \/ \E p \in Procs : Dispatch(p)
              \/ \E i \in DOMAIN held : WithdrawHeld(i)
              \/ \E h \in Hooks : HookStep(h)
              \/ SweepStep
  \/ Restart

(***************************************************************************)
(* The queue polls, every await of the worker returns (an agent has a      *)
(* deadline, an ask a timeout), a request that started is carried to its   *)
(* end, the sweep runs on a timer.  People and agents promise nothing, and *)
(* nobody promises that an attempt to fix is repeated for ever.            *)
(***************************************************************************)
Fairness ==
  /\ \A j \in Jobs : WF_vars(JobStep(j)) /\ SF_vars(Verified(j))
  /\ \A c \in Clients : WF_vars(ClientStep(c))
  /\ \A p \in Procs : WF_vars(Dispatch(p)) /\ WF_vars(Look(p))
  /\ \A h \in Hooks : WF_vars(HookStep(h))
  /\ WF_vars(SweepStep)

Spec     == Init /\ [][Next]_vars
FairSpec == Spec /\ Fairness

(***************************************************************************)
(* Properties                                                              *)
(***************************************************************************)

\* X-Q-1: two runs of one task never share its worktree, unless the earlier
\* one outlasted the bounded wait of startRunning.
OneRunPerTask == Cardinality(live) <= 1 \/ overran

\* A follow-up is never lost in silence: until an agent has it or something
\* dropped it for a reason (cancel, withdraw, full queue, a crash, a job whose
\* task is gone), some row or some process still holds it.
MessageAccounted ==
  \A m \in Msgs : fate[m] = "sent" => m \in InHeld \cup Carried(Procs)

Deciding == \E p \in Procs : pc[p] \in {"approved", "denied"}

\* A task shown as running has a run behind it, a decision under way or an
\* open offer to continue: whatever verdict, timeout or restart comes when. The
\* one exception is a task that was parked when no run of it was left to park
\* (stray): the verdict of that ask makes it `running`, and nobody runs it.
RunningHasRun ==
  status = "running" => live # {} \/ Deciding \/ cont > 0 \/ stray

\* A task that waits for a person has something for that person to answer, or
\* a run that will still settle it, unless it was parked astray.
ParkedHasAsk ==
  status = "needs_approval" => live # {} \/ Deciding \/ cont > 0 \/ stray

\* X-Q-3: no held message is forgotten when the task ends. Whoever ends it, and
\* whatever runs beside it, somebody is on the way to drain, unless the message
\* was put there too late, after the last look, or a restart left it (left).
HeldIsDrained ==
  status \in Terminal /\ held # <<>> => Draining \/ left

\* What the comment of setStatus promises: needs_approval is written over a
\* live run only. (False: a hook's request outlives its run.)
ParkedOverLiveRun ==
  [][ status # "needs_approval" /\ status' = "needs_approval" => live # {} ]_vars

\* A task shown as running is run, or a person is asked to let it go on. (False
\* once a task was parked astray.)
RunningIsRun == status = "running" => live # {} \/ Deciding \/ cont > 0

\* What the comment of followUp promises: a held message is drained when the
\* task next ends. (False of one that is held just after the task has ended.)
HeldInTime == ~left

\* The same for a restart: whoever makes the task terminal while messages are
\* held goes on to drain them. (False of a parked task at boot.)
DrainedWhenTerminal ==
  [][ status \notin Terminal /\ status' \in Terminal /\ held' # <<>>
      => run' # None \/ \E p \in Procs : pc'[p] = "wrote" ]_vars

\* A queued task starts, or somebody settles it: with the queue's poll, the
\* wait for the earlier run and the sweeps it never waits for ever.
QueuedIsServed == (status = "queued") ~> (status # "queued")

\* A message an agent has been given is not given a second time.
DeliveredOnce ==
  \A m \in Msgs : fate[m] = "delivered" => m \notin InHeld \cup Carried(Procs)

\* The sweep only settles a task whose job is really gone.
SweepSparesLiveJobs ==
  [][ At(Sweeper, "act") /\ pc'[Sweeper] # "act" =>
        \A j \in Jobs : pc[j] \notin {"claimed", "waiting", "resumed"} ]_vars

\* A run that a cancel aborted leaves the task's status alone.
AbortedRunLeavesStatus ==
  [][ \A j \in aborted : ~(At(j, "write") /\ pc'[j] # "write"
                           /\ status' # status) ]_vars

\* Once a cancel has got through, no agent is left working on the task.
CancelStopsAgent ==
  status = "cancelled" /\ stopping = {} =>
    \A j \in Jobs : At(j, "agent") => j \in aborted
============================================================================
