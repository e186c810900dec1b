------------------------------ MODULE Subtasks ------------------------------
(***************************************************************************)
(* A lead task and its subtasks: subtasks created by the lead's agent (or  *)
(* by a person), held by `after` until the ones they wait for are over,    *)
(* released or blocked, and the lead woken when all of them have ended.    *)
(*                                                                         *)
(* A step is one database statement with the synchronous code around it.   *)
(* What happens inside a task's own life (held messages row by row, the    *)
(* queue's rows, approvals) is TaskLifecycle: here a cancel, a follow-up   *)
(* and a run's start are one step each.                                    *)
(***************************************************************************)
EXTENDS Naturals, FiniteSets

CONSTANTS
  Lead, Subs,  \* the top-level task and the subtasks it may ever have
  Tools,       \* tool calls of the lead's agent that are in flight together
  Clients,     \* requests of people in flight together
  Sweeper,     \* the reconcile of queued tasks (boot and every 5 minutes)
  Boot,        \* the reconcile that runs before the worker starts
  None,
  Acts,        \* what people do, and what goes wrong, in this instance
  Ends,        \* how a subtask's run may end in this instance
  Phases,      \* bound: runs of the lead in which its agent creates subtasks
  MaxHeld,     \* MAX_PENDING_FOLLOWUPS of the lead
  MaxTrouble   \* bound: things people do and crashes, together

Tasks == {Lead} \cup Subs
Calls == Tools \cup Clients
Procs == Tasks \cup Calls \cup {Sweeper, Boot}

ASSUME ProcsAssumption ==
  /\ IsFiniteSet(Subs) /\ Lead \notin Subs /\ None \notin Procs
  /\ Tasks \cap (Calls \cup {Sweeper, Boot}) = {} /\ Tools \cap Clients = {}
  /\ Sweeper \notin Calls /\ Boot \notin Calls /\ Sweeper # Boot

ASSUME BoundsAssumption ==
  /\ {Phases, MaxHeld, MaxTrouble} \subseteq Nat
  /\ Ends \subseteq {"ok", "failed", "blocked"}
  /\ Acts \subseteq {"message", "cancelLead", "cancelSub", "reopen", "delete",
                     "promote", "accept", "add", "crash"}

\* "ok" stands for review and done (AFTER_OK), "blocked" for blocked and
\* stalled, "running" for running and needs_approval. "gone" is deleted.
Terminal == {"ok", "failed", "blocked", "cancelled"}
Status   == Terminal \cup {"none", "queued", "running", "gone"}

WorkerPC  == {"agent", "settle", "escalate", "question"}
ReleasePC == {"release", "claim", "act"}
WakePC    == {"wake", "claimWake", "sendWake"}
CreatePC  == {"create", "enqueue", "arm"}
PC == {"free", "orphans"} \cup WorkerPC \cup ReleasePC \cup WakePC \cup CreatePC

VARIABLES
  st,         \* Task.status
  kids,       \* subtasks whose parentId is the lead
  waitingFor, \* Task.waitingFor
  jobs,       \* tasks that have a job in the queue
  held,       \* how many PendingFollowUp rows the lead has
  awaiting,   \* Task.awaitingSubtasks of the lead
  runs,       \* TasksService.runs (in memory)
  pc,         \* per process: where it stands
  todo,       \* held subtasks this process still has to settle
  dep,        \* the subtask it is settling, or creating
  wants,      \* what the new subtask waits for / the subtasks a wake reports
  after,      \* history: the `after` each subtask was created with
  ran,        \* tasks that had an agent session
  well,       \* history: subtasks that at some time ended well
  pushed,     \* history: subtasks a person's message started
  released,   \* history: how often each held subtask was released or blocked
  swept,      \* history: subtasks that the sweep blocked
  told,       \* history: subtasks whose end the lead was told of
  phase,      \* history: runs of the lead so far (counted up to Phases + 1)
  trouble     \* how often a person acted or the process crashed

rows  == <<st, kids, waitingFor, jobs, held, awaiting, ran>>
work  == <<todo, dep, wants>>
hist  == <<after, well, pushed, released, swept, told, phase, trouble>>
vars  == <<rows, runs, pc, work, hist>>

TypeOK ==
  /\ st \in [Tasks -> Status] /\ kids \subseteq Subs /\ ran \subseteq Tasks
  /\ waitingFor \in [Subs -> SUBSET Subs] /\ after \in [Subs -> SUBSET Subs]
  /\ jobs \subseteq Tasks /\ runs \subseteq Tasks /\ held \in 0..MaxHeld
  /\ awaiting \in BOOLEAN /\ trouble \in 0..MaxTrouble
  /\ pc \in [Procs -> PC]
  /\ todo \in [Procs -> SUBSET Subs]
  /\ dep \in [Procs -> Subs \cup {None}] /\ wants \in [Procs -> SUBSET Subs]
  /\ well \subseteq Subs /\ pushed \subseteq Subs /\ told \subseteq Subs
  /\ swept \subseteq Subs
  /\ released \in [Subs -> Nat] /\ phase \in 0..(Phases + 1)

Init ==
  /\ st = [t \in Tasks |-> IF t = Lead THEN "queued" ELSE "none"]
  /\ kids = {} /\ jobs = {Lead} /\ held = 0 /\ awaiting = FALSE
  /\ waitingFor = [s \in Subs |-> {}] /\ after = [s \in Subs |-> {}]
  /\ runs = {} /\ pc = [p \in Procs |-> "free"]
  /\ todo = [p \in Procs |-> {}]
  /\ dep = [p \in Procs |-> None] /\ wants = [p \in Procs |-> {}]
  /\ ran = {} /\ well = {} /\ pushed = {} /\ swept = {} /\ told = {}
  /\ released = [s \in Subs |-> 0]
  /\ phase = 0 /\ trouble = 0

(***************************************************************************)
(* Helpers.  A definition that stands right before another one with the    *)
(* same parameters, and that nothing uses, is a faulty form of it: the     *)
(* properties are checked to notice it.                                    *)
(***************************************************************************)
Untouched      == trouble = 0
Trouble        == trouble < MaxTrouble /\ trouble' = trouble + 1
At(p, from)    == pc[p] = from
Goto(p, to)    == pc' = [pc EXCEPT ![p] = to]
Write(t, s)    == st' = [st EXCEPT ![t] = s]
Over(s)        == st[s] \in Terminal \cup {"gone"}
Dependents(s)  == {d \in Subs : st[d] = "queued" /\ s \in waitingFor[d]}
HeldSubs       == {d \in Subs : st[d] = "queued" /\ waitingFor[d] # {}}

\* What a process does once nothing is left to release.
AfterRelease(p) == CASE p \in Tasks -> "wake"
                     [] p = Boot    -> "orphans"
                     [] OTHER       -> "free"

\* releaseDependents: the rows found are settled one by one, then p goes on.
Settling(p, found) ==
  /\ todo' = [todo EXCEPT ![p] = found]
  /\ Goto(p, IF found = {} THEN AfterRelease(p) ELSE "release")

\* followUp on the lead: it runs now when it is over, else the message is
\* held, and refused when too many are held already.
Deliver(ifDelivered) ==
  IF st[Lead] \in Terminal
  THEN Write(Lead, "queued") /\ jobs' = jobs \cup {Lead} /\ ifDelivered
       /\ UNCHANGED held
  ELSE IF held < MaxHeld
  THEN held' = held + 1 /\ ifDelivered /\ UNCHANGED <<st, jobs>>
  ELSE UNCHANGED <<st, jobs, held, told>>

(***************************************************************************)
(* createSubtask: resolve `after`, create the row, queue it unless it is   *)
(* held, and only then mark the lead as waiting.                           *)
(***************************************************************************)
EndedBadly(s) == st[s] \in Terminal \ {"ok"}

\* Who may create: the lead's agent while it runs, or a person at any time.
MayCreate(p) == IF p \in Tools THEN At(Lead, "agent") /\ st[Lead] = "running"
                                    /\ phase <= Phases
                ELSE "add" \in Acts

Resolve(p, s, A) ==
  /\ At(p, "free") /\ MayCreate(p)
  /\ st[s] = "none" /\ \A q \in Calls : dep[q] # s
  /\ p \in Clients => A = {}
  /\ A \subseteq kids /\ \A a \in A : ~EndedBadly(a)
  /\ Goto(p, "create")
  /\ dep' = [dep EXCEPT ![p] = s]
  /\ wants' = [wants EXCEPT ![p] = {a \in A : st[a] \notin Terminal}]
  /\ after' = [after EXCEPT ![s] = A]
  /\ IF p \in Clients THEN Trouble ELSE UNCHANGED trouble
  /\ UNCHANGED <<rows, runs, todo, well, pushed, released, swept, told, phase>>

CreateRow(p) ==
  /\ At(p, "create")
  /\ Write(dep[p], "queued")
  /\ kids' = kids \cup {dep[p]}
  /\ waitingFor' = [waitingFor EXCEPT ![dep[p]] = wants[p]]
  /\ Goto(p, IF wants[p] = {} THEN "enqueue" ELSE "arm")
  /\ UNCHANGED <<jobs, held, awaiting, ran, runs, work, hist>>

EnqueueNew(p) ==
  /\ At(p, "enqueue")
  /\ jobs' = jobs \cup {dep[p]}
  /\ Goto(p, "arm")
  /\ UNCHANGED <<st, kids, waitingFor, held, awaiting, ran, runs, work, hist>>

UnarmedArm(p) ==
  /\ At(p, "arm") /\ Goto(p, "free")
  /\ dep' = [dep EXCEPT ![p] = None] /\ wants' = [wants EXCEPT ![p] = {}]
  /\ UNCHANGED <<rows, runs, todo, hist>>

Arm(p) ==
  /\ At(p, "arm") /\ Goto(p, "free")
  /\ awaiting' = TRUE
  /\ dep' = [dep EXCEPT ![p] = None] /\ wants' = [wants EXCEPT ![p] = {}]
  /\ UNCHANGED <<st, kids, waitingFor, jobs, held, ran, runs, todo, hist>>

(***************************************************************************)
(* releaseDependents, releaseAllReady, settleDependent: any process may be *)
(* in the middle of it. The order of the rows found is not specified.      *)
(***************************************************************************)
\* Read one held row and what it waits for: still going, over, over badly.
\* Two reads and one step: a row the first does not find held is passed over
\* then; one it finds held may have changed by the second, which the claim
\* sees, as it would from a step at the second.
Inspect(p) ==
  /\ At(p, "release")
  /\ \E d \in todo[p] :
       IF d \in HeldSubs /\ \A a \in waitingFor[d] : Over(a)
       THEN /\ Goto(p, "claim")
            /\ todo' = [todo EXCEPT ![p] = @ \ {d}]
            /\ dep' = [dep EXCEPT ![p] = d]
            /\ wants' = [wants EXCEPT ![p] =
                           {a \in waitingFor[d] : st[a] # "ok"}]
       ELSE Settling(p, todo[p] \ {d}) /\ UNCHANGED <<dep, wants>>
  /\ UNCHANGED <<rows, runs, hist>>

UnguardedClaimDependent(p) ==
  /\ At(p, "claim") /\ Goto(p, "act")
  /\ waitingFor' = [waitingFor EXCEPT ![dep[p]] = {}]
  /\ released' = [released EXCEPT ![dep[p]] = @ + 1]
  /\ UNCHANGED <<st, kids, jobs, held, awaiting, ran, runs, work, after, well,
                 pushed, swept, told, phase, trouble>>

\* The atomic claim: of two settlements arriving together only one acts.
ClaimDependent(p) ==
  /\ At(p, "claim")
  /\ IF dep[p] \in HeldSubs
     THEN /\ waitingFor' = [waitingFor EXCEPT ![dep[p]] = {}]
          /\ released' = [released EXCEPT ![dep[p]] = @ + 1]
          /\ Goto(p, "act") /\ UNCHANGED <<todo, dep, wants>>
     ELSE /\ Settling(p, todo[p])
          /\ dep' = [dep EXCEPT ![p] = None] /\ wants' = [wants EXCEPT ![p] = {}]
          /\ UNCHANGED <<waitingFor, released>>
  /\ UNCHANGED <<st, kids, jobs, held, awaiting, ran, runs, after, well,
                 pushed, swept, told, phase, trouble>>

CarelessAct(p) ==
  /\ At(p, "act") /\ Settling(p, todo[p])
  /\ jobs' = jobs \cup {dep[p]}
  /\ dep' = [dep EXCEPT ![p] = None] /\ wants' = [wants EXCEPT ![p] = {}]
  /\ UNCHANGED <<st, kids, waitingFor, held, awaiting, ran, runs, hist>>

\* Block it when something ended badly (setStatus: its own dependents next),
\* start it otherwise.
Act(p) ==
  LET d == dep[p] IN
  /\ At(p, "act")
  /\ IF wants[p] = {}
     THEN jobs' = jobs \cup {d} /\ Settling(p, todo[p])
          /\ UNCHANGED <<st, swept>>
     ELSE /\ Write(d, IF st[d] = "gone" THEN "gone" ELSE "blocked")
          /\ Settling(p, todo[p] \cup IF d \in runs THEN {} ELSE Dependents(d))
          /\ swept' = IF p = Sweeper THEN swept \cup {d} ELSE swept
          /\ UNCHANGED jobs
  /\ dep' = [dep EXCEPT ![p] = None] /\ wants' = [wants EXCEPT ![p] = {}]
  /\ UNCHANGED <<kids, waitingFor, held, awaiting, ran, runs, after,
                 well, pushed, released, told, phase, trouble>>

Release(p) == Inspect(p) \/ ClaimDependent(p) \/ Act(p)

(***************************************************************************)
(* wakeIfSubtasksDone: read, claim, send the results to the lead.          *)
(***************************************************************************)
HastyWakeRead(p) ==
  /\ At(p, "wake")
  /\ IF awaiting /\ st[Lead] \in Terminal /\ kids # {}
     THEN Goto(p, "claimWake") /\ wants' = [wants EXCEPT ![p] = kids]
     ELSE Goto(p, "free") /\ UNCHANGED wants
  /\ UNCHANGED <<rows, runs, todo, dep, hist>>

WakeRead(p) ==
  /\ At(p, "wake")
  /\ IF /\ awaiting /\ st[Lead] \in Terminal /\ kids # {}
        /\ \A s \in kids : st[s] \in Terminal
     THEN Goto(p, "claimWake") /\ wants' = [wants EXCEPT ![p] = kids]
     ELSE Goto(p, "free") /\ UNCHANGED wants
  /\ UNCHANGED <<rows, runs, todo, dep, hist>>

UnclaimedWake(p) ==
  /\ At(p, "claimWake") /\ awaiting' = FALSE
  /\ Goto(p, "sendWake")
  /\ UNCHANGED <<st, kids, waitingFor, jobs, held, ran, runs, work, hist>>

\* Atomically claim the wake so overlapping child completions fire it once.
ClaimWake(p) ==
  /\ At(p, "claimWake") /\ awaiting' = FALSE
  /\ IF awaiting
     THEN Goto(p, "sendWake") /\ UNCHANGED wants
     ELSE Goto(p, "free") /\ wants' = [wants EXCEPT ![p] = {}]
  /\ UNCHANGED <<st, kids, waitingFor, jobs, held, ran, runs, todo, dep,
                 hist>>

SendWake(p) ==
  /\ At(p, "sendWake") /\ Goto(p, "free")
  /\ Deliver(told' = told \cup wants[p])
  /\ wants' = [wants EXCEPT ![p] = {}]
  /\ UNCHANGED <<kids, waitingFor, awaiting, ran, runs, todo, dep, after,
                 well, pushed, released, swept, phase, trouble>>

WakeLead(p) == WakeRead(p) \/ ClaimWake(p) \/ SendWake(p)

(***************************************************************************)
(* The worker's call for one task: its run, its end, the fan-in. A task's  *)
(* next run starts when the fan-in of the last one is through.             *)
(***************************************************************************)

\* startRunning refuses a task that is over; its job is simply dropped.
Start(t) ==
  /\ t \in jobs /\ At(t, "free")
  /\ jobs' = jobs \ {t}
  /\ IF st[t] = "queued"
     THEN /\ Write(t, "running") /\ Goto(t, "agent")
          /\ runs' = runs \cup {t} /\ ran' = ran \cup {t}
          /\ phase' = IF t = Lead /\ phase <= Phases THEN phase + 1 ELSE phase
     ELSE UNCHANGED <<st, pc, runs, ran, phase>>
  /\ UNCHANGED <<kids, waitingFor, held, awaiting, work, after, well, pushed,
                 released, swept, told, trouble>>

\* How a run may end here: nothing tells the ends of a lead apart.
Outcomes(t) == IF t = Lead THEN {"ok"} ELSE Ends

\* The run ends: its status is written unless a person wrote one meanwhile.
EndRun(t, outcome) ==
  /\ At(t, "agent") /\ Goto(t, "settle")
  /\ IF st[t] = "running"
     THEN /\ t = Lead => \A c \in Tools : At(c, "free")
          /\ Write(t, outcome)
          /\ well' = IF outcome = "ok" THEN well \cup ({t} \cap Subs) ELSE well
     ELSE UNCHANGED <<st, well>>
  /\ UNCHANGED <<kids, waitingFor, jobs, held, awaiting, ran, runs, work, after,
                 pushed, released, swept, told, phase, trouble>>

\* fanInAfterSettle: a subtask that needs a person asks its lead at once, then
\* its dependents are settled and the lead is woken.
FanIn(t) ==
  IF st[t] = "gone" THEN Goto(t, "free") /\ UNCHANGED todo
  ELSE IF st[t] = "blocked" /\ t \in kids
  THEN Goto(t, "escalate") /\ UNCHANGED todo
  ELSE Settling(t, IF t = Lead THEN {} ELSE Dependents(t))

ForgetfulSettle(t) ==
  /\ At(t, "settle")
  /\ runs' = runs \ {t}
  /\ Goto(t, "free")
  /\ UNCHANGED <<rows, work, hist>>

\* runSettled: untrack the run; a lead that is over gets a held message.
Settle(t) ==
  /\ At(t, "settle")
  /\ runs' = runs \ {t}
  /\ IF t = Lead /\ held > 0 /\ st[Lead] \in Terminal
     THEN held' = held - 1 /\ Write(Lead, "queued") /\ jobs' = jobs \cup {Lead}
     ELSE UNCHANGED <<held, st, jobs>>
  /\ FanIn(t)
  /\ UNCHANGED <<kids, waitingFor, awaiting, ran, dep, wants, hist>>

\* escalateNeedsInput: only while the lead waits and another one is going.
Escalate(t) ==
  /\ At(t, "escalate")
  /\ IF /\ awaiting /\ st[Lead] \in Terminal
        /\ \E s \in kids : st[s] \notin Terminal
     THEN Goto(t, "question") /\ UNCHANGED todo
     ELSE Settling(t, Dependents(t))
  /\ UNCHANGED <<rows, runs, dep, wants, hist>>

SendQuestion(t) ==
  /\ At(t, "question")
  /\ Settling(t, Dependents(t))
  /\ Deliver(UNCHANGED told)
  /\ UNCHANGED <<kids, waitingFor, awaiting, ran, runs, dep, wants, after, well,
                 pushed, released, swept, phase, trouble>>

WorkerStep(t) ==
  \/ Start(t) \/ Settle(t) \/ Escalate(t) \/ SendQuestion(t)
  \/ \E outcome \in Outcomes(t) : EndRun(t, outcome)

(***************************************************************************)
(* completeSubtask (the lead's agent) and markDone (a person): a subtask   *)
(* that is over becomes done, and its dependents are looked at.            *)
(***************************************************************************)
MayAccept(p) == IF p \in Tools THEN At(Lead, "agent") /\ st[Lead] = "running"
                ELSE "accept" \in Acts

Accept(p, s) ==
  /\ At(p, "free") /\ MayAccept(p)
  /\ s \in kids /\ EndedBadly(s) /\ st[s] # "cancelled"
  /\ Write(s, "ok") /\ well' = well \cup {s}
  /\ Settling(p, IF s \in runs THEN {} ELSE Dependents(s))
  /\ IF p \in Clients THEN Trouble ELSE UNCHANGED trouble
  /\ UNCHANGED <<kids, waitingFor, jobs, held, awaiting, ran, runs, dep, wants,
                 after, pushed, released, swept, told, phase>>

(***************************************************************************)
(* People. A cancel leaves the dependents to the run it stops, if any.     *)
(***************************************************************************)
Person(c, act) == act \in Acts /\ At(c, "free") /\ Trouble

Cancel(c, t) ==
  /\ Person(c, IF t = Lead THEN "cancelLead" ELSE "cancelSub")
  /\ st[t] \in {"queued", "running"}
  /\ Write(t, "cancelled") /\ jobs' = jobs \ {t}
  /\ held' = IF t = Lead THEN 0 ELSE held
  /\ Settling(c, IF t \in runs \cup {Lead} THEN {} ELSE Dependents(t))
  /\ UNCHANGED <<kids, waitingFor, awaiting, ran, runs, dep, wants, after,
                 well, pushed, released, swept, told, phase>>

\* A message for the lead.
Message(c) ==
  /\ Person(c, "message")
  /\ Deliver(UNCHANGED told)
  /\ UNCHANGED <<kids, waitingFor, awaiting, ran, runs, pc, work, after, well,
                 pushed, released, swept, phase>>

\* A message for a subtask that is over starts it again.
Reopen(c, s) ==
  /\ Person(c, "reopen") /\ st[s] \in Terminal
  /\ Write(s, "queued") /\ jobs' = jobs \cup {s}
  /\ pushed' = pushed \cup {s}
  /\ UNCHANGED <<kids, waitingFor, held, awaiting, ran, runs, pc, work, after,
                 well, released, swept, told, phase>>

\* delete: the live run is cancelled and left to end, then the row goes.
Delete(c, s) ==
  /\ Person(c, "delete") /\ st[s] \notin {"none", "gone"} /\ s \notin runs
  /\ Write(s, "gone") /\ kids' = kids \ {s} /\ jobs' = jobs \ {s}
  /\ Settling(c, Dependents(s))
  /\ UNCHANGED <<waitingFor, held, awaiting, ran, runs, dep, wants, after,
                 well, pushed, released, swept, told, phase>>

\* promoteToRoot: the lead may have been waiting only for this one.
Promote(c, s) ==
  /\ Person(c, "promote") /\ s \in kids /\ st[s] \in Terminal
  /\ kids' = kids \ {s}
  /\ Goto(c, "wake")
  /\ UNCHANGED <<st, waitingFor, jobs, held, awaiting, ran, runs, work, after,
                 well, pushed, released, swept, told, phase>>

PersonActs(c) ==
  \/ Message(c)
  \/ \E t \in Tasks : Cancel(c, t)
  \/ \E s \in Subs : Reopen(c, s) \/ Delete(c, s) \/ Promote(c, s)

(***************************************************************************)
(* The sweep: held subtasks are looked at again, and a queued task whose   *)
(* job is gone is queued again or stalled. Its age limit (10 minutes) is   *)
(* longer than any step a process is in the middle of.  The one pass at    *)
(* boot has no limit and overlooks claimed rows: TaskLifecycle has it      *)
(* (Sweep of an old and of a fresh row), here it is the periodic one.      *)
(***************************************************************************)
ForgetfulSweepHeld == FALSE /\ UNCHANGED vars

SweepHeld ==
  /\ At(Sweeper, "free") /\ HeldSubs # {}
  /\ todo' = [todo EXCEPT ![Sweeper] = HeldSubs]
  /\ Goto(Sweeper, "release")
  /\ UNCHANGED <<rows, runs, dep, wants, hist>>

JobGone(t) ==
  /\ st[t] = "queued" /\ t \notin jobs
  /\ t \in Subs => waitingFor[t] = {}
  /\ \A p \in Procs : dep[p] # t

SweepQueued(t) ==
  /\ At(Sweeper, "free") /\ JobGone(t)
  /\ IF t \notin ran
     THEN jobs' = jobs \cup {t} /\ UNCHANGED <<st, pc, todo>>
     ELSE /\ Write(t, "blocked") /\ UNCHANGED jobs
          /\ IF t = Lead THEN Goto(Sweeper, "wake") /\ UNCHANGED todo
                         ELSE Settling(Sweeper, Dependents(t))
  /\ UNCHANGED <<kids, waitingFor, held, awaiting, ran, runs, todo, dep, wants,
                 hist>>

Sweep == SweepHeld \/ \E t \in Tasks : SweepQueued(t)

(***************************************************************************)
(* The process dies and starts again: before anything else the rows that   *)
(* are still `running` are stalled, one after the other.                   *)
(***************************************************************************)
Crash ==
  /\ "crash" \in Acts /\ Trouble
  /\ pc' = [p \in Procs |-> IF p = Boot THEN "orphans" ELSE "free"]
  /\ runs' = {}
  /\ todo' = [p \in Procs |-> {}]
  /\ dep' = [p \in Procs |-> None] /\ wants' = [p \in Procs |-> {}]
  /\ UNCHANGED <<rows, after, well, pushed, released, swept, told, phase>>

Orphan(t) ==
  /\ At(Boot, "orphans") /\ st[t] = "running"
  /\ IF t = Lead /\ held > 0
     THEN Write(t, "queued") /\ held' = held - 1 /\ jobs' = jobs \cup {t}
     ELSE Write(t, "blocked") /\ UNCHANGED <<held, jobs>>
  /\ Settling(Boot, IF t = Lead THEN {} ELSE Dependents(t))
  /\ UNCHANGED <<kids, waitingFor, awaiting, ran, runs, dep, wants, hist>>

Booted ==
  /\ At(Boot, "orphans") /\ \A t \in Tasks : st[t] # "running"
  /\ Goto(Boot, "free")
  /\ UNCHANGED <<rows, runs, work, hist>>

BootStep == Booted \/ (\E t \in Tasks : Orphan(t)) \/ Release(Boot)

CreateStep(p) == CreateRow(p) \/ EnqueueNew(p) \/ Arm(p)

Running == At(Boot, "free")

Next ==
  \/ BootStep \/ Crash
  \/ Running /\ \/ \E t \in Tasks : WorkerStep(t)
                \/ \E p \in Procs \ {Boot} : Release(p) \/ WakeLead(p)
                \/ \E p \in Calls :
                     \/ \E s \in Subs : \E A \in SUBSET kids : Resolve(p, s, A)
                     \/ CreateStep(p)
                     \/ \E s \in Subs : Accept(p, s)
                \/ \E c \in Clients : PersonActs(c)
                \/ Sweep

Spec == Init /\ [][Next]_vars

\* Runs end (they have a deadline), awaits return, the sweep is on a timer.
\* Nobody promises that an agent creates a subtask or a person acts.
Fairness ==
  /\ WF_vars(BootStep)
  /\ \A t \in Tasks : WF_vars(Running /\ WorkerStep(t))
  /\ \A p \in Procs \ {Boot} : WF_vars(Running /\ (Release(p) \/ WakeLead(p)))
  /\ \A p \in Calls : WF_vars(Running /\ CreateStep(p))
  /\ WF_vars(Running /\ SweepHeld)
  /\ WF_vars(Running /\ \E t \in Tasks : SweepQueued(t))

FairSpec == Spec /\ Fairness

(***************************************************************************)
(* Properties                                                              *)
(***************************************************************************)

\* `after`: a subtask that was held never runs before everything it was told
\* to wait for has ended well at some time, unless a person started it.
RunsAfterSuccess ==
  \A d \in ran \cap Subs : d \in pushed \/ after[d] \subseteq well

\* Of several settlements, sweeps and deletions that arrive together only one
\* releases a held subtask.
ReleasedOnce == \A d \in Subs : released[d] <= 1

\* The wake is fired once: what it reports always holds something the lead
\* has not been told of -- as long as the lead's agent created nothing between
\* the read of the wake and its sending (see WakeIsCurrent).
WakeHasNews ==
  [][ \A p \in Procs :
        /\ At(p, "sendWake") /\ pc'[p] # "sendWake" /\ Untouched
        /\ kids \subseteq wants[p]
        => ~(wants[p] \subseteq told) ]_vars

\* A wake never reports a subtask that is open: what was over when it was read
\* is over when it is sent, two statements and many steps of others later.
WakeFindsAllOver ==
  [][ \A p \in Procs : At(p, "sendWake") /\ pc'[p] # "sendWake" /\ Untouched
        => \A s \in wants[p] : Over(s) ]_vars

\* The prompt of the wake: "All n subtasks you created have finished".
WakeIsCurrent ==
  [][ \A p \in Procs : At(p, "sendWake") /\ pc'[p] # "sendWake" /\ Untouched
        => \A s \in kids : Over(s) ]_vars

\* A held subtask whose predecessors are over does not wait for ever, even
\* when the release was missed (a create between, a crash).
HeldIsReleased ==
  \A d \in Subs :
    (d \in HeldSubs /\ \A a \in waitingFor[d] : Over(a))
      ~> (d \notin HeldSubs \/ \E a \in waitingFor[d] : ~Over(a))

\* With nobody interfering, the lead is told of the end of every subtask --
\* unless the sweep had to block one: that wakes nobody (see LeadIsWoken).
LeadIsTold ==
  \A s \in Subs :
    (s \in kids /\ Over(s) /\ Untouched /\ swept = {})
      ~> (s \in told \/ ~Untouched \/ swept # {})

\* docs/subtask-after.md: a held subtask whose predecessor ended badly is
\* blocked "and the lead is woken".
LeadIsWoken ==
  \A s \in Subs :
    (s \in kids /\ Over(s) /\ Untouched) ~> (s \in told \/ ~Untouched)

\* docs/subtask-after.md: a cancel of the lead "cancels the open subtasks" and
\* "just ends it; nothing is left running".
CancelledLeadStaysOver ==
  [][ st[Lead] = "cancelled" => st'[Lead] = "cancelled" ]_vars
============================================================================
