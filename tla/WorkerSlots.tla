---------------------------- MODULE WorkerSlots ----------------------------
(***************************************************************************)
(* How many jobs run at once: the embedded queue (its rows, its ticks, its *)
(* two lanes with a cap each), the worker call of every job, and the lock  *)
(* of a shared-mode project, for which a waiting job lends its slot out.   *)
(*                                                                         *)
(* A step is one statement together with the synchronous code (and the     *)
(* promise callbacks) that run before the next one; a `while` condition is *)
(* therefore evaluated at the end of the step before the one it guards.    *)
(***************************************************************************)
EXTENDS Naturals, Sequences, FiniteSets

CONSTANTS
  Jobs,        \* rows of the queue
  Chat,        \* those in the chat lane
  Projects,    \* shared-mode projects
  NoProject,   \* a worktree, docs or chat job: no lock
  ProjectOf,   \* the lock each job needs
  Ticks,       \* calls of tick() that may overlap (poll timer, setImmediate)
  Slots,       \* values Settings.concurrency may take
  ChatSlots,   \* Settings.chatConcurrency
  None,
  MaxCrashes   \* bound of the model: restarts of the process

ASSUME WorkerSlotsAssumption ==
  /\ IsFiniteSet(Jobs) /\ Chat \subseteq Jobs
  /\ NoProject \notin Projects /\ None \notin Jobs
  /\ ProjectOf \in [Jobs -> Projects \cup {NoProject}]
  /\ \A j \in Chat : ProjectOf[j] = NoProject
  /\ Slots \subseteq Nat \ {0} /\ Slots # {}
  /\ ChatSlots \in Nat \ {0} /\ MaxCrashes \in Nat

Lanes == {"tasks", "chats"}
Lane(j) == IF j \in Chat THEN "chats" ELSE "tasks"

Stages == {"new", "due", "start", "wait", "in", "out", "gone"}

VARIABLES
  stage,    \* per job: its row (due) or how far the worker's call has come
  due,      \* unclaimed rows, oldest first
  starts,   \* history: how often a job was handed to the worker
  tick,     \* per tick: idle, or looking for / claiming a row of a lane
  found,    \* per tick: the row it is about to claim
  inFlight, \* per lane: the driver's counter
  base,     \* TaskWorkerService.lastConcurrency
  waiting,  \* TaskWorkerService.waiting: slots lent out
  cap,      \* EmbeddedTaskQueue.concurrency
  line,     \* KeyedMutex: per project, the holder and those behind it
  crashes

ticks == <<tick, found>>
slots == <<base, waiting, cap>>
vars  == <<stage, due, starts, tick, found, inFlight, base, waiting, cap, line,
           crashes>>

Idle   == <<"idle", "tasks">>
TickPC == {Idle} \cup ({"find", "claim"} \X Lanes)

TypeOK ==
  /\ stage \in [Jobs -> Stages] /\ due \in Seq(Jobs)
  /\ starts \in [Jobs -> Nat]
  /\ tick \in [Ticks -> TickPC] /\ found \in [Ticks -> Jobs \cup {None}]
  /\ inFlight \in [Lanes -> Nat]
  /\ base \in Slots /\ waiting \in Nat /\ cap \in Nat
  /\ line \in [Projects -> Seq(Jobs)]
  /\ crashes \in Nat

Init ==
  /\ stage = [j \in Jobs |-> "new"] /\ due = <<>>
  /\ starts = [j \in Jobs |-> 0]
  /\ tick = [t \in Ticks |-> Idle] /\ found = [t \in Ticks |-> None]
  /\ inFlight = [l \in Lanes |-> 0]
  /\ base \in Slots /\ waiting = 0 /\ cap = base
  /\ line = [p \in Projects |-> <<>>]
  /\ crashes = 0

At(j, s)   == stage[j] = s
InDue(j)   == \E i \in DOMAIN due : due[i] = j
Without(j) == LET i == CHOOSE i \in DOMAIN due : due[i] = j
              IN  SubSeq(due, 1, i - 1) \o SubSeq(due, i + 1, Len(due))

(***************************************************************************)
(* The driver.  A definition right before another one with the same        *)
(* parameters, and that nothing uses, is a faulty form of it.              *)
(***************************************************************************)
Enqueue(j) ==
  /\ At(j, "new")
  /\ stage' = [stage EXCEPT ![j] = "due"] /\ due' = Append(due, j)
  /\ UNCHANGED <<starts, ticks, inFlight, slots, line, crashes>>

\* removeForTask, on a cancel or an accept: only rows nobody has claimed.
Remove(j) ==
  /\ InDue(j)
  /\ stage' = [stage EXCEPT ![j] = "gone"] /\ due' = Without(j)
  /\ UNCHANGED <<starts, ticks, inFlight, slots, line, crashes>>

\* Where a tick goes when its loop condition is evaluated: the task lane while
\* it has a free slot, then the chat lane while that one has.
Loop(lane, flying, limit) ==
  IF lane = "tasks" /\ flying["tasks"] < limit THEN <<"find", "tasks">>
  ELSE IF flying["chats"] < ChatSlots THEN <<"find", "chats">>
  ELSE Idle

TickStarts(t) ==
  /\ tick[t] = Idle
  /\ tick' = [tick EXCEPT ![t] = Loop("tasks", inFlight, cap)]
  /\ UNCHANGED <<stage, due, starts, found, inFlight, slots, line, crashes>>

DueIn(lane) == {i \in DOMAIN due : Lane(due[i]) = lane}

\* claimNext, first statement: the oldest due row of the lane.
FindDue(t, lane) ==
  /\ tick[t] = <<"find", lane>>
  /\ \/ /\ DueIn(lane) = {}
        /\ tick' = [tick EXCEPT ![t] = IF lane = "tasks"
                                       THEN Loop("chats", inFlight, cap)
                                       ELSE Idle]
        /\ UNCHANGED found
     \/ \E i \in DueIn(lane) :
          /\ \A k \in DueIn(lane) : i <= k
          /\ tick' = [tick EXCEPT ![t] = <<"claim", lane>>]
          /\ found' = [found EXCEPT ![t] = due[i]]
  /\ UNCHANGED <<stage, due, starts, inFlight, slots, line, crashes>>

UncheckedClaimDue(t, lane) ==
  /\ tick[t] = <<"claim", lane>>
  /\ LET j == found[t]
         flying == [inFlight EXCEPT ![lane] = @ + 1]
     IN /\ stage' = [stage EXCEPT ![j] = "start"]
        /\ due' = IF InDue(j) THEN Without(j) ELSE due
        /\ starts' = [starts EXCEPT ![j] = @ + 1]
        /\ inFlight' = flying
        /\ tick' = [tick EXCEPT ![t] = Loop(lane, flying, cap)]
  /\ found' = [found EXCEPT ![t] = None]
  /\ UNCHANGED <<slots, line, crashes>>

\* Second statement: claim it if it is still unclaimed (the count is the lock),
\* else look again; a claimed job starts and the loop goes on.
ClaimDue(t, lane) ==
  /\ tick[t] = <<"claim", lane>>
  /\ LET j == found[t]
         flying == [inFlight EXCEPT ![lane] = @ + 1]
     IN IF InDue(j)
        THEN /\ stage' = [stage EXCEPT ![j] = "start"] /\ due' = Without(j)
             /\ starts' = [starts EXCEPT ![j] = @ + 1]
             /\ inFlight' = flying
             /\ tick' = [tick EXCEPT ![t] = Loop(lane, flying, cap)]
        ELSE /\ tick' = [tick EXCEPT ![t] = <<"find", lane>>]
             /\ UNCHANGED <<stage, due, starts, inFlight>>
  /\ found' = [found EXCEPT ![t] = None]
  /\ UNCHANGED <<slots, line, crashes>>

(***************************************************************************)
(* The worker's call and the project lock.                                 *)
(***************************************************************************)
Capped(n) == IF n < 1 THEN 1 ELSE n

UnlentApply(b, w) == base' = b /\ waiting' = w /\ cap' = Capped(b)

\* applyConcurrency: the configured value plus one per slot lent out.
Apply(b, w) == base' = b /\ waiting' = w /\ cap' = Capped(b + w)

BargingAcquire(j) ==
  /\ At(j, "start")
  /\ LET p == ProjectOf[j]
     IN IF p = NoProject \/ Len(line[p]) < 2
        THEN /\ stage' = [stage EXCEPT ![j] = "in"]
             /\ line' = IF p = NoProject THEN line ELSE [line EXCEPT ![p] = Append(@, j)]
             /\ UNCHANGED slots
        ELSE /\ stage' = [stage EXCEPT ![j] = "wait"]
             /\ line' = [line EXCEPT ![p] = Append(@, j)]
             /\ Apply(base, waiting + 1)
  /\ UNCHANGED <<due, starts, ticks, inFlight, crashes>>

\* lockProject: at once when nobody holds the project, else wait in line and
\* lend the slot meanwhile.
Acquire(j) ==
  /\ At(j, "start")
  /\ LET p == ProjectOf[j]
     IN IF p = NoProject
        THEN /\ stage' = [stage EXCEPT ![j] = "in"]
             /\ UNCHANGED <<line, slots>>
        ELSE /\ line' = [line EXCEPT ![p] = Append(@, j)]
             /\ IF line[p] = <<>>
                THEN stage' = [stage EXCEPT ![j] = "in"] /\ UNCHANGED slots
                ELSE stage' = [stage EXCEPT ![j] = "wait"] /\ Apply(base, waiting + 1)
  /\ UNCHANGED <<due, starts, ticks, inFlight, crashes>>

KeepingRelease(j) ==
  /\ At(j, "in")
  /\ LET p == ProjectOf[j]
     IN IF p = NoProject \/ Len(line[p]) = 1
        THEN /\ stage' = [stage EXCEPT ![j] = "out"]
             /\ line' = IF p = NoProject THEN line ELSE [line EXCEPT ![p] = <<>>]
             /\ UNCHANGED slots
        ELSE /\ stage' = [stage EXCEPT ![j] = "out", ![line[p][2]] = "in"]
             /\ line' = [line EXCEPT ![p] = Tail(@)]
             /\ UNCHANGED slots
  /\ UNCHANGED <<due, starts, ticks, inFlight, crashes>>

\* The call is done and releases the project: the next in line has it, and its
\* slot back, before anything else can run (promise callbacks).
Release(j) ==
  /\ At(j, "in")
  /\ LET p == ProjectOf[j]
     IN IF p = NoProject \/ Len(line[p]) = 1
        THEN /\ stage' = [stage EXCEPT ![j] = "out"]
             /\ line' = IF p = NoProject THEN line ELSE [line EXCEPT ![p] = <<>>]
             /\ UNCHANGED slots
        ELSE /\ stage' = [stage EXCEPT ![j] = "out", ![line[p][2]] = "in"]
             /\ line' = [line EXCEPT ![p] = Tail(@)]
             /\ Apply(base, waiting - 1)
  /\ UNCHANGED <<due, starts, ticks, inFlight, crashes>>

OneLaneFinish(j) ==
  /\ At(j, "out")
  /\ stage' = [stage EXCEPT ![j] = "gone"]
  /\ inFlight' = [inFlight EXCEPT !["tasks"] = @ - 1]
  /\ UNCHANGED <<due, starts, ticks, slots, line, crashes>>

\* The spent row is deleted, then the slot is given back.
Finish(j) ==
  /\ At(j, "out")
  /\ stage' = [stage EXCEPT ![j] = "gone"]
  /\ inFlight' = [inFlight EXCEPT ![Lane(j)] = @ - 1]
  /\ UNCHANGED <<due, starts, ticks, slots, line, crashes>>

\* syncConcurrency: a person changed the setting.
Resize(n) ==
  /\ n # base /\ Apply(n, waiting)
  /\ UNCHANGED <<stage, due, starts, ticks, inFlight, line, crashes>>

Flying == {j \in Jobs : stage[j] \in {"start", "wait", "in", "out"}}

\* The process dies and starts again: startWorker deletes the claimed rows, the
\* unclaimed ones wait for the new process.
Restart ==
  /\ crashes < MaxCrashes /\ crashes' = crashes + 1
  /\ stage' = [j \in Jobs |-> IF j \in Flying THEN "gone" ELSE stage[j]]
  /\ tick' = [t \in Ticks |-> Idle] /\ found' = [t \in Ticks |-> None]
  /\ inFlight' = [l \in Lanes |-> 0]
  /\ Apply(base, 0)
  /\ line' = [p \in Projects |-> <<>>]
  /\ UNCHANGED <<due, starts>>

TickStep(t) == TickStarts(t) \/ \E l \in Lanes : FindDue(t, l) \/ ClaimDue(t, l)

Next ==
  \/ \E j \in Jobs : \/ Enqueue(j) \/ Remove(j) \/ Acquire(j)
                     \/ Release(j) \/ Finish(j)
  \/ \E t \in Ticks : TickStep(t)
  \/ \E n \in Slots : Resize(n)
  \/ Restart

(***************************************************************************)
(* The poll timer ticks, statements return; that a run ends (Release) is   *)
(* not assumed: an agent may work, or wait for a person, for very long.    *)
(***************************************************************************)
Spec == Init /\ [][Next]_vars
FairSpec ==
  /\ Spec
  /\ \A t \in Ticks : WF_vars(TickStep(t))
  /\ \A j \in Jobs : WF_vars(Acquire(j)) /\ WF_vars(Finish(j))

(***************************************************************************)
(* Properties                                                              *)
(***************************************************************************)
Working == {j \in Jobs \ Chat : stage[j] \in {"start", "in"}}
DueTasks == {j \in Jobs \ Chat : At(j, "due")}

\* Two jobs of one shared-mode project never work in its checkout together.
ProjectExclusive ==
  \A j, k \in Jobs : /\ j # k /\ At(j, "in") /\ At(k, "in")
                     => ProjectOf[j] # ProjectOf[k] \/ ProjectOf[j] = NoProject

\* The books balance: a lane's counter is the number of its calls in flight,
\* and the cap is the setting plus exactly the slots that are lent out now.
SlotsBalance ==
  /\ \A l \in Lanes : inFlight[l] = Cardinality({j \in Flying : Lane(j) = l})
  /\ cap = Capped(base + Cardinality({j \in Jobs : At(j, "wait")}))

\* One attempt per job, whatever ticks overlap and whenever the process dies.
Contract == INSTANCE JobContract WITH
              waiting  <- {j \in Jobs : At(j, "due")},
              running  <- Flying,
              attempts <- starts
OneAttempt == Contract!Spec

\* Why slots are lent: while fewer jobs work than the setting allows, a due job
\* starts, even if the jobs that hold the projects never end.
SlotsAreUsed == (DueTasks # {}) ~> (DueTasks = {} \/ Cardinality(Working) >= base)

\* The queue's own description: jobs are claimed up to the concurrency cap.
CapRespected == Cardinality(Working) <= base
============================================================================
