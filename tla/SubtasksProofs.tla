---------------------------- MODULE SubtasksProofs ----------------------------
(***************************************************************************)
(* Theorems about Subtasks, for any number of subtasks, calls and people:  *)
(* the types, that a held subtask is released once, that a wake of the     *)
(* lead tells it something new and nothing that is not so, and, as long as *)
(* the process does not die, that a held subtask runs only after what it   *)
(* waited for.                                                             *)
(***************************************************************************)
EXTENDS Subtasks, TLAPS

\* Who stands where has a subtask in hand; only calls create.
InHand ==
  \A p \in Procs : /\ pc[p] \in {"claim", "act"} \cup CreatePC => dep[p] \in Subs
                   /\ pc[p] \in CreatePC => p \in Calls

\* A subtask about to be created does not exist, and one call creates it.
Creating ==
  /\ \A p \in Procs : pc[p] = "create" => st[dep[p]] = "none"
  /\ \A p, q \in Procs : p # q /\ pc[p] = "create" /\ pc[q] = "create"
                          => dep[p] # dep[q]

\* What does not exist is nobody's concern.
Fresh ==
  \A d \in Subs : st[d] = "none" =>
    /\ d \notin jobs \cup ran /\ waitingFor[d] = {} /\ released[d] = 0
    /\ \A p \in Procs : pc[p] \in {"claim", "act", "enqueue"} => dep[p] # d

\* A subtask that is still held was not released.
Once ==
  \A d \in Subs : /\ released[d] <= 1
                  /\ waitingFor[d] # {} => released[d] = 0

IInv == TypeOK /\ InHand /\ Creating /\ Fresh /\ Once

\* A person started it, or all it was told to wait for ended well.
Good(d) == d \in pushed \/ after[d] \subseteq well

\* Who settles or creates a subtask knows what did not end well.
Knows ==
  \A p \in Procs :
    /\ pc[p] \in {"claim", "act", "create", "enqueue"}
         => after[dep[p]] \subseteq well \cup wants[p]
    /\ pc[p] = "enqueue" => wants[p] = {}

\* What ended well is known, and what is not waited for any more did.
WellKnown ==
  /\ \A s \in Subs : st[s] = "ok" => s \in well
  /\ \A d \in Subs : waitingFor[d] # {} => after[d] \subseteq well \cup waitingFor[d]

\* Only a good subtask gets a job, or a session; one that waits for nothing
\* is good, or somebody is about to block it.
Started ==
  /\ \A d \in Subs : d \in jobs \cup ran => Good(d)
  /\ \A d \in Subs : st[d] = "queued" /\ waitingFor[d] = {} =>
       Good(d) \/ \E p \in Procs : pc[p] = "act" /\ dep[p] = d

Sound == pc[Boot] = "free" /\ Knows /\ WellKnown /\ Started

USE ProcsAssumption, BoundsAssumption
USE DEF At, Goto, Write, Over, Terminal, rows, work, hist, Settling, AfterRelease,
        Dependents, Tasks, Calls, Procs, PC, WorkerPC, ReleasePC, WakePC, CreatePC

LEMMA InitInv == Init => IInv
<1> SUFFICES ASSUME Init PROVE IInv
  OBVIOUS
<1>1. TypeOK
  <2>1. awaiting \in BOOLEAN
    BY Zenon DEF Init
  <2>2. /\ st \in [Tasks -> Status] /\ kids \subseteq Subs /\ ran \subseteq Tasks
        /\ jobs \subseteq Tasks /\ runs \subseteq Tasks
        /\ held \in 0..MaxHeld /\ trouble \in 0..MaxTrouble /\ phase \in 0..(Phases + 1)
    BY DEF Init, Status
  <2>3. /\ waitingFor \in [Subs -> SUBSET Subs] /\ after \in [Subs -> SUBSET Subs]
        /\ pc \in [Procs -> PC] /\ todo \in [Procs -> SUBSET Subs]
        /\ dep \in [Procs -> Subs \cup {None}] /\ wants \in [Procs -> SUBSET Subs]
        /\ released \in [Subs -> Nat]
    BY DEF Init
  <2>4. /\ well \subseteq Subs /\ pushed \subseteq Subs /\ told \subseteq Subs /\ swept \subseteq Subs
    BY DEF Init
  <2> QED BY <2>1, <2>2, <2>3, <2>4 DEF TypeOK
<1>2. InHand /\ Creating /\ Fresh /\ Once
  BY DEF Init, InHand, Creating, Fresh, Once
<1> QED BY <1>1, <1>2 DEF IInv

LEMMA InspectInv ==
  ASSUME IInv, NEW p \in Procs, Inspect(p)
  PROVE  IInv'
BY DEF Inspect, HeldSubs, IInv, TypeOK, InHand, Creating, Fresh, Once, Status

LEMMA ClaimDependentInv ==
  ASSUME IInv, NEW p \in Procs, ClaimDependent(p)
  PROVE  IInv'
<1>1. TypeOK'
  BY DEF ClaimDependent, IInv, TypeOK
<1>2. InHand' /\ Creating'
  BY DEF ClaimDependent, IInv, TypeOK, InHand, Creating
<1>3. Fresh' /\ Once'
  BY DEF ClaimDependent, HeldSubs, IInv, TypeOK, Fresh, Once
<1> QED BY <1>1, <1>2, <1>3 DEF IInv

LEMMA ActInv ==
  ASSUME IInv, NEW p \in Procs, Act(p)
  PROVE  IInv'
<1>1. TypeOK'
  BY DEF Act, IInv, TypeOK, InHand, Status
<1>2. InHand' /\ Creating'
  BY DEF Act, IInv, TypeOK, InHand, Creating, Fresh
<1>3. Fresh' /\ Once'
  BY DEF Act, IInv, TypeOK, Fresh, Once
<1> QED BY <1>1, <1>2, <1>3 DEF IInv

LEMMA WakeLeadInv ==
  ASSUME IInv, NEW p \in Procs, WakeLead(p)
  PROVE  IInv'
<1>1. CASE WakeRead(p)
  BY <1>1 DEF WakeRead, IInv, TypeOK, InHand, Creating, Fresh, Once
<1>2. CASE ClaimWake(p)
  <2>1. TypeOK'
    <3>1. awaiting' \in BOOLEAN
      BY <1>2, Zenon DEF ClaimWake
    <3>2. /\ pc' \in [Procs -> PC] /\ wants' \in [Procs -> SUBSET Subs]
          /\ UNCHANGED <<st, kids, waitingFor, jobs, held, ran, runs, todo, dep, hist>>
      BY <1>2 DEF ClaimWake, IInv, TypeOK
    <3> QED BY <3>1, <3>2 DEF IInv, TypeOK
  <2>2. InHand' /\ Creating'
    BY <1>2 DEF ClaimWake, IInv, TypeOK, InHand, Creating
  <2>3. Fresh' /\ Once'
    BY <1>2 DEF ClaimWake, IInv, TypeOK, Fresh, Once
  <2> QED BY <2>1, <2>2, <2>3 DEF IInv
<1>3. CASE SendWake(p)
  BY <1>3 DEF SendWake, Deliver, IInv, TypeOK, InHand, Creating, Fresh, Once, Status
<1> QED BY <1>1, <1>2, <1>3 DEF WakeLead

LEMMA WorkerStepInv ==
  ASSUME IInv, NEW t \in Tasks, WorkerStep(t)
  PROVE  IInv'
<1>1. CASE Start(t)
  BY <1>1 DEF Start, IInv, TypeOK, InHand, Creating, Fresh, Once, Status
<1>2. CASE Settle(t)
  BY <1>2 DEF Settle, FanIn, IInv, TypeOK, InHand, Creating, Fresh, Once, Status
<1>3. CASE Escalate(t)
  BY <1>3 DEF Escalate, IInv, TypeOK, InHand, Creating, Fresh, Once
<1>4. CASE SendQuestion(t)
  BY <1>4 DEF SendQuestion, Deliver, IInv, TypeOK, InHand, Creating, Fresh, Once, Status
<1>5. ASSUME NEW o \in Outcomes(t), EndRun(t, o) PROVE IInv'
  <2>1. TypeOK'
    BY <1>5 DEF EndRun, Outcomes, IInv, TypeOK, Status
  <2>2. InHand' /\ Creating'
    BY <1>5 DEF EndRun, IInv, TypeOK, InHand, Creating
  <2>3. Fresh' /\ Once'
    BY <1>5 DEF EndRun, Outcomes, IInv, TypeOK, Fresh, Once
  <2> QED BY <2>1, <2>2, <2>3 DEF IInv
<1> QED BY <1>1, <1>2, <1>3, <1>4, <1>5 DEF WorkerStep

LEMMA ResolveInv ==
  ASSUME IInv, NEW p \in Calls, NEW s \in Subs, NEW A \in SUBSET kids, Resolve(p, s, A)
  PROVE  IInv'
BY DEF Resolve, Trouble, IInv, TypeOK, InHand, Creating, Fresh, Once

LEMMA CreateStepInv ==
  ASSUME IInv, NEW p \in Calls, CreateStep(p)
  PROVE  IInv'
<1>1. CASE CreateRow(p)
  BY <1>1 DEF CreateRow, IInv, TypeOK, InHand, Creating, Fresh, Once, Status
<1>2. CASE EnqueueNew(p)
  <2>1. TypeOK'
    BY <1>2 DEF EnqueueNew, IInv, TypeOK, InHand
  <2>2. InHand' /\ Creating'
    BY <1>2 DEF EnqueueNew, IInv, TypeOK, InHand, Creating
  <2>3. Fresh' /\ Once'
    <3>1. /\ UNCHANGED <<st, waitingFor, ran, dep, released>> /\ jobs' = jobs \cup {dep[p]}
          /\ \A q \in Procs : pc'[q] \in {"claim", "act", "enqueue"} => pc[q] = pc'[q]
      BY <1>2 DEF EnqueueNew, IInv, TypeOK
    <3>2. st[dep[p]] # "none"
      BY <1>2 DEF EnqueueNew, IInv, InHand, Fresh
    <3> QED BY <3>1, <3>2 DEF IInv, TypeOK, Fresh, Once
  <2> QED BY <2>1, <2>2, <2>3 DEF IInv
<1>3. CASE Arm(p)
  BY <1>3 DEF Arm, IInv, TypeOK, InHand, Creating, Fresh, Once
<1> QED BY <1>1, <1>2, <1>3 DEF CreateStep

LEMMA AcceptInv ==
  ASSUME IInv, NEW p \in Calls, NEW s \in Subs, Accept(p, s)
  PROVE  IInv'
<1>1. TypeOK'
  BY DEF Accept, Trouble, IInv, TypeOK, Status
<1>2. InHand' /\ Creating'
  <2>1. /\ \A q \in Procs : pc'[q] \in {"claim", "act"} \cup CreatePC => pc'[q] = pc[q]
        /\ dep' = dep /\ \A d \in Subs : st[d] = "none" => st'[d] = "none"
    BY DEF Accept, EndedBadly, IInv, TypeOK
  <2> QED BY <2>1 DEF IInv, TypeOK, InHand, Creating
<1>3. Fresh' /\ Once'
  BY DEF Accept, IInv, TypeOK, Fresh, Once
<1> QED BY <1>1, <1>2, <1>3 DEF IInv

LEMMA PersonActsInv ==
  ASSUME IInv, NEW c \in Clients, PersonActs(c)
  PROVE  IInv'
<1>1. CASE Message(c)
  BY <1>1 DEF Message, Person, Trouble, Deliver, IInv, TypeOK, InHand, Creating, Fresh, Once, Status
<1>2. ASSUME NEW t \in Tasks, Cancel(c, t) PROVE IInv'
  BY <1>2 DEF Cancel, Person, Trouble, IInv, TypeOK, InHand, Creating, Fresh, Once, Status
<1>3. ASSUME NEW s \in Subs, Reopen(c, s) PROVE IInv'
  BY <1>3 DEF Reopen, Person, Trouble, IInv, TypeOK, InHand, Creating, Fresh, Once, Status
<1>4. ASSUME NEW s \in Subs, Delete(c, s) PROVE IInv'
  BY <1>4 DEF Delete, Person, Trouble, IInv, TypeOK, InHand, Creating, Fresh, Once, Status
<1>5. ASSUME NEW s \in Subs, Promote(c, s) PROVE IInv'
  BY <1>5 DEF Promote, Person, Trouble, IInv, TypeOK, InHand, Creating, Fresh, Once
<1> QED BY <1>1, <1>2, <1>3, <1>4, <1>5 DEF PersonActs

LEMMA SweepInv ==
  ASSUME IInv, Sweep
  PROVE  IInv'
<1>1. CASE SweepHeld
  BY <1>1 DEF SweepHeld, HeldSubs, IInv, TypeOK, InHand, Creating, Fresh, Once
<1>2. ASSUME NEW t \in Tasks, SweepQueued(t) PROVE IInv'
  BY <1>2 DEF SweepQueued, JobGone, IInv, TypeOK, InHand, Creating, Fresh, Once, Status
<1> QED BY <1>1, <1>2 DEF Sweep

LEMMA CrashInv ==
  ASSUME IInv, Crash
  PROVE  IInv'
BY DEF Crash, Trouble, IInv, TypeOK, InHand, Creating, Fresh, Once

LEMMA BootStepInv ==
  ASSUME IInv, Booted \/ \E t \in Tasks : Orphan(t)
  PROVE  IInv'
<1>1. CASE Booted
  BY <1>1 DEF Booted, IInv, TypeOK, InHand, Creating, Fresh, Once
<1>2. ASSUME NEW t \in Tasks, Orphan(t) PROVE IInv'
  BY <1>2 DEF Orphan, IInv, TypeOK, InHand, Creating, Fresh, Once, Status
<1> QED BY <1>1, <1>2

LEMMA NextInv == ASSUME IInv, [Next]_vars PROVE IInv'
<1>1. CASE UNCHANGED vars
  BY <1>1 DEF vars, IInv, TypeOK, InHand, Creating, Fresh, Once
<1>2. ASSUME NEW p \in Procs, Release(p) PROVE IInv'
  BY <1>2, InspectInv, ClaimDependentInv, ActInv DEF Release
<1>3. CASE BootStep
  BY <1>2, <1>3, BootStepInv DEF BootStep
<1>4. ASSUME NEW p \in Calls, NEW s \in Subs, NEW A \in SUBSET kids, Resolve(p, s, A) PROVE IInv'
  BY <1>4, ResolveInv
<1> QED BY <1>1, <1>2, <1>3, <1>4, CrashInv, WakeLeadInv, WorkerStepInv, CreateStepInv,
           AcceptInv, PersonActsInv, SweepInv DEF Next, Running

LEMMA AlwaysIInv == Spec => []IInv
BY InitInv, NextInv, PTL DEF Spec

-----------------------------------------------------------------------------
LEMMA InitSound == Init => Sound
BY DEF Init, Sound, Knows, WellKnown, Started

\* What one process holds may change while the others' hands stay.
Alone(p) ==
  \A q \in Procs \ {p} : pc'[q] = pc[q] /\ dep'[q] = dep[q] /\ wants'[q] = wants[q]

\* A row that is inspected and has nothing open: what did not end well is
\* noted, so the rest did.
LEMMA InspectSound ==
  ASSUME IInv, Sound, NEW p \in Procs \ {Boot}, Inspect(p)
  PROVE  Sound'
<1>1. /\ pc[p] = "release" /\ Alone(p) /\ pc'[Boot] = "free"
      /\ UNCHANGED <<st, waitingFor, jobs, ran, well, pushed, after>>
  BY DEF Inspect, Alone, IInv, TypeOK, Sound
<1>2. \/ /\ pc'[p] = "claim" /\ dep'[p] \in HeldSubs
         /\ wants'[p] = {a \in waitingFor[dep'[p]] : st[a] # "ok"}
      \/ pc'[p] \notin {"claim", "act", "create", "enqueue"}
  BY DEF Inspect, IInv, TypeOK
<1>3. Knows'
  <2>1. pc'[p] = "claim" => after[dep'[p]] \subseteq well \cup wants'[p]
    BY <1>2 DEF HeldSubs, IInv, TypeOK, Sound, WellKnown
  <2> QED BY <1>1, <1>2, <2>1 DEF Alone, Sound, Knows
<1>4. WellKnown'
  BY <1>1 DEF Sound, WellKnown
<1>5. Started'
  <2>1. \A q \in Procs : pc[q] = "act" => pc'[q] = "act" /\ dep'[q] = dep[q]
    BY <1>1 DEF Alone
  <2> QED BY <1>1, <2>1 DEF Sound, Started, Good
<1> QED BY <1>1, <1>3, <1>4, <1>5 DEF Sound

\* A claim moves what is known from the row to the one who acts on it.
LEMMA ClaimDependentSound ==
  ASSUME IInv, Sound, NEW p \in Procs \ {Boot}, ClaimDependent(p)
  PROVE  Sound'
<1>1. /\ pc[p] = "claim" /\ dep[p] \in Subs /\ Alone(p) /\ pc'[Boot] = "free"
      /\ UNCHANGED <<st, jobs, ran, well, pushed, after>>
  BY DEF ClaimDependent, Alone, IInv, TypeOK, InHand, Sound
<1>2. \/ /\ pc'[p] = "act" /\ dep'[p] = dep[p] /\ wants'[p] = wants[p]
         /\ waitingFor' = [waitingFor EXCEPT ![dep[p]] = {}]
      \/ pc'[p] \notin {"claim", "act", "create", "enqueue"} /\ waitingFor' = waitingFor
  BY DEF ClaimDependent, IInv, TypeOK
<1>3. Knows'
  BY <1>1, <1>2 DEF Alone, Sound, Knows
<1>4. WellKnown'
  BY <1>1, <1>2 DEF IInv, TypeOK, Sound, WellKnown
<1>5. Started'
  <2>1. \A q \in Procs : pc[q] = "act" => pc'[q] = "act" /\ dep'[q] = dep[q]
    BY <1>1 DEF Alone
  <2>2. ASSUME NEW d \in Subs
        PROVE  \/ waitingFor'[d] = waitingFor[d]
               \/ pc'[p] = "act" /\ dep'[p] = d
    <3>1. CASE d = dep[p]
      BY <1>2, <3>1
    <3>2. CASE d # dep[p]
      BY <1>2, <3>2 DEF IInv, TypeOK
    <3> QED BY <3>1, <3>2
  <2> QED BY <1>1, <2>1, <2>2 DEF Sound, Started, Good
<1> QED BY <1>1, <1>3, <1>4, <1>5 DEF Sound

\* With nothing bad noted all ended well; otherwise the subtask is blocked.
LEMMA ActSound ==
  ASSUME IInv, Sound, NEW p \in Procs \ {Boot}, Act(p)
  PROVE  Sound'
<1>1. /\ pc[p] = "act" /\ dep[p] \in Subs /\ Alone(p) /\ pc'[Boot] = "free"
      /\ pc'[p] \notin {"claim", "act", "create", "enqueue"}
      /\ UNCHANGED <<waitingFor, ran, well, pushed, after>>
  BY DEF Act, Alone, IInv, TypeOK, InHand, Sound
<1>2. \/ /\ wants[p] = {} /\ jobs' = jobs \cup {dep[p]} /\ st' = st
      \/ /\ jobs' = jobs
         /\ \E x \in {"gone", "blocked"} : st' = [st EXCEPT ![dep[p]] = x]
  BY DEF Act
<1>3. Knows'
  BY <1>1 DEF Alone, Sound, Knows
<1>4. WellKnown'
  BY <1>1, <1>2 DEF IInv, TypeOK, Sound, WellKnown
<1>5. wants[p] = {} => Good(dep[p])
  BY <1>1 DEF Sound, Knows, Good
<1>6. Started'
  <2>1. \A d \in Subs : d \in jobs' \cup ran' => Good(d)'
    BY <1>1, <1>2, <1>5 DEF Sound, Started, Good
  <2>2. ASSUME NEW d \in Subs, st'[d] = "queued", waitingFor'[d] = {}, ~Good(d)'
        PROVE  \E q \in Procs : pc'[q] = "act" /\ dep'[q] = d
    <3>1. d # dep[p] /\ st[d] = "queued" /\ ~Good(d)
      BY <1>1, <1>2, <1>5, <2>2 DEF IInv, TypeOK, Good
    <3>2. PICK q \in Procs : pc[q] = "act" /\ dep[q] = d
      BY <1>1, <2>2, <3>1 DEF Sound, Started
    <3> QED BY <1>1, <3>1, <3>2 DEF Alone
  <2> QED BY <2>1, <2>2 DEF Started
<1> QED BY <1>1, <1>3, <1>4, <1>6 DEF Sound

LEMMA WakeLeadSound ==
  ASSUME IInv, Sound, NEW p \in Procs \ {Boot}, WakeLead(p)
  PROVE  Sound'
<1>1. CASE WakeRead(p)
  BY <1>1 DEF WakeRead, IInv, TypeOK, Sound, Knows, WellKnown, Started, Good
<1>2. CASE ClaimWake(p)
  <2>1. pc'[Boot] = "free"
    BY <1>2 DEF ClaimWake, IInv, TypeOK, Sound
  <2>2. Knows'
    BY <1>2 DEF ClaimWake, IInv, TypeOK, Sound, Knows
  <2>3. WellKnown'
    BY <1>2 DEF ClaimWake, IInv, TypeOK, Sound, WellKnown
  <2>4. Started'
    BY <1>2 DEF ClaimWake, IInv, TypeOK, Sound, Started, Good
  <2> QED BY <2>1, <2>2, <2>3, <2>4 DEF Sound
<1>3. CASE SendWake(p)
  BY <1>3 DEF SendWake, Deliver, IInv, TypeOK, Sound, Knows, WellKnown, Started, Good
<1> QED BY <1>1, <1>2, <1>3 DEF WakeLead

LEMMA WorkerStepSound ==
  ASSUME IInv, Sound, NEW t \in Tasks, WorkerStep(t)
  PROVE  Sound'
<1>1. CASE Start(t)
  BY <1>1 DEF Start, IInv, TypeOK, Sound, Knows, WellKnown, Started, Good
<1>2. CASE Settle(t)
  BY <1>2 DEF Settle, FanIn, IInv, TypeOK, Sound, Knows, WellKnown, Started, Good
<1>3. CASE Escalate(t)
  <2>1. pc'[Boot] = "free"
    BY <1>3 DEF Escalate, IInv, TypeOK, Sound
  <2>2. Knows'
    BY <1>3 DEF Escalate, IInv, TypeOK, Sound, Knows
  <2>3. WellKnown'
    BY <1>3 DEF Escalate, IInv, TypeOK, Sound, WellKnown
  <2>4. Started'
    BY <1>3 DEF Escalate, IInv, TypeOK, Sound, Started, Good
  <2> QED BY <2>1, <2>2, <2>3, <2>4 DEF Sound
<1>4. CASE SendQuestion(t)
  <2>1. pc'[Boot] = "free"
    BY <1>4 DEF SendQuestion, IInv, TypeOK, Sound
  <2>2. Knows'
    BY <1>4 DEF SendQuestion, IInv, TypeOK, Sound, Knows
  <2>3. WellKnown'
    BY <1>4 DEF SendQuestion, Deliver, IInv, TypeOK, Sound, WellKnown
  <2>4. Started'
    BY <1>4 DEF SendQuestion, Deliver, IInv, TypeOK, Sound, Started, Good
  <2> QED BY <2>1, <2>2, <2>3, <2>4 DEF Sound
<1>5. ASSUME NEW o \in Outcomes(t), EndRun(t, o) PROVE Sound'
  BY <1>5 DEF EndRun, Outcomes, IInv, TypeOK, Sound, Knows, WellKnown, Started, Good
<1> QED BY <1>1, <1>2, <1>3, <1>4, <1>5 DEF WorkerStep

\* Nobody else has the new subtask in hand, so what is known of others stays.
LEMMA ResolveSound ==
  ASSUME IInv, Sound, NEW p \in Calls, NEW s \in Subs, NEW A \in SUBSET kids, Resolve(p, s, A)
  PROVE  Sound'
<1>1. pc'[Boot] = "free"
  BY DEF Resolve, IInv, TypeOK, Sound
<1>2. Knows'
  BY DEF Resolve, EndedBadly, IInv, TypeOK, InHand, Fresh, Sound, Knows, WellKnown
<1>3. WellKnown'
  BY DEF Resolve, IInv, TypeOK, Fresh, Sound, WellKnown
<1>4. Started'
  BY DEF Resolve, IInv, TypeOK, Fresh, Sound, WellKnown, Started, Good
<1> QED BY <1>1, <1>2, <1>3, <1>4 DEF Sound

LEMMA CreateStepSound ==
  ASSUME IInv, Sound, NEW p \in Calls, CreateStep(p)
  PROVE  Sound'
<1>1. CASE CreateRow(p)
  <2>1. pc'[Boot] = "free"
    BY <1>1 DEF CreateRow, IInv, TypeOK, Sound
  <2>2. Knows'
    BY <1>1 DEF CreateRow, IInv, TypeOK, Sound, Knows
  <2>3. WellKnown'
    BY <1>1 DEF CreateRow, IInv, TypeOK, Sound, Knows, WellKnown
  <2>4. Started'
    BY <1>1 DEF CreateRow, IInv, TypeOK, Sound, Knows, Started, Good
  <2> QED BY <2>1, <2>2, <2>3, <2>4 DEF Sound
<1>2. CASE EnqueueNew(p)
  BY <1>2 DEF EnqueueNew, IInv, TypeOK, Sound, Knows, WellKnown, Started, Good
<1>3. CASE Arm(p)
  BY <1>3 DEF Arm, IInv, TypeOK, Sound, Knows, WellKnown, Started, Good
<1> QED BY <1>1, <1>2, <1>3 DEF CreateStep

LEMMA AcceptSound ==
  ASSUME IInv, Sound, NEW p \in Calls, NEW s \in Subs, Accept(p, s)
  PROVE  Sound'
<1>1. pc'[Boot] = "free"
  BY DEF Accept, IInv, TypeOK, Sound
<1>2. Knows'
  BY DEF Accept, IInv, TypeOK, Sound, Knows
<1>3. WellKnown'
  BY DEF Accept, IInv, TypeOK, Sound, WellKnown
<1>4. Started'
  BY DEF Accept, IInv, TypeOK, Sound, Started, Good
<1> QED BY <1>1, <1>2, <1>3, <1>4 DEF Sound

LEMMA PersonActsSound ==
  ASSUME IInv, Sound, NEW c \in Clients, PersonActs(c)
  PROVE  Sound'
<1>1. CASE Message(c)
  BY <1>1 DEF Message, Deliver, IInv, TypeOK, Sound, Knows, WellKnown, Started, Good
<1>2. ASSUME NEW t \in Tasks, Cancel(c, t) PROVE Sound'
  <2>1. pc'[Boot] = "free"
    BY <1>2 DEF Cancel, IInv, TypeOK, Sound
  <2>2. Knows'
    BY <1>2 DEF Cancel, IInv, TypeOK, Sound, Knows
  <2>3. WellKnown'
    BY <1>2 DEF Cancel, IInv, TypeOK, Sound, WellKnown
  <2>4. Started'
    BY <1>2 DEF Cancel, Person, IInv, TypeOK, Sound, Started, Good
  <2> QED BY <2>1, <2>2, <2>3, <2>4 DEF Sound
<1>3. ASSUME NEW s \in Subs, Reopen(c, s) PROVE Sound'
  BY <1>3 DEF Reopen, IInv, TypeOK, Sound, Knows, WellKnown, Started, Good
<1>4. ASSUME NEW s \in Subs, Delete(c, s) PROVE Sound'
  BY <1>4 DEF Delete, Person, IInv, TypeOK, Sound, Knows, WellKnown, Started, Good
<1>5. ASSUME NEW s \in Subs, Promote(c, s) PROVE Sound'
  BY <1>5 DEF Promote, Person, IInv, TypeOK, Sound, Knows, WellKnown, Started, Good
<1> QED BY <1>1, <1>2, <1>3, <1>4, <1>5 DEF PersonActs

LEMMA SweepSound ==
  ASSUME IInv, Sound, Sweep
  PROVE  Sound'
<1>1. CASE SweepHeld
  BY <1>1 DEF SweepHeld, IInv, TypeOK, Sound, Knows, WellKnown, Started, Good
<1>2. ASSUME NEW t \in Tasks, SweepQueued(t) PROVE Sound'
  <2>1. pc'[Boot] = "free"
    BY <1>2 DEF SweepQueued, IInv, TypeOK, Sound
  <2>2. Knows'
    BY <1>2 DEF SweepQueued, IInv, TypeOK, Sound, Knows
  <2>3. WellKnown'
    BY <1>2 DEF SweepQueued, IInv, TypeOK, Sound, WellKnown
  <2>4. Started'
    BY <1>2 DEF SweepQueued, JobGone, IInv, TypeOK, Sound, Started, Good
  <2> QED BY <2>1, <2>2, <2>3, <2>4 DEF Sound
<1> QED BY <1>1, <1>2 DEF Sweep

LEMMA NextSound ==
  ASSUME "crash" \notin Acts, IInv, Sound, [Next]_vars
  PROVE  Sound'
<1>1. CASE UNCHANGED vars
  BY <1>1 DEF vars, Sound, Knows, WellKnown, Started, Good
<1>2. ~Crash /\ ~BootStep
  BY DEF Crash, BootStep, Booted, Orphan, Release, Inspect, ClaimDependent, Act, Sound
<1>3. ASSUME NEW p \in Procs \ {Boot}, Release(p) PROVE Sound'
  BY <1>3, InspectSound, ClaimDependentSound, ActSound DEF Release
<1>4. ASSUME NEW p \in Calls, NEW s \in Subs, NEW A \in SUBSET kids, Resolve(p, s, A) PROVE Sound'
  BY <1>4, ResolveSound
<1> QED BY <1>1, <1>2, <1>3, <1>4, WakeLeadSound, WorkerStepSound, CreateStepSound,
           AcceptSound, PersonActsSound, SweepSound DEF Next, Running

(***************************************************************************)
(* The wake, while no person interferes and the process does not die.      *)
(***************************************************************************)
Waking   == {"claimWake", "sendWake"}
Sends(q) == pc[q] = "sendWake"

NoOutsider == pc[Boot] = "free" /\ \A c \in Clients : pc[c] = "free"

\* Only the agent of a lead that is running creates.
LeadCreates ==
  \A t \in Tools : pc[t] \in CreatePC => pc[Lead] = "agent" /\ st[Lead] = "running"

\* What a wake reports, or has reported, exists and is over.
Reported ==
  /\ told \subseteq kids /\ \A s \in kids : st[s] # "none"
  /\ \A p \in Procs : pc[p] \in Waking =>
       wants[p] \subseteq kids /\ \A s \in wants[p] : st[s] \in Terminal

\* No wake, earlier or on its way, knows of a subtask that is being created.
Newcomers ==
  \A t \in Tools : pc[t] \in {"enqueue", "arm"} =>
    /\ dep[t] \in kids \ told
    /\ \A p \in Procs : pc[p] \in Waking => dep[t] \notin wants[p]

\* While the lead waits there is a subtask it has not been told of, and nobody
\* is about to tell it.
Owed ==
  awaiting => \E s \in kids \ told : \A q \in Procs : Sends(q) => s \notin wants[q]

\* A wake that reports all subtasks there are has the flag, and something that
\* nobody else tells.
OneReport ==
  \A p \in Procs : Sends(p) /\ kids \subseteq wants[p] =>
    /\ ~awaiting
    /\ \E s \in kids \ told : \A q \in Procs \ {p} : Sends(q) => s \notin wants[q]

Undisturbed == /\ NoOutsider /\ LeadCreates /\ Reported
               /\ Newcomers /\ Owed /\ OneReport

USE DEF Waking, Sends

LEMMA InitUndisturbed == Init => Undisturbed
BY DEF Init, Undisturbed, NoOutsider, LeadCreates, Reported, Newcomers, Owed, OneReport

\* What a step may do with the rest of the state as long as it leaves the
\* subtasks, the flag and what the wakes know alone.
LEMMA SameNews ==
  ASSUME IInv, Undisturbed, UNCHANGED <<kids, told>>, awaiting' => awaiting,
         \A p \in Procs : pc'[p] \in Waking =>
           pc[p] = pc'[p] /\ wants'[p] = wants[p],
         \A t \in Tools : pc'[t] \in {"enqueue", "arm"} =>
           pc[t] \in {"enqueue", "arm"} /\ dep'[t] = dep[t],
         \A s \in Subs : st[s] \in Terminal => st'[s] \in Terminal,
         \A s \in Subs : st[s] # "none" => st'[s] # "none"
  PROVE  Reported' /\ Newcomers' /\ Owed' /\ OneReport'
<1>1. kids \subseteq Subs
  BY DEF IInv, TypeOK
<1>2. Reported'
  BY <1>1 DEF Undisturbed, Reported
<1>3. Newcomers'
  BY DEF Undisturbed, Newcomers
<1>4. Owed' /\ OneReport'
  BY DEF Undisturbed, Owed, OneReport
<1> QED BY <1>2, <1>3, <1>4

LEMMA ReleaseUndisturbed ==
  ASSUME IInv, Undisturbed, NEW p \in Procs \ {Boot}, Release(p)
  PROVE  Undisturbed'
<1> USE DEF IInv, TypeOK, InHand, Undisturbed
<1>1. CASE Inspect(p)
  <2>1. Reported' /\ Newcomers' /\ Owed' /\ OneReport'
    BY <1>1, SameNews DEF Inspect
  <2> QED BY <1>1, <2>1 DEF Inspect, NoOutsider, LeadCreates
<1>2. CASE ClaimDependent(p)
  <2>1. Reported' /\ Newcomers' /\ Owed' /\ OneReport'
    BY <1>2, SameNews DEF ClaimDependent
  <2> QED BY <1>2, <2>1 DEF ClaimDependent, NoOutsider, LeadCreates
<1>3. CASE Act(p)
  <2>1. Reported' /\ Newcomers' /\ Owed' /\ OneReport'
    BY <1>3, SameNews DEF Act
  <2> QED BY <1>3, <2>1 DEF Act, NoOutsider, LeadCreates
<1> QED BY <1>1, <1>2, <1>3 DEF Release

LEMMA WakeUndisturbed ==
  ASSUME IInv, Undisturbed, NEW p \in Procs \ {Boot}, WakeLead(p)
  PROVE  Undisturbed'
<1> USE DEF IInv, TypeOK, Undisturbed
<1>1. CASE WakeRead(p)
  <2>1. NoOutsider' /\ LeadCreates'
    BY <1>1 DEF WakeRead, NoOutsider, LeadCreates
  <2>2. Reported'
    BY <1>1 DEF WakeRead, Reported
  <2>3. Newcomers'
    BY <1>1 DEF WakeRead, Newcomers, LeadCreates
  <2>4. Owed' /\ OneReport'
    BY <1>1 DEF WakeRead, Owed, OneReport
  <2> QED BY <2>1, <2>2, <2>3, <2>4
<1>2. CASE ClaimWake(p)
  <2>1. NoOutsider' /\ LeadCreates'
    BY <1>2 DEF ClaimWake, NoOutsider, LeadCreates
  <2>2. Reported' /\ Newcomers'
    BY <1>2 DEF ClaimWake, Reported, Newcomers
  <2>3. Owed'
    BY <1>2 DEF ClaimWake, Owed
  <2>4. OneReport'
    BY <1>2 DEF ClaimWake, Owed, OneReport
  <2> QED BY <2>1, <2>2, <2>3, <2>4
<1>3. CASE SendWake(p)
  <2>1. /\ told' \in {told, told \cup wants[p]} /\ UNCHANGED <<kids, awaiting, dep>>
        /\ pc[p] = "sendWake" /\ pc' = [pc EXCEPT ![p] = "free"]
        /\ wants' = [wants EXCEPT ![p] = {}]
        /\ \A t \in Tasks : st'[t] # st[t] => t = Lead /\ st[Lead] \in Terminal
    BY <1>3 DEF SendWake, Deliver
  <2>2. NoOutsider' /\ LeadCreates'
    BY <2>1 DEF NoOutsider, LeadCreates
  <2>3. Reported'
    BY <2>1 DEF Reported
  <2>4. Newcomers'
    BY <2>1 DEF Newcomers
  <2>5. Owed' /\ OneReport'
    BY <2>1 DEF Owed, OneReport
  <2> QED BY <2>2, <2>3, <2>4, <2>5
<1> QED BY <1>1, <1>2, <1>3 DEF WakeLead

LEMMA WorkerUndisturbed ==
  ASSUME IInv, Undisturbed, NEW t \in Tasks, WorkerStep(t)
  PROVE  Undisturbed'
<1> USE DEF IInv, TypeOK, Undisturbed
<1>1. CASE Start(t)
  <2>1. Reported' /\ Newcomers' /\ Owed' /\ OneReport'
    BY <1>1, SameNews DEF Start
  <2> QED BY <1>1, <2>1 DEF Start, NoOutsider, LeadCreates
<1>2. CASE \E outcome \in Outcomes(t) : EndRun(t, outcome)
  <2>1. PICK outcome \in {"ok", "failed", "blocked"} : EndRun(t, outcome)
    BY <1>2 DEF Outcomes
  <2>2. Reported' /\ Newcomers' /\ Owed' /\ OneReport'
    BY <2>1, SameNews DEF EndRun
  <2> QED BY <2>1, <2>2 DEF EndRun, NoOutsider, LeadCreates
<1>3. CASE Settle(t)
  <2>1. Reported' /\ Newcomers' /\ Owed' /\ OneReport'
    BY <1>3, SameNews DEF Settle, FanIn
  <2> QED BY <1>3, <2>1 DEF Settle, FanIn, NoOutsider, LeadCreates
<1>4. CASE Escalate(t)
  <2>1. Reported' /\ Newcomers' /\ Owed' /\ OneReport'
    BY <1>4, SameNews DEF Escalate
  <2> QED BY <1>4, <2>1 DEF Escalate, NoOutsider, LeadCreates
<1>5. CASE SendQuestion(t)
  <2>1. Reported' /\ Newcomers' /\ Owed' /\ OneReport'
    BY <1>5, SameNews DEF SendQuestion, Deliver
  <2> QED BY <1>5, <2>1 DEF SendQuestion, Deliver, NoOutsider, LeadCreates
<1> QED BY <1>1, <1>2, <1>3, <1>4, <1>5 DEF WorkerStep

LEMMA CreateUndisturbed ==
  ASSUME IInv, Undisturbed, NEW p \in Calls, CreateStep(p)
  PROVE  Undisturbed'
<1> USE DEF IInv, TypeOK, InHand, Creating, Undisturbed
<1>1. p \in Tools
  BY DEF NoOutsider, CreateStep, CreateRow, EnqueueNew, Arm
<1>2. CASE CreateRow(p)
  <2>1. dep[p] \in Subs \ kids /\ kids' = kids \cup {dep[p]}
    BY <1>2 DEF CreateRow, Reported
  <2>2. NoOutsider' /\ LeadCreates'
    BY <1>2, <1>1 DEF CreateRow, NoOutsider, LeadCreates
  <2>3. Reported'
    BY <1>2, <2>1 DEF CreateRow, Reported
  <2>4. Newcomers'
    BY <1>2, <2>1 DEF CreateRow, Newcomers, Reported
  <2>5. Owed' /\ OneReport'
    BY <1>2, <2>1 DEF CreateRow, Owed, OneReport, Reported
  <2> QED BY <2>2, <2>3, <2>4, <2>5
<1>3. CASE EnqueueNew(p)
  <2>1. Reported' /\ Newcomers' /\ Owed' /\ OneReport'
    BY <1>3, SameNews DEF EnqueueNew
  <2> QED BY <1>3, <1>1, <2>1 DEF EnqueueNew, NoOutsider, LeadCreates
<1>4. CASE Arm(p)
  <2>1. NoOutsider' /\ LeadCreates'
    BY <1>4, <1>1 DEF Arm, NoOutsider, LeadCreates
  <2>2. Reported' /\ Newcomers'
    BY <1>4, <1>1 DEF Arm, Reported, Newcomers
  <2>3. dep[p] \in kids \ told /\ \A q \in Procs : pc[q] \in Waking => dep[p] \notin wants[q]
    BY <1>4, <1>1 DEF Arm, Newcomers
  <2>4. Owed' /\ OneReport'
    BY <1>4, <2>3 DEF Arm, Owed, OneReport
  <2> QED BY <2>1, <2>2, <2>4
<1> QED BY <1>2, <1>3, <1>4 DEF CreateStep

LEMMA CallUndisturbed ==
  ASSUME IInv, Undisturbed, Untouched, Untouched', NEW p \in Calls, NEW s \in Subs,
         Accept(p, s) \/ \E A \in SUBSET kids : Resolve(p, s, A)
  PROVE  Undisturbed'
<1> USE DEF IInv, TypeOK, Undisturbed
<1>1. p \in Tools
  BY DEF Accept, Resolve, Trouble, Untouched
<1>2. CASE Accept(p, s)
  <2>1. Reported' /\ Newcomers' /\ Owed' /\ OneReport'
    BY <1>1, <1>2, SameNews DEF Accept
  <2> QED BY <1>1, <1>2, <2>1 DEF Accept, EndedBadly, NoOutsider, LeadCreates
<1>3. CASE \E A \in SUBSET kids : Resolve(p, s, A)
  <2>1. Reported' /\ Newcomers' /\ Owed' /\ OneReport'
    BY <1>1, <1>3, SameNews DEF Resolve
  <2> QED BY <1>1, <1>3, <2>1 DEF Resolve, MayCreate, NoOutsider, LeadCreates
<1> QED BY <1>2, <1>3

LEMMA SweepUndisturbed ==
  ASSUME IInv, Undisturbed, Sweep
  PROVE  Undisturbed'
<1> USE DEF IInv, TypeOK, Undisturbed
<1>1. CASE SweepHeld
  <2>1. Reported' /\ Newcomers' /\ Owed' /\ OneReport'
    BY <1>1, SameNews DEF SweepHeld
  <2> QED BY <1>1, <2>1 DEF SweepHeld, NoOutsider, LeadCreates
<1>2. ASSUME NEW t \in Tasks, SweepQueued(t) PROVE Undisturbed'
  <2>1. Reported' /\ Newcomers' /\ Owed' /\ OneReport'
    BY <1>2, SameNews DEF SweepQueued, JobGone
  <2> QED BY <1>2, <2>1 DEF SweepQueued, JobGone, NoOutsider, LeadCreates
<1> QED BY <1>1, <1>2 DEF Sweep


LEMMA Calm ==
  ASSUME IInv, [Next]_vars, Untouched'
  PROVE  /\ Untouched /\ ~Crash /\ \A c \in Clients : ~PersonActs(c)
<1>1. trouble \in Nat
  BY DEF IInv, TypeOK
<1>2. ~Trouble
  BY <1>1 DEF Trouble, Untouched
<1>3. /\ ~Crash /\ \A c \in Clients : ~PersonActs(c)
  BY <1>2 DEF Crash, PersonActs, Person, Message, Cancel, Reopen, Delete, Promote
<1>4. ASSUME NEW p \in Procs, Release(p) \/ WakeLead(p) PROVE UNCHANGED trouble
  BY <1>4 DEF Release, Inspect, ClaimDependent, Act, WakeLead, WakeRead, ClaimWake, SendWake
<1>5. ASSUME NEW t \in Tasks, WorkerStep(t) PROVE UNCHANGED trouble
  BY <1>5 DEF WorkerStep, Start, EndRun, Settle, Escalate, SendQuestion
<1>6. ASSUME NEW p \in Calls, CreateStep(p) PROVE UNCHANGED trouble
  BY <1>6 DEF CreateStep, CreateRow, EnqueueNew, Arm
<1>7. ASSUME NEW p \in Calls, NEW s \in Subs,
             Accept(p, s) \/ \E A \in SUBSET kids : Resolve(p, s, A)
      PROVE  UNCHANGED trouble
  BY <1>2, <1>7 DEF Accept, Resolve
<1>8. Sweep \/ BootStep => UNCHANGED trouble
  BY <1>4 DEF Sweep, SweepHeld, SweepQueued, BootStep, Booted, Orphan
<1>9. UNCHANGED vars => UNCHANGED trouble
  BY DEF vars
<1>10. UNCHANGED trouble
  BY <1>3, <1>4, <1>5, <1>6, <1>7, <1>8, <1>9 DEF Next
<1> QED BY <1>3, <1>10 DEF Untouched

LEMMA NextUndisturbed ==
  ASSUME IInv, Untouched => Undisturbed, [Next]_vars
  PROVE  Untouched' => Undisturbed'
<1> SUFFICES ASSUME Untouched' PROVE Undisturbed'
  OBVIOUS
<1>1. Untouched /\ Undisturbed /\ ~Crash /\ \A c \in Clients : ~PersonActs(c)
  BY Calm
<1>2. CASE UNCHANGED vars
  BY <1>1, <1>2 DEF vars, Undisturbed, NoOutsider, LeadCreates, Reported, Newcomers, Owed, OneReport
<1>3. ~BootStep
  BY <1>1 DEF Undisturbed, NoOutsider, BootStep, Booted, Orphan, Release, Inspect,
     ClaimDependent, Act
<1> QED BY <1>1, <1>2, <1>3, ReleaseUndisturbed, WakeUndisturbed, WorkerUndisturbed,
           CreateUndisturbed, CallUndisturbed, SweepUndisturbed DEF Next, Running

-----------------------------------------------------------------------------
\* Every variable keeps its type.
THEOREM TypeCorrect == Spec => []TypeOK
BY AlwaysIInv, PTL DEF IInv

\* However many settlements, sweeps and deletions arrive together, and whenever
\* the process dies, a held subtask is released or blocked at most once
\* (settleDependent's claim).
THEOREM ReleasedOnceHolds == Spec => []ReleasedOnce
<1>1. IInv => ReleasedOnce
  BY DEF IInv, Once, ReleasedOnce
<1> QED BY <1>1, AlwaysIInv, PTL

\* As long as the process does not die, a held subtask runs only after all it
\* was told to wait for ended well, or when a person starts it (after).
THEOREM RunsAfterSuccessHolds ==
  ASSUME "crash" \notin Acts
  PROVE  Spec => []RunsAfterSuccess
<1>1. IInv /\ Sound /\ [Next]_vars => Sound'
  BY NextSound
<1>2. Sound => RunsAfterSuccess
  BY DEF Sound, Started, Good, RunsAfterSuccess
<1> QED BY <1>1, <1>2, InitSound, AlwaysIInv, PTL DEF Spec

\* Whatever the order in which subtasks, their settlements and the lead's runs
\* follow one another: a wake that is sent says something the lead has not been
\* told, unless the lead's agent created a subtask since the wake was read
\* (ClaimWake's guard, and the flag that createSubtask sets last).
THEOREM WakeHasNewsHolds == Spec => WakeHasNews
<1>1. IInv /\ (Untouched => Undisturbed) /\ [Next]_vars => (Untouched => Undisturbed)'
  BY NextUndisturbed
<1>2. (Untouched => Undisturbed) =>
        [ \A p \in Procs :
            /\ At(p, "sendWake") /\ pc'[p] # "sendWake" /\ Untouched
            /\ kids \subseteq wants[p]
            => ~(wants[p] \subseteq told) ]_vars
  BY DEF Undisturbed, OneReport
<1> QED BY <1>1, <1>2, InitUndisturbed, AlwaysIInv, PTL DEF Spec, WakeHasNews

\* What a wake reports as over when it is read is over when it is sent.
THEOREM WakeFindsAllOverHolds == Spec => WakeFindsAllOver
<1>1. IInv /\ (Untouched => Undisturbed) /\ [Next]_vars => (Untouched => Undisturbed)'
  BY NextUndisturbed
<1>2. (Untouched => Undisturbed) =>
        [ \A p \in Procs : At(p, "sendWake") /\ pc'[p] # "sendWake" /\ Untouched
            => \A s \in wants[p] : Over(s) ]_vars
  BY DEF Undisturbed, Reported
<1> QED BY <1>1, <1>2, InitUndisturbed, AlwaysIInv, PTL DEF Spec, WakeFindsAllOver

===============================================================================
