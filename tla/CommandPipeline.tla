-------------------------- MODULE CommandPipeline --------------------------
(***************************************************************************)
(* The heavy commands of all tasks: an attempt (one run of an agent) gets  *)
(* a token, calls run_command with it, each command is authorized, waits   *)
(* in one line for one of a few slots, passes the capacity gate and runs.  *)
(* A task's cancel, the end of an attempt and a caller that hangs up stop  *)
(* commands; the number of slots changes while commands wait.              *)
(*                                                                         *)
(* The queue is synchronous code between awaits, so a step is a whole call *)
(* of run, cancel, slotsChanged or the end of start, its pump included.    *)
(***************************************************************************)
EXTENDS Naturals, Sequences, FiniteSets

CONSTANTS
  Cmds,     \* calls of run_command
  Light,    \* those that bypass the queue
  Attempts, \* runs of agents, one token each
  Tasks,
  OwnerOf,  \* the attempt that makes each call
  TaskOf,   \* the task of each attempt
  Slots     \* values the number of heavy slots may take

ASSUME PipelineAssumption ==
  /\ IsFiniteSet(Cmds) /\ Light \subseteq Cmds
  /\ OwnerOf \in [Cmds -> Attempts] /\ TaskOf \in [Attempts -> Tasks]
  /\ Slots \subseteq Nat /\ Slots # {}

T(c)    == TaskOf[OwnerOf[c]]
States  == {"none", "asks", "waiting", "starting", "running", "over"}

VARIABLES
  tokens,  \* CommandPipelineService.runs: tokens that are valid
  ended,   \* history: attempts that were unregistered or whose task was cancelled
  cmd,     \* per command: how far it has come
  line,    \* CommandQueue.waiting
  cancelled, \* commands taken out of the line, or whose controller is aborted
  hungUp,  \* commands whose caller has gone (the request's signal)
  slots,   \* the current number of slots
  hold     \* per task: whether a wait is shown on it (holds)

who  == <<tokens, ended, hungUp>>
cqVars == <<who, cmd, line, cancelled, slots, hold>>

CQTypeOK ==
  /\ tokens \subseteq Attempts /\ ended \subseteq Attempts
  /\ cmd \in [Cmds -> States] /\ line \in Seq(Cmds)
  /\ cancelled \subseteq Cmds /\ hungUp \subseteq Cmds
  /\ slots \in Slots /\ hold \in [Tasks -> BOOLEAN]

CQInit ==
  /\ tokens = {} /\ ended = {} /\ hungUp = {}
  /\ cmd = [c \in Cmds |-> "none"] /\ line = <<>>
  /\ cancelled = {} /\ slots \in Slots
  /\ hold = [t \in Tasks |-> FALSE]

(***************************************************************************)
(* Helpers.  A definition that stands right before another one with the    *)
(* same parameters, and that nothing uses, is a faulty form of it: the     *)
(* properties are checked to notice it.                                    *)
(***************************************************************************)
Become(c, s)   == cmd' = [cmd EXCEPT ![c] = s]
Active         == {c \in Cmds \ Light : cmd[c] \in {"starting", "running"}}
Limit(n)       == IF n = 0 THEN 1 ELSE n
Items(w)       == {w[i] : i \in DOMAIN w}

\* The line with the commands of S taken out, the others in their order: the
\* n-th of them is the one with n kept places up to its own.
Kept(S)     == {i \in DOMAIN line : line[i] \notin S}
Rank(S, i)  == Cardinality({k \in Kept(S) : k <= i})
Place(S, n) == CHOOSE i \in Kept(S) : Rank(S, i) = n
Without(S)  == [n \in 1..Cardinality(Kept(S)) |-> line[Place(S, n)]]

OverTaken(w, busy, n) ==
  LET free == IF busy > Limit(n) THEN 0 ELSE Limit(n) + 1 - busy
  IN  IF free < Len(w) THEN free ELSE Len(w)

\* How many of the line w may start beside so many that hold a slot.
Taken(w, busy, n) ==
  LET free == IF busy > Limit(n) THEN 0 ELSE Limit(n) - busy
  IN  IF free < Len(w) THEN free ELSE Len(w)

\* pump: the commands of `over` are gone, the line is w, n slots: the first
\* ones in line take the free slots.
Pump(w, over, n) ==
  LET k     == Taken(w, Cardinality(Active \ over), n)
      start == Items(SubSeq(w, 1, k))
  IN  /\ line' = SubSeq(w, k + 1, Len(w))
      /\ cmd' = [c \in Cmds |-> IF c \in over THEN "over"
                                ELSE IF c \in start THEN "starting"
                                ELSE IF c \in Items(w) THEN "waiting"
                                ELSE cmd[c]]

Waits(w) == {T(c) : c \in Items(w)}

\* tellWaiting shows a wait on some tasks, a call that ends clears its task's.
ForgetfulShow(told, cleared) == hold' = [t \in Tasks |-> hold[t] \/ t \in told]

Show(told, cleared) ==
  hold' = [t \in Tasks |-> t \notin cleared /\ (hold[t] \/ t \in told)]

(***************************************************************************)
(* Tokens.                                                                 *)
(***************************************************************************)
Register(a) ==
  /\ a \notin tokens \cup ended
  /\ tokens' = tokens \cup {a}
  /\ UNCHANGED <<ended, hungUp, cmd, line, cancelled, slots, hold>>

\* cancel of several commands: the waiting ones are over, the active ones get
\* their signal.
Stop(S) ==
  LET out == S \cap Items(line) IN
  /\ line' = Without(out)
  /\ cmd' = [c \in Cmds |-> IF c \in out THEN "over" ELSE cmd[c]]
  /\ cancelled' = cancelled \cup (S \cap (Active \cup Items(line)))

Told(S) == IF S \cap Items(line) = {} THEN {} ELSE Waits(Without(S))

WideUnregister(a) ==
  LET mine == {c \in Cmds : T(c) = TaskOf[a]} IN
  /\ a \in tokens /\ tokens' = tokens \ {a} /\ ended' = ended \cup {a}
  /\ Stop(mine) /\ Show(Told(mine), {TaskOf[a]})
  /\ UNCHANGED <<hungUp, slots>>

\* The attempt is over: its token goes and its commands stop. The hold goes
\* with the last token of the task, or with a command that waited.
Unregister(a) ==
  LET mine == {c \in Cmds : OwnerOf[c] = a}
      last == \A b \in tokens \ {a} : TaskOf[b] # TaskOf[a]
  IN  /\ a \in tokens /\ tokens' = tokens \ {a} /\ ended' = ended \cup {a}
      /\ Stop(mine)
      /\ Show(Told(mine), IF last \/ mine \cap Items(line) # {} THEN {TaskOf[a]}
                          ELSE {})
      /\ UNCHANGED <<hungUp, slots>>

\* cancelTask: all tokens and all commands of the task that are in the queue.
CancelTask(t) ==
  LET mine == {c \in Cmds : T(c) = t}
      gone == {a \in tokens : TaskOf[a] = t}
  IN  /\ gone # {} \/ mine \cap (Active \cup Items(line)) # {}
      /\ tokens' = tokens \ gone /\ ended' = ended \cup gone
      /\ Stop(mine) /\ Show(Told(mine), {t})
      /\ UNCHANGED <<hungUp, slots>>

(***************************************************************************)
(* One command: run of the service, then run of the queue.                 *)
(***************************************************************************)

\* The token is looked up once; from here on the call holds its context.
Call(c) ==
  /\ cmd[c] = "none" /\ OwnerOf[c] \in tokens
  /\ Become(c, "asks")
  /\ UNCHANGED <<who, line, cancelled, slots, hold>>

\* Refused by the check or by a person.
TurnDown(c) ==
  /\ cmd[c] = "asks" /\ Become(c, "over")
  /\ UNCHANGED <<who, line, cancelled, slots, hold>>

RunLight(c) ==
  /\ cmd[c] = "asks" /\ c \in Light
  /\ Become(c, "running")
  /\ UNCHANGED <<who, line, cancelled, slots, hold>>

\* CommandQueue.run: a caller that has hung up is turned away.
Enqueue(c) ==
  /\ cmd[c] = "asks" /\ c \notin Light
  /\ IF c \in hungUp
     THEN Become(c, "over") /\ Show({}, {T(c)}) /\ UNCHANGED line
     ELSE Pump(Append(line, c), {}, slots) /\ Show({T(c)}, {})
  /\ UNCHANGED <<who, cancelled, slots>>

\* The gate finds the machine busy and says so.
Busy(c) ==
  /\ cmd[c] = "starting"
  /\ Show({T(c)}, {})
  /\ UNCHANGED <<who, cmd, line, cancelled, slots>>

SilentFinish(c) ==
  /\ Become(c, "over") /\ Show(Waits(line), {T(c)})
  /\ UNCHANGED <<who, line, cancelled, slots>>

\* The finally of start, and the finally of the call behind it.
Finish(c) ==
  /\ Pump(line, {c}, slots) /\ Show(Waits(line), {T(c)})
  /\ UNCHANGED <<who, cancelled, slots>>

\* The gate lets it go: the machine is calm, the wait is used up, or the
\* command was cancelled meanwhile.
Open(c) ==
  /\ cmd[c] = "starting"
  /\ IF c \in cancelled THEN Finish(c)
     ELSE /\ Become(c, "running")
          /\ Show({}, {T(c)})
          /\ UNCHANGED <<who, line, cancelled, slots>>

\* The process ends: by itself, at its time limit or killed by the signal.
End(c) ==
  /\ cmd[c] = "running"
  /\ IF c \in Light
     THEN /\ Become(c, "over") /\ Show({}, {T(c)})
          /\ UNCHANGED <<who, line, cancelled, slots>>
     ELSE Finish(c)

\* The caller's request is closed while its command is somewhere on the way.
HangUp(c) ==
  /\ cmd[c] \notin {"none", "over"} /\ c \notin hungUp
  /\ hungUp' = hungUp \cup {c}
  /\ Stop({c})
  /\ Show(Told({c}), IF c \in Items(line) THEN {T(c)} ELSE {})
  /\ UNCHANGED <<tokens, ended, slots>>

LazySlotsChanged(n) ==
  /\ n # slots /\ slots' = n
  /\ UNCHANGED <<who, cmd, line, cancelled, hold>>

\* The setting changed: a raised number takes the next ones from the line.
SlotsChanged(n) ==
  /\ n # slots /\ slots' = n
  /\ Pump(line, {}, n)
  /\ UNCHANGED <<who, cancelled, hold>>

CQNext ==
  \/ \E a \in Attempts : Register(a) \/ Unregister(a)
  \/ \E t \in Tasks : CancelTask(t)
  \/ \E c \in Cmds : \/ Call(c) \/ TurnDown(c) \/ RunLight(c) \/ Enqueue(c)
                     \/ Busy(c) \/ Open(c) \/ End(c) \/ HangUp(c)
  \/ \E n \in Slots : SlotsChanged(n)

CQSpec == CQInit /\ [][CQNext]_cqVars

\* The gate's wait is bounded and a command has a time limit.
CQFairness == \A c \in Cmds \ Light : WF_cqVars(Open(c) \/ End(c))

CQFairSpec == CQSpec /\ CQFairness

(***************************************************************************)
(* Properties                                                              *)
(***************************************************************************)

\* Nobody waits while a slot is free: not after a command ended, failed or was
\* cancelled at the gate, nor after the number of slots was raised.
NoIdleSlot == line # <<>> => Cardinality(Active) >= Limit(slots)

\* A command never starts beyond the limit. A lowered limit stops nobody.
LimitRespected ==
  [][ Cardinality(Active') > Cardinality(Active)
        => Cardinality(Active') <= Limit(slots') ]_cqVars

\* A wait is shown only on a task that has a command which waits.
HoldIsTrue ==
  \A t \in Tasks : hold[t] =>
    \E c \in Cmds : T(c) = t /\ cmd[c] \in {"waiting", "starting"}

\* The end of one attempt never stops a command of another attempt of the same
\* task, nor does anything else but its own end, its task's and its caller's.
OnlyOwnStops ==
  \A c \in cancelled : OwnerOf[c] \in ended \/ c \in hungUp

\* Every command that waits gets its turn.
EachIsServed == \A c \in Cmds \ Light : cmd[c] = "waiting" ~> cmd[c] # "waiting"

\* The comment of cancelTask: the tokens go, "so nothing of it can start again".
NothingStartsAgain ==
  [][ \A c \in Cmds : cmd[c] # "running" /\ cmd'[c] = "running"
        => OwnerOf[c] \notin ended ]_cqVars

\* holds.ts: shown "so a wait does not look like a hang".
WaitIsShown == \A c \in Items(line) : hold[T(c)]
=============================================================================
