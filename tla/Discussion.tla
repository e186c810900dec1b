----------------------------- MODULE Discussion -----------------------------
(***************************************************************************)
(* A round table in one chat, which is a task: agents take turns, a person *)
(* joins in, asks for the conclusion, stops it or cancels the task.  The   *)
(* discussion and the task's own jobs share the task's status, which the   *)
(* discussion writes twice: `running` at its start and the outcome at its  *)
(* end.                                                                    *)
(*                                                                         *)
(* A step between two awaits is one action.  What a settle does with a     *)
(* held message (TaskLifecycle has its steps) is one action here.          *)
(***************************************************************************)
EXTENDS Naturals, FiniteSets

CONSTANTS
  Starts,        \* requests to start a discussion in the chat
  Messages,      \* what people send to the chat
  Participants,  \* how many agents take part
  Turns,         \* turns of a discussion: participants times rounds
  Summary,       \* whether one of them writes the conclusion
  MaxCrashes     \* bound: how often the server stops

None == "none"

ASSUME DiscussionAssumption ==
  /\ Participants \in Nat \ {0, 1} /\ Turns \in Nat \ {0}
  /\ Summary \in BOOLEAN /\ MaxCrashes \in Nat
  /\ None \notin Starts /\ IsFiniteSet(Starts)

Playing == {"top", "go", "turn", "back", "closing", "sumgo", "summary", "note"}

VARIABLES
  status,   \* Task.status: "settled" (a person is next), "failed", "cancelled",
            \* "queued", "running"
  active,   \* the entry of the chat in DiscussionService.active
  pc,       \* where a request to start, and then its play, stands
  turn,     \* turns begun
  failures, \* turns without an answer, one after the other
  ended,    \* how the play ends: "done", "cancelled", "failed"
  stop,     \* stop was asked for
  conclude, \* the conclusion was asked for
  at,       \* where a message is
  run,      \* a job of the task runs
  cancel,   \* a cancel stands between its steps
  extra,    \* history: turns begun since the stop was asked for
  crashes   \* how often the server has stopped

play == <<turn, failures, ended, stop, conclude, extra>>
vars == <<status, active, pc, play, at, run, cancel, crashes>>

Terminal == {"settled", "failed", "cancelled"}

TypeOK ==
  /\ status \in Terminal \cup {"queued", "running"}
  /\ active \in Starts \cup {None}
  /\ pc \in [Starts -> {"new", "free", "busy", "set", "end", "write", "over"} \cup Playing]
  /\ turn \in [Starts -> 0 .. Turns] /\ failures \in [Starts -> 0 .. 2]
  /\ ended \in [Starts -> {"done", "cancelled", "failed"}]
  /\ stop \in [Starts -> BOOLEAN] /\ conclude \in [Starts -> BOOLEAN]
  /\ extra \in [Starts -> Nat]
  /\ at \in [Messages -> {"new", "live", "rest", "human", "seen", "lost",
                          "held", "job", "given", "dropped"}]
  /\ run \in BOOLEAN /\ cancel \in BOOLEAN /\ crashes \in 0 .. MaxCrashes

Init ==
  /\ status = "settled" /\ active = None
  /\ pc = [s \in Starts |-> "new"]
  /\ turn = [s \in Starts |-> 0] /\ failures = [s \in Starts |-> 0]
  /\ ended = [s \in Starts |-> "done"]
  /\ stop = [s \in Starts |-> FALSE] /\ conclude = [s \in Starts |-> FALSE]
  /\ extra = [s \in Starts |-> 0]
  /\ at = [m \in Messages |-> "new"]
  /\ run = FALSE /\ cancel = FALSE /\ crashes = 0

\* What a play knows goes with it: all but its outcome when it leaves the chat.
Forget(S) ==
  /\ turn' = [s \in Starts |-> IF s \in S THEN 0 ELSE turn[s]]
  /\ failures' = [s \in Starts |-> IF s \in S THEN 0 ELSE failures[s]]
  /\ stop' = [s \in Starts |-> s \notin S /\ stop[s]]
  /\ conclude' = [s \in Starts |-> s \notin S /\ conclude[s]]
  /\ extra' = [s \in Starts |-> IF s \in S THEN 0 ELSE extra[s]]

Move(s, place) == pc' = [pc EXCEPT ![s] = place]

-----------------------------------------------------------------------------
\* A status that ends the work is written: unless a job still runs, the next
\* held message is dispatched at once.
WriteOver(new, queue) ==
  IF run' \/ \A m \in Messages : queue[m] # "held"
  THEN status' = new /\ at' = queue
  ELSE \E m \in Messages : /\ queue[m] = "held"
                           /\ status' = "queued"
                           /\ at' = [queue EXCEPT ![m] = "job"]

\* start reads the status of the chat's task ...
Start(s) ==
  /\ pc[s] = "new"
  /\ Move(s, IF status \in Terminal THEN "free" ELSE "busy")
  /\ UNCHANGED <<status, active, play, at, run, cancel, crashes>>

\* Fault: whether a discussion plays is looked at before the read comes back.
UncheckedEnter(s) ==
  /\ pc[s] \in {"free", "busy"}
  /\ IF pc[s] = "free" THEN active' = s /\ Move(s, "set")
     ELSE Move(s, "over") /\ UNCHANGED active
  /\ UNCHANGED <<status, play, at, run, cancel, crashes>>

\* ... and takes the chat, or refuses.
Enter(s) ==
  /\ pc[s] \in {"free", "busy"}
  /\ IF active = None /\ pc[s] = "free"
     THEN active' = s /\ Move(s, "set")
     ELSE Move(s, "over") /\ UNCHANGED active
  /\ UNCHANGED <<status, play, at, run, cancel, crashes>>

\* setStatus does not fail here: a database that refuses it would leave the
\* entry in `active` until the server stops.
SetRunning(s) ==
  /\ pc[s] = "set"
  /\ status' = "running"
  /\ Move(s, "top")
  /\ UNCHANGED <<active, play, at, run, cancel, crashes>>

\* Fault: only a cancel halts the loop, a stop aborts the turn in progress.
DeafHalted(s) == status = "cancelled"

Halted(s) == stop[s] \/ status = "cancelled"

Stay == UNCHANGED <<active, play, at>>

\* The finally: the chat is free, and what was said to this discussion goes.
FreeChat(s) ==
  /\ Move(s, "end")
  /\ active' = None
  /\ at' = [m \in Messages |-> IF at[m] = "human" THEN "lost" ELSE at[m]]
  /\ Forget({s})

\* The play ends; a failure is noted in the chat first.
End(s, how) ==
  /\ ended' = [ended EXCEPT ![s] = how]
  /\ IF how = "failed"
     THEN Move(s, "note") /\ UNCHANGED <<active, at, turn, failures, stop, conclude, extra>>
     ELSE FreeChat(s)

\* The head of the loop, up to what it reads of the task.
Top(s) ==
  /\ pc[s] = "top"
  /\ IF turn[s] = Turns \/ conclude[s] THEN Move(s, "closing") /\ Stay
     ELSE IF Halted(s) THEN End(s, "cancelled")
     ELSE Move(s, "go") /\ Stay
  /\ UNCHANGED <<status, run, cancel, crashes>>

\* The speaker is shown the conversation, with what people said meanwhile.
Speak(s, next) ==
  /\ at' = [m \in Messages |-> IF at[m] = "human" THEN "seen" ELSE at[m]]
  /\ extra' = [extra EXCEPT ![s] = IF stop[s] THEN @ + 1 ELSE @]
  /\ Move(s, next)

\* Fault: the loop does not move on.
RepeatingTurnBegins(s) ==
  /\ pc[s] = "go"
  /\ Speak(s, "turn")
  /\ UNCHANGED <<status, active, turn, failures, ended, stop, conclude, run, cancel, crashes>>

TurnBegins(s) ==
  /\ pc[s] = "go"
  /\ Speak(s, "turn")
  /\ turn' = [turn EXCEPT ![s] = @ + 1]
  /\ UNCHANGED <<status, active, failures, ended, stop, conclude, run, cancel, crashes>>

\* The run of the speaker throws, has no answer, or has one.
TurnEnds(s) ==
  /\ pc[s] = "turn"
  /\ \/ End(s, "failed")
     \/ /\ \E f \in {0, failures[s] + 1} : failures' = [failures EXCEPT ![s] = f]
        /\ Move(s, "back")
        /\ UNCHANGED <<active, at, turn, ended, stop, conclude, extra>>
  /\ UNCHANGED <<status, run, cancel, crashes>>

\* Fault: turns that fail do not end it.
\* Two failures in a row end it, and so may a round in which all agree.
Back(s) ==
  /\ pc[s] = "back"
  /\ \/ Halted(s) /\ End(s, "cancelled")
     \/ ~Halted(s) /\ failures[s] = 2 /\ End(s, "failed")
     \/ ~Halted(s) /\ failures[s] < 2 /\ Move(s, "top") /\ Stay
     \/ /\ ~Halted(s) /\ failures[s] = 0 /\ turn[s] >= Participants
        /\ Move(s, "closing") /\ Stay
  /\ UNCHANGED <<status, run, cancel, crashes>>

\* Whether there is to be a conclusion.
Closing(s) ==
  /\ pc[s] = "closing"
  /\ IF Summary /\ ~Halted(s) THEN Move(s, "sumgo") /\ Stay ELSE End(s, "done")
  /\ UNCHANGED <<status, run, cancel, crashes>>

SummaryBegins(s) ==
  /\ pc[s] = "sumgo"
  /\ Speak(s, "summary")
  /\ UNCHANGED <<status, active, turn, failures, ended, stop, conclude, run, cancel, crashes>>

SummaryEnds(s) ==
  /\ pc[s] = "summary"
  /\ \E how \in {"done", "failed"} : End(s, how)
  /\ UNCHANGED <<status, run, cancel, crashes>>

Noted(s) ==
  /\ pc[s] = "note"
  /\ FreeChat(s)
  /\ UNCHANGED <<status, ended, run, cancel, crashes>>

\* Fault: only an end that was not asked for is written.
SilentLeave(s) ==
  /\ pc[s] = "end"
  /\ Move(s, IF status \in Terminal \/ ended[s] = "cancelled" THEN "over" ELSE "write")
  /\ UNCHANGED <<status, active, play, at, run, cancel, crashes>>

\* The rest of the finally: the status is read ...
Leave(s) ==
  /\ pc[s] = "end"
  /\ Move(s, IF status \in Terminal THEN "over" ELSE "write")
  /\ ended' = [ended EXCEPT ![s] = IF status \in Terminal THEN "done" ELSE @]
  /\ UNCHANGED <<status, active, turn, failures, stop, conclude, extra, at, run,
                 cancel, crashes>>

\* ... and, if that was not over, the outcome written.
WriteOutcome(s) ==
  /\ pc[s] = "write"
  /\ UNCHANGED run
  /\ WriteOver(IF ended[s] = "failed" THEN "failed" ELSE "settled", at)
  /\ Move(s, "over")
  /\ ended' = [ended EXCEPT ![s] = "done"]
  /\ UNCHANGED <<active, turn, failures, stop, conclude, extra, cancel, crashes>>

-----------------------------------------------------------------------------
Stop ==
  /\ active # None
  /\ stop' = [stop EXCEPT ![active] = TRUE]
  /\ UNCHANGED <<status, active, pc, turn, failures, ended, conclude, extra, at, run,
                 cancel, crashes>>

Conclude ==
  /\ active # None
  /\ conclude' = [conclude EXCEPT ![active] = TRUE]
  /\ UNCHANGED <<status, active, pc, turn, failures, ended, stop, extra, at, run,
                 cancel, crashes>>

\* A message: followUp reads the status ...
Send(m) ==
  /\ at[m] = "new"
  /\ at' = [at EXCEPT ![m] = IF status \in Terminal THEN "rest" ELSE "live"]
  /\ UNCHANGED <<status, active, pc, play, run, cancel, crashes>>

\* ... and gives it to the discussion, to the queue or to a new job.
Deliver(m) ==
  /\ at[m] \in {"rest", "live"}
  /\ IF active # None THEN at' = [at EXCEPT ![m] = "human"] /\ UNCHANGED status
     ELSE IF at[m] = "rest" /\ status \in Terminal
     THEN at' = [at EXCEPT ![m] = "job"] /\ status' = "queued"
     ELSE at' = [at EXCEPT ![m] = "held"] /\ UNCHANGED status
  /\ UNCHANGED <<active, pc, play, run, cancel, crashes>>

\* The worker starts a job, holds its message for a task that is busy, or
\* drops it with a task that is cancelled.
StartJob(m) ==
  /\ at[m] = "job"
  /\ \/ /\ status \notin {"running", "cancelled"} /\ ~run
        /\ status' = "running" /\ run' = TRUE
        /\ at' = [at EXCEPT ![m] = "given"]
     \/ status = "running" /\ at' = [at EXCEPT ![m] = "held"] /\ UNCHANGED <<status, run>>
     \/ status = "cancelled" /\ at' = [at EXCEPT ![m] = "dropped"] /\ UNCHANGED <<status, run>>
  /\ UNCHANGED <<active, pc, play, cancel, crashes>>

\* The run is over and settled; a cancelled task keeps its status.
EndJob ==
  /\ run
  /\ run' = FALSE
  /\ WriteOver(IF status = "cancelled" THEN "cancelled" ELSE "settled", at)
  /\ UNCHANGED <<active, pc, play, cancel, crashes>>

\* A cancel drops the messages and jobs that wait ...
Cancel ==
  /\ status \notin Terminal /\ ~cancel
  /\ at' = [m \in Messages |-> IF at[m] \in {"held", "job"} THEN "dropped" ELSE at[m]]
  /\ cancel' = TRUE
  /\ UNCHANGED <<status, active, pc, play, run, crashes>>

\* ... and then writes the status.
CancelWrite ==
  /\ cancel
  /\ UNCHANGED run
  /\ WriteOver("cancelled", at)
  /\ cancel' = FALSE
  /\ UNCHANGED <<active, pc, play, crashes>>

\* The server stops; when it is back a task that was running is stalled.
Crash ==
  /\ crashes < MaxCrashes
  /\ crashes' = crashes + 1
  /\ pc' = [s \in Starts |-> IF pc[s] = "new" THEN "new" ELSE "over"]
  /\ active' = None /\ run' = FALSE /\ cancel' = FALSE
  /\ LET left == [m \in Messages |-> IF at[m] = "human" THEN "lost"
                                    ELSE IF at[m] \in {"rest", "live"} THEN "dropped" ELSE at[m]]
     IN  IF status = "running" THEN WriteOver("failed", left)
         ELSE at' = left /\ UNCHANGED status
  /\ Forget(Starts) /\ ended' = [s \in Starts |-> "done"]

-----------------------------------------------------------------------------
Play(s) == \/ Enter(s) \/ SetRunning(s) \/ Top(s) \/ TurnBegins(s) \/ TurnEnds(s) \/ Back(s)
           \/ Closing(s) \/ SummaryBegins(s) \/ SummaryEnds(s) \/ Noted(s) \/ Leave(s) \/ WriteOutcome(s)

Next ==
  \/ \E s \in Starts : Start(s) \/ Play(s)
  \/ \E m \in Messages : Send(m) \/ Deliver(m) \/ StartJob(m)
  \/ EndJob \/ Stop \/ Conclude \/ Cancel \/ CancelWrite \/ Crash

Spec == Init /\ [][Next]_vars

\* Queries and the runs of agents come back, and the worker works; nobody has
\* to start, send, stop or cancel anything.
FairSpec ==
  /\ Spec
  /\ \A s \in Starts : WF_vars(Play(s))
  /\ \A m \in Messages : WF_vars(Deliver(m)) /\ WF_vars(StartJob(m))
  /\ WF_vars(EndJob) /\ WF_vars(CancelWrite)

-----------------------------------------------------------------------------
\* One discussion plays in a chat, and it is the one that stop, conclude and
\* the messages reach, though start waits between its look at the chat and
\* its taking of it (start, active).
OneDiscussion == \A s \in Starts : pc[s] \in Playing \cup {"set"} => active = s

\* A task is not left `running` by a discussion that has ended, in whatever
\* way: somebody who will write its status is still at work (play's finally).
RunningHasOwner ==
  status = "running" => run \/ \E s \in Starts : pc[s] \in Playing \cup {"end", "write"}

\* A stop lets at most one more turn begin, the one whose look at the flags
\* came just before it (halted).
StopsSoon == \A s \in Starts : extra[s] <= 1

\* A discussion comes to its end and the chat is free (play).
DiscussionEnds == \A s \in Starts : pc[s] = "set" ~> pc[s] = "over"

\* "it joins the conversation and is answered first": a discussion that is
\* not stopped, cancelled or failed has shown every message it has taken to a
\* speaker before it ends.
InterjectionIsAnswered ==
  [][\A s \in Starts :
       pc[s] \in Playing /\ pc'[s] = "end" =>
         \/ ended'[s] # "done" \/ stop[s] \/ status = "cancelled"
         \/ \A m \in Messages : at[m] # "human"]_vars

\* "a cancelled chat ends the loop without touching its status": the end of
\* a discussion does not reopen a task that was cancelled.
CancelStays ==
  [][\A s \in Starts : pc[s] = "write" /\ pc'[s] = "over" /\ crashes' = crashes
       => status # "cancelled"]_vars

\* "wait until the agent has finished, then start": no discussion plays while
\* a job of its task runs.
NoRunBeside == ~(run /\ \E s \in Starts : pc[s] \in Playing)
=============================================================================
