---------------------------- MODULE RunAttempts ----------------------------
(***************************************************************************)
(* One task's runs in the agent executor: a run walks a chain of models,   *)
(* one attempt each.  An attempt installs its controller, which a cancel,  *)
(* the memory guard, its deadline (RunDeadline) and the next attempt       *)
(* abort; it ends with a result or an error, and the run returns, fails    *)
(* over to a fallback or hands on to a stronger model.  A run normally     *)
(* follows the one before; one that outlasted the wait for it              *)
(* (TaskLifecycle) overlaps the next.                                      *)
(***************************************************************************)
EXTENDS Naturals, Sequences

CONSTANTS
  Runs,
  Chain,  \* the full chain: "primary", "rung" of the ladder or "fallback"
  None    \* no attempt

ASSUME AttemptsAssumption ==
  /\ Chain \in Seq({"primary", "rung", "fallback"}) /\ Chain # <<>>
  /\ None \notin Runs

Reports == {"done", "failed", "blocked"}
Kinds   == {"clean", "provider", "fault", "steps", "gone"}

VARIABLES
  pc,       \* per run: where it is
  chain,    \* the models it may use
  at,       \* the one it uses
  resume,   \* it resumes an earlier session
  reported, \* what the agent of its attempt has declared
  kind,     \* how that agent ended
  worth,    \* the catch found the error worth a failover
  stopped,  \* the attempt is out of time, or stopped by the guard
  active,   \* whose attempt's controller a cancel reaches
  guarded,  \* whose attempt the memory guard reaches
  aborted   \* runs whose attempt's controller is aborted

run  == <<pc, chain, at, resume>>
end  == <<reported, kind, worth>>
ctrl == <<active, guarded, aborted>>
vars == <<run, end, stopped, ctrl>>

\* Attempts that are stopped by the attempt's own controller.  "resume" is not
\* one: the agent that is asked for its report has a controller of its own, which
\* only a timer aborts.
Stoppable ==
  {r \in Runs : pc[r] \in {"work", "wrap", "caught", "judged"}}

TypeOK ==
  /\ pc \in [Runs -> {"idle", "prepare", "work", "resume", "wrap", "caught",
                      "judged", "over"}]
  /\ chain \in [Runs -> Seq({"primary", "rung", "fallback"})]
  /\ at \in [Runs -> Nat] /\ \A r \in Runs : at[r] \in DOMAIN chain[r]
  /\ resume \in [Runs -> BOOLEAN]
  /\ reported \in [Runs -> Reports \cup {"none"}]
  /\ kind \in [Runs -> Kinds] /\ worth \in [Runs -> BOOLEAN]
  /\ stopped \in [Runs -> SUBSET {"time", "memory"}]
  /\ {active, guarded} \subseteq Runs \cup {None}
  /\ aborted \subseteq Runs

Init ==
  /\ pc = [r \in Runs |-> "idle"] /\ chain = [r \in Runs |-> Chain]
  /\ at = [r \in Runs |-> 1]
  /\ resume = [r \in Runs |-> FALSE]
  /\ reported = [r \in Runs |-> "none"] /\ kind = [r \in Runs |-> "clean"]
  /\ worth = [r \in Runs |-> FALSE] /\ stopped = [r \in Runs |-> {}]
  /\ active = None /\ guarded = None /\ aborted = {}

(***************************************************************************)
(* Helpers.  A definition that stands right before another one with the    *)
(* same parameters, and that nothing uses, is a faulty form of it: the     *)
(* properties are checked to notice it.                                    *)
(***************************************************************************)
Go(r, p) == pc' = [pc EXCEPT ![r] = p]

\* An abort of the attempt's own controller.
StopFor(r, why) ==
  /\ stopped' = [stopped EXCEPT ![r] = @ \cup {why}]
  /\ aborted' = aborted \cup {r}

\* Did the run end in a way a stronger model might fix?
WorthEscalating(r) ==
  /\ "memory" \notin stopped[r]
  /\ \/ reported[r] = "failed"
     \/ /\ reported[r] = "none"
        /\ \/ stopped[r] # {} \/ kind[r] = "steps"
           \/ kind[r] # "clean" /\ r \notin aborted

(***************************************************************************)
(* A run begins: a new request with the full chain, a fix that starts at a *)
(* step of the ladder, or a follow-up, which stays with its provider.      *)
(***************************************************************************)
Enter(r, ch, i, again) ==
  /\ pc[r] = "idle" /\ Go(r, "prepare")
  /\ chain' = [chain EXCEPT ![r] = ch]
  /\ at' = [at EXCEPT ![r] = i]
  /\ resume' = [resume EXCEPT ![r] = again]
  /\ UNCHANGED <<end, stopped, ctrl>>

Begin(r) ==
  \/ Enter(r, Chain, 1, FALSE)
  \/ \E i \in DOMAIN Chain : Chain[i] = "rung" /\ Enter(r, Chain, i, FALSE)
  \/ \E again \in BOOLEAN : Enter(r, <<Chain[1]>>, 1, again)

\* The budget is used up: no attempt is made.
Refuse(r) ==
  /\ pc[r] = "idle" /\ Go(r, "over")
  /\ UNCHANGED <<chain, at, resume, end, stopped, ctrl>>

\* An attempt is prepared: a controller found installed is stale and aborted,
\* its own one takes its place.
Attempt(r) ==
  /\ pc[r] = "prepare" /\ Go(r, "work")
  /\ aborted' = (aborted \cup ({active} \ {None})) \ {r}
  /\ active' = r /\ guarded' = r
  /\ reported' = [reported EXCEPT ![r] = "none"]
  /\ stopped' = [stopped EXCEPT ![r] = {}]
  /\ UNCHANGED <<chain, at, resume, kind, worth>>

(***************************************************************************)
(* What stops an attempt.  None of it reaches an agent that is resumed for *)
(* its report: that the attempt was aborted is seen when it has ended.     *)
(***************************************************************************)
Cancel ==
  /\ active # None /\ aborted' = aborted \cup {active}
  /\ UNCHANGED <<run, end, stopped, active, guarded>>

\* The guard stops the newest run it knows and forgets it.
MemoryStop ==
  /\ guarded # None /\ guarded' = None
  /\ StopFor(guarded, "memory")
  /\ UNCHANGED <<run, end, active>>

\* The deadline has expired, or the agent was silent for too long. The deadline
\* is cleared when the agent ends with a result, and in the finally.
OutOfTime(r) ==
  /\ pc[r] \in {"work", "caught", "judged"} /\ StopFor(r, "time")
  /\ UNCHANGED <<run, end, active, guarded>>

(***************************************************************************)
(* The end of an attempt.                                                  *)
(***************************************************************************)
Report(r, s) ==
  /\ pc[r] \in {"work", "resume"}
  /\ reported' = [reported EXCEPT ![r] = s]
  /\ UNCHANGED <<run, kind, worth, stopped, ctrl>>

\* The agent ends with a result. One that said nothing is resumed for its report,
\* unless it was stopped, its provider failed, its session was gone or unknown, or
\* it only talks or fixes checks.
AgentEnds(r, k) ==
  /\ pc[r] = "work"
  /\ k = "gone" => resume[r] /\ reported[r] = "none"
  /\ kind' = [kind EXCEPT ![r] = k]
  /\ \/ Go(r, "wrap")
     \/ /\ reported[r] = "none" /\ r \notin aborted /\ k \notin {"provider", "gone"}
        /\ Go(r, "resume")
  /\ UNCHANGED <<chain, at, resume, reported, worth, stopped, ctrl>>

\* It ends by itself or after 90 seconds.
ResumeEnds(r) ==
  /\ pc[r] = "resume" /\ Go(r, "wrap")
  /\ UNCHANGED <<chain, at, resume, end, stopped, ctrl>>

\* The agent ends with an error.
AgentThrows(r, k) ==
  /\ pc[r] = "work" /\ Go(r, "caught")
  /\ k = "gone" => resume[r] /\ reported[r] = "none"
  /\ kind' = [kind EXCEPT ![r] = k]
  /\ UNCHANGED <<chain, at, resume, reported, worth, stopped, ctrl>>

\* The catch decides, and then still waits for the agent's last words.
Judge(r) ==
  /\ pc[r] = "caught" /\ Go(r, "judged")
  /\ worth' = [worth EXCEPT ![r] = /\ r \notin aborted /\ reported[r] = "none"
                                   /\ kind[r] # "steps"]
  /\ UNCHANGED <<chain, at, resume, reported, kind, stopped, ctrl>>

HastyFailover(r) ==
  IF pc[r] = "judged" THEN worth[r] ELSE r \notin aborted /\ kind[r] = "provider"

\* Is the end the provider's failure, and the next provider to be tried?
FailoverWorthy(r) ==
  IF pc[r] = "judged" THEN worth[r]
  ELSE r \notin aborted /\ reported[r] = "none" /\ kind[r] = "provider"

BlindDetach(r) == active' = None

\* The controller is removed by the attempt that installed it.
Detach(r) == active' = IF active = r THEN None ELSE active

\* The finally of the attempt and what the run does next; what belonged to the
\* attempt alone is put back, nobody looks at it any more.
Leave(r) ==
  LET more  == at[r] < Len(chain[r])
      again == /\ kind[r] = "gone" /\ resume[r]
               /\ IF pc[r] = "judged" THEN worth[r] ELSE r \notin aborted
      up    == /\ ~FailoverWorthy(r) /\ more /\ chain[r][at[r] + 1] = "rung"
               /\ WorthEscalating(r)
      next  == ~again /\ (up \/ (FailoverWorthy(r) /\ more))
  IN  /\ pc[r] \in {"wrap", "judged"}
      /\ Detach(r) /\ guarded' = None
      /\ aborted' = aborted \ {r} /\ stopped' = [stopped EXCEPT ![r] = {}]
      /\ reported' = [reported EXCEPT ![r] = "none"]
      /\ kind' = [kind EXCEPT ![r] = "clean"] /\ worth' = [worth EXCEPT ![r] = FALSE]
      /\ resume' = [resume EXCEPT ![r] = FALSE]
      /\ at' = [at EXCEPT ![r] = IF next THEN @ + 1 ELSE @]
      /\ Go(r, IF again \/ next THEN "prepare" ELSE "over")
      /\ UNCHANGED chain

Next ==
  \/ \E r \in Runs :
       \/ Begin(r) \/ Refuse(r) \/ Attempt(r) \/ OutOfTime(r)
       \/ ResumeEnds(r) \/ Judge(r) \/ Leave(r)
       \/ \E s \in Reports : Report(r, s)
       \/ \E k \in Kinds : AgentEnds(r, k)
       \/ \E k \in {"fault", "steps", "gone"} : AgentThrows(r, k)
  \/ Cancel \/ MemoryStop

Spec == Init /\ [][Next]_vars

(***************************************************************************)
(* Properties                                                              *)
(***************************************************************************)

\* Every attempt whose own agent works, or whose end is not yet recorded, is the one
\* a cancel reaches, or has been told to stop: also when a late attempt leaves after
\* a newer one has been installed. (Of a resume for a report it says nothing.)
NoneOutOfReach ==
  \A r \in Stoppable : r = active \/ r \in aborted

\* A cancel stops the agent that works for the run. (False of an agent that is
\* resumed for its report: it goes on, and its report counts.)
CancelStopsAll ==
  [][ \A r \in aborted : ~(\E s \in Reports : pc[r] = "resume" /\ Report(r, s)) ]_vars

\* The memory guard can stop every agent that works. (False once an older attempt
\* has left: it forgets the task's entry, whoever put it there.)
GuardKnowsNewest ==
  \A r \in Runs : pc[r] = "work" /\ r \notin aborted => r = guarded

\* A report of done or blocked is never thrown away for another attempt, and one
\* of failed only for a stronger model, however late it came.
ReportIsFinal ==
  [][ (\A r \in Runs : pc[r] \in {"wrap", "judged"} /\ pc'[r] = "prepare"
        => \/ reported[r] = "none"
           \/ reported[r] = "failed" /\ chain[r][at'[r]] = "rung") ]_vars
=============================================================================
