---------------------------- MODULE RunDeadline ----------------------------
(***************************************************************************)
(* The ceiling of an attempt's active time.  Its clock stands still while  *)
(* a person is asked: by the agent's question or by an approval card of    *)
(* the task, which hold it through the attempt's handler and the bus.      *)
(* When the window runs out, a run that is still alive gets more, up to a  *)
(* limit by itself and past it from a person, who answers while the agent  *)
(* works on; a quiet one is stopped.  An idle watchdog runs beside it.     *)
(*                                                                         *)
(* A timer's callback and the promises it settles at once are one step.    *)
(***************************************************************************)
EXTENDS Naturals, FiniteSets

CONSTANTS
  Window,     \* the first window, in units of active time
  Step,       \* what an extension by itself grants, at most
  Extra,      \* what a person grants
  Limit,      \* active time up to which a run that is alive is extended by itself
  MaxGranted, \* bound: active time that people ever allow
  Cards       \* approvals of the task, each is asked for once

Question  == "question"   \* the agent's question
Extension == "extension"  \* the card that asks for more time
Reasons   == Cards \cup {Question, Extension}

ASSUME DeadlineAssumption ==
  /\ Window \in Nat \ {0} /\ Step \in Nat \ {0}
  /\ Extra \in Nat \ {0}
  /\ Limit \in Nat /\ MaxGranted \in Nat
  /\ IsFiniteSet(Cards) /\ {Question, Extension} \cap Cards = {}

VARIABLES
  left,     \* active time left in the window (remainingMs)
  armed,    \* the timer is set
  deciding, \* the answer whether there is more time is out
  holds,    \* the number of holds
  granted,  \* active time granted so far
  done,     \* the clock was cleared or has expired
  used,     \* history: active time that has passed
  holding,  \* what holds the clock (question, heldApprovals)
  asked,    \* cards that have been asked for
  verdict,  \* the card that asks for more time: "none", "open", "allowed", "refused"
  expired,  \* onExpire was called: the run is timed out
  aborted,  \* its controller is aborted
  agent     \* "works", "caught" (ended in an error), "ended" (with a result), "over"

timer == <<left, armed, deciding, holds, granted, done>>
vars  == <<timer, used, holding, asked, verdict, expired, aborted, agent>>

TypeOK ==
  /\ left \in Nat /\ holds \in Nat /\ granted \in Nat /\ used \in Nat
  /\ armed \in BOOLEAN /\ deciding \in BOOLEAN /\ done \in BOOLEAN
  /\ expired \in BOOLEAN /\ aborted \in BOOLEAN
  /\ holding \subseteq Reasons /\ asked \subseteq Cards
  /\ verdict \in {"none", "open", "allowed", "refused"}
  /\ agent \in {"works", "caught", "ended", "over"}

\* The attempt has started its clock.
Init ==
  /\ left = Window /\ granted = Window /\ used = 0 /\ holds = 0
  /\ armed = TRUE /\ deciding = FALSE /\ done = FALSE
  /\ holding = {} /\ asked = {} /\ verdict = "none"
  /\ expired = FALSE /\ aborted = FALSE /\ agent = "works"

(***************************************************************************)
(* The methods of the clock.  A definition that stands right before        *)
(* another one with the same parameters, and that nothing uses, is a       *)
(* faulty form of it: the properties are checked to notice it.             *)
(***************************************************************************)
Pause ==
  /\ holds' = holds + 1 /\ armed' = FALSE
  /\ UNCHANGED <<left, deciding, granted, done>>

EagerResume ==
  /\ holds' = holds - 1 /\ armed' = (~done /\ ~deciding)
  /\ UNCHANGED <<left, deciding, granted, done>>

\* The last hold released sets the timer again, unless the answer is out.
Resume ==
  /\ holds' = holds - 1 /\ armed' = (holds = 1 /\ ~done /\ ~deciding)
  /\ UNCHANGED <<left, deciding, granted, done>>

StalledExtend(more) ==
  /\ left' = more /\ granted' = granted + more
  /\ deciding' = FALSE /\ armed' = FALSE
  /\ UNCHANGED <<holds, done, expired, aborted>>

\* More time is granted. A clock that is held is left to resume.
Extend(more) ==
  /\ left' = more /\ granted' = granted + more
  /\ deciding' = FALSE /\ armed' = (holds = 0)
  /\ UNCHANGED <<holds, done, expired, aborted>>

DeafExpire ==
  /\ deciding' = FALSE /\ armed' = FALSE /\ done' = TRUE /\ expired' = TRUE
  /\ UNCHANGED <<left, holds, granted, aborted>>

\* No more: the run is timed out and its controller aborted.
Expire ==
  /\ deciding' = FALSE /\ armed' = FALSE /\ done' = TRUE
  /\ expired' = TRUE /\ aborted' = TRUE
  /\ UNCHANGED <<left, holds, granted>>

\* The answer came after the clock was cleared.
TooLate ==
  /\ deciding' = FALSE
  /\ UNCHANGED <<left, armed, holds, granted, done, expired, aborted>>

Clear ==
  /\ armed' = FALSE /\ done' = TRUE
  /\ UNCHANGED <<left, deciding, holds, granted>>

(***************************************************************************)
(* The clock runs.                                                         *)
(***************************************************************************)
Tick ==
  /\ armed /\ left > 0
  /\ left' = left - 1 /\ used' = used + 1
  /\ UNCHANGED <<armed, deciding, holds, granted, done, holding, asked, verdict, expired,
                 aborted, agent>>

Least(m, n) == IF m < n THEN m ELSE n

\* The window has run out: the run is quiet, alive, or alive at its limit.
TimerFires ==
  /\ armed /\ left = 0
  /\ \/ Expire
     \/ granted < Limit /\ Extend(Least(Step, Limit - granted))
     \/ /\ granted >= Limit
        /\ armed' = FALSE /\ deciding' = TRUE
        /\ UNCHANGED <<left, holds, granted, done, expired, aborted>>
  /\ UNCHANGED <<used, holding, asked, verdict, agent>>

\* A card asks a person for more time; the bus holds the clock with it.
AskForMore ==
  /\ deciding /\ verdict = "none"
  /\ verdict' = "open"
  /\ IF agent = "over" THEN UNCHANGED <<timer, holding>>
     ELSE Pause /\ holding' = holding \cup {Extension}
  /\ UNCHANGED <<used, asked, expired, aborted, agent>>

\* The person decides, or the card runs out of time.
Decide(v) ==
  /\ verdict = "open" /\ verdict' = v
  /\ v = "allowed" => granted + Extra <= MaxGranted
  /\ IF Extension \in holding /\ agent # "over"
     THEN Resume /\ holding' = holding \ {Extension}
     ELSE UNCHANGED <<timer, holding>>
  /\ UNCHANGED <<used, asked, expired, aborted, agent>>

\* The answer reaches the clock: of the card, of the check itself, which allows
\* it where nobody needs to be asked, or none because asking failed.
DecisionBack ==
  /\ deciding /\ verdict # "open" /\ verdict' = "none"
  /\ \/ done /\ TooLate
     \/ ~done /\ verdict # "refused" /\ granted + Extra <= MaxGranted /\ Extend(Extra)
     \/ ~done /\ verdict # "allowed" /\ Expire
  /\ UNCHANGED <<used, holding, asked, agent>>

(***************************************************************************)
(* Who waits for a person.                                                 *)
(***************************************************************************)

\* The agent's question, or an approval card of the task is published.
Hold(x) ==
  /\ x # Extension /\ x \notin holding
  /\ IF x = Question THEN agent = "works" ELSE agent # "over"
  /\ x \notin asked /\ asked' = asked \cup ({x} \cap Cards)
  /\ Pause /\ holding' = holding \cup {x}
  /\ UNCHANGED <<used, verdict, expired, aborted, agent>>

Release(x) ==
  /\ x # Extension /\ x \in holding /\ agent # "over"
  /\ Resume /\ holding' = holding \ {x}
  /\ UNCHANGED <<used, asked, verdict, expired, aborted, agent>>

(***************************************************************************)
(* The agent.                                                              *)
(***************************************************************************)

\* The watchdog: silent for too long, and nobody is asked.
IdleStop ==
  /\ agent = "works" /\ holding = {} /\ ~aborted
  /\ aborted' = TRUE
  /\ UNCHANGED <<timer, used, holding, asked, verdict, expired, agent>>

\* A result: the clock is cleared at once.
AgentEnds ==
  /\ agent = "works" /\ agent' = "ended" /\ Clear
  /\ UNCHANGED <<used, holding, asked, verdict, expired, aborted>>

\* An error: the clock runs on while the catch writes it down.
AgentThrows ==
  /\ agent = "works" /\ agent' = "caught"
  /\ UNCHANGED <<timer, used, holding, asked, verdict, expired, aborted>>

\* The finally: the clock is cleared and hears of no approval any more.
Leave ==
  /\ agent \in {"ended", "caught"} /\ agent' = "over" /\ Clear
  /\ UNCHANGED <<used, holding, asked, verdict, expired, aborted>>

Next ==
  \/ Tick \/ TimerFires \/ AskForMore \/ DecisionBack
  \/ \E v \in {"allowed", "refused"} : Decide(v)
  \/ \E x \in Reasons : Hold(x) \/ Release(x)
  \/ IdleStop \/ AgentEnds \/ AgentThrows \/ Leave

Spec == Init /\ [][Next]_vars

\* Time passes whenever the clock runs, however often it is held; timers fire;
\* questions and cards run out of time, so each of them is answered; an agent
\* that is aborted ends.
Fairness ==
  /\ SF_vars(Tick) /\ SF_vars(TimerFires)
  /\ WF_vars(AskForMore \/ DecisionBack) /\ WF_vars(Decide("refused"))
  /\ \A x \in Reasons : WF_vars(Release(x))
  /\ WF_vars(aborted /\ AgentEnds)

FairSpec == Spec /\ Fairness

(***************************************************************************)
(* Properties                                                              *)
(***************************************************************************)

\* A run is timed out only after all the active time it was granted, and never
\* while a person is asked, unless that person's colleague refused more time:
\* somebody who answers late does not find the run killed.
TimeoutIsEarned ==
  [][ expired' /\ ~expired => used = granted /\ (holding = {} \/ deciding) ]_vars

\* While the agent works and waits for nobody its clock runs, is out for more
\* time, or the run is being stopped: no order of holds, releases and answers
\* leaves a run without a ceiling.
ClockRuns ==
  agent = "works" /\ holding = {} => armed \/ deciding \/ aborted

\* An attempt comes to an end, however its agent behaves and whoever is asked.
AttemptEnds == agent = "works" ~> agent # "works"
=============================================================================
