------------------------- MODULE RunDeadlineProofs -------------------------
(***************************************************************************)
(* Theorems about RunDeadline, for any windows, extensions and sets of     *)
(* cards: the types, that no order of holds, releases and answers leaves a *)
(* working run without a ceiling, and that nobody is timed out early.      *)
(***************************************************************************)
EXTENDS RunDeadline, FiniteSetTheorems, TLAPS

\* Time is neither lost nor won by a hold; while the answer is out there is none
\* left.
Accounted == used + left = granted /\ (deciding => left = 0)

\* An attempt that listens has as many holds as there are reasons for them.
Counted == agent # "over" => holds = Cardinality(holding)

\* The card for more time holds the clock only while it is open.
ExtensionOpen == agent # "over" /\ Extension \in holding => verdict = "open"

\* The timer is set only on a clock that may run; an attempt that ended with a
\* result or left has cleared its clock, one that expired is aborted.
TimerRight ==
  /\ armed => holds = 0 /\ ~done /\ ~deciding
  /\ agent \in {"ended", "over"} => done
  /\ expired => done /\ aborted
  /\ done => expired \/ agent \in {"ended", "over"}
  /\ holds = 0 /\ ~done => armed \/ deciding

IInv == TypeOK /\ Accounted /\ Counted /\ ExtensionOpen /\ TimerRight

LEMMA ReasonsFinite ==
  ASSUME NEW S, S \subseteq Reasons
  PROVE  IsFiniteSet(S) /\ Cardinality(S) \in Nat
<1>1. IsFiniteSet(Reasons)
  <2>1. IsFiniteSet(Cards)
    BY DeadlineAssumption DEF DeadlineAssumption
  <2>2. IsFiniteSet(Cards \cup {Question}) 
    BY <2>1, FS_AddElement
  <2>3. IsFiniteSet((Cards \cup {Question}) \cup {Extension})
    BY <2>2, FS_AddElement
  <2>4. Reasons = (Cards \cup {Question}) \cup {Extension}
    BY DEF Reasons
  <2> QED BY <2>3, <2>4
<1>2. IsFiniteSet(S)
  BY <1>1, FS_Subset
<1> QED BY <1>2, FS_CardinalityType

LEMMA OneMore ==
  ASSUME NEW S, S \subseteq Reasons, NEW x, x \notin S
  PROVE  Cardinality(S \cup {x}) = Cardinality(S) + 1
BY ReasonsFinite, FS_AddElement

LEMMA OneLess ==
  ASSUME NEW S, S \subseteq Reasons, NEW x \in S
  PROVE  Cardinality(S \ {x}) = Cardinality(S) - 1 /\ Cardinality(S) >= 1
<1>1. IsFiniteSet(S) /\ Cardinality(S) \in Nat
  BY ReasonsFinite
<1>2. Cardinality(S \ {x}) = Cardinality(S) - 1
  BY <1>1, FS_RemoveElement
<1>3. Cardinality(S) # 0
  BY <1>1, FS_EmptySet
<1> QED BY <1>1, <1>2, <1>3

LEMMA InitInv == Init => IInv
<1> SUFFICES ASSUME Init PROVE IInv
  OBVIOUS
<1>1. TypeOK
  BY DeadlineAssumption DEF DeadlineAssumption, Init, TypeOK
<1>3. Accounted
  BY DeadlineAssumption DEF DeadlineAssumption, Init, Accounted
<1>4. ExtensionOpen /\ TimerRight
  BY DEF Init, ExtensionOpen, TimerRight
<1>2. Counted
  BY FS_EmptySet DEF Init, Counted
<1> QED BY <1>1, <1>2, <1>3, <1>4 DEF IInv

LEMMA TickInv == ASSUME IInv, Tick PROVE IInv'
BY DEF IInv, Tick, TypeOK, Accounted, Counted, ExtensionOpen, TimerRight

LEMMA LeastType ==
  ASSUME NEW m \in Nat, NEW n \in Nat PROVE Least(m, n) \in Nat
BY DEF Least

LEMMA ExpireInv ==
  ASSUME IInv, Expire, used' = used, holding' = holding, asked' = asked, agent' = agent,
         verdict' \in {"none", "open", "allowed", "refused"},
         agent # "over" /\ Extension \in holding => verdict' = "open"
  PROVE  IInv'
<1> USE DEF IInv, Expire
<1>1. TypeOK'
  BY DEF TypeOK
<1>2. Accounted' /\ Counted' /\ ExtensionOpen'
  BY DEF Accounted, Counted, ExtensionOpen
<1>3. TimerRight'
  BY DEF TimerRight
<1> QED BY <1>1, <1>2, <1>3

LEMMA ExtendInv ==
  ASSUME IInv, NEW more \in Nat, Extend(more), ~done, left = 0,
         used' = used, holding' = holding, asked' = asked, agent' = agent,
         verdict' \in {"none", "open", "allowed", "refused"},
         agent # "over" /\ Extension \in holding => verdict' = "open"
  PROVE  IInv'
<1> USE DEF IInv, Extend
<1>0. left' \in Nat /\ granted' \in Nat /\ armed' \in BOOLEAN
  BY DEF TypeOK
<1>1. TypeOK'
  BY <1>0 DEF TypeOK
<1>2. Accounted'
  BY DEF TypeOK, Accounted
<1>3. Counted' /\ ExtensionOpen'
  BY DEF Counted, ExtensionOpen
<1>4. armed' <=> holds' = 0
  OBVIOUS
<1>5. TimerRight'
  BY <1>4 DEF TimerRight
<1> QED BY <1>1, <1>2, <1>3, <1>5

LEMMA TimerInv == ASSUME IInv, TimerFires PROVE IInv'
<1> USE DEF TimerFires
<1>0. /\ armed /\ ~done /\ left = 0
      /\ verdict' \in {"none", "open", "allowed", "refused"}
      /\ agent # "over" /\ Extension \in holding => verdict' = "open"
  BY DEF IInv, TypeOK, TimerRight, ExtensionOpen
<1>1. CASE Expire
  BY <1>0, <1>1, ExpireInv
<1>2. CASE granted < Limit /\ Extend(Least(Step, Limit - granted))
  <2>1. Limit - granted \in Nat /\ Step \in Nat
    BY <1>2, DeadlineAssumption DEF DeadlineAssumption, IInv, TypeOK
  <2>2. Least(Step, Limit - granted) \in Nat
    BY <2>1, LeastType
  <2> QED BY <1>0, <1>2, <2>2, ExtendInv
<1>3. CASE /\ armed' = FALSE /\ deciding' = TRUE
           /\ UNCHANGED <<left, holds, granted, done, expired, aborted>>
  <2>1. TypeOK'
    BY <1>3 DEF IInv, TypeOK
  <2>2. Accounted'
    BY <1>3 DEF IInv, Accounted
  <2>3. Counted' /\ ExtensionOpen'
    BY <1>3 DEF IInv, Counted, ExtensionOpen
  <2>4. TimerRight'
    BY <1>0, <1>3 DEF IInv, TimerRight
  <2> QED BY <2>1, <2>2, <2>3, <2>4 DEF IInv
<1> QED BY <1>1, <1>2, <1>3

LEMMA PauseInv ==
  ASSUME IInv, Pause, NEW x \in Reasons, x \notin holding, holding' = holding \cup {x},
         UNCHANGED <<used, expired, aborted, agent>>, asked' \subseteq Cards,
         verdict' \in {"none", "open", "allowed", "refused"},
         agent # "over" /\ Extension \in holding' => verdict' = "open"
  PROVE  IInv'
<1> USE DEF IInv, Pause
<1>0. holds' \in Nat /\ holding' \subseteq Reasons
  BY DEF TypeOK
<1>1. TypeOK'
  BY <1>0 DEF TypeOK
<1>2. Accounted' /\ ExtensionOpen'
  BY DEF Accounted, ExtensionOpen
<1>3. Counted'
  BY OneMore DEF TypeOK, Counted
<1>4. holds' # 0
  BY DEF TypeOK
<1>5. TimerRight'
  BY <1>4 DEF TimerRight
<1> QED BY <1>1, <1>2, <1>3, <1>5

LEMMA ResumeInv ==
  ASSUME IInv, Resume, NEW x \in Reasons, x \in holding, holding' = holding \ {x},
         agent # "over", UNCHANGED <<used, expired, aborted, agent>>, asked' = asked,
         verdict' \in {"none", "open", "allowed", "refused"},
         Extension \in holding' => verdict' = "open"
  PROVE  IInv'
<1> USE DEF IInv, Resume
<1>0. Cardinality(holding') = Cardinality(holding) - 1 /\ Cardinality(holding) >= 1
  BY OneLess DEF TypeOK
<1>1. holds' = Cardinality(holding') /\ holds >= 1 /\ holds' \in Nat
  BY <1>0 DEF TypeOK, Counted
<1>2. TypeOK'
  BY <1>1 DEF TypeOK
<1>3. Accounted' /\ ExtensionOpen' /\ Counted'
  BY <1>1 DEF Accounted, ExtensionOpen, Counted
<1>4. holds' = 0 <=> holds = 1
  BY <1>1 DEF TypeOK
<1>5. armed' <=> holds' = 0 /\ ~done /\ ~deciding
  BY <1>4
<1>6. TimerRight'
  BY <1>5 DEF TimerRight
<1> QED BY <1>2, <1>3, <1>6

LEMMA StandsInv ==
  ASSUME IInv, UNCHANGED <<timer, used, holding, expired, aborted, agent>>,
         asked' \subseteq Cards,
         verdict' \in {"none", "open", "allowed", "refused"},
         agent # "over" /\ Extension \in holding => verdict' = "open"
  PROVE  IInv'
BY DEF timer, IInv, TypeOK, Accounted, Counted, ExtensionOpen, TimerRight

LEMMA AskInv == ASSUME IInv, AskForMore PROVE IInv'
<1> USE DEF AskForMore
<1>1. CASE agent = "over"
  BY <1>1, StandsInv DEF IInv, TypeOK
<1>2. CASE agent # "over"
  <2>1. Extension \notin holding /\ Extension \in Reasons
    BY <1>2 DEF Reasons, IInv, ExtensionOpen
  <2> QED BY <1>2, <2>1, PauseInv DEF IInv, TypeOK
<1> QED BY <1>1, <1>2

LEMMA DecideInv ==
  ASSUME IInv, NEW v \in {"allowed", "refused"}, Decide(v) PROVE IInv'
<1> USE DEF Decide
<1>1. CASE Extension \in holding /\ agent # "over"
  BY <1>1, ResumeInv DEF Reasons
<1>2. CASE ~(Extension \in holding /\ agent # "over")
  BY <1>2, StandsInv DEF IInv, TypeOK
<1> QED BY <1>1, <1>2

LEMMA BackInv == ASSUME IInv, DecisionBack PROVE IInv'
<1> USE DEF DecisionBack
<1>0. agent # "over" => Extension \notin holding
  BY DEF IInv, ExtensionOpen
<1>1. CASE done /\ TooLate
  <2>1. TypeOK'
    BY <1>1 DEF TooLate, IInv, TypeOK
  <2>2. Accounted' /\ Counted' /\ ExtensionOpen'
    BY <1>0, <1>1 DEF TooLate, IInv, Accounted, Counted, ExtensionOpen
  <2>3. TimerRight'
    BY <1>1 DEF TooLate, IInv, TimerRight
  <2> QED BY <2>1, <2>2, <2>3 DEF IInv
<1>2. CASE ~done /\ verdict # "refused" /\ granted + Extra <= MaxGranted /\ Extend(Extra)
  <2>1. Extra \in Nat
    BY DeadlineAssumption DEF DeadlineAssumption
  <2>2. left = 0
    BY DEF IInv, Accounted
  <2> QED BY <1>0, <1>2, <2>1, <2>2, ExtendInv
<1>3. CASE ~done /\ verdict # "allowed" /\ Expire
  BY <1>0, <1>3, ExpireInv
<1> QED BY <1>1, <1>2, <1>3

LEMMA HoldInv == ASSUME IInv, NEW x \in Reasons, Hold(x) PROVE IInv'
<1>1. asked' \subseteq Cards
  BY DEF Hold, IInv, TypeOK
<1>2. agent # "over" /\ Extension \in holding' => verdict' = "open"
  BY DEF Hold, IInv, ExtensionOpen
<1> QED BY <1>1, <1>2, PauseInv DEF Hold, IInv, TypeOK

LEMMA ReleaseInv == ASSUME IInv, NEW x \in Reasons, Release(x) PROVE IInv'
<1>1. Extension \in holding' => verdict' = "open"
  BY DEF Release, IInv, ExtensionOpen
<1> QED BY <1>1, ResumeInv DEF Release, IInv, TypeOK

LEMMA AgentInv ==
  ASSUME IInv, IdleStop \/ AgentEnds \/ AgentThrows \/ Leave PROVE IInv'
<1> USE DEF timer, IdleStop, AgentEnds, AgentThrows, Leave, Clear
<1>1. TypeOK'
  BY DEF IInv, TypeOK
<1>2. Accounted' /\ Counted' /\ ExtensionOpen'
  BY DEF IInv, Accounted, Counted, ExtensionOpen
<1>3. TimerRight'
  BY DEF IInv, TimerRight
<1> QED BY <1>1, <1>2, <1>3 DEF IInv

LEMMA StepInv == IInv /\ [Next]_vars => IInv'
<1> SUFFICES ASSUME IInv, [Next]_vars PROVE IInv'
  OBVIOUS
<1>1. CASE Tick
  BY <1>1, TickInv
<1>2. CASE TimerFires
  BY <1>2, TimerInv
<1>3. CASE AskForMore
  BY <1>3, AskInv
<1>4. CASE DecisionBack
  BY <1>4, BackInv
<1>5. CASE \E v \in {"allowed", "refused"} : Decide(v)
  BY <1>5, DecideInv
<1>6. CASE \E x \in Reasons : Hold(x) \/ Release(x)
  BY <1>6, HoldInv, ReleaseInv
<1>7. CASE IdleStop \/ AgentEnds \/ AgentThrows \/ Leave
  BY <1>7, AgentInv
<1>8. CASE UNCHANGED vars
  BY <1>8 DEF vars, timer, IInv, TypeOK, Accounted, Counted, ExtensionOpen, TimerRight
<1> QED BY <1>1, <1>2, <1>3, <1>4, <1>5, <1>6, <1>7, <1>8 DEF Next

LEMMA Inductive == Spec => []IInv
<1> QED BY InitInv, StepInv, PTL DEF Spec

\* The types of the clock of an attempt.
THEOREM TypeCorrect == Spec => []TypeOK
<1>1. IInv => TypeOK
  BY DEF IInv
<1> QED BY <1>1, Inductive, PTL

\* A working agent that waits for nobody never lacks a ceiling: a count of holds
\* that did not match their reasons would leave its clock standing.
THEOREM ClockRunsHolds == Spec => []ClockRuns
<1>1. IInv => ClockRuns
  BY FS_EmptySet DEF IInv, TypeOK, Counted, TimerRight, ClockRuns
<1> QED BY <1>1, Inductive, PTL

\* A run is timed out only after all of its granted time, and while a person is
\* asked only when more time was refused.
THEOREM TimeoutIsEarnedHolds == Spec => TimeoutIsEarned
<1>1. ASSUME IInv, [Next]_vars, expired', ~expired
      PROVE  used = granted /\ (holding = {} \/ deciding)
  <2>1. TimerFires \/ DecisionBack
    BY <1>1 DEF Next, vars, timer, Tick, AskForMore, Decide, Hold, Release, IdleStop,
                AgentEnds, AgentThrows, Leave
  <2>2. CASE DecisionBack
    BY <1>1, <2>2 DEF DecisionBack, IInv, TypeOK, Accounted
  <2>3. CASE TimerFires
    <3>1. used = granted
      BY <1>1, <2>3 DEF TimerFires, IInv, TypeOK, Accounted
    <3>2. holds = 0 /\ agent # "over"
      BY <1>1, <2>3 DEF TimerFires, IInv, TypeOK, TimerRight
    <3>3. Cardinality(holding) = 0 /\ IsFiniteSet(holding)
      BY <1>1, <3>2, ReasonsFinite DEF IInv, TypeOK, Counted
    <3> QED BY <3>1, <3>3, FS_EmptySet
  <2> QED BY <2>1, <2>2, <2>3
<1>2. IInv /\ [Next]_vars => [expired' /\ ~expired => used = granted /\ (holding = {} \/ deciding)]_vars
  BY <1>1
<1> QED BY <1>2, Inductive, PTL DEF Spec, TimeoutIsEarned
=============================================================================
