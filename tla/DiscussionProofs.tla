-------------------------- MODULE DiscussionProofs --------------------------
(***************************************************************************)
(* Theorems about Discussion, for any requests to start, messages, turns   *)
(* and stops of the server: the types, that one discussion plays, that no  *)
(* `running` is left behind, and that a stop lets one more turn begin.     *)
(***************************************************************************)
EXTENDS Discussion, TLAPS

\* The second failure in a row ends a play before another turn, and a turn
\* begins only while one is left.
Bounded ==
  \A s \in Starts : /\ failures[s] = 2 => pc[s] \in {"back", "note"}
                    /\ pc[s] = "go" => turn[s] < Turns

\* After the turn that a stop has let begin there is none.
StopRight ==
  \A s \in Starts : extra[s] # 0 => /\ extra[s] = 1 /\ stop[s]
                                    /\ pc[s] \in {"turn", "back", "summary", "note"}

IInv == TypeOK /\ OneDiscussion /\ RunningHasOwner /\ Bounded /\ StopRight

USE DiscussionAssumption DEF DiscussionAssumption

\* The steps of a discussion that plays.
Plays(s) ==
  \/ Top(s) \/ TurnBegins(s) \/ TurnEnds(s) \/ Back(s)
  \/ Closing(s) \/ SummaryBegins(s) \/ SummaryEnds(s) \/ Noted(s)

Owning == Playing \cup {"end", "write"}

LEMMA InitInv == Init => IInv
<1> SUFFICES ASSUME Init PROVE IInv
  OBVIOUS
<1>1. TypeOK
  <2>1. status \in Terminal /\ active = None /\ crashes \in 0 .. MaxCrashes
    BY DEF Init, Terminal
  <2>5. run \in BOOLEAN /\ cancel \in BOOLEAN
    BY Zenon DEF Init
  <2>2. turn \in [Starts -> 0 .. Turns] /\ failures \in [Starts -> 0 .. 2] /\ extra \in [Starts -> Nat]
    BY DEF Init
  <2>3. stop \in [Starts -> BOOLEAN] /\ conclude \in [Starts -> BOOLEAN]
    BY DEF Init
  <2>4. /\ pc \in [Starts -> {"new", "free", "busy", "set", "end", "write", "over"} \cup Playing]
        /\ ended \in [Starts -> {"done", "cancelled", "failed"}]
        /\ at \in [Messages -> {"new", "live", "rest", "human", "seen", "lost",
                                "held", "job", "given", "dropped"}]
    BY DEF Init
  <2> QED BY <2>1, <2>2, <2>3, <2>4, <2>5 DEF TypeOK
<1>2. \A s \in Starts : pc[s] = "new" /\ failures[s] = 0 /\ extra[s] = 0
  BY DEF Init
<1>3. OneDiscussion /\ Bounded /\ StopRight
  BY <1>2 DEF OneDiscussion, Bounded, StopRight, Playing
<1>4. RunningHasOwner
  BY DEF Init, RunningHasOwner
<1> QED BY <1>1, <1>3, <1>4 DEF IInv

-----------------------------------------------------------------------------
\* Where a play goes and what becomes of the chat.
LEMMA PlaysMoves ==
  ASSUME NEW s \in Starts, TypeOK, Plays(s)
  PROVE  /\ pc[s] \in Playing /\ UNCHANGED <<status, run, cancel, crashes>>
         /\ \E x \in Playing \cup {"end"} :
              /\ pc' = [pc EXCEPT ![s] = x]
              /\ IF x = "end" THEN active' = None ELSE active' = active
         /\ at' \in [Messages -> {"new", "live", "rest", "human", "seen", "lost",
                                  "held", "job", "given", "dropped"}]
<1>1. CASE Top(s)
  BY <1>1 DEF Top, End, FreeChat, Move, Stay, Playing, TypeOK
<1>2. CASE TurnBegins(s)
  BY <1>2 DEF TurnBegins, Speak, Move, Playing, TypeOK
<1>3. CASE TurnEnds(s)
  BY <1>3 DEF TurnEnds, End, FreeChat, Move, Playing, TypeOK
<1>4. CASE Back(s)
  BY <1>4 DEF Back, End, FreeChat, Move, Stay, Playing, TypeOK
<1>5. CASE Closing(s)
  BY <1>5 DEF Closing, End, FreeChat, Move, Stay, Playing, TypeOK
<1>6. CASE SummaryBegins(s)
  BY <1>6 DEF SummaryBegins, Speak, Move, Playing, TypeOK
<1>7. CASE SummaryEnds(s)
  BY <1>7 DEF SummaryEnds, End, FreeChat, Move, Playing, TypeOK
<1>8. CASE Noted(s)
  BY <1>8 DEF Noted, FreeChat, Move, Playing, TypeOK
<1> QED BY <1>1, <1>2, <1>3, <1>4, <1>5, <1>6, <1>7, <1>8 DEF Plays

\* What a play knows has its types when the play is forgotten.
LEMMA ForgetTypes ==
  ASSUME TypeOK, NEW S \in SUBSET Starts, Forget(S)
  PROVE  /\ turn' \in [Starts -> 0 .. Turns] /\ failures' \in [Starts -> 0 .. 2]
         /\ stop' \in [Starts -> BOOLEAN] /\ conclude' \in [Starts -> BOOLEAN]
         /\ extra' \in [Starts -> Nat]
<1>1. turn' \in [Starts -> 0 .. Turns] /\ failures' \in [Starts -> 0 .. 2] /\ extra' \in [Starts -> Nat]
  BY DEF Forget, TypeOK
<1>2. stop' \in [Starts -> BOOLEAN] /\ conclude' \in [Starts -> BOOLEAN]
  BY DEF Forget, TypeOK
<1> QED BY <1>1, <1>2

LEMMA EndTypes ==
  ASSUME TypeOK, NEW s \in Starts, NEW how \in {"done", "cancelled", "failed"}, End(s, how)
  PROVE  /\ turn' \in [Starts -> 0 .. Turns] /\ failures' \in [Starts -> 0 .. 2]
         /\ ended' \in [Starts -> {"done", "cancelled", "failed"}]
         /\ stop' \in [Starts -> BOOLEAN] /\ conclude' \in [Starts -> BOOLEAN]
         /\ extra' \in [Starts -> Nat]
<1>1. ended' \in [Starts -> {"done", "cancelled", "failed"}]
  BY DEF End, TypeOK
<1>2. CASE how = "failed"
  BY <1>1, <1>2 DEF End, TypeOK
<1>3. CASE how # "failed"
  BY <1>1, <1>3, ForgetTypes DEF End, FreeChat
<1> QED BY <1>2, <1>3

\* What a play knows keeps its types, its bounds and the one turn after a stop.
LEMMA PlaysKnows ==
  ASSUME NEW s \in Starts, TypeOK, Bounded, StopRight, Plays(s)
  PROVE  /\ turn' \in [Starts -> 0 .. Turns] /\ failures' \in [Starts -> 0 .. 2]
         /\ ended' \in [Starts -> {"done", "cancelled", "failed"}]
         /\ stop' \in [Starts -> BOOLEAN] /\ conclude' \in [Starts -> BOOLEAN]
         /\ extra' \in [Starts -> Nat]
         /\ Bounded' /\ StopRight'
<1> DEFINE Knows ==
      /\ turn' \in [Starts -> 0 .. Turns] /\ failures' \in [Starts -> 0 .. 2]
      /\ ended' \in [Starts -> {"done", "cancelled", "failed"}]
      /\ stop' \in [Starts -> BOOLEAN] /\ conclude' \in [Starts -> BOOLEAN]
      /\ extra' \in [Starts -> Nat]
<1>1. CASE Top(s)
  <2>1. Knows
    BY <1>1, EndTypes DEF Top, Stay, play, TypeOK
  <2>2. Bounded' /\ StopRight'
    BY <1>1 DEF Top, End, FreeChat, Forget, Move, Stay, play, TypeOK, Bounded, StopRight
  <2> QED BY <2>1, <2>2
<1>2. CASE TurnBegins(s)
  <2>1. Knows
    BY <1>2 DEF TurnBegins, Speak, Move, TypeOK, Bounded
  <2>2. Bounded' /\ StopRight'
    BY <1>2 DEF TurnBegins, Speak, Move, TypeOK, Bounded, StopRight
  <2> QED BY <2>1, <2>2
<1>3. CASE TurnEnds(s)
  <2>1. Knows
    BY <1>3, EndTypes DEF TurnEnds, TypeOK, Bounded
  <2>2. Bounded' /\ StopRight'
    BY <1>3 DEF TurnEnds, End, FreeChat, Forget, Move, TypeOK, Bounded, StopRight
  <2> QED BY <2>1, <2>2
<1>4. CASE Back(s)
  <2>1. Knows
    BY <1>4, EndTypes DEF Back, Stay, play, TypeOK
  <2>2. Bounded' /\ StopRight'
    BY <1>4 DEF Back, Halted, End, FreeChat, Forget, Move, Stay, play, TypeOK, Bounded, StopRight
  <2> QED BY <2>1, <2>2
<1>5. CASE Closing(s)
  <2>1. Knows
    BY <1>5, EndTypes DEF Closing, Stay, play, TypeOK
  <2>2. Bounded' /\ StopRight'
    BY <1>5 DEF Closing, End, FreeChat, Forget, Move, Stay, play, TypeOK, Bounded, StopRight
  <2> QED BY <2>1, <2>2
<1>6. CASE SummaryBegins(s)
  <2>1. Knows
    BY <1>6 DEF SummaryBegins, Speak, Move, TypeOK
  <2>2. Bounded' /\ StopRight'
    BY <1>6 DEF SummaryBegins, Speak, Move, TypeOK, Bounded, StopRight
  <2> QED BY <2>1, <2>2
<1>7. CASE SummaryEnds(s)
  <2>1. Knows
    BY <1>7, EndTypes DEF SummaryEnds
  <2>2. Bounded' /\ StopRight'
    BY <1>7 DEF SummaryEnds, End, FreeChat, Forget, Move, TypeOK, Bounded, StopRight
  <2> QED BY <2>1, <2>2
<1>8. CASE Noted(s)
  <2>1. Knows
    BY <1>8, ForgetTypes DEF Noted, FreeChat, TypeOK
  <2>2. Bounded' /\ StopRight'
    BY <1>8 DEF Noted, FreeChat, Forget, Move, TypeOK, Bounded, StopRight
  <2> QED BY <2>1, <2>2
<1> QED BY <1>1, <1>2, <1>3, <1>4, <1>5, <1>6, <1>7, <1>8 DEF Plays

LEMMA PlaysInv == ASSUME IInv, NEW s \in Starts, Plays(s) PROVE IInv'
<1>1. PICK x \in Playing \cup {"end"} :
        /\ pc' = [pc EXCEPT ![s] = x]
        /\ IF x = "end" THEN active' = None ELSE active' = active
  BY PlaysMoves DEF IInv
<1>2. pc[s] \in Playing /\ UNCHANGED <<status, run, cancel, crashes>>
  BY PlaysMoves DEF IInv
<1>3. TypeOK' /\ Bounded' /\ StopRight'
  <2>1. /\ pc' \in [Starts -> {"new", "free", "busy", "set", "end", "write", "over"} \cup Playing]
        /\ active' \in Starts \cup {None}
    BY <1>1 DEF IInv, TypeOK, Playing
  <2>2. /\ status' \in Terminal \cup {"queued", "running"}
        /\ run' \in BOOLEAN /\ cancel' \in BOOLEAN /\ crashes' \in 0 .. MaxCrashes
    BY <1>2 DEF IInv, TypeOK
  <2> QED BY <2>1, <2>2, PlaysMoves, PlaysKnows DEF IInv, TypeOK
<1>4. pc'[s] = x /\ \A z \in Starts \ {s} : pc'[z] = pc[z]
  BY <1>1 DEF IInv, TypeOK
<1>5. OneDiscussion'
  BY <1>1, <1>2, <1>4 DEF IInv, OneDiscussion, Playing
<1>6. RunningHasOwner'
  BY <1>2, <1>4 DEF IInv, RunningHasOwner
<1> QED BY <1>3, <1>5, <1>6 DEF IInv

-----------------------------------------------------------------------------
Places == {"new", "live", "rest", "human", "seen", "lost", "held", "job", "given", "dropped"}

LEMMA WriteOverTypes ==
  ASSUME NEW new \in Terminal, NEW queue \in [Messages -> Places], WriteOver(new, queue)
  PROVE  status' \in Terminal \cup {"queued"} /\ at' \in [Messages -> Places]
BY DEF WriteOver, Places

\* The steps of a request before it plays and after.
LEMMA MoveInv ==
  ASSUME IInv, NEW s \in Starts, pc[s] \notin Playing,
         NEW x \in {"free", "busy", "set", "end", "write", "over", "top"},
         pc' = [pc EXCEPT ![s] = x],
         UNCHANGED <<turn, failures, stop, conclude, extra, run, cancel, crashes>>,
         ended' \in [Starts -> {"done", "cancelled", "failed"}],
         at' \in [Messages -> Places], active' \in Starts \cup {None},
         status' \in Terminal \cup {"queued", "running"},
         \/ active' = active /\ (x \in {"set", "top"} => pc[s] = "set")
         \/ active = None /\ active' = s,
         \/ status' \notin {"running"}
         \/ status' = status /\ (pc[s] \in Owning => x \in Owning)
         \/ x \in Owning
  PROVE  IInv'
<1>1. pc'[s] = x /\ \A z \in Starts \ {s} : pc'[z] = pc[z]
  BY DEF IInv, TypeOK
<1>2. TypeOK'
  <2>1. /\ pc' \in [Starts -> {"new", "free", "busy", "set", "end", "write", "over"} \cup Playing]
        /\ turn' \in [Starts -> 0 .. Turns] /\ failures' \in [Starts -> 0 .. 2]
        /\ stop' \in [Starts -> BOOLEAN] /\ conclude' \in [Starts -> BOOLEAN]
        /\ extra' \in [Starts -> Nat]
        /\ run' \in BOOLEAN /\ cancel' \in BOOLEAN /\ crashes' \in 0 .. MaxCrashes
    BY DEF IInv, TypeOK, Playing
  <2> QED BY <2>1 DEF TypeOK, Places
<1>3. OneDiscussion'
  BY <1>1 DEF IInv, OneDiscussion, Playing
<1>4. RunningHasOwner'
  BY <1>1 DEF IInv, RunningHasOwner, Owning
<1>5. Bounded' /\ StopRight'
  BY <1>1 DEF IInv, Bounded, StopRight, Playing
<1> QED BY <1>2, <1>3, <1>4, <1>5 DEF IInv

LEMMA StartInv == ASSUME IInv, NEW s \in Starts, Start(s) PROVE IInv'
BY MoveInv DEF Start, Move, play, IInv, TypeOK, Places, Playing, Owning

LEMMA EnterInv == ASSUME IInv, NEW s \in Starts, Enter(s) PROVE IInv'
BY MoveInv DEF Enter, Move, play, IInv, TypeOK, Places, Playing, Owning

LEMMA SetRunningInv == ASSUME IInv, NEW s \in Starts, SetRunning(s) PROVE IInv'
BY MoveInv DEF SetRunning, Move, play, IInv, TypeOK, Places, Playing, Owning

LEMMA LeaveInv == ASSUME IInv, NEW s \in Starts, Leave(s) PROVE IInv'
BY MoveInv DEF Leave, Move, IInv, TypeOK, Places, Playing, Owning, Terminal

LEMMA WriteOutcomeInv == ASSUME IInv, NEW s \in Starts, WriteOutcome(s) PROVE IInv'
<1>1. status' \in Terminal \cup {"queued"} /\ at' \in [Messages -> Places]
  BY WriteOverTypes DEF WriteOutcome, IInv, TypeOK, Places, Terminal
<1> QED BY <1>1, MoveInv DEF WriteOutcome, Move, IInv, TypeOK, Playing, Terminal

\* The steps of the task, of messages and of what is asked of a discussion.
LEMMA ChatInv ==
  ASSUME IInv, UNCHANGED <<active, pc, turn, failures, ended, extra, crashes>>,
         stop' \in [Starts -> BOOLEAN], conclude' \in [Starts -> BOOLEAN],
         \A s \in Starts : stop[s] => stop'[s],
         at' \in [Messages -> Places], run' \in BOOLEAN, cancel' \in BOOLEAN,
         status' \in Terminal \cup {"queued", "running"},
         status' = "running" => run' \/ (status = "running" /\ run' = run)
  PROVE  IInv'
<1>1. TypeOK'
  BY DEF IInv, TypeOK, Places
<1>2. OneDiscussion' /\ Bounded' /\ StopRight'
  BY DEF IInv, OneDiscussion, Bounded, StopRight
<1>3. RunningHasOwner'
  BY DEF IInv, RunningHasOwner
<1> QED BY <1>1, <1>2, <1>3 DEF IInv

LEMMA StopInv == ASSUME IInv, Stop PROVE IInv'
BY ChatInv DEF Stop, IInv, TypeOK, Places

LEMMA ConcludeInv == ASSUME IInv, Conclude PROVE IInv'
BY ChatInv DEF Conclude, IInv, TypeOK, Places

LEMMA SendInv == ASSUME IInv, NEW m \in Messages, Send(m) PROVE IInv'
BY ChatInv DEF Send, play, IInv, TypeOK, Places

LEMMA DeliverInv == ASSUME IInv, NEW m \in Messages, Deliver(m) PROVE IInv'
BY ChatInv DEF Deliver, play, IInv, TypeOK, Places

LEMMA StartJobInv == ASSUME IInv, NEW m \in Messages, StartJob(m) PROVE IInv'
BY ChatInv DEF StartJob, play, IInv, TypeOK, Places

LEMMA EndJobInv == ASSUME IInv, EndJob PROVE IInv'
<1>1. status' \in Terminal \cup {"queued"} /\ at' \in [Messages -> Places]
  BY WriteOverTypes DEF EndJob, IInv, TypeOK, Places, Terminal
<1> QED BY <1>1, ChatInv DEF EndJob, play, IInv, TypeOK, Terminal

LEMMA CancelInv == ASSUME IInv, Cancel PROVE IInv'
BY ChatInv DEF Cancel, play, IInv, TypeOK, Places

LEMMA CancelWriteInv == ASSUME IInv, CancelWrite PROVE IInv'
<1>1. status' \in Terminal \cup {"queued"} /\ at' \in [Messages -> Places]
  BY WriteOverTypes DEF CancelWrite, IInv, TypeOK, Places, Terminal
<1> QED BY <1>1, ChatInv DEF CancelWrite, play, IInv, TypeOK, Terminal

LEMMA CrashInv == ASSUME IInv, Crash PROVE IInv'
<1> DEFINE left == [m \in Messages |-> IF at[m] = "human" THEN "lost"
                                      ELSE IF at[m] \in {"rest", "live"} THEN "dropped" ELSE at[m]]
<1>1. left \in [Messages -> Places]
  BY DEF IInv, TypeOK, Places
<1>2. /\ status' \in (Terminal \cup {"queued"}) /\ at' \in [Messages -> Places]
  <2>1. CASE status = "running"
    <3>1. WriteOver("failed", left)
      BY <2>1 DEF Crash
    <3> HIDE DEF left
    <3> QED BY <1>1, <3>1, WriteOverTypes DEF Terminal
  <2>2. CASE status # "running"
    <3>1. at' = left /\ status' = status
      BY <2>2 DEF Crash
    <3> HIDE DEF left
    <3> QED BY <1>1, <2>2, <3>1 DEF IInv, TypeOK
  <2> QED BY <2>1, <2>2
<1>3. \A s \in Starts : pc'[s] \in {"new", "over"} /\ extra'[s] = 0 /\ failures'[s] = 0
  BY DEF Crash, Forget
<1>4. TypeOK'
  <2>1. /\ turn' \in [Starts -> 0 .. Turns] /\ failures' \in [Starts -> 0 .. 2]
        /\ stop' \in [Starts -> BOOLEAN] /\ conclude' \in [Starts -> BOOLEAN]
        /\ extra' \in [Starts -> Nat]
    BY ForgetTypes DEF Crash, IInv
  <2>2. /\ pc' \in [Starts -> {"new", "free", "busy", "set", "end", "write", "over"} \cup Playing]
        /\ ended' \in [Starts -> {"done", "cancelled", "failed"}]
        /\ active' = None /\ crashes' \in 0 .. MaxCrashes
    BY DEF Crash, IInv, TypeOK
  <2>3. run' \in BOOLEAN /\ cancel' \in BOOLEAN
    BY Zenon DEF Crash
  <2> QED BY <1>2, <2>1, <2>2, <2>3 DEF TypeOK, Places
<1>5. OneDiscussion' /\ Bounded' /\ StopRight'
  BY <1>3 DEF OneDiscussion, Bounded, StopRight, Playing
<1>6. RunningHasOwner'
  BY <1>2 DEF RunningHasOwner, Terminal
<1> QED BY <1>4, <1>5, <1>6 DEF IInv

-----------------------------------------------------------------------------
LEMMA NextInv == ASSUME IInv, [Next]_vars PROVE IInv'
<1>1. CASE UNCHANGED vars
  BY <1>1, ChatInv DEF vars, play, IInv, TypeOK, Places
<1>2. ASSUME NEW s \in Starts, Start(s) \/ Play(s) PROVE IInv'
  BY <1>2, StartInv, EnterInv, SetRunningInv, PlaysInv, LeaveInv, WriteOutcomeInv DEF Play, Plays
<1>3. ASSUME NEW m \in Messages, Send(m) \/ Deliver(m) \/ StartJob(m) PROVE IInv'
  BY <1>3, SendInv, DeliverInv, StartJobInv
<1> QED BY <1>1, <1>2, <1>3, EndJobInv, StopInv, ConcludeInv, CancelInv, CancelWriteInv,
           CrashInv DEF Next

LEMMA AlwaysIInv == Spec => []IInv
BY InitInv, NextInv, PTL DEF Spec

\* Every variable keeps its type.
THEOREM TypeCorrect == Spec => []TypeOK
BY AlwaysIInv, PTL DEF IInv

\* One discussion plays in a chat, and it is the one that stop, conclude and
\* the messages reach (start, active).
THEOREM OneDiscussionHolds == Spec => []OneDiscussion
BY AlwaysIInv, PTL DEF IInv

\* No `running` is left without somebody who will write the status (play's
\* finally, the jobs of the task, a restart).
THEOREM RunningHasOwnerHolds == Spec => []RunningHasOwner
BY AlwaysIInv, PTL DEF IInv

\* A stop lets at most one more turn begin (halted).
THEOREM StopsSoonHolds == Spec => []StopsSoon
<1>1. IInv => StopsSoon
  BY DEF IInv, TypeOK, StopRight, StopsSoon
<1> QED BY <1>1, AlwaysIInv, PTL

=============================================================================
