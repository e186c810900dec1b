--------------------------- MODULE ExecutorProofs ---------------------------
(***************************************************************************)
(* Theorems about what an agent's run is made of: its attempts             *)
(* (RunAttempts) and the commands the attempts run (CommandPipeline).      *)
(*                                                                         *)
(* Attempts, for any number of overlapping runs and any chain: the types,  *)
(* that no attempt is out of its controller's reach, and that a report is  *)
(* final.                                                                  *)
(*                                                                         *)
(* Commands, for any finite set of commands, any tasks and attempts and    *)
(* any numbers of slots: no slot idles beside a line, no command starts    *)
(* over the limit, a wait is shown only where something waits, and a       *)
(* command is stopped only by its own attempt, task or caller.             *)
(***************************************************************************)
EXTENDS RunAttempts, CommandPipeline, FiniteSetTheorems, SequenceTheorems, TLAPS

(***************************************************************************)
(* The attempts of a run                                                   *)
(***************************************************************************)


\* A session that was gone let its agent say nothing.
GoneSilent ==
  \A r \in Runs : kind[r] = "gone" => pc[r] \in {"wrap", "caught", "judged"} /\ reported[r] = "none"

\* The catch finds only the error of an agent without a report worth a failover.
WorthSilent ==
  \A r \in Runs : worth[r] => pc[r] = "judged" /\ reported[r] = "none"

IInv == TypeOK /\ GoneSilent /\ WorthSilent

PCs == {"idle", "prepare", "work", "resume", "wrap", "caught", "judged", "over"}

LEMMA InitInv == Init => IInv
<1> SUFFICES ASSUME Init PROVE IInv
  OBVIOUS
<1>1. TypeOK
  BY AttemptsAssumption DEF AttemptsAssumption, Init, TypeOK, Reports, Kinds
<1>2. GoneSilent /\ WorthSilent
  BY DEF Init, GoneSilent, WorthSilent
<1> QED BY <1>1, <1>2 DEF IInv

LEMMA EnterInv ==
  ASSUME IInv, NEW r \in Runs, NEW ch \in Seq({"primary", "rung", "fallback"}),
         NEW i \in DOMAIN ch, NEW again \in BOOLEAN, Enter(r, ch, i, again)
  PROVE  IInv'
<1> USE DEF IInv, Enter, Go, end, ctrl
<1>1. TypeOK'
  <2>1. chain' \in [Runs -> Seq({"primary", "rung", "fallback"})]
    BY DEF TypeOK
  <2>2. \A q \in Runs : at'[q] \in DOMAIN chain'[q]
    <3>1. ASSUME NEW q \in Runs, q = r PROVE at'[q] \in DOMAIN chain'[q]
      <4>1. at'[r] = i /\ chain'[r] = ch
        BY DEF TypeOK
      <4> QED BY <3>1, <4>1
    <3>2. ASSUME NEW q \in Runs, q # r PROVE at'[q] \in DOMAIN chain'[q]
      BY <3>2 DEF TypeOK
    <3> QED BY <3>1, <3>2
  <2>3. pc' \in [Runs -> PCs] /\ resume' \in [Runs -> BOOLEAN] /\ at' \in [Runs -> Nat]
    BY DEF TypeOK, PCs
  <2> QED BY <2>1, <2>2, <2>3 DEF TypeOK, PCs
<1>2. GoneSilent' /\ WorthSilent'
  BY DEF TypeOK, GoneSilent, WorthSilent
<1> QED BY <1>1, <1>2

LEMMA BeginInv == ASSUME IInv, NEW r \in Runs, Begin(r) PROVE IInv'
<1>1. Chain \in Seq({"primary", "rung", "fallback"}) /\ 1 \in DOMAIN Chain
  BY AttemptsAssumption DEF AttemptsAssumption
<1>2. /\ <<Chain[1]>> \in Seq({"primary", "rung", "fallback"})
      /\ 1 \in DOMAIN <<Chain[1]>>
  BY <1>1
<1> QED BY <1>1, <1>2, EnterInv DEF Begin

LEMMA AttemptInv == ASSUME IInv, NEW r \in Runs, Attempt(r) PROVE IInv'
<1> USE DEF IInv, Attempt, Go
<1>1. TypeOK'
  BY DEF TypeOK
<1>2. GoneSilent' /\ WorthSilent'
  BY DEF TypeOK, GoneSilent, WorthSilent
<1> QED BY <1>1, <1>2

LEMMA StopInv ==
  ASSUME IInv, Cancel \/ MemoryStop \/ \E r \in Runs : OutOfTime(r) PROVE IInv'
<1> USE DEF IInv, Cancel, MemoryStop, OutOfTime, StopFor, run, end
<1>1. TypeOK'
  <2>1. CASE Cancel
    BY <2>1 DEF TypeOK
  <2>2. CASE MemoryStop
    BY <2>2 DEF TypeOK
  <2>3. CASE \E r \in Runs : OutOfTime(r)
    BY <2>3 DEF TypeOK
  <2> QED BY <2>1, <2>2, <2>3
<1>2. GoneSilent' /\ WorthSilent'
  BY DEF GoneSilent, WorthSilent
<1> QED BY <1>1, <1>2

LEMMA ReportInv == ASSUME IInv, NEW r \in Runs, NEW s \in Reports, Report(r, s) PROVE IInv'
<1> USE DEF IInv, Report, run, ctrl
<1>1. TypeOK'
  BY DEF TypeOK
<1>2. GoneSilent' /\ WorthSilent'
  BY DEF TypeOK, GoneSilent, WorthSilent
<1> QED BY <1>1, <1>2

LEMMA EndsInv ==
  ASSUME IInv, NEW r \in Runs, NEW k \in Kinds, AgentEnds(r, k) \/ AgentThrows(r, k)
  PROVE  IInv'
<1> USE DEF IInv, AgentEnds, AgentThrows, Go, ctrl
<1>1. TypeOK'
  <2>1. CASE AgentEnds(r, k)
    BY <2>1 DEF TypeOK
  <2>2. CASE AgentThrows(r, k)
    BY <2>2 DEF TypeOK
  <2> QED BY <2>1, <2>2
<1>2. GoneSilent'
  BY DEF TypeOK, GoneSilent
<1>3. WorthSilent'
  BY DEF TypeOK, WorthSilent
<1> QED BY <1>1, <1>2, <1>3

LEMMA JudgeInv == ASSUME IInv, NEW r \in Runs, Judge(r) \/ ResumeEnds(r) PROVE IInv'
<1> USE DEF IInv, Judge, ResumeEnds, Go, end, ctrl
<1>1. TypeOK'
  <2>1. CASE Judge(r)
    BY <2>1 DEF TypeOK
  <2>2. CASE ResumeEnds(r)
    BY <2>2 DEF TypeOK
  <2> QED BY <2>1, <2>2
<1>2. GoneSilent' /\ WorthSilent'
  BY DEF TypeOK, GoneSilent, WorthSilent
<1> QED BY <1>1, <1>2

LEMMA LeaveInv == ASSUME IInv, NEW r \in Runs, Leave(r) PROVE IInv'
<1> USE DEF IInv, Leave, Go
<1>1. TypeOK'
  <2>1. /\ pc[r] # "idle" /\ at[r] \in 1 .. Len(chain[r]) /\ Len(chain[r]) \in Nat
        /\ at'[r] \in {at[r], at[r] + 1} /\ (at'[r] = at[r] + 1 => at[r] < Len(chain[r]))
    BY DEF TypeOK
  <2>2. at'[r] \in DOMAIN chain[r]
    BY <2>1
  <2>3. \A q \in Runs : at'[q] \in DOMAIN chain'[q]
    BY <2>2 DEF TypeOK
  <2>4. {active', guarded'} \subseteq Runs \cup {None}
    BY DEF TypeOK, Detach
  <2> QED BY <2>3, <2>4 DEF TypeOK, Kinds
<1>2. GoneSilent' /\ WorthSilent'
  BY DEF TypeOK, GoneSilent, WorthSilent
<1> QED BY <1>1, <1>2

LEMMA RefuseInv == ASSUME IInv, NEW r \in Runs, Refuse(r) PROVE IInv'
<1> USE DEF IInv, Refuse, Go, end, ctrl
<1>1. TypeOK'
  BY DEF TypeOK
<1>2. GoneSilent' /\ WorthSilent'
  BY DEF TypeOK, GoneSilent, WorthSilent
<1> QED BY <1>1, <1>2

LEMMA StepInv == IInv /\ [Next]_vars => IInv'
<1> SUFFICES ASSUME IInv, [Next]_vars PROVE IInv'
  OBVIOUS
<1>1. ASSUME NEW r \in Runs,
             \/ Begin(r) \/ Refuse(r) \/ Attempt(r) \/ OutOfTime(r)
             \/ ResumeEnds(r) \/ Judge(r) \/ Leave(r)
             \/ \E s \in Reports : Report(r, s)
             \/ \E k \in Kinds : AgentEnds(r, k)
             \/ \E k \in {"fault", "steps", "gone"} : AgentThrows(r, k)
      PROVE  IInv'
  <2>1. CASE Begin(r) \/ Refuse(r) \/ Attempt(r)
    BY <2>1, BeginInv, RefuseInv, AttemptInv
  <2>2. CASE OutOfTime(r)
    BY <2>2, StopInv
  <2>3. CASE ResumeEnds(r) \/ Judge(r) \/ Leave(r)
    BY <2>3, JudgeInv, LeaveInv
  <2>4. ASSUME NEW s \in Reports, Report(r, s) PROVE IInv'
    BY <2>4, ReportInv
  <2>5. ASSUME NEW k \in Kinds, AgentEnds(r, k) PROVE IInv'
    BY <2>5, EndsInv
  <2>6. ASSUME NEW k \in {"fault", "steps", "gone"}, AgentThrows(r, k) PROVE IInv'
    BY <2>6, EndsInv DEF Kinds
  <2> QED BY <1>1, <2>1, <2>2, <2>3, <2>4, <2>5, <2>6
<1>2. CASE Cancel \/ MemoryStop
  BY <1>2, StopInv
<1>3. CASE UNCHANGED vars
  BY <1>3 DEF vars, run, end, ctrl, IInv, TypeOK, GoneSilent, WorthSilent
<1> QED BY <1>1, <1>2, <1>3 DEF Next

LEMMA Inductive == Spec => []IInv
<1> QED BY InitInv, StepInv, PTL DEF Spec

\* The types of runs, controllers and chains.
THEOREM TypeCorrect == Spec => []TypeOK
<1>1. IInv => TypeOK
  BY DEF IInv
<1> QED BY <1>1, Inductive, PTL

\* The controller of an attempt that is not over is installed or aborted, while its
\* agent is resumed for a report, too.
Owned ==
  \A r \in Runs : pc[r] \in {"work", "resume", "wrap", "caught", "judged"}
                => r = active \/ r \in aborted

\* Of the attempts that are stopped by their own controller a cancel reaches the
\* newest, and every older one has been aborted, in whatever order overlapping runs
\* install their controllers and leave. The resume for a report is left out.
THEOREM NoneOutOfReachHolds == Spec => []NoneOutOfReach
<1>1. Init => Owned
  BY DEF Init, Owned
<1>2. IInv /\ Owned /\ [Next]_vars => Owned'
  <2> SUFFICES ASSUME IInv, Owned, [Next]_vars PROVE Owned'
    OBVIOUS
  <2> USE DEF Owned, Go, IInv, TypeOK
  <2>1. ASSUME NEW r \in Runs, Attempt(r) PROVE Owned'
    BY <2>1, AttemptsAssumption DEF Attempt, AttemptsAssumption
  <2>2. ASSUME NEW r \in Runs, Leave(r) PROVE Owned'
    <3>1. pc'[r] \notin {"work", "resume", "wrap", "caught", "judged"}
      BY <2>2 DEF Leave
    <3> QED BY <2>2, <3>1 DEF Leave, Detach
  <2>3. ASSUME NEW r \in Runs, Begin(r) \/ Refuse(r) PROVE Owned'
    BY <2>3 DEF Begin, Enter, Refuse, ctrl
  <2>4. ASSUME NEW r \in Runs,
               \/ ResumeEnds(r) \/ Judge(r) \/ \E s \in Reports : Report(r, s)
               \/ \E k \in Kinds : AgentEnds(r, k)
               \/ \E k \in {"fault", "steps", "gone"} : AgentThrows(r, k)
        PROVE  Owned'
    BY <2>4 DEF ResumeEnds, Judge, Report, AgentEnds, AgentThrows, ctrl, run
  <2>5. CASE Cancel \/ MemoryStop \/ \E r \in Runs : OutOfTime(r)
    BY <2>5 DEF Cancel, MemoryStop, OutOfTime, StopFor, run
  <2>6. CASE UNCHANGED vars
    BY <2>6 DEF vars, run, ctrl
  <2> QED BY <2>1, <2>2, <2>3, <2>4, <2>5, <2>6 DEF Next
<1>3. Owned => NoneOutOfReach
  BY DEF Owned, NoneOutOfReach, Stoppable
<1> QED BY <1>1, <1>2, <1>3, Inductive, PTL DEF Spec

\* No attempt follows a report of done or blocked, and only one of a stronger
\* model follows a report of failed.
THEOREM ReportIsFinalHolds == Spec => ReportIsFinal
<1>1. ASSUME IInv, [Next]_vars, NEW r \in Runs, pc[r] \in {"wrap", "judged"},
             pc'[r] = "prepare"
      PROVE  \/ reported[r] = "none"
             \/ reported[r] = "failed" /\ chain[r][at'[r]] = "rung"
  <2>1. Leave(r)
    <3> USE <1>1 DEF IInv, TypeOK, Go, run, end
    <3>1. ASSUME NEW q \in Runs, Begin(q) \/ Refuse(q) \/ Attempt(q) PROVE FALSE
      BY <3>1 DEF Begin, Enter, Refuse, Attempt
    <3>2. ASSUME NEW q \in Runs, OutOfTime(q) \/ \E s \in Reports : Report(q, s)
          PROVE  FALSE
      BY <3>2 DEF OutOfTime, Report
    <3>3. ASSUME NEW q \in Runs, ResumeEnds(q) \/ Judge(q) PROVE FALSE
      BY <3>3 DEF ResumeEnds, Judge
    <3>4. ASSUME NEW q \in Runs, NEW k \in Kinds, AgentEnds(q, k) \/ AgentThrows(q, k)
          PROVE  FALSE
      BY <3>4 DEF AgentEnds, AgentThrows
    <3>5. ASSUME NEW q \in Runs, Leave(q) PROVE q = r
      BY <3>5 DEF Leave
    <3>6. ~(Cancel \/ MemoryStop) /\ ~UNCHANGED vars
      BY DEF Cancel, MemoryStop, vars
    <3>7. {"fault", "steps", "gone"} \subseteq Kinds
      BY DEF Kinds
    <3> QED BY <3>1, <3>2, <3>3, <3>4, <3>5, <3>6, <3>7 DEF Next
  <2>2. CASE kind[r] = "gone"
    BY <1>1, <2>2 DEF IInv, GoneSilent
  <2>3. CASE kind[r] # "gone"
    <3>1. \/ FailoverWorthy(r)
          \/ /\ WorthEscalating(r) /\ chain[r][at[r] + 1] = "rung"
             /\ at'[r] = at[r] + 1
      <4> DEFINE more == at[r] < Len(chain[r])
                 up   == /\ ~FailoverWorthy(r) /\ more /\ chain[r][at[r] + 1] = "rung"
                         /\ WorthEscalating(r)
                 next == up \/ (FailoverWorthy(r) /\ more)
      <4>1. pc' = [pc EXCEPT ![r] = IF next THEN "prepare" ELSE "over"]
        BY <2>1, <2>3 DEF Leave, Go
      <4>2. at' = [at EXCEPT ![r] = IF next THEN @ + 1 ELSE @]
        BY <2>1, <2>3 DEF Leave
      <4> HIDE DEF next, more, up
      <4>3. next
        BY <1>1, <4>1 DEF IInv, TypeOK
      <4>4. at'[r] = at[r] + 1
        <5>1. at' = [at EXCEPT ![r] = at[r] + 1]
          BY <4>2, <4>3
        <5> QED BY <1>1, <5>1 DEF IInv, TypeOK
      <4> QED BY <4>3, <4>4 DEF next, up
    <3>2. CASE FailoverWorthy(r)
      BY <1>1, <3>2 DEF FailoverWorthy, IInv, WorthSilent
    <3> QED BY <3>1, <3>2 DEF WorthEscalating
  <2> QED BY <2>2, <2>3
<1>2. IInv /\ [Next]_vars =>
        [(\A r \in Runs : pc[r] \in {"wrap", "judged"} /\ pc'[r] = "prepare"
           => \/ reported[r] = "none"
              \/ reported[r] = "failed" /\ chain[r][at'[r]] = "rung")]_vars
  BY <1>1
<1> QED BY <1>2, Inductive, PTL DEF Spec, ReportIsFinal

(***************************************************************************)
(* The command pipeline                                                    *)
(***************************************************************************)

\* No command stands in a line twice.
Single(w) == \A i, j \in DOMAIN w : w[i] = w[j] => i = j

\* Nobody stands in the line twice, and who stands in it waits.
Lined == /\ Single(line)
         /\ Items(line) = {c \in Cmds : cmd[c] = "waiting"}

LightRuns == \A c \in Light : cmd[c] \notin {"waiting", "starting"}

\* A call was made with a token that was valid then.
Known == \A c \in Cmds : cmd[c] # "none" => OwnerOf[c] \in tokens \cup ended

CQInv == CQTypeOK /\ Lined /\ LightRuns /\ Known

(***************************************************************************)
(* The line                                                                *)
(***************************************************************************)

LEMMA KeptFinite ==
  ASSUME line \in Seq(Cmds), NEW S
  PROVE  /\ Kept(S) \subseteq 1..Len(line)
         /\ IsFiniteSet(Kept(S)) /\ Cardinality(Kept(S)) \in Nat
<1>1. DOMAIN line = 1..Len(line) /\ Len(line) \in Nat
  OBVIOUS
<1>2. Kept(S) \subseteq 1..Len(line)
  BY <1>1 DEF Kept
<1>3. IsFiniteSet(1..Len(line))
  BY <1>1, FS_Interval
<1>4. IsFiniteSet(Kept(S))
  BY <1>2, <1>3, FS_Subset
<1> QED BY <1>2, <1>4, FS_CardinalityType

LEMMA RankInRange ==
  ASSUME line \in Seq(Cmds), NEW S, NEW i \in Kept(S)
  PROVE  Rank(S, i) \in 1..Cardinality(Kept(S))
<1> DEFINE U == {k \in Kept(S) : k <= i}
<1>1. i \in Nat
  BY KeptFinite
<1>2. IsFiniteSet(U) /\ Cardinality(U) <= Cardinality(Kept(S))
  BY KeptFinite, FS_Subset
<1>3. Cardinality(U) \in Nat /\ Cardinality(U) # 0
  BY <1>1, <1>2, FS_CardinalityType, FS_EmptySet
<1> QED BY <1>2, <1>3, KeptFinite DEF Rank

LEMMA RankGrows ==
  ASSUME line \in Seq(Cmds), NEW S, NEW i \in Kept(S), NEW j \in Kept(S), i < j
  PROVE  Rank(S, i) < Rank(S, j)
<1> DEFINE U == {k \in Kept(S) : k <= i}  V == {k \in Kept(S) : k <= j}
<1>1. Kept(S) \subseteq Nat /\ i \in Nat /\ j \in Nat
  BY KeptFinite
<1>2. U \subseteq V /\ j \in V /\ j \notin U
  BY <1>1
<1>3. IsFiniteSet(U) /\ IsFiniteSet(V)
  BY KeptFinite, FS_Subset
<1>4. Cardinality(U) <= Cardinality(V) /\ Cardinality(U) # Cardinality(V)
  BY <1>2, <1>3, FS_Subset
<1>5. Cardinality(U) \in Nat /\ Cardinality(V) \in Nat
  BY <1>3, FS_CardinalityType
<1> QED BY <1>4, <1>5 DEF Rank

\* Every number up to the count of the kept places is the rank of one of them.
LEMMA Placed ==
  ASSUME line \in Seq(Cmds), NEW S
  PROVE  /\ \A n \in 1..Cardinality(Kept(S)) :
              Place(S, n) \in Kept(S) /\ Rank(S, Place(S, n)) = n
         /\ \A i \in Kept(S) : Place(S, Rank(S, i)) = i
<1> DEFINE n == Cardinality(Kept(S))
           f == [i \in Kept(S) |-> Rank(S, i)]
<1>1. n \in Nat /\ Kept(S) \subseteq Nat
  BY KeptFinite
<1>2. ASSUME NEW i \in Kept(S), NEW j \in Kept(S), Rank(S, i) = Rank(S, j)
      PROVE  i = j
  <2>1. ~(i < j) /\ ~(j < i)
    <3>1. Rank(S, i) \in Nat /\ Rank(S, j) \in Nat
      BY <1>1, RankInRange
    <3>2. ~(Rank(S, i) < Rank(S, j)) /\ ~(Rank(S, j) < Rank(S, i))
      BY <1>2, <3>1
    <3> QED BY <3>2, RankGrows
  <2> QED BY <1>1, <2>1
<1>3. f \in Injection(Kept(S), 1..n)
  <2>1. f \in [Kept(S) -> 1..n]
    BY RankInRange
  <2> QED BY <1>2, <2>1 DEF Injection, IsInjective
<1>4. IsFiniteSet(1..n) /\ Cardinality(1..n) = n
  BY <1>1, FS_Interval
<1>5. f \in Surjection(Kept(S), 1..n)
  BY <1>3, <1>4, FS_Injection
<1>6. \A m \in 1..n : \E i \in Kept(S) : Rank(S, i) = m
  BY <1>5 DEF Surjection
<1>7. \A m \in 1..n : Place(S, m) \in Kept(S) /\ Rank(S, Place(S, m)) = m
  BY <1>6 DEF Place
<1> QED BY <1>2, <1>7, RankInRange

\* Without takes out what it is told and keeps the rest, each once.
LEMMA Thinned ==
  ASSUME line \in Seq(Cmds), Single(line), NEW S
  PROVE  /\ Without(S) \in Seq(Cmds) /\ Single(Without(S))
         /\ Items(Without(S)) = Items(line) \ S
<1> DEFINE n == Cardinality(Kept(S))
<1>1. n \in Nat /\ DOMAIN Without(S) = 1..n
  BY KeptFinite DEF Without
<1>2. \A m \in 1..n : Without(S)[m] = line[Place(S, m)]
  BY DEF Without
<1>3. \A i \in Kept(S) : i \in DOMAIN line /\ line[i] \in Cmds /\ line[i] \notin S
  BY DEF Kept
<1>4. Without(S) \in Seq(Cmds)
  <2>1. \A m \in 1..n : line[Place(S, m)] \in Cmds
    BY <1>3, Placed
  <2> QED BY <1>1, <2>1 DEF Without
<1>5. Single(Without(S))
  <2> SUFFICES ASSUME NEW i \in 1..n, NEW j \in 1..n,
                      line[Place(S, i)] = line[Place(S, j)]
               PROVE  i = j
    BY <1>1, <1>2 DEF Single
  <2>1. Place(S, i) = Place(S, j)
    BY <1>3, Placed DEF Single
  <2> QED BY <2>1, Placed
<1>6. Items(Without(S)) \subseteq Items(line) \ S
  BY <1>1, <1>2, <1>3, Placed DEF Items
<1>7. ASSUME NEW c \in Items(line) \ S PROVE c \in Items(Without(S))
  <2>1. PICK i \in Kept(S) : line[i] = c
    BY <1>7 DEF Items, Kept
  <2>2. Rank(S, i) \in 1..n /\ Without(S)[Rank(S, i)] = c
    BY <1>2, <2>1, Placed, RankInRange
  <2> QED BY <1>1, <2>2 DEF Items
<1> QED BY <1>4, <1>5, <1>6, <1>7

\* The first k of a line, and those behind them.
LEMMA Sliced ==
  ASSUME NEW w \in Seq(Cmds), Single(w), NEW k \in 0..Len(w)
  PROVE  LET front == SubSeq(w, 1, k)  back == SubSeq(w, k + 1, Len(w))
         IN  /\ back \in Seq(Cmds) /\ Single(back) /\ Len(back) = Len(w) - k
             /\ Items(back) = Items(w) \ Items(front)
             /\ Items(front) \subseteq Items(w)
             /\ IsFiniteSet(Items(front)) /\ Cardinality(Items(front)) = k
<1> DEFINE front == SubSeq(w, 1, k)  back == SubSeq(w, k + 1, Len(w))
           f == [i \in 1..k |-> w[i]]
<1>1. /\ Len(w) \in Nat /\ k \in Nat /\ DOMAIN w = 1..Len(w)
      /\ \A i \in 1..Len(w) : w[i] \in Cmds
  OBVIOUS
<1>2. /\ DOMAIN front = 1..k /\ \A i \in 1..k : front[i] = w[i]
  BY <1>1
<1>3. /\ back \in Seq(Cmds) /\ Len(back) = Len(w) - k
      /\ DOMAIN back = 1..(Len(w) - k)
      /\ \A i \in 1..(Len(w) - k) : back[i] = w[i + k]
  <2>1. \A i \in (k+1)..Len(w) : w[i] \in Cmds
    BY <1>1
  <2>2. /\ back \in Seq(Cmds)
        /\ Len(back) = IF k + 1 <= Len(w) THEN Len(w) - (k + 1) + 1 ELSE 0
        /\ \A i \in 1..Len(w) - (k + 1) + 1 : back[i] = w[(k + 1) + i - 1]
    BY <1>1, <2>1, SubSeqProperties
  <2> HIDE DEF back
  <2>3. Len(back) = Len(w) - k
    <3> DEFINE n == Len(w)
    <3>1. n \in Nat /\ k \in Nat /\ k <= n
      BY <1>1
    <3>2. Len(back) = IF k + 1 <= n THEN n - (k + 1) + 1 ELSE 0
      BY <2>2
    <3> HIDE DEF n
    <3>3. ASSUME k + 1 <= n PROVE Len(back) = n - k
      BY <3>1, <3>2, <3>3
    <3>4. ASSUME ~(k + 1 <= n) PROVE Len(back) = n - k
      BY <3>1, <3>2, <3>4
    <3>5. Len(back) = n - k
      BY <3>3, <3>4
    <3> QED BY <3>5 DEF n
  <2>4. \A i \in 1..(Len(w) - k) : i \in 1..Len(w) - (k + 1) + 1 /\ (k + 1) + i - 1 = i + k
    BY <1>1
  <2>5. DOMAIN back = 1..(Len(w) - k)
    BY <2>2, <2>3
  <2> QED BY <2>2, <2>3, <2>4, <2>5
<1>4. Items(front) = {w[i] : i \in 1..k}
  BY <1>2 DEF Items
<1>5. Items(back) = {w[i] : i \in (k+1)..Len(w)}
  <2>1. Items(back) = {w[i + k] : i \in 1..(Len(w) - k)}
    BY <1>3 DEF Items
  <2>2. \A i \in 1..(Len(w) - k) : i + k \in (k+1)..Len(w)
    BY <1>1
  <2>3. \A i \in (k+1)..Len(w) : i - k \in 1..(Len(w) - k) /\ i = (i - k) + k
    BY <1>1
  <2> QED BY <2>1, <2>2, <2>3
<1>6. Single(back)
  <2> SUFFICES ASSUME NEW i \in 1..(Len(w) - k), NEW j \in 1..(Len(w) - k),
                      w[i + k] = w[j + k]
               PROVE  i = j
    BY <1>3 DEF Single
  <2>1. i + k \in DOMAIN w /\ j + k \in DOMAIN w
    BY <1>1
  <2>2. i + k = j + k
    BY <2>1 DEF Single
  <2> QED BY <1>1, <2>2
<1>7. Items(back) = Items(w) \ Items(front)
  <2>1. Items(w) = {w[i] : i \in 1..Len(w)}
    BY <1>1 DEF Items
  <2>2. \A i \in 1..Len(w) : i \in 1..k \/ i \in (k+1)..Len(w)
    BY <1>1
  <2>3. \A i \in (k+1)..Len(w), j \in 1..k : w[i] # w[j]
    <3> SUFFICES ASSUME NEW i \in (k+1)..Len(w), NEW j \in 1..k, w[i] = w[j]
                 PROVE  FALSE
      OBVIOUS
    <3>1. i \in DOMAIN w /\ j \in DOMAIN w
      BY <1>1
    <3>2. i = j
      BY <3>1 DEF Single
    <3> QED BY <1>1, <3>2
  <2>4. (k+1)..Len(w) \subseteq 1..Len(w)
    BY <1>1
  <2> QED BY <1>4, <1>5, <2>1, <2>2, <2>3, <2>4
<1>8. Items(front) \subseteq Items(w)
  BY <1>1, <1>4 DEF Items
<1>9. IsFiniteSet(Items(front)) /\ Cardinality(Items(front)) = k
  <2>1. f \in Surjection(1..k, Items(front))
    BY <1>4 DEF Surjection
  <2>2. f \in Injection(1..k, Items(front))
    <3>1. \A i, j \in 1..k : w[i] = w[j] => i = j
      BY <1>1 DEF Single
    <3> QED BY <2>1, <3>1 DEF Surjection, Injection, IsInjective
  <2>3. IsFiniteSet(1..k) /\ Cardinality(1..k) = k
    BY <1>1, FS_Interval
  <2> QED BY <2>1, <2>2, <2>3, FS_Surjection
<1> QED BY <1>3, <1>6, <1>7, <1>8, <1>9

(***************************************************************************)
(* Stop and Pump                                                           *)
(***************************************************************************)

LEMMA StopFacts ==
  ASSUME CQTypeOK, Lined, NEW S \in SUBSET Cmds, Stop(S)
  PROVE  /\ line' \in Seq(Cmds) /\ cmd' \in [Cmds -> States] /\ cancelled' \subseteq Cmds
         /\ Lined' /\ (LightRuns => LightRuns')
         /\ Active' = Active /\ (line' # <<>> => line # <<>>)
         /\ \A c \in Cmds : /\ cmd[c] = "none" <=> cmd'[c] = "none"
                            /\ c \notin S \cap Items(line) => cmd'[c] = cmd[c]
<1> DEFINE out == S \cap Items(line)
<1>1. /\ line \in Seq(Cmds) /\ Single(line) /\ cmd \in [Cmds -> States]
      /\ Items(line) = {c \in Cmds : cmd[c] = "waiting"}
  BY DEF CQTypeOK, Lined
<1>2. line' = Without(out) /\ cmd' = [c \in Cmds |-> IF c \in out THEN "over" ELSE cmd[c]]
  BY DEF Stop
<1>3. /\ line' \in Seq(Cmds) /\ Single(line') /\ Items(line') = Items(line) \ out
  BY <1>1, <1>2, Thinned
<1>4. cmd' \in [Cmds -> States]
  BY <1>1, <1>2 DEF States
<1>5. Lined' /\ (LightRuns => LightRuns')
  <2>1. Items(line)' = Items(line')
    BY DEF Items
  <2>2. Items(line') = {c \in Cmds : cmd'[c] = "waiting"}
    BY <1>1, <1>2, <1>3
  <2>3. Single(line)'
    BY <1>3 DEF Single
  <2> QED BY <1>2, <2>1, <2>2, <2>3, PipelineAssumption DEF Lined, LightRuns, PipelineAssumption
<1>6. Active' = Active
  BY <1>1, <1>2 DEF Active
<1>7. line' # <<>> => line # <<>>
  <2> SUFFICES ASSUME line = <<>> PROVE line' = <<>>
    OBVIOUS
  <2>1. Items(line) = {}
    BY DEF Items
  <2>2. Items(line') = {}
    BY <1>3, <2>1
  <2>3. DOMAIN line' = {}
    BY <2>2 DEF Items
  <2> QED BY <1>3, <2>3
<1>8. cancelled' \subseteq Cmds
  BY <1>1 DEF Stop, CQTypeOK
<1> QED BY <1>1, <1>2, <1>3, <1>4, <1>5, <1>6, <1>7, <1>8

\* What a pump does to the slots: no slot stays free beside a line, and no
\* command starts over the limit.
PumpedFor(n) ==
  /\ line' # <<>> => Cardinality(Active') >= Limit(n)
  /\ Cardinality(Active') > Cardinality(Active) => Cardinality(Active') <= Limit(n)

LEMMA TakenFits ==
  ASSUME NEW w \in Seq(Cmds), NEW b \in Nat, NEW n \in Nat
  PROVE  LET k == Taken(w, b, n)
         IN  /\ k \in 0..Len(w)
             /\ k < Len(w) => b + k >= Limit(n)
             /\ k > 0 => b + k <= Limit(n)
<1>1. Len(w) \in Nat
  OBVIOUS
<1> DEFINE len == Len(w)  lim == Limit(n)  free == IF b > lim THEN 0 ELSE lim - b
<1>2. len \in Nat /\ lim \in Nat /\ Taken(w, b, n) = IF free < len THEN free ELSE len
  BY <1>1 DEF Taken, Limit
<1>3. /\ free \in Nat
      /\ b + free >= lim
      /\ free > 0 => b + free = lim
  BY <1>2
<1> HIDE DEF len, lim, free
<1>4. CASE free < len
  <2>1. Taken(w, b, n) = free
    BY <1>2, <1>4
  <2> QED BY <1>2, <1>3, <1>4, <2>1 DEF len, lim
<1>5. CASE ~(free < len)
  <2>1. Taken(w, b, n) = len
    BY <1>2, <1>5
  <2>2. len > 0 => b + len <= lim
    BY <1>2, <1>3, <1>5
  <2>3. len \in 0..len /\ ~(len < len)
    BY <1>2
  <2> QED BY <2>1, <2>2, <2>3 DEF len, lim
<1> QED BY <1>4, <1>5

LEMMA PumpFacts ==
  ASSUME CQTypeOK, NEW w \in Seq(Cmds), Single(w), NEW over \in SUBSET Cmds,
         NEW n \in Nat, Pump(w, over, n),
         Items(w) \cap (over \cup Light \cup Active) = {},
         \A c \in Cmds : cmd[c] = "waiting" => c \in Items(w)
  PROVE  /\ line' \in Seq(Cmds) /\ cmd' \in [Cmds -> States]
         /\ Lined' /\ (LightRuns => LightRuns') /\ PumpedFor(n)
         /\ \A c \in Cmds :
              /\ c \in Items(w) => cmd'[c] \in {"waiting", "starting"}
              /\ c \in over => cmd'[c] = "over"
              /\ c \notin Items(w) \cup over => cmd'[c] = cmd[c]
<1> DEFINE rest  == Active \ over
           b     == Cardinality(rest)
           k     == Taken(w, b, n)
           start == Items(SubSeq(w, 1, k))
           back  == SubSeq(w, k + 1, Len(w))
<1>1. IsFiniteSet(Active) /\ IsFiniteSet(rest)
  BY PipelineAssumption, FS_Subset DEF PipelineAssumption, Active
<1>2. b \in Nat /\ Cardinality(Active) \in Nat /\ b <= Cardinality(Active)
  BY <1>1, FS_Subset, FS_CardinalityType
<1>3. /\ k \in 0..Len(w)
      /\ k < Len(w) => b + k >= Limit(n)
      /\ k > 0 => b + k <= Limit(n)
  BY <1>2, TakenFits
<1>4. /\ line' = back
      /\ cmd' = [c \in Cmds |-> IF c \in over THEN "over"
                                ELSE IF c \in start THEN "starting"
                                ELSE IF c \in Items(w) THEN "waiting"
                                ELSE cmd[c]]
  BY DEF Pump
<1>5. /\ back \in Seq(Cmds) /\ Single(back) /\ Len(back) = Len(w) - k
      /\ Items(back) = Items(w) \ start /\ start \subseteq Items(w)
      /\ IsFiniteSet(start) /\ Cardinality(start) = k
  BY <1>3, Sliced
<1>6. Items(w) \subseteq Cmds
  BY DEF Items
<1> HIDE DEF k, start, back, b
<1>7. cmd' \in [Cmds -> States]
  BY <1>4 DEF CQTypeOK, States
<1>8. /\ start \cap over = {} /\ start \cap Light = {} /\ start \cap rest = {}
      /\ Items(w) \cap over = {} /\ Items(w) \cap Active = {} /\ Items(w) \cap Light = {}
  BY <1>5
<1>9. Lined'
  <2>1. Items(line)' = Items(back) /\ (Single(line)' <=> Single(back))
    BY <1>4 DEF Items, Single
  <2>2. Items(back) \subseteq {c \in Cmds : cmd'[c] = "waiting"}
    BY <1>4, <1>5, <1>6, <1>8
  <2>3. {c \in Cmds : cmd'[c] = "waiting"} \subseteq Items(back)
    BY <1>4, <1>5
  <2> QED BY <1>5, <2>1, <2>2, <2>3 DEF Lined
<1>10. LightRuns => LightRuns'
  BY <1>4, <1>8, PipelineAssumption DEF LightRuns, PipelineAssumption
<1>11. Active' = rest \cup start
  <2>1. rest \cup start \subseteq Active'
    <3>1. \A c \in rest : c \in Cmds \ Light /\ cmd[c] \in {"starting", "running"} /\ c \notin over
      BY DEF Active
    <3>2. \A c \in rest : cmd'[c] \in {"starting", "running"}
      BY <1>4, <1>8, <3>1
    <3>3. \A c \in start : c \in Cmds \ Light /\ cmd'[c] = "starting"
      BY <1>4, <1>5, <1>6, <1>8
    <3> QED BY <3>1, <3>2, <3>3 DEF Active
  <2>2. ASSUME NEW c \in Active' PROVE c \in rest \cup start
    <3>1. c \in Cmds \ Light /\ cmd'[c] \in {"starting", "running"}
      BY <2>2 DEF Active
    <3>2. c \notin over
      BY <1>4, <3>1
    <3>3. c \in start \/ cmd'[c] = cmd[c]
      BY <1>4, <3>1, <3>2
    <3> QED BY <3>1, <3>2, <3>3 DEF Active
  <2> QED BY <2>1, <2>2
<1>12. Cardinality(Active') = b + k
  <2>1. Cardinality(rest \cup start) = Cardinality(rest) + Cardinality(start) - Cardinality(rest \cap start)
    BY <1>1, <1>5, FS_Union
  <2>2. Cardinality(rest \cap start) = 0
    BY <1>8, FS_EmptySet
  <2>3. Cardinality(rest) = b
    BY DEF b
  <2>4. k \in Nat
    BY <1>3
  <2> QED BY <1>2, <1>5, <1>11, <2>1, <2>2, <2>3, <2>4
<1>13. PumpedFor(n)
  <2>1. k \in Nat /\ Len(w) \in Nat /\ Limit(n) \in Nat
    BY <1>3 DEF Limit
  <2>2. line' # <<>> => k < Len(w)
    <3>1. line' # <<>> => Len(back) # 0
      BY <1>4, <1>5
    <3> QED BY <1>3, <1>5, <2>1, <3>1
  <2>3. b + k > Cardinality(Active) => k > 0
    BY <1>2, <2>1
  <2> QED BY <1>3, <1>12, <2>2, <2>3 DEF PumpedFor
<1>14. \A c \in Cmds :
         /\ c \in Items(w) => cmd'[c] \in {"waiting", "starting"}
         /\ c \in over => cmd'[c] = "over"
         /\ c \notin Items(w) \cup over => cmd'[c] = cmd[c]
  BY <1>4, <1>5, <1>8
<1> QED BY <1>4, <1>5, <1>7, <1>9, <1>10, <1>13, <1>14

(***************************************************************************)
(* The steps                                                               *)
(***************************************************************************)

\* A step that moves nobody into a slot, and adds nobody to an empty line.
Calm ==
  /\ Active' = Active /\ slots' = slots
  /\ line' # <<>> => line # <<>>

\* What each step does to the invariant, to the slots and to the waits shown.
Sound ==
  /\ CQInv' /\ (Calm \/ PumpedFor(slots'))
  /\ HoldIsTrue => HoldIsTrue'
  /\ OnlyOwnStops => OnlyOwnStops'

LEMMA CQInitInv == CQInit => CQInv /\ NoIdleSlot /\ HoldIsTrue /\ OnlyOwnStops
<1> SUFFICES ASSUME CQInit PROVE CQInv /\ NoIdleSlot /\ HoldIsTrue /\ OnlyOwnStops
  OBVIOUS
<1>1. CQTypeOK
  BY PipelineAssumption DEF CQInit, CQTypeOK, States, PipelineAssumption
<1>2. Lined
  BY DEF CQInit, Lined, Single, Items
<1>3. LightRuns /\ Known
  BY PipelineAssumption DEF CQInit, LightRuns, Known, PipelineAssumption
<1>4. NoIdleSlot /\ HoldIsTrue /\ OnlyOwnStops
  BY DEF CQInit, NoIdleSlot, HoldIsTrue, OnlyOwnStops
<1> QED BY <1>1, <1>2, <1>3, <1>4 DEF CQInv

\* A stop of commands, with what is shown on their tasks after it.
LEMMA StopSound ==
  ASSUME CQInv, NEW S \in SUBSET Cmds, NEW cleared, Stop(S), Show(Told(S), cleared),
         \A c \in S \cap Items(line) : T(c) \in cleared,
         tokens' \subseteq Attempts, ended' \subseteq Attempts, hungUp' \subseteq Cmds,
         tokens \cup ended \subseteq tokens' \cup ended', ended \subseteq ended',
         hungUp \subseteq hungUp', slots' = slots,
         \A c \in S : cmd[c] # "none" => OwnerOf[c] \in ended' \/ c \in hungUp'
  PROVE  Sound
<1>1. CQTypeOK /\ Lined /\ LightRuns /\ Known
  BY DEF CQInv
<1>2. /\ line' \in Seq(Cmds) /\ cmd' \in [Cmds -> States] /\ cancelled' \subseteq Cmds
      /\ Lined' /\ LightRuns' /\ Active' = Active /\ (line' # <<>> => line # <<>>)
      /\ \A c \in Cmds : /\ cmd[c] = "none" <=> cmd'[c] = "none"
                         /\ c \notin S \cap Items(line) => cmd'[c] = cmd[c]
  BY <1>1, StopFacts
<1>3. hold' \in [Tasks -> BOOLEAN]
  BY DEF Show
<1>4. CQTypeOK'
  BY <1>1, <1>2, <1>3 DEF CQTypeOK
<1>5. Known'
  BY <1>1, <1>2 DEF Known
<1>6. HoldIsTrue => HoldIsTrue'
  <2> SUFFICES ASSUME HoldIsTrue, NEW t \in Tasks, hold'[t]
               PROVE  \E c \in Cmds : T(c) = t /\ cmd'[c] \in {"waiting", "starting"}
    BY DEF HoldIsTrue, T
  <2>1. t \notin cleared /\ (hold[t] \/ t \in Told(S))
    BY DEF Show
  <2>2. CASE hold[t]
    <3>1. PICK c \in Cmds : T(c) = t /\ cmd[c] \in {"waiting", "starting"}
      BY <2>2 DEF HoldIsTrue
    <3>2. cmd'[c] = cmd[c]
      BY <1>2, <2>1, <3>1
    <3> QED BY <3>1, <3>2
  <2>3. CASE t \in Told(S)
    <3>1. PICK c \in Items(Without(S \cap Items(line))) : T(c) = t
      <4>1. PICK c \in Items(Without(S)) : T(c) = t
        BY <2>3 DEF Told, Waits
      <4>2. /\ Items(Without(S)) = Items(line) \ S
            /\ Items(Without(S \cap Items(line))) = Items(line) \ (S \cap Items(line))
        BY <1>1, Thinned DEF CQTypeOK, Lined
      <4> QED BY <4>1, <4>2
    <3>2. c \in Items(line) /\ c \notin S
      BY <1>1, Thinned DEF CQTypeOK, Lined
    <3>3. c \in Cmds /\ cmd[c] = "waiting"
      BY <1>1, <3>2 DEF Lined
    <3>4. cmd'[c] = cmd[c]
      BY <1>2, <3>2, <3>3
    <3> QED BY <3>1, <3>3, <3>4
  <2> QED BY <2>1, <2>2, <2>3
<1>7. OnlyOwnStops => OnlyOwnStops'
  <2> SUFFICES ASSUME OnlyOwnStops, NEW c \in cancelled'
               PROVE  OwnerOf[c] \in ended' \/ c \in hungUp'
    BY DEF OnlyOwnStops
  <2>1. CASE c \in cancelled
    BY <2>1 DEF OnlyOwnStops
  <2>2. CASE c \in S \cap (Active \cup Items(line))
    <3>1. cmd[c] # "none"
      BY <1>1, <2>2 DEF Active, Lined
    <3> QED BY <2>2, <3>1
  <2> QED BY <2>1, <2>2 DEF Stop
<1> QED BY <1>1, <1>2, <1>4, <1>5, <1>6, <1>7 DEF Sound, CQInv, Calm

LEMMA StopsSound ==
  ASSUME CQInv
  PROVE  /\ \A a \in Attempts : Unregister(a) => Sound
         /\ \A t \in Tasks : CancelTask(t) => Sound
         /\ \A c \in Cmds : HangUp(c) => Sound
<1>1. CQTypeOK /\ Lined /\ Known
  BY DEF CQInv
<1>2. ASSUME NEW a \in Attempts, Unregister(a) PROVE Sound
  <2> DEFINE mine == {c \in Cmds : OwnerOf[c] = a}
             last == \A b \in tokens \ {a} : TaskOf[b] # TaskOf[a]
             clr  == IF last \/ mine \cap Items(line) # {} THEN {TaskOf[a]} ELSE {}
  <2>1. /\ tokens' = tokens \ {a} /\ ended' = ended \cup {a}
        /\ Stop(mine) /\ Show(Told(mine), clr) /\ UNCHANGED <<hungUp, slots>>
    BY <1>2 DEF Unregister
  <2>2. \A c \in mine \cap Items(line) : T(c) \in clr
    BY DEF T
  <2>3. mine \in SUBSET Cmds /\ \A c \in mine : OwnerOf[c] \in ended'
    BY <2>1
  <2>4. /\ tokens' \subseteq Attempts /\ ended' \subseteq Attempts /\ hungUp' \subseteq Cmds
        /\ tokens \cup ended \subseteq tokens' \cup ended' /\ ended \subseteq ended'
    BY <1>1, <2>1 DEF CQTypeOK
  <2> HIDE DEF mine, clr
  <2> QED BY <2>1, <2>2, <2>3, <2>4, StopSound
<1>3. ASSUME NEW t \in Tasks, CancelTask(t) PROVE Sound
  <2> DEFINE mine == {c \in Cmds : T(c) = t}
             gone == {a \in tokens : TaskOf[a] = t}
  <2>1. /\ tokens' = tokens \ gone /\ ended' = ended \cup gone
        /\ Stop(mine) /\ Show(Told(mine), {t}) /\ UNCHANGED <<hungUp, slots>>
    BY <1>3 DEF CancelTask
  <2>2. \A c \in mine \cap Items(line) : T(c) \in {t}
    OBVIOUS
  <2>3. \A c \in mine : cmd[c] # "none" => OwnerOf[c] \in ended'
    BY <1>1, <2>1 DEF Known, T
  <2>4. /\ tokens' \subseteq Attempts /\ ended' \subseteq Attempts /\ hungUp' \subseteq Cmds
        /\ tokens \cup ended \subseteq tokens' \cup ended' /\ ended \subseteq ended'
    BY <1>1, <2>1 DEF CQTypeOK
  <2>5. mine \in SUBSET Cmds
    OBVIOUS
  <2> HIDE DEF mine
  <2> QED BY <2>1, <2>2, <2>3, <2>4, <2>5, StopSound
<1>4. ASSUME NEW c \in Cmds, HangUp(c) PROVE Sound
  <2> DEFINE clr == IF c \in Items(line) THEN {T(c)} ELSE {}
  <2>1. /\ hungUp' = hungUp \cup {c} /\ Stop({c}) /\ Show(Told({c}), clr)
        /\ UNCHANGED <<tokens, ended, slots>>
    BY <1>4 DEF HangUp
  <2>2. \A d \in {c} \cap Items(line) : T(d) \in clr
    OBVIOUS
  <2>3. /\ tokens' \subseteq Attempts /\ ended' \subseteq Attempts /\ hungUp' \subseteq Cmds
        /\ tokens \cup ended \subseteq tokens' \cup ended' /\ ended \subseteq ended'
    BY <1>1, <2>1 DEF CQTypeOK
  <2> HIDE DEF clr
  <2> QED BY <2>1, <2>2, <2>3, StopSound
<1> QED BY <1>2, <1>3, <1>4

\* A pump, with what is shown after it.
LEMMA PumpSound ==
  ASSUME CQInv, NEW w \in Seq(Cmds), Single(w), NEW over \in SUBSET Cmds,
         slots' \in Slots, Pump(w, over, slots'),
         Items(w) \cap (over \cup Light \cup Active) = {},
         Items(line) \subseteq Items(w),
         \A c \in Items(w) \cup over : cmd[c] # "none",
         UNCHANGED <<who, cancelled>>, hold' \in [Tasks -> BOOLEAN],
         \A t \in Tasks : hold'[t] =>
            \/ hold[t] /\ \A c \in over : T(c) # t
            \/ t \in Waits(w)
  PROVE  Sound
<1>1. CQTypeOK /\ Lined /\ LightRuns /\ Known /\ slots' \in Nat
  BY PipelineAssumption DEF CQInv, PipelineAssumption
<1>2. \A c \in Cmds : cmd[c] = "waiting" => c \in Items(w)
  BY <1>1 DEF Lined
<1>3. /\ line' \in Seq(Cmds) /\ cmd' \in [Cmds -> States]
      /\ Lined' /\ LightRuns' /\ PumpedFor(slots')
      /\ \A c \in Cmds :
           /\ c \in Items(w) => cmd'[c] \in {"waiting", "starting"}
           /\ c \in over => cmd'[c] = "over"
           /\ c \notin Items(w) \cup over => cmd'[c] = cmd[c]
  BY <1>1, <1>2, PumpFacts
<1>4. /\ tokens' = tokens /\ ended' = ended /\ hungUp' = hungUp /\ cancelled' = cancelled
      /\ Items(w) \subseteq Cmds
  BY DEF who, Items
<1>5. CQTypeOK'
  BY <1>1, <1>3, <1>4 DEF CQTypeOK
<1>6. Known'
  BY <1>1, <1>3, <1>4 DEF Known
<1>7. HoldIsTrue => HoldIsTrue'
  <2> SUFFICES ASSUME HoldIsTrue, NEW t \in Tasks, hold'[t]
               PROVE  \E c \in Cmds : T(c) = t /\ cmd'[c] \in {"waiting", "starting"}
    BY DEF HoldIsTrue, T
  <2>1. CASE hold[t] /\ \A c \in over : T(c) # t
    <3>1. PICK c \in Cmds : T(c) = t /\ cmd[c] \in {"waiting", "starting"}
      BY <2>1 DEF HoldIsTrue
    <3> QED BY <1>3, <2>1, <3>1
  <2>2. CASE t \in Waits(w)
    BY <1>3, <1>4, <2>2 DEF Waits
  <2> QED BY <2>1, <2>2
<1>8. OnlyOwnStops => OnlyOwnStops'
  BY <1>4 DEF OnlyOwnStops
<1> QED BY <1>3, <1>5, <1>6, <1>7, <1>8 DEF Sound, CQInv

\* A step of one command that changes neither the line nor who holds a slot.
LEMMA MoveSound ==
  ASSUME CQInv, NEW c \in Cmds, NEW s \in States \ {"none", "waiting"}, Become(c, s),
         UNCHANGED <<who, line, cancelled, slots>>,
         cmd[c] = "none" => OwnerOf[c] \in tokens,
         cmd[c] # "waiting",
         c \in Light => s # "starting",
         c \notin Light => (s \in {"starting", "running"} <=> cmd[c] \in {"starting", "running"}),
         hold' \in [Tasks -> BOOLEAN],
         \A t \in Tasks : hold'[t] =>
            hold[t] /\ (t # T(c) \/ cmd[c] \notin {"waiting", "starting"})
  PROVE  Sound
<1>1. CQTypeOK /\ Lined /\ LightRuns /\ Known
  BY DEF CQInv
<1>2. /\ tokens' = tokens /\ ended' = ended /\ hungUp' = hungUp /\ line' = line
      /\ cancelled' = cancelled /\ slots' = slots
  BY DEF who
<1>3. cmd' = [cmd EXCEPT ![c] = s] /\ cmd \in [Cmds -> States] /\ cmd' \in [Cmds -> States]
  BY <1>1 DEF Become, CQTypeOK
<1>4. \A d \in Cmds : cmd'[d] = IF d = c THEN s ELSE cmd[d]
  BY <1>3
<1>5. CQTypeOK'
  BY <1>1, <1>2, <1>3 DEF CQTypeOK
<1>6. Lined'
  <2>1. Items(line)' = Items(line) /\ (Single(line)' <=> Single(line))
    BY <1>2 DEF Items, Single
  <2>2. {d \in Cmds : cmd'[d] = "waiting"} = {d \in Cmds : cmd[d] = "waiting"}
    BY <1>4
  <2> QED BY <1>1, <2>1, <2>2 DEF Lined
<1>7. LightRuns' /\ Known'
  BY <1>1, <1>2, <1>4, PipelineAssumption DEF LightRuns, Known, PipelineAssumption
<1>8. Active' = Active
  BY <1>4 DEF Active
<1>9. HoldIsTrue => HoldIsTrue'
  <2> SUFFICES ASSUME HoldIsTrue, NEW t \in Tasks, hold'[t]
               PROVE  \E d \in Cmds : T(d) = t /\ cmd'[d] \in {"waiting", "starting"}
    BY DEF HoldIsTrue, T
  <2>1. PICK d \in Cmds : T(d) = t /\ cmd[d] \in {"waiting", "starting"}
    BY DEF HoldIsTrue
  <2>2. d # c
    BY <2>1
  <2> QED BY <1>4, <2>1, <2>2
<1>10. OnlyOwnStops => OnlyOwnStops'
  BY <1>2 DEF OnlyOwnStops
<1> QED BY <1>2, <1>5, <1>6, <1>7, <1>8, <1>9, <1>10 DEF Sound, CQInv, Calm

LEMMA FinishSound ==
  ASSUME CQInv, NEW c \in Cmds \ Light, cmd[c] \in {"starting", "running"}, Finish(c)
  PROVE  Sound
<1>1. CQTypeOK /\ Lined /\ LightRuns
  BY DEF CQInv
<1>2. /\ line \in Seq(Cmds) /\ Single(line) /\ slots' = slots /\ slots \in Slots
      /\ Pump(line, {c}, slots') /\ UNCHANGED <<who, cancelled>>
  BY <1>1 DEF Finish, CQTypeOK, Lined
<1>3. /\ Items(line) \cap ({c} \cup Light \cup Active) = {}
      /\ \A d \in Items(line) \cup {c} : cmd[d] # "none"
  BY <1>1 DEF Lined, LightRuns, Active
<1>4. /\ hold' \in [Tasks -> BOOLEAN]
      /\ \A t \in Tasks : hold'[t] =>
           (hold[t] /\ \A d \in {c} : T(d) # t) \/ t \in Waits(line)
  BY DEF Finish, Show
<1>5. slots' \in Slots /\ {c} \in SUBSET Cmds
  BY <1>2
<1> QED BY <1>2, <1>3, <1>4, <1>5, PumpSound

LEMMA CommandsSound ==
  ASSUME CQInv, NEW c \in Cmds
  PROVE  /\ Call(c) \/ TurnDown(c) \/ RunLight(c) => Sound
         /\ Enqueue(c) => Sound
         /\ Busy(c) => Sound
         /\ Open(c) => Sound
         /\ End(c) => Sound
<1>1. CQTypeOK /\ Lined /\ LightRuns /\ Known
  BY DEF CQInv
<1>h. hold \in [Tasks -> BOOLEAN] /\ c \in Cmds
  BY <1>1 DEF CQTypeOK
<1>2. ASSUME Call(c) PROVE Sound
  <2>1. /\ cmd[c] = "none" /\ OwnerOf[c] \in tokens /\ Become(c, "asks")
        /\ UNCHANGED <<who, line, cancelled, slots>> /\ hold' = hold
    BY <1>2 DEF Call
  <2>2. "asks" \in States \ {"none", "waiting"}
    BY DEF States
  <2> QED BY <1>h, <2>1, <2>2, MoveSound
<1>3. ASSUME TurnDown(c) PROVE Sound
  <2>1. /\ cmd[c] = "asks" /\ Become(c, "over")
        /\ UNCHANGED <<who, line, cancelled, slots>> /\ hold' = hold
    BY <1>3 DEF TurnDown
  <2>2. "over" \in States \ {"none", "waiting"}
    BY DEF States
  <2> QED BY <1>h, <2>1, <2>2, MoveSound
<1>4. ASSUME RunLight(c) PROVE Sound
  <2>1. /\ cmd[c] = "asks" /\ c \in Light /\ Become(c, "running")
        /\ UNCHANGED <<who, line, cancelled, slots>> /\ hold' = hold
    BY <1>4 DEF RunLight
  <2>2. "running" \in States \ {"none", "waiting"}
    BY DEF States
  <2> QED BY <1>h, <2>1, <2>2, MoveSound
<1>5. ASSUME Enqueue(c) PROVE Sound
  <2>1. cmd[c] = "asks" /\ c \notin Light /\ UNCHANGED <<who, cancelled, slots>>
    BY <1>5 DEF Enqueue
  <2>2. CASE c \in hungUp
    <3>1. Become(c, "over") /\ Show({}, {T(c)}) /\ UNCHANGED line
      BY <1>5, <2>2 DEF Enqueue
    <3>2. /\ hold' \in [Tasks -> BOOLEAN]
          /\ \A t \in Tasks : hold'[t] => hold[t]
      BY <3>1 DEF Show
    <3>3. "over" \in States \ {"none", "waiting"} /\ UNCHANGED <<who, line, cancelled, slots>>
      BY <2>1, <3>1 DEF States
    <3> QED BY <2>1, <3>1, <3>2, <3>3, MoveSound
  <2>3. CASE c \notin hungUp
    <3> DEFINE w == Append(line, c)  n == Len(line)
    <3>1. Pump(w, {}, slots) /\ Show({T(c)}, {})
      BY <1>5, <2>3 DEF Enqueue
    <3>2. /\ line \in Seq(Cmds) /\ Single(line) /\ slots \in Slots
          /\ Items(line) = {d \in Cmds : cmd[d] = "waiting"}
      BY <1>1 DEF CQTypeOK, Lined
    <3>3. w \in Seq(Cmds) /\ DOMAIN w = 1..(n + 1) /\ DOMAIN line = 1..n /\ n \in Nat
          /\ w[n + 1] = c /\ \A i \in 1..n : w[i] = line[i]
      BY <3>2
    <3> HIDE DEF w, n
    <3>4. Items(w) = Items(line) \cup {c}
      <4>1. n + 1 \in DOMAIN w /\ w[n + 1] = c
        BY <3>3
      <4>2. \A i \in DOMAIN line : i \in DOMAIN w /\ w[i] = line[i]
        BY <3>3
      <4>3. \A i \in DOMAIN w : w[i] = c \/ (i \in DOMAIN line /\ w[i] = line[i])
        BY <3>3
      <4> QED BY <4>1, <4>2, <4>3 DEF Items
    <3>5. Single(w)
      <4>1. \A i \in DOMAIN line : line[i] # c
        BY <2>1, <3>2 DEF Items
      <4> SUFFICES ASSUME NEW i \in DOMAIN w, NEW j \in DOMAIN w, w[i] = w[j]
                   PROVE  i = j
        BY DEF Single
      <4>2. CASE i \in DOMAIN line /\ j \in DOMAIN line
        BY <3>2, <3>3, <4>2 DEF Single
      <4>3. CASE i \notin DOMAIN line \/ j \notin DOMAIN line
        BY <3>3, <4>1, <4>3
      <4> QED BY <4>2, <4>3
    <3>6. Items(w) \cap ({} \cup Light \cup Active) = {}
      BY <1>1, <2>1, <3>2, <3>4 DEF LightRuns, Active
    <3>7. \A d \in Items(w) \cup {} : cmd[d] # "none"
      BY <2>1, <3>2, <3>4
    <3>8. /\ hold' \in [Tasks -> BOOLEAN]
          /\ \A t \in Tasks : hold'[t] =>
               (hold[t] /\ \A d \in {} : T(d) # t) \/ t \in Waits(w)
      BY <3>1, <3>4 DEF Show, Waits
    <3>9. slots' \in Slots /\ Pump(w, {}, slots') /\ UNCHANGED <<who, cancelled>>
          /\ Items(line) \subseteq Items(w) /\ {} \in SUBSET Cmds
      BY <2>1, <3>1, <3>2, <3>4
    <3> QED BY <3>3, <3>5, <3>6, <3>7, <3>8, <3>9, PumpSound
  <2> QED BY <2>2, <2>3
<1>6. ASSUME Busy(c) PROVE Sound
  <2>1. /\ cmd[c] = "starting" /\ Show({T(c)}, {})
        /\ UNCHANGED <<who, cmd, line, cancelled, slots>>
    BY <1>6 DEF Busy
  <2>2. hold' \in [Tasks -> BOOLEAN]
        /\ \A t \in Tasks : hold'[t] => hold[t] \/ t = T(c)
    BY <2>1 DEF Show
  <2>3. CQTypeOK'
    BY <1>1, <2>1, <2>2 DEF CQTypeOK, who
  <2>4. Lined' /\ LightRuns' /\ Known' /\ Active' = Active
    BY <1>1, <2>1 DEF Lined, Single, Items, LightRuns, Known, Active, who
  <2>5. HoldIsTrue => HoldIsTrue'
    BY <2>1, <2>2 DEF HoldIsTrue, T
  <2>6. OnlyOwnStops => OnlyOwnStops'
    BY <2>1 DEF OnlyOwnStops, who
  <2> QED BY <2>1, <2>3, <2>4, <2>5, <2>6 DEF Sound, CQInv, Calm
<1>7. ASSUME Open(c) PROVE Sound
  <2>1. cmd[c] = "starting" /\ c \notin Light
    BY <1>1, <1>7 DEF Open, LightRuns
  <2>2. CASE c \in cancelled
    BY <1>7, <2>1, <2>2, FinishSound DEF Open
  <2>3. CASE c \notin cancelled
    <3>1. Become(c, "running") /\ Show({}, {T(c)}) /\ UNCHANGED <<who, line, cancelled, slots>>
      BY <1>7, <2>3 DEF Open
    <3>2. /\ hold' \in [Tasks -> BOOLEAN]
          /\ \A t \in Tasks : hold'[t] => hold[t] /\ t # T(c)
      BY <3>1 DEF Show
    <3>3. "running" \in States \ {"none", "waiting"}
      BY DEF States
    <3> QED BY <2>1, <3>1, <3>2, <3>3, MoveSound
  <2> QED BY <2>2, <2>3
<1>8. ASSUME End(c) PROVE Sound
  <2>1. cmd[c] = "running"
    BY <1>8 DEF End
  <2>2. CASE c \notin Light
    BY <1>8, <2>1, <2>2, FinishSound DEF End
  <2>3. CASE c \in Light
    <3>1. Become(c, "over") /\ Show({}, {T(c)}) /\ UNCHANGED <<who, line, cancelled, slots>>
      BY <1>8, <2>3 DEF End
    <3>2. /\ hold' \in [Tasks -> BOOLEAN]
          /\ \A t \in Tasks : hold'[t] => hold[t] /\ t # T(c)
      BY <3>1 DEF Show
    <3>3. "over" \in States \ {"none", "waiting"}
      BY DEF States
    <3> QED BY <2>1, <2>3, <3>1, <3>2, <3>3, MoveSound
  <2> QED BY <2>2, <2>3
<1> QED BY <1>2, <1>3, <1>4, <1>5, <1>6, <1>7, <1>8

LEMMA RegisterSound == ASSUME CQInv, NEW a \in Attempts, Register(a) PROVE Sound
<1>1. CQTypeOK /\ Lined /\ LightRuns /\ Known
  BY DEF CQInv
<1>2. /\ tokens' = tokens \cup {a} /\ ended' = ended /\ hungUp' = hungUp /\ cmd' = cmd
      /\ line' = line /\ cancelled' = cancelled /\ slots' = slots /\ hold' = hold
  BY DEF Register
<1>3. CQTypeOK'
  BY <1>1, <1>2 DEF CQTypeOK
<1>4. Lined' /\ LightRuns' /\ Known' /\ Active' = Active
  BY <1>1, <1>2 DEF Lined, Single, Items, LightRuns, Known, Active
<1>5. (HoldIsTrue => HoldIsTrue') /\ (OnlyOwnStops => OnlyOwnStops')
  BY <1>2 DEF HoldIsTrue, OnlyOwnStops, T
<1> QED BY <1>2, <1>3, <1>4, <1>5 DEF Sound, CQInv, Calm

LEMMA SlotsChangedSound == ASSUME CQInv, NEW n \in Slots, SlotsChanged(n) PROVE Sound
<1>1. CQTypeOK /\ Lined /\ LightRuns
  BY DEF CQInv
<1>2. /\ line \in Seq(Cmds) /\ Single(line) /\ slots' = n /\ Pump(line, {}, slots')
      /\ UNCHANGED <<who, cancelled>> /\ hold' = hold /\ hold \in [Tasks -> BOOLEAN]
  BY <1>1 DEF SlotsChanged, CQTypeOK, Lined
<1>3. /\ Items(line) \cap ({} \cup Light \cup Active) = {}
      /\ \A d \in Items(line) \cup {} : cmd[d] # "none"
  BY <1>1 DEF Lined, LightRuns, Active
<1>4. {} \in SUBSET Cmds /\ slots' \in Slots
  BY <1>2
<1> QED BY <1>2, <1>3, <1>4, PumpSound

LEMMA NextSound == ASSUME CQInv, CQNext PROVE Sound
BY RegisterSound, StopsSound, CommandsSound, SlotsChangedSound DEF CQNext

\* A step that leaves all variables as they are.
LEMMA StutterSound == ASSUME CQInv, UNCHANGED cqVars PROVE Sound
<1>1. /\ tokens' = tokens /\ ended' = ended /\ hungUp' = hungUp /\ cmd' = cmd
      /\ line' = line /\ cancelled' = cancelled /\ slots' = slots /\ hold' = hold
  BY DEF cqVars, who
<1>2. CQTypeOK /\ Lined /\ LightRuns /\ Known
  BY DEF CQInv
<1>3. CQTypeOK'
  BY <1>1, <1>2 DEF CQTypeOK
<1>4. Lined' /\ LightRuns' /\ Known' /\ Active' = Active
  BY <1>1, <1>2 DEF Lined, Single, Items, LightRuns, Known, Active
<1>5. (HoldIsTrue => HoldIsTrue') /\ (OnlyOwnStops => OnlyOwnStops')
  BY <1>1 DEF HoldIsTrue, OnlyOwnStops, T
<1> QED BY <1>1, <1>3, <1>4, <1>5 DEF Sound, CQInv, Calm

LEMMA StepSound == ASSUME CQInv, [CQNext]_cqVars PROVE Sound
BY NextSound, StutterSound

LEMMA StepSlots ==
  ASSUME CQInv, [CQNext]_cqVars
  PROVE  /\ NoIdleSlot => NoIdleSlot'
         /\ Cardinality(Active') > Cardinality(Active)
              => Cardinality(Active') <= Limit(slots')
<1>1. Calm \/ PumpedFor(slots')
  BY StepSound DEF Sound
<1>2. CASE Calm
  <2>1. Cardinality(Active) \in Nat
    BY PipelineAssumption, FS_Subset, FS_CardinalityType DEF PipelineAssumption, Active
  <2> QED BY <1>2, <2>1 DEF Calm, NoIdleSlot, Limit
<1>3. CASE PumpedFor(slots')
  BY <1>3 DEF PumpedFor, NoIdleSlot, Limit
<1> QED BY <1>1, <1>2, <1>3

(***************************************************************************)
(* Theorems                                                                *)
(***************************************************************************)

\* The types, that the line is what waits, each command once, that light commands
\* stay out of it, and that nobody calls without a token that was valid then.
THEOREM PipelineInv == CQSpec => []CQInv
<1>1. CQInit => CQInv
  BY CQInitInv
<1>2. CQInv /\ [CQNext]_cqVars => CQInv'
  BY StepSound DEF Sound
<1> QED BY <1>1, <1>2, PTL DEF CQSpec

\* Whatever ends, is cancelled or changes the number of slots: while commands
\* wait, all slots are taken.
THEOREM NoIdleSlotHolds == CQSpec => []NoIdleSlot
<1>1. CQInit => NoIdleSlot
  BY CQInitInv
<1>2. CQInv /\ NoIdleSlot /\ [CQNext]_cqVars => NoIdleSlot'
  BY StepSlots
<1> QED BY <1>1, <1>2, PipelineInv, PTL DEF CQSpec

\* No step lets a command start over the limit, and a lowered limit stops nobody.
THEOREM LimitRespectedHolds == CQSpec => LimitRespected
<1>1. CQInv /\ [CQNext]_cqVars =>
        [Cardinality(Active') > Cardinality(Active)
           => Cardinality(Active') <= Limit(slots')]_cqVars
  BY StepSlots
<1> QED BY <1>1, PipelineInv, PTL DEF CQSpec, LimitRespected

\* A task that is shown to wait has a command that waits.
THEOREM HoldIsTrueHolds == CQSpec => []HoldIsTrue
<1>1. CQInit => HoldIsTrue
  BY CQInitInv
<1>2. CQInv /\ HoldIsTrue /\ [CQNext]_cqVars => HoldIsTrue'
  BY StepSound DEF Sound
<1> QED BY <1>1, <1>2, PipelineInv, PTL DEF CQSpec

\* A command is stopped by the end of its own attempt or task or by its caller
\* alone, also when attempts of one task overlap.
THEOREM OnlyOwnStopsHolds == CQSpec => []OnlyOwnStops
<1>1. CQInit => OnlyOwnStops
  BY CQInitInv
<1>2. CQInv /\ OnlyOwnStops /\ [CQNext]_cqVars => OnlyOwnStops'
  BY StepSound DEF Sound
<1> QED BY <1>1, <1>2, PipelineInv, PTL DEF CQSpec
=============================================================================
