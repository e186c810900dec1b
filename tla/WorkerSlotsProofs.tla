------------------------- MODULE WorkerSlotsProofs -------------------------
EXTENDS WorkerSlots, FiniteSetTheorems, SequenceTheorems, TLAPS

(***************************************************************************)
(* What every step of WorkerSlots keeps: the project lock excludes, the    *)
(* counters count, and the driver implements JobContract.                  *)
(***************************************************************************)
Waiters   == {j \in Jobs : stage[j] = "wait"}
Flight(l) == {j \in Flying : Lane(j) = l}

\* The queue of unclaimed rows and the stages agree, and no row is in it twice.
DueRight ==
  /\ \A j \in Jobs : InDue(j) <=> stage[j] = "due"
  /\ \A i, k \in DOMAIN due : due[i] = due[k] => i = k

\* A job that nobody has claimed was never started.
Fresh == \A j \in Jobs : stage[j] \in {"new", "due"} => starts[j] = 0

\* A tick that is about to claim has found a row, of the lane it looks at.
FoundRight ==
  \A t \in Ticks, l \in Lanes :
    tick[t] = <<"claim", l>> => found[t] \in Jobs /\ Lane(found[t]) = l

\* A project's line holds calls of that project, once each: the first is inside,
\* the others wait ...
InLine ==
  \A p \in Projects : \A i \in DOMAIN line[p] :
    /\ ProjectOf[line[p][i]] = p
    /\ stage[line[p][i]] = IF i = 1 THEN "in" ELSE "wait"
    /\ \A k \in DOMAIN line[p] : line[p][i] = line[p][k] => i = k

\* ... and every call that is inside or waits is in its project's line.
Lined ==
  \A j \in Jobs :
    /\ stage[j] = "wait" => ProjectOf[j] # NoProject
    /\ stage[j] \in {"in", "wait"} /\ ProjectOf[j] # NoProject
         => \E i \in DOMAIN line[ProjectOf[j]] : line[ProjectOf[j]][i] = j

\* Counters, lent slots and cap are what the stages say.
Books ==
  /\ \A l \in Lanes : inFlight[l] = Cardinality(Flight(l))
  /\ waiting = Cardinality(Waiters) /\ cap = Capped(base + waiting)

IInv == /\ TypeOK /\ DueRight /\ Fresh /\ FoundRight
        /\ InLine /\ Lined /\ Books

(***************************************************************************)
(* Sequences and counts.                                                   *)
(***************************************************************************)
LEMMA WithoutOne ==
  ASSUME NEW S, NEW s \in Seq(S), NEW i \in DOMAIN s
  PROVE  LET w == SubSeq(s, 1, i - 1) \o SubSeq(s, i + 1, Len(s))
         IN  /\ w \in Seq(S) /\ Len(w) = Len(s) - 1
             /\ \A k \in 1..(Len(s) - 1) : w[k] = IF k < i THEN s[k] ELSE s[k + 1]
<1> DEFINE a == SubSeq(s, 1, i - 1)
           b == SubSeq(s, i + 1, Len(s))
<1>1. i \in 1..Len(s) /\ Len(s) \in Nat /\ \A k \in 1..Len(s) : s[k] \in S
  OBVIOUS
<1>2. a \in Seq(S) /\ Len(a) = i - 1 /\ \A k \in 1..(i - 1) : a[k] = s[k]
  BY <1>1
<1>3. b \in Seq(S) /\ Len(b) = Len(s) - i /\ \A k \in 1..(Len(s) - i) : b[k] = s[k + i]
  BY <1>1
<1> HIDE DEF a, b
<1>4. /\ a \o b \in Seq(S) /\ Len(a \o b) = Len(a) + Len(b)
      /\ \A k \in 1..(Len(a) + Len(b)) :
           (a \o b)[k] = IF k <= Len(a) THEN a[k] ELSE b[k - Len(a)]
  BY <1>2, <1>3, ConcatProperties
<1>5. Len(a) + Len(b) = Len(s) - 1
  BY <1>1, <1>2, <1>3
<1>6. ASSUME NEW k \in 1..(Len(s) - 1)
      PROVE  (a \o b)[k] = IF k < i THEN s[k] ELSE s[k + 1]
  <2>1. CASE k < i
    <3>1. k <= Len(a) /\ k \in 1..(i - 1)
      BY <1>1, <1>2, <2>1
    <3> QED BY <1>2, <1>4, <1>5, <2>1, <3>1
  <2>2. CASE k >= i
    <3>1. /\ ~(k <= Len(a)) /\ ~(k < i) /\ k - Len(a) \in 1..(Len(s) - i)
          /\ (k - Len(a)) + i = k + 1
      BY <1>1, <1>2, <2>2
    <3>2. (a \o b)[k] = b[k - Len(a)]
      BY <1>4, <1>5, <3>1
    <3>3. b[k - Len(a)] = s[k + 1]
      BY <1>3, <3>1
    <3> QED BY <3>1, <3>2, <3>3
  <2>3. k < i \/ k >= i
    BY <1>1
  <2> QED BY <2>1, <2>2, <2>3
<1>7. /\ a \o b \in Seq(S) /\ Len(a \o b) = Len(s) - 1
      /\ \A k \in 1..(Len(s) - 1) : (a \o b)[k] = IF k < i THEN s[k] ELSE s[k + 1]
  BY <1>4, <1>5, <1>6
<1> QED BY <1>7 DEF a, b

LEMMA WithoutRight ==
  ASSUME due \in Seq(Jobs), DueRight, NEW j \in Jobs, InDue(j)
  PROVE  /\ Without(j) \in Seq(Jobs)
         /\ \A k \in Jobs : (\E i \in DOMAIN Without(j) : Without(j)[i] = k)
                              <=> InDue(k) /\ k # j
         /\ \A i, k \in DOMAIN Without(j) : Without(j)[i] = Without(j)[k] => i = k
<1> DEFINE n == CHOOSE i \in DOMAIN due : due[i] = j
           w == SubSeq(due, 1, n - 1) \o SubSeq(due, n + 1, Len(due))
<1>1. n \in DOMAIN due /\ due[n] = j
  BY DEF InDue
<1>2. Without(j) = w
  BY DEF Without
<1> HIDE DEF n
<1>3. /\ w \in Seq(Jobs) /\ Len(w) = Len(due) - 1
      /\ \A k \in 1..(Len(due) - 1) : w[k] = IF k < n THEN due[k] ELSE due[k + 1]
  BY <1>1, WithoutOne
<1> HIDE DEF w
<1>4. DOMAIN w = 1..(Len(due) - 1) /\ DOMAIN due = 1..Len(due) /\ Len(due) \in Nat
  BY <1>3
<1>5. \A i, k \in DOMAIN due : due[i] = due[k] => i = k
  BY DEF DueRight
<1> DEFINE at(k) == IF k < n THEN k ELSE k + 1
<1>6. \A k \in 1..(Len(due) - 1) : at(k) \in DOMAIN due /\ at(k) # n /\ w[k] = due[at(k)]
  BY <1>1, <1>3, <1>4
<1>7. \A i, k \in 1..(Len(due) - 1) : at(i) = at(k) => i = k
  BY <1>1, <1>4
<1> HIDE DEF at
<1>8. \A i, k \in DOMAIN w : w[i] = w[k] => i = k
  BY <1>4, <1>5, <1>6, <1>7
<1>9. ASSUME NEW k \in Jobs, NEW i \in DOMAIN w, w[i] = k PROVE InDue(k) /\ k # j
  BY <1>1, <1>4, <1>5, <1>6, <1>9 DEF InDue
<1>10. ASSUME NEW k \in Jobs, InDue(k), k # j PROVE \E i \in DOMAIN w : w[i] = k
  <2>1. PICK m \in DOMAIN due : due[m] = k
    BY <1>10 DEF InDue
  <2>2. CASE m < n
    BY <1>1, <1>3, <1>4, <2>1, <2>2
  <2>3. CASE m > n
    <3>1. m - 1 \in 1..(Len(due) - 1) /\ ~(m - 1 < n) /\ (m - 1) + 1 = m
      BY <1>1, <1>4, <2>3
    <3> QED BY <1>3, <1>4, <2>1, <3>1
  <2>4. m # n
    BY <1>1, <1>10, <2>1
  <2> QED BY <1>1, <1>4, <2>2, <2>3, <2>4
<1> QED BY <1>2, <1>3, <1>8, <1>9, <1>10

USE WorkerSlotsAssumption DEF WorkerSlotsAssumption

LEMMA Counting ==
  ASSUME NEW T \in SUBSET Jobs, NEW j \in Jobs
  PROVE  /\ Cardinality(T) \in Nat
         /\ j \notin T => Cardinality(T \cup {j}) = Cardinality(T) + 1
         /\ j \in T => Cardinality(T) > 0 /\ Cardinality(T \ {j}) = Cardinality(T) - 1
<1>1. IsFiniteSet(T) /\ IsFiniteSet(T \ {j})
  BY FS_Subset
<1>2. Cardinality(T) \in Nat /\ Cardinality(T \ {j}) \in Nat
  BY <1>1, FS_CardinalityType
<1>3. Cardinality(T \cup {j}) = IF j \in T THEN Cardinality(T) ELSE Cardinality(T) + 1
  BY <1>1, FS_AddElement
<1>4. Cardinality(T \ {j}) = IF j \in T THEN Cardinality(T) - 1 ELSE Cardinality(T)
  BY <1>1, FS_RemoveElement
<1> QED BY <1>2, <1>3, <1>4

LEMMA FromTwo == \A n \in Nat : n > 0 /\ n # 1 => 1 \in 1..n /\ 2 \in 1..n
OBVIOUS

LEMMA Small == /\ Flying \in SUBSET Jobs /\ Waiters \in SUBSET Jobs
               /\ \A l \in Lanes : Flight(l) \in SUBSET Jobs
               /\ \A j \in Jobs : Lane(j) \in Lanes
BY DEF Flying, Waiters, Flight, Lane, Lanes

LEMMA CappedNat == \A n \in Nat : Capped(n) \in Nat
BY DEF Capped

LEMMA LoopPlace ==
  ASSUME NEW lane, NEW flying, NEW limit
  PROVE  /\ Loop(lane, flying, limit) \in TickPC
         /\ \A l \in Lanes : Loop(lane, flying, limit) # <<"claim", l>>
BY DEF Loop, TickPC, Idle, Lanes

(***************************************************************************)
(* The invariant holds at the start and every step keeps it.               *)
(***************************************************************************)
LEMMA InitInv == Init => IInv
<1> SUFFICES ASSUME Init PROVE IInv
  OBVIOUS
<1> USE DEF Init
<1>1. TypeOK
  <2>1. base \in Nat /\ cap \in Nat
    BY CappedNat
  <2>2. tick \in [Ticks -> TickPC]
    BY DEF TickPC, Idle
  <2> QED BY <2>1, <2>2 DEF TypeOK, Stages
<1>2. DueRight /\ Fresh
  BY DEF DueRight, Fresh, InDue
<1>3. FoundRight
  BY DEF FoundRight, Idle
<1>4. InLine /\ Lined
  BY DEF InLine, Lined
<1>5. Books
  <2>1. Waiters = {} /\ \A l \in Lanes : Flight(l) = {}
    BY DEF Waiters, Flight, Flying
  <2>2. cap = Capped(base + 0)
    BY DEF Capped
  <2> QED BY <2>1, <2>2, FS_EmptySet DEF Books
<1> QED BY <1>1, <1>2, <1>3, <1>4, <1>5 DEF IInv

LEMMA EnqueueInv ==
  ASSUME IInv, NEW j \in Jobs, Enqueue(j)
  PROVE  IInv'
<1> USE DEF IInv, Enqueue, At, ticks, slots
<1>1. TypeOK'
  BY DEF TypeOK, Stages
<1>2. DueRight'
  <2>1. due \in Seq(Jobs) /\ ~InDue(j)
    BY DEF TypeOK, DueRight
  <2>2. /\ DOMAIN due = 1..Len(due) /\ DOMAIN due' = 1..(Len(due) + 1) /\ Len(due) \in Nat
        /\ due'[Len(due) + 1] = j /\ \A i \in DOMAIN due : due'[i] = due[i]
    BY <2>1, AppendProperties
  <2>3. \A i \in DOMAIN due : due[i] # j /\ due[i] \in Jobs
    BY <2>1 DEF InDue
  <2>4. \A k \in Jobs : InDue(k)' <=> InDue(k) \/ k = j
    BY <2>2, <2>3 DEF InDue
  <2>5. \A i, k \in DOMAIN due' : due'[i] = due'[k] => i = k
    BY <2>2, <2>3 DEF DueRight
  <2>6. \A k \in Jobs : stage'[k] = IF k = j THEN "due" ELSE stage[k]
    BY DEF TypeOK
  <2> QED BY <2>4, <2>5, <2>6 DEF DueRight
<1>3. Fresh' /\ FoundRight'
  BY DEF TypeOK, Fresh, FoundRight
<1>4. InLine' /\ Lined'
  BY DEF TypeOK, InLine, Lined
<1>5. Books'
  <2>1. Waiters' = Waiters /\ \A l \in Lanes : Flight(l)' = Flight(l)
    BY DEF TypeOK, Waiters, Flight, Flying
  <2> QED BY <2>1 DEF Books
<1> QED BY <1>1, <1>2, <1>3, <1>4, <1>5

\* What taking a row off the queue leaves of it.
LEMMA DueLess ==
  ASSUME IInv, NEW j \in Jobs, InDue(j), due' = Without(j),
         \E st \in {"gone", "start"} : stage' = [stage EXCEPT ![j] = st]
  PROVE  due' \in Seq(Jobs) /\ DueRight'
<1>1. /\ Without(j) \in Seq(Jobs)
      /\ \A k \in Jobs : (\E i \in DOMAIN Without(j) : Without(j)[i] = k)
                           <=> InDue(k) /\ k # j
      /\ \A i, k \in DOMAIN Without(j) : Without(j)[i] = Without(j)[k] => i = k
  BY WithoutRight DEF IInv, TypeOK
<1>2. \A k \in Jobs : InDue(k)' <=> InDue(k) /\ k # j
  BY <1>1 DEF InDue
<1>3. \A k \in Jobs : stage'[k] = "due" <=> stage[k] = "due" /\ k # j
  BY DEF IInv, TypeOK
<1> QED BY <1>1, <1>2, <1>3 DEF DueRight, IInv

LEMMA RemoveInv ==
  ASSUME IInv, NEW j \in Jobs, Remove(j)
  PROVE  IInv'
<1> USE DEF IInv, Remove, ticks, slots
<1>1. due' \in Seq(Jobs) /\ DueRight'
  BY DueLess
<1>2. TypeOK'
  BY <1>1 DEF TypeOK, Stages
<1>3. Fresh' /\ FoundRight'
  BY DEF TypeOK, Fresh, FoundRight
<1>4. stage[j] = "due"
  BY DEF DueRight
<1>5. InLine' /\ Lined'
  BY <1>4 DEF TypeOK, InLine, Lined
<1>6. Books'
  <2>1. Waiters' = Waiters /\ \A l \in Lanes : Flight(l)' = Flight(l)
    BY <1>4 DEF TypeOK, Waiters, Flight, Flying
  <2> QED BY <2>1 DEF Books
<1> QED BY <1>1, <1>2, <1>3, <1>5, <1>6

LEMMA TickStartsInv ==
  ASSUME IInv, NEW t \in Ticks, TickStarts(t)
  PROVE  IInv'
<1> USE DEF IInv, TickStarts, slots
<1>1. TypeOK' /\ FoundRight'
  BY LoopPlace DEF TypeOK, FoundRight
<1>2. DueRight' /\ Fresh'
  BY DEF DueRight, Fresh, InDue
<1>3. InLine' /\ Lined'
  BY DEF InLine, Lined
<1>4. Books'
  BY DEF Books, Flight, Flying, Waiters
<1> QED BY <1>1, <1>2, <1>3, <1>4

LEMMA FindDueInv ==
  ASSUME IInv, NEW t \in Ticks, NEW lane \in Lanes, FindDue(t, lane)
  PROVE  IInv'
<1> USE DEF IInv, slots
<1>1. UNCHANGED <<stage, due, starts, inFlight, base, waiting, cap, line, crashes>>
  BY DEF FindDue
<1>2. TypeOK' /\ FoundRight'
  <2>1. CASE DueIn(lane) = {}
    <3>1. /\ \E x \in TickPC : /\ tick' = [tick EXCEPT ![t] = x]
                               /\ \A l \in Lanes : x # <<"claim", l>>
          /\ found' = found
      <4>1. Idle \in TickPC /\ \A l \in Lanes : Idle # <<"claim", l>>
        BY DEF Idle, TickPC, Lanes
      <4> QED BY <2>1, <4>1, LoopPlace DEF FindDue
    <3> QED BY <1>1, <3>1 DEF TypeOK, FoundRight
  <2>2. CASE DueIn(lane) # {}
    <3>1. PICK i \in DueIn(lane) :
            /\ tick' = [tick EXCEPT ![t] = <<"claim", lane>>]
            /\ found' = [found EXCEPT ![t] = due[i]]
      BY <2>2 DEF FindDue
    <3>2. due[i] \in Jobs /\ Lane(due[i]) = lane
      BY <3>1 DEF DueIn, TypeOK
    <3>3. <<"claim", lane>> \in TickPC
      BY DEF TickPC
    <3>4. TypeOK'
      BY <1>1, <3>1, <3>2, <3>3 DEF TypeOK
    <3>5. ASSUME NEW u \in Ticks, NEW l \in Lanes, tick'[u] = <<"claim", l>>
          PROVE  found'[u] \in Jobs /\ Lane(found'[u]) = l
      <4>1. CASE u = t
        BY <3>1, <3>2, <3>5, <4>1 DEF TypeOK
      <4>2. CASE u # t
        BY <3>1, <3>5, <4>2 DEF TypeOK, FoundRight
      <4> QED BY <4>1, <4>2
    <3> QED BY <3>4, <3>5 DEF FoundRight, Lane
  <2> QED BY <2>1, <2>2
<1>3. DueRight' /\ Fresh' /\ InLine' /\ Lined'
  BY <1>1 DEF DueRight, Fresh, InDue, InLine, Lined
<1>4. Books'
  BY <1>1 DEF Books, Flight, Flying, Waiters
<1> QED BY <1>2, <1>3, <1>4

LEMMA ClaimDueInv ==
  ASSUME IInv, NEW t \in Ticks, NEW lane \in Lanes, ClaimDue(t, lane)
  PROVE  IInv'
<1> DEFINE j == found[t]
           flying == [inFlight EXCEPT ![lane] = @ + 1]
<1>1. /\ tick[t] = <<"claim", lane>> /\ found' = [found EXCEPT ![t] = None]
      /\ UNCHANGED <<base, waiting, cap, line, crashes>>
  BY DEF ClaimDue, slots
<1>2. j \in Jobs /\ Lane(j) = lane
  BY <1>1 DEF IInv, FoundRight
<1>3. CASE InDue(j)
  <2>1. /\ stage' = [stage EXCEPT ![j] = "start"] /\ due' = Without(j)
        /\ starts' = [starts EXCEPT ![j] = @ + 1] /\ inFlight' = flying
        /\ tick' = [tick EXCEPT ![t] = Loop(lane, flying, cap)]
    BY <1>3 DEF ClaimDue
  <2> HIDE DEF j
  <2>2. due' \in Seq(Jobs) /\ DueRight' /\ stage[j] = "due"
    <3>1. due' \in Seq(Jobs) /\ DueRight'
      BY <1>2, <1>3, <2>1, DueLess
    <3>2. stage[j] = "due"
      BY <1>2, <1>3 DEF IInv, DueRight
    <3> QED BY <3>1, <3>2
  <2> USE DEF IInv
  <2>3. Loop(lane, flying, cap) \in TickPC /\ \A l \in Lanes : Loop(lane, flying, cap) # <<"claim", l>>
    BY LoopPlace
  <2>4. inFlight' \in [Lanes -> Nat]
    BY <2>1 DEF TypeOK
  <2> HIDE DEF flying
  <2>5. TypeOK'
    <3>1. stage' \in [Jobs -> Stages] /\ starts' \in [Jobs -> Nat]
      BY <1>2, <2>1 DEF TypeOK, Stages
    <3>2. tick' \in [Ticks -> TickPC] /\ found' \in [Ticks -> Jobs \cup {None}]
      BY <1>1, <2>1, <2>3 DEF TypeOK
    <3> QED BY <1>1, <2>2, <2>4, <3>1, <3>2 DEF TypeOK
  <2>6. Fresh'
    BY <1>2, <2>1 DEF Fresh, TypeOK
  <2>7. FoundRight'
    <3>1. ASSUME NEW u \in Ticks, NEW l \in Lanes, tick'[u] = <<"claim", l>>
          PROVE  found'[u] \in Jobs /\ Lane(found'[u]) = l
      <4>1. u # t
        BY <2>1, <2>3, <3>1 DEF TypeOK
      <4> QED BY <1>1, <2>1, <3>1, <4>1 DEF TypeOK, FoundRight
    <3> QED BY <3>1 DEF FoundRight, Lane
  <2>8. InLine' /\ Lined'
    BY <1>1, <1>2, <2>1, <2>2 DEF TypeOK, InLine, Lined
  <2>9. Books'
    <3>1. Waiters' = Waiters
      BY <1>2, <2>1, <2>2 DEF TypeOK, Waiters
    <3>2. \A l \in Lanes : Flight(l)' = IF l = lane THEN Flight(l) \cup {j} ELSE Flight(l)
      BY <1>2, <2>1, <2>2 DEF TypeOK, Flight, Flying, Lane
    <3>3. j \notin Flight(lane)
      BY <2>2 DEF Flight, Flying
    <3>4. Cardinality(Flight(lane) \cup {j}) = Cardinality(Flight(lane)) + 1
      BY <1>2, <3>3, Small, Counting
    <3>5. \A l \in Lanes : inFlight'[l] = IF l = lane THEN inFlight[l] + 1 ELSE inFlight[l]
      BY <2>1 DEF TypeOK, flying
    <3> QED BY <1>1, <3>1, <3>2, <3>4, <3>5 DEF Books
  <2> QED BY <2>2, <2>5, <2>6, <2>7, <2>8, <2>9
<1>4. CASE ~InDue(j)
  <2>1. /\ tick' = [tick EXCEPT ![t] = <<"find", lane>>]
        /\ UNCHANGED <<stage, due, starts, inFlight>>
    BY <1>4 DEF ClaimDue
  <2> USE DEF IInv
  <2>2. TypeOK' /\ FoundRight'
    <3>1. <<"find", lane>> \in TickPC /\ \A l \in Lanes : <<"find", lane>> # <<"claim", l>>
      BY DEF TickPC
    <3> QED BY <1>1, <2>1, <3>1 DEF TypeOK, FoundRight
  <2>3. DueRight' /\ Fresh' /\ InLine' /\ Lined'
    BY <1>1, <2>1 DEF DueRight, Fresh, InDue, InLine, Lined
  <2>4. Books'
    BY <1>1, <2>1 DEF Books, Flight, Flying, Waiters
  <2> QED BY <2>2, <2>3, <2>4
<1> QED BY <1>3, <1>4

LEMMA AcquireInv ==
  ASSUME IInv, NEW j \in Jobs, Acquire(j)
  PROVE  IInv'
<1> DEFINE p == ProjectOf[j]
<1>1. /\ stage[j] = "start" /\ UNCHANGED <<due, starts, tick, found, inFlight, crashes>>
  BY DEF Acquire, At, ticks
<1>2. p \in Projects \cup {NoProject} /\ (p \in Projects => p # NoProject)
  OBVIOUS
<1>3. \A q \in Projects : \A i \in DOMAIN line[q] : line[q][i] # j
  BY <1>1 DEF IInv, InLine
<1>4. /\ \A l \in Lanes : stage' = [stage EXCEPT ![j] = "in"] => Flight(l)' = Flight(l)
      /\ \A l \in Lanes : stage' = [stage EXCEPT ![j] = "wait"] => Flight(l)' = Flight(l)
  BY <1>1 DEF IInv, TypeOK, Flight, Flying
<1>5. stage \in [Jobs -> Stages] /\ "in" \in Stages /\ "wait" \in Stages
  BY DEF IInv, TypeOK, Stages
<1>6. DueRight' /\ Fresh' /\ FoundRight'
  <2>1. \E st \in {"in", "wait"} : stage' = [stage EXCEPT ![j] = st]
    BY DEF Acquire
  <2>2. \A k \in Jobs : k # j => stage'[k] = stage[k]
    BY <1>5, <2>1
  <2>3. stage'[j] \in {"in", "wait"}
    BY <1>5, <2>1
  <2> QED BY <1>1, <2>2, <2>3 DEF IInv, DueRight, InDue, Fresh, FoundRight
<1>7. CASE p = NoProject
  <2>1. stage' = [stage EXCEPT ![j] = "in"] /\ UNCHANGED <<line, base, waiting, cap>>
    BY <1>7 DEF Acquire, slots
  <2> USE DEF IInv
  <2>2. TypeOK'
    BY <1>1, <1>5, <2>1 DEF TypeOK
  <2>3. InLine' /\ Lined'
    BY <1>3, <1>5, <1>7, <2>1 DEF InLine, Lined, TypeOK
  <2>4. Waiters' = Waiters
    BY <1>1, <1>5, <2>1 DEF Waiters
  <2>5. Books'
    BY <1>1, <1>4, <2>1, <2>4 DEF Books
  <2> QED BY <1>6, <2>2, <2>3, <2>5
<1>8. CASE p # NoProject
  <2>1. p \in Projects /\ line' = [line EXCEPT ![p] = Append(@, j)]
    BY <1>2, <1>8 DEF Acquire
  <2>2. /\ line[p] \in Seq(Jobs) /\ Append(line[p], j) \in Seq(Jobs)
        /\ Len(line[p]) \in Nat /\ DOMAIN line[p] = 1..Len(line[p])
        /\ DOMAIN Append(line[p], j) = 1..(Len(line[p]) + 1)
        /\ Append(line[p], j)[Len(line[p]) + 1] = j
        /\ \A i \in 1..Len(line[p]) : Append(line[p], j)[i] = line[p][i]
    <3>1. line[p] \in Seq(Jobs)
      BY <2>1 DEF IInv, TypeOK
    <3> QED BY <3>1, AppendProperties
  <2>3. line' \in [Projects -> Seq(Jobs)]
    BY <2>1, <2>2 DEF IInv, TypeOK
  <2>4. line'[p] = Append(line[p], j) /\ \A q \in Projects : q # p => line'[q] = line[q]
    BY <2>1 DEF IInv, TypeOK
  <2>5. stage' = [stage EXCEPT ![j] = IF line[p] = <<>> THEN "in" ELSE "wait"]
    BY <1>8 DEF Acquire
  <2>6. line[p] = <<>> <=> Len(line[p]) = 0
    BY <2>2
  <2>7. InLine'
    <3>1. ASSUME NEW q \in Projects, NEW i \in DOMAIN line'[q]
          PROVE  /\ ProjectOf[line'[q][i]] = q
                 /\ stage'[line'[q][i]] = IF i = 1 THEN "in" ELSE "wait"
                 /\ \A k \in DOMAIN line'[q] : line'[q][i] = line'[q][k] => i = k
      <4>1. CASE q # p
        <5>1. line'[q] = line[q] /\ line[q][i] # j /\ line[q][i] \in Jobs
          BY <1>3, <2>4, <3>1, <4>1 DEF IInv, TypeOK
        <5> QED BY <1>5, <2>5, <3>1, <5>1 DEF IInv, InLine
      <4>2. CASE q = p /\ i \in DOMAIN line[p]
        <5>1. line'[p][i] = line[p][i] /\ line[p][i] # j /\ line[p][i] \in Jobs
          BY <1>3, <2>1, <2>2, <2>4, <4>2 DEF IInv, TypeOK
        <5>2. \A k \in DOMAIN line'[p] : line'[p][i] = line'[p][k] => i = k
          BY <2>1, <2>2, <2>4, <4>2, <5>1 DEF IInv, InLine
        <5> QED BY <1>5, <2>1, <2>5, <4>2, <5>1, <5>2 DEF IInv, InLine
      <4>3. CASE q = p /\ i = Len(line[p]) + 1
        <5>1. line'[p][i] = j
          BY <2>2, <2>4, <4>3
        <5>2. \A k \in DOMAIN line'[p] : line'[p][i] = line'[p][k] => i = k
          <6>1. \A k \in 1..Len(line[p]) : line'[p][k] # j
            BY <1>3, <2>1, <2>2, <2>4
          <6>2. \A k \in DOMAIN line'[p] : k = i \/ k \in 1..Len(line[p])
            BY <2>2, <2>4, <4>3
          <6> QED BY <5>1, <6>1, <6>2
        <5>3. stage'[j] = IF i = 1 THEN "in" ELSE "wait"
          BY <1>5, <2>2, <2>5, <2>6, <4>3
        <5> QED BY <4>3, <5>1, <5>2, <5>3
      <4> QED BY <2>2, <2>4, <3>1, <4>1, <4>2, <4>3
    <3> QED BY <3>1 DEF InLine
  <2>8. Lined'
    <3>1. ASSUME NEW k \in Jobs, stage'[k] \in {"in", "wait"}, ProjectOf[k] # NoProject
          PROVE  \E i \in DOMAIN line'[ProjectOf[k]] : line'[ProjectOf[k]][i] = k
      <4>1. CASE k = j
        BY <2>2, <2>4, <4>1
      <4>2. CASE k # j
        <5>1. ProjectOf[k] \in Projects
          BY <3>1
        <5>2. PICK i \in DOMAIN line[ProjectOf[k]] : line[ProjectOf[k]][i] = k
          BY <1>5, <2>5, <3>1, <4>2 DEF IInv, Lined
        <5>3. CASE ProjectOf[k] # p
          BY <2>4, <5>1, <5>2, <5>3
        <5>4. CASE ProjectOf[k] = p
          BY <2>2, <2>4, <5>2, <5>4
        <5> QED BY <5>3, <5>4
      <4> QED BY <4>1, <4>2
    <3>2. \A k \in Jobs : stage'[k] = "wait" => ProjectOf[k] # NoProject
      BY <1>5, <1>8, <2>5 DEF IInv, Lined
    <3> QED BY <3>1, <3>2 DEF Lined
  <2>9. CASE line[p] = <<>>
    <3>1. stage' = [stage EXCEPT ![j] = "in"] /\ UNCHANGED <<base, waiting, cap>>
      BY <1>8, <2>9 DEF Acquire, slots
    <3>2. TypeOK'
      BY <1>1, <1>5, <2>3, <3>1 DEF IInv, TypeOK
    <3>3. Waiters' = Waiters
      BY <1>1, <1>5, <3>1 DEF Waiters
    <3>4. Books'
      BY <1>1, <1>4, <3>1, <3>3 DEF IInv, Books
    <3> QED BY <1>6, <2>7, <2>8, <3>2, <3>4 DEF IInv
  <2>10. CASE line[p] # <<>>
    <3>1. /\ stage' = [stage EXCEPT ![j] = "wait"] /\ base' = base
          /\ waiting' = waiting + 1 /\ cap' = Capped(base + (waiting + 1))
      BY <1>8, <2>10 DEF Acquire, Apply
    <3>2. TypeOK'
      <4>1. waiting' \in Nat /\ cap' \in Nat /\ base' \in Slots
        BY <3>1, CappedNat DEF IInv, TypeOK
      <4> QED BY <1>1, <1>5, <2>3, <3>1, <4>1 DEF IInv, TypeOK
    <3>3. Waiters' = Waiters \cup {j} /\ j \notin Waiters
      BY <1>1, <1>5, <3>1 DEF Waiters
    <3>4. Cardinality(Waiters') = waiting'
      BY <3>1, <3>3, Small, Counting DEF IInv, Books
    <3>5. Books'
      BY <1>1, <1>4, <3>1, <3>4 DEF IInv, Books
    <3> QED BY <1>6, <2>7, <2>8, <3>2, <3>5 DEF IInv
  <2> QED BY <2>9, <2>10
<1> QED BY <1>7, <1>8

LEMMA ReleaseInv ==
  ASSUME IInv, NEW j \in Jobs, Release(j)
  PROVE  IInv'
<1> DEFINE p == ProjectOf[j]
           n == line[p][2]
<1>1. /\ stage[j] = "in" /\ UNCHANGED <<due, starts, tick, found, inFlight, crashes>>
  BY DEF Release, At, ticks
<1>2. p \in Projects \cup {NoProject} /\ (p \in Projects => p # NoProject)
  OBVIOUS
<1>3. stage \in [Jobs -> Stages] /\ "in" \in Stages /\ "out" \in Stages
  BY DEF IInv, TypeOK, Stages
<1>4. CASE p = NoProject
  <2>1. stage' = [stage EXCEPT ![j] = "out"] /\ UNCHANGED <<line, base, waiting, cap>>
    BY <1>4 DEF Release, slots
  <2>2. \A q \in Projects : \A i \in DOMAIN line[q] : line[q][i] # j
    BY <1>4 DEF IInv, InLine
  <2>3. TypeOK'
    BY <1>1, <1>3, <2>1 DEF IInv, TypeOK
  <2>4. DueRight' /\ Fresh' /\ FoundRight'
    BY <1>1, <1>3, <2>1 DEF IInv, DueRight, InDue, Fresh, FoundRight
  <2>5. InLine' /\ Lined'
    BY <1>3, <2>1, <2>2 DEF IInv, InLine, Lined, TypeOK
  <2>6. Waiters' = Waiters /\ \A l \in Lanes : Flight(l)' = Flight(l)
    BY <1>1, <1>3, <2>1 DEF Waiters, Flight, Flying
  <2>7. Books'
    BY <1>1, <2>1, <2>6 DEF IInv, Books
  <2> QED BY <2>3, <2>4, <2>5, <2>7 DEF IInv
<1>5. CASE p # NoProject
  <2>1. p \in Projects /\ line[p] \in Seq(Jobs)
    BY <1>2, <1>5 DEF IInv, TypeOK
  <2>2. /\ Len(line[p]) \in Nat /\ DOMAIN line[p] = 1..Len(line[p])
        /\ \A i \in 1..Len(line[p]) : line[p][i] \in Jobs
    BY <2>1
  <2>3. /\ \A i \in 1..Len(line[p]) : stage[line[p][i]] = IF i = 1 THEN "in" ELSE "wait"
        /\ \A i, k \in 1..Len(line[p]) : line[p][i] = line[p][k] => i = k
    BY <2>1, <2>2 DEF IInv, InLine
  <2>4. Len(line[p]) > 0 /\ line[p][1] = j
    <3>1. PICK i \in DOMAIN line[p] : line[p][i] = j
      BY <1>1, <1>5 DEF IInv, Lined
    <3>2. i = 1
      BY <1>1, <2>2, <2>3, <3>1
    <3> QED BY <2>2, <3>1, <3>2
  <2>5. \A q \in Projects : q # p => \A i \in DOMAIN line[q] : ProjectOf[line[q][i]] # p
    BY DEF IInv, InLine
  <2>6. CASE Len(line[p]) = 1
    <3>1. /\ stage' = [stage EXCEPT ![j] = "out"] /\ line' = [line EXCEPT ![p] = <<>>]
          /\ UNCHANGED <<base, waiting, cap>>
      BY <1>5, <2>6 DEF Release, slots
    <3>2. line' \in [Projects -> Seq(Jobs)] /\ DOMAIN line'[p] = {}
          /\ \A q \in Projects : q # p => line'[q] = line[q]
      BY <2>1, <3>1 DEF IInv, TypeOK
    <3>3. TypeOK'
      BY <1>1, <1>3, <3>1, <3>2 DEF IInv, TypeOK
    <3>4. DueRight' /\ Fresh' /\ FoundRight'
      BY <1>1, <1>3, <3>1 DEF IInv, DueRight, InDue, Fresh, FoundRight
    <3>5. InLine'
      BY <1>3, <2>5, <3>1, <3>2 DEF IInv, InLine, TypeOK
    <3>6. Lined'
      <4>1. ASSUME NEW k \in Jobs, stage'[k] \in {"in", "wait"}, ProjectOf[k] # NoProject
            PROVE  \E i \in DOMAIN line'[ProjectOf[k]] : line'[ProjectOf[k]][i] = k
        <5>1. k # j /\ stage[k] \in {"in", "wait"} /\ ProjectOf[k] \in Projects
          BY <1>3, <3>1, <4>1
        <5>2. PICK i \in DOMAIN line[ProjectOf[k]] : line[ProjectOf[k]][i] = k
          BY <4>1, <5>1 DEF IInv, Lined
        <5>3. ProjectOf[k] # p
          BY <2>2, <2>4, <2>6, <5>1, <5>2
        <5> QED BY <3>2, <5>1, <5>2, <5>3
      <4>2. \A k \in Jobs : stage'[k] = "wait" => ProjectOf[k] # NoProject
        BY <1>3, <3>1 DEF IInv, Lined
      <4> QED BY <4>1, <4>2 DEF Lined
    <3>7. Waiters' = Waiters /\ \A l \in Lanes : Flight(l)' = Flight(l)
      BY <1>1, <1>3, <3>1 DEF Waiters, Flight, Flying
    <3>8. Books'
      BY <1>1, <3>1, <3>7 DEF IInv, Books
    <3> QED BY <3>3, <3>4, <3>5, <3>6, <3>8 DEF IInv
  <2>7. CASE Len(line[p]) # 1
    <3>1. n \in Jobs /\ n # j /\ stage[n] = "wait" /\ ProjectOf[n] = p
      <4>1. 1 \in 1..Len(line[p]) /\ 2 \in 1..Len(line[p])
        BY <2>2, <2>4, <2>7, FromTwo
      <4>2. n \in Jobs /\ stage[n] = "wait" /\ n # line[p][1]
        BY <2>2, <2>3, <4>1
      <4>3. ProjectOf[n] = p
        BY <2>1, <2>2, <4>1 DEF IInv, InLine
      <4> QED BY <2>4, <4>2, <4>3
    <3>2. /\ stage' = [stage EXCEPT ![j] = "out", ![n] = "in"]
          /\ line' = [line EXCEPT ![p] = Tail(@)] /\ base' = base
          /\ waiting' = waiting - 1 /\ cap' = Capped(base + (waiting - 1))
      BY <1>5, <2>7 DEF Release, Apply
    <3>3. /\ Tail(line[p]) \in Seq(Jobs) /\ Len(Tail(line[p])) = Len(line[p]) - 1
          /\ \A i \in 1..(Len(line[p]) - 1) : Tail(line[p])[i] = line[p][i + 1]
          /\ DOMAIN Tail(line[p]) = 1..(Len(line[p]) - 1)
      <4>1. line[p] # <<>>
        BY <2>4
      <4> QED BY <2>1, <2>2, <4>1, HeadTailProperties
    <3>4. line' \in [Projects -> Seq(Jobs)] /\ line'[p] = Tail(line[p])
          /\ \A q \in Projects : q # p => line'[q] = line[q]
      BY <2>1, <3>2, <3>3 DEF IInv, TypeOK
    <3>5. n = line[p][2]
      OBVIOUS
    <3> HIDE DEF n
    <3>6. /\ stage' \in [Jobs -> Stages] /\ stage'[j] = "out" /\ stage'[n] = "in"
          /\ \A k \in Jobs : k # j /\ k # n => stage'[k] = stage[k]
      BY <1>3, <3>1, <3>2
    <3>7. DueRight' /\ Fresh' /\ FoundRight'
      BY <1>1, <3>1, <3>6 DEF IInv, DueRight, InDue, Fresh, FoundRight
    <3>8. InLine'
      <4>1. ASSUME NEW q \in Projects, NEW i \in DOMAIN line'[q]
            PROVE  /\ ProjectOf[line'[q][i]] = q
                   /\ stage'[line'[q][i]] = IF i = 1 THEN "in" ELSE "wait"
                   /\ \A k \in DOMAIN line'[q] : line'[q][i] = line'[q][k] => i = k
        <5>1. CASE q # p
          <6>1. line'[q] = line[q] /\ line[q][i] \in Jobs /\ ProjectOf[line[q][i]] # p
            BY <2>5, <3>4, <4>1, <5>1 DEF IInv, TypeOK
          <6>2. line[q][i] # j /\ line[q][i] # n
            BY <3>1, <6>1
          <6> QED BY <3>6, <4>1, <6>1, <6>2 DEF IInv, InLine
        <5>2. CASE q = p
          <6>1. /\ i \in 1..(Len(line[p]) - 1) /\ line'[p][i] = line[p][i + 1]
                /\ i + 1 \in 1..Len(line[p])
            BY <2>2, <3>3, <3>4, <4>1, <5>2
          <6>2. ProjectOf[line'[q][i]] = q
            BY <2>1, <2>2, <5>2, <6>1 DEF IInv, InLine
          <6>3. ASSUME NEW k \in DOMAIN line'[p], line'[p][i] = line'[p][k] PROVE i = k
            <7>1. k \in 1..(Len(line[p]) - 1) /\ line'[p][k] = line[p][k + 1]
                  /\ k + 1 \in 1..Len(line[p])
              BY <2>2, <3>3, <3>4
            <7>2. i + 1 = k + 1
              BY <2>3, <6>1, <6>3, <7>1
            <7> QED BY <2>2, <6>1, <7>1, <7>2
          <6>4. CASE i = 1
            <7>1. i + 1 = 2
              BY <6>4
            <7>2. line'[q][i] = n
              BY <3>5, <5>2, <6>1, <7>1
            <7> QED BY <3>6, <5>2, <6>2, <6>3, <6>4, <7>2
          <6>5. CASE i # 1
            <7>1. /\ line[p][i + 1] # j /\ line[p][i + 1] # n
                  /\ stage[line[p][i + 1]] = "wait" /\ line[p][i + 1] \in Jobs
              <8>1. i + 1 # 1 /\ i + 1 # 2 /\ 1 \in 1..Len(line[p]) /\ 2 \in 1..Len(line[p])
                BY <2>2, <2>4, <2>7, <6>1, <6>5
              <8> QED BY <2>2, <2>3, <2>4, <3>5, <6>1, <8>1
            <7>2. stage'[line'[p][i]] = "wait"
              BY <3>6, <6>1, <7>1
            <7> QED BY <5>2, <6>2, <6>3, <6>5, <7>2
          <6> QED BY <6>4, <6>5
        <5> QED BY <5>1, <5>2
      <4> QED BY <4>1 DEF InLine
    <3>9. Lined'
      <4>1. ASSUME NEW k \in Jobs, stage'[k] \in {"in", "wait"}, ProjectOf[k] # NoProject
            PROVE  \E i \in DOMAIN line'[ProjectOf[k]] : line'[ProjectOf[k]][i] = k
        <5>1. k # j /\ stage[k] \in {"in", "wait"} /\ ProjectOf[k] \in Projects
          BY <3>1, <3>6, <4>1
        <5>2. PICK i \in DOMAIN line[ProjectOf[k]] : line[ProjectOf[k]][i] = k
          BY <4>1, <5>1 DEF IInv, Lined
        <5>3. CASE ProjectOf[k] # p
          BY <3>4, <5>1, <5>2, <5>3
        <5>4. CASE ProjectOf[k] = p
          <6>1. i \in 1..Len(line[p]) /\ i # 1 /\ line[p][i] = k
            BY <2>2, <2>4, <5>1, <5>2, <5>4
          <6>2. i - 1 \in 1..(Len(line[p]) - 1) /\ (i - 1) + 1 = i
            BY <2>2, <6>1
          <6>3. line'[p][i - 1] = k /\ i - 1 \in DOMAIN line'[p]
            BY <3>3, <3>4, <6>1, <6>2
          <6> QED BY <5>4, <6>3
        <5> QED BY <5>3, <5>4
      <4>2. \A k \in Jobs : stage'[k] = "wait" => ProjectOf[k] # NoProject
        BY <3>6 DEF IInv, Lined
      <4> QED BY <4>1, <4>2 DEF Lined
    <3>10. Waiters' = Waiters \ {n} /\ n \in Waiters
      BY <1>1, <3>1, <3>6 DEF Waiters
    <3>11. \A l \in Lanes : Flight(l)' = Flight(l)
      BY <1>1, <3>1, <3>6 DEF Flight, Flying
    <3>12. waiting' \in Nat /\ Cardinality(Waiters') = waiting'
      BY <3>1, <3>2, <3>10, Small, Counting DEF IInv, Books
    <3>13. cap' \in Nat
      BY <3>2, <3>12, CappedNat DEF IInv, TypeOK
    <3>14. TypeOK'
      BY <1>1, <3>2, <3>4, <3>6, <3>12, <3>13 DEF IInv, TypeOK
    <3>15. Books'
      BY <1>1, <3>2, <3>11, <3>12 DEF IInv, Books
    <3> QED BY <3>7, <3>8, <3>9, <3>14, <3>15 DEF IInv
  <2> QED BY <2>6, <2>7
<1> QED BY <1>4, <1>5

LEMMA FinishInv ==
  ASSUME IInv, NEW j \in Jobs, Finish(j)
  PROVE  IInv'
<1> USE DEF IInv
<1>1. /\ stage[j] = "out" /\ stage' = [stage EXCEPT ![j] = "gone"]
      /\ inFlight' = [inFlight EXCEPT ![Lane(j)] = @ - 1]
      /\ UNCHANGED <<due, starts, tick, found, base, waiting, cap, line, crashes>>
  BY DEF Finish, At, ticks, slots
<1>2. Lane(j) \in Lanes /\ j \in Flight(Lane(j))
  BY <1>1 DEF Flight, Flying, Lane, Lanes
<1>3. /\ Cardinality(Flight(Lane(j))) > 0 /\ inFlight[Lane(j)] \in Nat
      /\ Cardinality(Flight(Lane(j)) \ {j}) = Cardinality(Flight(Lane(j))) - 1
      /\ inFlight[Lane(j)] = Cardinality(Flight(Lane(j)))
  BY <1>2, Small, Counting DEF Books
<1>4. \A l \in Lanes : inFlight'[l] = IF l = Lane(j) THEN inFlight[l] - 1 ELSE inFlight[l]
  BY <1>1, <1>2 DEF TypeOK
<1>5. inFlight' \in [Lanes -> Nat]
  <2>1. inFlight[Lane(j)] - 1 \in Nat
    BY <1>3
  <2> QED BY <1>1, <1>2, <2>1 DEF TypeOK
<1>6. stage' \in [Jobs -> Stages]
  BY <1>1 DEF TypeOK, Stages
<1>7. TypeOK'
  BY <1>1, <1>5, <1>6 DEF TypeOK
<1>8. DueRight' /\ Fresh' /\ FoundRight' /\ InLine' /\ Lined'
  BY <1>1 DEF TypeOK, DueRight, InDue, Fresh, FoundRight, InLine, Lined
<1>9. Waiters' = Waiters
  BY <1>1 DEF TypeOK, Waiters
<1>10. \A l \in Lanes : Flight(l)' = IF l = Lane(j) THEN Flight(l) \ {j} ELSE Flight(l)
  BY <1>1 DEF TypeOK, Flight, Flying
<1>11. Books'
  BY <1>1, <1>3, <1>4, <1>9, <1>10 DEF Books
<1> QED BY <1>7, <1>8, <1>11

LEMMA ResizeInv ==
  ASSUME IInv, NEW n \in Slots, Resize(n)
  PROVE  IInv'
<1> USE DEF IInv
<1>1. /\ UNCHANGED <<stage, due, starts, tick, found, inFlight, line, crashes>>
      /\ base' = n /\ waiting' = waiting /\ cap' = Capped(n + waiting)
  BY DEF Resize, Apply, ticks
<1>2. cap' \in Nat
  BY <1>1, CappedNat DEF TypeOK
<1>3. TypeOK'
  BY <1>1, <1>2 DEF TypeOK
<1>4. DueRight' /\ Fresh' /\ FoundRight' /\ InLine' /\ Lined'
  BY <1>1 DEF DueRight, InDue, Fresh, FoundRight, InLine, Lined
<1>5. Books'
  BY <1>1 DEF Books, Waiters, Flight, Flying
<1> QED BY <1>3, <1>4, <1>5

LEMMA RestartInv ==
  ASSUME IInv, Restart
  PROVE  IInv'
<1> USE DEF IInv
<1>1. /\ stage' = [k \in Jobs |-> IF k \in Flying THEN "gone" ELSE stage[k]]
      /\ tick' = [t \in Ticks |-> Idle] /\ found' = [t \in Ticks |-> None]
      /\ inFlight' = [l \in Lanes |-> 0] /\ line' = [q \in Projects |-> <<>>]
      /\ base' = base /\ waiting' = 0 /\ cap' = Capped(base + 0)
      /\ crashes' = crashes + 1 /\ UNCHANGED <<due, starts>>
  BY DEF Restart, Apply
<1>2. cap' \in Nat /\ Idle \in TickPC
  BY <1>1, CappedNat DEF TypeOK, TickPC, Idle
<1>3. stage' \in [Jobs -> Stages]
  BY <1>1 DEF TypeOK, Stages
<1>4. TypeOK'
  BY <1>1, <1>2, <1>3 DEF TypeOK
<1>5. DueRight' /\ Fresh'
  BY <1>1 DEF TypeOK, DueRight, InDue, Fresh, Flying
<1>6. FoundRight'
  BY <1>1 DEF FoundRight, Idle
<1>7. \A k \in Jobs : stage'[k] \notin {"start", "wait", "in", "out"}
  BY <1>1 DEF Flying
<1>8. InLine' /\ Lined'
  BY <1>1, <1>7 DEF InLine, Lined
<1>9. Waiters' = {} /\ \A l \in Lanes : Flight(l)' = {}
  BY <1>7 DEF Waiters, Flight, Flying
<1>10. Books'
  BY <1>1, <1>9, FS_EmptySet DEF Books
<1> QED BY <1>4, <1>5, <1>6, <1>8, <1>10

LEMMA StepInv == IInv /\ [Next]_vars => IInv'
<1> SUFFICES ASSUME IInv, [Next]_vars PROVE IInv'
  OBVIOUS
<1>1. ASSUME NEW j \in Jobs, Enqueue(j) \/ Remove(j) \/ Acquire(j) \/ Release(j) \/ Finish(j)
      PROVE  IInv'
  BY <1>1, EnqueueInv, RemoveInv, AcquireInv, ReleaseInv, FinishInv
<1>2. ASSUME NEW t \in Ticks, TickStep(t) PROVE IInv'
  BY <1>2, TickStartsInv, FindDueInv, ClaimDueInv DEF TickStep
<1>3. ASSUME NEW n \in Slots, Resize(n) PROVE IInv'
  BY <1>3, ResizeInv
<1>4. CASE Restart
  BY <1>4, RestartInv
<1>5. CASE UNCHANGED vars
  BY <1>5 DEF vars, IInv, TypeOK, DueRight, InDue, Fresh, FoundRight, InLine, Lined,
              Books, Waiters, Flight, Flying
<1> QED BY <1>1, <1>2, <1>3, <1>4, <1>5 DEF Next

\* The invariant holds in every reachable state, for all values of the constants.
THEOREM Inductive == Spec => []IInv
<1>1. Init => IInv
  BY InitInv
<1>2. IInv /\ [Next]_vars => IInv'
  BY StepInv
<1> QED BY <1>1, <1>2, PTL DEF Spec

(***************************************************************************)
(* The theorems.                                                           *)
(***************************************************************************)
\* Every reachable state of the queue, its worker and its locks is well formed.
THEOREM TypeCorrect == Spec => []TypeOK
<1>1. IInv => TypeOK
  BY DEF IInv
<1> QED BY <1>1, Inductive, PTL

\* KeyedMutex and lockProject: whatever jobs, ticks, projects and restarts there
\* are, two calls are never inside one shared project, since a project's line
\* holds exactly the calls that have it or wait for it, the first of them inside.
THEOREM ProjectExclusiveHolds == Spec => []ProjectExclusive
<1>1. IInv => ProjectExclusive
  <2> SUFFICES ASSUME IInv, NEW j \in Jobs, NEW k \in Jobs, j # k,
                      stage[j] = "in", stage[k] = "in",
                      ProjectOf[j] = ProjectOf[k], ProjectOf[j] # NoProject
               PROVE  FALSE
    BY DEF ProjectExclusive, At
  <2> DEFINE p == ProjectOf[j]
  <2>1. p \in Projects
    OBVIOUS
  <2>2. PICK i \in DOMAIN line[p] : line[p][i] = j
    BY DEF IInv, Lined
  <2>3. PICK m \in DOMAIN line[p] : line[p][m] = k
    BY DEF IInv, Lined
  <2>4. i = 1 /\ m = 1
    BY <2>1, <2>2, <2>3 DEF IInv, InLine
  <2> QED BY <2>2, <2>3, <2>4
<1> QED BY <1>1, Inductive, PTL

\* tick, lockProject and applyConcurrency: each lane's counter is the number of
\* its calls in flight and the cap counts exactly the slots lent out, always.
THEOREM SlotsBalanceHolds == Spec => []SlotsBalance
<1>1. IInv => SlotsBalance
  <2> SUFFICES ASSUME IInv PROVE SlotsBalance
    OBVIOUS
  <2>1. \A l \in Lanes : {j \in Flying : Lane(j) = l} = Flight(l)
    BY DEF Flight
  <2>2. {j \in Jobs : At(j, "wait")} = Waiters
    BY DEF Waiters, At
  <2> QED BY <2>1, <2>2 DEF SlotsBalance, IInv, Books
<1> QED BY <1>1, Inductive, PTL

(***************************************************************************)
(* The driver implements the contract of one job.                          *)
(***************************************************************************)
Queued == {j \in Jobs : At(j, "due")}

LEMMA ContractStep == IInv /\ [Next]_vars => [Contract!Next]_(Contract!vars)
<1> SUFFICES ASSUME IInv, [Next]_vars PROVE [Contract!Next]_(Contract!vars)
  OBVIOUS
<1>0. stage \in [Jobs -> Stages] /\ starts \in [Jobs -> Nat]
  BY DEF IInv, TypeOK
<1> USE DEF Queued, Flying, At
<1>1. ASSUME NEW j \in Jobs, Enqueue(j) PROVE Contract!Accept(j)
  <2>1. stage[j] = "new" /\ stage' = [stage EXCEPT ![j] = "due"] /\ starts' = starts
    BY <1>1 DEF Enqueue
  <2>2. Queued' = Queued \cup {j} /\ Flying' = Flying /\ j \notin Queued \cup Flying
    BY <1>0, <2>1
  <2>3. starts[j] = 0
    BY <2>1 DEF IInv, Fresh
  <2> QED BY <2>1, <2>2, <2>3 DEF Contract!Accept
<1>2. ASSUME NEW j \in Jobs, Remove(j) PROVE Contract!Drop({j})
  <2>1. stage[j] = "due"
    BY <1>2 DEF Remove, IInv, DueRight
  <2>2. stage' = [stage EXCEPT ![j] = "gone"] /\ starts' = starts
    BY <1>2 DEF Remove
  <2>3. Queued' = Queued \ {j} /\ Flying' = Flying
    BY <1>0, <2>1, <2>2
  <2> QED BY <2>2, <2>3 DEF Contract!Drop
<1>3. ASSUME NEW j \in Jobs, Acquire(j) \/ Release(j)
      PROVE  UNCHANGED <<Queued, Flying, starts>>
  <2>1. CASE Acquire(j)
    <3>1. /\ stage[j] = "start" /\ starts' = starts
          /\ \E st \in {"in", "wait"} : stage' = [stage EXCEPT ![j] = st]
      BY <2>1 DEF Acquire
    <3> QED BY <1>0, <3>1
  <2>2. CASE Release(j)
    <3>1. stage[j] = "in" /\ starts' = starts
      BY <2>2 DEF Release
    <3>2. \/ stage' = [stage EXCEPT ![j] = "out"]
          \/ \E n \in Jobs : stage[n] = "wait" /\ stage' = [stage EXCEPT ![j] = "out", ![n] = "in"]
      <4> DEFINE p == ProjectOf[j]
      <4>1. CASE p = NoProject \/ Len(line[p]) = 1
        BY <2>2, <4>1 DEF Release
      <4>2. CASE ~(p = NoProject \/ Len(line[p]) = 1)
        <5>1. stage' = [stage EXCEPT ![j] = "out", ![line[p][2]] = "in"]
          BY <2>2, <4>2 DEF Release
        <5>2. p \in Projects /\ line[p] \in Seq(Jobs)
          BY <4>2 DEF IInv, TypeOK
        <5>3. PICK i \in DOMAIN line[p] : line[p][i] = j
          BY <3>1, <4>2 DEF IInv, Lined
        <5>4. 2 \in DOMAIN line[p]
          <6>1. Len(line[p]) \in Nat /\ DOMAIN line[p] = 1..Len(line[p])
            BY <5>2
          <6>2. Len(line[p]) > 0
            BY <5>3, <6>1
          <6> QED BY <4>2, <6>1, <6>2, FromTwo
        <5>5. line[p][2] \in Jobs /\ stage[line[p][2]] = "wait"
          BY <5>2, <5>4 DEF IInv, InLine
        <5> QED BY <5>1, <5>5
      <4> QED BY <4>1, <4>2
    <3> QED BY <1>0, <3>1, <3>2
  <2> QED BY <1>3, <2>1, <2>2
<1>4. ASSUME NEW j \in Jobs, Finish(j) PROVE Contract!End({j})
  <2>1. stage[j] = "out" /\ stage' = [stage EXCEPT ![j] = "gone"] /\ starts' = starts
    BY <1>4 DEF Finish
  <2>2. Queued' = Queued /\ Flying' = Flying \ {j}
    BY <1>0, <2>1
  <2> QED BY <2>1, <2>2 DEF Contract!End
<1>5. ASSUME NEW t \in Ticks, TickStep(t)
      PROVE  (\E j \in Jobs : Contract!Start(j)) \/ UNCHANGED <<Queued, Flying, starts>>
  <2>1. CASE TickStarts(t)
    BY <2>1 DEF TickStarts
  <2>2. ASSUME NEW l \in Lanes, FindDue(t, l) PROVE UNCHANGED <<Queued, Flying, starts>>
    BY <2>2 DEF FindDue
  <2>3. ASSUME NEW l \in Lanes, ClaimDue(t, l)
        PROVE  (\E j \in Jobs : Contract!Start(j)) \/ UNCHANGED <<Queued, Flying, starts>>
    <3>1. found[t] \in Jobs
      BY <2>3 DEF ClaimDue, IInv, FoundRight
    <3>2. CASE InDue(found[t])
      <4>1. stage[found[t]] = "due"
        BY <3>1, <3>2 DEF IInv, DueRight
      <4>2. /\ stage' = [stage EXCEPT ![found[t]] = "start"]
            /\ starts' = [starts EXCEPT ![found[t]] = @ + 1]
        BY <2>3, <3>2 DEF ClaimDue
      <4>3. /\ Queued' = Queued \ {found[t]} /\ Flying' = Flying \cup {found[t]}
            /\ found[t] \in Queued
        BY <1>0, <3>1, <4>1, <4>2
      <4> QED BY <3>1, <4>2, <4>3 DEF Contract!Start
    <3>3. CASE ~InDue(found[t])
      BY <2>3, <3>3 DEF ClaimDue
    <3> QED BY <3>2, <3>3
  <2> QED BY <1>5, <2>1, <2>2, <2>3 DEF TickStep
<1>6. CASE Restart
  <2>1. stage' = [k \in Jobs |-> IF k \in Flying THEN "gone" ELSE stage[k]] /\ starts' = starts
    BY <1>6 DEF Restart
  <2>2. Queued' = Queued /\ Flying' = Flying \ Jobs
    BY <1>0, <2>1
  <2> QED BY <2>1, <2>2 DEF Contract!End, Contract!Next
<1>7. CASE \E n \in Slots : Resize(n)
  BY <1>7 DEF Resize, Contract!vars
<1>8. CASE UNCHANGED vars
  BY <1>8 DEF vars, Contract!vars
<1>9. \A j \in Jobs : {j} \in SUBSET Jobs
  OBVIOUS
<1> QED BY <1>1, <1>2, <1>3, <1>4, <1>5, <1>6, <1>7, <1>8, <1>9
        DEF Next, Contract!Next, Contract!vars

\* claimNext and start: the embedded queue implements the contract of one
\* attempt (queue.constants.ts) for any number of jobs, ticks and restarts: a
\* row that two ticks found is started by one of them only, because claiming it
\* counts the unclaimed rows, and no step brings a started job back.
THEOREM OneAttemptHolds == Spec => OneAttempt
<1>1. Init => Contract!Init
  BY DEF Init, Contract!Init, Flying, At
<1>2. IInv /\ [Next]_vars => [Contract!Next]_(Contract!vars)
  BY ContractStep
<1> QED BY <1>1, <1>2, Inductive, PTL DEF Spec, OneAttempt, Contract!Spec
============================================================================
