------------------------- MODULE ScheduleRunsProofs -------------------------
(***************************************************************************)
(* Theorems about ScheduleRuns, for any schedules, servers, calls, edits,  *)
(* stops and any cron: the types, that each time is carried out once and   *)
(* in order, that a run is of the schedule as it stands when it is claimed, *)
(* and that a script is alone on its server.                               *)
(***************************************************************************)
EXTENDS ScheduleRuns, FiniteSetTheorems, TLAPS

\* What a tick has read was due then, and its time is not behind the clock.
ListDue ==
  \A v \in Servers : /\ now[v] <= clock
                     /\ \A i \in DOMAIN due[v] : due[v][i].next \in 1 .. now[v]

\* A row that still has the time at which a tick has read it is as it was
\* read; one that was written since has a later time or none.
AsRead(r) ==
  LET x == row[r.id]
  IN  x.life = "live" =>
        \/ x.next = Never
        \/ x.next > r.next
        \/ x.next = r.next /\ (r.id \in Broken \/ (x.enabled /\ x.conf = r.conf))

ListAsRead == \A v \in Servers : \A i \in DOMAIN due[v] : AsRead(due[v][i])

\* The next time of a row is later than all that were carried out.
Ahead ==
  \A s \in Schedules :
    /\ claimed[s] <= clock
    /\ row[s].life = "live" => row[s].next = Never \/ row[s].next > claimed[s]

IInv == TypeOK /\ ListDue /\ ListAsRead /\ Ahead /\ ScriptAlone

Ats  == {"idle", "list", "missed", "run", "script", "link", "off"}
Row  == [life : {"new", "live", "gone"}, conf : Confs, enabled : BOOLEAN,
         next : Nat, task : Confs \cup {None}]

USE ScheduleAssumption DEF ScheduleAssumption

LEMMA HostType == \A p \in Procs : Host(p) \in Servers
BY DEF Procs, Host

LEMMA NoRowApart == ASSUME NEW r \in Rows PROVE r # NoRow
<1>1. r = [id |-> r.id, conf |-> r.conf, next |-> r.next, task |-> r.task]
  BY DEF Rows
<1>2. DOMAIN r = {"id", "conf", "next", "task"} /\ DOMAIN NoRow = {"id"}
  BY <1>1 DEF NoRow
<1>3. "conf" \in DOMAIN r /\ "conf" \notin DOMAIN NoRow
  BY <1>2
<1> QED BY <1>3

\* The lists that a tick may read are short lists of rows as they are.
LEMMA DueListsType ==
  ASSUME TypeOK, NEW q \in DueLists
  PROVE  /\ q \in Seq(Rows) /\ Len(q) <= Take
         /\ \A i \in DOMAIN q : \E s \in Schedules : Due(s) /\ q[i] = Read(s)
<1> DEFINE D == {s \in Schedules : Due(s)}
           n == IF Cardinality(D) < Take THEN Cardinality(D) ELSE Take
<1>1. n \in Nat /\ n <= Take
  <2>1. IsFiniteSet(D)
    BY FS_Subset
  <2>2. Cardinality(D) \in Nat
    BY <2>1, FS_CardinalityType
  <2> QED BY <2>2
<1>2. q \in [1 .. n -> {Read(s) : s \in D}]
  BY DEF DueLists
<1>3. {Read(s) : s \in D} \subseteq Rows
  BY DEF TypeOK, Read, Rows
<1> HIDE DEF D, n
<1>4. q \in Seq(Rows) /\ Len(q) = n /\ DOMAIN q = 1 .. n
  BY <1>1, <1>2, <1>3
<1> QED BY <1>1, <1>2, <1>4 DEF D

LEMMA InitInv == Init => IInv
<1> SUFFICES ASSUME Init PROVE IInv
  OBVIOUS
<1>1. TypeOK
  <2>1. row \in [Schedules -> Row]
    <3>1. ASSUME NEW s \in Schedules PROVE row[s] \in Row
      <4>1. row[s] \in [life : {"new"}, conf : Confs, enabled : {FALSE}, next : {0}, task : {None}]
        BY DEF Init, Never
      <4>2. PICK c \in Confs : row[s] = [life |-> "new", conf |-> c, enabled |-> FALSE,
                                        next |-> 0, task |-> None]
        BY <4>1
      <4> QED BY <4>2 DEF Row
    <3> QED BY <3>1 DEF Init
  <2>2. /\ clock \in 0 .. MaxClock /\ stops \in 0 .. MaxStops
        /\ since \in [Procs -> 0 .. MaxClock] /\ at \in [Procs -> Ats]
        /\ now \in [Servers -> 0 .. MaxClock]
        /\ claimed \in [Schedules -> Nat]
    BY DEF Init, Never, Ats
  <2>3. /\ cur \in [Procs -> Rows \cup {NoRow}]
        /\ \A p \in Procs : cur[p] = NoRow /\ at[p] = "idle"
        /\ scripts \in [Servers -> SUBSET Schedules]
        /\ draft \in [Editors -> [id : Schedules, conf : Confs] \cup {NoRow}]
    BY DEF Init
  <2>4. /\ due \in [Servers -> Seq(Rows)]
        /\ \A v \in Servers : due[v] = <<>> /\ Len(due[v]) = 0
    BY DEF Init
  <2> QED BY <2>1, <2>2, <2>3, <2>4 DEF TypeOK, Row, Ats
<1>2. ListDue /\ ListAsRead
  <2>1. \A v \in Servers : now[v] = clock /\ DOMAIN due[v] = {}
    BY DEF Init
  <2> QED BY <1>1, <2>1 DEF ListDue, ListAsRead, TypeOK
<1>3. Ahead
  <2>1. \A s \in Schedules : row[s].life = "new" /\ claimed[s] = 0 /\ clock = 0
    BY DEF Init, Never
  <2> QED BY <2>1 DEF Ahead
<1>4. ScriptAlone
  BY HostType DEF Init, ScriptAlone, RunsScript
<1> QED BY <1>1, <1>2, <1>3, <1>4 DEF IInv

-----------------------------------------------------------------------------
\* What a step may do to a row: nothing that the claim looks at, or a later
\* time, or none.
Fits(s, o, x) ==
  x.life = "live" =>
    \/ x.next = Never
    \/ x.next > clock
    \/ /\ o.life = "live" /\ x.next = o.next /\ x.conf = o.conf
       /\ x.enabled = o.enabled \/ s \in Broken
    \/ o.life = "live" /\ o.next # Never /\ x.next > o.next

RowStep(s) == Fits(s, row[s], row'[s])

\* What a step may do to a list: nothing, take the first, or drop it.
ListStep(v) ==
  \/ due'[v] = due[v] /\ now'[v] = now[v]
  \/ due[v] # <<>> /\ due'[v] = Tail(due[v]) /\ now'[v] = now[v]
  \/ due'[v] = <<>> /\ now'[v] \in {now[v], 0}

LEMMA ListsKept ==
  ASSUME IInv, clock' \in Nat, clock' >= clock,
         \A s \in Schedules : RowStep(s) /\ row'[s].next \in Nat,
         \A v \in Servers : ListStep(v)
  PROVE  ListDue' /\ ListAsRead'
<1> USE DEF IInv
<1>1. ASSUME NEW v \in Servers
      PROVE  /\ now'[v] <= clock' /\ now'[v] \in Nat
             /\ \A i \in DOMAIN due'[v] :
                  /\ now'[v] = now[v]
                  /\ \E j \in DOMAIN due[v] : due'[v][i] = due[v][j]
  <2>1. now[v] \in Nat /\ clock \in Nat /\ now[v] <= clock /\ due[v] \in Seq(Rows)
    BY DEF TypeOK, ListDue
  <2>2. ListStep(v)
    OBVIOUS
  <2>3. CASE due'[v] = due[v] /\ now'[v] = now[v]
    BY <2>1, <2>3
  <2>4. CASE due[v] # <<>> /\ due'[v] = Tail(due[v]) /\ now'[v] = now[v]
    <3>1. \A i \in DOMAIN due'[v] : i + 1 \in DOMAIN due[v] /\ due'[v][i] = due[v][i + 1]
      BY <2>1, <2>4
    <3> QED BY <2>1, <2>4, <3>1
  <2>5. CASE due'[v] = <<>> /\ now'[v] \in {now[v], 0}
    <3>1. DOMAIN due'[v] = {}
      BY <2>5
    <3> QED BY <2>1, <2>5, <3>1
  <2> QED BY <2>2, <2>3, <2>4, <2>5 DEF ListStep
<1>2. ListDue'
  BY <1>1 DEF ListDue
<1>3. ASSUME NEW r \in Rows, r.next \in 1 .. clock, AsRead(r)
      PROVE  AsRead(r)'
  <2>1. r.id \in Schedules /\ r.next \in Nat /\ r.next # Never /\ clock \in Nat
        /\ r.next <= clock
    BY <1>3 DEF TypeOK, Rows, Never
  <2>2. RowStep(r.id)
    BY <2>1
  <2>3. row[r.id].next \in Nat /\ row'[r.id].next \in Nat
    BY <2>1 DEF TypeOK
  <2> QED BY <1>3, <2>1, <2>2, <2>3 DEF AsRead, RowStep, Fits, Never
<1>4. ListAsRead'
  <2> SUFFICES ASSUME NEW v \in Servers', NEW i \in DOMAIN due'[v]
               PROVE  AsRead(due[v][i])'
    BY DEF ListAsRead
  <2>1. PICK j \in DOMAIN due[v] : due'[v][i] = due[v][j]
    BY <1>1
  <2>2. due[v][j] \in Rows
    BY DEF TypeOK
  <2>3. due[v][j].next \in 1 .. clock
    BY DEF ListDue, TypeOK
  <2>4. AsRead(due[v][j])
    BY DEF ListAsRead
  <2> QED BY <1>3, <2>1, <2>2, <2>3, <2>4 DEF AsRead
<1> QED BY <1>2, <1>4

LEMMA AheadKept ==
  ASSUME IInv, clock' \in Nat, clock' >= clock, UNCHANGED claimed,
         \A s \in Schedules : RowStep(s) /\ row'[s].next \in Nat
  PROVE  Ahead'
<1> SUFFICES ASSUME NEW s \in Schedules
             PROVE  /\ claimed'[s] <= clock'
                    /\ row'[s].life = "live" => \/ row'[s].next = Never
                                                \/ row'[s].next > claimed'[s]
  BY DEF Ahead
<1>1. /\ claimed[s] \in Nat /\ clock \in Nat /\ claimed[s] <= clock
      /\ row[s].next \in Nat /\ row'[s].next \in Nat
  BY DEF IInv, TypeOK, Ahead
<1>2. row[s].life = "live" => row[s].next = Never \/ row[s].next > claimed[s]
  BY DEF IInv, Ahead
<1>3. RowStep(s)
  OBVIOUS
<1> QED BY <1>1, <1>2, <1>3 DEF RowStep, Fits, Never

\* Nothing is done to rows and lists.
LEMMA TimesKept ==
  ASSUME IInv, UNCHANGED <<clock, row, claimed>>, \A v \in Servers : ListStep(v)
  PROVE  ListDue' /\ ListAsRead' /\ Ahead'
<1>1. clock' \in Nat /\ clock' >= clock
  BY DEF IInv, TypeOK
<1>2. \A s \in Schedules : RowStep(s)
  BY DEF RowStep, Fits
<1>3. \A s \in Schedules : row'[s].next \in Nat
  BY DEF IInv, TypeOK
<1> QED BY <1>1, <1>2, <1>3, ListsKept, AheadKept

\* No script begins or ends.
LEMMA ScriptsKept ==
  ASSUME IInv, UNCHANGED scripts,
         \A p \in Procs : /\ at[p] = "script" <=> at'[p] = "script"
                          /\ at[p] = "script" => cur'[p] = cur[p]
  PROVE  ScriptAlone'
<1>1. \A p \in Procs, v \in Servers, s \in Schedules : RunsScript(p, v, s)' <=> RunsScript(p, v, s)
  BY DEF RunsScript
<1>2. ASSUME NEW v \in Servers, NEW s \in scripts'[v]
      PROVE  \E p \in Procs : RunsScript(p, v, s)'
  BY <1>1 DEF IInv, ScriptAlone, TypeOK
<1>3. ASSUME NEW p \in Procs, NEW q \in Procs, NEW s \in Schedules
      PROVE  /\ RunsScript(p, Host(p), s)' => s \in scripts'[Host(p)]
             /\ RunsScript(p, Host(p), s)' /\ RunsScript(q, Host(p), s)' => p = q
  BY <1>1, HostType DEF IInv, ScriptAlone
<1> QED BY <1>2, <1>3 DEF ScriptAlone

-----------------------------------------------------------------------------
LEMMA AdvanceInv == ASSUME IInv, Advance PROVE IInv'
<1> USE DEF Advance
<1>1. TypeOK'
  BY DEF IInv, TypeOK
<1>2. clock \in Nat /\ clock' \in Nat /\ clock' >= clock
  BY DEF IInv, TypeOK
<1>3. \A s \in Schedules : RowStep(s) /\ row'[s].next \in Nat
  BY DEF RowStep, Fits, IInv, TypeOK
<1>4. \A v \in Servers : ListStep(v)
  BY DEF ListStep
<1>5. ListDue' /\ ListAsRead' /\ Ahead'
  BY <1>2, <1>3, <1>4, ListsKept, AheadKept
<1>6. ScriptAlone'
  BY ScriptsKept
<1> QED BY <1>1, <1>5, <1>6 DEF IInv

\* The steps of a process that leave rows and scripts alone.
LEMMA MoveInv ==
  ASSUME IInv, NEW p \in Procs, at[p] # "script",
         UNCHANGED <<clock, row, since, scripts, claimed, stops>>,
         draft' \in [Editors -> [id : Schedules, conf : Confs] \cup {NoRow}],
         NEW a \in Ats \ {"script"}, at' = [at EXCEPT ![p] = a],
         NEW c \in Rows \cup {NoRow}, cur' = [cur EXCEPT ![p] = c],
         c = NoRow <=> a \in {"idle", "list", "off"},
         \A v \in Servers : ListStep(v) /\ (v # p => due'[v] = due[v]),
         due' \in [Servers -> Seq(Rows)], now' \in [Servers -> 0 .. MaxClock],
         p \in Servers => (a \in {"idle", "off"} => due'[p] = <<>>)
  PROVE  IInv'
<1>1. TypeOK'
  <2>1. /\ at' \in [Procs -> Ats] /\ cur' \in [Procs -> Rows \cup {NoRow}]
        /\ \A x \in Procs : cur'[x] = NoRow <=> at'[x] \in {"idle", "list", "off"}
    BY DEF IInv, TypeOK, Ats
  <2>2. ASSUME NEW v \in Servers
        PROVE  /\ Len(due'[v]) <= Take
               /\ due'[v] # <<>> => at'[v] \notin {"idle", "off"}
    <3>1. due[v] \in Seq(Rows) /\ Len(due[v]) <= Take /\ Take \in Nat /\ v \in Procs
      BY DEF IInv, TypeOK, Procs
    <3>2. Len(due'[v]) <= Take
      BY <3>1 DEF ListStep
    <3>3. due'[v] # <<>> => due[v] # <<>>
      BY <3>1 DEF ListStep
    <3>4. due'[v] # <<>> => at'[v] \notin {"idle", "off"}
      BY <3>1, <3>3 DEF IInv, TypeOK
    <3> QED BY <3>2, <3>4
  <2> QED BY <2>1, <2>2 DEF IInv, TypeOK, Ats
<1>2. ListDue' /\ ListAsRead' /\ Ahead'
  BY TimesKept
<1>3. ScriptAlone'
  BY ScriptsKept DEF IInv, TypeOK
<1> QED BY <1>1, <1>2, <1>3 DEF IInv

LEMMA DoneInv ==
  ASSUME IInv, NEW p \in Procs, at[p] \in {"missed", "run"}, Done(p),
         UNCHANGED <<clock, row, since, due, now, scripts, draft, claimed, stops>>
  PROVE  IInv'
<1> DEFINE a == IF p \in Servers THEN "list" ELSE "idle"
<1>1. /\ a \in Ats \ {"script"} /\ at' = [at EXCEPT ![p] = a]
      /\ cur' = [cur EXCEPT ![p] = NoRow] /\ a \in {"idle", "list", "off"}
      /\ at[p] # "script"
  BY DEF Done, Ats
<1>2. p \in Servers => a = "list"
  OBVIOUS
<1>3. \A v \in Servers : ListStep(v) /\ due'[v] = due[v]
  BY DEF ListStep
<1>4. /\ draft' \in [Editors -> [id : Schedules, conf : Confs] \cup {NoRow}]
      /\ due' \in [Servers -> Seq(Rows)] /\ now' \in [Servers -> 0 .. MaxClock]
  BY DEF IInv, TypeOK
<1> HIDE DEF a
<1> QED BY <1>1, <1>2, <1>3, <1>4, MoveInv

LEMMA TickOverInv ==
  ASSUME IInv, NEW v \in Servers, at[v] \in {"list", "missed"}, TickOver(v),
         UNCHANGED <<clock, row, since, scripts, draft, claimed, stops>>
  PROVE  IInv'
<1>1. /\ "idle" \in Ats \ {"script"} /\ at' = [at EXCEPT ![v] = "idle"]
      /\ cur' = [cur EXCEPT ![v] = NoRow] /\ v \in Procs /\ at[v] # "script"
  BY DEF TickOver, Ats, Procs
<1>2. /\ due' \in [Servers -> Seq(Rows)] /\ now' \in [Servers -> 0 .. MaxClock]
      /\ draft' \in [Editors -> [id : Schedules, conf : Confs] \cup {NoRow}]
  BY DEF TickOver, IInv, TypeOK
<1>3. \A w \in Servers : ListStep(w) /\ (w # v => due'[w] = due[w])
  BY DEF TickOver, ListStep, IInv, TypeOK
<1>4. due'[v] = <<>>
  BY DEF TickOver, IInv, TypeOK
<1> QED BY <1>1, <1>2, <1>3, <1>4, MoveInv

LEMMA PassOverInv == ASSUME IInv, NEW v \in Servers, PassOver(v) PROVE IInv'
<1>1. /\ at' = [at EXCEPT ![v] = "list"] /\ cur' = [cur EXCEPT ![v] = NoRow]
      /\ v \in Procs /\ at[v] # "script" /\ "list" \in Ats \ {"script"}
  BY DEF PassOver, IInv, TypeOK, Procs, Ats
<1>2. /\ due' \in [Servers -> Seq(Rows)] /\ now' \in [Servers -> 0 .. MaxClock]
      /\ draft' \in [Editors -> [id : Schedules, conf : Confs] \cup {NoRow}]
  <2>1. due[v] \in Seq(Rows) /\ due[v] # <<>>
    BY DEF PassOver, IInv, TypeOK
  <2>2. Tail(due[v]) \in Seq(Rows)
    BY <2>1
  <2> QED BY <2>2 DEF PassOver, IInv, TypeOK
<1>3. \A w \in Servers : ListStep(w) /\ (w # v => due'[w] = due[w])
  BY DEF PassOver, ListStep, IInv, TypeOK
<1>4. UNCHANGED <<clock, row, since, scripts, claimed, stops>>
  BY DEF PassOver
<1> QED BY <1>1, <1>2, <1>3, <1>4, MoveInv

LEMMA TickEndInv == ASSUME IInv, NEW v \in Servers, TickEnd(v) PROVE IInv'
BY TickOverInv DEF TickEnd

LEMMA RecordMissedInv == ASSUME IInv, NEW v \in Servers, RecordMissed(v) PROVE IInv'
<1>1. CASE row[cur[v].id].life = "live"
  BY <1>1, DoneInv DEF RecordMissed, Procs
<1>2. CASE row[cur[v].id].life # "live"
  BY <1>2, TickOverInv DEF RecordMissed
<1> QED BY <1>1, <1>2

LEMMA SettleInv ==
  ASSUME IInv, NEW p \in Procs, Settle(p) \/ SkipScript(p) \/ FollowUp(p)
  PROVE  IInv'
BY DoneInv DEF Settle, SkipScript, FollowUp

LEMMA StartTaskInv == ASSUME IInv, NEW p \in Procs, StartTask(p) PROVE IInv'
<1>1. /\ at' = [at EXCEPT ![p] = "link"] /\ cur' = [cur EXCEPT ![p] = cur[p]]
      /\ at[p] = "run" /\ "link" \in Ats \ {"script"}
  BY DEF StartTask, IInv, TypeOK, Ats
<1>2. /\ cur[p] \in Rows \cup {NoRow}
      /\ cur[p] # NoRow /\ "link" \notin {"idle", "list", "off"}
  BY <1>1 DEF IInv, TypeOK
<1>3. /\ due' \in [Servers -> Seq(Rows)] /\ now' \in [Servers -> 0 .. MaxClock]
      /\ draft' \in [Editors -> [id : Schedules, conf : Confs] \cup {NoRow}]
  BY DEF StartTask, IInv, TypeOK
<1>4. \A w \in Servers : ListStep(w) /\ due'[w] = due[w]
  BY DEF StartTask, ListStep
<1>5. UNCHANGED <<clock, row, since, scripts, claimed, stops>>
  BY DEF StartTask
<1> QED BY <1>1, <1>2, <1>3, <1>4, <1>5, MoveInv

LEMMA RunNowInv == ASSUME IInv, NEW c \in Calls, RunNow(c) PROVE IInv'
<1>1. PICK s \in Schedules : cur' = [cur EXCEPT ![c] = [Read(s) EXCEPT !.next = Never]]
  BY DEF RunNow
<1>2. [Read(s) EXCEPT !.next = Never] \in Rows
  BY DEF Read, Rows, Never, IInv, TypeOK
<1>3. [Read(s) EXCEPT !.next = Never] # NoRow /\ "run" \notin {"idle", "list", "off"}
  BY DEF Read, NoRow
<1>4. /\ at' = [at EXCEPT ![c] = "run"] /\ at[c] = "idle" /\ "run" \in Ats \ {"script"}
      /\ c \in Procs /\ c \notin Servers
  BY DEF RunNow, Ats, Procs
<1>5. /\ due' \in [Servers -> Seq(Rows)] /\ now' \in [Servers -> 0 .. MaxClock]
      /\ draft' \in [Editors -> [id : Schedules, conf : Confs] \cup {NoRow}]
  BY DEF RunNow, IInv, TypeOK
<1>6. \A w \in Servers : ListStep(w) /\ due'[w] = due[w]
  BY DEF RunNow, ListStep
<1>7. UNCHANGED <<clock, row, since, scripts, claimed, stops>>
  BY DEF RunNow
<1> DEFINE c2 == [Read(s) EXCEPT !.next = Never]
<1> HIDE DEF c2
<1> QED BY <1>1, <1>2, <1>3, <1>4, <1>5, <1>6, <1>7, MoveInv DEF c2

-----------------------------------------------------------------------------
\* What is written to a row, while processes and scripts stay where they are
\* or one of them leaves its link.
LEMMA WriteInv ==
  ASSUME IInv, UNCHANGED <<clock, since, due, now, scripts, claimed, stops>>,
         row' \in [Schedules -> Row], \A s \in Schedules : RowStep(s),
         draft' \in [Editors -> [id : Schedules, conf : Confs] \cup {NoRow}],
         UNCHANGED <<at, cur>> \/ \E p \in Procs : at[p] = "link" /\ Done(p)
  PROVE  IInv'
<1>1. /\ at' \in [Procs -> Ats] /\ cur' \in [Procs -> Rows \cup {NoRow}]
      /\ \A x \in Procs : cur'[x] = NoRow <=> at'[x] \in {"idle", "list", "off"}
      /\ \A x \in Procs : at'[x] = at[x] \/ (at[x] = "link" /\ at'[x] \in {"list", "idle"})
      /\ \A x \in Servers : at'[x] = at[x] \/ at'[x] = "list"
      /\ \A x \in Procs : at[x] = "script" => cur'[x] = cur[x]
  <2>1. CASE UNCHANGED <<at, cur>>
    BY <2>1 DEF IInv, TypeOK, Ats
  <2>2. ASSUME NEW p \in Procs, at[p] = "link", Done(p)
        PROVE  <1>1!:
    <3> DEFINE a == IF p \in Servers THEN "list" ELSE "idle"
    <3>1. /\ a \in {"list", "idle"} /\ a \in Ats
          /\ p \in Servers => a = "list"
      BY DEF Ats
    <3>2. at' = [at EXCEPT ![p] = a] /\ cur' = [cur EXCEPT ![p] = NoRow]
      BY <2>2 DEF Done
    <3> HIDE DEF a
    <3>3. at \in [Procs -> Ats] /\ cur \in [Procs -> Rows \cup {NoRow}] /\ Servers \subseteq Procs
      BY DEF IInv, TypeOK, Ats, Procs
    <3>4. /\ at' \in [Procs -> Ats] /\ cur' \in [Procs -> Rows \cup {NoRow}]
          /\ at'[p] = a /\ cur'[p] = NoRow
          /\ \A x \in Procs \ {p} : at'[x] = at[x] /\ cur'[x] = cur[x]
      BY <3>1, <3>2, <3>3
    <3>5. \A x \in Procs : cur'[x] = NoRow <=> at'[x] \in {"idle", "list", "off"}
      BY <3>1, <3>4 DEF IInv, TypeOK
    <3> QED BY <2>2, <3>1, <3>3, <3>4, <3>5
  <2> QED BY <2>1, <2>2
<1>2. TypeOK'
  <2>1. \A v \in Servers : /\ Len(due'[v]) <= Take
                           /\ due'[v] # <<>> => at'[v] \notin {"idle", "off"}
    BY <1>1 DEF IInv, TypeOK
  <2> QED BY <1>1, <2>1 DEF IInv, TypeOK, Row, Ats
<1>3. ListDue' /\ ListAsRead' /\ Ahead'
  <2>1. clock' \in Nat /\ clock' >= clock
    BY DEF IInv, TypeOK
  <2>2. \A s \in Schedules : row'[s].next \in Nat
    BY DEF Row
  <2>3. \A v \in Servers : ListStep(v)
    BY DEF ListStep
  <2> QED BY <2>1, <2>2, <2>3, ListsKept, AheadKept
<1>4. ScriptAlone'
  BY <1>1, ScriptsKept
<1> QED BY <1>2, <1>3, <1>4 DEF IInv

LEMMA RowType == ASSUME TypeOK PROVE row \in [Schedules -> Row]
BY DEF TypeOK, Row

\* The next time counted from the clock is a time after it.
LEMMA NextRunLater ==
  ASSUME NEW s \in Schedules, NEW t \in 0 .. MaxClock
  PROVE  NextRun[s][t] \in Nat /\ NextRun[s][t] > t
OBVIOUS

LEMMA OneRow ==
  ASSUME IInv, NEW s \in Schedules, NEW x \in Row, row' = [row EXCEPT ![s] = x],
         Fits(s, row[s], x)
  PROVE  row' \in [Schedules -> Row] /\ \A z \in Schedules : RowStep(z)
<1>1. row \in [Schedules -> Row]
  BY RowType DEF IInv
<1>2. row' \in [Schedules -> Row] /\ row'[s] = x
  BY <1>1
<1>3. \A z \in Schedules \ {s} : row'[z] = row[z]
  BY <1>1
<1>4. ASSUME NEW z \in Schedules \ {s} PROVE RowStep(z)
  BY <1>3 DEF RowStep, Fits
<1> QED BY <1>2, <1>4 DEF RowStep

LEMMA LinkInv == ASSUME IInv, NEW p \in Procs, Link(p) PROVE IInv'
<1> DEFINE s == cur[p].id
           k == IF row[s].life = "live" THEN cur[p].conf ELSE row[s].task
           x == [row[s] EXCEPT !.task = k]
<1>1. cur[p] \in Rows
  BY DEF Link, IInv, TypeOK
<1>2. s \in Schedules /\ k \in Confs \cup {None} /\ row[s] \in Row
  BY <1>1, RowType DEF Rows, IInv, Row
<1>3. x \in Row /\ Fits(s, row[s], x)
  <2> HIDE DEF k
  <2> QED BY <1>2 DEF Row, Fits
<1>4. row' = [row EXCEPT ![s] = x]
  BY DEF Link
<1>5. draft' \in [Editors -> [id : Schedules, conf : Confs] \cup {NoRow}]
  BY DEF Link, IInv, TypeOK
<1>6. /\ UNCHANGED <<clock, since, due, now, scripts, claimed, stops>>
      /\ at[p] = "link" /\ Done(p)
  BY DEF Link
<1> HIDE DEF s, x
<1> QED BY <1>2, <1>3, <1>4, <1>5, <1>6, OneRow, WriteInv

LEMMA CreateInv == ASSUME IInv, NEW s \in Schedules, Create(s) PROVE IInv'
<1>1. PICK c \in Confs, on \in BOOLEAN :
        row' = [row EXCEPT ![s] = [life |-> "live", conf |-> c, enabled |-> on,
                                   next |-> NextRun[s][clock], task |-> None]]
  BY DEF Create
<1>2. NextRun[s][clock] \in Nat /\ NextRun[s][clock] > clock
  BY NextRunLater DEF IInv, TypeOK
<1> DEFINE x == [life |-> "live", conf |-> c, enabled |-> on,
                 next |-> NextRun[s][clock], task |-> None]
<1>3. x \in Row /\ Fits(s, row[s], x)
  BY <1>2 DEF Row, Fits
<1>4. draft' \in [Editors -> [id : Schedules, conf : Confs] \cup {NoRow}]
  BY DEF Create, IInv, TypeOK
<1>5. UNCHANGED <<clock, at, cur, since, due, now, scripts, claimed, stops>>
  BY DEF Create
<1>6. row' = [row EXCEPT ![s] = x]
  BY <1>1
<1> HIDE DEF x
<1> QED BY <1>3, <1>4, <1>5, <1>6, OneRow, WriteInv

LEMMA RemoveInv == ASSUME IInv, NEW s \in Schedules, Remove(s) PROVE IInv'
<1> DEFINE x == [life |-> "gone", conf |-> row[s].conf, enabled |-> FALSE,
                 next |-> Never, task |-> None]
<1>1. row[s] \in Row
  BY RowType DEF IInv
<1>2. x \in Row /\ Fits(s, row[s], x)
  BY <1>1 DEF Row, Fits, Never
<1>3. draft' \in [Editors -> [id : Schedules, conf : Confs] \cup {NoRow}]
  BY DEF Remove, IInv, TypeOK
<1>4. UNCHANGED <<clock, at, cur, since, due, now, scripts, claimed, stops>>
  BY DEF Remove
<1>5. row' = [row EXCEPT ![s] = x]
  BY DEF Remove
<1> HIDE DEF x
<1> QED BY <1>2, <1>3, <1>4, <1>5, OneRow, WriteInv

LEMMA DropTaskInv == ASSUME IInv, NEW s \in Schedules, DropTask(s) PROVE IInv'
<1> DEFINE x == [row[s] EXCEPT !.task = None]
<1>1. row[s] \in Row
  BY RowType DEF IInv
<1>2. x \in Row /\ Fits(s, row[s], x)
  BY <1>1 DEF Row, Fits
<1>3. draft' \in [Editors -> [id : Schedules, conf : Confs] \cup {NoRow}]
  BY DEF DropTask, IInv, TypeOK
<1>4. UNCHANGED <<clock, at, cur, since, due, now, scripts, claimed, stops>>
  BY DEF DropTask
<1>5. row' = [row EXCEPT ![s] = x]
  BY DEF DropTask
<1> HIDE DEF x
<1> QED BY <1>2, <1>3, <1>4, <1>5, OneRow, WriteInv

LEMMA OpenInv == ASSUME IInv, NEW e \in Editors, Open(e) PROVE IInv'
<1>1. draft' \in [Editors -> [id : Schedules, conf : Confs] \cup {NoRow}]
  <2>1. PICK s \in Schedules : draft' = [draft EXCEPT ![e] = [id |-> s, conf |-> row[s].conf]]
    BY DEF Open
  <2>2. [id |-> s, conf |-> row[s].conf] \in [id : Schedules, conf : Confs]
    BY DEF IInv, TypeOK
  <2> QED BY <2>1, <2>2 DEF IInv, TypeOK
<1>2. UNCHANGED <<clock, row, at, cur, since, due, now, scripts, claimed, stops>>
  BY DEF Open
<1>3. row' \in [Schedules -> Row] /\ \A s \in Schedules : RowStep(s)
  BY <1>2, RowType DEF IInv, RowStep, Fits
<1> QED BY <1>1, <1>2, <1>3, WriteInv

LEMMA SaveInv == ASSUME IInv, NEW e \in Editors, Save(e) PROVE IInv'
<1> DEFINE s == draft[e].id
<1>1. /\ draft[e] \in [id : Schedules, conf : Confs] \/ draft[e] = NoRow
      /\ draft[e] # NoRow
      /\ UNCHANGED <<clock, at, cur, since, due, now, scripts, claimed, stops>>
  BY DEF Save, IInv, TypeOK
<1>2. s \in Schedules
  BY <1>1
<1>3. draft' \in [Editors -> [id : Schedules, conf : Confs] \cup {NoRow}]
  BY DEF Save, IInv, TypeOK
<1>4. row' \in [Schedules -> Row] /\ \A z \in Schedules : RowStep(z)
  <2>1. CASE UNCHANGED row
    BY <2>1, RowType DEF IInv, RowStep, Fits
  <2>2. ASSUME NEW c \in Confs, NEW on \in BOOLEAN,
               row' = [row EXCEPT ![s] =
                 [life |-> "live", conf |-> c, enabled |-> on,
                  next |-> IF on THEN NextRun[s][clock] ELSE Never,
                  task |-> IF c # draft[e].conf THEN None ELSE @.task]]
        PROVE  <1>4!:
    <3> DEFINE n == IF on THEN NextRun[s][clock] ELSE Never
               k == IF c # draft[e].conf THEN None ELSE row[s].task
               x == [life |-> "live", conf |-> c, enabled |-> on, next |-> n, task |-> k]
    <3>1. n \in Nat /\ (n = Never \/ n > clock)
      <4>1. NextRun[s][clock] \in Nat /\ NextRun[s][clock] > clock
        BY <1>2, NextRunLater DEF IInv, TypeOK
      <4> QED BY <4>1 DEF Never
    <3>2. k \in Confs \cup {None}
      BY <1>2 DEF IInv, TypeOK
    <3>3. row' = [row EXCEPT ![s] = x]
      BY <2>2
    <3>4. x \in Row /\ Fits(s, row[s], x)
      <4> HIDE DEF n, k
      <4> QED BY <3>1, <3>2 DEF Row, Fits
    <3> HIDE DEF s, x
    <3> QED BY <1>2, <3>3, <3>4, OneRow
  <2> QED BY <2>1, <2>2 DEF Save
<1> QED BY <1>1, <1>3, <1>4, WriteInv

LEMMA BootInv == ASSUME IInv, NEW v \in Servers, Boot(v) PROVE IInv'
<1>1. /\ at' = [at EXCEPT ![v] = "idle"] /\ cur' = [cur EXCEPT ![v] = NoRow]
      /\ v \in Procs /\ at[v] # "script" /\ "idle" \in Ats \ {"script"}
  BY DEF Boot, IInv, TypeOK, Procs, Ats
<1>2. /\ due' \in [Servers -> Seq(Rows)] /\ now' \in [Servers -> 0 .. MaxClock]
      /\ draft' \in [Editors -> [id : Schedules, conf : Confs] \cup {NoRow}]
  BY DEF Boot, IInv, TypeOK
<1>3. \A w \in Servers : ListStep(w) /\ due'[w] = due[w]
  BY DEF Boot, ListStep
<1>4. UNCHANGED <<clock, row, since, scripts, claimed, stops>>
  BY DEF Boot
<1>5. due'[v] = <<>>
  BY DEF Boot, IInv, TypeOK
<1> QED BY <1>1, <1>2, <1>3, <1>4, <1>5, MoveInv

LEMMA TickStartInv == ASSUME IInv, NEW v \in Servers, TickStart(v) PROVE IInv'
<1>1. PICK q \in DueLists : due' = [due EXCEPT ![v] = q]
  BY DEF TickStart
<1>2. /\ q \in Seq(Rows) /\ Len(q) <= Take
      /\ \A i \in DOMAIN q : \E s \in Schedules : Due(s) /\ q[i] = Read(s)
  BY DueListsType DEF IInv
<1>3. /\ at[v] = "idle" /\ now' = [now EXCEPT ![v] = clock]
      /\ at' = [at EXCEPT ![v] = "list"]
      /\ UNCHANGED <<clock, row, cur, since, scripts, draft, claimed, stops>>
      /\ v \in Procs
  BY DEF TickStart, Procs
<1>4. TypeOK'
  <2>1. due' \in [Servers -> Seq(Rows)] /\ now' \in [Servers -> 0 .. MaxClock]
    BY <1>1, <1>2, <1>3 DEF IInv, TypeOK
  <2>2. at' \in [Procs -> Ats]
    BY <1>3 DEF IInv, TypeOK, Ats
  <2>3. \A p \in Procs : cur'[p] = NoRow <=> at'[p] \in {"idle", "list", "off"}
    BY <1>3 DEF IInv, TypeOK
  <2>4. \A w \in Servers : /\ Len(due'[w]) <= Take
                           /\ due'[w] # <<>> => at'[w] \notin {"idle", "off"}
    <3>1. at \in [Procs -> Ats] /\ Servers \subseteq Procs /\ due \in [Servers -> Seq(Rows)]
      BY DEF IInv, TypeOK, Ats, Procs
    <3>2. due'[v] = q /\ at'[v] = "list" /\ \A w \in Servers \ {v} : due'[w] = due[w] /\ at'[w] = at[w]
      BY <1>1, <1>3, <3>1
    <3> QED BY <1>2, <3>2 DEF IInv, TypeOK
  <2>5. /\ clock' \in 0 .. MaxClock /\ stops' \in 0 .. MaxStops
        /\ row' \in [Schedules -> Row] /\ since' \in [Procs -> 0 .. MaxClock]
        /\ cur' \in [Procs -> Rows \cup {NoRow}]
        /\ scripts' \in [Servers -> SUBSET Schedules]
        /\ draft' \in [Editors -> [id : Schedules, conf : Confs] \cup {NoRow}]
        /\ claimed' \in [Schedules -> Nat]
    BY <1>3 DEF IInv, TypeOK, Row
  <2> QED BY <2>1, <2>2, <2>3, <2>4, <2>5 DEF TypeOK, Row, Ats
<1>5. ASSUME NEW i \in DOMAIN q PROVE q[i].next \in 1 .. clock /\ AsRead(q[i])
  <2>1. PICK s \in Schedules : Due(s) /\ q[i] = Read(s)
    BY <1>2
  <2> QED BY <2>1 DEF AsRead, Due, Read
<1>6. ListDue' /\ ListAsRead'
  <2>1. due'[v] = q /\ now'[v] = clock
    BY <1>1, <1>3 DEF IInv, TypeOK
  <2>2. \A w \in Servers \ {v} : due'[w] = due[w] /\ now'[w] = now[w]
    BY <1>1, <1>3 DEF IInv, TypeOK
  <2>3. clock \in Nat
    BY DEF IInv, TypeOK
  <2>4. clock' = clock /\ \A r : AsRead(r)' <=> AsRead(r)
    BY <1>3 DEF AsRead
  <2>5. ASSUME NEW w \in Servers
        PROVE  /\ now'[w] <= clock'
               /\ \A i \in DOMAIN due'[w] : due'[w][i].next \in 1 .. now'[w] /\ AsRead(due'[w][i])
    <3>1. CASE w = v
      BY <1>5, <2>1, <2>3, <2>4, <3>1
    <3>2. CASE w # v
      BY <2>2, <2>4, <3>2 DEF IInv, ListDue, ListAsRead
    <3> QED BY <3>1, <3>2
  <2> QED BY <2>4, <2>5 DEF ListDue, ListAsRead
<1>7. Ahead'
  BY <1>3 DEF IInv, Ahead
<1>8. ScriptAlone'
  <2>1. \A p \in Procs : /\ at[p] = "script" <=> at'[p] = "script"
                         /\ at[p] = "script" => cur'[p] = cur[p]
    BY <1>3 DEF IInv, TypeOK
  <2> QED BY <1>3, <2>1, ScriptsKept
<1> QED BY <1>4, <1>6, <1>7, <1>8 DEF IInv

LEMMA DisableInv == ASSUME IInv, NEW v \in Servers, Disable(v) PROVE IInv'
<1> DEFINE s == Head(due[v]).id
<1>1. /\ at[v] = "list" /\ s \in Broken /\ s \in Schedules /\ v \in Procs
      /\ UNCHANGED <<clock, since, scripts, draft, claimed, stops>>
      /\ due[v] \in Seq(Rows) /\ due[v] # <<>>
  BY DEF Disable, IInv, TypeOK, Procs
<1>2. CASE row[s].life # "live"
  BY <1>1, <1>2, TickOverInv DEF Disable
<1>3. CASE row[s].life = "live"
  <2> DEFINE x == [row[s] EXCEPT !.enabled = FALSE]
  <2>1. /\ row' = [row EXCEPT ![s] = x] /\ due' = [due EXCEPT ![v] = Tail(due[v])]
        /\ UNCHANGED <<at, cur, now>>
    BY <1>3 DEF Disable
  <2>2. x \in Row /\ Fits(s, row[s], x)
    <3>1. row[s] \in Row
      BY <1>1, RowType DEF IInv
    <3> HIDE DEF s
    <3> QED BY <1>1, <3>1 DEF Row, Fits
  <2> HIDE DEF s, x
  <2>3. row' \in [Schedules -> Row] /\ \A z \in Schedules : RowStep(z)
    BY <1>1, <2>1, <2>2, OneRow
  <2>4. /\ due' \in [Servers -> Seq(Rows)]
        /\ \A w \in Servers : Len(due'[w]) <= Take /\ (due'[w] # <<>> => due[w] # <<>>)
        /\ \A w \in Servers : ListStep(w)
    <3>1. due'[v] = Tail(due[v]) /\ \A w \in Servers \ {v} : due'[w] = due[w]
      BY <2>1 DEF IInv, TypeOK
    <3>2. due' \in [Servers -> Seq(Rows)]
      <4>1. Tail(due[v]) \in Seq(Rows)
        BY <1>1
      <4> QED BY <4>1, <2>1 DEF IInv, TypeOK
    <3>3. Len(Tail(due[v])) <= Take
      BY <1>1 DEF IInv, TypeOK
    <3> QED BY <1>1, <2>1, <3>1, <3>2, <3>3 DEF IInv, TypeOK, ListStep
  <2>5. TypeOK'
    <3>1. /\ clock' \in 0 .. MaxClock /\ stops' \in 0 .. MaxStops
          /\ since' \in [Procs -> 0 .. MaxClock]
          /\ at' \in [Procs -> Ats] /\ now' \in [Servers -> 0 .. MaxClock]
          /\ cur' \in [Procs -> Rows \cup {NoRow}]
          /\ \A p \in Procs : cur'[p] = NoRow <=> at'[p] \in {"idle", "list", "off"}
          /\ scripts' \in [Servers -> SUBSET Schedules]
          /\ draft' \in [Editors -> [id : Schedules, conf : Confs] \cup {NoRow}]
          /\ claimed' \in [Schedules -> Nat]
      BY <1>1, <2>1 DEF IInv, TypeOK, Ats
    <3>2. \A w \in Servers : due'[w] # <<>> => at'[w] \notin {"idle", "off"}
      BY <2>1, <2>4 DEF IInv, TypeOK
    <3> QED BY <2>3, <2>4, <3>1, <3>2 DEF TypeOK, Row, Ats
  <2>6. ListDue' /\ ListAsRead' /\ Ahead'
    <3>1. clock' \in Nat /\ clock' >= clock /\ UNCHANGED claimed
      BY <1>1 DEF IInv, TypeOK
    <3>2. \A z \in Schedules : row'[z].next \in Nat
      BY <2>3 DEF Row
    <3> QED BY <2>3, <2>4, <3>1, <3>2, ListsKept, AheadKept
  <2>7. ScriptAlone'
    BY <1>1, <2>1, ScriptsKept
  <2> QED BY <2>5, <2>6, <2>7 DEF IInv
<1> QED BY <1>2, <1>3

LEMMA ClaimInv == ASSUME IInv, NEW v \in Servers, Claim(v) PROVE IInv'
<1> DEFINE r == Head(due[v])
           s == r.id
           x == [row[s] EXCEPT !.next = NextRun[s][now[v]]]
           a == IF now[v] - r.next > Grace THEN "missed" ELSE "run"
<1>1. /\ due[v] \in Seq(Rows) /\ due[v] # <<>> /\ r \in Rows /\ s \in Schedules
      /\ r.next \in 1 .. now[v] /\ now[v] \in 0 .. MaxClock /\ now[v] <= clock /\ v \in Procs
  <2>1. due[v] \in Seq(Rows) /\ due[v] # <<>> /\ now[v] \in 0 .. MaxClock
    BY DEF Claim, IInv, TypeOK
  <2>2. 1 \in DOMAIN due[v] /\ r = due[v][1] /\ r \in Rows
    BY <2>1
  <2> QED BY <2>1, <2>2 DEF IInv, ListDue, Rows, Procs
<1>2. /\ at[v] = "list" /\ row[s].life = "live" /\ row[s].next = r.next
      /\ row' = [row EXCEPT ![s] = x]
      /\ at' = [at EXCEPT ![v] = a] /\ cur' = [cur EXCEPT ![v] = r]
      /\ claimed' = claimed \/ claimed' = [claimed EXCEPT ![s] = r.next]
      /\ due' = [due EXCEPT ![v] = Tail(due[v])]
      /\ UNCHANGED <<clock, since, now, scripts, draft, stops>>
  BY DEF Claim, Claimable
<1>3. a \in {"missed", "run"} /\ a \in Ats \ {"script"}
  BY DEF Ats
<1>4. /\ x \in Row /\ x.next > now[v] /\ Fits(s, row[s], x)
  <2>1. row[s] \in Row
    BY <1>1, RowType DEF IInv
  <2>2. NextRun[s][now[v]] \in Nat /\ NextRun[s][now[v]] > now[v]
    BY <1>1, NextRunLater
  <2>3. r.next \in Nat /\ r.next # 0 /\ NextRun[s][now[v]] > r.next
    BY <1>1, <2>2
  <2> HIDE DEF r, s
  <2>4. x \in Row /\ x.next = NextRun[s][now[v]]
    BY <2>1, <2>2 DEF Row
  <2>5. Fits(s, row[s], x)
    BY <1>2, <2>3, <2>4 DEF Fits, Never
  <2> QED BY <2>2, <2>4, <2>5
<1> HIDE DEF r, s, x, a
<1>5. row' \in [Schedules -> Row] /\ \A z \in Schedules : RowStep(z)
  BY <1>1, <1>2, <1>4, OneRow
<1>6. /\ due' \in [Servers -> Seq(Rows)]
      /\ \A w \in Servers : Len(due'[w]) <= Take /\ (due'[w] # <<>> => due[w] # <<>>)
      /\ \A w \in Servers : ListStep(w)
  <2>1. due'[v] = Tail(due[v]) /\ \A w \in Servers \ {v} : due'[w] = due[w]
    BY <1>2 DEF IInv, TypeOK
  <2>2. due' \in [Servers -> Seq(Rows)]
    <3>1. Tail(due[v]) \in Seq(Rows)
      BY <1>1
    <3> QED BY <3>1, <1>2 DEF IInv, TypeOK
  <2>3. Len(Tail(due[v])) <= Take
    BY <1>1 DEF IInv, TypeOK
  <2> QED BY <1>1, <1>2, <2>1, <2>2, <2>3 DEF IInv, TypeOK, ListStep
<1>7. TypeOK'
  <2>1. /\ clock' \in 0 .. MaxClock /\ stops' \in 0 .. MaxStops
        /\ since' \in [Procs -> 0 .. MaxClock] /\ now' \in [Servers -> 0 .. MaxClock]
        /\ scripts' \in [Servers -> SUBSET Schedules]
        /\ draft' \in [Editors -> [id : Schedules, conf : Confs] \cup {NoRow}]
    BY <1>2 DEF IInv, TypeOK
  <2>2. at' \in [Procs -> Ats] /\ cur' \in [Procs -> Rows \cup {NoRow}]
    BY <1>1, <1>2, <1>3 DEF IInv, TypeOK, Ats
  <2>3. \A p \in Procs : cur'[p] = NoRow <=> at'[p] \in {"idle", "list", "off"}
    <3>1. r # NoRow
      BY <1>1, NoRowApart
    <3>2. cur'[v] = r /\ at'[v] = a /\ \A p \in Procs \ {v} : cur'[p] = cur[p] /\ at'[p] = at[p]
      BY <1>1, <1>2 DEF IInv, TypeOK
    <3> QED BY <1>3, <3>1, <3>2 DEF IInv, TypeOK
  <2>4. \A w \in Servers : due'[w] # <<>> => at'[w] \notin {"idle", "off"}
    <3>1. at'[v] = a /\ \A w \in Servers \ {v} : at'[w] = at[w]
      BY <1>1, <1>2 DEF IInv, TypeOK, Procs
    <3> QED BY <1>3, <1>6, <3>1 DEF IInv, TypeOK
  <2>5. claimed' \in [Schedules -> Nat]
    BY <1>1, <1>2 DEF IInv, TypeOK
  <2> QED BY <1>5, <1>6, <2>1, <2>2, <2>3, <2>4, <2>5 DEF TypeOK, Row, Ats
<1>8. clock \in Nat /\ clock' \in Nat /\ clock' >= clock
      /\ \A z \in Schedules : row'[z].next \in Nat
  BY <1>2, <1>5 DEF IInv, TypeOK, Row
<1>9. ListDue' /\ ListAsRead'
  BY <1>5, <1>6, <1>8, ListsKept
<1>10. Ahead'
  <2>1. CASE claimed' = claimed
    BY <1>5, <1>8, <2>1, AheadKept
  <2>2. CASE claimed' = [claimed EXCEPT ![s] = r.next]
    <3>1. /\ claimed'[s] = r.next /\ row'[s] = x
          /\ \A z \in Schedules \ {s} : claimed'[z] = claimed[z] /\ row'[z] = row[z]
      BY <1>1, <1>2, <2>2 DEF IInv, TypeOK
    <3>2. r.next <= clock /\ x.next > r.next
      BY <1>1, <1>4, <1>8 DEF Row
    <3> QED BY <1>2, <3>1, <3>2 DEF IInv, Ahead
  <2> QED BY <1>2, <2>1, <2>2
<1>11. ScriptAlone'
  <2>1. \A p \in Procs : /\ at[p] = "script" <=> at'[p] = "script"
                         /\ at[p] = "script" => cur'[p] = cur[p]
    BY <1>1, <1>2, <1>3 DEF IInv, TypeOK
  <2> QED BY <1>2, <2>1, ScriptsKept
<1> QED BY <1>7, <1>9, <1>10, <1>11 DEF IInv

-----------------------------------------------------------------------------
\* The steps that begin or end a script touch no row and no list.
LEMMA StartScriptInv == ASSUME IInv, NEW p \in Procs, StartScript(p) PROVE IInv'
<1> DEFINE h == Host(p)
           s == cur[p].id
<1>1. /\ at[p] = "run" /\ s \notin scripts[h] /\ h \in Servers /\ cur[p] \in Rows
      /\ s \in Schedules
      /\ scripts' = [scripts EXCEPT ![h] = scripts[h] \cup {s}]
      /\ since' = [since EXCEPT ![p] = clock] /\ at' = [at EXCEPT ![p] = "script"]
      /\ UNCHANGED <<clock, row, cur, due, now, draft, claimed, stops>>
  <2>1. at[p] = "run" /\ cur[p] \in Rows
    BY DEF StartScript, IInv, TypeOK
  <2> QED BY <2>1, HostType DEF StartScript, Rows
<1>2. TypeOK'
  <2>1. /\ clock' \in 0 .. MaxClock /\ stops' \in 0 .. MaxStops
        /\ row' \in [Schedules -> Row] /\ now' \in [Servers -> 0 .. MaxClock]
        /\ cur' \in [Procs -> Rows \cup {NoRow}] /\ due' \in [Servers -> Seq(Rows)]
        /\ draft' \in [Editors -> [id : Schedules, conf : Confs] \cup {NoRow}]
        /\ claimed' \in [Schedules -> Nat]
    BY <1>1 DEF IInv, TypeOK, Row
  <2>2. at' \in [Procs -> Ats] /\ since' \in [Procs -> 0 .. MaxClock]
        /\ scripts' \in [Servers -> SUBSET Schedules]
    BY <1>1 DEF IInv, TypeOK, Ats
  <2>3. \A x \in Procs : cur'[x] = NoRow <=> at'[x] \in {"idle", "list", "off"}
    BY <1>1 DEF IInv, TypeOK
  <2>4. \A w \in Servers : /\ Len(due'[w]) <= Take
                           /\ due'[w] # <<>> => at'[w] \notin {"idle", "off"}
    BY <1>1 DEF IInv, TypeOK, Procs
  <2> QED BY <2>1, <2>2, <2>3, <2>4 DEF TypeOK, Row, Ats
<1>3. ListDue' /\ ListAsRead' /\ Ahead'
  BY <1>1, TimesKept DEF ListStep
<1>4. ScriptAlone'
  <2> HIDE DEF h, s
  <2>1. ASSUME NEW x \in Procs, NEW w \in Servers, NEW z \in Schedules
        PROVE  RunsScript(x, w, z)' <=> RunsScript(x, w, z) \/ (x = p /\ w = h /\ z = s)
    <3>1. CASE x = p
      <4>1. at'[p] = "script" /\ cur'[p].id = s /\ at[p] # "script" /\ Host(p) = h
        BY <1>1 DEF IInv, TypeOK, h, s
      <4> QED BY <3>1, <4>1 DEF RunsScript
    <3>2. CASE x # p
      <4>1. at'[x] = at[x] /\ cur'[x] = cur[x]
        BY <1>1, <3>2 DEF IInv, TypeOK
      <4> QED BY <3>2, <4>1 DEF RunsScript
    <3> QED BY <3>1, <3>2
  <2>2. scripts'[h] = scripts[h] \cup {s} /\ \A w \in Servers \ {h} : scripts'[w] = scripts[w]
    BY <1>1 DEF IInv, TypeOK
  <2>3. ASSUME NEW w \in Servers, NEW z \in scripts'[w]
        PROVE  \E x \in Procs : RunsScript(x, w, z)'
    <3>1. z \in scripts[w] \/ (w = h /\ z = s)
      BY <2>2
    <3>2. z \in Schedules
      BY <1>1, <3>1 DEF IInv, TypeOK
    <3> QED BY <2>1, <3>1, <3>2 DEF IInv, ScriptAlone
  <2>4. ASSUME NEW x \in Procs, NEW y \in Procs, NEW z \in Schedules
        PROVE  /\ RunsScript(x, Host(x), z)' => z \in scripts'[Host(x)]
               /\ RunsScript(x, Host(x), z)' /\ RunsScript(y, Host(x), z)' => x = y
    <3>1. Host(x) \in Servers
      BY HostType
    <3>2. /\ RunsScript(x, Host(x), z) => z \in scripts[Host(x)]
          /\ RunsScript(x, Host(x), z) /\ RunsScript(y, Host(x), z) => x = y
          /\ RunsScript(y, Host(y), z) => z \in scripts[Host(y)]
      BY DEF IInv, ScriptAlone
    <3>3. RunsScript(y, Host(x), z) => Host(y) = Host(x)
      BY DEF RunsScript
    <3> QED BY <1>1, <2>1, <2>2, <3>1, <3>2, <3>3
  <2> QED BY <2>3, <2>4 DEF ScriptAlone, RunsScript, Host
<1> QED BY <1>2, <1>3, <1>4 DEF IInv

LEMMA ScriptEndsInv == ASSUME IInv, NEW p \in Procs, ScriptEnds(p) PROVE IInv'
<1> DEFINE h == Host(p)
           s == cur[p].id
           a == IF p \in Servers THEN "list" ELSE "idle"
<1>1. /\ at[p] = "script" /\ h \in Servers
      /\ scripts' = [scripts EXCEPT ![h] = scripts[h] \ {s}]
      /\ since' = [since EXCEPT ![p] = 0]
      /\ at' = [at EXCEPT ![p] = a] /\ cur' = [cur EXCEPT ![p] = NoRow]
      /\ UNCHANGED <<clock, row, due, now, draft, claimed, stops>>
  BY HostType DEF ScriptEnds, Done
<1>2. a \in {"list", "idle"} /\ a \in Ats /\ (p \in Servers => a = "list")
  BY DEF Ats
<1> HIDE DEF h, s, a
<1>3. TypeOK'
  <2>1. /\ clock' \in 0 .. MaxClock /\ stops' \in 0 .. MaxStops
        /\ row' \in [Schedules -> Row] /\ now' \in [Servers -> 0 .. MaxClock]
        /\ due' \in [Servers -> Seq(Rows)]
        /\ draft' \in [Editors -> [id : Schedules, conf : Confs] \cup {NoRow}]
        /\ claimed' \in [Schedules -> Nat]
    BY <1>1 DEF IInv, TypeOK, Row
  <2>2. at' \in [Procs -> Ats] /\ since' \in [Procs -> 0 .. MaxClock]
        /\ scripts' \in [Servers -> SUBSET Schedules]
        /\ cur' \in [Procs -> Rows \cup {NoRow}]
    BY <1>1, <1>2 DEF IInv, TypeOK, Ats
  <2>3. \A x \in Procs : cur'[x] = NoRow <=> at'[x] \in {"idle", "list", "off"}
    BY <1>1, <1>2 DEF IInv, TypeOK
  <2>4. \A w \in Servers : /\ Len(due'[w]) <= Take
                           /\ due'[w] # <<>> => at'[w] \notin {"idle", "off"}
    BY <1>1, <1>2 DEF IInv, TypeOK, Procs
  <2> QED BY <2>1, <2>2, <2>3, <2>4 DEF TypeOK, Row, Ats
<1>4. ListDue' /\ ListAsRead' /\ Ahead'
  BY <1>1, TimesKept DEF ListStep
<1>5. ScriptAlone'
  <2>1. ASSUME NEW x \in Procs, NEW w \in Servers, NEW z \in Schedules
        PROVE  RunsScript(x, w, z)' <=> RunsScript(x, w, z) /\ x # p
    <3>1. at'[p] # "script"
      BY <1>1, <1>2 DEF IInv, TypeOK
    <3>2. x # p => at'[x] = at[x] /\ cur'[x] = cur[x]
      BY <1>1 DEF IInv, TypeOK
    <3> QED BY <3>1, <3>2 DEF RunsScript
  <2>2. scripts'[h] = scripts[h] \ {s} /\ \A w \in Servers \ {h} : scripts'[w] = scripts[w]
    BY <1>1 DEF IInv, TypeOK
  <2>3. RunsScript(p, h, s) /\ \A w, z : RunsScript(p, w, z) => w = h /\ z = s
    BY <1>1 DEF RunsScript, h, s
  <2>4. ASSUME NEW w \in Servers, NEW z \in scripts'[w]
        PROVE  \E x \in Procs : RunsScript(x, w, z)'
    <3>1. z \in scripts[w] /\ ~(w = h /\ z = s)
      BY <2>2
    <3>2. z \in Schedules
      BY <3>1 DEF IInv, TypeOK
    <3> QED BY <2>1, <2>3, <3>1, <3>2 DEF IInv, ScriptAlone
  <2>5. ASSUME NEW x \in Procs, NEW y \in Procs, NEW z \in Schedules
        PROVE  /\ RunsScript(x, Host(x), z)' => z \in scripts'[Host(x)]
               /\ RunsScript(x, Host(x), z)' /\ RunsScript(y, Host(x), z)' => x = y
    <3>1. Host(x) \in Servers
      BY HostType
    <3>2. /\ RunsScript(x, Host(x), z) => z \in scripts[Host(x)]
          /\ RunsScript(x, Host(x), z) /\ RunsScript(y, Host(x), z) => x = y
          /\ RunsScript(x, Host(x), z) /\ RunsScript(p, Host(x), z) => x = p
      BY DEF IInv, ScriptAlone
    <3> QED BY <2>1, <2>2, <2>3, <3>1, <3>2
  <2> QED BY <2>4, <2>5 DEF ScriptAlone, RunsScript, Host
<1> QED BY <1>3, <1>4, <1>5 DEF IInv

LEMMA StopInv == ASSUME IInv, NEW v \in Servers, Stop(v) PROVE IInv'
<1>1. /\ at' = [p \in Procs |-> IF p = v THEN "off" ELSE IF Host(p) = v THEN "idle" ELSE at[p]]
      /\ cur' = [p \in Procs |-> IF Host(p) = v THEN NoRow ELSE cur[p]]
      /\ since' = [p \in Procs |-> IF Host(p) = v THEN 0 ELSE since[p]]
      /\ due' = [due EXCEPT ![v] = <<>>] /\ now' = [now EXCEPT ![v] = 0]
      /\ scripts' = [scripts EXCEPT ![v] = {}]
      /\ stops < MaxStops /\ stops' = stops + 1
      /\ UNCHANGED <<clock, row, draft, claimed>>
      /\ Host(v) = v
  BY DEF Stop, Host
<1>2. TypeOK'
  <2>1. /\ clock' \in 0 .. MaxClock /\ row' \in [Schedules -> Row]
        /\ draft' \in [Editors -> [id : Schedules, conf : Confs] \cup {NoRow}]
        /\ claimed' \in [Schedules -> Nat] /\ stops' \in 0 .. MaxStops
    BY <1>1 DEF IInv, TypeOK, Row
  <2>2. /\ at' \in [Procs -> Ats] /\ cur' \in [Procs -> Rows \cup {NoRow}]
        /\ since' \in [Procs -> 0 .. MaxClock]
    BY <1>1 DEF IInv, TypeOK, Ats
  <2>3. /\ due' \in [Servers -> Seq(Rows)] /\ now' \in [Servers -> 0 .. MaxClock]
        /\ scripts' \in [Servers -> SUBSET Schedules]
    BY <1>1 DEF IInv, TypeOK
  <2>4. \A x \in Procs : cur'[x] = NoRow <=> at'[x] \in {"idle", "list", "off"}
    BY <1>1 DEF IInv, TypeOK
  <2>5. ASSUME NEW w \in Servers
        PROVE  /\ Len(due'[w]) <= Take
               /\ due'[w] # <<>> => at'[w] \notin {"idle", "off"}
    <3>1. CASE w = v
      BY <1>1, <3>1 DEF IInv, TypeOK
    <3>2. CASE w # v
      <4>1. due'[w] = due[w] /\ at'[w] = at[w]
        BY <1>1, <3>2 DEF IInv, TypeOK, Procs, Host
      <4> QED BY <4>1 DEF IInv, TypeOK
    <3> QED BY <3>1, <3>2
  <2> QED BY <2>1, <2>2, <2>3, <2>4, <2>5 DEF TypeOK, Row, Ats
<1>3. ListDue' /\ ListAsRead' /\ Ahead'
  <2>1. \A w \in Servers : ListStep(w)
    BY <1>1 DEF ListStep, IInv, TypeOK
  <2> QED BY <1>1, <2>1, TimesKept
<1>4. ScriptAlone'
  <2>1. ASSUME NEW x \in Procs, NEW w \in Servers, NEW z \in Schedules
        PROVE  RunsScript(x, w, z)' <=> RunsScript(x, w, z) /\ w # v
    <3>1. CASE Host(x) = v
      <4>1. at'[x] # "script"
        BY <1>1, <3>1
      <4> QED BY <3>1, <4>1 DEF RunsScript
    <3>2. CASE Host(x) # v
      <4>1. at'[x] = at[x] /\ cur'[x] = cur[x]
        BY <1>1, <3>2
      <4> QED BY <3>2, <4>1 DEF RunsScript
    <3> QED BY <3>1, <3>2
  <2>2. scripts'[v] = {} /\ \A w \in Servers \ {v} : scripts'[w] = scripts[w]
    BY <1>1 DEF IInv, TypeOK
  <2>3. ASSUME NEW w \in Servers, NEW z \in scripts'[w]
        PROVE  \E x \in Procs : RunsScript(x, w, z)'
    <3>1. z \in scripts[w] /\ w # v
      BY <2>2
    <3>2. z \in Schedules
      BY <3>1 DEF IInv, TypeOK
    <3> QED BY <2>1, <3>1, <3>2 DEF IInv, ScriptAlone
  <2>4. ASSUME NEW x \in Procs, NEW y \in Procs, NEW z \in Schedules
        PROVE  /\ RunsScript(x, Host(x), z)' => z \in scripts'[Host(x)]
               /\ RunsScript(x, Host(x), z)' /\ RunsScript(y, Host(x), z)' => x = y
    BY <2>1, <2>2, HostType DEF IInv, ScriptAlone
  <2> QED BY <2>3, <2>4 DEF ScriptAlone, RunsScript, Host
<1> QED BY <1>2, <1>3, <1>4 DEF IInv

-----------------------------------------------------------------------------
LEMMA NextInv == ASSUME IInv, [Next]_vars PROVE IInv'
<1>1. CASE UNCHANGED vars
  <2>1. UNCHANGED <<clock, row, at, cur, since, due, now, scripts, draft, claimed, stops>>
    BY <1>1 DEF vars
  <2>2. TypeOK'
    BY <2>1 DEF IInv, TypeOK
  <2>3. ListDue' /\ ListAsRead' /\ Ahead'
    BY <2>1, TimesKept DEF ListStep
  <2>4. ScriptAlone'
    BY <2>1, ScriptsKept
  <2> QED BY <2>2, <2>3, <2>4 DEF IInv
<1>2. ASSUME NEW v \in Servers, Tick(v) \/ Stop(v) \/ Boot(v) PROVE IInv'
  BY <1>2, TickStartInv, ClaimInv, PassOverInv, DisableInv, RecordMissedInv,
     TickEndInv, StopInv, BootInv DEF Tick
<1>3. ASSUME NEW p \in Procs, Execute(p) PROVE IInv'
  BY <1>3, SettleInv, StartScriptInv, ScriptEndsInv, StartTaskInv, LinkInv DEF Execute
<1>4. ASSUME NEW s \in Schedules, Create(s) \/ Remove(s) \/ DropTask(s) PROVE IInv'
  BY <1>4, CreateInv, RemoveInv, DropTaskInv
<1>5. ASSUME NEW e \in Editors, Open(e) \/ Save(e) PROVE IInv'
  BY <1>5, OpenInv, SaveInv
<1> QED BY <1>1, <1>2, <1>3, <1>4, <1>5, AdvanceInv, RunNowInv DEF Next

LEMMA AlwaysIInv == Spec => []IInv
BY InitInv, NextInv, PTL DEF Spec

\* Every variable keeps its type.
THEOREM TypeCorrect == Spec => []TypeOK
BY AlwaysIInv, PTL DEF IInv

\* On one server a schedule never has two scripts at work, and the mark is
\* set exactly as long as one is (executeScript).
THEOREM ScriptAloneHolds == Spec => []ScriptAlone
BY AlwaysIInv, PTL DEF IInv

\* A step of a server from its list to a run or a record is its claim.
LEMMA OnlyClaim ==
  ASSUME IInv, Next, NEW v \in Servers, at[v] = "list", at'[v] \in {"run", "missed"}
  PROVE  Claim(v)
<1>1. at \in [Procs -> Ats] /\ v \in Procs /\ at'[v] # at[v]
  BY DEF IInv, TypeOK, Ats, Procs
<1>2. ASSUME NEW p \in Procs, Execute(p) PROVE FALSE
  <2>1. p # v
    BY <1>2, <1>1 DEF Execute, Settle, SkipScript, StartScript, ScriptEnds, FollowUp, StartTask, Link
  <2>2. at'[v] = at[v]
    BY <1>2, <1>1, <2>1 DEF Execute, Settle, SkipScript, StartScript, ScriptEnds,
                            FollowUp, StartTask, Link, Done
  <2> QED BY <1>1, <2>2
<1>3. ASSUME NEW c \in Calls, RunNow(c) PROVE FALSE
  <2>1. c # v /\ at' = [at EXCEPT ![c] = "run"]
    BY <1>3 DEF RunNow
  <2> QED BY <1>1, <2>1
<1>4. ASSUME NEW w \in Servers, Tick(w) \/ Stop(w) \/ Boot(w) PROVE w = v /\ Claim(v)
  <2>1. CASE Tick(w)
    <3>1. w = v
      <4>1. ASSUME w # v PROVE at'[v] = at[v]
        BY <1>1, <2>1, <4>1 DEF Tick, TickStart, Claim, PassOver, Disable, TickOver,
                                RecordMissed, Done, TickEnd
      <4> QED BY <1>1, <4>1
    <3>2. CASE Claim(w)
      BY <3>1, <3>2
    <3>3. CASE ~Claim(w)
      <4>1. at'[v] \in {"list", "idle"}
        BY <1>1, <2>1, <3>1, <3>3 DEF Tick, TickStart, PassOver, Disable, TickOver,
                                      RecordMissed, Done, TickEnd
      <4> QED BY <4>1
    <3> QED BY <3>2, <3>3
  <2>2. CASE Stop(w)
    <3>1. at'[v] \in {"off", "idle", at[v]}
      BY <1>1, <2>2 DEF Stop
    <3> QED BY <1>1, <3>1
  <2>3. CASE Boot(w)
    <3>1. at' = [at EXCEPT ![w] = "idle"]
      BY <2>3 DEF Boot
    <3> QED BY <1>1, <3>1
  <2> QED BY <1>4, <2>1, <2>2, <2>3
<1>5. ~UNCHANGED at
  BY <1>1
<1> QED BY <1>2, <1>3, <1>4, <1>5 DEF Next, Advance, Create, Remove, DropTask, Open, Save

\* What a claim takes is a time that was due when the tick read it, and the
\* row still has it.
LEMMA ClaimedRow ==
  ASSUME IInv, NEW v \in Servers, Claim(v)
  PROVE  LET r == cur'[v]
         IN  /\ r \in Rows /\ r.next # Never /\ AsRead(r)
             /\ row[r.id].life = "live" /\ row[r.id].next = r.next
<1>1. /\ due[v] \in Seq(Rows) /\ due[v] # <<>> /\ now[v] \in Nat
      /\ cur' = [cur EXCEPT ![v] = Head(due[v])] /\ Claimable(Head(due[v]))
  BY DEF Claim, IInv, TypeOK
<1>2. 1 \in DOMAIN due[v] /\ Head(due[v]) = due[v][1] /\ due[v][1] \in Rows
  BY <1>1
<1>3. cur'[v] = due[v][1]
  BY <1>1, <1>2 DEF IInv, TypeOK, Procs
<1>4. due[v][1].next \in 1 .. now[v] /\ AsRead(due[v][1])
  BY <1>2 DEF IInv, ListDue, ListAsRead
<1> QED BY <1>1, <1>2, <1>3, <1>4 DEF Claimable, Never

\* What a tick carries out is the schedule as it stands when it is claimed,
\* whatever is edited between the reading and the claim (tick, update).
THEOREM FiresAsConfiguredHolds == Spec => FiresAsConfigured
<1>1. IInv /\ [Next]_vars => [\A v \in Servers :
       at[v] = "list" /\ at'[v] \in {"run", "missed"} /\ cur'[v].id \notin Broken =>
         LET r == cur'[v]
         IN  row[r.id].life = "live" /\ row[r.id].enabled /\ row[r.id].conf = r.conf]_vars
  <2>1. ASSUME IInv, Next, NEW v \in Servers, at[v] = "list", at'[v] \in {"run", "missed"},
               cur'[v].id \notin Broken
        PROVE  LET r == cur'[v]
               IN  row[r.id].life = "live" /\ row[r.id].enabled /\ row[r.id].conf = r.conf
    <3>1. Claim(v)
      BY <2>1, OnlyClaim
    <3> DEFINE r == cur'[v]
    <3>2. /\ r \in Rows /\ r.next # Never /\ AsRead(r)
          /\ row[r.id].life = "live" /\ row[r.id].next = r.next
      BY <2>1, <3>1, ClaimedRow
    <3>3. r.next \in Nat
      BY <3>2 DEF Rows
    <3> HIDE DEF r
    <3>4. row[r.id].life = "live" /\ row[r.id].enabled /\ row[r.id].conf = r.conf
      BY <2>1, <3>2, <3>3 DEF AsRead, r
    <3> QED BY <3>4 DEF r
  <2> QED BY <2>1
<1> QED BY <1>1, AlwaysIInv, PTL DEF Spec, FiresAsConfigured

\* The times of a schedule are carried out in their order and each once,
\* whatever servers look for them and whichever of them stop (tick).
THEOREM OncePerTimeHolds == Spec => OncePerTime
<1>1. IInv /\ [Next]_vars => [\A v \in Servers :
       at[v] = "list" /\ at'[v] = "run" => cur'[v].next > claimed[cur'[v].id]]_vars
  <2>1. ASSUME IInv, Next, NEW v \in Servers, at[v] = "list", at'[v] = "run"
        PROVE  cur'[v].next > claimed[cur'[v].id]
    <3>1. Claim(v)
      BY <2>1, OnlyClaim
    <3> DEFINE r == cur'[v]
    <3>2. /\ r \in Rows /\ r.next # Never
          /\ row[r.id].life = "live" /\ row[r.id].next = r.next
      BY <2>1, <3>1, ClaimedRow
    <3>3. r.id \in Schedules
      BY <3>2 DEF Rows
    <3> HIDE DEF r
    <3>4. r.next > claimed[r.id]
      BY <2>1, <3>2, <3>3 DEF IInv, Ahead
    <3> QED BY <3>4 DEF r
  <2> QED BY <2>1
<1> QED BY <1>1, AlwaysIInv, PTL DEF Spec, OncePerTime

=============================================================================
