---------------------------- MODULE ScheduleRuns ----------------------------
(***************************************************************************)
(* Schedules: every server looks for due rows on a timer, claimed each by   *)
(* moving its next time forward and carries it out with the row as it was  *)
(* read.  One server has one tick at a time; a script, which takes hours   *)
(* of the clock, is awaited inside the tick.  Beside the ticks people run  *)
(* a schedule by hand, edit it and remove it, and servers stop.            *)
(*                                                                         *)
(* A step between two awaits is one action.  Only a script takes time on   *)
(* the scale of the clock, so the clock stands while anything else is on   *)
(* its way.  What a run reports (lastRunAt, lastStatus, lastOutput) is     *)
(* left out: nothing in this service reads it back.                        *)
(***************************************************************************)
EXTENDS Naturals, FiniteSets, Sequences

CONSTANTS
  Schedules, Servers,
  Calls,      \* requests to run a schedule by hand
  Editors,    \* requests to edit one
  Confs,      \* the agent, chat and project a schedule names
  Kind,       \* "script", "message", "fresh" or "task" (one that is continued)
  HostOf,     \* the server that carries out a call
  NextRun,    \* the first time of a schedule strictly after another (cron)
  Broken,     \* schedules that cron may refuse when a tick looks at them
  Take,       \* rows that one tick takes
  Grace,      \* GRACE_MS
  ScriptMax,  \* the longest a script may run
  MaxClock, MaxStops \* bounds: the clock, and how often servers stop

None  == "none"
Never == 0  \* nextRunAt is null: times are strictly after the start, 0

ASSUME ScheduleAssumption ==
  /\ Kind \in [Schedules -> {"script", "message", "fresh", "task"}]
  /\ HostOf \in [Calls -> Servers]
  /\ NextRun \in [Schedules -> [0 .. MaxClock -> Nat]]
  /\ \A s \in Schedules, t \in 0 .. MaxClock : NextRun[s][t] > t
  /\ IsFiniteSet(Schedules) /\ Broken \subseteq Schedules
  /\ Take \in Nat \ {0} /\ Grace \in Nat /\ ScriptMax \in Nat
  /\ MaxClock \in Nat /\ MaxStops \in Nat
  /\ None \notin Confs
  /\ Servers \cap Calls = {}

VARIABLES
  clock,
  row,     \* the Schedule table: a row's life, enabled, conf, next, task
  at,      \* where a server's tick or a call stands
  cur,     \* the row it carries out, as it was read
  since,   \* when its script began
  due,     \* what the tick has still to look at, as it was read
  now,     \* the time at which the tick read it
  scripts, \* the scripts a server has marked as running
  draft,   \* the row an edit has read
  claimed, \* history: the time of each schedule that was carried out last
  stops    \* how often servers have stopped

vars == <<clock, row, at, cur, since, due, now, scripts, draft, claimed, stops>>

Procs   == Servers \cup Calls
Host(p) == IF p \in Servers THEN p ELSE HostOf[p]

\* What a run goes by of a row that was read.
Read(s) == [id |-> s, conf |-> row[s].conf, next |-> row[s].next, task |-> row[s].task]

NoRow == [id |-> None]
Rows  == [id : Schedules, conf : Confs, next : Nat, task : Confs \cup {None}]

TypeOK ==
  /\ clock \in 0 .. MaxClock /\ stops \in 0 .. MaxStops
  /\ row \in [Schedules -> [life : {"new", "live", "gone"}, conf : Confs,
                            enabled : BOOLEAN, next : Nat, task : Confs \cup {None}]]
  /\ since \in [Procs -> 0 .. MaxClock]
  /\ at \in [Procs -> {"idle", "list", "missed", "run", "script", "link", "off"}]
  /\ cur \in [Procs -> Rows \cup {NoRow}]
  /\ \A p \in Procs : cur[p] = NoRow <=> at[p] \in {"idle", "list", "off"}
  /\ due \in [Servers -> Seq(Rows)]
  /\ \A v \in Servers : /\ Len(due[v]) <= Take
                        /\ due[v] # <<>> => at[v] \notin {"idle", "off"}
  /\ now \in [Servers -> 0 .. MaxClock]
  /\ scripts \in [Servers -> SUBSET Schedules]
  /\ draft \in [Editors -> [id : Schedules, conf : Confs] \cup {NoRow}]
  /\ claimed \in [Schedules -> Nat]

Init ==
  /\ clock = 0 /\ stops = 0 /\ claimed = [s \in Schedules |-> Never]
  /\ row \in [Schedules -> [life : {"new"}, conf : Confs, enabled : {FALSE},
                            next : {Never}, task : {None}]]
  /\ at = [p \in Procs |-> "idle"] /\ cur = [p \in Procs |-> NoRow]
  /\ since = [p \in Procs |-> 0]
  /\ due = [v \in Servers |-> <<>>] /\ now = [v \in Servers |-> 0]
  /\ scripts = [v \in Servers |-> {}]
  /\ draft = [e \in Editors |-> NoRow]

-----------------------------------------------------------------------------
Due(s) == row[s].life = "live" /\ row[s].enabled /\ row[s].next \in 1 .. clock

\* The clock of the day, in units in which only a script takes any time and
\* an idle server ticks many times (TICK_MS).
Advance ==
  /\ clock < MaxClock
  /\ draft = [e \in Editors |-> NoRow]
  /\ \A p \in Procs :
       \/ at[p] = "off"
       \/ at[p] = "idle" /\ (p \in Servers => \A s \in Schedules : ~Due(s))
       \/ at[p] = "script" /\ clock < since[p] + ScriptMax
  /\ clock' = clock + 1
  /\ UNCHANGED <<row, at, cur, since, due, now, scripts, draft, claimed, stops>>

\* Back to the tick's list, or the call is answered.
Done(p) ==
  /\ at' = [at EXCEPT ![p] = IF p \in Servers THEN "list" ELSE "idle"]
  /\ cur' = [cur EXCEPT ![p] = NoRow]

\* Fault: no limit on what a tick takes.
\* The rows a tick takes: the oldest first, in any order among equals.
DueLists ==
  LET D == {s \in Schedules : Due(s)}
      n == IF Cardinality(D) < Take THEN Cardinality(D) ELSE Take
  IN  {q \in [1 .. n -> {Read(s) : s \in D}] :
         /\ \A i, j \in 1 .. n : i < j => q[i].id # q[j].id /\ q[i].next <= q[j].next
         /\ \A s \in D : \/ \E i \in 1 .. n : q[i].id = s
                         \/ \A i \in 1 .. n : q[i].next <= row[s].next}

\* A tick reads the due rows; one that finds none has no effect.
TickStart(v) ==
  /\ at[v] = "idle"
  /\ \E s \in Schedules : Due(s)
  /\ \E q \in DueLists : due' = [due EXCEPT ![v] = q]
  /\ now' = [now EXCEPT ![v] = clock]
  /\ at' = [at EXCEPT ![v] = "list"]
  /\ UNCHANGED <<clock, row, cur, since, scripts, draft, claimed, stops>>

\* Fault: the claim does not look at the time.
ClaimableById(r) == row[r.id].life = "live"

\* The row is still as the tick has read it, as far as the claim looks.
Claimable(r) == row[r.id].life = "live" /\ row[r.id].next = r.next

\* Fault: what is too late is recorded before anything is claimed.
\* The claim moves the next time forward, counted from the time of the tick;
\* one that is too late by that time is only recorded.
Claim(v) ==
  /\ at[v] = "list" /\ due[v] # <<>>
  /\ LET r == Head(due[v])
         s == r.id
     IN  /\ Claimable(r)
         /\ row' = [row EXCEPT ![s].next = NextRun[s][now[v]]]
         /\ cur' = [cur EXCEPT ![v] = r]
         /\ IF now[v] - r.next > Grace
            THEN at' = [at EXCEPT ![v] = "missed"] /\ UNCHANGED claimed
            ELSE at' = [at EXCEPT ![v] = "run"] /\ claimed' = [claimed EXCEPT ![s] = r.next]
  /\ due' = [due EXCEPT ![v] = Tail(@)]
  /\ UNCHANGED <<clock, since, now, scripts, draft, stops>>

\* Another server, an edit or a removal came first.
PassOver(v) ==
  /\ at[v] = "list" /\ due[v] # <<>> /\ ~Claimable(Head(due[v]))
  /\ due' = [due EXCEPT ![v] = Tail(@)]
  /\ UNCHANGED <<clock, row, at, cur, since, now, scripts, draft, claimed, stops>>

\* The end of a tick, in whichever way (the finally).
TickOver(v) ==
  /\ at' = [at EXCEPT ![v] = "idle"]
  /\ cur' = [cur EXCEPT ![v] = NoRow]
  /\ due' = [due EXCEPT ![v] = <<>>]
  /\ now' = [now EXCEPT ![v] = 0]

\* A schedule without a next time is switched off, however it stands by now;
\* a row that is gone ends the tick by an error.
Disable(v) ==
  /\ at[v] = "list" /\ due[v] # <<>>
  /\ LET s == Head(due[v]).id
     IN  /\ s \in Broken
         /\ IF row[s].life = "live"
            THEN /\ row' = [row EXCEPT ![s].enabled = FALSE]
                 /\ due' = [due EXCEPT ![v] = Tail(@)]
                 /\ UNCHANGED <<at, cur, now>>
            ELSE TickOver(v) /\ UNCHANGED row
  /\ UNCHANGED <<clock, since, scripts, draft, claimed, stops>>

TickEnd(v) ==
  /\ at[v] = "list" /\ due[v] = <<>>
  /\ TickOver(v)
  /\ UNCHANGED <<clock, row, since, scripts, draft, claimed, stops>>

\* "missed" is written to the row; a row that is gone ends the tick by an error.
RecordMissed(v) ==
  /\ at[v] = "missed"
  /\ IF row[cur[v].id].life = "live" THEN Done(v) /\ UNCHANGED <<due, now>>
     ELSE TickOver(v)
  /\ UNCHANGED <<clock, row, since, scripts, draft, claimed, stops>>

-----------------------------------------------------------------------------
\* Someone runs the schedule now, whether it is enabled or not; the time of
\* the row is of no matter then.
RunNow(c) ==
  /\ at[c] = "idle" /\ at[HostOf[c]] # "off"
  /\ \E s \in Schedules : row[s].life = "live" /\ cur' = [cur EXCEPT ![c] = [Read(s) EXCEPT !.next = Never]]
  /\ at' = [at EXCEPT ![c] = "run"]
  /\ UNCHANGED <<clock, row, since, due, now, scripts, draft, claimed, stops>>

\* A run without an effect on a row: quiet hours, which a call does not heed,
\* a message, a fresh task, a task that cannot be started.
Settle(p) ==
  /\ at[p] = "run"
  /\ p \in Servers \/ Kind[cur[p].id] # "script"
  /\ Done(p)
  /\ UNCHANGED <<clock, row, since, due, now, scripts, draft, claimed, stops>>

\* Fault: a skipped run clears the mark of the one that works (its finally).
ClearingSkipScript(p) ==
  /\ at[p] = "run" /\ Kind[cur[p].id] = "script"
  /\ cur[p].id \in scripts[Host(p)]
  /\ scripts' = [scripts EXCEPT ![Host(p)] = @ \ {cur[p].id}]
  /\ Done(p)
  /\ UNCHANGED <<clock, row, since, due, now, draft, claimed, stops>>

\* The script of the schedule is still working on this server.
SkipScript(p) ==
  /\ at[p] = "run" /\ Kind[cur[p].id] = "script"
  /\ cur[p].id \in scripts[Host(p)]
  /\ Done(p)
  /\ UNCHANGED <<clock, row, since, due, now, scripts, draft, claimed, stops>>

StartScript(p) ==
  /\ at[p] = "run" /\ Kind[cur[p].id] = "script"
  /\ cur[p].id \notin scripts[Host(p)]
  /\ scripts' = [scripts EXCEPT ![Host(p)] = @ \cup {cur[p].id}]
  /\ since' = [since EXCEPT ![p] = clock]
  /\ at' = [at EXCEPT ![p] = "script"]
  /\ UNCHANGED <<clock, row, cur, due, now, draft, claimed, stops>>

\* It ends by itself or is killed at its time limit.
ScriptEnds(p) ==
  /\ at[p] = "script"
  /\ scripts' = [scripts EXCEPT ![Host(p)] = @ \ {cur[p].id}]
  /\ since' = [since EXCEPT ![p] = 0]
  /\ Done(p)
  /\ UNCHANGED <<clock, row, due, now, draft, claimed, stops>>

\* The run is a message to the schedule's own task, if there still is one.
FollowUp(p) ==
  /\ at[p] = "run" /\ Kind[cur[p].id] = "task" /\ cur[p].task # None
  /\ Done(p)
  /\ UNCHANGED <<clock, row, since, due, now, scripts, draft, claimed, stops>>

\* There is none, it was deleted, or it is too old (ROLLOVER_MS): a new task.
StartTask(p) ==
  /\ at[p] = "run" /\ Kind[cur[p].id] = "task"
  /\ at' = [at EXCEPT ![p] = "link"]
  /\ UNCHANGED <<clock, row, cur, since, due, now, scripts, draft, claimed, stops>>

\* The schedule is told its task, if it is still there.
Link(p) ==
  /\ at[p] = "link"
  /\ row' = [row EXCEPT ![cur[p].id].task =
               IF row[cur[p].id].life = "live" THEN cur[p].conf ELSE @]
  /\ Done(p)
  /\ UNCHANGED <<clock, since, due, now, scripts, draft, claimed, stops>>

-----------------------------------------------------------------------------
Create(s) ==
  /\ row[s].life = "new"
  /\ \E c \in Confs, on \in BOOLEAN :
       row' = [row EXCEPT ![s] = [life |-> "live", conf |-> c, enabled |-> on,
                                  next |-> NextRun[s][clock], task |-> None]]
  /\ UNCHANGED <<clock, at, cur, since, due, now, scripts, draft, claimed, stops>>

\* An edit reads the row ...
Open(e) ==
  /\ draft[e] = NoRow
  /\ \E s \in Schedules : row[s].life = "live" /\ draft' = [draft EXCEPT ![e] = [id |-> s, conf |-> row[s].conf]]
  /\ UNCHANGED <<clock, row, at, cur, since, due, now, scripts, claimed, stops>>

\* Fault: a schedule that stays switched on keeps its next time.
KeepingSave(e) ==
  /\ draft[e] # NoRow
  /\ LET s == draft[e].id
     IN  \/ /\ row[s].life = "live"
            /\ \E c \in Confs, on \in BOOLEAN :
                 row' = [row EXCEPT ![s] =
                   [life |-> "live", conf |-> c, enabled |-> on,
                    next |-> CASE ~on -> Never [] on /\ @.enabled -> @.next
                               [] OTHER -> NextRun[s][clock],
                    task |-> IF c # draft[e].conf THEN None ELSE @.task]]
         \/ row[s].life = "gone" /\ UNCHANGED row
  /\ draft' = [draft EXCEPT ![e] = NoRow]
  /\ UNCHANGED <<clock, at, cur, since, due, now, scripts, claimed, stops>>

\* ... and writes all of it, what it leaves as it was read included.
Save(e) ==
  /\ draft[e] # NoRow
  /\ LET s == draft[e].id
     IN  \/ /\ row[s].life = "live"
            /\ \E c \in Confs, on \in BOOLEAN :
                 row' = [row EXCEPT ![s] =
                   [life |-> "live", conf |-> c, enabled |-> on,
                    next |-> IF on THEN NextRun[s][clock] ELSE Never,
                    task |-> IF c # draft[e].conf THEN None ELSE @.task]]
         \/ row[s].life = "gone" /\ UNCHANGED row
  /\ draft' = [draft EXCEPT ![e] = NoRow]
  /\ UNCHANGED <<clock, at, cur, since, due, now, scripts, claimed, stops>>

Remove(s) ==
  /\ row[s].life = "live"
  /\ row' = [row EXCEPT ![s] = [life |-> "gone", conf |-> @.conf, enabled |-> FALSE,
                                next |-> Never, task |-> None]]
  /\ UNCHANGED <<clock, at, cur, since, due, now, scripts, draft, claimed, stops>>

\* The task is deleted: the row lets it go (onDelete: SetNull).
DropTask(s) ==
  /\ row[s].task # None
  /\ row' = [row EXCEPT ![s].task = None]
  /\ UNCHANGED <<clock, at, cur, since, due, now, scripts, draft, claimed, stops>>

\* A server stops, with the runs and scripts it carries out; its calls fail.
Stop(v) ==
  /\ at[v] # "off" /\ stops < MaxStops
  /\ at' = [p \in Procs |-> IF p = v THEN "off" ELSE IF Host(p) = v THEN "idle" ELSE at[p]]
  /\ cur' = [p \in Procs |-> IF Host(p) = v THEN NoRow ELSE cur[p]]
  /\ since' = [p \in Procs |-> IF Host(p) = v THEN 0 ELSE since[p]]
  /\ due' = [due EXCEPT ![v] = <<>>]
  /\ now' = [now EXCEPT ![v] = 0]
  /\ scripts' = [scripts EXCEPT ![v] = {}]
  /\ stops' = stops + 1
  /\ UNCHANGED <<clock, row, draft, claimed>>

Boot(v) ==
  /\ at[v] = "off"
  /\ at' = [at EXCEPT ![v] = "idle"]
  /\ UNCHANGED <<clock, row, cur, since, due, now, scripts, draft, claimed, stops>>

-----------------------------------------------------------------------------
Execute(p) == \/ Settle(p) \/ SkipScript(p) \/ StartScript(p) \/ ScriptEnds(p)
              \/ FollowUp(p) \/ StartTask(p) \/ Link(p)
Tick(v) == TickStart(v) \/ Claim(v) \/ PassOver(v) \/ Disable(v) \/ RecordMissed(v) \/ TickEnd(v)

Next ==
  \/ Advance
  \/ \E v \in Servers : Tick(v) \/ Stop(v) \/ Boot(v)
  \/ \E p \in Procs : Execute(p)
  \/ \E c \in Calls : RunNow(c)
  \/ \E s \in Schedules : Create(s) \/ Remove(s) \/ DropTask(s)
  \/ \E e \in Editors : Open(e) \/ Save(e)

Spec == Init /\ [][Next]_vars

\* The timer ticks, a step that is out comes back and a stopped server is
\* started again; nobody has to edit, call, remove or stop anything.
FairSpec ==
  /\ Spec
  /\ \A v \in Servers : WF_vars(Tick(v)) /\ WF_vars(Boot(v))
  /\ \A p \in Procs : WF_vars(Execute(p))
  /\ \A e \in Editors : WF_vars(Save(e))

-----------------------------------------------------------------------------
\* What a tick carries out is the schedule as it stands when it is claimed:
\* whoever edits one that is due, or switches it off, before the tick reaches
\* it is not answered with a run of what it was (the claim of tick, which
\* looks at the time alone, with the times that update writes).
FiresAsConfigured ==
  [][\A v \in Servers :
       at[v] = "list" /\ at'[v] \in {"run", "missed"} /\ cur'[v].id \notin Broken =>
         LET r == cur'[v]
         IN  row[r.id].life = "live" /\ row[r.id].enabled /\ row[r.id].conf = r.conf]_vars

\* The times of a schedule are carried out in their order and each once,
\* whatever servers look for them and however long one lies in a list (tick).
OncePerTime ==
  [][\A v \in Servers :
       at[v] = "list" /\ at'[v] = "run" => cur'[v].next > claimed[cur'[v].id]]_vars

RunsScript(p, v, s) == Host(p) = v /\ at[p] = "script" /\ cur[p].id = s

\* On one server a schedule never has two scripts at work, and the mark is
\* set exactly as long as one is (executeScript, runNow beside tick).
ScriptAlone ==
  /\ \A v \in Servers : \A s \in scripts[v] : \E p \in Procs : RunsScript(p, v, s)
  /\ \A p, q \in Procs : \A s \in Schedules :
       /\ RunsScript(p, Host(p), s) => s \in scripts[Host(p)]
       /\ RunsScript(p, Host(p), s) /\ RunsScript(q, Host(p), s) => p = q

\* A time that has come is looked at: claimed, or moved by an edit (tick).
DueIsTaken ==
  \A s \in Schedules : Due(s) ~> ~Due(s)

\* "must not keep feeding the old conversation": a message goes to a task
\* that was started for the agent and chat of the row it is sent for.
OwnConversation ==
  \A p \in Procs :
    at[p] = "run" /\ Kind[cur[p].id] = "task" =>
      cur[p].task \in {None, cur[p].conf}

\* "A run that is overdue by more than this is skipped rather than fired
\* late": what a tick begins is at most Grace late by the clock.
NeverFiredLate ==
  [][\A v \in Servers :
       at[v] = "list" /\ at'[v] = "run" => clock - cur'[v].next <= Grace]_vars
=============================================================================
