# A TLA+ model of the Aigentron orchestrator

Aigentron runs coding agents for people: a person writes a task, the orchestrator
(`src/apps/orchestrator`, a NestJS process over SQLite or Postgres) queues a job
for it, a worker runs an agent in the task's checkout, asks people to approve
risky steps, holds the messages they send meanwhile, and settles the task. What
is hard in it is not any single function; it is that a dozen asynchronous calls
work on the same task row at once. This directory models that part.

Paths below are relative to `src/apps/orchestrator/src`.

## Inventory

| Component | State | Operations | Interacts with |
|---|---|---|---|
| `tasks/tasks.service.ts` | `Task.status`, `PendingFollowUp` rows, `runs` (memory) | create, start, followUp, cancel, markDone, continueRun, startRunning, runSettled, setStatus, drain; subtasks, fan-in, delete | queue (rows), executor (abort), worker, approvals |
| `queue/task-worker.service.ts` | `waiting`, `lastConcurrency`, `decomposeHandedBack` (memory) | process / processLocked, verifyWithFixes, reconcileQueued, lockProject | all of the above |
| `queue/embedded-task-queue.service.ts` | `QueueJob` rows, `inFlight`, `chatInFlight`, caps | enqueue, tick, claimNext, run, removeForTask, startWorker | worker |
| `projects/project-mutex.ts` | FIFO line per project | acquire, release | worker (a waiter lends its slot) |
| `approvals/`, `questions/` | `ApprovalRequest`, `AgentQuestion` rows | check, waitForVerdict, decide, timeout, requestContinuation; ask, answer, close | task status (`needs_approval` and back) |
| `agent/real-agent-executor.ts` | `active`, `guarded` (memory) | run (provider chain), attempt, cancel | worker, cancel |
| `agent/run-watchdogs.ts` | the clock of active time of one attempt | pause, resume, onWindowEnd, clear; idle watchdog | executor, approvals and questions (through the bus) |
| `update/boot-reconcile.service.ts` | none | reconcileOnBoot | approvals, questions, tasks |
| `commands/command-queue.ts` | slots, waiting commands | run, cancelTask, slotsChanged, pump | executor |
| `queue/capacity-gate.ts` | the chain of starts | enter, waitForCapacity | worker |
| `schedules/schedules.service.ts` | `Schedule` rows, the scripts at work (memory) | tick, runNow, execute, executeScript, create, update, remove | tasks, other servers on the same database |
| `discussion/discussion.service.ts` | `active`, one discussion per chat (memory) | start, play, turns, stop, conclude, interject | task status, held messages, jobs of the chat |

The rest (channels, worktrees and git, settings, users and access, maintenance,
provider login, MCP hosting, browser control, knowledge, media, voice, dashboard,
extension, installation) is input and output, record keeping or text;
`PROJECT.json` lists each with the reason it is left out.

What makes this code hard:

* **Interleaving.** One thread, but every `await` is a switch. A status that was
  read is stale after the next await; most writes of a status are unguarded
  (`setStatus`), a few are guarded (`updateMany ... where status in`).
* **Several owners.** The worker's tail, a cancel, an accept, a verdict, a
  timeout, a drain and a sweep all write the same row.
* **Crashes.** Rows survive; `runs`, `active`, the asks' waiters and the claims
  do not. Two reconciles at boot and one sweep put them together again.
* **Timeouts and bounded waits.** A run may outlast the wait of `startRunning`.
* **Limits.** Caps that change live, slots lent while a job waits for a project,
  held messages, continuations.

What makes each component correct: one run per task; no message lost or given
twice; no `running` without a run, nothing parked without an ask, nothing queued
without a job; a settle that drains; a cancel that stops; one attempt per job; an
exclusive checkout; slots that add up and are used; a held subtask released once
and not kept for ever; a lead woken once, when all its subtasks are over; one
verdict per request, final for the agent and never lost to it; no verdict that
revives a task; a clock that neither stands still for good nor fires early; every
attempt within reach of a cancel; heavy commands that use their slots and stop
only for their own reasons; a schedule's time carried out once, as it stands then;
one discussion per chat, which ends, stops soon and leaves no ghost `running`.

## Plan

| # | Module | Subject | State |
|---|---|---|---|
| 1 | `TaskLifecycle`, `TaskLifecycleProofs` | one task: status, held messages, jobs, worker, people, sweep, crash | checked; all safety proved |
| 2 | `JobContract`, `WorkerSlots`, `WorkerSlotsProofs` | the queue's ticks, lanes and slots, the project lock; refines the contract | checked; all safety and the refinement proved |
| 3 | `Subtasks`, `SubtasksProofs` | a lead and its subtasks: `after`, release, wake, escalation | checked; all safety proved (the order without a crash) |
| 4 | `ApprovalGate`, `ApprovalGateProofs` | approvals, secrets, questions and continuations, row and status apart | checked; everything proved |
| 5 | `RunDeadline`, `RunDeadlineProofs` | the clock of one attempt | checked; all safety proved |
| 6 | `RunAttempts`, `ExecutorProofs` | the walk of the provider chain, controllers, guard | checked; all safety proved |
| 7 | `CommandPipeline`, `ExecutorProofs` | the line of heavy commands, tokens, holds | checked; all safety proved |
| 8 | `ScheduleRuns`, `ScheduleRunsProofs` | the ticks of several servers, runs by hand, scripts, edits | checked; all safety proved |
| 9 | `Discussion`, `DiscussionProofs` | a round table in a chat beside the chat's own jobs | checked; all safety proved |
| 10 | the chain of starts | | open |

How they fit together. `TaskLifecycle` is the middle: its job slots are the rows
of `WorkerSlots` for one task, its step "agent" is a run of `RunAttempts`, an
attempt there has the clock of `RunDeadline`, its hooks and `cont` are the rows
of `ApprovalGate`, and a task of `Subtasks` is its life in six statuses. Each of
the outer modules repeats of the middle what it needs, in fewer steps: a run that
ends and a message that is dispatched are one step in `Subtasks` and
`ApprovalGate` and several in `TaskLifecycle`. `WorkerSlots` is composed with the
contract by a refinement; the others are bound by these correspondences alone.

## TaskLifecycle

One task. Tasks share nothing here except the relation of a lead to its subtasks,
the project lock and the queue's slots (the last two are `WorkerSlots`), so more
tasks would only multiply the states.

**Granularity.** A step is one database statement together with the synchronous
code that follows it up to the next `await`. SQLite runs behind one connection
that executes statements in the order they were issued. One place needs that
order: a job that waited in `startRunning` issues its statement in the turn in
which the earlier run settles, so nothing comes between (`Quiet`) but reads that
were issued before it (`Look`).

**State and code.**

| Variable | Code |
|---|---|
| `status` | `Task.status`; `settled` stands for review, blocked, stalled, failed, which every guard here treats alike (`ACCEPTABLE` is exactly that set) |
| `held` | `PendingFollowUp` rows by `createdAt` |
| `pc`, `msg` | where each call in flight stands and the prompt it carries. A process is a slot for a queue row and the worker call that runs it (`Jobs`), a request (`Clients`), or the reconcile of queued tasks (`Sweeper`) |
| `hook`, `open`, `resume` | per call of an agent's hook (`check`, `ask`): before its row, between the row and the write of `needs_approval`; the calls whose row is pending; what is left of `resumeTaskIfClear` |
| `cont`, `conts` | pending offers to continue; the offers ever made |
| `run`, `live` | `TasksService.runs`; the jobs between `startRunning` and `runSettled` |
| `active`, `aborted` | the controller `RealAgentExecutor.active` holds; the jobs whose controller was aborted |
| `ran`, `handedBack` | the task has a session; `decomposeHandedBack` |
| `stopping`, `overran`, `fate` | history: cancels on their way to the abort; a job that started over a live run; what became of each message |
| `stray`, `left` | history: the task was parked with no agent at work, or for an offer already decided; a message was held after the last look for one |

**Actions.** People: `FollowUp`, `Start`, `Cancel*`, `MarkDone*`, `WithdrawHeld`,
`DecideContinuation` with `Approved` / `Denied`. Dispatch of a message, by anyone:
`ClaimTask`, `Enqueue`, `Hold`, `CreateHeld`, `FindHeld`, `DeleteHeld`. The
worker: `Claim`, `WaitRunEnd`, `StartRunning`, `Attach`, `PrepFails`, `AgentEnds`,
`AfterRun`, `Verified`, `FixRound`, `FixStarts`, `FixEnds`, `OutOfSteps`, `OfferPark`,
`OfferWaived`, `Catch`, `WriteStatus`, `Settle`. The agent: `AskTool`, `ScheduleCheck`. A
hook, which the server carries on whatever becomes of the run: `Create`, `Mark`,
`Verdict`, `Count`, `Flip`. After a terminal status was written (`wrote`) and after a
run was untracked (`untracked`) the row is read again before anybody drains:
`AfterWrite`, `Reread`. The sweep: `SweepAtBoot`, `SweepPeriodic`, `SweepAct`.
`Restart` is a crash and the boot after it.

**Parked too late.** Nothing ties a hook's request to the run that made it, and an
offer is parked an await after its row. So `needs_approval` may be written over a task
that a message has just re-queued, or that has no open offer any more, and the
verdict then flips it to `running` with nobody at work. `RunningHasRun` and
`ParkedHasAsk` name this as the one exception (`stray`, which any other write of the
status ends); the behaviour itself is findings 8 and 17. `HeldIsDrained` does the same
for a message that is held after the last look (`left`, finding 18).

**Abstractions.**

* `decideStatus`, the verification gate and the agent's outcome are
  nondeterministic choices among their results; the attempts of a provider chain
  are one step called "agent".
* One step are the read and the insert of the initial run's dedup, the look at the
  tasks and at the queue in the sweep, and the three reads of `check` before its row.
  Who decides a hook's request, and whether the agent hears of it, is `ApprovalGate`.
* The ten minutes of the periodic sweep are modelled as: no job is left and no
  call is about to queue one.
* A held message is identified by its text, and each text is sent once.
* Any number of job slots may be given, and a row needs a free one. With every
  slot waiting for another, a hand-back could block, which the code cannot; the
  liveness runs therefore use a subtask (never handed back). This is the only
  effect of that bound on liveness.

**Bounds.** `MaxHeld` is `MAX_PENDING_FOLLOWUPS` (1: the limit, and a second
message at it, are reached), `MaxContinuations` is the setting of that name (0 or
1: offered, then handed back, then given up), `MaxCrashes` bounds the model, `Hooks`
are the hook calls in flight. The run with people has a constraint (`Bound` in
`MCTaskLifecycle`): the sweep, which `TaskLifecycleRestart` explores, does not act
there, and a task that was handed back is followed until that run has settled; what
comes after repeats what came before. The theorems need none of these bounds.

**Fairness** (`Fairness`). Every await of the worker returns: an agent has a
deadline, an ask a timeout, statements complete. The queue polls, requests that
began are carried to their end, the sweep runs on a timer. People and agents
promise nothing. The end of the verification gate is strongly fair because
rounds of fixing are bounded in the code and not in the model.

Deadlock checking is off in every run because the system may really stop: a task
is done and nobody sends anything.

## WorkerSlots and JobContract

`WorkerSlots` is the queue driver with all its jobs. `TickStarts`, `FindDue` and
`ClaimDue` are the statements of `tick` / `claimNext`, and several ticks overlap
because the timer, `setImmediate` and every freed slot start one. `Acquire` and
`Release` are `lockProject` over `KeyedMutex`: a job that must wait lends its slot
(`waiting`, `Apply`), and whoever releases hands over within the same turn.
`Resize` is `syncConcurrency`, `Restart` drops the claimed rows. What a job does
inside is `TaskLifecycle`; here it may take for ever, so nothing assumes that a
job ends. Left out: the start throttle before the lock (it delays, and holds no
lock), delayed rows (a row is enqueued when it is due), an error of a statement
within a tick (the next tick repeats it).

`JobContract` is the contract in `queue.constants.ts`: a job that was accepted is
started at most once and never comes back. `OneAttempt` says that `WorkerSlots`
implements it, with `waiting` the unclaimed rows, `running` the calls in flight
and `attempts` the starts.

## Subtasks

A lead, its subtasks, and everyone who may be in the middle of a release: the
worker's call of each task, tool calls of the lead's agent, people, the sweep and
the reconcile at boot. The three places where the code protects itself by an
atomic write are steps of their own (`ClaimDependent`, `ClaimWake`, `Deliver`), and
so is every read before them (`Inspect`, `WakeRead`, `Escalate`).

| Variable | Code |
|---|---|
| `st`, `kids`, `waitingFor`, `awaiting` | `Task.status`, `parentId`, `waitingFor`, `awaitingSubtasks`; review and done are `ok`, blocked and stalled are `blocked`, needs_approval counts as `running` |
| `jobs`, `held`, `runs` | queue rows by task, the lead's `PendingFollowUp` rows (a number), `TasksService.runs` |
| `pc`, `todo`, `dep`, `wants` | per caller: its await, the held rows it has still to settle, the one it settles or creates, what that one waits for or what a wake reports |
| `after`, `well`, `pushed`, `released`, `swept`, `told`, `phase`, `trouble` | history |

`Resolve`, `CreateRow`, `EnqueueNew`, `Arm` are `createSubtask`: the lead is marked
as waiting last, so a quick subtask may end before it is. `Inspect`,
`ClaimDependent`, `Act` are `releaseDependents` and `settleDependent`; `WakeRead`,
`ClaimWake`, `SendWake` are `wakeIfSubtasksDone`; `Escalate`, `SendQuestion` are
`escalateNeedsInput`; `Start`, `EndRun`, `Settle` the worker's call; `Accept` both
ways to accept; `Cancel`, `Message`, `Reopen`, `Delete`, `Promote` what people do;
`SweepHeld`, `SweepQueued` the sweep; `Crash`, `Orphan`, `Booted` a restart. A
delete waits for the run it cancels; here it is enabled when there is none. The two
reads of `settleDependent` are one step: whatever changes between them the claim sees.
The one pass of the sweep at boot, which has no age limit and overlooks claimed rows,
is in `TaskLifecycle` (finding 3); here every pass is the periodic one.

Bounds: `Phases` is the number of runs of the lead in which its agent may create
subtasks. `Subtasks` has two subtasks, created by two overlapping calls in one run
or in two, with every `after`: a wake, a new subtask and a second wake are reached.
`SubtasksThree.cfg` (by hand) adds the third subtask, so a chain and a parallel pair
inside one run. `SubtasksTrouble` has two subtasks of one run and one arbitrary
disturbance (`MaxTrouble`), each race with a single outsider. It stays at one
creating run because with two `LeadIsTold` is false, see finding 16, and subtasks end
well there but for the disturbance, so "hears of every end" is said of those. Fairness: runs end, awaits return, the sweep is on a timer;
an agent never has to create anything and people never have to act.

## ApprovalGate

The requests of one task: approvals (some for a secret), questions, offers to
continue. `row`, `status` are the database; `hook`, `recheck` the agent's call and
its re-reads of the row; `acting` what the one who decided has still to do;
`closing` the questions that `cancelForTask` found; `asked`, `choice`, `pc` people's
requests between their read and their claim. `Ask`, `Mark`, `Subscribe`, `Recheck`,
`Expire` are `check` / `ask` with `waitForVerdict` / `waitFor`; `Read`, `Store`,
`Claim` are `decide`, `answer` and `submitSecret`; `Publish`, `Continue`, `GiveUp`,
`Count`, `Flip` are what follows a verdict (`resumeTaskIfClear` is the last two);
`Offer`, `OfferPark`, `Waive` are `requestContinuation`; `Restart` is a crash and the
reconcile of approvals and questions at boot.

A waiter's timer may fire at any time it listens, so every order of a timeout and
an answer is there. Bounds: one request of each kind, one person, two runs, one
crash; several people and requests meet only in the guarded write, and the
theorems hold for any number of them.

## RunDeadline

The clock of an attempt's active time with its timer, holds and extensions
(`trackRunDeadline`), what holds it (the agent's question and approval cards through the
bus), the request for more time (`deciding`, `verdict`) and the idle watchdog.
Time is counted in units: `Tick` passes one while the timer is set; `used` counts
what has passed. `Pause`, `Resume`, `Extend`, `Expire`, `TooLate`, `Clear` are the
clock's methods, and the other actions call them as the code does. Bounds: a
window of 2, 1 or 2 more by itself up to 3, one unit per person's yes up to
`MaxGranted` 5, two cards: every combination of reasons to hold is reached.

Fairness: `Tick` and `TimerFires` are strongly fair, because the clock is stopped
and started over and over while cards come and go, and the code loses no active
time doing so. Requests to people are answered or time out (weak fairness of
`Release` and of a refusal), an aborted agent ends. Nothing says that an agent
ends by itself: `AttemptEnds` is the ceiling's work.

## RunAttempts

One task's runs in the executor: `Begin` chooses a new request, a fix on the
ladder or a follow-up; `Attempt` installs the controller; `Report`, `AgentEnds`,
`ResumeEnds`, `AgentThrows`, `Judge` are how an attempt ends; `Leave` is its `finally`
and what the run does next (again without the session, the next provider, a
stronger model, over). Two runs overlap, as `TaskLifecycle` shows they can when
one outlasts the wait. The agent that is resumed for its report (`reportingResume`) has
a controller of its own with only a timer: `Stoppable`, and so `NoneOutOfReach`, are
about the attempt's own agent, and finding 19 is what the difference means. `Cancel`, `MemoryStop`, `OutOfTime` may come at any time.
The chain of the instance has a step of the ladder and a fallback.

## CommandPipeline

Heavy commands of three attempts of two tasks. `CommandQueue` is synchronous
between awaits, so a step is a whole call with its `pump`. `Register`,
`Unregister`, `CancelTask` handle tokens; `Call`, `TurnDown`, `RunLight`, `Enqueue`,
`Busy`, `Open`, `End`, `HangUp`, `SlotsChanged` the commands; `Pump` and `Show` are
what they share. `Without` is the line after `cancel` took commands out of it: its
n-th command is the one with n kept places up to its own, which says the same as
a filter and can be reasoned about without recursion. The specification's formulas
are `CQInit`, `CQNext`, `CQSpec`, since its theorems share a module with those of
`RunAttempts`. Bounds: two slots or none configured (which counts as one), three
heavy commands so that one waits behind two, two attempts of one task so that the
end of one meets the other's. Fairness: a command that holds a slot leaves it, since the gate's
wait is bounded and a command has a time limit (`Open`, `End`).

## ScheduleRuns

Schedules, the servers that look for due ones, people who run, edit and remove
them. `row` is the `Schedule` table, where `Never` is a null `nextRunAt` and `conf`
stands for the agent, chat and project of a row; `at` and `cur` are where a server's
tick or a call stands and the row it goes by, as it was read; `due` and `now` the
rows a tick has still to look at and the one time by which it judges them; `scripts`
is `this.scripts`; `draft` the row an edit has read. `claimed` is history.

`TickStart`, `Claim`, `PassOver`, `Disable`, `RecordMissed`, `TickEnd` are `tick`;
`RunNow` is `runNow`; `Settle`, `SkipScript`, `StartScript`, `ScriptEnds`, `FollowUp`,
`StartTask`, `Link` are `execute` and `executeScript`; `Open` and `Save` are the two
halves of `update`; `DropTask` is the foreign key's `SetNull`; `Stop` and `Boot` a server.

The clock: only a script takes time on its scale (up to six hours against a tick of
seconds), so `Advance` waits for every other step that is on its way, and an idle
server ticks before it goes on. Two consequences to keep in mind: a server that
was off finds rows that are late (`missed`), and one with a script at work lets the
clock pass while its list waits. `Broken` are schedules that cron may refuse when a
tick looks at them; `FiresAsConfigured` leaves those aside, since `Disable` writes
`enabled` without a new time.

The claim compares only the time (`where: {id, nextRunAt}`). That it still cannot
take a row as it was before an edit rests on `update` writing a new time or null with
every edit; this is what `FiresAsConfigured` is about and what its proof needs.

`ScriptAlone` is per server, as `this.scripts` is: two servers may run one script at
once when its times overlap, though the comment of line 100 says without that limit
that "a schedule never runs two at once". `Save` computes the next time and writes the row in one step, with the
clock standing still while an edit is open; in the code an await lies between.

Bounds: two servers, an hourly script (whose cron may be refused) and an hourly task,
one editor, two contents of a schedule (`Confs`), one call, one row per tick (so that a
second server finds a row the first has read), no grace, scripts of up to one hour, two
hours, one stop. A constraint (`Bound` in `MCScheduleRuns`) has the editor edit the task
and the call start the script. `SchedulesServed.cfg` checks, with
fairness, that a due row does not stay due (`DueIsTaken`).

## Discussion

One chat and its task. `active` is `DiscussionService.active` of the chat, `pc` where a
request to start, and then its loop, stands; `turn`, `failures`, `stop`, `conclude`,
`ended` are what `play` knows; `at` is where each message is (`human`: taken by the
discussion; `lost`: gone with it); `run` a job of the task; `cancel` a cancel between
its two writes. `extra` is history.

`Start`, `Enter`, `SetRunning` are `start`, between whose read of the status and whose
write a message, a job or another start may come; `Top`, `TurnBegins`, `TurnEnds`,
`Back`, `Closing`, `SummaryBegins`, `SummaryEnds`, `Noted`, `Leave`, `WriteOutcome` are
`play`, `halted`, `turnOf` and `note`; `Send` and `Deliver` are `followUp`; `StartJob`,
`EndJob`, `Cancel`, `CancelWrite` are the task's own life in one or two steps each;
`Crash` a restart with its reconcile of running tasks. `SetRunning` does not fail: if the
database refused that write, the entry would stay in `active` until the server stops
(113 is outside the `try` of `play`).

Bounds: two requests, one message, three turns of two agents and a summary, a crash.
Fairness: agents' turns have a deadline and statements come back (`Play`, `Deliver`),
jobs start and end; nobody has to stop, conclude or cancel anything.

## Runs

| Run | Instance | Question |
|---|---|---|
| `TaskLifecycle` | 2 jobs, 1 request, 1 message, 1 continuation, 1 hook call | every safety property with people and a late hook at the worst moments (3.9 million states) |
| `TaskLifecycleRestart` | 2 jobs (the run and a re-check), 2 crashes, overruns, fair | what boot must repair; a re-check is held; a queued task is served |
| `WorkerSlots` | 4 jobs (two of one shared project, one of another, one chat), 2 ticks, caps 1 and 2, 1 crash, fair | one attempt, exclusive projects, slots that add up and are used |
| `Subtasks` | 2 subtasks by 2 calls in 1 or 2 runs of the lead, ends well or in need of a person | order of dependents, wakes with news and without a falsehood |
| `SubtasksTrouble` | 2 subtasks, one disturbance of 9 kinds, fair | released once, not kept for ever, the lead of one creating run hears of every end |
| `ApprovalGate` | a secret, a question, an offer, 1 person, 2 runs, 1 crash | one final verdict that arrives and revives nothing (6.4 million states) |
| `RunDeadline` | 2 cards, window 2, up to 5 units, fair | the ceiling holds, and is not early |
| `RunAttempts` | 2 overlapping runs, chain of 3 | each attempt's own agent can be stopped, a report stands |
| `CommandPipeline` | 3 heavy and 1 light command, 3 attempts, 2 tasks, 1 or 2 slots, fair | slots used and not exceeded, nobody else's command stopped |
| `ScheduleRuns` | 2 servers, 2 schedules, 2 contents, 1 editor, 1 call, 1 stop, clock 2 | each time once and as configured, edits of all three kinds included; scripts alone (0.65 million states) |
| `Discussion` | 2 starts, 1 message, 3 turns, 1 crash, fair | one discussion, no ghost `running`, soon stopped, ended |
| `SubtasksWake` | the smallest instance that shows it | a sentence of the code and its docs that the code does not keep |

Larger instances, to be started by hand: `TaskLifecyclePeople.cfg` (a request
of a person beside two crashes and overruns), `TaskLifecycleChecks.cfg` (three jobs and
two messages: two re-checks beside a run), `SchedulesServed.cfg`, `SubtasksThree.cfg`
(three subtasks in two runs of the lead). They pass in about a minute each, the last
in five. The type invariants of the modules whose `TypeOK` is proved are not run
again.

Two jobs are enough for overlap of a run with its successor; a third brings a
second waiter, which `TaskLifecycleChecks.cfg` has. One request at a time can still
meet the worker, the sweep, a timeout and the other job between any two of its
statements; two requests at once only meet each other in guards the code takes
in one statement (`updateMany`). Two ticks are enough to race for a row and for a
slot. Where a theorem covers a property, the bound only limits the search for
mistakes in the model.

Every property is broken by a small fault in the model (a dropped guard, a
forgotten case): the faulty operators stand right before the ones they replace,
and nothing uses them. Deadlock checking is off in every run because the system
may really stop; the reason is in each `.cfg`.

## What the code does and its comments or docs do not say

1. **SubtasksWake** (`tasks.service.ts:376`). The sweep claims the release of a held
   subtask whose predecessor ended badly. The predecessor's settle and the end of
   the lead's run find it still open and wake nobody. The sweep then blocks it,
   which wakes nobody either: all subtasks are over and the lead is not resumed,
   although the comment and `docs/subtask-after.md` say it is woken. Only the fan-in
   behind a run's settle, `promoteToRoot` and the sweep, for a lead it stalls, try a
   wake at all. `LeadIsTold` is what does hold.

The others can be looked at by hand, with `tlc -config X.cfg` on the module's MC
module; each ends in a counterexample (a `.cfg` that serves several properties has one
of them in force and the others behind `\*`):

2. `TaskLifecycleCancel` (`real-agent-executor.ts:146`, `CancelStopsAgent`). A cancel
   while the run is being prepared finds no controller; the agent starts on a
   cancelled task, although `tasks.service.ts:1033` says "abort the in-flight run
   last — its worker then sees `cancelled`".
3. `TaskLifecycleBootSweep` (`task-worker.service.ts:92`). The sweep at boot starts
   after the worker: a job that survived the restart and was claimed a moment ago
   counts as lost.
4. `TaskLifecycleBootDrain` (`boot-reconcile.service.ts:43`). A task parked on an
   ask is stalled directly in the database; its held messages stay held.
5. `TaskLifecycleAbort` (`task-worker.service.ts:291`). A message sent right after
   a cancel re-queues the task, and the aborted run then writes over `queued`.
6. `TaskLifecycleTwice` (`tasks.service.ts:707`). The result of the delete is
   ignored, so two drains may both dispatch one message.
7. `WorkerSlotsCap` (`embedded-task-queue.service.ts:99`). The cap is checked
   before an await and counted after it: overlapping ticks exceed it by one each.
8. `ApprovalGateParked` (`approvals.service.ts:441`, `ParkedHasRequest`). The row exists
   before the task is parked, with an await or two between: a person who is quick leaves
   it parked with nothing open. `ParkedHasAsk` of `TaskLifecycle` has this as its exception.
9. `SchedulesLate` (`schedules.service.ts:274`, `NeverFiredLate`). A script in front of
   another row of one list lets that row fire later than the grace allows, because
   the list is judged by the time of its reading; line 48 says such a run "is skipped
   rather than fired late".
10. `SchedulesConversation` (`schedules.service.ts:408`, `OwnConversation`). An edit
   clears the row's task, because another agent or chat "must not keep feeding the
   old conversation" (225); a run that began before the edit then writes its task
   into the row, and the next run continues it.
11. `DiscussionRaces` (`discussion.service.ts:224`, `InterjectionIsAnswered`). A message
   taken during the last turn is shown to nobody; line 119 says "it joins the
   conversation and is answered first".
12. `DiscussionRaces` (`discussion.service.ts:237`, `CancelStays`). A cancel between
   the last read of the status and the write of the outcome is undone; a test
   (`discussion.service.test.ts:66`) is named "a cancelled chat ends the loop without
   touching its status".
13. `DiscussionRaces` (`discussion.service.ts:113`, `NoRunBeside`). A message claims the
   task for a job between the read of the status and the write of `running`; line
   106 tells people to "wait until the agent has finished".
14. `SubtasksCrash` (`tasks.service.ts:370`, `RunsAfterSuccess`). The release of a held
   subtask whose predecessor failed empties `waitingFor` first and writes `blocked`
   after it. The process dies in between; the sweep then finds a queued task without
   a job that never ran, and starts it (`queue/queued-reconcile.ts:13`), although
   `docs/subtask-after.md` says "the held subtask is `blocked`".
15. `NothingStartsAgain` and `WaitIsShown` of `CommandPipeline`, and
   `CancelledLeadStaysOver` of `Subtasks`, as a property of the module's run: a
   command past its token check starts after the task's cancel; a task's hold goes
   with the first of its commands that ends; a wake on its way opens a lead that
   was cancelled.

16. `SubtasksStaleWake` (`tasks.service.ts:518`, `WakeIsCurrent`). A wake reads that all
   subtasks are over (507), and claims with `where {id, awaitingSubtasks: true}`, which
   says nothing of what was read. If another caller's wake, and a whole run of the
   lead that creates a subtask and sets the flag again, fit between the two
   statements, the claim takes the new flag: the prompt "All n subtasks you created
   have finished" (528) counts without the open one, and nobody tells the lead of its
   end (`LeadIsTold` fails too with `Phases = 2`). A statement has to be held up for a
   whole run of an agent, so this needs a pool of connections (Postgres) with one
   that stalls; on SQLite's one connection the claim follows its read. What holds
   without any such assumption is `WakeFindsAllOver` and `WakeHasNews`.

17. `TaskLifecycleLate` (`approvals.service.ts:278`, `RunningIsRun`, `ParkedOverLiveRun`).
   A check of a hook is on its way between its reads and its row when its run is
   cancelled and settles and a message re-queues the task: it parks the queued task, the
   job finds it busy, and the verdict turns it `running` with no run. Line 1162 of `tasks.service.ts` says `needs_approval` is "only
   written over a live run (`running`/`queued`)"; a queued task has none.
18. `TaskLifecycleLate` (`tasks.service.ts:636`, `HeldInTime`). A message that was read as
   coming to a live task is held just after the run has settled and drained: it waits
   until the task is started by something else and ends again.
19. `RunAttemptsReach` (`real-agent-executor.ts:1414`, `CancelStopsAll`). The resume for a
   report has its own controller, which neither a cancel nor the memory guard reaches:
   the agent goes on for up to its timer, and its report counts.
20. `RunAttemptsReach` (`real-agent-executor.ts:1319`, `GuardKnowsNewest`). An old attempt
   deletes the memory guard's entry of the task, a newer attempt's too (the line before
   it compares), and the guard then cannot stop the newer one.

Two behaviours of the executor are in the models without a property: a cancel
between two attempts is not looked at (440), and the failover is decided before
the last words of the agent are in (1290-1312); the last is why `ReportIsFinal`
has to look at both.

## Proofs

For each component there is an inductive invariant (`IInv`, for the pipeline
`CQInv`, and what a property needs beyond it), a lemma that the initial states satisfy
it, lemmas that every action keeps it, and the theorems. They hold
for all values of the constants that satisfy the module's assumptions.

`TaskLifecycleProofs`: `TypeOK`, `OneRunPerTask`, `MessageAccounted`, `RunningHasRun`,
`ParkedHasAsk`, `HeldIsDrained`. `OneRunPerTask` speaks of the jobs that are live; what
keeps a second one out is the entry in `runs`, the wait for it and the order of the
wake. `IInv` says so:

* `Carrying`: whoever is about to delete, claim, hold or create carries a prompt
  (needed for the types: what is held is never `None`);
* `WorkersLive`: a job inside its run is in `live`;
* `LiveTracked`: without an overrun, the live jobs are exactly the one in `run`;
* `WokenSafely`: a job that was woken finds no live run, or a task that is
  `running` again, in which case the guarded transition refuses it.

The guard of `Started` alone would not do, because the worker writes the status
before it leaves the checkout; nor would the wait alone, because several jobs are
woken by one settle. The second of them is stopped by the guard.

* `RunLive`: the run that `runs` tracks has not settled, so whoever leaves the drain to
  it leaves it to somebody.

The other four invariants are inductive together with two more facts (`MInv`):

* `EmptyHanded`: only a job on its way to an agent and a process that dispatches carry
  a prompt. `MessageAccounted` needs it: a request, a sweep or a job takes a new prompt
  into its hand in many places, and each must be a hand with nothing in it. A message
  then leaves a hand only for a row, another hand, an agent, or with its fate noted;
* `Attended`: unless it was parked astray, `running` has a worker call that has not
  written its status yet, a decision on its way or an open offer, and so has
  `needs_approval`. The properties say `live`, which is weaker: a job that has written
  its status is still live, and would not help a task that is turned back to `running`
  after it. So the proof shows that no step does that: a hook that parks the task with
  no agent at work, and an offer that parks it when it was decided, set `stray`; the
  flip of a verdict keeps whoever attended the parked task; every other write of a
  status is made by one who attends it.

`HeldIsDrained` is about the two awaits at which a drain could be missed: a terminal
status is written and `runs` is looked at after another read (`AfterWrite`), a run is
untracked and the status is read after that (`Reread`). Whoever comes first, the other
still looks: a writer that finds a run tracked has, by `RunLive`, a worker that has not
settled, and a worker that has untracked its run reads the status after the write. What
escapes is a message held after both (`left`).

`WorkerSlotsProofs`: `TypeOK`, `ProjectExclusive`, `SlotsBalance`, and `OneAttempt`, the
refinement of `JobContract`.

* `InLine`, `Lined`: the line of a project holds exactly the calls that are inside
  or wait for it, once each, the first of them inside. Two calls inside one
  project would both be first (`ProjectExclusive`). The uniqueness is what makes
  the hand-over of `Release` right: the one it wakes is not in the line again.
* `Books`: counters are cardinalities, kept by adding and removing one element.
* `DueRight`, `Fresh`, `FoundRight`: the unclaimed rows are the jobs in stage
  `due`, once each and never started before, and a tick that is about to claim has
  found a row of its lane. So a claim that still finds its row is a `Start` of the
  contract, and one that does not is a stutter; a restart ends all calls at once.

`ApprovalGateProofs`: `TypeOK`, `ToldIsFinal`, `DecidedOnce`, `SecretIsSaved`,
`VerdictReachesAgent`, `NeverRevived`.

* `Counted`: a request was decided once if its row says so and never otherwise,
  which is the guarded write seen from outside;
* `Answering`: a person on the way to the claim of a secret's approval has saved
  it; `Hooked`: a hook stands behind a row.
* `VerdictReachesAgent` is inductive with them: the subscription comes before the
  first read, so a verdict finds the waiter or the waiter finds the verdict.
* `NeverRevived` needs `Hooked` only for types; its cases are the writes of the
  status, all guarded but those that end a task.

`SubtasksProofs`: `TypeOK`, `ReleasedOnce`, `WakeHasNews`, `WakeFindsAllOver`, and, assuming
that `Acts` has no crash, `RunsAfterSuccess` (with a crash it is false, see 14).

* `Creating`, `Fresh`: a subtask that is being created is in nobody else's hands, so
  what others know of theirs stays; `Once`: a row that still waits was not released;
* `Knows`: whoever has claimed a subtask holds in `wants` all that did not end well.
  This is a fact about the past (`well`): a predecessor may be started again between
  the read and the claim;
* `Started`: what has a job is good, and a queued row that waits for nothing is good
  or in the hands of the one who is about to block it. The second half is what a
  crash breaks;
* `Undisturbed`, for the wakes, as long as no person and no crash has interfered (the
  properties say so, by `Untouched`: a person may reopen what a wake reports):
  `Reported`, what a wake has in hand is over and stays so; `Owed`, while the lead
  waits there is a subtask it was not told of that no wake on its way tells it of;
  `OneReport`, a wake that reports all there is has that subtask alone. The claim of
  the flag turns `Owed` into `OneReport`, and the flag that `createSubtask` sets
  (`Newcomers`: nobody has heard of the one it creates) makes `Owed` true again. The
  first formulation, without "all there is", was not inductive for the reason
  finding 16 gives.

`RunDeadlineProofs`: `TypeOK`, `ClockRuns`, `TimeoutIsEarned`.

* `Accounted`: what is used and what is left add up to what was granted;
* `Counted`: the clock has as many holds as there are reasons, while the attempt
  listens; `ExtensionOpen`: the card for more time holds it only while open;
* `TimerRight`: when the timer is set, and when it must be. `ClockRuns` is its last
  line with `Counted`.

`ExecutorProofs`, on `RunAttempts`: `TypeOK`, `NoneOutOfReach`, `ReportIsFinal`.
`Owned`: the controller of an attempt that is not over is installed or aborted.
`GoneSilent` and `WorthSilent` say that the two reasons to try again other than a
stronger model exist only without a report.

`ExecutorProofs`, on `CommandPipeline`: `CQTypeOK`, `NoIdleSlot`, `LimitRespected`,
`HoldIsTrue`, `OnlyOwnStops`, for any finite set of commands.

* `Lined`: the line holds exactly the commands that wait, each once. So the first k of
  it are k commands (`Sliced`), none of which holds a slot already, and a pump
  raises the number of active ones by just k (`PumpFacts`); `TakenFits` is the arithmetic
  of the free slots. `Thinned` says of `Without` that it takes out what it is told and
  nothing else: its ranks are an injection into as many numbers, hence onto them;
* `LightRuns`: what bypasses the queue is never in it; `Known`: a command was called
  with a token that was valid, so the end of its task finds the attempt it belongs to
  among those that end or have ended (`OnlyOwnStops`);
* every step is either `Calm` (who holds a slot stays, and the line only shrinks) or a
  pump with the guarantees of `PumpedFor` (`StepSound`), and both properties of the
  slots follow from that alone;
* `HoldIsTrue`: whoever clears the hold of a task names a reason, and whoever leaves it
  keeps a command that waits; a stop is the only step that takes such a command from
  the line without being its own end, and it clears the hold of its task.

`ScheduleRunsProofs`: `TypeOK`, `OncePerTime`, `FiresAsConfigured`, `ScriptAlone`.

* `ListDue`: what a tick holds was due by its own `now`, which is not after the clock;
* `ListAsRead`: a row that still has the time at which it was read is enabled and as
  it was read (or cron may refuse it); one that was written since has a later time or
  none. Every write of a row keeps this (`Fits`): an edit counts the next time from
  the clock, which is past every time in a list, and a claim from the tick's `now`;
* `Ahead`: the next time of a row is later than all that were carried out.

So a claim that matches the time matches the row, and each time once. `OnlyClaim`
says that no other step begins a run of a tick.

`DiscussionProofs`: `TypeOK`, `OneDiscussion`, `RunningHasOwner`, `StopsSoon`.

* `OneDiscussion` and `RunningHasOwner` are inductive: the look at `active` and its
  writing are one step, only a discussion that plays frees the chat, and between the
  end of a play and the write of its outcome the request itself stands for it;
* `Bounded`: two failures are only ever seen on the way to the end (needed for the
  types);
* `StopRight`: a turn that began after a stop is the one turn, it is still stopped,
  and it is on its way to the look at the flag that ends the play.

Only model-checked: liveness under fairness (`QueuedIsServed`, `SlotsAreUsed`,
`HeldIsReleased`, `LeadIsTold`, `AttemptEnds`, `EachIsServed`, `DiscussionEnds`), which the
prover does not handle. Every invariant and action property of the passing runs has a
theorem.

## Not modelled

* The BullMQ driver: its concurrency is the library's and Redis's; the code here
  is a thin layer, and the contract is the one `JobContract` states.
* Of schedules: how cron and time zones give the next time (a constant function
  that is later than its argument), when quiet hours are (a choice), what a run
  reports and where it is posted, a change of what a schedule does. Of discussions:
  what is said, who agrees (a choice), and the chat that a start without one creates.
* The chain of starts in `capacity-gate.ts` (delays only, holds no lock), the order
  of the provider chain and cooldowns (a constant chain here).
* Exceptions and the rules that decide whether a call needs approval, duplicate
  subtasks, the text of reports, prompts, transcripts: pure text rules with table
  tests of their own.
* Worktrees, git, publishing, previews, maintenance, update, MCP hosting, browser
  control, provider login, knowledge, media, voice, channels: file system, network
  and host. Settings, users, access, secrets: records. Dashboard and extension:
  they call what is modelled here.
