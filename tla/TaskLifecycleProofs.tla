------------------------ MODULE TaskLifecycleProofs ------------------------
(***************************************************************************)
(* Theorems about TaskLifecycle, for any sets of job slots, requests and   *)
(* messages and any bounds: the variables keep their types; no two runs of *)
(* the task are live at once unless one outlasted the bounded wait of      *)
(* startRunning; no message is lost without a reason; `running` has a run  *)
(* and a parked task an ask, or someone about to write, unless it was      *)
(* parked astray; and a task that is over with messages held for it has    *)
(* somebody on the way to drain them, unless they came too late.           *)
(***************************************************************************)
EXTENDS TaskLifecycle, FiniteSetTheorems, TLAPS

\* Whoever is about to delete, claim, hold or create carries a prompt.
Carrying ==
  \A p \in Procs : pc[p] \in {"delete", "claim", "hold", "create"} => msg[p] # None

\* `runs` knows the one live run, until a start was forced over it.
LiveTracked == overran \/ live = {run} \ {None}

\* Until it has settled, a worker call between startRunning and runSettled is live.
WorkersLive ==
  \A j \in Jobs :
    pc[j] \in {"prep", "agent", "ended", "verify", "refit", "fixing", "count",
              "offer", "approved", "catch", "write", "finish", "tail"} => j \in live

\* A job that was woken finds no live run, or a task already running again.
WokenSafely ==
  overran \/ live = {} \/ status = "running" \/ \A j \in Jobs : pc[j] # "resumed"

\* The run that `runs` tracks has not settled.
RunLive == run # None => run \in live

IInv ==
  TypeOK /\ Carrying /\ WorkersLive /\ LiveTracked /\ WokenSafely /\ RunLive

USE DEF Procs

LEMMA NoneIsNoMessage == None \notin Msgs \cup {Continue} /\ None \notin Jobs
BY SlotsAssumption DEF SlotsAssumption

\* A sequence without one of its elements is still a sequence of the same set.
LEMMA WithoutOne ==
  ASSUME NEW S, NEW s \in Seq(S), NEW i \in DOMAIN s
  PROVE  SubSeq(s, 1, i - 1) \o SubSeq(s, i + 1, Len(s)) \in Seq(S)
<1>1. i \in 1..Len(s) /\ Len(s) \in Nat /\ \A k \in 1..Len(s) : s[k] \in S
  OBVIOUS
<1>2. SubSeq(s, 1, i - 1) \in Seq(S)
  BY <1>1
<1>3. SubSeq(s, i + 1, Len(s)) \in Seq(S)
  BY <1>1
<1> QED BY <1>2, <1>3

LEMMA PCs ==
  /\ PC = {"free"} \cup JobPC \cup DispatchPC \cup ClientPC \cup SweepPC
  /\ \A x \in {"free", "queued", "claimed", "waiting", "resumed", "prep", "agent",
             "ended", "verify", "refit", "fixing", "count", "offer", "catch",
             "write", "finish", "tail", "untracked", "wrote", "find", "delete",
             "claim", "enqueue", "hold", "create", "dropHeld", "dropJobs",
             "cancelled", "abort", "doneJobs", "done", "approved", "denied", "look",
             "act"} : x \in PC
BY DEF PC, JobPC, DispatchPC, ClientPC, SweepPC

LEMMA InitInv == Init => IInv
<1> SUFFICES ASSUME Init PROVE IInv
  OBVIOUS
<1>1. TypeOK
  <2>1. status \in Status
    BY DEF Init, Status
  <2>2. held \in Seq(Msgs \cup {Continue})
    BY DEF Init
  <2>3. pc \in [Procs -> PC] /\ msg \in [Procs -> Prompts]
    BY PCs DEF Init, Prompts
  <2> QED BY <2>1, <2>2, <2>3 DEF Init, TypeOK
<1>2. Carrying
  BY DEF Init, Carrying
<1>3. WorkersLive /\ LiveTracked /\ WokenSafely /\ RunLive
  BY DEF Init, WorkersLive, LiveTracked, WokenSafely, RunLive
<1> QED BY <1>1, <1>2, <1>3 DEF IInv

LEMMA StartInv ==
  ASSUME IInv, NEW j \in Jobs, StartRunning(j)
  PROVE  IInv'
<1> USE PCs DEF IInv, StartRunning, At, Goto, shown, calls, asks, agent, runs
<1>1. CASE Started(j)
  <2>1. TypeOK'
    BY <1>1 DEF Started, Put, TypeOK, Wake, Status
  <2>2. Carrying' /\ WorkersLive'
    BY <1>1 DEF Started, TypeOK, Carrying, WorkersLive, Wake
  <2>3. LiveTracked' /\ RunLive'
    BY <1>1, NoneIsNoMessage DEF Started, Put, TypeOK, LiveTracked, WokenSafely, RunLive
  <2>4. WokenSafely'
    BY <1>1 DEF Started, Put, WokenSafely
  <2> QED BY <2>1, <2>2, <2>3, <2>4
<1>2. CASE Busy(j)
  BY <1>2 DEF Busy, TypeOK, Carrying, WorkersLive, LiveTracked, WokenSafely, RunLive
<1>3. CASE Gone(j)
  BY <1>3 DEF Gone, TypeOK, Carrying, WorkersLive, LiveTracked, WokenSafely, RunLive,
          Dropped, Fate, Prompts
<1> QED BY <1>1, <1>2, <1>3

LEMMA SettleInv ==
  ASSUME IInv, NEW j \in Jobs, Settle(j)
  PROVE  IInv'
<1> USE PCs DEF IInv, Settle, At, rows, shown, calls, asks
<1>1. TypeOK'
  BY DEF TypeOK, Wake
<1>2. Carrying' /\ WorkersLive'
  BY DEF TypeOK, Carrying, WorkersLive, Wake
<1>3. LiveTracked' /\ WokenSafely' /\ RunLive'
  BY NoneIsNoMessage DEF TypeOK, LiveTracked, WorkersLive, WokenSafely, RunLive
<1> QED BY <1>1, <1>2, <1>3

\* continueRun, by whoever decides: a worker call or a person's request.
LEMMA ContinueInv ==
  ASSUME IInv, NEW p \in Procs, Quiet, ContinueRun(p), pc[p] \in {"count", "approved"},
         handedBack' \in BOOLEAN,
         UNCHANGED <<held, calls, cont, conts, ran, runs, agent, stopping, fate, crashes>>
  PROVE  IInv'
<1> USE PCs, SlotsAssumption DEF SlotsAssumption, IInv, TypeOK, Carrying, WorkersLive,
        LiveTracked, WokenSafely, RunLive, Quiet, calls, agent, runs, At, Goto, Status,
        Prompts
<1>1. CASE status \in {"needs_approval", "running"}
  <2>1. /\ status' = "queued" /\ stray' = FALSE /\ left' = FALSE
        /\ pc' = [pc EXCEPT ![p] = "enqueue"] /\ msg' = [msg EXCEPT ![p] = Continue]
    BY <1>1 DEF ContinueRun, Put
  <2>2. TypeOK'
    BY <2>1
  <2> QED BY <2>1, <2>2
<1>2. CASE status \notin {"needs_approval", "running"}
  BY <1>2 DEF ContinueRun, shown, Return
<1> QED BY <1>1, <1>2

LEMMA JobInv ==
  ASSUME IInv, NEW j \in Jobs,
         Quiet, JobStep(j) \/ Verified(j) \/ FixRound(j) \/ ScheduleCheck(j)
  PROVE  IInv'
<1> USE PCs DEF IInv, TypeOK, Carrying, WorkersLive, LiveTracked, WokenSafely, RunLive,
        Quiet, Put, rows, mem, shown, asks, calls, agent, runs, At, Goto, Terminal,
        Status, Prompts
<1>1. CASE Claim(j)
  BY <1>1 DEF Claim
<1>2. CASE WaitRunEnd(j)
  BY <1>2 DEF WaitRunEnd
<1>3. CASE StartRunning(j)
  BY <1>3, StartInv
<1>4. CASE Attach(j)
  BY <1>4 DEF Attach, Fate
<1>5. CASE PrepFails(j)
  BY <1>5 DEF PrepFails, Fate, Dropped
<1>6. CASE AgentEnds(j)
  BY <1>6 DEF AgentEnds
<1>7. CASE AfterRun(j)
  BY <1>7 DEF AfterRun
<1>8. CASE FixEnds(j)
  BY <1>8 DEF FixEnds
<1>9. CASE OutOfSteps(j)
  <2>1. CASE OfferContinuation(j)
    BY <1>9, <2>1 DEF OutOfSteps, OfferContinuation
  <2>2. CASE HandBack(j)
    <3>1. /\ ContinueRun(j) /\ pc[j] = "count" /\ handedBack' = TRUE
          /\ UNCHANGED <<held, calls, cont, conts, ran, runs, agent, stopping, fate,
                         crashes>>
      BY <1>9, <2>2 DEF OutOfSteps, HandBack
    <3> QED BY <3>1, ContinueInv
  <2>3. CASE GiveUp(j)
    BY <1>9, <2>3 DEF OutOfSteps, GiveUp
  <2> QED BY <1>9, <2>1, <2>2, <2>3 DEF OutOfSteps
<1>10. CASE Catch(j)
  BY <1>10 DEF Catch
<1>11. CASE WriteStatus(j)
  BY <1>11 DEF WriteStatus
<1>12. CASE Settle(j)
  BY <1>12, SettleInv
<1>13. CASE Verified(j)
  BY <1>13 DEF Verified
<1>14. CASE FixStarts(j)
  BY <1>14 DEF FixStarts
<1>15. CASE ScheduleCheck(j)
  BY <1>15 DEF ScheduleCheck, Fate
<1>16. CASE FixRound(j)
  BY <1>16 DEF FixRound
<1>17. CASE OfferPark(j)
  BY <1>17 DEF OfferPark, Parked
<1>18. CASE OfferWaived(j)
  BY <1>18 DEF OfferWaived
<1>19. CASE Approved(j)
  BY <1>19, ContinueInv DEF Approved
<1> QED BY <1>1, <1>2, <1>3, <1>4, <1>5, <1>6, <1>7, <1>8, <1>9, <1>10, <1>11,
           <1>12, <1>13, <1>14, <1>15, <1>16, <1>17, <1>18, <1>19 DEF JobStep

\* The calls of hooks touch the asks and the status, and nothing else.
LEMMA HookInv ==
  ASSUME IInv, Quiet, NEW h \in Hooks, HookStep(h) \/ \E j \in Jobs : AskTool(j, h)
  PROVE  IInv'
<1> USE DEF IInv, TypeOK, Carrying, WorkersLive, LiveTracked, WokenSafely, RunLive,
        Quiet, At, mem, runs, agent, shown, Hook, Status, Terminal
<1>1. CASE \E j \in Jobs : AskTool(j, h)
  BY <1>1 DEF AskTool
<1>2. CASE Create(h)
  BY <1>2 DEF Create
<1>3. CASE Mark(h)
  <2>1. /\ status' \in Status
        /\ status = "running" => status' \in {"running", "needs_approval"}
    BY <1>3 DEF Mark, Parked
  <2>2. /\ stray' \in BOOLEAN /\ hook' \in [Hooks -> {"free", "check", "mark"}]
        /\ UNCHANGED <<left, held, open, resume, cont, conts, ran, handedBack, run, live,
                       active, aborted, stopping, overran, pc, msg, fate, crashes>>
    BY <1>3 DEF Mark
  <2>3. TypeOK'
    BY <2>1, <2>2
  <2> QED BY <2>1, <2>2, <2>3
<1>4. CASE Verdict(h)
  BY <1>4 DEF Verdict
<1>5. CASE Count(h)
  BY <1>5 DEF Count
<1>6. CASE Flip(h)
  BY <1>6 DEF Flip
<1> QED BY <1>1, <1>2, <1>3, <1>4, <1>5, <1>6 DEF HookStep

LEMMA LookInv ==
  ASSUME IInv, NEW p \in Procs, Look(p)
  PROVE  IInv'
<1> USE PCs, SlotsAssumption DEF SlotsAssumption, IInv, TypeOK, Carrying, WorkersLive,
        LiveTracked, WokenSafely, RunLive, rows, mem, shown, asks, calls, agent, runs,
        At, Goto
<1>1. CASE AfterWrite(p)
  BY <1>1 DEF AfterWrite, Return
<1>2. CASE Reread(p)
  BY <1>2 DEF Reread
<1> QED BY <1>1, <1>2 DEF Look

LEMMA ClientInv ==
  ASSUME IInv, NEW c \in Clients, Quiet, ClientStep(c) \/ ClientActs(c)
  PROVE  IInv'
<1> USE PCs, SlotsAssumption DEF SlotsAssumption, IInv, TypeOK, Carrying, WorkersLive,
        LiveTracked, WokenSafely, RunLive, Put, Quiet, rows, mem, shown, asks, calls,
        agent, runs, At, Goto, Terminal, Status, Prompts
<1>1. CASE CancelDropHeld(c)
  BY <1>1 DEF CancelDropHeld, Dropped, Fate
<1>2. CASE DropJobs(c, "dropJobs", "cancelled")
  BY <1>2 DEF DropJobs, Dropped, Fate, Unclaimed
<1>3. CASE CancelWrite(c)
  BY <1>3 DEF CancelWrite
<1>4. CASE CancelAbort(c)
  BY <1>4 DEF CancelAbort
<1>5. CASE DropJobs(c, "doneJobs", "done")
  BY <1>5 DEF DropJobs, Dropped, Fate, Unclaimed
<1>6. CASE MarkDoneWrite(c)
  BY <1>6 DEF MarkDoneWrite
<1>7. CASE Approved(c)
  BY <1>7, ContinueInv DEF Approved
<1>8. CASE Denied(c)
  BY <1>8 DEF Denied
<1>9. CASE \E m \in Msgs : FollowUp(c, m)
  BY <1>9 DEF FollowUp, Fate
<1>10. CASE Start(c)
  BY <1>10 DEF Start
<1>11. CASE Cancel(c)
  BY <1>11 DEF Cancel
<1>12. CASE MarkDone(c)
  BY <1>12 DEF MarkDone
<1>13. CASE DecideContinuation(c)
  <2>1. PICK verdict \in {"approved", "denied"} : pc' = [pc EXCEPT ![c] = verdict]
    BY <1>13 DEF DecideContinuation
  <2>2. /\ UNCHANGED <<status, stray, left, held, hook, open, resume, conts, ran,
                       handedBack, run, live, active, aborted, stopping, overran, msg,
                       fate, crashes>>
        /\ cont' \in Nat
    BY <1>13 DEF DecideContinuation
  <2>3. TypeOK'
    BY <2>1, <2>2
  <2>4. Carrying' /\ WorkersLive' /\ WokenSafely'
    BY <2>1, <2>2
  <2>5. LiveTracked' /\ RunLive'
    BY <2>2
  <2> QED BY <2>3, <2>4, <2>5
<1> QED BY <1>1, <1>2, <1>3, <1>4, <1>5, <1>6, <1>7, <1>8, <1>9, <1>10, <1>11,
           <1>12, <1>13 DEF ClientStep, ClientActs

LEMMA DispatchInv ==
  ASSUME IInv, NEW p \in Procs, Quiet, Dispatch(p)
  PROVE  IInv'
<1> USE PCs, SlotsAssumption DEF SlotsAssumption, IInv, TypeOK, Carrying, WorkersLive,
        LiveTracked, WokenSafely, RunLive, Put, Quiet, rows, mem, shown, asks, calls,
        agent, runs, At, Goto, Terminal, Status, Prompts, Return
<1>1. CASE ClaimTask(p)
  <2>1. CASE status \in Terminal
    <3>1. /\ status' = "queued" /\ stray' = FALSE /\ left' = FALSE
          /\ pc' = [pc EXCEPT ![p] = "enqueue"]
          /\ UNCHANGED <<held, hook, open, resume, cont, conts, ran, handedBack, run,
                         live, active, aborted, stopping, overran, msg, fate, crashes>>
      BY <1>1, <2>1 DEF ClaimTask
    <3>2. TypeOK'
      BY <3>1
    <3> QED BY <3>1, <3>2
  <2>2. CASE status \notin Terminal
    BY <1>1, <2>2 DEF ClaimTask
  <2> QED BY <2>1, <2>2
<1>2. CASE Enqueue(p)
  BY <1>2 DEF Enqueue, Unclaimed
<1>3. CASE Hold(p)
  BY <1>3 DEF Hold, Dropped, Fate
<1>4. CASE CreateHeld(p)
  BY <1>4 DEF CreateHeld
<1>5. CASE FindHeld(p)
  BY <1>5 DEF FindHeld
<1>6. CASE DeleteHeld(p)
  BY <1>6 DEF DeleteHeld
<1> QED BY <1>1, <1>2, <1>3, <1>4, <1>5, <1>6 DEF Dispatch

LEMMA OtherInv ==
  ASSUME IInv, Quiet, (\E i \in DOMAIN held : WithdrawHeld(i)) \/ SweepStep
  PROVE  IInv'
<1> USE PCs, SlotsAssumption DEF SlotsAssumption, IInv, TypeOK, Carrying, WorkersLive,
        LiveTracked, WokenSafely, RunLive, Put, Quiet, rows, mem, shown, asks, calls,
        agent, runs, At, Goto, Terminal, Status, Prompts, Return
<1>1. CASE \E i \in DOMAIN held : WithdrawHeld(i)
  <2>1. PICK i \in DOMAIN held : WithdrawHeld(i)
    BY <1>1
  <2>2. held' \in Seq(Msgs \cup {Continue})
    BY <2>1, WithoutOne DEF WithdrawHeld
  <2>3. fate' \in [Msgs -> {"unsent", "sent", "delivered", "dropped"}]
    BY <2>1 DEF WithdrawHeld, Dropped, Fate
  <2> QED BY <2>1, <2>2, <2>3 DEF WithdrawHeld
<1>2. CASE SweepAtBoot
  BY <1>2 DEF SweepAtBoot
<1>3. CASE SweepPeriodic
  BY <1>3 DEF SweepPeriodic
<1>4. CASE SweepAct
  <2>1. CASE ran
    <3>1. /\ status' = "settled" /\ stray' = FALSE /\ left' = FALSE
          /\ pc' = [pc EXCEPT ![Sweeper] = "wrote"]
          /\ UNCHANGED <<held, hook, open, resume, cont, conts, ran, handedBack, run,
                         live, active, aborted, stopping, overran, msg, fate, crashes>>
      BY <1>4, <2>1 DEF SweepAct
    <3>2. TypeOK'
      BY <3>1
    <3> QED BY <3>1, <3>2
  <2>2. CASE ~ran
    BY <1>4, <2>2 DEF SweepAct
  <2> QED BY <2>1, <2>2
<1> QED BY <1>1, <1>2, <1>3, <1>4 DEF SweepStep

LEMMA RestartInv == IInv /\ Restart => IInv'
<1> SUFFICES ASSUME IInv, Restart PROVE IInv'
  OBVIOUS
<1>1. PICK k \in IF Drained THEN Jobs \ Unclaimed ELSE {None} :
        /\ pc' = [p \in Procs |-> IF p = k \/ p \in Unclaimed THEN "queued"
                                 ELSE IF p = Sweeper THEN "look" ELSE "free"]
        /\ msg' = [p \in Procs |-> IF p = k THEN Head(held)
                                  ELSE IF p \in Unclaimed THEN msg[p] ELSE None]
  BY DEF Restart
<1>2. /\ run' = None /\ live' = {} /\ active' = None
      /\ aborted' = {} /\ stopping' = {} /\ overran' = FALSE
      /\ cont' = 0 /\ open' = {} /\ handedBack' = FALSE
      /\ UNCHANGED <<conts, ran>> /\ crashes' = crashes + 1
  BY DEF Restart
<1>3. TypeOK'
  <2>1. status' \in Status
    BY DEF Restart, BootStatus, Status, Terminal, IInv, TypeOK
  <2>2. held' \in Seq(Msgs \cup {Continue})
    BY DEF Restart, Drained, IInv, TypeOK
  <2>3. pc' \in [Procs -> PC]
    BY <1>1, PCs
  <2>4. k \in Procs => held # <<>>
    BY SlotsAssumption DEF SlotsAssumption, Drained
  <2>5. held # <<>> => Head(held) \in Msgs \cup {Continue}
    BY DEF IInv, TypeOK
  <2>6. msg' \in [Procs -> Prompts]
    BY <1>1, <2>4, <2>5 DEF Prompts, IInv, TypeOK
  <2>7. fate' \in [Msgs -> {"unsent", "sent", "delivered", "dropped"}]
    BY DEF Restart, Dropped, Fate, IInv, TypeOK
  <2>8. crashes' \in Nat /\ conts' \in Nat /\ ran' \in BOOLEAN
    BY <1>2 DEF IInv, TypeOK
  <2>9. /\ stray' \in BOOLEAN /\ left' \in BOOLEAN
        /\ hook' \in [Hooks -> {"free", "check", "mark"}]
        /\ resume' \in [Hooks -> {"no", "count", "flip"}]
    BY DEF Restart
  <2> QED BY <1>2, <2>1, <2>2, <2>3, <2>6, <2>7, <2>8, <2>9 DEF TypeOK
<1>4. Carrying' /\ WorkersLive' /\ WokenSafely'
  BY <1>1, <1>2 DEF Carrying, WorkersLive, WokenSafely
<1>5. LiveTracked' /\ RunLive'
  BY <1>2 DEF LiveTracked, RunLive
<1> QED BY <1>3, <1>4, <1>5 DEF IInv

LEMMA NextInv == IInv /\ [Next]_vars => IInv'
<1> SUFFICES ASSUME IInv, [Next]_vars PROVE IInv'
  OBVIOUS
<1>1. CASE UNCHANGED vars
  BY <1>1 DEF vars, IInv, TypeOK, Carrying, WorkersLive, LiveTracked, WokenSafely,
     RunLive
<1>2. CASE Restart
  BY <1>2, RestartInv
<1>3. CASE \E j \in Jobs : At(j, "resumed") /\ StartRunning(j)
  BY <1>3, StartInv
<1>4. CASE \E p \in Procs : Look(p)
  BY <1>4, LookInv
<1>5. CASE Quiet /\ \E j \in Jobs : JobStep(j) \/ Verified(j) \/ AgentActs(j)
  BY <1>5, JobInv, HookInv DEF AgentActs
<1>6. CASE Quiet /\ ~Restart
  BY <1>1, <1>3, <1>4, <1>5, <1>6, ClientInv, DispatchInv, HookInv, OtherInv DEF Next
<1> QED BY <1>1, <1>2, <1>3, <1>4, <1>6 DEF Next

LEMMA OneRun == IInv => OneRunPerTask
<1> SUFFICES ASSUME IInv PROVE OneRunPerTask
  OBVIOUS
<1>1. CASE overran
  BY <1>1 DEF OneRunPerTask
<1>2. CASE live = {run} \ {None}
  <2>1. CASE run = None
    BY <1>2, <2>1, FS_EmptySet DEF OneRunPerTask
  <2>2. CASE run # None
    BY <1>2, <2>2, FS_Singleton DEF OneRunPerTask
  <2> QED BY <2>1, <2>2
<1> QED BY <1>1, <1>2 DEF IInv, LiveTracked


(***************************************************************************)
(* What a process carries, what keeps a status honest, and where a message *)
(* can be: these hold on top of IInv.                                      *)
(***************************************************************************)

\* Only a job on its way to an agent and a process that is dispatching carry
\* a prompt: to overwrite the prompt of anybody else loses nothing.
Bearing == {"queued", "claimed", "waiting", "resumed", "prep", "delete", "claim",
            "enqueue", "hold", "create"}

EmptyHanded == \A p \in Procs : pc[p] \notin Bearing => msg[p] = None

\* The worker calls that have not yet written what became of their run.
Working == {"prep", "agent", "ended", "verify", "refit", "fixing", "count", "offer",
            "catch", "write", "finish"}

AtWork == \E j \in Jobs : pc[j] \in Working

\* A live status has somebody that will still write the next one.
Attended ==
  status \in {"running", "needs_approval"} =>
    AtWork \/ Deciding \/ cont > 0 \/ stray

MInv == IInv /\ EmptyHanded /\ Attended /\ MessageAccounted /\ HeldIsDrained

LEMMA InitMore == Init => EmptyHanded /\ Attended /\ MessageAccounted /\ HeldIsDrained
BY DEF Init, EmptyHanded, Attended, MessageAccounted, HeldIsDrained

\* What a hook's call may change of all that the following is about.
LEMMA HookFrame ==
  ASSUME TypeOK, NEW h \in Hooks, HookStep(h) \/ \E j \in Jobs : AskTool(j, h)
  PROVE  /\ UNCHANGED <<left, held, cont, pc, msg, run, live, overran, fate>>
         /\ stray => stray'
         /\ \/ status' = status
            \/ status = "needs_approval" /\ status' = "running"
            \/ status' = "needs_approval" /\ status \in {"running", "queued"}
               /\ (AgentAtWork \/ stray')
<1> USE DEF TypeOK, mem, runs, shown, Hook
<1>1. CASE \E j \in Jobs : AskTool(j, h)
  BY <1>1 DEF AskTool
<1>2. CASE Create(h)
  BY <1>2 DEF Create
<1>3. CASE Mark(h)
  BY <1>3 DEF Mark, Parked
<1>4. CASE Verdict(h)
  BY <1>4 DEF Verdict
<1>5. CASE Count(h)
  BY <1>5 DEF Count
<1>6. CASE Flip(h)
  BY <1>6 DEF Flip
<1> QED BY <1>1, <1>2, <1>3, <1>4, <1>5, <1>6 DEF HookStep

\* A look at the rows moves the one that looks on, and nothing else.
LEMMA LookFrame ==
  ASSUME TypeOK, RunLive, NEW p \in Procs, Look(p)
  PROVE  /\ UNCHANGED <<status, stray, left, held, cont, msg, run, live, overran, fate>>
         /\ pc[p] \in {"wrote", "untracked"}
         /\ \E to \in {"find", "tail", "abort", "free"} :
              /\ pc' = [pc EXCEPT ![p] = to]
              /\ status \in Terminal => to = "find" \/ live # {}
<1> USE DEF TypeOK, RunLive, mem, runs, shown, asks, rows, At, Goto
<1>1. CASE AfterWrite(p)
  BY <1>1 DEF AfterWrite, Return
<1>2. CASE Reread(p)
  BY <1>2 DEF Reread
<1> QED BY <1>1, <1>2 DEF Look

LEMMA JobHands ==
  ASSUME IInv, EmptyHanded, NEW j \in Jobs,
         JobStep(j) \/ Verified(j) \/ FixRound(j) \/ ScheduleCheck(j)
  PROVE  EmptyHanded'
<1> USE DEF IInv, TypeOK, EmptyHanded, Bearing, rows, mem, At, Goto
<1>1. CASE Claim(j)
  BY <1>1 DEF Claim
<1>2. CASE WaitRunEnd(j)
  BY <1>2 DEF WaitRunEnd
<1>3. CASE StartRunning(j)
  <2>1. CASE Started(j)
    BY <1>3, <2>1 DEF StartRunning, Started, Wake
  <2>2. CASE Busy(j) \/ Gone(j)
    BY <1>3, <2>2 DEF StartRunning, Busy, Gone
  <2> QED BY <1>3, <2>1, <2>2 DEF StartRunning
<1>4. CASE Attach(j)
  BY <1>4 DEF Attach
<1>5. CASE PrepFails(j)
  BY <1>5 DEF PrepFails
<1>6. CASE AgentEnds(j)
  BY <1>6 DEF AgentEnds
<1>7. CASE AfterRun(j)
  BY <1>7 DEF AfterRun
<1>8. CASE FixEnds(j)
  BY <1>8 DEF FixEnds
<1>9. CASE OutOfSteps(j)
  BY <1>9 DEF OutOfSteps, OfferContinuation, HandBack, GiveUp, ContinueRun, Return
<1>10. CASE Catch(j)
  BY <1>10 DEF Catch
<1>11. CASE WriteStatus(j)
  BY <1>11 DEF WriteStatus
<1>12. CASE Settle(j)
  BY <1>12 DEF Settle, Wake
<1>13. CASE Verified(j)
  BY <1>13 DEF Verified
<1>14. CASE FixStarts(j)
  BY <1>14 DEF FixStarts
<1>15. CASE ScheduleCheck(j)
  BY <1>15 DEF ScheduleCheck
<1>16. CASE FixRound(j)
  BY <1>16 DEF FixRound
<1>17. CASE OfferPark(j)
  BY <1>17 DEF OfferPark, Parked
<1>18. CASE OfferWaived(j)
  BY <1>18 DEF OfferWaived
<1>19. CASE Approved(j)
  BY <1>19 DEF Approved, ContinueRun, Return
<1> QED BY <1>1, <1>2, <1>3, <1>4, <1>5, <1>6, <1>7, <1>8, <1>9, <1>10, <1>11,
           <1>12, <1>13, <1>14, <1>15, <1>16, <1>17, <1>18, <1>19 DEF JobStep

LEMMA ClientHands ==
  ASSUME IInv, EmptyHanded, NEW c \in Clients, ClientStep(c) \/ ClientActs(c)
  PROVE  EmptyHanded'
<1> USE DEF IInv, TypeOK, EmptyHanded, Bearing, rows, mem, At, Goto
<1>1. CASE CancelDropHeld(c)
  BY <1>1 DEF CancelDropHeld
<1>2. CASE DropJobs(c, "dropJobs", "cancelled") \/ DropJobs(c, "doneJobs", "done")
  BY <1>2 DEF DropJobs, Unclaimed
<1>3. CASE CancelWrite(c) \/ CancelAbort(c) \/ MarkDoneWrite(c) \/ Denied(c)
  BY <1>3 DEF CancelWrite, CancelAbort, MarkDoneWrite, Denied
<1>4. CASE Approved(c)
  BY <1>4 DEF Approved, ContinueRun, Return
<1>5. CASE \E m \in Msgs : FollowUp(c, m)
  BY <1>5 DEF FollowUp
<1>6. CASE Start(c) \/ Cancel(c) \/ MarkDone(c) \/ DecideContinuation(c)
  BY <1>6 DEF Start, Cancel, MarkDone, DecideContinuation
<1> QED BY <1>1, <1>2, <1>3, <1>4, <1>5, <1>6 DEF ClientStep, ClientActs

LEMMA OtherHands ==
  ASSUME IInv, EmptyHanded,
         \/ \E p \in Procs : Dispatch(p)
         \/ \E i \in DOMAIN held : WithdrawHeld(i)
         \/ SweepStep \/ Restart
  PROVE  EmptyHanded'
<1> USE DEF IInv, TypeOK, EmptyHanded, Bearing, rows, mem, At, Goto
<1>1. ASSUME NEW p \in Procs, Dispatch(p) PROVE EmptyHanded'
  <2>1. CASE ClaimTask(p) \/ Hold(p) \/ CreateHeld(p) \/ FindHeld(p) \/ DeleteHeld(p)
    BY <2>1 DEF ClaimTask, Hold, CreateHeld, FindHeld, DeleteHeld, Return
  <2>2. CASE Enqueue(p)
    BY <2>2 DEF Enqueue, Return
  <2> QED BY <1>1, <2>1, <2>2 DEF Dispatch
<1>2. CASE \E i \in DOMAIN held : WithdrawHeld(i)
  BY <1>2 DEF WithdrawHeld
<1>3. CASE SweepStep
  BY <1>3, SlotsAssumption DEF SlotsAssumption, SweepStep, SweepAtBoot,
     SweepPeriodic, SweepAct
<1>4. CASE Restart
  BY <1>4, SlotsAssumption DEF SlotsAssumption, Restart, Unclaimed
<1> QED BY <1>1, <1>2, <1>3, <1>4

LEMMA Hands == IInv /\ EmptyHanded /\ [Next]_vars => EmptyHanded'
<1> SUFFICES ASSUME IInv, EmptyHanded, [Next]_vars PROVE EmptyHanded'
  OBVIOUS
<1>1. CASE UNCHANGED vars
  BY <1>1 DEF vars, EmptyHanded
<1>2. CASE \E j \in Jobs : At(j, "resumed") /\ StartRunning(j)
  BY <1>2, JobHands DEF JobStep
<1>3. CASE Restart
  BY <1>3, OtherHands
<1>4. CASE \E p \in Procs : Look(p)
  BY <1>4, LookFrame DEF IInv, TypeOK, EmptyHanded, Bearing
<1>5. CASE \E h \in Hooks : HookStep(h) \/ \E j \in Jobs : AskTool(j, h)
  BY <1>5, HookFrame DEF IInv, EmptyHanded
<1>6. CASE Quiet /\ ~Restart
  BY <1>1, <1>2, <1>4, <1>5, <1>6, JobHands, ClientHands, OtherHands
     DEF Next, AgentActs
<1> QED BY <1>1, <1>2, <1>3, <1>4, <1>6 DEF Next

\* continueRun leaves no live status.
LEMMA Requeued ==
  ASSUME NEW p \in Procs, ContinueRun(p)
  PROVE  status' \notin {"running", "needs_approval"}
<1>1. CASE status \in {"needs_approval", "running"}
  BY <1>1 DEF ContinueRun, Put
<1>2. CASE status \notin {"needs_approval", "running"}
  BY <1>2 DEF ContinueRun, shown
<1> QED BY <1>1, <1>2

LEMMA JobAttends ==
  ASSUME IInv, Attended, NEW j \in Jobs,
         JobStep(j) \/ Verified(j) \/ FixRound(j) \/ ScheduleCheck(j)
  PROVE  Attended'
<1> USE SlotsAssumption DEF SlotsAssumption, IInv, TypeOK, Attended, AtWork, Working,
        Deciding, Terminal, Put, rows, mem, calls, asks, shown, At, Goto
<1>1. CASE Claim(j)
  BY <1>1 DEF Claim
<1>2. CASE WaitRunEnd(j)
  BY <1>2 DEF WaitRunEnd
<1>3. CASE StartRunning(j)
  <2>1. CASE Started(j)
    BY <1>3, <2>1 DEF StartRunning, Started, Wake
  <2>2. CASE Busy(j) \/ Gone(j)
    BY <1>3, <2>2 DEF StartRunning, Busy, Gone
  <2> QED BY <1>3, <2>1, <2>2 DEF StartRunning
<1>4. CASE Attach(j)
  BY <1>4 DEF Attach
<1>5. CASE PrepFails(j)
  BY <1>5 DEF PrepFails
<1>6. CASE AgentEnds(j)
  BY <1>6 DEF AgentEnds
<1>7. CASE AfterRun(j)
  BY <1>7 DEF AfterRun
<1>8. CASE FixEnds(j)
  BY <1>8 DEF FixEnds
<1>9. CASE OutOfSteps(j)
  <2>1. CASE OfferContinuation(j) \/ GiveUp(j)
    BY <1>9, <2>1 DEF OutOfSteps, OfferContinuation, GiveUp
  <2>2. CASE HandBack(j)
    BY <1>9, <2>2, Requeued DEF OutOfSteps, HandBack
  <2> QED BY <1>9, <2>1, <2>2 DEF OutOfSteps
<1>10. CASE Catch(j)
  BY <1>10 DEF Catch
<1>11. CASE WriteStatus(j)
  BY <1>11 DEF WriteStatus
<1>12. CASE Settle(j)
  BY <1>12 DEF Settle, Wake
<1>13. CASE Verified(j)
  BY <1>13 DEF Verified
<1>14. CASE FixStarts(j)
  BY <1>14 DEF FixStarts
<1>15. CASE ScheduleCheck(j)
  BY <1>15 DEF ScheduleCheck
<1>16. CASE FixRound(j)
  BY <1>16 DEF FixRound
<1>17. CASE OfferPark(j)
  <2>1. /\ UNCHANGED cont /\ status' = Parked(status)
        /\ stray' = (status' = "needs_approval" /\ cont = 0)
    BY <1>17 DEF OfferPark
  <2>2. status' = "needs_approval" => stray' \/ cont' > 0
    <3>1. CASE cont = 0
      BY <2>1, <3>1, Zenon
    <3>2. CASE cont # 0
      <4>1. cont' > 0
        BY <2>1, <3>2
      <4> QED BY <4>1
    <3> QED BY <3>1, <3>2
  <2>3. status' # "running"
    BY <2>1 DEF Parked
  <2> QED BY <2>2, <2>3
<1>18. CASE OfferWaived(j)
  BY <1>18 DEF OfferWaived
<1>19. CASE Approved(j)
  BY <1>19, Requeued DEF Approved
<1> QED BY <1>1, <1>2, <1>3, <1>4, <1>5, <1>6, <1>7, <1>8, <1>9, <1>10, <1>11,
           <1>12, <1>13, <1>14, <1>15, <1>16, <1>17, <1>18, <1>19 DEF JobStep

LEMMA ClientAttends ==
  ASSUME IInv, Attended, NEW c \in Clients, ClientStep(c) \/ ClientActs(c)
  PROVE  Attended'
<1> USE SlotsAssumption DEF SlotsAssumption, IInv, TypeOK, Attended, AtWork, Working,
        Deciding, Terminal, Put, rows, mem, calls, asks, shown, At, Goto
<1>1. CASE CancelDropHeld(c)
  BY <1>1 DEF CancelDropHeld
<1>2. CASE DropJobs(c, "dropJobs", "cancelled") \/ DropJobs(c, "doneJobs", "done")
  BY <1>2 DEF DropJobs, Unclaimed
<1>3. CASE CancelWrite(c) \/ MarkDoneWrite(c) \/ Denied(c)
  BY <1>3 DEF CancelWrite, MarkDoneWrite, Denied
<1>4. CASE CancelAbort(c)
  BY <1>4 DEF CancelAbort
<1>5. CASE Approved(c)
  BY <1>5, Requeued DEF Approved
<1>6. CASE \E m \in Msgs : FollowUp(c, m)
  BY <1>6 DEF FollowUp
<1>7. CASE Start(c) \/ Cancel(c) \/ MarkDone(c)
  BY <1>7 DEF Start, Cancel, MarkDone
<1>8. CASE DecideContinuation(c)
  BY <1>8 DEF DecideContinuation
<1> QED BY <1>1, <1>2, <1>3, <1>4, <1>5, <1>6, <1>7, <1>8 DEF ClientStep, ClientActs

LEMMA OtherAttends ==
  ASSUME IInv, Attended,
         \/ \E p \in Procs : Dispatch(p)
         \/ \E i \in DOMAIN held : WithdrawHeld(i)
         \/ SweepStep \/ Restart
  PROVE  Attended'
<1> USE SlotsAssumption DEF SlotsAssumption, IInv, TypeOK, Attended, AtWork, Working,
        Deciding, Terminal, Put, rows, mem, calls, asks, shown, At, Goto
<1>1. ASSUME NEW p \in Procs, Dispatch(p) PROVE Attended'
  <2>1. CASE ClaimTask(p) \/ Hold(p) \/ CreateHeld(p) \/ FindHeld(p) \/ DeleteHeld(p)
    BY <2>1 DEF ClaimTask, Hold, CreateHeld, FindHeld, DeleteHeld, Return
  <2>2. CASE Enqueue(p)
    BY <2>2 DEF Enqueue, Return
  <2> QED BY <1>1, <2>1, <2>2 DEF Dispatch
<1>2. CASE \E i \in DOMAIN held : WithdrawHeld(i)
  BY <1>2 DEF WithdrawHeld
<1>3. CASE SweepStep
  BY <1>3 DEF SweepStep, SweepAtBoot, SweepPeriodic, SweepAct
<1>4. CASE Restart
  BY <1>4 DEF Restart, BootStatus, Drained
<1> QED BY <1>1, <1>2, <1>3, <1>4

\* A call that parks the task does it while an agent works, or astray.
LEMMA HookAttends ==
  ASSUME IInv, Attended, NEW h \in Hooks,
         HookStep(h) \/ \E j \in Jobs : AskTool(j, h)
  PROVE  Attended'
<1>1. UNCHANGED <<pc, cont>> /\ (stray => stray')
  BY HookFrame DEF IInv
<1>2. CASE status' = status \/ (status = "needs_approval" /\ status' = "running")
  BY <1>1, <1>2 DEF Attended, AtWork, Deciding
<1>3. CASE AgentAtWork \/ stray'
  BY <1>1, <1>3 DEF Attended, AtWork, AgentAtWork, Working
<1> QED BY <1>2, <1>3, HookFrame DEF IInv

LEMMA LookAttends ==
  ASSUME IInv, Attended, NEW p \in Procs, Look(p)
  PROVE  Attended'
<1>1. /\ UNCHANGED <<status, stray, cont>> /\ pc[p] \in {"wrote", "untracked"}
      /\ \E to \in {"find", "tail", "abort", "free"} : pc' = [pc EXCEPT ![p] = to]
  BY LookFrame DEF IInv
<1>2. \A q \in Procs : q # p => pc'[q] = pc[q]
  BY <1>1 DEF IInv, TypeOK
<1>3. (AtWork => AtWork') /\ (Deciding => Deciding')
  BY <1>1, <1>2 DEF AtWork, Working, Deciding
<1> QED BY <1>1, <1>3 DEF Attended

LEMMA Attends == IInv /\ Attended /\ [Next]_vars => Attended'
<1> SUFFICES ASSUME IInv, Attended, [Next]_vars PROVE Attended'
  OBVIOUS
<1>1. CASE UNCHANGED vars
  BY <1>1 DEF vars, Attended, AtWork, Deciding
<1>2. CASE \E j \in Jobs : At(j, "resumed") /\ StartRunning(j)
  BY <1>2, JobAttends DEF JobStep
<1>3. CASE Restart
  BY <1>3, OtherAttends
<1>4. CASE \E p \in Procs : Look(p)
  BY <1>4, LookAttends
<1>5. CASE \E h \in Hooks : HookStep(h) \/ \E j \in Jobs : AskTool(j, h)
  BY <1>5, HookAttends
<1>6. CASE Quiet /\ ~Restart
  BY <1>1, <1>2, <1>4, <1>5, <1>6, JobAttends, ClientAttends, OtherAttends
     DEF Next, AgentActs
<1> QED BY <1>1, <1>2, <1>3, <1>4, <1>6 DEF Next

LEMMA Joined ==
  ASSUME NEW S, NEW a \in Seq(S), NEW b \in Seq(S)
  PROVE  /\ DOMAIN (a \o b) = 1..(Len(a) + Len(b))
         /\ \A n \in 1..Len(a) : (a \o b)[n] = a[n]
         /\ \A n \in 1..Len(b) : (a \o b)[Len(a) + n] = b[n]
OBVIOUS

\* Removing the i-th row leaves every other row among the rest.
LEMMA OthersStay ==
  ASSUME NEW S, NEW s \in Seq(S), NEW i \in DOMAIN s, NEW k \in DOMAIN s, k # i
  PROVE  LET rest == SubSeq(s, 1, i - 1) \o SubSeq(s, i + 1, Len(s))
         IN  \E n \in DOMAIN rest : rest[n] = s[k]
<1> DEFINE front == SubSeq(s, 1, i - 1)
           back  == SubSeq(s, i + 1, Len(s))
           rest  == front \o back
<1> SUFFICES \E n \in DOMAIN rest : rest[n] = s[k]
  OBVIOUS
<1>1. i \in 1..Len(s) /\ k \in 1..Len(s) /\ Len(s) \in Nat
  OBVIOUS
<1>2. /\ front \in Seq(S) /\ Len(front) = i - 1
      /\ \A n \in 1..(i - 1) : front[n] = s[n]
  BY <1>1
<1>3. /\ back \in Seq(S) /\ Len(back) = Len(s) - i
      /\ \A n \in 1..(Len(s) - i) : back[n] = s[i + n]
  BY <1>1
<1> HIDE DEF front, back
<1>4. /\ DOMAIN rest = 1..(Len(front) + Len(back))
      /\ \A n \in 1..Len(front) : rest[n] = front[n]
      /\ \A n \in 1..Len(back) : rest[Len(front) + n] = back[n]
  <2>1. front \in Seq(S) /\ back \in Seq(S)
    BY <1>2, <1>3
  <2> QED BY ONLY <2>1, Joined
<1> HIDE DEF rest
<1>5. CASE k < i
  <2>1. k \in 1..Len(front) /\ k \in DOMAIN rest
    BY <1>1, <1>2, <1>3, <1>4, <1>5
  <2>2. rest[k] = front[k] /\ front[k] = s[k]
    BY <1>1, <1>2, <1>4, <2>1
  <2> QED BY <2>1, <2>2
<1>6. CASE k > i
  <2>1. PICK n \in 1..(Len(s) - i) : k = i + n
    <3>1. k - i \in 1..(Len(s) - i) /\ k = i + (k - i)
      BY <1>1, <1>6
    <3> QED BY <3>1
  <2>2. back[n] = s[k] /\ n \in 1..Len(back)
    BY <1>3, <2>1
  <2>3. rest[Len(front) + n] = back[n]
    BY <1>4, <2>2
  <2>4. Len(front) + n \in DOMAIN rest
    <3>1. Len(front) \in Nat /\ Len(back) \in Nat
      BY <1>1, <1>2, <1>3
    <3>2. Len(front) + n \in 1..(Len(front) + Len(back))
      BY <2>2, <3>1
    <3> QED BY <1>4, <3>2
  <2> QED BY <2>2, <2>3, <2>4
<1> QED BY <1>1, <1>5, <1>6

\* Every row but the oldest survives its removal.
LEMMA TailStays ==
  ASSUME NEW S, NEW s \in Seq(S), s # <<>>, NEW k \in DOMAIN s, s[k] # Head(s)
  PROVE  \E n \in DOMAIN Tail(s) : Tail(s)[n] = s[k]
<1>1. Len(s) \in Nat \ {0} /\ k \in 2..Len(s)
  OBVIOUS
<1>2. k - 1 \in 1..Len(Tail(s)) /\ Tail(s)[k - 1] = s[k]
  BY <1>1
<1> QED BY <1>2

Kept(m) == m \in InHeld \cup Carried(Procs)

LEMMA JobAccounts ==
  ASSUME MInv, NEW j \in Jobs,
         JobStep(j) \/ Verified(j) \/ FixRound(j) \/ ScheduleCheck(j),
         NEW m \in Msgs, fate'[m] = "sent"
  PROVE  Kept(m)'
<1> USE NoneIsNoMessage DEF MInv, IInv, TypeOK, EmptyHanded, Bearing, rows, mem,
        calls, asks, shown, At, Goto, Fate, Dropped, Kept, InHeld, Carried,
        MessageAccounted
<1>1. CASE Claim(j)
  BY <1>1 DEF Claim
<1>2. CASE WaitRunEnd(j)
  BY <1>2 DEF WaitRunEnd
<1>3. CASE StartRunning(j)
  BY <1>3 DEF StartRunning, Started, Busy, Gone
<1>4. CASE Attach(j)
  BY <1>4 DEF Attach
<1>5. CASE PrepFails(j)
  BY <1>5 DEF PrepFails
<1>6. CASE AgentEnds(j)
  BY <1>6 DEF AgentEnds
<1>7. CASE AfterRun(j)
  BY <1>7 DEF AfterRun
<1>8. CASE FixEnds(j)
  BY <1>8 DEF FixEnds
<1>9. CASE OutOfSteps(j)
  BY <1>9 DEF OutOfSteps, OfferContinuation, HandBack, GiveUp, ContinueRun
<1>10. CASE Catch(j)
  BY <1>10 DEF Catch
<1>11. CASE WriteStatus(j)
  BY <1>11 DEF WriteStatus
<1>12. CASE Settle(j)
  BY <1>12 DEF Settle
<1>13. CASE Verified(j)
  BY <1>13 DEF Verified
<1>14. CASE FixStarts(j)
  BY <1>14 DEF FixStarts
<1>15. CASE ScheduleCheck(j)
  BY <1>15 DEF ScheduleCheck
<1>16. CASE FixRound(j)
  BY <1>16 DEF FixRound
<1>17. CASE OfferPark(j)
  BY <1>17 DEF OfferPark, Parked
<1>18. CASE OfferWaived(j)
  BY <1>18 DEF OfferWaived
<1>19. CASE Approved(j)
  BY <1>19 DEF Approved, ContinueRun, Return
<1> QED BY <1>1, <1>2, <1>3, <1>4, <1>5, <1>6, <1>7, <1>8, <1>9, <1>10, <1>11,
           <1>12, <1>13, <1>14, <1>15, <1>16, <1>17, <1>18, <1>19 DEF JobStep

LEMMA ClientAccounts ==
  ASSUME MInv, NEW c \in Clients, ClientStep(c) \/ ClientActs(c),
         NEW m \in Msgs, fate'[m] = "sent"
  PROVE  Kept(m)'
<1> USE NoneIsNoMessage DEF MInv, IInv, TypeOK, EmptyHanded, Bearing, rows, mem,
        calls, asks, shown, At, Goto, Fate, Dropped, Kept, InHeld, Carried,
        MessageAccounted
<1>1. CASE CancelDropHeld(c)
  BY <1>1 DEF CancelDropHeld
<1>2. CASE DropJobs(c, "dropJobs", "cancelled") \/ DropJobs(c, "doneJobs", "done")
  BY <1>2 DEF DropJobs
<1>3. CASE CancelWrite(c) \/ CancelAbort(c) \/ MarkDoneWrite(c) \/ Denied(c)
  BY <1>3 DEF CancelWrite, CancelAbort, MarkDoneWrite, Denied
<1>4. CASE Approved(c)
  BY <1>4 DEF Approved, ContinueRun
<1>5. CASE \E n \in Msgs : FollowUp(c, n)
  BY <1>5 DEF FollowUp
<1>6. CASE Start(c) \/ Cancel(c) \/ MarkDone(c) \/ DecideContinuation(c)
  BY <1>6 DEF Start, Cancel, MarkDone, DecideContinuation
<1> QED BY <1>1, <1>2, <1>3, <1>4, <1>5, <1>6 DEF ClientStep, ClientActs

LEMMA DispatchAccounts ==
  ASSUME MInv, NEW p \in Procs, Dispatch(p), NEW m \in Msgs, fate'[m] = "sent"
  PROVE  Kept(m)'
<1> USE NoneIsNoMessage DEF MInv, IInv, TypeOK, EmptyHanded, Bearing, rows, mem,
        calls, asks, shown, At, Goto, Fate, Dropped, Kept, InHeld, Carried,
        MessageAccounted
<1>1. CASE ClaimTask(p)
  BY <1>1 DEF ClaimTask
<1>2. CASE Enqueue(p)
  BY <1>2 DEF Enqueue
<1>3. CASE Hold(p)
  BY <1>3 DEF Hold
<1>4. CASE CreateHeld(p)
  <2>1. msg[p] \in Msgs \cup {Continue}
    BY <1>4 DEF CreateHeld, Carrying, Prompts
  <2>2. /\ DOMAIN held' = 1..(Len(held) + 1) /\ held'[Len(held) + 1] = msg[p]
        /\ \A i \in 1..Len(held) : held'[i] = held[i]
    BY <1>4, <2>1 DEF CreateHeld
  <2>3. DOMAIN held = 1..Len(held) /\ Len(held) \in Nat
    OBVIOUS
  <2> QED BY <1>4, <2>2, <2>3 DEF CreateHeld
<1>5. CASE FindHeld(p)
  BY <1>5 DEF FindHeld
<1>6. CASE DeleteHeld(p)
  <2>1. ASSUME NEW i \in DOMAIN held, held[i] = m, m # msg[p] PROVE Kept(m)'
    <3>1. CASE held # <<>> /\ Head(held) = msg[p]
      <4>1. \E n \in DOMAIN Tail(held) : Tail(held)[n] = held[i]
        BY <2>1, <3>1, TailStays
      <4>2. held' = Tail(held)
        BY <1>6, <3>1 DEF DeleteHeld
      <4> QED BY <2>1, <4>1, <4>2
    <3>2. CASE ~(held # <<>> /\ Head(held) = msg[p])
      BY <1>6, <2>1, <3>2 DEF DeleteHeld
    <3> QED BY <3>1, <3>2
  <2>2. CASE \E q \in Procs : msg[q] = m
    BY <1>6, <2>2 DEF DeleteHeld
  <2> QED BY <1>6, <2>1, <2>2 DEF DeleteHeld
<1> QED BY <1>1, <1>2, <1>3, <1>4, <1>5, <1>6 DEF Dispatch

LEMMA OtherAccounts ==
  ASSUME MInv,
         \/ \E i \in DOMAIN held : WithdrawHeld(i)
         \/ SweepStep \/ Restart,
         NEW m \in Msgs, fate'[m] = "sent"
  PROVE  Kept(m)'
<1> USE NoneIsNoMessage DEF MInv, IInv, TypeOK, EmptyHanded, Bearing, rows, mem,
        calls, asks, shown, At, Goto, Fate, Dropped, Kept, InHeld, Carried,
        MessageAccounted
<1>1. ASSUME NEW i \in DOMAIN held, WithdrawHeld(i) PROVE Kept(m)'
  <2>1. fate[m] = "sent" /\ m # held[i]
    BY <1>1 DEF WithdrawHeld
  <2>2. CASE \E k \in DOMAIN held : held[k] = m
    <3>1. PICK k \in DOMAIN held : held[k] = m /\ k # i
      BY <2>1, <2>2
    <3>2. held' = SubSeq(held, 1, i - 1) \o SubSeq(held, i + 1, Len(held))
      BY <1>1 DEF WithdrawHeld
    <3>3. \E n \in DOMAIN held' : held'[n] = held[k]
      BY ONLY held \in Seq(Msgs \cup {Continue}), i \in DOMAIN held, k \in DOMAIN held,
              <3>1, <3>2, OthersStay
    <3> QED BY <3>1, <3>3
  <2>3. CASE \E q \in Procs : msg[q] = m
    BY <1>1, <2>3 DEF WithdrawHeld
  <2> QED BY <2>1, <2>2, <2>3
<1>2. CASE SweepStep
  BY <1>2 DEF SweepStep, SweepAtBoot, SweepPeriodic, SweepAct
<1>3. CASE Restart
  <2>1. PICK k \in IF Drained THEN Jobs \ Unclaimed ELSE {None} :
          msg' = [p \in Procs |-> IF p = k THEN Head(held)
                                 ELSE IF p \in Unclaimed THEN msg[p] ELSE None]
    BY <1>3 DEF Restart
  <2>2. /\ fate[m] = "sent"
        /\ held' = IF Drained THEN Tail(held) ELSE held
    BY <1>3 DEF Restart
  <2>3. m \in InHeld \cup Carried(Unclaimed)
    BY <1>3, <2>2 DEF Restart
  <2>4. CASE m \in InHeld
    <3>1. PICK i \in DOMAIN held : held[i] = m
      BY <2>4
    <3>2. CASE Drained /\ m = Head(held)
      BY <2>1, <3>2
    <3>3. CASE Drained /\ m # Head(held)
      BY <2>2, <3>1, <3>3, TailStays DEF Drained
    <3>4. CASE ~Drained
      BY <2>2, <3>1, <3>4
    <3> QED BY <3>2, <3>3, <3>4
  <2>5. CASE m \in Carried(Unclaimed)
    BY <2>1, <2>5, NoneIsNoMessage, SlotsAssumption DEF Unclaimed, SlotsAssumption
  <2> QED BY <2>3, <2>4, <2>5
<1> QED BY <1>1, <1>2, <1>3

LEMMA Accounts == MInv /\ [Next]_vars => MessageAccounted'
<1> SUFFICES ASSUME MInv, [Next]_vars, NEW m \in Msgs, fate'[m] = "sent"
             PROVE  Kept(m)'
  BY DEF MessageAccounted, Kept
<1>1. CASE UNCHANGED vars
  BY <1>1 DEF vars, MInv, MessageAccounted, Kept, InHeld, Carried
<1>2. CASE \E j \in Jobs : At(j, "resumed") /\ StartRunning(j)
  BY <1>2, JobAccounts DEF JobStep
<1>3. CASE Restart
  BY <1>3, OtherAccounts
<1>4. CASE \E p \in Procs : Look(p)
  BY <1>4, LookFrame DEF MInv, IInv, MessageAccounted, Kept, InHeld, Carried
<1>5. CASE \E h \in Hooks : HookStep(h) \/ \E j \in Jobs : AskTool(j, h)
  BY <1>5, HookFrame DEF MInv, IInv, MessageAccounted, Kept, InHeld, Carried
<1>6. CASE Quiet /\ ~Restart
  BY <1>1, <1>2, <1>4, <1>5, <1>6, JobAccounts, ClientAccounts, DispatchAccounts,
     OtherAccounts DEF Next, AgentActs
<1> QED BY <1>1, <1>2, <1>3, <1>4, <1>6 DEF Next

LEMMA JobDrains ==
  ASSUME IInv, HeldIsDrained, NEW j \in Jobs,
         JobStep(j) \/ Verified(j) \/ FixRound(j) \/ ScheduleCheck(j)
  PROVE  HeldIsDrained'
<1> USE DEF IInv, TypeOK, HeldIsDrained, Draining, Terminal, WorkersLive, rows, mem,
        runs, shown, At, Goto
<1>1. CASE Claim(j)
  BY <1>1 DEF Claim
<1>2. CASE WaitRunEnd(j)
  BY <1>2 DEF WaitRunEnd
<1>3. CASE StartRunning(j)
  <2>1. CASE Started(j)
    BY <1>3, <2>1 DEF StartRunning, Started, Put
  <2>2. CASE Busy(j) \/ Gone(j)
    BY <1>3, <2>2 DEF StartRunning, Busy, Gone
  <2> QED BY <1>3, <2>1, <2>2 DEF StartRunning
<1>4. CASE Attach(j)
  BY <1>4 DEF Attach
<1>5. CASE PrepFails(j)
  BY <1>5 DEF PrepFails
<1>6. CASE AgentEnds(j)
  BY <1>6 DEF AgentEnds
<1>7. CASE AfterRun(j)
  BY <1>7 DEF AfterRun
<1>8. CASE FixEnds(j)
  BY <1>8 DEF FixEnds
<1>9. CASE OutOfSteps(j)
  <2>1. j \in live /\ live' = live
    BY <1>9 DEF OutOfSteps
  <2> QED BY <2>1
<1>10. CASE Catch(j)
  BY <1>10 DEF Catch
<1>11. CASE WriteStatus(j)
  BY <1>11 DEF WriteStatus
<1>12. CASE Settle(j)
  BY <1>12 DEF Settle, Wake
<1>13. CASE Verified(j)
  BY <1>13 DEF Verified
<1>14. CASE FixStarts(j)
  BY <1>14 DEF FixStarts
<1>15. CASE ScheduleCheck(j)
  BY <1>15 DEF ScheduleCheck
<1>16. CASE FixRound(j)
  BY <1>16 DEF FixRound
<1>17. CASE OfferPark(j) \/ OfferWaived(j) \/ Approved(j)
  <2>1. j \in live /\ live' = live
    BY <1>17 DEF OfferPark, OfferWaived, Approved
  <2> QED BY <2>1
<1> QED BY <1>1, <1>2, <1>3, <1>4, <1>5, <1>6, <1>7, <1>8, <1>9, <1>10, <1>11,
           <1>12, <1>13, <1>14, <1>15, <1>16, <1>17 DEF JobStep

LEMMA ClientDrains ==
  ASSUME IInv, HeldIsDrained, NEW c \in Clients, ClientStep(c) \/ ClientActs(c)
  PROVE  HeldIsDrained'
<1> USE DEF IInv, TypeOK, HeldIsDrained, Draining, Terminal, rows, mem, runs, shown,
        At, Goto
<1>1. CASE CancelDropHeld(c)
  BY <1>1 DEF CancelDropHeld
<1>2. CASE DropJobs(c, "dropJobs", "cancelled") \/ DropJobs(c, "doneJobs", "done")
  BY <1>2 DEF DropJobs, Unclaimed
<1>3. CASE CancelWrite(c) \/ MarkDoneWrite(c) \/ Denied(c)
  BY <1>3 DEF CancelWrite, MarkDoneWrite, Denied
<1>4. CASE CancelAbort(c)
  BY <1>4 DEF CancelAbort
<1>5. CASE Approved(c)
  BY <1>5 DEF Approved, ContinueRun, Put
<1>6. CASE \E m \in Msgs : FollowUp(c, m)
  BY <1>6 DEF FollowUp
<1>7. CASE Start(c) \/ Cancel(c) \/ MarkDone(c)
  BY <1>7 DEF Start, Cancel, MarkDone
<1>8. CASE DecideContinuation(c)
  BY <1>8 DEF DecideContinuation
<1> QED BY <1>1, <1>2, <1>3, <1>4, <1>5, <1>6, <1>7, <1>8 DEF ClientStep, ClientActs

LEMMA OtherDrains ==
  ASSUME IInv, HeldIsDrained,
         \/ \E p \in Procs : Dispatch(p)
         \/ \E i \in DOMAIN held : WithdrawHeld(i)
         \/ SweepStep \/ Restart
  PROVE  HeldIsDrained'
<1> USE SlotsAssumption DEF SlotsAssumption, IInv, TypeOK, HeldIsDrained, Draining,
        Terminal, rows, mem, runs, shown, At, Goto
<1>1. ASSUME NEW p \in Procs, Dispatch(p) PROVE HeldIsDrained'
  <2>1. CASE ClaimTask(p)
    BY <2>1 DEF ClaimTask, Put
  <2>2. CASE Enqueue(p)
    BY <2>2 DEF Enqueue, Return
  <2>3. CASE Hold(p)
    BY <2>3 DEF Hold
  <2>4. CASE CreateHeld(p)
    BY <2>4 DEF CreateHeld
  <2>5. CASE FindHeld(p)
    BY <2>5 DEF FindHeld
  <2>6. CASE DeleteHeld(p)
    BY <2>6 DEF DeleteHeld
  <2> QED BY <1>1, <2>1, <2>2, <2>3, <2>4, <2>5, <2>6 DEF Dispatch
<1>2. ASSUME NEW i \in DOMAIN held, WithdrawHeld(i) PROVE HeldIsDrained'
  <2>1. held # <<>> /\ UNCHANGED <<status, left, pc, live>>
    BY <1>2 DEF WithdrawHeld
  <2> QED BY <2>1
<1>3. CASE SweepAtBoot \/ SweepPeriodic
  BY <1>3 DEF SweepAtBoot, SweepPeriodic
<1>4. CASE SweepAct
  BY <1>4 DEF SweepAct, Put
<1>5. CASE Restart
  BY <1>5 DEF Restart
<1> QED BY <1>1, <1>2, <1>3, <1>4, <1>5 DEF SweepStep

LEMMA Drains == IInv /\ HeldIsDrained /\ [Next]_vars => HeldIsDrained'
<1> SUFFICES ASSUME IInv, HeldIsDrained, [Next]_vars PROVE HeldIsDrained'
  OBVIOUS
<1>1. CASE UNCHANGED vars
  BY <1>1 DEF vars, HeldIsDrained, Draining
<1>2. CASE \E j \in Jobs : At(j, "resumed") /\ StartRunning(j)
  BY <1>2, JobDrains DEF JobStep
<1>3. CASE Restart
  BY <1>3, OtherDrains
<1>4. ASSUME NEW p \in Procs, Look(p) PROVE HeldIsDrained'
  BY <1>4, LookFrame DEF IInv, TypeOK, HeldIsDrained, Draining
<1>5. CASE \E h \in Hooks : HookStep(h) \/ \E j \in Jobs : AskTool(j, h)
  BY <1>5, HookFrame DEF IInv, HeldIsDrained, Draining, Terminal
<1>6. CASE Quiet /\ ~Restart
  BY <1>1, <1>2, <1>4, <1>5, <1>6, JobDrains, ClientDrains, OtherDrains
     DEF Next, AgentActs
<1> QED BY <1>1, <1>2, <1>3, <1>4, <1>6 DEF Next

LEMMA MoreInv == MInv /\ [Next]_vars => MInv'
BY NextInv, Hands, Attends, Accounts, Drains DEF MInv

\* Every variable of the component keeps its type.
THEOREM TypeCorrect == Spec => []TypeOK
<1>1. IInv => TypeOK
  BY DEF IInv
<1> QED BY InitInv, NextInv, <1>1, PTL DEF Spec

\* X-Q-1: startRunning never lets two runs of a task be live at once, unless it
\* gave up waiting for the earlier one.
THEOREM OneRunPerTaskHolds == Spec => []OneRunPerTask
<1> QED BY InitInv, NextInv, OneRun, PTL DEF Spec

\* From the moment somebody sends a follow-up until an agent has it or
\* something drops it for a reason, a row or a process holds it.
THEOREM MessageAccountedHolds == Spec => []MessageAccounted
<1>1. Init => MInv
  BY InitInv, InitMore DEF MInv
<1>2. MInv => MessageAccounted
  BY DEF MInv
<1> QED BY <1>1, <1>2, MoreInv, PTL DEF Spec

\* Whatever verdict, timeout or restart comes when (Verdict, Flip, Denied, Restart):
\* a task shown as running has a run, a decision or an offer behind it, unless it
\* was parked astray.
THEOREM RunningHasRunHolds == Spec => []RunningHasRun
<1>1. Init => MInv
  BY InitInv, InitMore DEF MInv
<1>2. MInv => RunningHasRun
  BY DEF MInv, IInv, Attended, AtWork, Working, WorkersLive, RunningHasRun
<1> QED BY <1>1, <1>2, MoreInv, PTL DEF Spec

\* needs_approval has an open offer, a decision on its way, or a worker that will
\* still write the status, unless the task was parked astray.
THEOREM ParkedHasAskHolds == Spec => []ParkedHasAsk
<1>1. Init => MInv
  BY InitInv, InitMore DEF MInv
<1>2. MInv => ParkedHasAsk
  BY DEF MInv, IInv, Attended, AtWork, Working, WorkersLive, ParkedHasAsk
<1> QED BY <1>1, <1>2, MoreInv, PTL DEF Spec

\* Whoever ends the task (the worker, cancel, accept, a refused continuation, the
\* sweep), and whatever runs beside it: a message that is held is drained, unless
\* it was held after the last look or a restart left it.
THEOREM HeldIsDrainedHolds == Spec => []HeldIsDrained
<1>1. Init => MInv
  BY InitInv, InitMore DEF MInv
<1>2. MInv => HeldIsDrained
  BY DEF MInv
<1> QED BY <1>1, <1>2, MoreInv, PTL DEF Spec
============================================================================
