----------------------- MODULE FactoryDispatchProofs -----------------------
(***************************************************************************)
(* While the plugins stay (Disposable = {}), FactoryRuntime hands a run on *)
(* from one place to the next and never keeps it in two: for any number of *)
(* runs, workflows, versions, slots, schedules, host starts, stops and     *)
(* crashes, and whatever the repository rejects.                           *)
(*                                                                         *)
(* SingleDispatch and QueuedHeldOnce are not inductive.  That a run is     *)
(* started once follows from its being in one place at a time, also while  *)
(* it is not queued any more (OnePlace): the queue holds an id once, and   *)
(* not that of the pump's read (QueueOnce); a run that is not stored yet,  *)
(* or that Service.init has still to look at, is nowhere (AbsentNowhere);  *)
(* and of the registrations of a workflow one is defined and recovers its  *)
(* runs (OneDefined).                                                      *)
(*                                                                         *)
(* From this the other results.  A recovery that has ended leaves none of  *)
(* its runs waiting (NoStrandedSchedule).  The stop effect aborts every    *)
(* execution but the one that a read in flight may still start             *)
(* (StopLeaves).  If a workflow keeps its version (OneVersion), a status   *)
(* moves only along Edges and a terminal one stays.  The conditions are    *)
(* needed: runs runtime_stranded, runtime_unload and runtime_terminal of   *)
(* the project show what the code does without them.                       *)
(***************************************************************************)
EXTENDS FactoryRuntimeProofs

Pumped(r)    == Queued(r) \/ (drain.pc = "reading" /\ drain.id = r)
Executed(r)  == \E s \in Busy : exec[s].run = r
Reads(g, r)  == recovery[g].pc = "reading" /\ recovery[g].id = r
Fails(g, r)  == recovery[g].pc = "failing" /\ recovery[g].id = r
Recovered(r) == r \in recoverable \/ \E g \in Registrations : Reads(g, r)
Expiring(r)  == \E g \in Registrations : Fails(g, r)
Admitted(r)  == admission[r].pc \in {"creating", "cancelling"}

Places == {"admission", "timer", "release", "pump", "execution", "recovery", "expiry"}
At(r, place) ==
    CASE place = "admission" -> Admitted(r)
      [] place = "timer"     -> scheduledTimers[r] # NoTimer
      [] place = "release"   -> release[r] # "none"
      [] place = "pump"      -> Pumped(r)
      [] place = "execution" -> Executed(r)
      [] place = "recovery"  -> Recovered(r)
      [] OTHER               -> Expiring(r)

OneAt(r)   == \A p, q \in Places : At(r, p) /\ At(r, q) => p = q
Nowhere(r) == \A p \in Places : ~At(r, p)

Distinct(queue) == \A i, j \in 1 .. Len(queue) : queue[i] = queue[j] => i = j

OnePlace      == \A r \in Runs : OneAt(r)
QueueOnce     == Distinct(queuedIds) /\ (drain.pc = "reading" => ~Queued(drain.id))
AbsentNowhere == \A r \in Runs : ~Stored(r) \/ r \in booting => Nowhere(r)
InitBoots     == booting # {} => host = "init"
OneDefined ==
    /\ \A g \in Registrations :
          /\ disposer[g].pc \notin {"admissions", "reading"} /\ disposer[g].todo = {}
          /\ recovery[g].pc # "none" => definitions[WorkflowOf[g]] = g
          /\ recovery[g].pc \in {"reading", "failing"} =>
                /\ recovery[g].id \in Runs /\ Stored(recovery[g].id)
                /\ run[recovery[g].id].workflow = WorkflowOf[g]
    /\ \A r \in Runs : \A i \in 1 .. Len(mutations[r]) :
          mutations[r][i].kind = "expire" =>
              /\ mutations[r][i].by \in Registrations
              /\ definitions[WorkflowOf[mutations[r][i].by]] = mutations[r][i].by

PlaceInv ==
    /\ EarlyInv /\ BoundInv /\ StopStarted
    /\ OnePlace /\ QueueOnce /\ AbsentNowhere /\ InitBoots /\ OneDefined /\ SingleDispatch

-----------------------------------------------------------------------------
(* The queue holds an id once, and not that of the pump's read. *)

InQueue(queue, r) == \E i \in 1 .. Len(queue) : queue[i] = r

\* Queued in terms of the length.
LEMMA QueuedIn ==
    ASSUME DispatchOK
    PROVE  \A r : Queued(r) <=> InQueue(queuedIds, r)
BY DEF Queued, InQueue, DispatchOK

\* drainQueue hands the head of its queue to the read.
LEMMA DrainLoopOnce ==
    ASSUME NEW queue \in Seq(Runs), Distinct(queue), NEW acc, NEW active,
           NEW otherwise \in {"idle", "exiting"}, DispatchOK',
           DrainLoop(queue, acc, active, otherwise)
    PROVE  QueueOnce' /\ \A r : Pumped(r)' => InQueue(queue, r)
<1>1. CASE MayDispatch(queue, active)
  <2>1. queue # << >> /\ queuedIds' = Tail(queue) /\ drain'.id = Head(queue)
    BY <1>1 DEF MayDispatch, DrainLoop, Shifted
  <2>2. /\ Head(queue) = queue[1] /\ Len(queue) \in Nat /\ Len(queue) >= 1
        /\ Len(Tail(queue)) = Len(queue) - 1
        /\ \A i \in 1 .. Len(Tail(queue)) : Tail(queue)[i] = queue[i + 1]
    BY <2>1
  <2>3. ASSUME NEW i \in 1 .. Len(Tail(queue))
        PROVE  i + 1 \in 1 .. Len(queue) /\ i + 1 # 1 /\ 1 \in 1 .. Len(queue)
    BY <2>2
  <2>4. Distinct(Tail(queue))
    BY <2>2, <2>3 DEF Distinct
  <2>5. \A r : InQueue(Tail(queue), r) => InQueue(queue, r) /\ r # Head(queue)
    BY <2>2, <2>3 DEF Distinct, InQueue
  <2>6. InQueue(queue, Head(queue))
    BY <2>2 DEF InQueue
  <2>7. \A r : Queued(r)' <=> InQueue(Tail(queue), r)
    <3>1. Tail(queue) \in Seq(Runs) /\ DOMAIN Tail(queue) = 1 .. Len(Tail(queue))
      BY <2>1
    <3>. QED BY <2>1, <3>1 DEF Queued, InQueue
  <2>. QED BY <2>1, <2>4, <2>5, <2>6, <2>7 DEF QueueOnce, Pumped
<1>2. CASE ~MayDispatch(queue, active)
  <2>1. queuedIds' = queue /\ drain'.pc # "reading"
    BY <1>2 DEF DrainLoop, NoRead
  <2>2. \A r : Queued(r)' <=> InQueue(queue, r)
    BY <2>1 DEF DispatchOK, Queued, InQueue
  <2>. QED BY <2>1, <2>2 DEF QueueOnce, Pumped
<1>. QED BY <1>1, <1>2

\* pump() does that, or leaves the read in flight alone.
LEMMA PumpOnce ==
    ASSUME NEW queue \in Seq(Runs), Distinct(queue), NEW acc, NEW active,
           drain.pc = "reading" => ~InQueue(queue, drain.id), DispatchOK',
           Pump(queue, acc, active)
    PROVE  QueueOnce' /\ \A r : Pumped(r)' => InQueue(queue, r) \/ Pumped(r)
<1>1. CASE drain.pc = "idle"
  BY <1>1, DrainLoopOnce DEF Pump
<1>2. CASE drain.pc # "idle"
  <2>1. queuedIds' = queue /\ drain' = drain
    BY <1>2 DEF Pump
  <2>2. \A r : Queued(r)' <=> InQueue(queue, r)
    BY <2>1 DEF DispatchOK, Queued, InQueue
  <2>. QED BY <2>1, <2>2 DEF QueueOnce, Pumped
<1>. QED BY <1>1, <1>2

\* enqueueRun adds its run, which is not in the pump's hands, and no other.
LEMMA EnqueueRunOnce ==
    ASSUME DispatchOK, QueueOnce, NEW r \in Runs, ~Pumped(r), NEW acc, DispatchOK',
           EnqueueRun(r, acc)
    PROVE  QueueOnce' /\ \A q : Pumped(q)' => Pumped(q) \/ q = r
<1> DEFINE queue == Append(queuedIds, r)
<1>1. ~Queued(r) /\ Pump(queue, acc, activeCount)
  BY DEF EnqueueRun, Pumped
<1>2. /\ queue \in Seq(Runs) /\ Len(queue) = Len(queuedIds) + 1 /\ Len(queuedIds) \in Nat
      /\ \A i \in 1 .. Len(queuedIds) : queue[i] = queuedIds[i]
      /\ queue[Len(queuedIds) + 1] = r
  BY DEF DispatchOK
<1> HIDE DEF queue
<1>3. \A i \in 1 .. Len(queue) : i \in 1 .. Len(queuedIds) \/ i = Len(queuedIds) + 1
  BY <1>2
<1>4. \A i \in 1 .. Len(queuedIds) : queuedIds[i] # r
  BY <1>1, QueuedIn DEF InQueue
<1>5. Distinct(queue)
  BY <1>2, <1>3, <1>4 DEF QueueOnce, Distinct
<1>6. \A q : InQueue(queue, q) <=> Queued(q) \/ q = r
  BY <1>2, <1>3, QueuedIn DEF InQueue
<1>7. drain.pc = "reading" => ~InQueue(queue, drain.id)
  BY <1>6 DEF QueueOnce, Pumped
<1>. QED BY <1>1, <1>2, <1>5, <1>6, <1>7, PumpOnce DEF Pumped

\* removeQueuedId takes its run out, and adds none.
LEMMA RemoveQueuedIdLess ==
    ASSUME DispatchOK, Distinct(queuedIds), NEW r \in Runs, DispatchOK',
           queuedIds' = RemoveQueuedId(r)
    PROVE  Distinct(queuedIds') /\ ~Queued(r)' /\ \A q : Queued(q)' => Queued(q)
<1>1. CASE ~Queued(r)
  <2>1. queuedIds' = queuedIds
    BY <1>1 DEF RemoveQueuedId
  <2>. QED BY <1>1, <2>1 DEF Distinct, Queued
<1>2. CASE Queued(r)
  <2> DEFINE i == CHOOSE j \in DOMAIN queuedIds : queuedIds[j] = r
             front == SubSeq(queuedIds, 1, i - 1)
             back == SubSeq(queuedIds, i + 1, Len(queuedIds))
  <2>1. i \in 1 .. Len(queuedIds) /\ queuedIds[i] = r
    BY <1>2 DEF Queued, DispatchOK
  <2>2. RemoveQueuedId(r) = front \o back
    BY <1>2 DEF RemoveQueuedId
  <2>3. \A j \in 1 .. Len(queuedIds) : queuedIds[j] \in Runs
    BY DEF DispatchOK
  <2> HIDE DEF i
  <2>4. i \in Int /\ i - 1 \in Int /\ i + 1 \in Int /\ Len(queuedIds) \in Nat
    BY <2>1 DEF DispatchOK
  <2>5. /\ front \in Seq(Runs) /\ Len(front) = i - 1
        /\ \A j \in 1 .. i - 1 : front[j] = queuedIds[j]
    <3>1. \A j \in 1 .. i - 1 : queuedIds[j] \in Runs
      BY <2>1, <2>3, <2>4
    <3>. QED BY <2>1, <2>4, <3>1, SubSeqProperties
  <2>6. /\ back \in Seq(Runs) /\ Len(back) = Len(queuedIds) - i
        /\ \A j \in 1 .. Len(queuedIds) - i : back[j] = queuedIds[i + j]
    <3>1. \A j \in i + 1 .. Len(queuedIds) : queuedIds[j] \in Runs
      BY <2>1, <2>3, <2>4
    <3>. QED BY <2>1, <2>4, <3>1, SubSeqProperties
  <2> HIDE DEF front, back
  <2> DEFINE old(j) == IF j < i THEN j ELSE j + 1
             queue == front \o back
  <2>7. /\ queue \in Seq(Runs) /\ Len(queue) = Len(queuedIds) - 1
        /\ \A j \in 1 .. Len(queue) : /\ queue[j] = queuedIds[old(j)]
                                      /\ old(j) \in 1 .. Len(queuedIds) /\ old(j) # i
    <3>1. queue \in Seq(Runs) /\ Len(queue) = Len(front) + Len(back)
          /\ \A j \in 1 .. Len(front) + Len(back) :
                queue[j] = IF j <= Len(front) THEN front[j] ELSE back[j - Len(front)]
      BY <2>5, <2>6, ConcatProperties
    <3>2. Len(queue) = Len(queuedIds) - 1
      BY <2>4, <2>5, <2>6, <3>1
    <3>3. ASSUME NEW j \in 1 .. Len(queue)
          PROVE  /\ queue[j] = queuedIds[old(j)]
                 /\ old(j) \in 1 .. Len(queuedIds) /\ old(j) # i
      <4>1. CASE j < i
        BY <2>1, <2>4, <2>5, <2>6, <3>1, <3>2, <4>1
      <4>2. CASE ~(j < i)
        <5>1. /\ j - (i - 1) \in 1 .. Len(queuedIds) - i /\ ~(j <= i - 1)
              /\ i + (j - (i - 1)) = j + 1
          BY <2>1, <2>4, <3>2, <4>2
        <5>2. queue[j] = back[j - (i - 1)]
          BY <2>5, <2>6, <3>1, <3>2, <5>1
        <5>3. queue[j] = queuedIds[j + 1]
          BY <2>6, <5>1, <5>2
        <5>. QED BY <2>1, <2>4, <3>2, <4>2, <5>3
      <4>. QED BY <4>1, <4>2
    <3>. QED BY <3>1, <3>2, <3>3
  <2>8. queuedIds' = queue
    BY <2>2
  <2>9. \A j, k \in 1 .. Len(queue) : j \in Int /\ k \in Int /\ (old(j) = old(k) => j = k)
    BY <2>4, <2>7
  <2> HIDE DEF old, queue
  <2>10. Distinct(queuedIds')
    BY <2>7, <2>8, <2>9 DEF Distinct
  <2>11. \A q : Queued(q)' => Queued(q) /\ q # r
    BY <2>1, <2>7, <2>8, QueuedIn DEF Queued, InQueue, Distinct, DispatchOK
  <2>. QED BY <2>10, <2>11
<1>. QED BY <1>1, <1>2

LEMMA RemoveQueuedIdOnce ==
    ASSUME DispatchOK, QueueOnce, NEW r \in Runs, DispatchOK',
           queuedIds' = RemoveQueuedId(r), drain' = drain
    PROVE  QueueOnce' /\ ~Queued(r)' /\ \A q : Pumped(q)' => Pumped(q)
BY RemoveQueuedIdLess DEF QueueOnce, Pumped

\* armScheduledRun gives its run a timer or enqueues it, not both.
LEMMA ArmScheduledRunOnce ==
    ASSUME DispatchOK, ScheduleOK, QueueOnce, NEW r \in Runs, ~Pumped(r), NEW acc,
           NEW rec \in SUBSET Runs, r \notin rec, r \notin recoverable \/ rec = recoverable \ {r},
           DispatchOK', ArmScheduledRun(r, acc, rec)
    PROVE  /\ QueueOnce' /\ \A q : Pumped(q)' => Pumped(q) \/ q = r
           /\ \A q \in Runs \ {r} : scheduledTimers'[q] = scheduledTimers[q]
           /\ ~(Pumped(r)' /\ scheduledTimers'[r] # NoTimer)
           /\ r \notin recoverable' /\ recoverable' \subseteq rec \cup recoverable
<1>1. CASE Due(r)
  <2>1. EnqueueRun(r, acc)
    BY <1>1 DEF ArmScheduledRun
  <2>. QED BY <2>1, EnqueueRunOnce DEF EnqueueRun, ScheduleOK
<1>2. CASE ~Due(r)
  <2>1. UNCHANGED dispatch /\ recoverable' = rec
        /\ \A q \in Runs \ {r} : scheduledTimers'[q] = scheduledTimers[q]
    BY <1>2 DEF ArmScheduledRun, ScheduleOK
  <2>2. QueueOnce' /\ \A q : Pumped(q)' <=> Pumped(q)
    BY <2>1 DEF dispatch, QueueOnce, Pumped, Queued
  <2>. QED BY <2>1, <2>2
<1>. QED BY <1>1, <1>2

-----------------------------------------------------------------------------
(* Which executions a step may add or end *)

SameSlots ==
    \A s \in Slots : /\ exec'[s].run = exec[s].run /\ exec'[s].reg = exec[s].reg
                     /\ exec'[s].pc = "idle" <=> exec[s].pc = "idle"
                     /\ exec[s].aborted => exec'[s].aborted

\* Only the pump begins an execution, and only the end of its task frees a slot.
LEMMA SlotSteps ==
    ASSUME BoundInv, [Next]_vars
    PROVE  \/ SameSlots
           \/ DrainContinue
           \/ \E s \in Slots : TaskFinally(s)
           \/ Boot \/ Crash
<1>. USE DEF vars, beyondPlugins, beyondHost, execution
<1>1. /\ exec \in [Slots -> ExecRecords] /\ \A s \in Slots : exec[s] \in ExecRecords
      /\ MutationsOK
  BY DEF BoundInv, TypeOK, ExecutionOK
<1>2. UNCHANGED exec => SameSlots
  BY DEF SameSlots
<1>3. ASSUME NEW rs, exec' = Aborted(rs) PROVE SameSlots
  <2>1. \A s \in Slots : /\ [exec[s] EXCEPT !.aborted = TRUE].pc = exec[s].pc
                         /\ [exec[s] EXCEPT !.aborted = TRUE].run = exec[s].run
                         /\ [exec[s] EXCEPT !.aborted = TRUE].reg = exec[s].reg
                         /\ [exec[s] EXCEPT !.aborted = TRUE].aborted
    BY <1>1 DEF ExecRecords
  <2>. QED BY <1>3, <2>1 DEF Aborted, SameSlots
<1>4. ASSUME NEW s \in Slots, exec[s].pc # "idle",
             NEW pc \in {"started", "body", "reviewing", "saved", "refused", "closing"},
             exec' = [exec EXCEPT ![s].pc = pc]
      PROVE  SameSlots
  BY <1>1, <1>4 DEF SameSlots, ExecRecords
<1>5. ASSUME NEW r \in Runs, CommitExecution(r) PROVE SameSlots
  <2> DEFINE m == Head(mutations[r])
  <2>1. mutations[r] \in Seq(Mutations) /\ mutations[r] # << >>
    BY <1>1, <1>5 DEF MutationsOK, CommitExecution, Committing
  <2>2. m \in Mutations /\ m = mutations[r][1] /\ 1 \in 1 .. Len(mutations[r])
    BY <2>1, HeadTailProperties
  <2>3. m.by \in Slots /\ m.kind \in ExecutionKinds /\ exec[m.by].pc = Awaits(m.kind)
    BY <1>5, <2>2 DEF CommitExecution, BoundInv, UpdateAwaited, Mutations, ExecutionKinds, Kinds
  <2>4. PICK pc \in {"saved", "started", "refused"} : exec' = [exec EXCEPT ![m.by].pc = pc]
    BY <1>5 DEF CommitExecution, Told
  <2> HIDE DEF m
  <2>5. exec[m.by].pc # "idle"
    BY <2>3 DEF Awaits
  <2>. QED BY <1>4, <2>3, <2>4, <2>5
<1>6. ASSUME NEW r \in Runs, RunStep(r) PROVE SameSlots
  BY <1>2, <1>3, <1>5, <1>6 DEF RunStep, AdmissionContinue, CommitCancel, CommitApproval,
     CommitExpiry, CancelContinue, TimerFires, ReleaseContinue, ReleaseFails, InitRun
<1>7. ASSUME NEW s \in Slots, exec[s].pc # "idle", ExecCatch(s) PROVE SameSlots
  BY <1>1, <1>7 DEF ExecCatch, SameSlots, ExecRecords
<1>8. ASSUME NEW s \in Slots, ExecutionStep(s) \/ BodyStep(s)
      PROVE  SameSlots \/ TaskFinally(s)
  <2>1. CASE ExecBody(s) \/ BodyReturns(s) \/ ExecSettled(s)
    <3>1. exec[s].pc # "idle" /\
          \E pc \in {"body", "reviewing", "closing"} : exec' = [exec EXCEPT ![s].pc = pc]
      BY <2>1 DEF ExecBody, BodyReturns, ExecSettled, ExecStep
    <3>. QED BY <1>4, <3>1
  <2>. QED BY <1>7, <1>8, <2>1 DEF ExecutionStep, BodyStep, ExecRefused, ExecUnread, BodyFails
<1>9. ASSUME NEW g \in Registrations, PluginStep(g) PROVE UNCHANGED exec
  BY <1>9 DEF PluginStep, RecoverContinue, RecoverResume, RecoverFails, DisposeAdmitted,
     DisposeContinue, DisposeResume, DisposeDrained, DisposeFails
<1>10. CASE HostStep
  BY <1>2, <1>3, <1>10 DEF HostStep, DrainFinally, DrainFails, StopAbort, StopTasks, StopEnd,
     InitDone
<1>11. ASSUME Environment
       PROVE  UNCHANGED exec \/ Crash
  <2>1. ASSUME NEW r \in Runs, NEW g \in Registrations, NEW at \in Schedules, Start(r, g, at)
        PROVE  UNCHANGED exec
    BY <2>1 DEF Start
  <2>2. ASSUME NEW r \in Runs, Cancel(r) \/ Review(r) PROVE UNCHANGED exec
    BY <2>2 DEF Cancel, Review, UserCommand
  <2>3. ASSUME NEW g \in Registrations, Register(g) \/ Dispose(g) PROVE UNCHANGED exec
    BY <2>3 DEF Register, Dispose
  <2>. QED BY <1>11, <2>1, <2>2, <2>3 DEF Environment, StopBegin
<1>12. CASE Tick \/ UNCHANGED vars
  BY <1>2, <1>12 DEF Tick
<1>. QED BY <1>2, <1>6, <1>8, <1>9, <1>10, <1>11, <1>12 DEF Next

-----------------------------------------------------------------------------
(* How a step moves a run *)

Stays(r) == \A p \in Places : At(r, p)' => At(r, p)
Moves    == QueueOnce' /\ \A r \in Runs : Stays(r) \/ (OneAt(r)' /\ ~Nowhere(r))

\* The places one by one.
LEMMA AtPlaces ==
    \A r : /\ At(r, "admission") <=> Admitted(r)
           /\ At(r, "timer") <=> scheduledTimers[r] # NoTimer
           /\ At(r, "release") <=> release[r] # "none"
           /\ At(r, "pump") <=> Pumped(r)
           /\ At(r, "execution") <=> Executed(r)
           /\ At(r, "recovery") <=> Recovered(r)
           /\ At(r, "expiry") <=> Expiring(r)
BY DEF At

\* A run that is at one place is at no other.
LEMMA Alone ==
    ASSUME NEW r, OneAt(r), NEW p \in Places, At(r, p)
    PROVE  /\ ~Nowhere(r)
           /\ p = "admission" \/ ~Admitted(r)
           /\ p = "timer" \/ scheduledTimers[r] = NoTimer
           /\ p = "release" \/ release[r] = "none"
           /\ p = "pump" \/ ~Pumped(r)
           /\ p = "execution" \/ ~Executed(r)
           /\ p = "recovery" \/ ~Recovered(r)
           /\ p = "expiry" \/ ~Expiring(r)
BY AtPlaces DEF OneAt, Nowhere, Places

\* What has to be shown of a run that a step leaves where it is.
LEMMA StaysWhere ==
    ASSUME NEW r, Admitted(r)' => Admitted(r),
           scheduledTimers'[r] # NoTimer => scheduledTimers[r] # NoTimer,
           release'[r] # "none" => release[r] # "none",
           Pumped(r)' => Pumped(r), Executed(r)' => Executed(r),
           Recovered(r)' => Recovered(r), Expiring(r)' => Expiring(r)
    PROVE  Stays(r)
BY DEF Stays, At, Places

\* What has to be shown of a run that a step brings to a place.
LEMMA OnlyThere ==
    ASSUME NEW r, NEW p \in Places,
           p = "admission" \/ ~Admitted(r)',
           p = "timer" \/ scheduledTimers'[r] = NoTimer,
           p = "release" \/ release'[r] = "none",
           p = "pump" \/ ~Pumped(r)',
           p = "execution" \/ ~Executed(r)',
           p = "recovery" \/ ~Recovered(r)',
           p = "expiry" \/ ~Expiring(r)'
    PROVE  OneAt(r)'
BY DEF OneAt, At, Places

\* A step that leaves the executions alone leaves them with their runs.
LEMMA SameExecuted ==
    ASSUME SameSlots \/ UNCHANGED exec
    PROVE  \A r : Executed(r)' <=> Executed(r)
BY DEF SameSlots, Executed, Busy

\* The turns of a recovery's loop take what is recoverable.
LEMMA RecoverNextReads ==
    ASSUME TypeOK, NEW g \in Registrations, NEW rec \in SUBSET Runs, RecoverNext(g, rec)
    PROVE  /\ \A h \in Registrations \ {g} : recovery'[h] = recovery[h]
           /\ recovery'[g].pc \in {"reading", "done"}
           /\ recovery'[g].pc = "reading" => /\ recovery'[g].id \in rec
                                             /\ run[recovery'[g].id].workflow = WorkflowOf[g]
           /\ recovery'[g].pc = "done" => Candidates(g, rec) = {}
BY DEF RecoverNext, Candidates, TypeOK, PluginsOK

\* A run leaves its admission for the queue or a timer, or to be cancelled.
LEMMA AdmissionMoves ==
    ASSUME PlaceInv, TypeOK', NEW r \in Runs, AdmissionContinue(r)
    PROVE  Moves
<1>. USE DEF execution, plugins, phase, durable
<1>1. /\ UNCHANGED <<exec, recovery, release>> /\ TypeOK /\ DispatchOK /\ DispatchOK'
      /\ ScheduleOK /\ recoverable \in SUBSET Runs
      /\ \A q \in Runs \ {r} : admission'[q] = admission[q]
  BY DEF AdmissionContinue, PlaceInv, BoundInv, TypeOK, ScheduleOK, CallersOK
<1>2. At(r, "admission") /\ OneAt(r) /\ "admission" \in Places
  BY AtPlaces DEF AdmissionContinue, Admitted, PlaceInv, OnePlace, Places
<1>3. /\ ~Nowhere(r) /\ scheduledTimers[r] = NoTimer /\ release[r] = "none" /\ ~Pumped(r)
      /\ ~Executed(r) /\ ~Recovered(r) /\ ~Expiring(r)
  BY <1>2, Alone
<1>4. /\ \A q : Executed(q)' <=> Executed(q)
      /\ \A q : Expiring(q)' <=> Expiring(q)
  BY <1>1, SameExecuted DEF Expiring, Fails
<1>5. CASE UNCHANGED <<dispatch, schedule>>
  <2>1. QueueOnce' /\ \A q : /\ Pumped(q)' <=> Pumped(q)
                             /\ Recovered(q)' <=> Recovered(q)
                             /\ scheduledTimers'[q] = scheduledTimers[q]
    BY <1>1, <1>5 DEF dispatch, schedule, PlaceInv, QueueOnce, Pumped, Queued, Recovered, Reads
  <2>2. \A q \in Runs : Stays(q)
    <3>1. ASSUME NEW q \in Runs PROVE Admitted(q)' => Admitted(q)
      BY <1>1, <1>2, AtPlaces DEF Admitted
    <3>. QED BY <1>1, <1>4, <2>1, <3>1, StaysWhere
  <2>. QED BY <2>1, <2>2 DEF Moves
<1>6. CASE ~UNCHANGED <<dispatch, schedule>>
  <2>1. /\ admission' = [admission EXCEPT ![r].pc = "done"]
        /\ ArmScheduledRun(r, accepted', recoverable) \/ EnqueueRun(r, accepted')
    BY <1>6 DEF AdmissionContinue
  <2>2. ~Admitted(r)'
    BY <1>1, <2>1 DEF Admitted, TypeOK, CallersOK, AdmissionRecords
  <2>3. r \notin recoverable
    BY <1>3 DEF Recovered
  <2>4. /\ QueueOnce' /\ \A q : Pumped(q)' => Pumped(q) \/ q = r
        /\ \A q \in Runs \ {r} : scheduledTimers'[q] = scheduledTimers[q]
        /\ ~(Pumped(r)' /\ scheduledTimers'[r] # NoTimer)
        /\ recoverable' \subseteq recoverable
    <3>1. CASE ArmScheduledRun(r, accepted', recoverable)
      BY <1>1, <1>3, <2>3, <3>1, ArmScheduledRunOnce DEF PlaceInv
    <3>2. CASE EnqueueRun(r, accepted')
      BY <1>1, <1>3, <3>2, EnqueueRunOnce DEF PlaceInv, EnqueueRun, ScheduleOK
    <3>. QED BY <2>1, <3>1, <3>2
  <2>5. \A q : Recovered(q)' => Recovered(q)
    BY <1>1, <2>4 DEF Recovered, Reads
  <2>6. ASSUME NEW q \in Runs \ {r} PROVE Stays(q)
    <3>1. Admitted(q)' <=> Admitted(q)
      BY <1>1 DEF Admitted
    <3>. QED BY <1>1, <1>4, <2>4, <2>5, <3>1, StaysWhere
  <2>7. OneAt(r)'
    <3>1. PICK p \in {"pump", "timer"} : /\ p = "timer" \/ scheduledTimers'[r] = NoTimer
                                         /\ p = "pump" \/ ~Pumped(r)'
      BY <2>4
    <3>2. p \in Places /\ release'[r] = "none" /\ ~Executed(r)' /\ ~Recovered(r)' /\ ~Expiring(r)'
      BY <1>1, <1>3, <1>4, <2>5 DEF Places
    <3>. QED BY <2>2, <3>1, <3>2, OnlyThere
  <2>. QED BY <1>3, <2>4, <2>6, <2>7 DEF Moves
<1>. QED BY <1>5, <1>6

\* A step that only takes runs away from places.
LEMMA LeavesMoves ==
    ASSUME PlaceInv, SameSlots \/ UNCHANGED exec \/ \A r : Executed(r)' => Executed(r),
           QueueOnce', \A r : Pumped(r)' => Pumped(r),
           \A r \in Runs : /\ Admitted(r)' => Admitted(r)
                           /\ scheduledTimers'[r] # NoTimer => scheduledTimers[r] # NoTimer
                           /\ release'[r] # "none" => release[r] # "none"
                           /\ Recovered(r)' => Recovered(r)
                           /\ Expiring(r)' => Expiring(r)
    PROVE  Moves /\ \A r \in Runs : Stays(r)
<1>1. \A r : Executed(r)' => Executed(r)
  BY SameExecuted
<1>2. ASSUME NEW r \in Runs PROVE Stays(r)
  BY <1>1, StaysWhere
<1>. QED BY <1>2 DEF Moves

\* Nothing touches the queue and the read.
LEMMA SamePump ==
    ASSUME QueueOnce, UNCHANGED dispatch
    PROVE  QueueOnce' /\ \A r : Pumped(r)' <=> Pumped(r)
BY DEF dispatch, QueueOnce, Pumped, Queued

\* Nothing touches the recoveries.
LEMMA SameRecovery ==
    ASSUME recoverable' \subseteq recoverable,
           \A g \in Registrations : recovery'[g] = recovery[g]
    PROVE  \A r : /\ Recovered(r)' => Recovered(r)
                  /\ Expiring(r)' => Expiring(r)
BY DEF Recovered, Expiring, Reads, Fails

\* A timer that fires leaves its run to the release.
LEMMA TimerMoves ==
    ASSUME PlaceInv, NEW r \in Runs, TimerFires(r)
    PROVE  Moves
<1>1. /\ UNCHANGED <<exec, recovery, recoverable, admission, dispatch>>
      /\ OneAt(r) /\ "timer" \in Places /\ At(r, "timer")
      /\ \A q \in Runs \ {r} : scheduledTimers'[q] = scheduledTimers[q] /\ release'[q] = release[q]
      /\ scheduledTimers'[r] = NoTimer
  BY AtPlaces DEF TimerFires, execution, plugins, PlaceInv, OnePlace, Places, BoundInv, TypeOK,
     ScheduleOK, CallersOK
<1>2. /\ ~Nowhere(r) /\ ~Admitted(r) /\ ~Pumped(r)
      /\ ~Executed(r) /\ ~Recovered(r) /\ ~Expiring(r)
  BY <1>1, Alone
<1>3. QueueOnce' /\ \A q : Pumped(q)' <=> Pumped(q)
  BY <1>1, SamePump DEF PlaceInv
<1>4. \A q : /\ Admitted(q)' <=> Admitted(q)
             /\ Recovered(q)' => Recovered(q)
             /\ Expiring(q)' => Expiring(q)
             /\ Executed(q)' <=> Executed(q)
  BY <1>1, SameRecovery, SameExecuted DEF Admitted
<1>5. ASSUME NEW q \in Runs \ {r} PROVE Stays(q)
  BY <1>1, <1>3, <1>4, StaysWhere
<1>6. OneAt(r)'
  <2>1. "release" \in Places
    BY DEF Places
  <2>. QED BY <1>1, <1>2, <1>3, <1>4, <2>1, OnlyThere
<1>. QED BY <1>2, <1>3, <1>5, <1>6 DEF Moves

\* A release enqueues its run, arms it once more, parks it, or forgets it.
LEMMA ReleaseMoves ==
    ASSUME PlaceInv, TypeOK', NEW r \in Runs, ReleaseContinue(r)
    PROVE  Moves
<1>1. /\ UNCHANGED <<exec, recovery, admission>>
      /\ OneAt(r) /\ "release" \in Places /\ At(r, "release")
      /\ \A q \in Runs \ {r} : release'[q] = release[q]
      /\ release'[r] = "none" /\ DispatchOK /\ DispatchOK' /\ ScheduleOK /\ ScheduleOK'
  BY AtPlaces DEF ReleaseContinue, execution, plugins, PlaceInv, OnePlace, Places, BoundInv,
     TypeOK, CallersOK
<1>2. /\ ~Nowhere(r) /\ ~Admitted(r) /\ ~Pumped(r) /\ scheduledTimers[r] = NoTimer
      /\ ~Executed(r) /\ ~Recovered(r) /\ ~Expiring(r)
  BY <1>1, Alone
<1>3. \A q : /\ Admitted(q)' <=> Admitted(q)
             /\ Executed(q)' <=> Executed(q)
             /\ Expiring(q)' <=> Expiring(q)
  BY <1>1, SameExecuted DEF Admitted, Expiring, Fails
<1>4. CASE ArmScheduledRun(r, accepted, recoverable)
  <2>1. r \notin recoverable /\ recoverable \in SUBSET Runs
    BY <1>1, <1>2 DEF Recovered, ScheduleOK
  <2>2. /\ QueueOnce' /\ \A q : Pumped(q)' => Pumped(q) \/ q = r
        /\ \A q \in Runs \ {r} : scheduledTimers'[q] = scheduledTimers[q]
        /\ ~(Pumped(r)' /\ scheduledTimers'[r] # NoTimer)
        /\ recoverable' \subseteq recoverable
    BY <1>1, <1>2, <1>4, <2>1, ArmScheduledRunOnce DEF PlaceInv
  <2>3. \A q : Recovered(q)' => Recovered(q)
    BY <1>1, <2>2 DEF Recovered, Reads
  <2>4. ASSUME NEW q \in Runs \ {r} PROVE Stays(q)
    BY <1>1, <1>3, <2>2, <2>3, StaysWhere
  <2>5. OneAt(r)'
    <3>1. PICK p \in {"pump", "timer"} : /\ p = "timer" \/ scheduledTimers'[r] = NoTimer
                                         /\ p = "pump" \/ ~Pumped(r)'
      BY <2>2
    <3>2. p \in Places /\ ~Admitted(r)' /\ ~Executed(r)' /\ ~Recovered(r)' /\ ~Expiring(r)'
      BY <1>2, <1>3, <2>3 DEF Places
    <3>. QED BY <1>1, <3>1, <3>2, OnlyThere
  <2>. QED BY <1>2, <2>2, <2>4, <2>5 DEF Moves
<1>5. CASE /\ UNCHANGED dispatch
           /\ \A q \in Runs : scheduledTimers'[q] # NoTimer => scheduledTimers[q] # NoTimer
           /\ recoverable' \in {recoverable, recoverable \cup {r}}
  <2>1. QueueOnce' /\ \A q : Pumped(q)' <=> Pumped(q)
    BY <1>5, SamePump DEF PlaceInv
  <2>2. \A q : Recovered(q)' => Recovered(q) \/ q = r
    BY <1>1, <1>5 DEF Recovered, Reads
  <2>3. ASSUME NEW q \in Runs \ {r} PROVE Stays(q)
    BY <1>1, <1>3, <1>5, <2>1, <2>2, StaysWhere
  <2>4. OneAt(r)'
    <3>1. "recovery" \in Places /\ ~Admitted(r)' /\ ~Executed(r)' /\ ~Pumped(r)' /\ ~Expiring(r)'
          /\ scheduledTimers'[r] = NoTimer
      BY <1>2, <1>3, <1>5, <2>1 DEF Places
    <3>. QED BY <1>1, <3>1, OnlyThere
  <2>. QED BY <1>2, <2>1, <2>3, <2>4 DEF Moves
<1>6. \/ ArmScheduledRun(r, accepted, recoverable)
      \/ /\ UNCHANGED dispatch
         /\ \A q \in Runs : scheduledTimers'[q] # NoTimer => scheduledTimers[q] # NoTimer
         /\ recoverable' \in {recoverable, recoverable \cup {r}}
  BY <1>1 DEF ReleaseContinue, schedule, Parked, ScheduleOK
<1>. QED BY <1>4, <1>5, <1>6

\* Two registrations of a workflow are never at one run.
LEMMA OneReader ==
    ASSUME OneDefined, NEW g \in Registrations, NEW h \in Registrations,
           recovery[g].pc \in {"reading", "failing"}, recovery[h].pc \in {"reading", "failing"},
           recovery[g].id = recovery[h].id
    PROVE  g = h
BY DEF OneDefined

\* A recovery hands its run to a timer, the queue or the update that fails it.
LEMMA RecoverMoves ==
    ASSUME PlaceInv, TypeOK', NEW g \in Registrations, RecoverContinue(g)
    PROVE  Moves
<1>1. /\ UNCHANGED <<exec, release, admission>> /\ recovery[g].pc = "reading"
      /\ TypeOK /\ DispatchOK /\ DispatchOK' /\ ScheduleOK /\ ScheduleOK'
      /\ recovery \in [Registrations -> RecoveryRecords] /\ recovery[g] \in RecoveryRecords
      /\ OneDefined /\ QueueOnce
  BY DEF RecoverContinue, execution, callers, PlaceInv, BoundInv, TypeOK, PluginsOK
<1>2. PICK r \in Runs : r = recovery[g].id
  BY <1>1 DEF OneDefined
<1>3. OneAt(r) /\ "recovery" \in Places /\ At(r, "recovery")
  BY <1>1, <1>2, AtPlaces DEF PlaceInv, OnePlace, Places, Recovered, Reads
<1>4. /\ ~Nowhere(r) /\ ~Admitted(r) /\ ~Pumped(r) /\ scheduledTimers[r] = NoTimer
      /\ ~Executed(r) /\ release[r] = "none" /\ ~Expiring(r)
  BY <1>3, Alone
<1>5. \A q : /\ Admitted(q)' <=> Admitted(q)
             /\ Executed(q)' <=> Executed(q)
             /\ release'[q] = release[q]
  BY <1>1, SameExecuted DEF Admitted
<1>6. \A h \in Registrations \ {g} : ~Reads(h, r)
  BY <1>1, <1>2, OneReader DEF Reads
<1>7. CASE /\ UNCHANGED <<dispatch, scheduledTimers>> /\ recoverable' \subseteq recoverable
           /\ \A h \in Registrations \ {g} : recovery'[h] = recovery[h]
           /\ recovery'[g].pc \in {"reading", "done"}
           /\ recovery'[g].pc = "reading" => recovery'[g].id \in recoverable
  <2>1. \A q : /\ Recovered(q)' => Recovered(q)
               /\ Expiring(q)' => Expiring(q)
    BY <1>7 DEF Recovered, Expiring, Reads, Fails
  <2>. QED BY <1>1, <1>5, <1>7, <2>1, SamePump, LeavesMoves
<1>8. CASE /\ UNCHANGED <<dispatch, scheduledTimers>> /\ recoverable' = recoverable \ {r}
           /\ recovery' = [recovery EXCEPT ![g].pc = "failing"]
  <2>1. /\ recovery'[g].pc = "failing" /\ recovery'[g].id = r
        /\ \A h \in Registrations \ {g} : recovery'[h] = recovery[h]
    BY <1>1, <1>2, <1>8 DEF RecoveryRecords
  <2>2. \A q : /\ Recovered(q)' => Recovered(q) /\ q # r
               /\ Expiring(q)' => Expiring(q) \/ q = r
    BY <1>6, <1>8, <2>1 DEF Recovered, Expiring, Reads, Fails
  <2>3. QueueOnce' /\ \A q : Pumped(q)' <=> Pumped(q)
    BY <1>1, <1>8, SamePump
  <2>4. ASSUME NEW q \in Runs \ {r} PROVE Stays(q)
    BY <1>5, <1>8, <2>2, <2>3, StaysWhere
  <2>5. OneAt(r)'
    <3>1. "expiry" \in Places /\ ~Recovered(r)' /\ ~Pumped(r)' /\ scheduledTimers'[r] = NoTimer
      BY <1>4, <1>8, <2>2, <2>3 DEF Places
    <3>. QED BY <1>4, <1>5, <3>1, OnlyThere
  <2>. QED BY <1>4, <2>3, <2>4, <2>5 DEF Moves
<1>9. CASE /\ ArmScheduledRun(r, accepted', recoverable \ {r})
           /\ \A h \in Registrations \ {g} : recovery'[h] = recovery[h]
           /\ recovery'[g].pc \in {"reading", "done"}
           /\ recovery'[g].pc = "reading" => recovery'[g].id \in recoverable'
  <2>1. recoverable \ {r} \in SUBSET Runs /\ r \notin recoverable \ {r}
    BY <1>1 DEF ScheduleOK
  <2>2. /\ QueueOnce' /\ \A q : Pumped(q)' => Pumped(q) \/ q = r
        /\ \A q \in Runs \ {r} : scheduledTimers'[q] = scheduledTimers[q]
        /\ ~(Pumped(r)' /\ scheduledTimers'[r] # NoTimer)
        /\ r \notin recoverable' /\ recoverable' \subseteq recoverable
    BY <1>1, <1>3, <1>4, <1>9, <2>1, ArmScheduledRunOnce
  <2>3. \A q : /\ Recovered(q)' => Recovered(q) /\ q # r
               /\ Expiring(q)' => Expiring(q)
    BY <1>6, <1>9, <2>2 DEF Recovered, Expiring, Reads, Fails
  <2>4. ASSUME NEW q \in Runs \ {r} PROVE Stays(q)
    BY <1>5, <2>2, <2>3, StaysWhere
  <2>5. OneAt(r)'
    <3>1. PICK p \in {"pump", "timer"} : /\ p = "timer" \/ scheduledTimers'[r] = NoTimer
                                         /\ p = "pump" \/ ~Pumped(r)'
      BY <2>2
    <3>2. p \in Places /\ ~Admitted(r)' /\ ~Executed(r)' /\ ~Recovered(r)' /\ ~Expiring(r)'
          /\ release'[r] = "none"
      BY <1>4, <1>5, <2>3 DEF Places
    <3>. QED BY <3>1, <3>2, OnlyThere
  <2>. QED BY <1>4, <2>2, <2>4, <2>5 DEF Moves
<1>10. \A rec \in SUBSET Runs : RecoverNext(g, rec) =>
         /\ \A h \in Registrations \ {g} : recovery'[h] = recovery[h]
         /\ recovery'[g].pc \in {"reading", "done"}
         /\ recovery'[g].pc = "reading" => recovery'[g].id \in rec
  BY <1>1, RecoverNextReads
<1>11. recoverable' \in SUBSET Runs
  BY <1>1 DEF ScheduleOK
<1>12. \/ /\ UNCHANGED <<dispatch, schedule>>
          /\ recovery' = [recovery EXCEPT ![g] = [pc |-> "done", id |-> None, seen |-> "absent"]]
       \/ /\ UNCHANGED <<dispatch, scheduledTimers>> /\ recoverable' = recoverable \ {r}
          /\ RecoverNext(g, recoverable')
       \/ /\ UNCHANGED <<dispatch, scheduledTimers>> /\ recoverable' = recoverable \ {r}
          /\ recovery' = [recovery EXCEPT ![g].pc = "failing"]
       \/ ArmScheduledRun(r, accepted', recoverable \ {r}) /\ RecoverNext(g, recoverable')
  BY <1>2 DEF RecoverContinue
<1>. QED BY <1>1, <1>7, <1>8, <1>9, <1>10, <1>11, <1>12 DEF schedule

\* The pump hands the run it has read to an execution, and takes its next one.
LEMMA DrainMoves ==
    ASSUME PlaceInv, TypeOK', DrainContinue
    PROVE  Moves /\ SingleDispatch'
<1>1. /\ UNCHANGED <<recovery, recoverable, scheduledTimers, admission, release>>
      /\ drain.pc = "reading" /\ DispatchOK /\ DispatchOK' /\ queuedIds \in Seq(Runs)
      /\ exec \in [Slots -> ExecRecords] /\ QueueOnce /\ SingleDispatch
      /\ Distinct(queuedIds) /\ ~Queued(drain.id) /\ drain.id \in Runs
  BY DEF DrainContinue, schedule, plugins, callers, PlaceInv, BoundInv, TypeOK, ExecutionOK,
     DispatchOK, QueueOnce, EarlyInv, DrainReady
<1>2. \A q : /\ Admitted(q)' <=> Admitted(q)
             /\ Recovered(q)' => Recovered(q)
             /\ Expiring(q)' => Expiring(q)
  BY <1>1, SameRecovery DEF Admitted
<1>3. QueueOnce' /\ \A q : Pumped(q)' => Queued(q)
  BY <1>1, DrainLoopOnce, QueuedIn DEF DrainContinue
<1>4. CASE UNCHANGED execution
  <2>1. UNCHANGED exec
    BY <1>4 DEF execution
  <2>. QED BY <1>1, <1>2, <1>3, <2>1, LeavesMoves DEF Pumped, SingleDispatch, Busy
<1>5. ASSUME NEW s \in Slots \ Busy,
             exec' = [exec EXCEPT ![s] = [pc |-> "starting", run |-> drain.id,
                                          reg |-> drain.reg, aborted |-> FALSE]]
      PROVE  Moves /\ SingleDispatch'
  <2>1. /\ exec'[s].pc = "starting" /\ exec'[s].run = drain.id
        /\ \A t \in Slots \ {s} : exec'[t] = exec[t]
    BY <1>1, <1>5
  <2>2. Busy' = Busy \cup {s}
    BY <1>1, <1>5, <2>1 DEF Busy
  <2>3. \A q : Executed(q)' <=> Executed(q) \/ q = drain.id
    BY <2>1, <2>2, <1>5 DEF Executed, Busy
  <2>4. ASSUME NEW q \in Runs, q # drain.id PROVE Stays(q)
    BY <1>1, <1>2, <1>3, <2>3, <2>4, StaysWhere DEF Pumped
  <2>5. ASSUME NEW q \in Runs, q = drain.id PROVE OneAt(q)' /\ ~Nowhere(q) /\ ~Executed(q)
    <3>1. OneAt(q) /\ "pump" \in Places /\ At(q, "pump")
      BY <1>1, <2>5, AtPlaces DEF PlaceInv, OnePlace, Places, Pumped
    <3>2. /\ ~Nowhere(q) /\ ~Admitted(q) /\ scheduledTimers[q] = NoTimer /\ release[q] = "none"
          /\ ~Executed(q) /\ ~Recovered(q) /\ ~Expiring(q)
      BY <3>1, Alone
    <3>3. "execution" \in Places /\ ~Pumped(q)'
      BY <1>1, <1>3, <2>5 DEF Places
    <3>. QED BY <1>1, <1>2, <3>2, <3>3, OnlyThere
  <2>6. \A t \in Busy : exec[t].run # drain.id
    BY <1>1, <2>5 DEF Executed
  <2>7. SingleDispatch'
    BY <1>1, <1>5, <2>1, <2>2, <2>6 DEF SingleDispatch, Busy
  <2>. QED BY <1>3, <2>4, <2>5, <2>7 DEF Moves
<1>. QED BY <1>4, <1>5 DEF DrainContinue

\* The end of a task frees its slot and wakes the pump.
LEMMA TaskMoves ==
    ASSUME PlaceInv, TypeOK', NEW s \in Slots, TaskFinally(s)
    PROVE  Moves /\ SingleDispatch' /\ \A r \in Runs : Stays(r)
<1>1. /\ UNCHANGED <<recovery, recoverable, scheduledTimers, admission, release>>
      /\ DispatchOK /\ DispatchOK' /\ queuedIds \in Seq(Runs) /\ Distinct(queuedIds)
      /\ exec \in [Slots -> ExecRecords] /\ exec' = [exec EXCEPT ![s] = NoExec]
      /\ drain.pc = "reading" => ~InQueue(queuedIds, drain.id)
      /\ Pump(queuedIds, accepted', activeCount - 1)
  BY QueuedIn DEF TaskFinally, schedule, callers, PlaceInv, BoundInv, TypeOK, ExecutionOK,
     DispatchOK, QueueOnce
<1>2. \A q : /\ Admitted(q)' <=> Admitted(q)
             /\ Recovered(q)' => Recovered(q)
             /\ Expiring(q)' => Expiring(q)
  BY <1>1, SameRecovery DEF Admitted
<1>3. QueueOnce' /\ \A q : Pumped(q)' => Pumped(q)
  BY <1>1, PumpOnce, QueuedIn DEF Pumped
<1>4. (\A q : Executed(q)' => Executed(q)) /\ SingleDispatch'
  BY <1>1 DEF Executed, Busy, NoExec, PlaceInv, SingleDispatch
<1>. QED BY <1>1, <1>2, <1>3, <1>4, LeavesMoves

\* A cancellation that was saved takes its run from the timers, the queue and the
\* recoverable ones.
LEMMA CancelMoves ==
    ASSUME PlaceInv, TypeOK', SameSlots, NEW r \in Runs, NEW c \in Callers, CancelContinue(r, c)
    PROVE  Moves
<1>1. /\ UNCHANGED <<recovery, release, drain>> /\ recoverable' \subseteq recoverable
      /\ \A q \in Runs : scheduledTimers'[q] # NoTimer => scheduledTimers[q] # NoTimer
      /\ DispatchOK /\ DispatchOK' /\ QueueOnce /\ queuedIds' = RemoveQueuedId(r)
      /\ admission' = admission \/ admission' = [admission EXCEPT ![r].pc = "done"]
      /\ \A q \in Runs : admission[q] \in AdmissionRecords
      /\ admission \in [Runs -> AdmissionRecords]
  BY DEF CancelContinue, PlaceInv, BoundInv, TypeOK, ScheduleOK, CallersOK
<1>2. \A q \in Runs : /\ Admitted(q)' => Admitted(q)
                      /\ Recovered(q)' => Recovered(q)
                      /\ Expiring(q)' => Expiring(q)
  BY <1>1, SameRecovery DEF Admitted, AdmissionRecords
<1>3. QueueOnce' /\ \A q : Pumped(q)' => Pumped(q)
  BY <1>1, RemoveQueuedIdOnce
<1>. QED BY <1>1, <1>2, <1>3, LeavesMoves

\* An update that commits ends an admission or a recovery's update, at most.
LEMMA CommitMoves ==
    ASSUME PlaceInv, TypeOK', SameSlots, NEW r \in Runs,
           CommitExecution(r) \/ CommitCancel(r) \/ CommitApproval(r) \/ CommitExpiry(r)
    PROVE  Moves
<1>1. /\ UNCHANGED <<dispatch, schedule, release>> /\ QueueOnce
      /\ admission' = admission \/ admission' = [admission EXCEPT ![r].pc = "done"]
      /\ \/ recovery' = recovery
         \/ \E h : \/ recovery' = [recovery EXCEPT ![h].pc = "next"]
                   \/ recovery' = [recovery EXCEPT ![h].pc = "rejected"]
      /\ admission \in [Runs -> AdmissionRecords]
      /\ recovery \in [Registrations -> RecoveryRecords]
  BY DEF CommitExecution, CommitCancel, CommitApproval, CommitExpiry, Committing, plugins,
     callers, PlaceInv, BoundInv, TypeOK, CallersOK, PluginsOK
<1>2. \A q \in Runs : Admitted(q)' => Admitted(q)
  BY <1>1 DEF Admitted, AdmissionRecords
<1>3. \A h \in Registrations : recovery'[h] = recovery[h] \/ recovery'[h].pc \in {"next", "rejected"}
  BY <1>1 DEF RecoveryRecords
<1>4. \A q \in Runs : /\ Recovered(q)' => Recovered(q)
                      /\ Expiring(q)' => Expiring(q)
  BY <1>1, <1>3 DEF Recovered, Expiring, Reads, Fails, schedule
<1>5. QueueOnce' /\ \A q : Pumped(q)' <=> Pumped(q)
  BY <1>1, SamePump
<1>. QED BY <1>1, <1>2, <1>4, <1>5, LeavesMoves DEF schedule

\* A loop turn that reads, or a recovery that ends, adds no run to what is recovered.
LEMMA NextMoves ==
    ASSUME PlaceInv, SameSlots, NEW g \in Registrations,
           UNCHANGED <<dispatch, schedule, callers>>,
           \A h \in Registrations \ {g} : recovery'[h] = recovery[h],
           recovery'[g].pc \in {"reading", "done", "rejected"},
           recovery'[g].pc = "reading" => recovery'[g].id \in recoverable
    PROVE  Moves
<1>1. \A q : /\ Recovered(q)' => Recovered(q)
             /\ Expiring(q)' => Expiring(q)
  BY DEF Recovered, Expiring, Reads, Fails, schedule
<1>2. \A q : Admitted(q)' <=> Admitted(q)
  BY DEF Admitted, callers
<1>. QED BY <1>1, <1>2, SamePump, LeavesMoves DEF callers, schedule, PlaceInv

\* Nothing is unloaded: a disposer never gets to what it would take from the queue.
LEMMA NoDisposal ==
    ASSUME Disposable = {}, OneDefined, NEW g \in Registrations
    PROVE  ~Dispose(g) /\ ~DisposeAdmitted(g) /\ ~DisposeContinue(g) /\ ~DisposeFails(g)
BY DEF Dispose, DisposeAdmitted, DisposeContinue, DisposeFails, OneDefined

Arrives(r) ==
    /\ QueueOnce' /\ run'[r].status = "queued" /\ r \notin booting' /\ OneAt(r)'
    /\ \A q \in Runs \ {r} : Stays(q)
Vanish == QueueOnce' /\ \A r \in Runs : Nowhere(r)'

\* A run that is created is in its admission.
LEMMA StartArrives ==
    ASSUME PlaceInv, TypeOK', NEW r \in Runs, NEW g \in Registrations, NEW at \in Schedules,
           Start(r, g, at)
    PROVE  Arrives(r)
<1>1. /\ UNCHANGED <<exec, recovery, recoverable, scheduledTimers, dispatch, release>>
      /\ \A q \in Runs \ {r} : admission'[q] = admission[q]
      /\ QueueOnce /\ booting' = {} /\ run'[r].status = "queued" /\ ~Stored(r) /\ Nowhere(r)
  BY DEF Start, execution, schedule, plugins, phase, PlaceInv, BoundInv, TypeOK, CallersOK,
     DurableOK, InitBoots, Stored, AbsentNowhere
<1>2. QueueOnce' /\ \A q : Pumped(q)' <=> Pumped(q)
  BY <1>1, SamePump
<1>3. \A q : /\ Recovered(q)' => Recovered(q)
             /\ Expiring(q)' => Expiring(q)
             /\ Executed(q)' <=> Executed(q)
  BY <1>1, SameRecovery, SameExecuted
<1>4. ASSUME NEW q \in Runs \ {r} PROVE Stays(q)
  <2>1. Admitted(q)' <=> Admitted(q)
    BY <1>1 DEF Admitted
  <2>. QED BY <1>1, <1>2, <1>3, <2>1, StaysWhere
<1>5. OneAt(r)'
  <2>1. "admission" \in Places /\ scheduledTimers[r] = NoTimer /\ release[r] = "none"
        /\ ~Pumped(r) /\ ~Executed(r) /\ ~Recovered(r) /\ ~Expiring(r)
    BY <1>1, AtPlaces DEF Nowhere, Places
  <2>. QED BY <1>1, <1>2, <1>3, <2>1, OnlyThere
<1>. QED BY <1>1, <1>2, <1>4, <1>5 DEF Arrives

\* A scheduled run that Service.init finds queued is parked, for its workflow to come.
LEMMA InitRunArrives ==
    ASSUME PlaceInv, TypeOK', NEW r \in Runs, InitRun(r)
    PROVE  Moves \/ Arrives(r)
<1>1. /\ UNCHANGED <<exec, recovery, scheduledTimers, dispatch, release, admission>>
      /\ QueueOnce /\ r \in booting /\ booting' = booting \ {r} /\ Nowhere(r)
  BY DEF InitRun, execution, plugins, callers, PlaceInv, AbsentNowhere
<1>2. QueueOnce' /\ \A q : Pumped(q)' <=> Pumped(q)
  BY <1>1, SamePump
<1>3. \A q : /\ Expiring(q)' => Expiring(q)
             /\ Executed(q)' <=> Executed(q)
             /\ Admitted(q)' <=> Admitted(q)
  BY <1>1, SameExecuted DEF Expiring, Fails, Admitted
<1>4. CASE UNCHANGED recoverable
  <2>1. \A q : Recovered(q)' => Recovered(q)
    BY <1>1, <1>4, SameRecovery
  <2>. QED BY <1>1, <1>2, <1>3, <2>1, LeavesMoves
<1>5. CASE run[r].status = "queued" /\ UNCHANGED run /\ recoverable' = recoverable \cup {r}
  <2>1. \A q : Recovered(q)' => Recovered(q) \/ q = r
    BY <1>1, <1>5 DEF Recovered, Reads
  <2>2. ASSUME NEW q \in Runs \ {r} PROVE Stays(q)
    BY <1>1, <1>2, <1>3, <2>1, StaysWhere
  <2>3. OneAt(r)'
    <3>1. "recovery" \in Places /\ scheduledTimers[r] = NoTimer /\ release[r] = "none"
          /\ ~Pumped(r) /\ ~Executed(r) /\ ~Admitted(r) /\ ~Expiring(r)
      BY <1>1, AtPlaces DEF Nowhere, Places
    <3>. QED BY <1>1, <1>2, <1>3, <3>1, OnlyThere
  <2>4. run'[r].status = "queued" /\ r \notin booting'
    BY <1>1, <1>5
  <2>. QED BY <1>2, <2>2, <2>3, <2>4 DEF Arrives
<1>. QED BY <1>4, <1>5 DEF InitRun, Parked

\* A new process has nothing in hand.
LEMMA FreshVanish ==
    ASSUME Boot \/ Crash
    PROVE  Vanish /\ SingleDispatch'
<1>1. /\ queuedIds' = << >> /\ drain' = NoRead /\ scheduledTimers' = [r \in Runs |-> NoTimer]
      /\ recoverable' = {} /\ exec' = [s \in Slots |-> NoExec]
      /\ admission' = [r \in Runs |-> [pc |-> "none", reg |-> None]]
      /\ release' = [r \in Runs |-> "none"]
      /\ recovery' = [g \in Registrations |-> NoRecovery]
  BY DEF Boot, Crash, Fresh
<1>2. QueueOnce' /\ \A r : ~Pumped(r)'
  BY <1>1 DEF QueueOnce, Distinct, Pumped, Queued, NoRead
<1>3. Busy' = {}
  BY <1>1 DEF Busy, NoExec
<1>4. ASSUME NEW r \in Runs PROVE Nowhere(r)'
  <2>1. /\ ~Admitted(r)' /\ scheduledTimers'[r] = NoTimer /\ release'[r] = "none"
        /\ ~Recovered(r)' /\ ~Expiring(r)' /\ ~Executed(r)'
    BY <1>1, <1>3 DEF Admitted, Recovered, Reads, Expiring, Fails, NoRecovery, Executed
  <2>. QED BY <1>2, <2>1 DEF Nowhere, At, Places
<1>. QED BY <1>2, <1>3, <1>4 DEF Vanish, SingleDispatch

\* Each step moves at most one run, and from one place to one other.
LEMMA PlacesStep ==
    ASSUME Disposable = {}, PlaceInv, TypeOK', [Next]_vars
    PROVE  /\ Moves \/ Vanish \/ \E r \in Runs : Arrives(r)
           /\ SingleDispatch'
<1>. USE DEF vars, beyondPlugins, beyondHost
<1>1. /\ BoundInv /\ TypeOK /\ QueueOnce /\ OneDefined /\ SingleDispatch
      /\ recoverable \in SUBSET Runs
      /\ recovery \in [Registrations -> RecoveryRecords]
  BY DEF PlaceInv, BoundInv, TypeOK, ScheduleOK, PluginsOK
<1>2. CASE DrainContinue
  BY <1>2, DrainMoves
<1>3. CASE \E s \in Slots : TaskFinally(s)
  BY <1>3, TaskMoves
<1>4. CASE Boot \/ Crash
  BY <1>4, FreshVanish
<1>5. CASE SameSlots
  <2>1. SingleDispatch'
    BY <1>1, <1>5 DEF SameSlots, SingleDispatch, Busy
  <2>2. ASSUME UNCHANGED <<dispatch, recovery, recoverable, callers>>,
               \A r \in Runs : scheduledTimers'[r] # NoTimer => scheduledTimers[r] # NoTimer
        PROVE  Moves
    <3>1. \A q : Admitted(q)' <=> Admitted(q)
      BY <2>2 DEF callers, Admitted
    <3>. QED BY <1>1, <1>5, <2>2, <3>1, SamePump, SameRecovery, LeavesMoves DEF callers
  <2>3. ASSUME NEW r \in Runs, RunStep(r)
        PROVE  Moves \/ Arrives(r)
    <3>1. CASE AdmissionContinue(r)
      BY <3>1, AdmissionMoves
    <3>2. CASE CommitExecution(r) \/ CommitCancel(r) \/ CommitApproval(r) \/ CommitExpiry(r)
      BY <1>5, <3>2, CommitMoves
    <3>3. CASE \E c \in Callers : CancelContinue(r, c)
      BY <1>5, <3>3, CancelMoves
    <3>4. CASE TimerFires(r)
      BY <3>4, TimerMoves
    <3>5. CASE ReleaseContinue(r)
      BY <3>5, ReleaseMoves
    <3>6. CASE ReleaseFails(r)
      <4>1. /\ UNCHANGED <<recovery, recoverable, scheduledTimers, dispatch, admission>>
            /\ \A q \in Runs : release'[q] # "none" => release[q] # "none"
        BY <1>1, <3>6 DEF ReleaseFails, plugins, schedule, TypeOK, CallersOK
      <4>2. \A q : Admitted(q)' <=> Admitted(q)
        BY <4>1 DEF Admitted
      <4>. QED BY <1>1, <1>5, <4>1, <4>2, SamePump, SameRecovery, LeavesMoves
    <3>7. CASE InitRun(r)
      BY <3>7, InitRunArrives
    <3>. QED BY <2>3, <3>1, <3>2, <3>3, <3>4, <3>5, <3>6, <3>7 DEF RunStep
  <2>4. ASSUME NEW s \in Slots, ExecutionStep(s) \/ BodyStep(s), ~TaskFinally(s)
        PROVE  Moves
    <3>1. UNCHANGED <<dispatch, schedule, plugins, callers>>
      BY <2>4 DEF ExecutionStep, BodyStep, ExecBody, ExecRefused, ExecUnread, ExecSettled,
         BodyReturns, BodyFails, ExecStep, ExecCatch
    <3>. QED BY <2>2, <3>1 DEF plugins, schedule
  <2>5. ASSUME NEW g \in Registrations, UNCHANGED <<dispatch, schedule, callers>>,
               RecoverNext(g, recoverable)
        PROVE  Moves
    <3>1. /\ \A h \in Registrations \ {g} : recovery'[h] = recovery[h]
          /\ recovery'[g].pc \in {"reading", "done"}
          /\ recovery'[g].pc = "reading" => recovery'[g].id \in recoverable
      BY <1>1, <2>5, RecoverNextReads
    <3>. QED BY <1>5, <2>5, <3>1, NextMoves
  <2>6. ASSUME NEW g \in Registrations, PluginStep(g)
        PROVE  Moves
    <3>1. CASE RecoverContinue(g)
      BY <3>1, RecoverMoves
    <3>2. CASE RecoverResume(g)
      BY <2>5, <3>2 DEF RecoverResume
    <3>3. CASE RecoverFails(g)
      <4>1. /\ UNCHANGED <<dispatch, schedule, callers>>
            /\ \A h \in Registrations \ {g} : recovery'[h] = recovery[h]
            /\ recovery'[g].pc = "rejected"
        BY <1>1, <3>3 DEF RecoverFails, RecoveryRecords
      <4>. QED BY <1>5, <4>1, NextMoves
    <3>4. CASE DisposeResume(g) \/ DisposeDrained(g)
      BY <2>2, <3>4 DEF DisposeResume, DisposeDrained, schedule
    <3>. QED BY <1>1, <2>6, <3>1, <3>2, <3>3, <3>4, NoDisposal DEF PluginStep
  <2>7. ASSUME Pump(queuedIds, accepted, activeCount) \/ \E otherwise \in {"idle", "exiting"} :
                  DrainLoop(queuedIds, accepted, activeCount, otherwise),
               UNCHANGED <<schedule, plugins, callers>>
        PROVE  Moves
    <3>1. /\ queuedIds \in Seq(Runs) /\ Distinct(queuedIds) /\ DispatchOK /\ DispatchOK'
          /\ drain.pc = "reading" => ~InQueue(queuedIds, drain.id)
      BY <1>1, QueuedIn DEF QueueOnce, TypeOK, DispatchOK
    <3>2. QueueOnce' /\ \A q : Pumped(q)' => Pumped(q)
      BY <2>7, <3>1, PumpOnce, DrainLoopOnce, QueuedIn DEF Pumped
    <3>3. \A q : Admitted(q)' <=> Admitted(q)
      BY <2>7 DEF callers, Admitted
    <3>. QED BY <1>5, <2>7, <3>2, <3>3, SameRecovery, LeavesMoves DEF callers, schedule, plugins
  <2>8. ASSUME HostStep, ~DrainContinue, ~Boot
        PROVE  Moves
    <3>1. CASE StopAbort \/ StopTasks \/ StopEnd
      BY <2>2, <3>1 DEF StopAbort, StopTasks, StopEnd, schedule, plugins
    <3>2. CASE DrainFinally \/ InitDone
      BY <2>7, <3>2 DEF DrainFinally, InitDone
    <3>3. CASE DrainFails
      <4>1. /\ UNCHANGED <<schedule, plugins, callers, queuedIds>>
            /\ drain'.pc = "exiting"
        BY <3>3 DEF DrainFails, NoRead
      <4>2. QueueOnce' /\ \A q : Pumped(q)' => Pumped(q)
        BY <1>1, <4>1 DEF QueueOnce, Pumped, Queued
      <4>3. \A q : Admitted(q)' <=> Admitted(q)
        BY <4>1 DEF callers, Admitted
      <4>. QED BY <1>5, <4>1, <4>2, <4>3, SameRecovery, LeavesMoves
               DEF callers, schedule, plugins
    <3>. QED BY <2>8, <3>1, <3>2, <3>3 DEF HostStep
  <2>9. ASSUME Environment, ~Crash
        PROVE  Moves \/ \E r \in Runs : Arrives(r)
    <3>1. ASSUME NEW r \in Runs, NEW g \in Registrations, NEW at \in Schedules, Start(r, g, at)
          PROVE  Arrives(r)
      BY <3>1, StartArrives
    <3>2. ASSUME NEW r \in Runs, Cancel(r) \/ Review(r) PROVE Moves
      BY <2>2, <3>2 DEF Cancel, Review, UserCommand, schedule, plugins
    <3>3. ASSUME NEW g \in Registrations, Register(g) PROVE Moves
      BY <2>5, <3>3 DEF Register
    <3>4. StopBegin => Moves
      <4>1. ASSUME StopBegin
            PROVE  /\ UNCHANGED <<dispatch, recovery, recoverable, callers>>
                   /\ \A r \in Runs : scheduledTimers'[r] = NoTimer
        BY <4>1 DEF StopBegin, plugins
      <4>. QED BY <2>2, <4>1
    <3>. QED BY <1>1, <2>9, <3>1, <3>2, <3>3, <3>4, NoDisposal DEF Environment
  <2>10. CASE Tick \/ UNCHANGED vars
    BY <2>1, <2>2, <2>10 DEF Tick, schedule, plugins
  <2>. QED BY <1>2, <1>3, <1>4, <2>1, <2>3, <2>4, <2>6, <2>8, <2>9, <2>10 DEF Next
<1>. QED BY <1>1, <1>2, <1>3, <1>4, <1>5, SlotSteps

\* What an admitted run, a restart and a step in between leave true of all runs.
LEMMA PlacesKept ==
    ASSUME PlaceInv, Moves \/ Vanish \/ \E r \in Runs : Arrives(r),
           \A r \in Runs : Stored(r) => Stored(r)',
           booting' \subseteq booting \/ Vanish
    PROVE  OnePlace' /\ QueueOnce' /\ AbsentNowhere'
<1>1. QueueOnce'
  BY DEF Moves, Vanish, Arrives
<1>2. ASSUME NEW r \in Runs, Stays(r) PROVE OneAt(r)' /\ (Nowhere(r) => Nowhere(r)')
  BY <1>2 DEF Stays, OneAt, Nowhere, PlaceInv, OnePlace
<1>3. ASSUME NEW r \in Runs, Nowhere(r)' PROVE OneAt(r)'
  BY <1>3 DEF OneAt, Nowhere
<1>4. ASSUME NEW r \in Runs
      PROVE  /\ OneAt(r)'
             /\ ~Stored(r)' \/ r \in booting' => Nowhere(r)'
  <2>1. CASE Vanish
    BY <1>3, <2>1 DEF Vanish
  <2>2. CASE booting' \subseteq booting /\ Stays(r)
    BY <1>2, <2>2 DEF PlaceInv, AbsentNowhere
  <2>3. CASE booting' \subseteq booting /\ OneAt(r)' /\ ~Nowhere(r)
    BY <2>3 DEF PlaceInv, AbsentNowhere
  <2>4. CASE Arrives(r)
    BY <2>4 DEF Arrives, Stored
  <2>. QED BY <2>1, <2>2, <2>3, <2>4 DEF Moves, Arrives
<1>. QED BY <1>1, <1>4 DEF OnePlace, AbsentNowhere

-----------------------------------------------------------------------------
(* Of the registrations of a workflow one is defined, and it alone recovers. *)

\* What is chained comes last, and what commits leaves the rest in order.
LEMMA ChainedEntry ==
    ASSUME MutationsOK, NEW r, NEW m, mutations' = [mutations EXCEPT ![r] = Append(@, m)],
           NEW q \in Runs, NEW i \in 1 .. Len(mutations'[q])
    PROVE  \/ \E j \in 1 .. Len(mutations[q]) : mutations'[q][i] = mutations[q][j]
           \/ q = r /\ mutations'[q][i] = m
<1>1. mutations \in [Runs -> Seq(Mutations)]
  BY DEF MutationsOK
<1>2. /\ Len(mutations[q]) \in Nat
      /\ Len(Append(mutations[q], m)) = Len(mutations[q]) + 1
      /\ \A j \in 1 .. Len(mutations[q]) : Append(mutations[q], m)[j] = mutations[q][j]
      /\ Append(mutations[q], m)[Len(mutations[q]) + 1] = m
  BY <1>1
<1>3. CASE q = r
  <2>1. mutations'[q] = Append(mutations[q], m)
    BY <1>1, <1>3
  <2>2. i \in 1 .. Len(mutations[q]) \/ i = Len(mutations[q]) + 1
    BY <1>2, <2>1
  <2>. QED BY <1>2, <1>3, <2>1, <2>2
<1>4. CASE q # r
  BY <1>1, <1>4
<1>. QED BY <1>3, <1>4

LEMMA CommittedEntry ==
    ASSUME TypeOK, NEW r \in Runs, Commits(r),
           NEW q \in Runs, NEW i \in 1 .. Len(mutations'[q])
    PROVE  \E j \in 1 .. Len(mutations[q]) : mutations'[q][i] = mutations[q][j]
<1>1. /\ mutations \in [Runs -> Seq(Mutations)] /\ mutations[r] # << >>
      /\ mutations' = [mutations EXCEPT ![r] = Tail(@)]
  BY DEF TypeOK, MutationsOK, Commits, Committing
<1>2. /\ Len(Tail(mutations[r])) = Len(mutations[r]) - 1
      /\ \A j \in 1 .. Len(Tail(mutations[r])) :
            /\ j + 1 \in 1 .. Len(mutations[r])
            /\ Tail(mutations[r])[j] = mutations[r][j + 1]
  BY <1>1
<1>. QED BY <1>1, <1>2

\* An update in a chain was there before the step, or the step has chained it.
LEMMA EntrySteps ==
    ASSUME TypeOK, [Next]_vars, NEW q \in Runs, NEW i \in 1 .. Len(mutations'[q])
    PROVE  \/ \E j \in 1 .. Len(mutations[q]) : mutations'[q][i] = mutations[q][j]
           \/ mutations'[q][i].kind # "expire"
           \/ mutations'[q][i].by \in Registrations /\ RecoverContinue(mutations'[q][i].by)
<1>1. mutations \in [Runs -> Seq(Mutations)] /\ MutationsOK
  BY DEF TypeOK, MutationsOK
<1>3. ASSUME NEW r \in Runs, Commits(r)
      PROVE  \E j \in 1 .. Len(mutations[q]) : mutations'[q][i] = mutations[q][j]
  BY <1>3, CommittedEntry
<1>4. ASSUME NEW r \in Runs, NEW kind \in Kinds \ {"start"}, NEW caller \in Slots \cup Callers,
             [kind |-> kind, by |-> caller] \in Mutations, Mutate(r, kind, caller),
             kind = "expire" => caller \in Registrations /\ RecoverContinue(caller)
      PROVE  \/ \E j \in 1 .. Len(mutations[q]) : mutations'[q][i] = mutations[q][j]
             \/ mutations'[q][i].kind # "expire"
             \/ mutations'[q][i].by \in Registrations /\ RecoverContinue(mutations'[q][i].by)
  <2> DEFINE m == [kind |-> kind, by |-> caller]
  <2>1. /\ mutations' = [mutations EXCEPT ![r] = Append(@, m)]
        /\ m.kind = kind /\ m.by = caller /\ m \in Mutations
    BY <1>4 DEF Mutate
  <2> HIDE DEF m
  <2>. QED BY <1>1, <1>4, <2>1, ChainedEntry
<1>5. CASE DrainContinue
  <2>1. UNCHANGED mutations \/ \E s \in Slots : Mutate(drain.id, "start", s)
    BY <1>5 DEF DrainContinue
  <2>2. ASSUME NEW s \in Slots, Mutate(drain.id, "start", s)
        PROVE  \/ \E j \in 1 .. Len(mutations[q]) : mutations'[q][i] = mutations[q][j]
               \/ mutations'[q][i].kind # "expire"
    <3> DEFINE m == [kind |-> "start", by |-> s]
    <3>1. mutations' = [mutations EXCEPT ![drain.id] = Append(@, m)] /\ m.kind = "start"
      BY <2>2 DEF Mutate
    <3> HIDE DEF m
    <3>2. \/ \E j \in 1 .. Len(mutations[q]) : mutations'[q][i] = mutations[q][j]
          \/ mutations'[q][i] = m
      BY <1>1, <3>1, ChainedEntry
    <3>. QED BY <3>1, <3>2
  <2>. QED BY <2>1, <2>2
<1>6. CASE UNCHANGED mutations
  BY <1>6
<1>7. CASE mutations' = [r \in Runs |-> << >>]
  BY <1>7
<1>. QED BY <1>3, <1>4, <1>5, <1>6, <1>7, MutationSteps

\* What a step may do to the registrations.
LEMMA RegistrationSteps ==
    ASSUME [Next]_vars
    PROVE  \/ UNCHANGED <<definitions, recovery>>
           \/ \E g \in Registrations : \/ RecoverContinue(g) \/ RecoverResume(g)
                                       \/ RecoverFails(g) \/ Register(g) \/ Dispose(g)
           \/ \E r \in Runs : CommitExpiry(r)
           \/ Boot \/ Crash
<1>. USE DEF vars, beyondPlugins, beyondHost, plugins
<1>1. ASSUME NEW r \in Runs, RunStep(r)
      PROVE  UNCHANGED <<definitions, recovery>> \/ CommitExpiry(r)
  BY <1>1 DEF RunStep, AdmissionContinue, CommitExecution, CommitCancel, CommitApproval,
     CancelContinue, TimerFires, ReleaseContinue, ReleaseFails, InitRun
<1>2. ASSUME NEW s \in Slots, ExecutionStep(s) \/ BodyStep(s)
      PROVE  UNCHANGED <<definitions, recovery>>
  BY <1>2 DEF ExecutionStep, BodyStep, ExecBody, ExecRefused, ExecUnread, ExecSettled,
     TaskFinally, BodyReturns, BodyFails, ExecStep, ExecCatch
<1>3. ASSUME NEW g \in Registrations, PluginStep(g)
      PROVE  \/ UNCHANGED <<definitions, recovery>>
             \/ RecoverContinue(g) \/ RecoverResume(g) \/ RecoverFails(g)
  BY <1>3 DEF PluginStep, DisposeAdmitted, DisposeContinue, DisposeResume, DisposeDrained,
     DisposeFails
<1>4. HostStep => UNCHANGED <<definitions, recovery>> \/ Boot
  BY DEF HostStep, DrainContinue, DrainFails, DrainFinally, StopAbort, StopTasks, StopEnd,
     InitDone
<1>5. ASSUME Environment
      PROVE  \/ UNCHANGED <<definitions, recovery>>
             \/ \E g \in Registrations : Register(g) \/ Dispose(g)
             \/ Crash
  BY <1>5 DEF Environment, Start, Cancel, Review, UserCommand, StopBegin
<1>. QED BY <1>1, <1>2, <1>3, <1>4, <1>5 DEF Next, Tick

\* What a step may do to the disposers, when nothing is unloaded.
LEMMA DisposerSteps ==
    ASSUME Disposable = {}, TypeOK, OneDefined, [Next]_vars, NEW g \in Registrations
    PROVE  disposer'[g].pc \notin {"admissions", "reading"} /\ disposer'[g].todo = {}
<1>. USE DEF vars, beyondPlugins, beyondHost, plugins, OneDefined
<1>1. /\ disposer \in [Registrations -> DisposerRecords]
      /\ \A h \in Registrations : disposer[h] \in DisposerRecords
  BY DEF TypeOK, PluginsOK
<1>2. ASSUME NEW h, NEW pc \in {"registered", "rejected", "next", "disposed"},
             disposer' = [disposer EXCEPT ![h].pc = pc]
      PROVE  disposer'[g].pc \notin {"admissions", "reading"} /\ disposer'[g].todo = {}
  BY <1>1, <1>2 DEF DisposerRecords
<1>3. ASSUME NEW r \in Runs, RunStep(r)
      PROVE  \/ UNCHANGED disposer
             \/ \E h : \/ disposer' = [disposer EXCEPT ![h].pc = "rejected"]
                       \/ disposer' = [disposer EXCEPT ![h].pc = "next"]
  BY <1>3 DEF RunStep, AdmissionContinue, CommitExecution, CommitCancel, CommitApproval,
     CommitExpiry, CancelContinue, TimerFires, ReleaseContinue, ReleaseFails, InitRun
<1>4. ASSUME NEW s \in Slots, ExecutionStep(s) \/ BodyStep(s)
      PROVE  \/ UNCHANGED disposer
             \/ disposer' = [h \in Registrations |-> [disposer[h] EXCEPT !.slots = @ \ {s}]]
  BY <1>4 DEF ExecutionStep, BodyStep, ExecBody, ExecRefused, ExecUnread, ExecSettled,
     TaskFinally, BodyReturns, BodyFails, ExecStep, ExecCatch
<1>5. ASSUME NEW h \in Registrations, PluginStep(h)
      PROVE  \/ UNCHANGED disposer
             \/ disposer' = [disposer EXCEPT ![h].pc = "disposed"]
             \/ \E ids : disposer' = [disposer EXCEPT ![h] =
                   [@ EXCEPT !.pc = "draining", !.ids = {}, !.todo = {}, !.id = None,
                             !.seen = "absent", !.slots = TasksOf(ids)]]
  <2>1. ~DisposeAdmitted(h) /\ ~DisposeContinue(h) /\ ~DisposeFails(h) /\ disposer[h].todo = {}
    BY NoDisposal
  <2>. QED BY <1>5, <2>1 DEF PluginStep, RecoverContinue, RecoverResume, RecoverFails,
              DisposeResume, DisposeDrained, DisposeNext
<1>6. HostStep => UNCHANGED disposer \/ disposer' = [h \in Registrations |-> NoDisposer]
  BY DEF HostStep, DrainContinue, DrainFails, DrainFinally, StopAbort, StopTasks, StopEnd,
     Boot, Fresh, InitDone
<1>7. ASSUME Environment
      PROVE  \/ UNCHANGED disposer
             \/ disposer' = [h \in Registrations |-> NoDisposer]
             \/ \E h \in Registrations : disposer' = [disposer EXCEPT ![h].pc = "registered"]
  <2>1. \A h \in Registrations : ~Dispose(h)
    BY NoDisposal
  <2>. QED BY <1>7, <2>1 DEF Environment, Start, Cancel, Review, UserCommand, Register,
              StopBegin, Crash, Fresh
<1>8. CASE UNCHANGED disposer
  BY <1>8
<1>9. CASE \E h, ids : disposer' = [disposer EXCEPT ![h] =
                   [@ EXCEPT !.pc = "draining", !.ids = {}, !.todo = {}, !.id = None,
                             !.seen = "absent", !.slots = TasksOf(ids)]]
  BY <1>1, <1>9 DEF DisposerRecords
<1>10. CASE disposer' = [h \in Registrations |-> NoDisposer]
  BY <1>10 DEF NoDisposer
<1>11. CASE \E s : disposer' = [h \in Registrations |-> [disposer[h] EXCEPT !.slots = @ \ {s}]]
  BY <1>1, <1>11 DEF DisposerRecords
<1>. QED BY <1>2, <1>3, <1>4, <1>5, <1>6, <1>7, <1>8, <1>9, <1>10, <1>11 DEF Next, Tick

\* A recovery never outlives its registration, nor reads the run of another workflow.
LEMMA RecoversOwn ==
    ASSUME Disposable = {}, PlaceInv, [Next]_vars, NEW g \in Registrations
    PROVE  /\ recovery'[g].pc # "none" => definitions'[WorkflowOf[g]] = g
           /\ recovery'[g].pc \in {"reading", "failing"} =>
                 /\ recovery'[g].id \in Runs /\ Stored(recovery'[g].id)
                 /\ run[recovery'[g].id].workflow = WorkflowOf[g]
<1> DEFINE Own == /\ recovery'[g].pc # "none" => definitions'[WorkflowOf[g]] = g
                  /\ recovery'[g].pc \in {"reading", "failing"} =>
                        /\ recovery'[g].id \in Runs /\ Stored(recovery'[g].id)
                        /\ run[recovery'[g].id].workflow = WorkflowOf[g]
<1>1. /\ TypeOK /\ OneDefined /\ recoverable \in SUBSET Runs
      /\ recovery \in [Registrations -> RecoveryRecords]
      /\ \A h \in Registrations : recovery[h] \in RecoveryRecords
      /\ definitions \in [Workflows -> RegOrNone] /\ None \notin Registrations
      /\ \A h \in Registrations : WorkflowOf[h] \in Workflows
  BY RuntimeConstants DEF PlaceInv, BoundInv, TypeOK, PluginsOK, ScheduleOK
<1>2. \A r \in recoverable : Stored(r)
  BY <1>1 DEF PlaceInv, AbsentNowhere, Nowhere, Places, At, Recovered
<1>3. ASSUME NEW h \in Registrations, NEW rec \in SUBSET recoverable, RecoverNext(h, rec),
             definitions'[WorkflowOf[h]] = h,
             \A k \in Registrations \ {h} : recovery[k].pc # "none" =>
                                               definitions'[WorkflowOf[k]] = k
      PROVE  Own
  <2>1. /\ \A k \in Registrations \ {h} : recovery'[k] = recovery[k]
        /\ recovery'[h].pc \in {"reading", "done"}
        /\ recovery'[h].pc = "reading" => /\ recovery'[h].id \in rec
                                          /\ run[recovery'[h].id].workflow = WorkflowOf[h]
    BY <1>1, <1>3, RecoverNextReads
  <2>2. CASE g = h
    BY <1>1, <1>2, <1>3, <2>1, <2>2
  <2>3. CASE g # h
    BY <1>1, <1>3, <2>1, <2>3 DEF OneDefined
  <2>. QED BY <2>2, <2>3
<1>4. ASSUME UNCHANGED definitions, NEW h \in Registrations, recovery[h].pc # "none",
             \A k \in Registrations \ {h} : recovery'[k] = recovery[k],
             recovery'[h].pc \in {"failing", "reading"} =>
                recovery[h].pc \in {"failing", "reading"} /\ recovery'[h].id = recovery[h].id
      PROVE  Own
  BY <1>1, <1>4 DEF OneDefined
<1> HIDE DEF Own
<1>5. ASSUME NEW h \in Registrations, RecoverContinue(h) PROVE Own
  <2>1. UNCHANGED definitions /\ recovery[h].pc = "reading"
    BY <1>5 DEF RecoverContinue
  <2>2. \A k \in Registrations : recovery[k].pc # "none" => definitions'[WorkflowOf[k]] = k
    BY <1>1, <2>1 DEF OneDefined
  <2>3. CASE RecoverNext(h, recoverable') /\ recoverable' \subseteq recoverable
    BY <1>3, <2>1, <2>2, <2>3
  <2>4. CASE recovery' = [recovery EXCEPT ![h].pc = "failing"]
    <3>1. recovery'[h].id = recovery[h].id /\ \A k \in Registrations \ {h} : recovery'[k] = recovery[k]
      BY <1>1, <2>4 DEF RecoveryRecords
    <3>. QED BY <1>4, <2>1, <3>1
  <2>5. CASE recovery' = [recovery EXCEPT ![h] = [pc |-> "done", id |-> None, seen |-> "absent"]]
    <3>1. recovery'[h].pc = "done" /\ \A k \in Registrations \ {h} : recovery'[k] = recovery[k]
      BY <1>1, <2>5
    <3>. QED BY <1>4, <2>1, <3>1
  <2>6. \A r, acc : ArmScheduledRun(r, acc, recoverable \ {r}) =>
                       recoverable' \subseteq recoverable
    BY DEF ArmScheduledRun, EnqueueRun
  <2>. QED BY <1>5, <2>3, <2>4, <2>5, <2>6 DEF RecoverContinue
<1>6. ASSUME NEW h \in Registrations, RecoverResume(h) PROVE Own
  BY <1>1, <1>3, <1>6 DEF RecoverResume, OneDefined
<1>7. ASSUME NEW h \in Registrations, RecoverFails(h) PROVE Own
  <2>1. /\ UNCHANGED definitions /\ recovery[h].pc = "reading" /\ recovery'[h].pc = "rejected"
        /\ \A k \in Registrations \ {h} : recovery'[k] = recovery[k]
    BY <1>1, <1>7 DEF RecoverFails, RecoveryRecords
  <2>. QED BY <1>4, <2>1
<1>8. ASSUME NEW h \in Registrations, Register(h) PROVE Own
  <2>1. /\ definitions[WorkflowOf[h]] = None /\ RecoverNext(h, recoverable)
        /\ definitions' = [definitions EXCEPT ![WorkflowOf[h]] = h]
    BY <1>8 DEF Register
  <2>2. \A k \in Registrations \ {h} :
           recovery[k].pc # "none" => definitions'[WorkflowOf[k]] = k
    BY <1>1, <2>1 DEF OneDefined
  <2>. QED BY <1>1, <1>3, <2>1, <2>2
<1>9. ASSUME NEW r \in Runs, CommitExpiry(r) PROVE Own
  <2> DEFINE m == Head(mutations[r])
  <2>1. mutations[r] \in Seq(Mutations) /\ mutations[r] # << >> /\ m.kind = "expire"
    BY <1>1, <1>9 DEF TypeOK, MutationsOK, CommitExpiry, Committing
  <2>2. m = mutations[r][1] /\ 1 \in 1 .. Len(mutations[r])
    BY <2>1
  <2>3. PICK h : h = m.by
    OBVIOUS
  <2>4. h \in Registrations /\ definitions[WorkflowOf[h]] = h
    BY <1>1, <2>1, <2>2, <2>3 DEF OneDefined
  <2>5. UNCHANGED definitions /\ \E pc \in {"next", "rejected"} :
           recovery' = [recovery EXCEPT ![h].pc = pc]
    BY <1>9, <2>3 DEF CommitExpiry
  <2>6. /\ recovery'[h].pc \in {"next", "rejected"}
        /\ \A k \in Registrations \ {h} : recovery'[k] = recovery[k]
    BY <1>1, <2>4, <2>5 DEF RecoveryRecords
  <2>. QED BY <1>1, <2>4, <2>5, <2>6 DEF OneDefined, Own
<1>10. CASE UNCHANGED <<definitions, recovery>>
  BY <1>1, <1>10 DEF OneDefined, Own
<1>11. CASE Boot \/ Crash
  BY <1>11 DEF Boot, Crash, Fresh, NoRecovery, Own
<1>12. \A h \in Registrations : ~Dispose(h)
  BY <1>1, NoDisposal
<1>. QED BY <1>5, <1>6, <1>7, <1>8, <1>9, <1>10, <1>11, <1>12, RegistrationSteps DEF Own

\* Service.init alone looks at interrupted runs, and admits nothing before it has ended.
LEMMA BootingSteps ==
    ASSUME InitBoots, StopStarted, [Next]_vars
    PROVE  InitBoots' /\ (booting' \subseteq booting \/ Boot)
<1>. USE DEF vars, beyondPlugins, beyondHost, phase, InitBoots
<1>1. ASSUME NEW r \in Runs, RunStep(r)
      PROVE  host' = host /\ booting' \subseteq booting
  BY <1>1 DEF RunStep, AdmissionContinue, CommitExecution, CommitCancel, CommitApproval,
     CommitExpiry, CancelContinue, TimerFires, ReleaseContinue, ReleaseFails, InitRun
<1>2. ASSUME NEW s \in Slots, ExecutionStep(s) \/ BodyStep(s)
      PROVE  UNCHANGED <<host, booting>>
  BY <1>2 DEF ExecutionStep, BodyStep, ExecBody, ExecRefused, ExecUnread, ExecSettled,
     TaskFinally, BodyReturns, BodyFails, ExecStep, ExecCatch
<1>3. ASSUME NEW g \in Registrations, PluginStep(g)
      PROVE  UNCHANGED <<host, booting>>
  BY <1>3 DEF PluginStep, RecoverContinue, RecoverResume, RecoverFails, DisposeAdmitted,
     DisposeContinue, DisposeResume, DisposeDrained, DisposeFails
<1>4. ASSUME HostStep
      PROVE  \/ UNCHANGED <<host, booting>>
             \/ InitDone /\ booting' = {}
             \/ host # "init" /\ UNCHANGED booting
             \/ Boot /\ host' = "init"
  BY <1>4 DEF HostStep, DrainContinue, DrainFails, DrainFinally, StopAbort, StopTasks, StopEnd,
     InitDone, Boot, StopStarted, stopped
<1>5. ASSUME Environment
      PROVE  \/ UNCHANGED <<host, booting>>
             \/ StopBegin /\ host = "up" /\ UNCHANGED booting
             \/ Crash /\ booting' = {}
  BY <1>5 DEF Environment, Start, Cancel, Review, UserCommand, Register, Dispose, StopBegin,
     Crash
<1>. QED BY <1>1, <1>2, <1>3, <1>4, <1>5 DEF Next, Tick


\* Nothing but a new process takes a definition away.
LEMMA DefinitionKept ==
    ASSUME Disposable = {}, TypeOK, OneDefined, [Next]_vars, ~Boot, ~Crash,
           NEW g \in Registrations, definitions[WorkflowOf[g]] = g
    PROVE  definitions'[WorkflowOf[g]] = g
<1>1. /\ definitions \in [Workflows -> RegOrNone] /\ None \notin Registrations
      /\ \A h \in Registrations : WorkflowOf[h] \in Workflows /\ ~Dispose(h)
  BY RuntimeConstants, NoDisposal DEF TypeOK, PluginsOK
<1>2. \/ UNCHANGED definitions
      \/ \E h \in Registrations : Register(h)
  BY <1>1, RegistrationSteps DEF RecoverContinue, RecoverResume, RecoverFails, CommitExpiry
<1>. QED BY <1>1, <1>2 DEF Register

\* OneDefined is kept.
LEMMA OneDefinedStep ==
    ASSUME Disposable = {}, PlaceInv, [Next]_vars
    PROVE  OneDefined'
<1>1. TypeOK /\ OneDefined
  BY DEF PlaceInv, BoundInv
<1>2. ASSUME NEW r \in Runs, Stored(r) PROVE Stored(r)' /\ run'[r].workflow = run[r].workflow
  BY <1>1, <1>2, StoredKept DEF SameOrder
<1>3. ASSUME NEW g \in Registrations
      PROVE  /\ disposer'[g].pc \notin {"admissions", "reading"} /\ disposer'[g].todo = {}
             /\ recovery'[g].pc # "none" => definitions'[WorkflowOf[g]] = g
             /\ recovery'[g].pc \in {"reading", "failing"} =>
                   /\ recovery'[g].id \in Runs /\ Stored(recovery[g].id)'
                   /\ run'[recovery'[g].id].workflow = WorkflowOf[g]
  <2>1. recovery'[g].id \in Runs /\ Stored(recovery'[g].id) =>
           /\ Stored(recovery[g].id)'
           /\ run'[recovery'[g].id].workflow = run[recovery'[g].id].workflow
    BY <1>2 DEF Stored
  <2>. QED BY <1>1, <2>1, DisposerSteps, RecoversOwn
<1>4. ASSUME NEW r \in Runs, NEW i \in 1 .. Len(mutations'[r]), mutations'[r][i].kind = "expire"
      PROVE  /\ mutations'[r][i].by \in Registrations
             /\ definitions'[WorkflowOf[mutations'[r][i].by]] = mutations'[r][i].by
  <2>1. ~Boot /\ ~Crash
    <3>1. mutations' = [q \in Runs |-> << >>] => FALSE
      BY <1>4
    <3>. QED BY <3>1 DEF Boot, Crash, Fresh
  <2>2. PICK g : g = mutations'[r][i].by
    OBVIOUS
  <2>3. g \in Registrations /\ definitions[WorkflowOf[g]] = g
    <3>1. CASE \E j \in 1 .. Len(mutations[r]) : mutations'[r][i] = mutations[r][j]
      BY <1>1, <1>4, <2>2, <3>1 DEF OneDefined
    <3>2. CASE g \in Registrations /\ RecoverContinue(g)
      BY <1>1, <3>2 DEF RecoverContinue, OneDefined
    <3>. QED BY <1>1, <1>4, <2>2, <3>1, <3>2, EntrySteps
  <2>. QED BY <1>1, <2>1, <2>2, <2>3, DefinitionKept
<1>. QED BY <1>3, <1>4 DEF OneDefined

-----------------------------------------------------------------------------

\* The initial state holds no run at all.
LEMMA PlaceInit == Init => PlaceInv
<1>. SUFFICES ASSUME Init PROVE PlaceInv
  OBVIOUS
<1>1. /\ queuedIds = << >> /\ drain = NoRead /\ scheduledTimers = [r \in Runs |-> NoTimer]
      /\ recoverable = {} /\ exec = [s \in Slots |-> NoExec]
      /\ admission = [r \in Runs |-> [pc |-> "none", reg |-> None]]
      /\ release = [r \in Runs |-> "none"]
      /\ recovery = [g \in Registrations |-> NoRecovery]
      /\ disposer = [g \in Registrations |-> NoDisposer]
      /\ mutations = [r \in Runs |-> << >>] /\ stop.pc = "none" /\ booting = {}
  BY DEF Init, Fresh
<1>2. QueueOnce /\ \A r : ~Pumped(r)
  BY <1>1 DEF QueueOnce, Distinct, Pumped, Queued, NoRead
<1>3. Busy = {}
  BY <1>1 DEF Busy, NoExec
<1>4. ASSUME NEW r \in Runs PROVE Nowhere(r)
  <2>1. /\ ~Admitted(r) /\ scheduledTimers[r] = NoTimer /\ release[r] = "none"
        /\ ~Recovered(r) /\ ~Expiring(r) /\ ~Executed(r)
    BY <1>1, <1>3 DEF Admitted, Recovered, Reads, Expiring, Fails, NoRecovery, Executed
  <2>. QED BY <1>2, <2>1 DEF Nowhere, At, Places
<1>5. OnePlace /\ AbsentNowhere
  BY <1>4 DEF OnePlace, OneAt, Nowhere, AbsentNowhere
<1>6. OneDefined /\ InitBoots /\ StopStarted /\ SingleDispatch
  BY <1>1, <1>3 DEF OneDefined, InitBoots, StopStarted, SingleDispatch, NoRecovery, NoDisposer
<1>. QED BY <1>2, <1>5, <1>6, EarlyInit, BoundInit DEF PlaceInv

\* The strengthened properties are inductive while the plugins stay.
LEMMA PlaceStep == Disposable = {} /\ PlaceInv /\ [Next]_vars => PlaceInv'
<1>1. ASSUME Disposable = {}, PlaceInv, [Next]_vars PROVE PlaceInv'
  <2>1. EarlyInv /\ BoundInv /\ TypeOK /\ StopStarted /\ InitBoots
    BY <1>1 DEF PlaceInv, BoundInv
  <2>2. EarlyInv' /\ BoundInv' /\ TypeOK' /\ StopStarted'
    BY <1>1, <2>1, EarlyStep, BoundStep, TypeStep, StopStep
  <2>3. InitBoots' /\ (booting' \subseteq booting \/ Vanish)
    BY <1>1, <2>1, BootingSteps, FreshVanish
  <2>4. \A r \in Runs : Stored(r) => Stored(r)'
    BY <1>1, <2>1, StoredKept
  <2>5. (Moves \/ Vanish \/ \E r \in Runs : Arrives(r)) /\ SingleDispatch'
    BY <1>1, <2>2, PlacesStep
  <2>6. OnePlace' /\ QueueOnce' /\ AbsentNowhere'
    BY <1>1, <2>3, <2>4, <2>5, PlacesKept
  <2>7. OneDefined'
    BY <1>1, OneDefinedStep
  <2>. QED BY <2>2, <2>3, <2>5, <2>6, <2>7 DEF PlaceInv
<1>. QED BY <1>1

\* While the plugins stay, no run is ever in the hands of two execute() activations: the
\* queue, the timers, the releases, the recoveries and the pump hand it over one by one.
THEOREM DispatchedOnce == Disposable = {} => (Spec => []SingleDispatch)
<1>. SUFFICES ASSUME Disposable = {} PROVE Spec => []SingleDispatch
  OBVIOUS
<1>1. PlaceInv => SingleDispatch
  BY DEF PlaceInv
<1>2. PlaceInv /\ [Next]_vars => PlaceInv'
  BY PlaceStep
<1>. QED BY <1>1, <1>2, PlaceInit, PTL DEF Spec

-----------------------------------------------------------------------------
(* A queued run has one holder. *)

DrainIdle == drain.pc # "reading" => drain.id = None

\* The pump forgets its run when it has ended its read.
LEMMA DrainIdleStep ==
    ASSUME DrainIdle, [Next]_vars
    PROVE  DrainIdle'
<1>. USE DEF DrainIdle
<1>1. CASE UNCHANGED drain
  BY <1>1
<1>2. ASSUME NEW queue, NEW acc, NEW active,
             \/ Pump(queue, acc, active)
             \/ \E otherwise \in {"idle", "exiting"} : DrainLoop(queue, acc, active, otherwise)
      PROVE  DrainIdle'
  BY <1>2 DEF Pump, DrainLoop, NoRead
<1>3. ASSUME NEW r, NEW acc, NEW rec, ArmScheduledRun(r, acc, rec) \/ EnqueueRun(r, acc)
      PROVE  DrainIdle'
  BY <1>1, <1>2, <1>3 DEF ArmScheduledRun, EnqueueRun, dispatch
<1>4. ASSUME NEW r \in Runs,
             AdmissionContinue(r) \/ ReleaseContinue(r) \/ \E c \in Callers : CancelContinue(r, c)
      PROVE  DrainIdle'
  BY <1>1, <1>3, <1>4 DEF AdmissionContinue, ReleaseContinue, CancelContinue, dispatch
<1>5. ASSUME NEW s \in Slots, TaskFinally(s) PROVE DrainIdle'
  BY <1>2, <1>5 DEF TaskFinally
<1>6. ASSUME NEW g \in Registrations, RecoverContinue(g) \/ DisposeContinue(g) PROVE DrainIdle'
  BY <1>1, <1>3, <1>6 DEF RecoverContinue, DisposeContinue, dispatch
<1>7. CASE DrainContinue \/ DrainFinally \/ InitDone
  BY <1>2, <1>7 DEF DrainContinue, DrainFinally, InitDone
<1>8. CASE DrainFails \/ Boot \/ Crash
  BY <1>8 DEF DrainFails, Boot, Crash, Fresh, NoRead
<1>. QED BY <1>1, <1>4, <1>5, <1>6, <1>7, <1>8, DispatchSteps DEF dispatch

HolderPlace(h) ==
    CASE h \in {"queue", "read"} -> "pump"
      [] h = "start"            -> "execution"
      [] h = "expire"           -> "expiry"
      [] h = "recoverable"      -> "recovery"
      [] OTHER                  -> h

\* Whatever holds a run has it in its place.
LEMMA HolderAt ==
    ASSUME DrainIdle, NEW r \in Runs, NEW h \in Holders(r)
    PROVE  HolderPlace(h) \in Places /\ At(r, HolderPlace(h))
<1>. None \notin Runs
  BY RuntimeConstants
<1>1. /\ "admission" \in Holders(r) => At(r, "admission")
      /\ "timer" \in Holders(r) => At(r, "timer")
      /\ "release" \in Holders(r) => At(r, "release")
  BY AtPlaces DEF Holders, Admitted
<1>2. "queue" \in Holders(r) \/ "read" \in Holders(r) => At(r, "pump")
  BY AtPlaces DEF Holders, Pumped, DrainIdle
<1>3. "start" \in Holders(r) => At(r, "execution")
  BY AtPlaces DEF Holders, Executed
<1>4. /\ "expire" \in Holders(r) => At(r, "expiry")
      /\ "recoverable" \in Holders(r) => At(r, "recovery")
  BY AtPlaces DEF Holders, Expiring, Fails, Recovered
<1>5. h \in {"admission", "timer", "release", "queue", "read", "start", "expire", "recoverable"}
  BY DEF Holders
<1>. QED BY <1>1, <1>2, <1>3, <1>4, <1>5 DEF HolderPlace, Places

\* One place, one holder: of the two that share the pump, an id leaves the queue when it
\* is read.
LEMMA OneHolder ==
    ASSUME DrainIdle, NEW r \in Runs, OneAt(r), Queued(r) => drain.id # r
    PROVE  Cardinality(Holders(r)) <= 1
<1>1. ASSUME NEW h \in Holders(r), NEW k \in Holders(r) PROVE h = k
  <2>1. HolderPlace(h) = HolderPlace(k)
    BY HolderAt DEF OneAt
  <2>2. ~("queue" \in Holders(r) /\ "read" \in Holders(r))
    BY DEF Holders
  <2>3. /\ h \in {"admission", "timer", "release", "queue", "read", "start", "expire",
                  "recoverable"}
        /\ k \in {"admission", "timer", "release", "queue", "read", "start", "expire",
                  "recoverable"}
    BY DEF Holders
  <2>. QED BY <2>1, <2>2, <2>3 DEF HolderPlace
<1>2. CASE Holders(r) = {}
  BY <1>2, FS_EmptySet
<1>3. CASE Holders(r) # {}
  <2>1. PICK h : Holders(r) = {h}
    BY <1>1, <1>3
  <2>2. Cardinality({h}) = 1
    BY FS_Singleton
  <2>. QED BY <2>1, <2>2
<1>. QED BY <1>2, <1>3

\* While the plugins stay, no queued run is held twice, not even between two awaits of a
\* release, a recovery or the pump: it could be started from both.
THEOREM HeldOnce == Disposable = {} => (Spec => []QueuedHeldOnce)
<1>. SUFFICES ASSUME Disposable = {} PROVE Spec => []QueuedHeldOnce
  OBVIOUS
<1>1. Init => DrainIdle
  BY DEF Init, Fresh, DrainIdle, NoRead
<1>2. PlaceInv /\ [Next]_vars => PlaceInv'
  BY PlaceStep
<1>3. DrainIdle /\ [Next]_vars => DrainIdle'
  BY DrainIdleStep
<1>4. ASSUME PlaceInv, DrainIdle PROVE QueuedHeldOnce
  <2>. SUFFICES ASSUME NEW r \in Runs PROVE Cardinality(Holders(r)) <= 1
    BY DEF QueuedHeldOnce
  <2>1. OneAt(r) /\ (Queued(r) => drain.id # r)
    BY <1>4, RuntimeConstants DEF PlaceInv, OnePlace, QueueOnce, DrainIdle
  <2>. QED BY <1>4, <2>1, OneHolder
<1>. QED BY <1>1, <1>2, <1>3, <1>4, PlaceInit, PTL DEF Spec

-----------------------------------------------------------------------------
(* A recovery that has ended leaves no queued run of its workflow behind.  *)
(*                                                                         *)
(* The set that a recovery has emptied grows again when a release finds    *)
(* that its run has no accepted registration: a queued run always has one  *)
(* while its timer or its release holds it (HeldAccepted), and what a      *)
(* release has read is still right, in that no run becomes queued twice    *)
(* (ReleaseSaw).                                                           *)

HeldAccepted ==
    \A r \in Runs :
        run[r].status = "queued" /\ (At(r, "timer") \/ At(r, "release")) => accepted[r] # None
ReleaseSaw ==
    \A r \in Runs : release[r] \notin {"none", "queued"} => run[r].status # "queued"
AdmittedFor ==
    \A r \in Runs : admission[r].pc = "creating" => admission[r].reg \in Registrations
InitUnregistered ==
    host \in {"down", "init"} => \A w \in Workflows : definitions[w] = None
DoneRecovered ==
    \A g \in Registrations :
        recovery[g].pc = "done" /\ ~stopped =>
            \A r \in recoverable :
                run[r].workflow = WorkflowOf[g] => run[r].status # "queued"

StrandInv ==
    /\ PlaceInv /\ CancelsSaved
    /\ HeldAccepted /\ ReleaseSaw /\ AdmittedFor /\ InitUnregistered /\ DoneRecovered

\* A run is queued when it is created, and never again.
LEMMA QueuedFrom ==
    ASSUME TypeOK, [Next]_vars, NEW r \in Runs, run'[r].status = "queued"
    PROVE  \/ run[r].status = "queued"
           \/ \E g \in Registrations, at \in Schedules : Start(r, g, at)
<1>1. run \in [Runs -> RunRecords] /\ \A q \in Runs : run[q] \in RunRecords
  BY DEF TypeOK, DurableOK
<1>2. ASSUME NEW q \in Runs, Commits(q) PROVE run[r].status = "queued"
  <2> DEFINE kind == Head(mutations[q]).kind
  <2>1. kind \in Kinds
    BY <1>2, CommittingType DEF Commits, Mutations, Kinds
  <2>2. run' = run \/ run' = [run EXCEPT ![q].status = Result(kind, run[q].status)]
    BY <1>2 DEF Commits, Committing
  <2>3. Result(kind, run[q].status) = "queued" => run[q].status = "queued"
    BY <2>1 DEF Result, Outcome, Kinds, ExecutionKinds, CancelKinds
  <2> HIDE DEF kind
  <2>. QED BY <1>1, <2>2, <2>3 DEF RunRecords
<1>3. ASSUME NEW q \in Runs, InitRun(q) PROVE run[r].status = "queued"
  BY <1>1, <1>3 DEF InitRun, RunRecords
<1>4. ASSUME NEW q \in Runs, NEW g \in Registrations, NEW at \in Schedules, Start(q, g, at)
      PROVE  run[r].status = "queued" \/ Start(r, g, at)
  BY <1>1, <1>4 DEF Start
<1>. QED BY <1>2, <1>3, <1>4, DurableSteps DEF Tick

\* What takes the accepted registration of a run away.
LEMMA AcceptedSteps ==
    ASSUME TypeOK, [Next]_vars, NEW r \in Runs, accepted[r] # None, accepted'[r] = None
    PROVE  \/ ReleaseContinue(r) /\ release[r] # "queued"
           \/ \E c \in Callers : CancelContinue(r, c)
           \/ \E s \in Slots : TaskFinally(s) /\ exec[s].run = r
           \/ AdmissionContinue(r) /\ admission[r].reg = None
           \/ \E g \in Registrations : DisposeContinue(g)
           \/ Boot \/ Crash
<1>. USE DEF vars, beyondPlugins, beyondHost
<1>1. accepted \in [Runs -> RegOrNone] /\ None \notin Registrations
  BY RuntimeConstants DEF TypeOK, AcceptedOK
<1>2. ASSUME NEW q \in Runs, RunStep(q)
      PROVE  \/ UNCHANGED accepted
             \/ /\ AdmissionContinue(q) /\ accepted' = [accepted EXCEPT ![q] = admission[q].reg]
             \/ /\ ReleaseContinue(q) /\ release[q] # "queued"
                /\ accepted' = [accepted EXCEPT ![q] = None]
             \/ /\ \E c \in Callers : CancelContinue(q, c)
                /\ accepted' = [accepted EXCEPT ![q] = None]
  BY <1>2 DEF RunStep, AdmissionContinue, CommitExecution, CommitCancel, CommitApproval,
     CommitExpiry, CancelContinue, TimerFires, ReleaseContinue, ReleaseFails, InitRun
<1>3. ASSUME NEW s \in Slots, ExecutionStep(s) \/ BodyStep(s)
      PROVE  \/ UNCHANGED accepted
             \/ TaskFinally(s) /\ accepted' = [accepted EXCEPT ![exec[s].run] = None]
  BY <1>3 DEF ExecutionStep, BodyStep, ExecBody, ExecRefused, ExecUnread, ExecSettled,
     TaskFinally, BodyReturns, BodyFails, ExecStep, ExecCatch
<1>4. ASSUME NEW g \in Registrations, PluginStep(g)
      PROVE  \/ UNCHANGED accepted
             \/ \E q : accepted' = [accepted EXCEPT ![q] = g]
             \/ DisposeContinue(g)
  BY <1>4 DEF PluginStep, RecoverContinue, RecoverResume, RecoverFails, DisposeAdmitted,
     DisposeResume, DisposeDrained, DisposeFails
<1>5. HostStep => UNCHANGED accepted \/ Boot
  BY DEF HostStep, DrainContinue, DrainFails, DrainFinally, StopAbort, StopTasks, StopEnd,
     InitDone
<1>6. ASSUME Environment
      PROVE  UNCHANGED accepted \/ Crash
  <2>1. ASSUME NEW q \in Runs, NEW g \in Registrations, NEW at \in Schedules, Start(q, g, at)
        PROVE  UNCHANGED accepted
    BY <2>1 DEF Start
  <2>. QED BY <1>6, <2>1 DEF Environment, Cancel, Review, UserCommand, Register, Dispose, StopBegin
<1>. QED BY <1>1, <1>2, <1>3, <1>4, <1>5, <1>6 DEF Next, Tick

\* What sets the timer of a run.
LEMMA TimerSteps ==
    ASSUME TypeOK, [Next]_vars, NEW r \in Runs,
           scheduledTimers[r] = NoTimer, scheduledTimers'[r] # NoTimer
    PROVE  \/ AdmissionContinue(r) /\ accepted'[r] = admission[r].reg
           \/ ReleaseContinue(r)
           \/ \E g \in Registrations : RecoverContinue(g) /\ recovery[g].id = r
                                        /\ accepted'[r] = g
<1>. USE DEF vars, beyondPlugins, beyondHost, schedule
<1>1. scheduledTimers \in [Runs -> Nat] /\ accepted \in [Runs -> RegOrNone]
  BY DEF TypeOK, ScheduleOK, AcceptedOK
<1>2. \A q \in Runs : \A acc, rec : ArmScheduledRun(q, acc, rec) \/ EnqueueRun(q, acc) =>
         \A p \in Runs \ {q} : scheduledTimers'[p] = scheduledTimers[p]
  BY <1>1 DEF ArmScheduledRun, EnqueueRun
<1>3. \A p \in Runs, q \in Runs : [scheduledTimers EXCEPT ![q] = NoTimer][p] # NoTimer =>
                                      scheduledTimers[p] # NoTimer
  BY <1>1
<1>4. ASSUME NEW q \in Runs, RunStep(q)
      PROVE  \/ AdmissionContinue(r) /\ accepted'[r] = admission[r].reg
             \/ ReleaseContinue(r)
  <2>1. CASE AdmissionContinue(q)
    <3>1. q = r /\ accepted' = [accepted EXCEPT ![q] = admission[q].reg]
      BY <1>1, <1>2, <2>1 DEF AdmissionContinue
    <3>. QED BY <1>1, <2>1, <3>1
  <2>2. CASE ReleaseContinue(q)
    <3>1. q = r
      BY <1>1, <1>2, <1>3, <2>2 DEF ReleaseContinue
    <3>. QED BY <2>2, <3>1
  <2>3. ~AdmissionContinue(q) /\ ~ReleaseContinue(q) =>
           \/ UNCHANGED scheduledTimers
           \/ scheduledTimers' = [scheduledTimers EXCEPT ![q] = NoTimer]
    BY <1>4 DEF RunStep, CommitExecution, CommitCancel, CommitApproval,
       CommitExpiry, CancelContinue, TimerFires, ReleaseFails, InitRun
  <2>. QED BY <1>3, <2>1, <2>2, <2>3
<1>5. ASSUME NEW s \in Slots, ExecutionStep(s) \/ BodyStep(s)
      PROVE  UNCHANGED scheduledTimers
  BY <1>5 DEF ExecutionStep, BodyStep, ExecBody, ExecRefused, ExecUnread, ExecSettled,
     TaskFinally, BodyReturns, BodyFails, ExecStep, ExecCatch
<1>6. ASSUME NEW g \in Registrations, PluginStep(g)
      PROVE  RecoverContinue(g) /\ recovery[g].id = r /\ accepted'[r] = g
  <2>1. CASE RecoverContinue(g)
    <3>1. recovery[g].id \in Runs
      BY <2>1 DEF RecoverContinue, TypeOK, ReadingOK
    <3>2. recovery[g].id = r /\ accepted' = [accepted EXCEPT ![recovery[g].id] = g]
      BY <1>1, <1>2, <2>1, <3>1 DEF RecoverContinue
    <3>. QED BY <1>1, <2>1, <3>2
  <2>2. CASE DisposeContinue(g)
    <3>1. disposer[g].id \in Runs
      BY <2>2 DEF DisposeContinue, TypeOK, ReadingOK
    <3>. QED BY <1>3, <2>2, <3>1 DEF DisposeContinue
  <2>3. ~RecoverContinue(g) /\ ~DisposeContinue(g) => UNCHANGED scheduledTimers
    BY <1>6 DEF PluginStep, RecoverResume, RecoverFails, DisposeAdmitted,
       DisposeResume, DisposeDrained, DisposeFails
  <2>. QED BY <2>1, <2>2, <2>3
<1>7. HostStep => UNCHANGED scheduledTimers \/ scheduledTimers' = [q \in Runs |-> NoTimer]
  BY DEF HostStep, DrainContinue, DrainFails, DrainFinally, StopAbort, StopTasks, StopEnd,
     InitDone, Boot, Fresh
<1>8. ASSUME Environment
      PROVE  UNCHANGED scheduledTimers \/ scheduledTimers' = [q \in Runs |-> NoTimer]
  <2>1. ASSUME NEW q \in Runs, NEW g \in Registrations, NEW at \in Schedules, Start(q, g, at)
        PROVE  UNCHANGED scheduledTimers
    BY <2>1 DEF Start
  <2>. QED BY <1>8, <2>1 DEF Environment, Cancel, Review, UserCommand, Register, Dispose,
              StopBegin, Crash, Fresh
<1>. QED BY <1>4, <1>5, <1>6, <1>7, <1>8 DEF Next, Tick

\* What parks a run.
LEMMA ParkSteps ==
    ASSUME TypeOK, [Next]_vars, NEW r \in Runs, r \notin recoverable, r \in recoverable'
    PROVE  \/ InitRun(r)
           \/ ReleaseContinue(r) /\ release[r] = "queued" /\ accepted[r] = None
           \/ \E g \in Registrations :
                 DisposeContinue(g) /\ disposer[g].id = r /\ disposer[g].seen = "queued"
<1>. USE DEF vars, beyondPlugins, beyondHost, schedule
<1>1. \A q, acc : /\ ArmScheduledRun(q, acc, recoverable) => recoverable' \subseteq recoverable
                  /\ ArmScheduledRun(q, acc, recoverable \ {q}) => recoverable' \subseteq recoverable
                  /\ EnqueueRun(q, acc) => recoverable' \subseteq recoverable
  BY DEF ArmScheduledRun, EnqueueRun
<1>2. ASSUME NEW q \in Runs, RunStep(q)
      PROVE  \/ InitRun(r)
             \/ ReleaseContinue(r) /\ release[r] = "queued" /\ accepted[r] = None
  <2>1. CASE AdmissionContinue(q)
    BY <1>1, <2>1 DEF AdmissionContinue
  <2>2. CASE ReleaseContinue(q)
    <3>1. \/ recoverable' \subseteq recoverable
          \/ recoverable' = recoverable \cup {q} /\ release[q] = "queued" /\ accepted[q] = None
      BY <1>1, <2>2 DEF ReleaseContinue, Parked
    <3>. QED BY <2>2, <3>1
  <2>3. CASE InitRun(q)
    BY <2>3 DEF InitRun, Parked
  <2>4. ~AdmissionContinue(q) /\ ~ReleaseContinue(q) /\ ~InitRun(q) =>
           recoverable' \subseteq recoverable
    BY <1>2 DEF RunStep, CommitExecution, CommitCancel, CommitApproval,
       CommitExpiry, CancelContinue, TimerFires, ReleaseFails
  <2>. QED BY <2>1, <2>2, <2>3, <2>4
<1>3. ASSUME NEW s \in Slots, ExecutionStep(s) \/ BodyStep(s)
      PROVE  UNCHANGED recoverable
  BY <1>3 DEF ExecutionStep, BodyStep, ExecBody, ExecRefused, ExecUnread, ExecSettled,
     TaskFinally, BodyReturns, BodyFails, ExecStep, ExecCatch
<1>4. ASSUME NEW g \in Registrations, PluginStep(g)
      PROVE  \/ recoverable' \subseteq recoverable
             \/ DisposeContinue(g) /\ disposer[g].id = r /\ disposer[g].seen = "queued"
  <2>1. CASE DisposeContinue(g)
    BY <2>1 DEF DisposeContinue, Parked
  <2>. QED BY <1>1, <1>4, <2>1 DEF PluginStep, RecoverContinue, RecoverResume, RecoverFails,
              DisposeAdmitted, DisposeResume, DisposeDrained, DisposeFails
<1>5. HostStep => recoverable' \subseteq recoverable
  BY DEF HostStep, DrainContinue, DrainFails, DrainFinally, StopAbort, StopTasks, StopEnd,
     InitDone, Boot, Fresh
<1>6. ASSUME Environment
      PROVE  recoverable' \subseteq recoverable
  <2>1. ASSUME NEW q \in Runs, NEW g \in Registrations, NEW at \in Schedules, Start(q, g, at)
        PROVE  UNCHANGED recoverable
    BY <2>1 DEF Start
  <2>. QED BY <1>6, <2>1 DEF Environment, Cancel, Review, UserCommand, Register, Dispose,
              StopBegin, Crash, Fresh
<1>. QED BY <1>2, <1>3, <1>4, <1>5, <1>6 DEF Next, Tick

\* Only the release of a run gives what it has read.
LEMMA ReleaseReads ==
    ASSUME TypeOK, [Next]_vars, NEW r \in Runs, release'[r] \notin {"none", release[r]}
    PROVE  TimerFires(r) /\ release'[r] = run[r].status
<1>. USE DEF vars, beyondPlugins, beyondHost, callers
<1>1. release \in [Runs -> Status \cup {"none"}]
  BY DEF TypeOK, CallersOK
<1>2. ASSUME NEW q \in Runs, RunStep(q)
      PROVE  \/ UNCHANGED release
             \/ release' = [release EXCEPT ![q] = "none"]
             \/ TimerFires(q) /\ release' = [release EXCEPT ![q] = run[q].status]
  BY <1>2 DEF RunStep, AdmissionContinue, CommitExecution, CommitCancel, CommitApproval,
     CommitExpiry, CancelContinue, TimerFires, ReleaseContinue, ReleaseFails, InitRun, Commits
<1>3. ASSUME NEW s \in Slots, ExecutionStep(s) \/ BodyStep(s)
      PROVE  UNCHANGED release
  BY <1>3 DEF ExecutionStep, BodyStep, ExecBody, ExecRefused, ExecUnread, ExecSettled,
     TaskFinally, BodyReturns, BodyFails, ExecStep, ExecCatch
<1>4. ASSUME NEW g \in Registrations, PluginStep(g)
      PROVE  UNCHANGED release
  BY <1>4 DEF PluginStep, RecoverContinue, RecoverResume, DisposeAdmitted,
     DisposeContinue, DisposeResume, DisposeDrained, RecoverFails, DisposeFails
<1>5. HostStep => UNCHANGED release \/ release' = [q \in Runs |-> "none"]
  BY DEF HostStep, DrainContinue, DrainFails, DrainFinally, StopAbort, StopTasks, StopEnd,
     Boot, Fresh, InitDone
<1>6. Environment => UNCHANGED release \/ release' = [q \in Runs |-> "none"]
  BY DEF Environment, Start, Cancel, Review, UserCommand, Register, Dispose, StopBegin,
     Crash, Fresh
<1>. QED BY <1>1, <1>2, <1>3, <1>4, <1>5, <1>6 DEF Next, Tick

\* A run that is being created is nowhere, so no timer, release or parking is its own.
LEMMA StartNowhere ==
    ASSUME PlaceInv, NEW r \in Runs, NEW g \in Registrations, NEW at \in Schedules,
           Start(r, g, at)
    PROVE  ~At(r, "timer") /\ ~At(r, "release") /\ r \notin recoverable
<1>1. Nowhere(r)
  BY DEF Start, PlaceInv, AbsentNowhere, Stored
<1>. QED BY <1>1, AtPlaces DEF Nowhere, Places, Recovered

\* A queued run that a timer or a release holds keeps its accepted registration.
LEMMA HeldAcceptedStep ==
    ASSUME Disposable = {}, StrandInv, [Next]_vars
    PROVE  HeldAccepted'
<1>. SUFFICES ASSUME NEW r \in Runs, run'[r].status = "queued",
                     scheduledTimers'[r] # NoTimer \/ release'[r] # "none"
              PROVE  accepted'[r] # None
  BY DEF HeldAccepted, At
<1>1. /\ TypeOK /\ PlaceInv /\ OneDefined /\ OneAt(r) /\ None \notin Registrations
      /\ CancelsSaved /\ HeldAccepted /\ ReleaseSaw /\ AdmittedFor
      /\ cancels \in [Runs -> SUBSET Callers]
  BY RuntimeConstants DEF StrandInv, PlaceInv, BoundInv, OnePlace, TypeOK, CallersOK
<1>2. AdmissionContinue(r) => admission[r].reg # None
  BY <1>1 DEF AdmissionContinue, AdmittedFor
<1>3. CASE At(r, "timer") \/ At(r, "release")
  <2>1. run[r].status = "queued"
    BY <1>1, <1>3, QueuedFrom, StartNowhere
  <2>2. accepted[r] # None
    BY <1>1, <1>3, <2>1 DEF HeldAccepted
  <2>3. ~(ReleaseContinue(r) /\ release[r] # "queued")
    BY <1>1, <2>1 DEF ReleaseContinue, ReleaseSaw
  <2>4. \A c \in Callers : ~CancelContinue(r, c)
    BY <1>1, <2>1 DEF CancelContinue, CancelsSaved, Terminal
  <2>5. ASSUME NEW s \in Slots, TaskFinally(s), exec[s].run = r PROVE FALSE
    <3>1. At(r, "execution") /\ {"execution", "timer", "release"} \subseteq Places
      BY <2>5, AtPlaces DEF TaskFinally, Executed, Busy, Places
    <3>. QED BY <1>1, <1>3, <3>1 DEF OneAt
  <2>6. \A g \in Registrations : ~DisposeContinue(g)
    BY <1>1, NoDisposal
  <2>7. ~Boot /\ ~Crash
    BY DEF Boot, Crash, Fresh
  <2>. QED BY <1>1, <1>2, <2>2, <2>3, <2>4, <2>5, <2>6, <2>7, AcceptedSteps
<1>4. CASE ~At(r, "timer") /\ ~At(r, "release")
  <2>1. scheduledTimers[r] = NoTimer /\ release[r] = "none"
    BY <1>4, AtPlaces
  <2>2. ~ReleaseContinue(r) /\ ~TimerFires(r)
    BY <2>1 DEF ReleaseContinue, TimerFires
  <2>3. release'[r] = "none"
    BY <1>1, <2>1, <2>2, ReleaseReads
  <2>4. \/ AdmissionContinue(r) /\ accepted'[r] = admission[r].reg
        \/ \E g \in Registrations : RecoverContinue(g) /\ accepted'[r] = g
    BY <1>1, <2>1, <2>2, <2>3, TimerSteps
  <2>. QED BY <1>1, <1>2, <2>4
<1>. QED BY <1>3, <1>4

\* No release has read a status that its run left for "queued".
LEMMA ReleaseSawStep ==
    ASSUME Disposable = {}, StrandInv, [Next]_vars
    PROVE  ReleaseSaw'
<1>. SUFFICES ASSUME NEW r \in Runs, run'[r].status = "queued",
                     release'[r] \notin {"none", "queued"}
              PROVE  FALSE
  BY DEF ReleaseSaw
<1>1. TypeOK /\ PlaceInv /\ ReleaseSaw
  BY DEF StrandInv, PlaceInv, BoundInv
<1>2. At(r, "timer") \/ At(r, "release")
  BY <1>1, ReleaseReads, AtPlaces DEF TimerFires
<1>3. run[r].status = "queued"
  BY <1>1, <1>2, QueuedFrom, StartNowhere
<1>. QED BY <1>1, <1>3, ReleaseReads DEF ReleaseSaw

\* An admission knows the registration that it was given.
LEMMA AdmittedForStep ==
    ASSUME TypeOK, AdmittedFor, [Next]_vars
    PROVE  AdmittedFor'
<1>1. /\ admission \in [Runs -> AdmissionRecords]
      /\ \A q \in Runs : admission[q] \in AdmissionRecords
  BY DEF TypeOK, CallersOK
<1>2. ASSUME NEW q, NEW pc \in {"cancelling", "done"},
             admission' = [admission EXCEPT ![q].pc = pc]
      PROVE  AdmittedFor'
  BY <1>1, <1>2 DEF AdmissionRecords, AdmittedFor
<1>3. ASSUME NEW q \in Runs, NEW g \in Registrations, NEW at \in Schedules, Start(q, g, at)
      PROVE  AdmittedFor'
  BY <1>1, <1>3 DEF Start, AdmittedFor
<1>4. CASE UNCHANGED admission \/ admission' = [q \in Runs |-> [pc |-> "none", reg |-> None]]
  BY <1>4 DEF AdmittedFor
<1>. QED BY <1>2, <1>3, <1>4, AdmissionSteps

\* What a step may do to the phase of the host.
LEMMA HostSteps ==
    ASSUME [Next]_vars
    PROVE  UNCHANGED host \/ InitDone \/ StopBegin \/ StopEnd \/ Boot \/ Crash
<1>. USE DEF vars, beyondPlugins, beyondHost, phase
<1>1. ASSUME NEW r \in Runs, RunStep(r) PROVE UNCHANGED host
  BY <1>1 DEF RunStep, AdmissionContinue, CommitExecution, CommitCancel, CommitApproval,
     CommitExpiry, CancelContinue, TimerFires, ReleaseContinue, ReleaseFails, InitRun
<1>2. ASSUME NEW s \in Slots, ExecutionStep(s) \/ BodyStep(s) PROVE UNCHANGED host
  BY <1>2 DEF ExecutionStep, BodyStep, ExecBody, ExecRefused, ExecUnread, ExecSettled,
     TaskFinally, BodyReturns, BodyFails, ExecStep, ExecCatch
<1>3. ASSUME NEW g \in Registrations, PluginStep(g) PROVE UNCHANGED host
  BY <1>3 DEF PluginStep, RecoverContinue, RecoverResume, RecoverFails, DisposeAdmitted,
     DisposeContinue, DisposeResume, DisposeDrained, DisposeFails
<1>4. HostStep => UNCHANGED host \/ InitDone \/ StopEnd \/ Boot
  BY DEF HostStep, DrainContinue, DrainFails, DrainFinally, StopAbort, StopTasks
<1>5. ASSUME Environment PROVE UNCHANGED host \/ StopBegin \/ Crash
  <2>1. ASSUME NEW q \in Runs, NEW g \in Registrations, NEW at \in Schedules, Start(q, g, at)
        PROVE  UNCHANGED host
    BY <2>1 DEF Start
  <2>. QED BY <1>5, <2>1 DEF Environment, Cancel, Review, UserCommand, Register, Dispose
<1>. QED BY <1>1, <1>2, <1>3, <1>4, <1>5 DEF Next, Tick

\* Nothing registers before Service.init has ended.
LEMMA InitUnregisteredStep ==
    ASSUME InitUnregistered, [Next]_vars
    PROVE  InitUnregistered'
<1>. USE DEF InitUnregistered
<1>1. CASE Boot \/ Crash
  BY <1>1 DEF Boot, Crash, Fresh
<1>2. CASE ~Boot /\ ~Crash /\ host' \in {"down", "init"}
  <2>1. UNCHANGED host
    BY <1>2, HostSteps DEF InitDone, StopBegin, StopEnd
  <2>2. UNCHANGED definitions
    BY <1>2, <2>1, RegistrationSteps DEF RecoverContinue, RecoverResume, RecoverFails,
       CommitExpiry, Register, Dispose, up
  <2>. QED BY <2>1, <2>2
<1>. QED BY <1>1, <1>2

\* A recovery that has just ended has nothing of its workflow left to recover.
LEMMA RecoveryEnds ==
    ASSUME Disposable = {}, PlaceInv, TypeOK', [Next]_vars, NEW g \in Registrations,
           ~stopped', recovery'[g].pc = "done", recovery[g].pc # "done"
    PROVE  UNCHANGED run /\ \A r \in recoverable' : run[r].workflow # WorkflowOf[g]
<1>1. /\ TypeOK /\ OneDefined /\ recovery \in [Registrations -> RecoveryRecords]
      /\ recoverable \in SUBSET Runs /\ recoverable' \in SUBSET Runs
  BY DEF PlaceInv, BoundInv, TypeOK, PluginsOK, ScheduleOK
<1>2. \A h \in Registrations \ {g}, rec \in SUBSET Runs : ~RecoverNext(h, rec)
  BY <1>1, RecoverNextReads
<1>3. PICK h \in Registrations :
         RecoverContinue(h) \/ RecoverResume(h) \/ RecoverFails(h) \/ Register(h)
  <2>1. ASSUME NEW r \in Runs, CommitExpiry(r) PROVE FALSE
    BY <1>1, <2>1 DEF CommitExpiry
  <2>2. ~Boot /\ ~Crash
    BY DEF Boot, Crash, Fresh, NoRecovery
  <2>. QED BY <1>1, <2>1, <2>2, NoDisposal, RegistrationSteps
<1>4. h = g
  <2>1. RecoverResume(h) \/ Register(h) => RecoverNext(h, recoverable)
    BY DEF RecoverResume, Register
  <2>2. RecoverFails(h) => recovery' = [recovery EXCEPT ![h].pc = "rejected"]
    BY DEF RecoverFails
  <2>3. RecoverContinue(h) =>
           \/ RecoverNext(h, recoverable')
           \/ recovery' = [recovery EXCEPT ![h] = [pc |-> "done", id |-> None, seen |-> "absent"]]
           \/ recovery' = [recovery EXCEPT ![h].pc = "failing"]
    BY DEF RecoverContinue
  <2>. QED BY <1>1, <1>2, <1>3, <2>1, <2>2, <2>3
<1>5. UNCHANGED run /\ (RecoverNext(g, recoverable') \/ (RecoverNext(g, recoverable)
                                                           /\ UNCHANGED recoverable))
  <2>1. CASE RecoverContinue(g)
    <3>1. ~(stopped \/ definitions[WorkflowOf[g]] # g)
      BY <1>1, <2>1 DEF RecoverContinue, OneDefined, stopped, phase
    <3>2. recovery' # [recovery EXCEPT ![g].pc = "failing"]
      BY <1>1 DEF RecoveryRecords
    <3>. QED BY <2>1, <3>1, <3>2 DEF RecoverContinue, durable
  <2>2. CASE RecoverResume(g) \/ Register(g)
    BY <2>2 DEF RecoverResume, Register, beyondPlugins, durable, schedule
  <2>3. ~RecoverFails(g)
    BY <1>1 DEF RecoverFails, RecoveryRecords
  <2>. QED BY <1>3, <1>4, <2>1, <2>2, <2>3
<1>. QED BY <1>1, <1>5, RecoverNextReads DEF Candidates

\* DoneRecovered is kept.
LEMMA DoneRecoveredStep ==
    ASSUME Disposable = {}, StrandInv, [Next]_vars
    PROVE  DoneRecovered'
<1>. SUFFICES ASSUME NEW g \in Registrations, ~stopped', recovery'[g].pc = "done",
                     NEW r \in Runs, r \in recoverable', run'[r].workflow = WorkflowOf[g],
                     run'[r].status = "queued"
              PROVE  FALSE
  <2>1. recoverable' \in SUBSET Runs
    BY TypeStep DEF StrandInv, PlaceInv, BoundInv, TypeOK, ScheduleOK
  <2>. QED BY <2>1 DEF DoneRecovered, stopped
<1>1. /\ TypeOK /\ TypeOK' /\ PlaceInv /\ OneDefined /\ StopStarted
      /\ DoneRecovered /\ HeldAccepted /\ InitUnregistered
  BY TypeStep DEF StrandInv, PlaceInv, BoundInv
<1>2. CASE recovery[g].pc # "done"
  BY <1>1, <1>2, RecoveryEnds
<1>3. CASE recovery[g].pc = "done"
  <2>1. ~stopped
    <3>1. ~Boot /\ ~Crash
      BY DEF Boot, Crash, Fresh, NoRecovery
    <3>. QED BY <3>1, HostSteps DEF stopped, InitDone, StopBegin, StopEnd
  <2>2. definitions[WorkflowOf[g]] = g /\ WorkflowOf[g] \in Workflows /\ None \notin Registrations
    BY <1>1, <1>3, RuntimeConstants DEF OneDefined
  <2>3. ~InitRun(r)
    BY <1>1, <2>2 DEF InitRun, InitUnregistered
  <2>4. \A h \in Registrations : ~DisposeContinue(h)
    BY <1>1, NoDisposal
  <2>5. run[r].status = "queued"
    <3>1. ASSUME NEW h \in Registrations, NEW at \in Schedules, Start(r, h, at) PROVE FALSE
      BY <1>1, <3>1, StartNowhere DEF Start, schedule
    <3>. QED BY <1>1, <3>1, QueuedFrom
  <2>6. r \in recoverable
    <3>1. ~(ReleaseContinue(r) /\ release[r] = "queued" /\ accepted[r] = None)
      BY <1>1, <2>5, AtPlaces DEF HeldAccepted
    <3>. QED BY <1>1, <2>3, <2>4, <3>1, ParkSteps
  <2>7. run'[r].workflow = run[r].workflow
    BY <1>1, <2>5, StoredKept DEF Stored, SameOrder
  <2>. QED BY <1>1, <1>3, <2>1, <2>5, <2>6, <2>7 DEF DoneRecovered
<1>. QED BY <1>2, <1>3

\* The service starts without runs in hand and without registrations.
LEMMA StrandInit == Init => StrandInv
<1>. SUFFICES ASSUME Init PROVE StrandInv
  OBVIOUS
<1>1. PlaceInv /\ CancelsSaved
  BY PlaceInit, SavedInit DEF SavedInv
<1>2. HeldAccepted /\ ReleaseSaw /\ AdmittedFor /\ InitUnregistered /\ DoneRecovered
  BY DEF Init, Fresh, HeldAccepted, ReleaseSaw, AdmittedFor, InitUnregistered, DoneRecovered
<1>. QED BY <1>1, <1>2 DEF StrandInv

\* The strengthened property is inductive while the plugins stay.
LEMMA StrandStep == Disposable = {} /\ StrandInv /\ [Next]_vars => StrandInv'
<1>1. ASSUME Disposable = {}, StrandInv, [Next]_vars PROVE StrandInv'
  <2>1. TypeOK /\ PlaceInv /\ CancelsSaved /\ AdmittedFor /\ InitUnregistered
    BY <1>1 DEF StrandInv, PlaceInv, BoundInv
  <2>. QED BY <1>1, <2>1, PlaceStep, CancelsSavedStep, HeldAcceptedStep, ReleaseSawStep,
              AdmittedForStep, InitUnregisteredStep, DoneRecoveredStep DEF StrandInv
<1>. QED BY <1>1

\* While the plugins stay, once the recovery of a registration has ended without an error
\* no queued run of its workflow is left without a timer: recoverScheduledRuns re-arms or
\* fails them all, and no release parks another.
THEOREM NoneStranded == Disposable = {} => (Spec => []NoStrandedSchedule)
<1>. SUFFICES ASSUME Disposable = {} PROVE Spec => []NoStrandedSchedule
  OBVIOUS
<1>1. StrandInv /\ [Next]_vars => StrandInv'
  BY StrandStep
<1>2. StrandInv => NoStrandedSchedule
  BY DEF StrandInv, DoneRecovered, NoStrandedSchedule, stopped
<1>. QED BY <1>1, <1>2, StrandInit, PTL DEF Spec

-----------------------------------------------------------------------------
(* What the stop effect leaves.                                            *)
(*                                                                         *)
(* StopLeaves speaks of a host that has stopped; the invariant follows the *)
(* stop effect from its second phase on.  No admission begins any more     *)
(* (StopSettled).  It has aborted every execution of that moment that was  *)
(* not ending, and awaits the tasks of all, because the task of a run is   *)
(* that of its only execution (TaskOfRun); and the read that the pump had  *)
(* in flight is the last (LooseOne).                                       *)

\* What the stop effect leaves behind (runtime_stop shows that it is not nothing).
StopLeaves ==
    host = "stopped" =>
        /\ Admitting = {}
        /\ Cardinality({s \in Busy : ~exec[s].aborted}) <= 1

StopPast == stop.pc \in {"tasks", "mutations", "ended"}
Loose    == {s \in Busy : ~exec[s].aborted /\ s \notin stop.slots}

StopEnded   == host = "stopped" => stop.pc = "ended"
StopSettled == StopPast => Admitting = {}
StopAwaited == stop.pc \in {"mutations", "ended"} => stop.slots = {}
TaskOfRun   == \A s \in Busy : exec[s].run \in Runs /\ tasks[exec[s].run] = s
LooseOne    == StopPast => \A s, t \in Loose : s = t /\ drain.pc # "reading"

StopInv ==
    PlaceInv /\ StopEnded /\ StopSettled /\ StopAwaited /\ TaskOfRun /\ LooseOne

\* What a step may do to the stop effect.
LEMMA StopSteps ==
    ASSUME TypeOK, [Next]_vars
    PROVE  \/ stop'.pc = stop.pc /\ stop'.slots = stop.slots
           \/ \E s \in Slots : TaskFinally(s)
           \/ StopBegin \/ StopAbort \/ StopTasks \/ StopEnd \/ Boot \/ Crash
<1>. USE DEF vars, beyondPlugins, beyondHost, phase
<1>1. stop \in StopRecords
  BY DEF TypeOK, PhaseOK
<1>2. ASSUME NEW r \in Runs, Commits(r) PROVE stop'.pc = stop.pc /\ stop'.slots = stop.slots
  BY <1>1, <1>2 DEF Commits, Committing, StopRecords
<1>3. ASSUME NEW r \in Runs, RunStep(r) PROVE Commits(r) \/ UNCHANGED stop
  BY <1>3 DEF RunStep, AdmissionContinue, CommitExecution, CommitCancel, CommitApproval,
     CommitExpiry, CancelContinue, TimerFires, ReleaseContinue, ReleaseFails, InitRun, Commits
<1>4. ASSUME NEW s \in Slots, ExecutionStep(s) \/ BodyStep(s)
      PROVE  UNCHANGED stop \/ TaskFinally(s)
  BY <1>4 DEF ExecutionStep, BodyStep, ExecBody, ExecRefused, ExecUnread, ExecSettled,
     BodyReturns, BodyFails, ExecStep, ExecCatch
<1>5. ASSUME NEW g \in Registrations, PluginStep(g) PROVE UNCHANGED stop
  BY <1>5 DEF PluginStep, RecoverContinue, RecoverResume, RecoverFails, DisposeAdmitted,
     DisposeContinue, DisposeResume, DisposeDrained, DisposeFails
<1>6. HostStep => UNCHANGED stop \/ StopAbort \/ StopTasks \/ StopEnd \/ Boot
  BY DEF HostStep, DrainContinue, DrainFails, DrainFinally, InitDone
<1>7. ASSUME Environment PROVE UNCHANGED stop \/ StopBegin \/ Crash
  <2>1. ASSUME NEW q \in Runs, NEW g \in Registrations, NEW at \in Schedules, Start(q, g, at)
        PROVE  UNCHANGED stop
    BY <2>1 DEF Start
  <2>2. ASSUME NEW q \in Runs, Cancel(q) \/ Review(q) PROVE UNCHANGED stop
    BY <2>2 DEF Cancel, Review, UserCommand
  <2>3. ASSUME NEW g \in Registrations, Register(g) \/ Dispose(g) PROVE UNCHANGED stop
    BY <2>3 DEF Register, Dispose
  <2>. QED BY <1>7, <2>1, <2>2, <2>3 DEF Environment
<1>. QED BY <1>2, <1>3, <1>4, <1>5, <1>6, <1>7 DEF Next, Tick

\* Only the pump registers a task, and only its end removes it.
LEMMA TaskSteps ==
    ASSUME [Next]_vars
    PROVE  \/ UNCHANGED tasks
           \/ DrainContinue
           \/ \E s \in Slots : TaskFinally(s)
           \/ Boot \/ Crash
<1>. USE DEF vars, beyondPlugins, beyondHost, execution
<1>1. ASSUME NEW r \in Runs, RunStep(r) PROVE UNCHANGED tasks
  BY <1>1 DEF RunStep, AdmissionContinue, CommitExecution, CommitCancel, CommitApproval,
     CommitExpiry, CancelContinue, TimerFires, ReleaseContinue, ReleaseFails, InitRun
<1>2. ASSUME NEW s \in Slots, ExecutionStep(s) \/ BodyStep(s)
      PROVE  UNCHANGED tasks \/ TaskFinally(s)
  BY <1>2 DEF ExecutionStep, BodyStep, ExecBody, ExecRefused, ExecUnread, ExecSettled,
     BodyReturns, BodyFails, ExecStep, ExecCatch
<1>3. ASSUME NEW g \in Registrations, PluginStep(g) PROVE UNCHANGED tasks
  BY <1>3 DEF PluginStep, RecoverContinue, RecoverResume, RecoverFails, DisposeAdmitted,
     DisposeContinue, DisposeResume, DisposeDrained, DisposeFails
<1>4. HostStep => UNCHANGED tasks \/ DrainContinue \/ Boot
  BY DEF HostStep, DrainFinally, DrainFails, StopAbort, StopTasks, StopEnd, InitDone
<1>5. ASSUME Environment PROVE UNCHANGED tasks \/ Crash
  <2>1. ASSUME NEW q \in Runs, NEW g \in Registrations, NEW at \in Schedules, Start(q, g, at)
        PROVE  UNCHANGED tasks
    BY <2>1 DEF Start
  <2>2. ASSUME NEW q \in Runs, Cancel(q) \/ Review(q) PROVE UNCHANGED tasks
    BY <2>2 DEF Cancel, Review, UserCommand
  <2>3. ASSUME NEW g \in Registrations, Register(g) \/ Dispose(g) PROVE UNCHANGED tasks
    BY <2>3 DEF Register, Dispose
  <2>. QED BY <1>5, <2>1, <2>2, <2>3 DEF Environment, StopBegin
<1>. QED BY <1>1, <1>2, <1>3, <1>4, <1>5 DEF Next, Tick

\* The pump of a stopping host begins no read, and gives up the one it resumes from.
LEMMA NoReadBegins ==
    ASSUME stopped, [Next]_vars, drain'.pc = "reading"
    PROVE  drain.pc = "reading" /\ (DrainContinue => FALSE)
<1>. USE DEF MayDispatch, NoRead
<1>1. ASSUME NEW queue, NEW acc, NEW active, NEW otherwise \in {"idle", "exiting"},
             DrainLoop(queue, acc, active, otherwise)
      PROVE  FALSE
  BY <1>1 DEF DrainLoop
<1>2. ASSUME NEW queue, NEW acc, NEW active, Pump(queue, acc, active)
      PROVE  UNCHANGED drain
  BY <1>1, <1>2 DEF Pump
<1>3. ASSUME NEW r, NEW acc, NEW rec, ArmScheduledRun(r, acc, rec) \/ EnqueueRun(r, acc)
      PROVE  UNCHANGED drain
  BY <1>2, <1>3 DEF ArmScheduledRun, EnqueueRun, dispatch
<1>4. ASSUME NEW r \in Runs,
             AdmissionContinue(r) \/ ReleaseContinue(r) \/ \E c \in Callers : CancelContinue(r, c)
      PROVE  UNCHANGED drain
  BY <1>3, <1>4 DEF AdmissionContinue, ReleaseContinue, CancelContinue, dispatch
<1>5. ASSUME NEW s \in Slots, TaskFinally(s) PROVE UNCHANGED drain
  BY <1>2, <1>5 DEF TaskFinally
<1>6. ASSUME NEW g \in Registrations, RecoverContinue(g) \/ DisposeContinue(g)
      PROVE  UNCHANGED drain
  BY <1>3, <1>6 DEF RecoverContinue, DisposeContinue, dispatch
<1>7. ~DrainContinue /\ ~DrainFinally
  BY <1>1 DEF DrainContinue, DrainFinally
<1>8. InitDone => UNCHANGED drain
  BY <1>2 DEF InitDone
<1>9. ~DrainFails /\ ~Boot /\ ~Crash
  BY DEF DrainFails, Boot, Crash, Fresh
<1>. QED BY <1>4, <1>5, <1>6, <1>7, <1>8, <1>9, DispatchSteps DEF dispatch

\* The host has stopped when its stop effect has ended, and no admission begins after it
\* has waited for them.
LEMMA StopPhaseStep ==
    ASSUME TypeOK, StopStarted, StopEnded, StopSettled, StopAwaited, [Next]_vars
    PROVE  StopEnded' /\ StopSettled' /\ StopAwaited'
<1>. USE DEF StopEnded, StopSettled, StopAwaited, StopPast
<1>1. stop \in StopRecords /\ admission \in [Runs -> AdmissionRecords]
  BY DEF TypeOK, PhaseOK, CallersOK
<1>2. CASE Boot \/ Crash
  BY <1>2 DEF Boot, Crash, Fresh
<1>3. ASSUME NEW s \in Slots, TaskFinally(s)
      PROVE  /\ stop'.pc = stop.pc /\ (stop.slots = {} => stop'.slots = {})
             /\ UNCHANGED host
  BY <1>1, <1>3 DEF TaskFinally, StopRecords
<1>4. CASE ~Boot /\ ~Crash
  <2>1. StopEnded' /\ StopAwaited'
    BY <1>1, <1>3, <1>4, StopSteps, HostSteps
       DEF InitDone, StopBegin, StopAbort, StopTasks, StopEnd, StopRecords, StopStarted, stopped,
           phase, beyondHost
  <2>2. CASE ~StopPast /\ StopPast'
    <3>1. StopAbort
      BY <1>1, <1>3, <1>4, <2>2, StopSteps DEF StopBegin, StopTasks, StopEnd, StopRecords
    <3>. QED BY <3>1 DEF StopAbort, AdmissionsSettled, Admitting, callers
  <2>3. CASE StopPast
    <3>1. \A r \in Runs, g \in Registrations, at \in Schedules : ~Start(r, g, at)
      BY <1>1, <2>3 DEF Start, StopStarted, stopped
    <3>2. \A r \in Runs : admission'[r].pc \in {"creating", "cancelling"}
                          => admission[r].pc \in {"creating", "cancelling"}
      BY <1>1, <3>1, AdmissionBegins
    <3>3. Admitting' \subseteq Admitting
      BY <3>2 DEF Admitting
    <3>4. Admitting = {}
      BY <2>3
    <3>. QED BY <2>1, <3>3, <3>4
  <2>. QED BY <2>1, <2>2, <2>3
<1>. QED BY <1>2, <1>4

\* The task of a run is that of its only execution.
LEMMA TaskOfRunStep ==
    ASSUME PlaceInv, TaskOfRun, [Next]_vars
    PROVE  TaskOfRun'
<1>1. /\ TypeOK /\ BoundInv /\ OnePlace /\ SingleDispatch
      /\ exec \in [Slots -> ExecRecords] /\ tasks \in [Runs -> Slots \cup {None}]
      /\ \A s \in Slots : exec[s] \in ExecRecords
  BY DEF PlaceInv, BoundInv, TypeOK, ExecutionOK
<1>2. CASE Boot \/ Crash
  BY <1>2 DEF Boot, Crash, Fresh, TaskOfRun, Busy, NoExec
<1>3. ASSUME NEW s \in Slots, TaskFinally(s) PROVE TaskOfRun'
  <2>1. /\ exec' = [exec EXCEPT ![s] = NoExec] /\ s \in Busy
        /\ tasks' = [tasks EXCEPT ![exec[s].run] = None]
    BY <1>3 DEF TaskFinally, Busy
  <2>2. Busy' = Busy \ {s} /\ \A t \in Busy \ {s} : exec'[t] = exec[t]
    BY <1>1, <2>1 DEF Busy, NoExec
  <2>3. \A t \in Busy \ {s} : exec[t].run # exec[s].run
    BY <1>1, <2>1 DEF SingleDispatch
  <2>. QED BY <1>1, <2>1, <2>2, <2>3 DEF TaskOfRun
<1>4. CASE DrainContinue
  <2>1. drain.pc = "reading" /\ drain.id \in Runs
    BY <1>4 DEF DrainContinue, PlaceInv, EarlyInv, DrainReady
  <2>2. CASE UNCHANGED execution
    BY <2>2 DEF execution, TaskOfRun, Busy
  <2>3. ASSUME NEW s \in Slots \ Busy,
               exec' = [exec EXCEPT ![s] = [pc |-> "starting", run |-> drain.id,
                                            reg |-> drain.reg, aborted |-> FALSE]],
               tasks' = [tasks EXCEPT ![drain.id] = s]
        PROVE  TaskOfRun'
    <3>1. Busy' = Busy \cup {s} /\ \A t \in Busy : exec'[t] = exec[t]
      BY <1>1, <2>3 DEF Busy
    <3>2. exec'[s].run = drain.id
      BY <1>1, <2>3
    <3>3. \A t \in Busy : exec[t].run # drain.id
      <4>1. OneAt(drain.id) /\ "pump" \in Places /\ At(drain.id, "pump")
        BY <1>1, <2>1, AtPlaces DEF OnePlace, Places, Pumped
      <4>. QED BY <4>1, Alone DEF Executed
    <3>. QED BY <1>1, <2>1, <2>3, <3>1, <3>2, <3>3 DEF TaskOfRun
  <2>. QED BY <1>4, <2>2, <2>3 DEF DrainContinue
<1>5. CASE SameSlots /\ UNCHANGED tasks
  BY <1>5 DEF SameSlots, TaskOfRun, Busy
<1>. QED BY <1>1, <1>2, <1>3, <1>4, <1>5, SlotSteps, TaskSteps

\* Of the executions that the stop effect does not await, only one is not aborted.
LEMMA LooseOneStep ==
    ASSUME PlaceInv, TaskOfRun, LooseOne, StopAwaited, [Next]_vars
    PROVE  LooseOne'
<1>. USE DEF StopPast
<1>1. /\ TypeOK /\ BoundInv /\ StopStarted /\ stop \in StopRecords
      /\ exec \in [Slots -> ExecRecords] /\ tasks \in [Runs -> Slots \cup {None}]
      /\ \A s \in Slots : exec[s] \in ExecRecords
      /\ None \notin Slots
  BY RuntimeConstants DEF PlaceInv, BoundInv, TypeOK, ExecutionOK, PhaseOK
<1>2. CASE Boot \/ Crash
  BY <1>2 DEF Boot, Crash, Fresh, LooseOne
<1>3. CASE StopAbort
  <2>1. /\ exec' = Aborted(Runs) /\ stop' = [stop EXCEPT !.pc = "tasks", !.slots = TasksOf(Runs)]
    BY <1>3 DEF StopAbort
  <2>2. Busy' = Busy
    BY <1>1, <2>1 DEF Busy, Aborted, ExecRecords
  <2>3. \A s \in Busy : s \in TasksOf(Runs)
    BY <1>1 DEF TaskOfRun, TasksOf, Busy
  <2>4. stop'.slots = TasksOf(Runs)
    BY <1>1, <2>1 DEF StopRecords
  <2>. QED BY <2>2, <2>3, <2>4 DEF LooseOne, Loose
<1>4. CASE ~StopPast /\ ~Boot /\ ~Crash /\ ~StopAbort
  <2>1. ASSUME NEW s \in Slots, TaskFinally(s) PROVE stop'.pc = stop.pc
    BY <1>1, <2>1 DEF TaskFinally, StopRecords
  <2>2. ~StopPast'
    BY <1>1, <1>4, <2>1, StopSteps DEF StopBegin, StopTasks, StopEnd, StopRecords
  <2>. QED BY <2>2 DEF LooseOne
<1>5. CASE StopPast /\ ~Boot /\ ~Crash /\ ~StopAbort
  <2>1. stopped
    BY <1>1, <1>5 DEF StopStarted
  <2>2. ASSUME Loose' \subseteq Loose PROVE LooseOne'
    BY <1>5, <2>1, <2>2, NoReadBegins DEF LooseOne
  <2>3. ASSUME NEW s \in Slots, TaskFinally(s) PROVE LooseOne'
    <3>1. /\ exec' = [exec EXCEPT ![s] = NoExec]
          /\ stop'.slots = stop.slots \ {s}
      BY <1>1, <2>3 DEF TaskFinally, StopRecords
    <3>2. Busy' = Busy \ {s} /\ \A t \in Busy \ {s} : exec'[t] = exec[t]
      BY <1>1, <3>1 DEF Busy, NoExec
    <3>. QED BY <2>2, <3>1, <3>2 DEF Loose
  <2>4. CASE \A s \in Slots : ~TaskFinally(s)
    <3>1. stop.slots \subseteq stop'.slots
      BY <1>1, <1>5, <2>1, <2>4, StopSteps DEF StopBegin, StopTasks, StopEnd, StopRecords, stopped
    <3>2. CASE SameSlots
      <4>1. Busy' = Busy
        BY <3>2 DEF SameSlots, Busy
      <4>2. Loose' \subseteq Loose
        BY <3>1, <3>2, <4>1 DEF SameSlots, Loose, Busy
      <4>. QED BY <2>2, <4>2
    <3>3. CASE DrainContinue
      <4>1. drain.pc = "reading" /\ drain'.pc # "reading"
        BY <2>1, <3>3, NoReadBegins DEF DrainContinue
      <4>2. Loose = {}
        BY <1>5, <4>1 DEF LooseOne
      <4>3. CASE UNCHANGED execution
        BY <2>2, <3>1, <4>3 DEF execution, Loose, Busy
      <4>4. ASSUME NEW s \in Slots \ Busy, NEW e, exec' = [exec EXCEPT ![s] = e]
            PROVE  LooseOne'
        <5>1. \A t \in Busy' : t = s \/ (t \in Busy /\ exec'[t] = exec[t])
          BY <1>1, <4>4 DEF Busy
        <5>2. Loose' \subseteq {s}
          BY <3>1, <4>2, <5>1 DEF Loose
        <5>. QED BY <4>1, <5>2 DEF LooseOne
      <4>. QED BY <3>3, <4>3, <4>4 DEF DrainContinue
    <3>. QED BY <1>1, <1>5, <2>4, <3>2, <3>3, SlotSteps
  <2>. QED BY <2>3, <2>4
<1>. QED BY <1>2, <1>3, <1>4, <1>5

\* The stop effect does not abort and await every task (StopDrains is violated in run
\* runtime_stop), and what it misses is bounded: whatever the number of slots, no admission
\* is under way when it has ended, and of the executions at most one, which the pump began
\* from the read it had in flight, was not aborted.
THEOREM StopLeavesOne == Disposable = {} => (Spec => []StopLeaves)
<1>. SUFFICES ASSUME Disposable = {} PROVE Spec => []StopLeaves
  OBVIOUS
<1>1. Init => StopInv
  <2>1. Init => StopEnded /\ StopSettled /\ StopAwaited /\ LooseOne
    BY DEF Init, Fresh, StopEnded, StopSettled, StopAwaited, LooseOne, StopPast
  <2>2. Init => TaskOfRun
    BY DEF Init, Fresh, TaskOfRun, Busy, NoExec
  <2>. QED BY <2>1, <2>2, PlaceInit DEF StopInv
<1>2. StopInv /\ [Next]_vars => StopInv'
  <2>1. StopInv => TypeOK /\ StopStarted
    BY DEF StopInv, PlaceInv, BoundInv
  <2>. QED BY <2>1, PlaceStep, StopPhaseStep, TaskOfRunStep, LooseOneStep DEF StopInv
<1>3. StopInv => StopLeaves
  <2>. SUFFICES ASSUME StopInv, host = "stopped" PROVE StopLeaves
    BY DEF StopLeaves
  <2>1. StopPast /\ stop.slots = {} /\ Admitting = {}
    BY DEF StopInv, StopEnded, StopAwaited, StopSettled, StopPast
  <2>2. \A s, t \in {u \in Busy : ~exec[u].aborted} : s = t
    BY <2>1 DEF StopInv, LooseOne, Loose
  <2>3. CASE {u \in Busy : ~exec[u].aborted} = {}
    BY <2>1, <2>3, FS_EmptySet DEF StopLeaves
  <2>4. CASE {u \in Busy : ~exec[u].aborted} # {}
    <3>1. PICK s : {u \in Busy : ~exec[u].aborted} = {s}
      BY <2>2, <2>4
    <3>2. Cardinality({u \in Busy : ~exec[u].aborted}) = 1
      BY <3>1, FS_Singleton
    <3>. QED BY <2>1, <3>2 DEF StopLeaves
  <2>. QED BY <2>3, <2>4
<1>. QED BY <1>1, <1>2, <1>3, PTL DEF Spec

-----------------------------------------------------------------------------
(* The status moves along the documented edges.                            *)
(*                                                                         *)
(* The update of an execution says nothing of the status it finds, but for *)
(* a start: a late failure would also overwrite a completed run.  It does  *)
(* not, because a run that is being started is still queued or has been    *)
(* cancelled (StatusFits), wherever it waits for that, and an execution    *)
(* asks only for updates of its own run (UpdateOwn).  A recovery that      *)
(* finds another version overwrites what it finds: without a second        *)
(* version of the workflow there is none (NoExpiry), for a run keeps the   *)
(* version it was created with (VersionKept).  What Service.init fails is  *)
(* as it was when the host started (BootStatus, Quiet).                    *)

OneVersion ==
    \A g, h \in Registrations : WorkflowOf[g] = WorkflowOf[h] => VersionOf[g] = VersionOf[h]

Waits == {"queued", "cancelled"}
During(pc) ==
    CASE pc = "starting" -> Waits
      [] pc \in {"started", "body", "reviewing"} -> {"running", "cancelled"}
      [] pc \in {"refused", "failing"} -> {"queued", "running", "cancelled"}
      [] OTHER -> Status

Fits(r) ==
    /\ \A p \in Places \ {"execution"} : At(r, p) => run[r].status \in Waits
    /\ \A s \in Busy : exec[s].run = r => run[r].status \in During(exec[s].pc)
Silent(r) == mutations[r] = << >>

StatusFits  == \A r \in Runs : Fits(r)
UpdateOwn   ==
    \A r \in Runs : \A i \in 1 .. Len(mutations[r]) :
        mutations[r][i].kind \in ExecutionKinds => exec[mutations[r][i].by].run = r
NoExpiry    ==
    /\ \A g \in Registrations : recovery[g].pc # "failing"
    /\ \A r \in Runs : \A i \in 1 .. Len(mutations[r]) : mutations[r][i].kind # "expire"
VersionKept ==
    \A r \in Runs : Stored(r) => \E g \in Registrations : run[r].workflow = WorkflowOf[g]
                                                          /\ run[r].version = VersionOf[g]
Quiet       == \A r \in Runs : ~Stored(r) \/ r \in booting => Silent(r)
BootStatus  == \A r \in booting : run[r].status \in {"queued", "running"}

LegalInv ==
    PlaceInv /\ UpdateOwn /\ NoExpiry /\ VersionKept /\ Quiet /\ BootStatus /\ StatusFits

\* A recovery finds the version of its registration.
LEMMA NothingExpires ==
    ASSUME OneVersion, PlaceInv, VersionKept, NEW g \in Registrations, RecoverContinue(g)
    PROVE  UNCHANGED mutations /\ recovery'[g].pc # "failing"
<1>1. /\ TypeOK /\ OneDefined /\ recoverable \in SUBSET Runs
      /\ recovery \in [Registrations -> RecoveryRecords]
  BY DEF PlaceInv, BoundInv, TypeOK, PluginsOK, ScheduleOK
<1>2. PICK r \in Runs : r = recovery[g].id /\ Stored(r) /\ run[r].workflow = WorkflowOf[g]
  BY <1>1 DEF OneDefined, RecoverContinue
<1>3. run[r].version = VersionOf[g]
  BY <1>2 DEF VersionKept, OneVersion
<1>4. \/ recovery' = [recovery EXCEPT ![g] = [pc |-> "done", id |-> None, seen |-> "absent"]]
      \/ RecoverNext(g, recoverable') /\ recoverable' \subseteq recoverable
  <2>1. \A acc : ArmScheduledRun(r, acc, recoverable \ {r}) => recoverable' \subseteq recoverable
    BY DEF ArmScheduledRun, EnqueueRun
  <2>. QED BY <1>2, <1>3, <2>1 DEF RecoverContinue
<1>5. recovery'[g].pc # "failing"
  BY <1>1, <1>4, RecoverNextReads
<1>6. UNCHANGED mutations
  BY <1>2, <1>3 DEF RecoverContinue
<1>. QED BY <1>5, <1>6

\* Who asks for an update of r has it in hand, or is a user of a host that is up.
Asks(r, kind, c) ==
    /\ Mutate(r, kind, c) /\ kind # "expire"
    /\ ~Nowhere(r) \/ (up /\ Stored(r))
    /\ kind \in ExecutionKinds => c \in Slots /\ exec'[c].run = r

LEMMA AskSteps ==
    ASSUME Disposable = {}, OneVersion, PlaceInv, VersionKept, [Next]_vars
    PROVE  \/ UNCHANGED mutations
           \/ \E r \in Runs : Commits(r)
           \/ \E r \in Runs : \E kind, c : Asks(r, kind, c)
           \/ Boot \/ Crash
<1>. USE DEF vars, beyondPlugins, beyondHost
<1>1. /\ TypeOK /\ OneDefined /\ MutationsOK /\ exec \in [Slots -> ExecRecords]
      /\ \A s \in Slots : exec[s] \in ExecRecords
  BY DEF PlaceInv, BoundInv, TypeOK, ExecutionOK
<1>2. ASSUME NEW r \in Runs, RunStep(r)
      PROVE  \/ UNCHANGED mutations
             \/ Commits(r)
             \/ Asks(r, "cancel", "admission")
  <2>1. \/ UNCHANGED mutations \/ Commits(r)
        \/ AdmissionContinue(r) /\ Mutate(r, "cancel", "admission")
    BY <1>2 DEF RunStep, AdmissionContinue, CommitExecution, CommitCancel, CommitApproval,
       CommitExpiry, CancelContinue, TimerFires, ReleaseContinue, ReleaseFails, InitRun, Commits
  <2>2. AdmissionContinue(r) => ~Nowhere(r)
    BY AtPlaces DEF AdmissionContinue, Admitted, Nowhere, Places
  <2>. QED BY <2>1, <2>2 DEF Asks, ExecutionKinds
<1>3. ASSUME NEW s \in Slots, ExecutionStep(s) \/ BodyStep(s)
      PROVE  UNCHANGED mutations \/ \E r \in Runs : \E kind : Asks(r, kind, s)
  <2>1. CASE ExecBody(s) \/ ExecSettled(s) \/ TaskFinally(s)
    BY <2>1 DEF ExecBody, ExecSettled, TaskFinally
  <2>2. CASE ExecRefused(s) \/ ExecUnread(s) \/ BodyFails(s) \/ BodyReturns(s)
    <3>1. PICK kind \in {"fail", "review"} : Mutate(exec[s].run, kind, s)
      BY <2>2 DEF ExecRefused, ExecUnread, BodyFails, BodyReturns, ExecCatch
    <3>2. exec[s].pc # "idle" /\ exec'[s].run = exec[s].run
      BY <1>1, <2>2 DEF ExecRefused, ExecUnread, BodyFails, BodyReturns, ExecCatch, ExecStep,
         ExecRecords
    <3>3. CASE exec[s].run \in Runs
      <4>1. ~Nowhere(exec[s].run)
        BY <3>2, AtPlaces DEF Nowhere, Places, Executed, Busy
      <4>. QED BY <3>1, <3>2, <3>3, <4>1 DEF Asks
    <3>4. CASE exec[s].run \notin Runs
      BY <1>1, <3>1, <3>4 DEF Mutate, MutationsOK
    <3>. QED BY <3>3, <3>4
  <2>. QED BY <1>3, <2>1, <2>2 DEF ExecutionStep, BodyStep
<1>4. ASSUME NEW g \in Registrations, PluginStep(g) PROVE UNCHANGED mutations
  <2>1. CASE RecoverContinue(g)
    BY <2>1, NothingExpires
  <2>. QED BY <1>1, <1>4, <2>1, NoDisposal DEF PluginStep, RecoverResume, RecoverFails,
              DisposeResume, DisposeDrained
<1>5. ASSUME HostStep
      PROVE  UNCHANGED mutations \/ Boot \/ \E r \in Runs : \E kind, c : Asks(r, kind, c)
  <2>1. CASE DrainContinue
    <3>1. drain.id \in Runs /\ drain.pc = "reading"
      BY <2>1 DEF DrainContinue, PlaceInv, EarlyInv, DrainReady
    <3>2. ~Nowhere(drain.id)
      BY <3>1, AtPlaces DEF Nowhere, Places, Pumped
    <3>3. ASSUME NEW s \in Slots \ Busy, Mutate(drain.id, "start", s),
                 exec' = [exec EXCEPT ![s] = [pc |-> "starting", run |-> drain.id,
                                              reg |-> drain.reg, aborted |-> FALSE]]
          PROVE  Asks(drain.id, "start", s)
      BY <1>1, <3>2, <3>3 DEF Asks
    <3>. QED BY <2>1, <3>1, <3>3 DEF DrainContinue
  <2>. QED BY <1>5, <2>1 DEF HostStep, DrainFails, DrainFinally, StopAbort, StopTasks, StopEnd,
              InitDone
<1>6. ASSUME Environment
      PROVE  UNCHANGED mutations \/ Crash \/ \E r \in Runs : \E kind, c : Asks(r, kind, c)
  <2>1. ASSUME NEW r \in Runs, NEW g \in Registrations, NEW at \in Schedules, Start(r, g, at)
        PROVE  UNCHANGED mutations
    BY <2>1 DEF Start
  <2>2. ASSUME NEW r \in Runs, NEW kind \in {"cancel", "approve", "reject"}, UserCommand(r, kind)
        PROVE  Asks(r, kind, "user")
    BY <2>2 DEF UserCommand, Accepts, Asks, Live, Stored, ExecutionKinds
  <2>. QED BY <1>6, <2>1, <2>2 DEF Environment, Cancel, Review, Register, Dispose, StopBegin
<1>. QED BY <1>2, <1>3, <1>4, <1>5, <1>6 DEF Next, Tick

\* What a step adds to a chain, it was asked for.
LEMMA AskedEntry ==
    ASSUME Disposable = {}, OneVersion, PlaceInv, VersionKept, [Next]_vars,
           NEW r \in Runs, NEW i \in 1 .. Len(mutations'[r])
    PROVE  \/ \E j \in 1 .. Len(mutations[r]) : mutations'[r][i] = mutations[r][j]
           \/ \E kind, c : mutations'[r][i] = [kind |-> kind, by |-> c] /\ Asks(r, kind, c)
<1>1. TypeOK /\ MutationsOK
  BY DEF PlaceInv, BoundInv, TypeOK
<1>2. ASSUME NEW q \in Runs, NEW kind, NEW c, Asks(q, kind, c)
      PROVE  \/ \E j \in 1 .. Len(mutations[r]) : mutations'[r][i] = mutations[r][j]
             \/ mutations'[r][i] = [kind |-> kind, by |-> c] /\ Asks(r, kind, c)
  <2> DEFINE m == [kind |-> kind, by |-> c]
  <2>1. mutations' = [mutations EXCEPT ![q] = Append(@, m)]
    BY <1>2 DEF Asks, Mutate
  <2> HIDE DEF m
  <2>2. \/ \E j \in 1 .. Len(mutations[r]) : mutations'[r][i] = mutations[r][j]
        \/ r = q /\ mutations'[r][i] = m
    BY <1>1, <2>1, ChainedEntry
  <2>. QED BY <1>2, <2>2 DEF m
<1>3. ASSUME NEW q \in Runs, Commits(q)
      PROVE  \E j \in 1 .. Len(mutations[r]) : mutations'[r][i] = mutations[r][j]
  BY <1>1, <1>3, CommittedEntry
<1>4. CASE UNCHANGED mutations
  BY <1>4
<1>5. ~Boot /\ ~Crash
  BY DEF Boot, Crash, Fresh
<1>. QED BY <1>2, <1>3, <1>4, <1>5, AskSteps

\* The updates of an execution are of its run.
LEMMA UpdateOwnStep ==
    ASSUME Disposable = {}, OneVersion, LegalInv, [Next]_vars
    PROVE  UpdateOwn'
<1>1. /\ BoundInv /\ TypeOK /\ MutationsOK /\ exec \in [Slots -> ExecRecords]
      /\ PlaceInv /\ VersionKept /\ UpdateOwn
  BY DEF LegalInv, PlaceInv, BoundInv, TypeOK, ExecutionOK
<1>. SUFFICES ASSUME NEW r \in Runs, NEW i \in 1 .. Len(mutations'[r]),
                     mutations'[r][i].kind \in ExecutionKinds
              PROVE  exec'[mutations'[r][i].by].run = r
  BY DEF UpdateOwn
<1>2. CASE \E kind, c : mutations'[r][i] = [kind |-> kind, by |-> c] /\ Asks(r, kind, c)
  BY <1>2 DEF Asks
<1>3. ASSUME NEW j \in 1 .. Len(mutations[r]), mutations'[r][i] = mutations[r][j]
      PROVE  exec'[mutations'[r][i].by].run = r
  <2>1. PICK m : m = mutations[r][j]
    OBVIOUS
  <2>2. PICK t : t = m.by
    OBVIOUS
  <2>3. m \in Mutations /\ m.kind \in ExecutionKinds
    BY <1>1, <1>3, <2>1 DEF MutationsOK
  <2>4. t \in Slots
    BY <2>2, <2>3 DEF Mutations, ExecutionKinds, Kinds
  <2>5. exec[t].run = r /\ exec[t].pc = Awaits(m.kind)
    BY <1>1, <2>1, <2>2, <2>3 DEF UpdateOwn, BoundInv, UpdateAwaited
  <2>6. exec[t].pc \notin {"idle", "closing"}
    BY <2>3, <2>5 DEF Awaits
  <2>7. exec'[t].run = exec[t].run
    <3>1. CASE DrainContinue
      BY <1>1, <2>4, <2>6, <3>1 DEF DrainContinue, execution, Busy
    <3>2. ASSUME NEW s \in Slots, TaskFinally(s) PROVE exec'[t].run = exec[t].run
      BY <1>1, <2>4, <2>6, <3>2 DEF TaskFinally
    <3>3. ~Boot /\ ~Crash
      BY DEF Boot, Crash, Fresh
    <3>. QED BY <1>1, <2>4, <3>1, <3>2, <3>3, SlotSteps DEF SameSlots
  <2>. QED BY <1>3, <2>1, <2>2, <2>5, <2>7
<1>. QED BY <1>1, <1>2, <1>3, AskedEntry

\* No run is failed for its version.
LEMMA NoExpiryStep ==
    ASSUME Disposable = {}, OneVersion, LegalInv, [Next]_vars
    PROVE  NoExpiry'
<1>1. /\ PlaceInv /\ VersionKept /\ NoExpiry /\ TypeOK /\ MutationsOK
      /\ recovery \in [Registrations -> RecoveryRecords] /\ recoverable \in SUBSET Runs
      /\ \A g \in Registrations : recovery[g] \in RecoveryRecords
  BY DEF LegalInv, PlaceInv, BoundInv, TypeOK, PluginsOK, ScheduleOK
<1>2. ASSUME NEW r \in Runs, NEW i \in 1 .. Len(mutations'[r])
      PROVE  mutations'[r][i].kind # "expire"
  <2>1. CASE \E j \in 1 .. Len(mutations[r]) : mutations'[r][i] = mutations[r][j]
    BY <1>1, <2>1 DEF NoExpiry
  <2>2. CASE \E kind, c : mutations'[r][i] = [kind |-> kind, by |-> c] /\ Asks(r, kind, c)
    BY <2>2 DEF Asks
  <2>. QED BY <1>1, <1>2, <2>1, <2>2, AskedEntry
<1>3. ASSUME NEW g \in Registrations
      PROVE  recovery'[g].pc # "failing"
  <2>1. ASSUME NEW h \in Registrations, RecoverNext(h, recoverable) PROVE recovery'[g].pc # "failing"
    <3>1. recovery'[h].pc # "failing" /\ \A k \in Registrations \ {h} : recovery'[k] = recovery[k]
      BY <1>1, <2>1, RecoverNextReads
    <3>. QED BY <1>1, <3>1 DEF NoExpiry
  <2>2. ASSUME NEW h \in Registrations, RecoverContinue(h) PROVE recovery'[g].pc # "failing"
    <3>1. recovery'[h].pc # "failing"
      BY <1>1, <2>2, NothingExpires
    <3>2. \A k \in Registrations \ {h} : recovery'[k] = recovery[k]
      BY <1>1, <2>2 DEF RecoverContinue, RecoverNext
    <3>. QED BY <1>1, <3>1, <3>2 DEF NoExpiry
  <2>3. ASSUME NEW h, NEW pc \in {"next", "rejected"}, recovery' = [recovery EXCEPT ![h].pc = pc]
        PROVE  recovery'[g].pc # "failing"
    BY <1>1, <2>3 DEF NoExpiry, RecoveryRecords
  <2>4. CASE UNCHANGED recovery \/ Boot \/ Crash
    BY <1>1, <2>4 DEF NoExpiry, Boot, Crash, Fresh, NoRecovery
  <2>. QED BY <1>1, <2>1, <2>2, <2>3, <2>4, RegistrationSteps, NoDisposal
           DEF RecoverResume, RecoverFails, CommitExpiry, Register, PlaceInv
<1>. QED BY <1>2, <1>3 DEF NoExpiry

\* What changes the status of a run.
LEMMA StatusSteps ==
    ASSUME TypeOK, [Next]_vars, NEW r \in Runs, run'[r].status # run[r].status
    PROVE  \/ CommitExecution(r) \/ CommitCancel(r) \/ CommitApproval(r) \/ CommitExpiry(r)
           \/ InitRun(r)
           \/ \E g \in Registrations, at \in Schedules : Start(r, g, at)
<1>. USE DEF vars, beyondPlugins, beyondHost, durable
<1>1. run \in [Runs -> RunRecords]
  BY DEF TypeOK, DurableOK
<1>2. ASSUME NEW q \in Runs, NEW status,
             run' = [run EXCEPT ![q].status = status] \/ UNCHANGED run
      PROVE  q = r
  BY <1>1, <1>2
<1>3. ASSUME NEW q \in Runs, RunStep(q)
      PROVE  \/ CommitExecution(r) \/ CommitCancel(r) \/ CommitApproval(r) \/ CommitExpiry(r)
             \/ InitRun(r)
  <2>1. CASE CommitExecution(q) \/ CommitCancel(q) \/ CommitApproval(q) \/ CommitExpiry(q)
    <3>1. Commits(q)
      BY <2>1 DEF CommitExecution, CommitCancel, CommitApproval, CommitExpiry, Commits
    <3>2. \/ UNCHANGED run
          \/ run' = [run EXCEPT ![q].status = Result(Head(mutations[q]).kind, run[q].status)]
      BY <3>1 DEF Commits, Committing
    <3>. QED BY <1>2, <2>1, <3>2
  <2>2. CASE InitRun(q)
    <3>1. run' = [run EXCEPT ![q].status = "failed"] \/ UNCHANGED run
      BY <2>2 DEF InitRun
    <3>. QED BY <1>2, <2>2, <3>1
  <2>3. CASE UNCHANGED run
    BY <2>3
  <2>. QED BY <1>3, <2>1, <2>2, <2>3 DEF RunStep, AdmissionContinue, CancelContinue, TimerFires,
              ReleaseContinue, ReleaseFails
<1>4. ASSUME NEW q \in Runs, NEW g \in Registrations, NEW at \in Schedules, Start(q, g, at)
      PROVE  Start(r, g, at)
  BY <1>1, <1>4 DEF Start
<1>5. ASSUME NEW s \in Slots, ExecutionStep(s) \/ BodyStep(s) PROVE FALSE
  BY <1>5 DEF ExecutionStep, BodyStep, ExecBody, ExecRefused, ExecUnread, ExecSettled,
     TaskFinally, BodyReturns, BodyFails, ExecStep, ExecCatch
<1>6. ASSUME NEW g \in Registrations, PluginStep(g) PROVE FALSE
  BY <1>6 DEF PluginStep, RecoverContinue, RecoverResume, DisposeAdmitted,
     DisposeContinue, DisposeResume, DisposeDrained, RecoverFails, DisposeFails
<1>7. ~HostStep
  BY DEF HostStep, DrainContinue, DrainFails, DrainFinally, StopAbort, StopTasks, StopEnd,
     Boot, InitDone
<1>8. ASSUME Environment
      PROVE  \E g \in Registrations, at \in Schedules : Start(r, g, at)
  <2>1. ASSUME NEW q \in Runs, Cancel(q) \/ Review(q) PROVE FALSE
    BY <2>1 DEF Cancel, Review, UserCommand
  <2>2. ASSUME NEW g \in Registrations, Register(g) \/ Dispose(g) PROVE FALSE
    BY <2>2 DEF Register, Dispose
  <2>. QED BY <1>4, <1>8, <2>1, <2>2 DEF Environment, StopBegin, Crash
<1>. QED BY <1>3, <1>5, <1>6, <1>7, <1>8 DEF Next, Tick

\* A run that is not stored yet, or that Service.init has still to look at, is not updated.
LEMMA QuietStep ==
    ASSUME Disposable = {}, OneVersion, LegalInv, [Next]_vars
    PROVE  Quiet' /\ BootStatus' /\ VersionKept'
<1>. USE DEF vars, beyondPlugins, beyondHost, durable
<1>1. /\ PlaceInv /\ VersionKept /\ Quiet /\ BootStatus /\ TypeOK /\ MutationsOK
      /\ AbsentNowhere /\ InitBoots /\ StopStarted /\ run \in [Runs -> RunRecords]
  BY DEF LegalInv, PlaceInv, BoundInv, TypeOK, DurableOK
<1>2. CASE Boot \/ Crash
  <2>1. UNCHANGED run /\ mutations' = [r \in Runs |-> << >>]
    BY <1>2 DEF Boot, Crash, Fresh
  <2>2. Quiet' /\ VersionKept'
    BY <1>1, <2>1 DEF Quiet, Silent, VersionKept, Stored
  <2>3. BootStatus'
    BY <1>2 DEF BootStatus, Boot, Crash
  <2>. QED BY <2>2, <2>3
<1>3. CASE ~Boot /\ ~Crash
  <2>1. booting' \subseteq booting /\ \A r \in Runs : Stored(r) => Stored(r)'
    BY <1>1, <1>3, BootingSteps, StoredKept
  <2>2. ASSUME NEW r \in Runs, Silent(r) PROVE \A ok \in BOOLEAN : ~Committing(r, ok)
    BY <2>2 DEF Silent, Committing
  <2>3. ASSUME NEW r \in Runs, ~Stored(r)' \/ r \in booting' PROVE Silent(r)'
    <3>1. (~Stored(r) \/ r \in booting) /\ Silent(r) /\ Nowhere(r) /\ ~(up /\ Stored(r))
      BY <1>1, <2>1, <2>3 DEF Quiet, AbsentNowhere, InitBoots, up
    <3>2. ASSUME NEW q \in Runs, Commits(q) PROVE Silent(r)'
      BY <1>1, <2>2, <3>1, <3>2 DEF Commits, Committing, Silent, MutationsOK
    <3>3. ASSUME NEW q \in Runs, NEW kind, NEW c, Asks(q, kind, c) PROVE Silent(r)'
      <4>1. q # r
        BY <3>1, <3>3 DEF Asks
      <4>. QED BY <1>1, <3>1, <3>3, <4>1 DEF Asks, Mutate, Silent, MutationsOK
    <3>4. CASE UNCHANGED mutations
      BY <3>1, <3>4 DEF Silent
    <3>. QED BY <1>1, <1>3, <3>2, <3>3, <3>4, AskSteps
  <2>4. ASSUME NEW r \in Runs, r \in booting' PROVE run'[r].status = run[r].status
    <3>1. ~CommitExecution(r) /\ ~CommitCancel(r) /\ ~CommitApproval(r) /\ ~CommitExpiry(r)
      BY <1>1, <2>1, <2>2, <2>4
         DEF Quiet, CommitExecution, CommitCancel, CommitApproval, CommitExpiry
    <3>2. ~InitRun(r) /\ \A g \in Registrations, at \in Schedules : ~Start(r, g, at)
      BY <1>1, <2>1, <2>4 DEF InitRun, Start, InitBoots
    <3>. QED BY <1>1, <3>1, <3>2, StatusSteps
  <2>5. BootStatus'
    <3>1. booting \in SUBSET Runs
      BY <1>1 DEF TypeOK, PhaseOK
    <3>. QED BY <1>1, <2>1, <2>4, <3>1 DEF BootStatus
  <2>6. ASSUME NEW r \in Runs, Stored(r)'
        PROVE  \E g \in Registrations : run'[r].workflow = WorkflowOf[g]
                                        /\ run'[r].version = VersionOf[g]
    <3>1. CASE Stored(r)
      BY <1>1, <3>1, StoredKept DEF VersionKept, SameOrder
    <3>2. CASE ~Stored(r)
      <4>1. ~CommitExecution(r) /\ ~CommitCancel(r) /\ ~CommitApproval(r) /\ ~CommitExpiry(r)
        BY <1>1, <2>2, <3>2
           DEF Quiet, CommitExecution, CommitCancel, CommitApproval, CommitExpiry
      <4>2. ~InitRun(r)
        BY <1>1, <3>2 DEF InitRun, BootStatus, Stored
      <4>3. PICK g \in Registrations, at \in Schedules : Start(r, g, at)
        BY <1>1, <2>6, <3>2, <4>1, <4>2, StatusSteps DEF Stored
      <4>. QED BY <1>1, <4>3 DEF Start
    <3>. QED BY <3>1, <3>2
  <2>. QED BY <2>3, <2>5, <2>6 DEF Quiet, VersionKept
<1>. QED BY <1>2, <1>3

\* A run that a step brings to a place was somewhere else than in an execution, or enters.
LEMMA PlaceFrom ==
    ASSUME Disposable = {}, PlaceInv, TypeOK', [Next]_vars,
           NEW r \in Runs, NEW p \in Places \ {"execution"}, At(r, p)'
    PROVE  \/ \E q \in Places \ {"execution"} : At(r, q)
           \/ run'[r].status = "queued"
<1>1. /\ BoundInv /\ TypeOK /\ exec \in [Slots -> ExecRecords]
      /\ \A s \in Slots : exec[s] \in ExecRecords
  BY DEF PlaceInv, BoundInv, TypeOK, ExecutionOK
<1>2. CASE Stays(r)
  BY <1>2 DEF Stays
<1>3. CASE OneAt(r)' /\ ~Nowhere(r)
  <2>1. ~Executed(r)'
    BY <1>3 DEF OneAt, At, Places
  <2>2. CASE Executed(r)
    <3>1. ASSUME NEW s \in Slots, TaskFinally(s) PROVE Stays(r)
      BY <3>1, TaskMoves
    <3>2. ~SameSlots
      BY <2>1, <2>2, SameExecuted
    <3>3. ~Boot /\ ~Crash
      <4>1. Vanish => ~At(r, p)'
        BY DEF Vanish, Nowhere
      <4>. QED BY <4>1, FreshVanish
    <3>4. ~DrainContinue
      <4>1. ASSUME DrainContinue PROVE \A t \in Busy : exec'[t] = exec[t]
        BY <1>1, <4>1 DEF DrainContinue, execution, Busy
      <4>. QED BY <2>1, <2>2, <4>1 DEF Executed, Busy
    <3>. QED BY <1>1, <1>2, <3>1, <3>2, <3>3, <3>4, SlotSteps
  <2>3. CASE ~Executed(r)
    BY <1>3, <2>3, AtPlaces DEF Nowhere
  <2>. QED BY <2>2, <2>3
<1>4. CASE Vanish
  BY <1>4 DEF Vanish, Nowhere
<1>5. CASE Arrives(r)
  BY <1>5 DEF Arrives
<1>. QED BY <1>2, <1>3, <1>4, <1>5, PlacesStep DEF Moves, Arrives

\* What the steps below ask of the one run they are about: it is executed once at a time,
\* as its status says, and neither a recovery nor Service.init overwrites it.
Orderly(r) ==
    /\ Fits(r)
    /\ \A s, t \in Busy : exec[s].run = r /\ exec[t].run = r => s = t
    /\ \A i \in 1 .. Len(mutations[r]) : mutations[r][i].kind # "expire"
    /\ Executed(r) => Stored(r)
    /\ r \in booting => Nowhere(r)

LEMMA LegalOrderly ==
    ASSUME LegalInv, NEW r \in Runs
    PROVE  Orderly(r) /\ BoundInv /\ TypeOK /\ UpdateOwn /\ BootStatus
<1>1. /\ BoundInv /\ TypeOK /\ UpdateOwn /\ BootStatus /\ StatusFits /\ NoExpiry
      /\ SingleDispatch /\ AbsentNowhere
  BY DEF LegalInv, PlaceInv, BoundInv
<1>2. Fits(r) /\ (r \in booting => Nowhere(r)) /\ (Executed(r) => Stored(r))
  BY <1>1, AtPlaces DEF StatusFits, AbsentNowhere, Nowhere, Places
<1>3. \A s, t \in Busy : exec[s].run = r /\ exec[t].run = r => s = t
  BY <1>1 DEF SingleDispatch
<1>. QED BY <1>1, <1>2, <1>3 DEF NoExpiry, Orderly

\* The execution whose update commits: it is that of the run, and waits for it.
LEMMA ExecutionCommits ==
    ASSUME BoundInv, UpdateOwn, NEW r \in Runs, CommitExecution(r)
    PROVE  \E s \in Busy, kind \in ExecutionKinds, ok \in BOOLEAN :
              /\ exec[s].run = r /\ exec[s].pc = Awaits(kind)
              /\ exec' = [exec EXCEPT ![s].pc = Told(kind, ok)]
              /\ ok => Accepts(kind, run[r].status)
              /\ run' = IF ok THEN [run EXCEPT ![r].status = Result(kind, @)] ELSE run
<1>1. /\ BoundInv /\ TypeOK /\ UpdateOwn
      /\ mutations[r] \in Seq(Mutations) /\ mutations[r] # << >>
  BY DEF BoundInv, TypeOK, MutationsOK, CommitExecution, Committing
<1>2. PICK m : m = Head(mutations[r])
  OBVIOUS
<1>3. m \in Mutations /\ m = mutations[r][1] /\ 1 \in 1 .. Len(mutations[r])
  BY <1>1, <1>2, HeadTailProperties
<1>4. m.kind \in ExecutionKinds
  BY <1>2 DEF CommitExecution
<1>5. m.by \in Slots /\ exec[m.by].run = r /\ exec[m.by].pc = Awaits(m.kind)
  BY <1>1, <1>3, <1>4 DEF Mutations, ExecutionKinds, Kinds, UpdateOwn, BoundInv, UpdateAwaited
<1>6. m.by \in Busy
  BY <1>4, <1>5 DEF Busy, Awaits
<1>7. PICK ok \in BOOLEAN : /\ Committing(r, ok)
                            /\ exec' = [exec EXCEPT ![m.by].pc = Told(m.kind, ok)]
  BY <1>2 DEF CommitExecution
<1>8. /\ ok => Accepts(m.kind, run[r].status)
      /\ run' = IF ok THEN [run EXCEPT ![r].status = Result(m.kind, @)] ELSE run
  BY <1>2, <1>7 DEF Committing
<1>. QED BY <1>4, <1>5, <1>6, <1>7, <1>8

\* What the other updates make of a run.
LEMMA OtherCommits ==
    ASSUME TypeOK, NEW r \in Runs, run'[r].status # run[r].status,
           CommitCancel(r) \/ CommitApproval(r)
    PROVE  \/ run[r].status \in Live /\ run'[r].status = "cancelled"
           \/ run[r].status = "review" /\ run'[r].status = "completed"
<1>1. PICK ok \in BOOLEAN : Committing(r, ok)
  BY DEF CommitCancel, CommitApproval
<1>2. PICK kind : kind = Head(mutations[r]).kind
  OBVIOUS
<1>3. kind \in {"cancel", "reject", "approve"}
  BY <1>2 DEF CommitCancel, CommitApproval, CancelKinds
<1>4. /\ ok => Accepts(kind, run[r].status)
      /\ run' = IF ok THEN [run EXCEPT ![r].status = Result(kind, @)] ELSE run
  BY <1>1, <1>2 DEF Committing
<1>5. ok /\ run'[r].status = Result(kind, run[r].status)
  BY <1>4 DEF TypeOK, DurableOK, RunRecords
<1>. QED BY <1>3, <1>4, <1>5 DEF Accepts, Result, Outcome, Live

LEMMA NotExpired ==
    ASSUME TypeOK, NEW r \in Runs, Orderly(r)
    PROVE  ~CommitExpiry(r)
<1>1. ASSUME CommitExpiry(r) PROVE FALSE
  <2>1. mutations[r] \in Seq(Mutations) /\ mutations[r] # << >>
    BY <1>1 DEF CommitExpiry, Committing, TypeOK, MutationsOK
  <2>2. Head(mutations[r]) = mutations[r][1] /\ 1 \in 1 .. Len(mutations[r])
    BY <2>1
  <2>. QED BY <1>1, <2>2 DEF Orderly, CommitExpiry
<1>. QED BY <1>1

\* A run that waits for its start keeps the status it waits with.
LEMMA WaitsKept ==
    ASSUME BoundInv, UpdateOwn, [Next]_vars, NEW r \in Runs, Orderly(r), ~Executed(r),
           NEW p \in Places \ {"execution"}, At(r, p)
    PROVE  run'[r].status \in Waits
<1>1. TypeOK /\ run[r].status \in Waits
  BY DEF BoundInv, Orderly, Fits
<1>2. CASE run'[r].status = run[r].status
  BY <1>1, <1>2
<1>3. CASE run'[r].status # run[r].status
  <2>1. ~CommitExecution(r)
    BY ExecutionCommits DEF Executed
  <2>2. ~CommitExpiry(r)
    BY <1>1, NotExpired
  <2>3. ~InitRun(r)
    BY DEF InitRun, Orderly, Nowhere
  <2>4. ASSUME NEW g \in Registrations, NEW at \in Schedules, Start(r, g, at)
        PROVE  run'[r].status \in Waits
    BY <1>1, <2>4 DEF Start, Waits, TypeOK, DurableOK
  <2>5. ASSUME CommitCancel(r) \/ CommitApproval(r) PROVE run'[r].status \in Waits
    BY <1>1, <1>3, <2>5, OtherCommits DEF Waits
  <2>. QED BY <1>1, <1>3, <2>1, <2>2, <2>3, <2>4, <2>5, StatusSteps
<1>. QED BY <1>2, <1>3

LEMMA WaitsStep ==
    ASSUME Disposable = {}, LegalInv, TypeOK', [Next]_vars,
           NEW r \in Runs, NEW p \in Places \ {"execution"}, At(r, p)'
    PROVE  run'[r].status \in Waits
<1>1. /\ PlaceInv /\ BoundInv /\ UpdateOwn /\ Orderly(r) /\ OneAt(r)
  BY LegalOrderly DEF LegalInv, PlaceInv, OnePlace
<1>2. CASE run'[r].status = "queued"
  BY <1>2 DEF Waits
<1>3. ASSUME NEW q \in Places \ {"execution"}, At(r, q) PROVE run'[r].status \in Waits
  <2>1. ~Executed(r)
    BY <1>1, <1>3, Alone
  <2>. QED BY <1>1, <1>3, <2>1, WaitsKept
<1>. QED BY <1>1, <1>2, <1>3, PlaceFrom

\* What a step of an execution itself may do to its phase.
LEMMA PhaseFollows ==
    ASSUME TypeOK, NEW s \in Slots, ExecutionStep(s) \/ BodyStep(s), ~TaskFinally(s)
    PROVE  /\ UNCHANGED run
           /\ \A t \in Slots \ {s} : exec'[t] = exec[t]
           /\ exec'[s].run = exec[s].run
           /\ During(exec[s].pc) \subseteq During(exec'[s].pc)
<1>1. exec \in [Slots -> ExecRecords] /\ exec[s] \in ExecRecords
  BY DEF TypeOK, ExecutionOK
<1>2. CASE ExecBody(s) \/ BodyReturns(s) \/ ExecSettled(s)
  BY <1>1, <1>2 DEF ExecBody, BodyReturns, ExecSettled, ExecStep, ExecRecords, During, durable
<1>3. CASE ExecRefused(s) \/ ExecUnread(s) \/ BodyFails(s)
  <2>1. /\ exec[s].pc \in {"refused", "started", "body"} /\ UNCHANGED run
        /\ exec'[s].pc = "failing" /\ exec'[s].run = exec[s].run
        /\ \A t \in Slots \ {s} : exec'[t] = exec[t]
    BY <1>1, <1>3 DEF ExecRefused, ExecUnread, BodyFails, ExecCatch, ExecRecords, durable
  <2>. QED BY <2>1 DEF During
<1>. QED BY <1>2, <1>3 DEF ExecutionStep, BodyStep

\* An execution and the status of its run agree.
LEMMA DuringStep ==
    ASSUME BoundInv, UpdateOwn, TypeOK', [Next]_vars, NEW r \in Runs, Orderly(r),
           NEW s \in Busy', exec'[s].run = r
    PROVE  run'[r].status \in During(exec'[s].pc)
<1>1. /\ BoundInv /\ TypeOK /\ UpdateOwn /\ Fits(r) /\ MutationsOK /\ run \in [Runs -> RunRecords]
      /\ exec \in [Slots -> ExecRecords] /\ \A t \in Slots : exec[t] \in ExecRecords
  BY DEF Orderly, BoundInv, TypeOK, ExecutionOK, DurableOK
<1>2. s \in Slots /\ exec'[s].pc # "idle"
  BY DEF Busy
<1>3. ~Boot /\ ~Crash
  BY <1>2 DEF Boot, Crash, Fresh, NoExec
<1>4. CASE DrainContinue
  <2>1. UNCHANGED run /\ drain.pc = "reading"
    BY <1>4 DEF DrainContinue, durable
  <2>2. CASE s \in Busy
    <3>1. exec'[s] = exec[s]
      BY <1>1, <1>4, <2>2 DEF DrainContinue, execution, Busy
    <3>. QED BY <1>1, <2>1, <2>2, <3>1 DEF Fits
  <2>3. CASE s \notin Busy
    <3>1. exec'[s] = [pc |-> "starting", run |-> drain.id, reg |-> drain.reg, aborted |-> FALSE]
      BY <1>1, <1>2, <1>4, <2>3 DEF DrainContinue, execution, Busy
    <3>2. At(r, "pump") /\ "pump" \in Places \ {"execution"}
      BY <2>1, <3>1, AtPlaces DEF Pumped, Places
    <3>. QED BY <1>1, <2>1, <3>1, <3>2 DEF Fits, During
  <2>. QED BY <2>2, <2>3
<1>5. ASSUME NEW t \in Slots, TaskFinally(t) PROVE run'[r].status \in During(exec'[s].pc)
  <2>1. UNCHANGED run /\ exec' = [exec EXCEPT ![t] = NoExec]
    BY <1>5 DEF TaskFinally, durable
  <2>2. s # t /\ exec'[s] = exec[s]
    BY <1>1, <1>2, <2>1 DEF NoExec
  <2>. QED BY <1>1, <1>2, <2>1, <2>2 DEF Fits, Busy
<1>6. CASE SameSlots /\ (\A t \in Slots : ~TaskFinally(t)) /\ ~DrainContinue
  <2>1. s \in Busy /\ exec[s].run = r /\ Executed(r) /\ run[r].status \in During(exec[s].pc)
    BY <1>1, <1>2, <1>6 DEF SameSlots, Busy, Executed, Fits
  <2>2. CASE CommitExecution(r)
    <3>1. PICK t \in Busy, kind \in ExecutionKinds, ok \in BOOLEAN :
             /\ exec[t].run = r /\ exec[t].pc = Awaits(kind)
             /\ exec' = [exec EXCEPT ![t].pc = Told(kind, ok)]
             /\ ok => Accepts(kind, run[r].status)
             /\ run' = IF ok THEN [run EXCEPT ![r].status = Result(kind, @)] ELSE run
      BY <2>2, ExecutionCommits
    <3>2. t = s
      BY <2>1, <3>1 DEF Orderly
    <3>3. exec'[s].pc = Told(kind, ok)
      BY <1>1, <1>2, <3>1, <3>2 DEF ExecRecords
    <3>4. run'[r].status = IF ok THEN Result(kind, run[r].status) ELSE run[r].status
      BY <1>1, <3>1 DEF RunRecords
    <3>5. run[r].status \in During(Awaits(kind)) /\ run'[r].status \in Status
      BY <2>1, <3>1, <3>2 DEF TypeOK, DurableOK, RunRecords
    <3>6. CASE kind = "start"
      BY <3>1, <3>3, <3>4, <3>5, <3>6 DEF During, Awaits, Told, Accepts, Result, Outcome, Waits
    <3>7. CASE kind \in {"review", "fail"}
      BY <3>3, <3>4, <3>5, <3>7 DEF During, Awaits, Told
    <3>. QED BY <3>6, <3>7 DEF ExecutionKinds
  <2>3. ASSUME ~CommitExecution(r), exec'[s].pc = exec[s].pc
        PROVE  run'[r].status \in During(exec'[s].pc)
    <3>1. CASE run'[r].status = run[r].status
      BY <2>1, <2>3, <3>1
    <3>2. CASE run'[r].status # run[r].status
      <4>1. ~CommitExpiry(r)
        BY <1>1, NotExpired
      <4>2. Stored(r) /\ r \notin booting
        BY <2>1, AtPlaces DEF Orderly, Nowhere, Places
      <4>3. ~InitRun(r) /\ \A g \in Registrations, at \in Schedules : ~Start(r, g, at)
        BY <4>2 DEF InitRun, Start, Stored
      <4>4. CommitCancel(r) \/ CommitApproval(r)
        BY <1>1, <2>3, <3>2, <4>1, <4>3, StatusSteps
      <4>. QED BY <1>1, <2>1, <2>3, <3>2, <4>4, OtherCommits DEF During, Waits, Status
    <3>. QED BY <3>1, <3>2
  <2>4. ASSUME ~CommitExecution(r), exec'[s].pc # exec[s].pc
        PROVE  run'[r].status \in During(exec'[s].pc)
    <3>1. ASSUME NEW q \in Runs, CommitExecution(q) PROVE FALSE
      <4>1. PICK t \in Busy : exec[t].run = q /\ \E pc : exec' = [exec EXCEPT ![t].pc = pc]
        BY <3>1, ExecutionCommits
      <4>2. t = s
        BY <1>1, <1>2, <2>4, <4>1
      <4>. QED BY <2>1, <2>4, <3>1, <4>1, <4>2
    <3>2. ~SamePc /\ ~Restarts
      BY <1>2, <2>4 DEF SamePc, Restarts, NoExec
    <3>3. PICK t \in Slots : ExecutionStep(t) \/ BodyStep(t)
      BY <1>1, <1>6, <3>1, <3>2, ExecutionSteps
    <3>4. t = s
      BY <1>1, <1>2, <1>6, <2>4, <3>3, PhaseFollows
    <3>. QED BY <1>1, <1>6, <2>1, <3>3, <3>4, PhaseFollows
  <2>. QED BY <2>2, <2>3, <2>4
<1>. QED BY <1>1, <1>3, <1>4, <1>5, <1>6, SlotSteps

\* No run is stored when the service first starts.
LEMMA LegalInit == Init => LegalInv
<1>. SUFFICES ASSUME Init PROVE LegalInv
  OBVIOUS
<1>1. /\ \A r \in Runs : run[r].status = "absent" /\ mutations[r] = << >>
      /\ booting = {} /\ exec = [s \in Slots |-> NoExec]
      /\ recovery = [g \in Registrations |-> NoRecovery]
  BY DEF Init, Fresh
<1>2. PlaceInv
  BY PlaceInit
<1>3. Busy = {}
  BY <1>1 DEF Busy, NoExec
<1>4. UpdateOwn /\ NoExpiry /\ VersionKept /\ Quiet /\ BootStatus
  BY <1>1 DEF UpdateOwn, NoExpiry, VersionKept, Quiet, BootStatus, Silent, Stored, NoRecovery
<1>5. StatusFits
  <2>1. \A r \in Runs : Nowhere(r)
    BY <1>1, <1>2 DEF PlaceInv, AbsentNowhere, Stored
  <2>. QED BY <1>3, <2>1 DEF StatusFits, Fits, Nowhere
<1>. QED BY <1>2, <1>4, <1>5 DEF LegalInv

\* The invariant is inductive while the plugins stay and a workflow keeps its version.
LEMMA LegalStep == Disposable = {} /\ OneVersion /\ LegalInv /\ [Next]_vars => LegalInv'
<1>1. ASSUME Disposable = {}, OneVersion, LegalInv, [Next]_vars PROVE LegalInv'
  <2>1. PlaceInv' /\ TypeOK'
    BY <1>1, PlaceStep DEF LegalInv, PlaceInv, BoundInv
  <2>2. StatusFits'
    BY <1>1, <2>1, WaitsStep, LegalOrderly, DuringStep DEF StatusFits, Fits
  <2>. QED BY <1>1, <2>1, <2>2, UpdateOwnStep, NoExpiryStep, QuietStep DEF LegalInv
<1>. QED BY <1>1

\* A step of the service takes a run along an edge.
LEMMA LegalEdges ==
    ASSUME BoundInv, UpdateOwn, BootStatus, [Next]_vars, NEW r \in Runs, Orderly(r),
           run'[r].status # run[r].status
    PROVE  <<run[r].status, run'[r].status>> \in Edges
<1>1. /\ TypeOK /\ BootStatus /\ Fits(r) /\ run \in [Runs -> RunRecords]
  BY DEF BoundInv, TypeOK, DurableOK, Orderly
<1>2. CASE CommitExecution(r)
  <2>1. PICK s \in Busy, kind \in ExecutionKinds, ok \in BOOLEAN :
           /\ exec[s].run = r /\ exec[s].pc = Awaits(kind)
           /\ ok => Accepts(kind, run[r].status)
           /\ run' = IF ok THEN [run EXCEPT ![r].status = Result(kind, @)] ELSE run
    BY <1>2, ExecutionCommits
  <2>2. ok /\ run'[r].status = Result(kind, run[r].status)
    BY <1>1, <2>1 DEF RunRecords
  <2>3. run[r].status \in During(Awaits(kind))
    BY <1>1, <2>1 DEF Fits
  <2>4. CASE kind = "start"
    BY <2>1, <2>2, <2>4 DEF Accepts, Result, Outcome, Edges
  <2>5. CASE kind = "review"
    BY <2>2, <2>5 DEF Result, Outcome, Edges
  <2>6. CASE kind = "fail"
    BY <2>2, <2>3, <2>6 DEF During, Awaits, Result, Outcome, Edges
  <2>. QED BY <2>4, <2>5, <2>6 DEF ExecutionKinds
<1>3. CASE CommitCancel(r) \/ CommitApproval(r)
  BY <1>1, <1>3, OtherCommits DEF Edges, Live
<1>4. CASE InitRun(r)
  <2>1. run' = [run EXCEPT ![r].status = "failed"] /\ run[r].status \in {"queued", "running"}
    BY <1>1, <1>4 DEF InitRun, BootStatus
  <2>2. run'[r].status = "failed"
    BY <1>1, <2>1 DEF RunRecords
  <2>. QED BY <2>1, <2>2 DEF Edges
<1>5. ASSUME NEW g \in Registrations, NEW at \in Schedules, Start(r, g, at)
      PROVE  <<run[r].status, run'[r].status>> \in Edges
  BY <1>1, <1>5 DEF Start, Edges
<1>. QED BY <1>1, <1>2, <1>3, <1>4, <1>5, NotExpired, StatusSteps

\* While the plugins stay and a workflow keeps its version, the stored status moves only
\* along the documented edges, though a late failure does not look at what it overwrites.
THEOREM OnlyLegalTransitions ==
    Disposable = {} /\ OneVersion => (Spec => LegalTransitions)
<1>. SUFFICES ASSUME Disposable = {}, OneVersion PROVE Spec => LegalTransitions
  OBVIOUS
<1>1. LegalInv /\ [Next]_vars => LegalInv'
  BY LegalStep
<1>2. LegalInv /\ [Next]_vars =>
         [\A r \in Runs : run'[r].status # run[r].status =>
             <<run[r].status, run'[r].status>> \in Edges]_vars
  BY LegalOrderly, LegalEdges
<1>. QED BY <1>1, <1>2, LegalInit, PTL DEF Spec, LegalTransitions

\* Under the same conditions no later step overwrites a terminal status: the one that
\* does, in run runtime_terminal, is the recovery that finds another version.
THEOREM TerminalStays ==
    Disposable = {} /\ OneVersion => (Spec => TerminalFinal)
<1>. SUFFICES ASSUME Disposable = {}, OneVersion PROVE Spec => TerminalFinal
  OBVIOUS
<1>1. LegalInv /\ [Next]_vars => LegalInv'
  BY LegalStep
<1>2. LegalInv /\ [Next]_vars =>
         [\A r \in Runs : run[r].status \in Terminal => run'[r].status = run[r].status]_vars
  <2>. SUFFICES ASSUME LegalInv, [Next]_vars, NEW r \in Runs, run[r].status \in Terminal
                PROVE  run'[r].status = run[r].status
    OBVIOUS
  <2>1. \A status : <<run[r].status, status>> \notin Edges
    BY DEF Edges, Terminal, Live
  <2>. QED BY <2>1, LegalOrderly, LegalEdges
<1>. QED BY <1>1, <1>2, LegalInit, PTL DEF Spec, TerminalFinal
=============================================================================
