------------------------ MODULE FactoryRuntimeProofs ------------------------
(***************************************************************************)
(* Theorems about FactoryRuntime for any number of runs, workflows,        *)
(* registrations, slots, schedules, host starts and crashes, with plugins  *)
(* unloaded at any time.                                                   *)
(***************************************************************************)
EXTENDS FactoryRuntime, FiniteSetTheorems, SequenceTheorems, TLAPS

-----------------------------------------------------------------------------
(* Type correctness *)

\* What the assumption on the constants gives the arithmetic of the proofs.
LEMMA ConstantTypes ==
    MaxTimerDelay \in Nat /\ MaxConcurrentRuns \in Nat /\ Schedules \subseteq Nat
BY RuntimeConstants

\* What TypeOK says of one run, and of one sequence of its updates.
LEMMA RunType ==
    ASSUME TypeOK, NEW r \in Runs
    PROVE  /\ run[r] \in RunRecords
           /\ run[r].status \in Status
           /\ run[r].scheduledFor \in Schedules \cup {Immediate}
           /\ run[r].scheduledFor \in Nat
<1>1. run[r] \in RunRecords
  BY DEF TypeOK, DurableOK
<1>2. run[r].status \in Status /\ run[r].scheduledFor \in Schedules \cup {Immediate}
  BY <1>1 DEF RunRecords
<1>3. run[r].scheduledFor \in Nat
  BY <1>2, ConstantTypes DEF Immediate
<1>. QED BY <1>1, <1>2, <1>3

\* An update results in a status.
LEMMA OutcomeType ==
    ASSUME NEW kind \in Kinds, NEW status \in Status
    PROVE  Result(kind, status) \in Status
BY DEF Result, Outcome, Kinds, ExecutionKinds, CancelKinds, Status

\* Aborting controllers leaves activations.
LEMMA AbortedType ==
    ASSUME exec \in [Slots -> ExecRecords], NEW rs
    PROVE  Aborted(rs) \in [Slots -> ExecRecords]
<1>1. ASSUME NEW s \in Slots
      PROVE  exec[s] \in ExecRecords /\ [exec[s] EXCEPT !.aborted = TRUE] \in ExecRecords
  BY DEF ExecRecords
<1>. QED BY <1>1 DEF Aborted

\* The catch block of execute() leaves an activation.
LEMMA CatchType ==
    ASSUME ExecutionOK, NEW s \in Slots, ExecCatch(s)
    PROVE  ExecutionOK'
<1> DEFINE x == [exec[s] EXCEPT !.pc = "failing", !.aborted = TRUE]
<1>1. x \in ExecRecords
  BY DEF ExecutionOK, ExecRecords
<1>2. exec' = [exec EXCEPT ![s] = x]
  BY DEF ExecCatch, ExecutionOK
<1> HIDE DEF x
<1>3. exec' \in [Slots -> ExecRecords]
  BY <1>1, <1>2 DEF ExecutionOK
<1>. QED BY <1>3 DEF ExecCatch, ExecutionOK

\* What removeQueuedId leaves is a queue of runs.
LEMMA RemoveQueuedIdType ==
    ASSUME DispatchOK, NEW r \in Runs
    PROVE  RemoveQueuedId(r) \in Seq(Runs)
<1>1. CASE ~Queued(r)
  BY <1>1 DEF RemoveQueuedId, DispatchOK
<1>2. CASE Queued(r)
  <2> DEFINE i == CHOOSE j \in DOMAIN queuedIds : queuedIds[j] = r
  <2>1. i \in 1 .. Len(queuedIds)
    BY <1>2 DEF Queued, DispatchOK
  <2>2. RemoveQueuedId(r) = SubSeq(queuedIds, 1, i - 1)
                              \o SubSeq(queuedIds, i + 1, Len(queuedIds))
    BY <1>2 DEF RemoveQueuedId
  <2> HIDE DEF i
  <2>3. i - 1 \in Int /\ i + 1 \in Int /\ Len(queuedIds) \in Int
    BY <2>1 DEF DispatchOK
  <2>4. \A j \in 1 .. Len(queuedIds) : queuedIds[j] \in Runs
    BY DEF DispatchOK
  <2>5. SubSeq(queuedIds, 1, i - 1) \in Seq(Runs)
    <3>1. \A j \in 1 .. i - 1 : queuedIds[j] \in Runs
      BY <2>1, <2>4
    <3>. QED BY <3>1, <2>3, SubSeqProperties
  <2>6. SubSeq(queuedIds, i + 1, Len(queuedIds)) \in Seq(Runs)
    <3>1. \A j \in i + 1 .. Len(queuedIds) : queuedIds[j] \in Runs
      BY <2>1, <2>4
    <3>. QED BY <3>1, <2>3, SubSeqProperties
  <2>. QED BY <2>2, <2>5, <2>6
<1>. QED BY <1>1, <1>2

\* drainQueue takes a run from a queue of runs.
LEMMA DrainLoopType ==
    ASSUME TypeOK, NEW queue \in Seq(Runs), NEW acc \in [Runs -> RegOrNone],
           NEW active \in Int, NEW otherwise \in {"idle", "exiting"},
           DrainLoop(queue, acc, active, otherwise)
    PROVE  DispatchOK'
<1>1. CASE MayDispatch(queue, active)
  <2>1. Head(queue) \in Runs /\ Tail(queue) \in Seq(Runs)
    BY <1>1, HeadTailProperties DEF MayDispatch
  <2>2. run[Head(queue)].status \in Status /\ acc[Head(queue)] \in RegOrNone
    BY <2>1, RunType
  <2>. QED BY <1>1, <2>1, <2>2, SMTT(20) DEF DrainLoop, Shifted, DispatchOK, DrainRecords, RunOrNone
<1>2. CASE ~MayDispatch(queue, active)
  BY <1>2 DEF DrainLoop, NoRead, DispatchOK, DrainRecords, RunOrNone, RegOrNone, Status
<1>. QED BY <1>1, <1>2

\* pump() keeps the queue and the read well-formed.
LEMMA PumpType ==
    ASSUME TypeOK, NEW queue \in Seq(Runs), NEW acc \in [Runs -> RegOrNone],
           NEW active \in Int, Pump(queue, acc, active)
    PROVE  DispatchOK'
<1>1. CASE drain.pc = "idle"
  BY <1>1, DrainLoopType DEF Pump
<1>2. CASE drain.pc # "idle"
  BY <1>2 DEF Pump, TypeOK, DispatchOK
<1>. QED BY <1>1, <1>2

\* enqueueRun adds a run to the queue, and drops its timer.
LEMMA EnqueueRunType ==
    ASSUME TypeOK, NEW r \in Runs, NEW acc \in [Runs -> RegOrNone], EnqueueRun(r, acc)
    PROVE  DispatchOK' /\ ScheduleOK'
<1>1. (IF Queued(r) THEN queuedIds ELSE Append(queuedIds, r)) \in Seq(Runs)
  BY DEF TypeOK, DispatchOK
<1>2. activeCount \in Int
  BY DEF TypeOK, ExecutionOK
<1>3. DispatchOK'
  BY <1>1, <1>2, PumpType DEF EnqueueRun
<1>4. ScheduleOK'
  BY DEF EnqueueRun, TypeOK, ScheduleOK, NoTimer
<1>. QED BY <1>3, <1>4

\* armScheduledRun sets a timer in the future, or enqueues the run.
LEMMA ArmScheduledRunType ==
    ASSUME TypeOK, NEW r \in Runs, NEW acc \in [Runs -> RegOrNone],
           NEW rec \in SUBSET Runs, ArmScheduledRun(r, acc, rec)
    PROVE  DispatchOK' /\ ScheduleOK'
<1>1. CASE Due(r)
  BY <1>1, EnqueueRunType DEF ArmScheduledRun
<1>2. CASE ~Due(r)
  <2>1. run[r].scheduledFor \in Nat /\ now \in Nat /\ MaxTimerDelay \in Nat
    BY RunType, ConstantTypes DEF TypeOK, DurableOK
  <2>2. run[r].scheduledFor - now \in Nat
    BY <1>2, <2>1 DEF Due
  <2> DEFINE delay == IF run[r].scheduledFor - now < MaxTimerDelay
                      THEN run[r].scheduledFor - now ELSE MaxTimerDelay
  <2>3. now + delay \in Nat
    BY <2>1, <2>2
  <2>4. scheduledTimers' = [scheduledTimers EXCEPT ![r] = now + delay]
    BY <1>2 DEF ArmScheduledRun
  <2>5. scheduledTimers' \in [Runs -> Nat]
    <3> HIDE DEF delay
    <3>. QED BY <2>3, <2>4 DEF TypeOK, ScheduleOK
  <2>6. recoverable' = rec /\ UNCHANGED <<queuedIds, drain>>
    BY <1>2 DEF ArmScheduledRun, dispatch
  <2>. QED BY <2>5, <2>6 DEF TypeOK, ScheduleOK, DispatchOK
<1>. QED BY <1>1, <1>2

\* A well-formed update keeps the chains well-formed.
LEMMA MutateType ==
    ASSUME MutationsOK, NEW r, NEW kind, NEW caller,
           [kind |-> kind, by |-> caller] \in Mutations, Mutate(r, kind, caller)
    PROVE  MutationsOK'
<1> DEFINE m == [kind |-> kind, by |-> caller]
<1>1. m \in Mutations
  OBVIOUS
<1>2. mutations' = [mutations EXCEPT ![r] = Append(@, m)]
  BY DEF Mutate
<1> HIDE DEF m
<1>3. \A x \in Runs : Append(mutations[x], m) \in Seq(Mutations)
  BY <1>1, AppendProperties DEF MutationsOK
<1>. QED BY <1>2, <1>3 DEF MutationsOK

\* Executions chain their updates, callers and plugins theirs.
LEMMA MutationTypes ==
    /\ \A kind \in ExecutionKinds, s \in Slots : [kind |-> kind, by |-> s] \in Mutations
    /\ \A kind \in Kinds \ ExecutionKinds, c \in Callers :
          [kind |-> kind, by |-> c] \in Mutations
BY DEF Mutations

\* An update commits, or is refused or rejected.
Commits(r) == \E ok \in BOOLEAN : Committing(r, ok)

\* The commit of an update keeps the aggregate, the chain and the stop effect's view.
LEMMA CommittingType ==
    ASSUME TypeOK, NEW r \in Runs, NEW ok \in BOOLEAN, Committing(r, ok)
    PROVE  /\ Head(mutations[r]) \in Mutations
           /\ run' \in [Runs -> RunRecords] /\ stop' \in StopRecords /\ MutationsOK'
<1>1. mutations[r] \in Seq(Mutations) /\ mutations[r] # << >>
  BY DEF TypeOK, MutationsOK, Committing
<1>2. Head(mutations[r]) \in Mutations /\ Tail(mutations[r]) \in Seq(Mutations)
  BY <1>1, HeadTailProperties
<1>3. MutationsOK'
  BY <1>2 DEF Committing, TypeOK, MutationsOK
<1>4. stop' \in StopRecords
  <2> DEFINE chains == [stop.chains EXCEPT ![r] = IF @ = 0 THEN 0 ELSE @ - 1]
  <2>1. stop \in StopRecords /\ stop.chains \in [Runs -> Nat]
    BY DEF TypeOK, PhaseOK, StopRecords
  <2>2. chains \in [Runs -> Nat]
    BY <2>1
  <2>3. stop' = [stop EXCEPT !.chains = chains]
    BY <2>1 DEF Committing, StopRecords
  <2> HIDE DEF chains
  <2>. QED BY <2>1, <2>2, <2>3 DEF StopRecords
<1>5. run' \in [Runs -> RunRecords]
  <2> DEFINE kind == Head(mutations[r]).kind
  <2>1. kind \in Kinds
    BY <1>2 DEF Mutations, Kinds
  <2>2. run[r].status \in Status
    BY RunType
  <2>3. Result(kind, run[r].status) \in Status
    BY <2>1, <2>2, OutcomeType
  <2>4. run' = run \/ run' = [run EXCEPT ![r].status = Result(kind, run[r].status)]
    BY DEF Committing
  <2> HIDE DEF kind
  <2>. QED BY <2>3, <2>4 DEF TypeOK, DurableOK, RunRecords
<1>. QED BY <1>2, <1>3, <1>4, <1>5

\* A new process has well-formed fields.
LEMMA FreshType ==
    ASSUME NEW defs, NEW acc, NEW queue, NEW timers, NEW rec, NEW active, NEW task,
           NEW control, NEW chain, NEW drn, NEW exe, NEW adm, NEW can, NEW rel, NEW rcv,
           NEW dsp, NEW stp,
           Fresh(defs, acc, queue, timers, rec, active, task, control, chain, drn, exe,
                 adm, can, rel, rcv, dsp, stp)
    PROVE  /\ queue \in Seq(Runs) /\ drn \in DrainRecords
           /\ timers \in [Runs -> Nat] /\ rec \in SUBSET Runs
           /\ exe \in [Slots -> ExecRecords] /\ active \in Int
           /\ task \in [Runs -> Slots \cup {None}] /\ control \in [Runs -> Slots \cup {None}]
           /\ defs \in [Workflows -> RegOrNone] /\ acc \in [Runs -> RegOrNone]
           /\ rcv \in [Registrations -> RecoveryRecords]
           /\ dsp \in [Registrations -> DisposerRecords]
           /\ adm \in [Runs -> AdmissionRecords] /\ can \in [Runs -> SUBSET Callers]
           /\ rel \in [Runs -> Status \cup {"none"}]
           /\ chain \in [Runs -> Seq(Mutations)] /\ stp \in StopRecords
<1>1. drn \in DrainRecords /\ exe \in [Slots -> ExecRecords]
  BY DEF Fresh, NoRead, NoExec, DrainRecords, ExecRecords, RunOrNone, RegOrNone, Status
<1>2. /\ rcv \in [Registrations -> RecoveryRecords]
      /\ dsp \in [Registrations -> DisposerRecords]
  BY DEF Fresh, NoRecovery, NoDisposer, RecoveryRecords, DisposerRecords, RunOrNone, Status
<1>3. adm \in [Runs -> AdmissionRecords] /\ stp \in StopRecords
  BY DEF Fresh, AdmissionRecords, StopRecords, RegOrNone
<1>4. queue \in Seq(Runs) /\ chain \in [Runs -> Seq(Mutations)]
  BY DEF Fresh
<1>5. /\ timers \in [Runs -> Nat] /\ rec \in SUBSET Runs /\ active \in Int
      /\ task \in [Runs -> Slots \cup {None}] /\ control \in [Runs -> Slots \cup {None}]
      /\ defs \in [Workflows -> RegOrNone] /\ acc \in [Runs -> RegOrNone]
      /\ can \in [Runs -> SUBSET Callers] /\ rel \in [Runs -> Status \cup {"none"}]
  BY DEF Fresh, NoTimer, RegOrNone
<1>. QED BY <1>1, <1>2, <1>3, <1>4, <1>5

\* The initial state is well-formed.
LEMMA TypeInit == Init => TypeOK
<1>. SUFFICES ASSUME Init PROVE TypeOK
  OBVIOUS
<1>1. DurableOK
  BY DEF Init, DurableOK, RunRecords, Status
<1>2. host = "down" /\ booting = {}
  BY DEF Init
<1>3. ReadingOK
  BY DEF Init, Fresh, ReadingOK, NoRecovery, NoDisposer
<1>4. /\ DispatchOK /\ ScheduleOK /\ ExecutionOK /\ PluginsOK /\ CallersOK /\ PhaseOK
      /\ AcceptedOK /\ MutationsOK
  BY <1>2, FreshType DEF Init, DispatchOK, ScheduleOK, ExecutionOK, PluginsOK, CallersOK,
     PhaseOK, AcceptedOK, MutationsOK
<1>. QED BY <1>1, <1>3, <1>4 DEF TypeOK

\* Moving an execution to another phase.
LEMMA ExecPcType ==
    ASSUME exec \in [Slots -> ExecRecords], NEW s,
           NEW pc \in {"started", "refused", "body", "reviewing", "failing", "saved",
                       "closing"},
           exec' = [exec EXCEPT ![s].pc = pc]
    PROVE  exec' \in [Slots -> ExecRecords]
BY DEF ExecRecords

\* Moving a disposer to another phase.
LEMMA DisposerPcType ==
    ASSUME PluginsOK, ReadingOK, NEW g,
           NEW pc \in {"registered", "cancelling", "next", "disposed", "rejected"},
           disposer' = [disposer EXCEPT ![g].pc = pc]
    PROVE  /\ disposer' \in [Registrations -> DisposerRecords]
           /\ \A h \in Registrations : disposer'[h].pc = "reading" => disposer'[h].id \in Runs
<1>1. ASSUME NEW h \in Registrations
      PROVE  /\ disposer'[h] \in DisposerRecords
             /\ disposer'[h].pc = "reading" => disposer'[h].id \in Runs
  <2>1. disposer[h] \in DisposerRecords
    BY DEF PluginsOK
  <2>2. CASE h = g
    <3>1. disposer'[h] = [disposer[h] EXCEPT !.pc = pc]
      BY <2>2 DEF PluginsOK
    <3>. QED BY <2>1, <3>1 DEF DisposerRecords
  <2>3. CASE h # g
    <3>1. disposer'[h] = disposer[h]
      BY <2>3 DEF PluginsOK
    <3>. QED BY <2>1, <3>1 DEF ReadingOK
  <2>. QED BY <2>2, <2>3
<1>2. disposer' \in [Registrations -> DisposerRecords]
  BY <1>1 DEF PluginsOK
<1>. QED BY <1>1, <1>2

\* Moving a recovery to another phase.
LEMMA RecoveryPcType ==
    ASSUME PluginsOK, ReadingOK, NEW g, NEW pc \in {"failing", "next", "rejected"},
           recovery' = [recovery EXCEPT ![g].pc = pc]
    PROVE  /\ recovery' \in [Registrations -> RecoveryRecords]
           /\ \A h \in Registrations : recovery'[h].pc = "reading" => recovery'[h].id \in Runs
<1>1. ASSUME NEW h \in Registrations
      PROVE  /\ recovery'[h] \in RecoveryRecords
             /\ recovery'[h].pc = "reading" => recovery'[h].id \in Runs
  <2>1. recovery[h] \in RecoveryRecords
    BY DEF PluginsOK
  <2>2. CASE h = g
    <3>1. recovery'[h] = [recovery[h] EXCEPT !.pc = pc]
      BY <2>2 DEF PluginsOK
    <3>. QED BY <2>1, <3>1 DEF RecoveryRecords
  <2>3. CASE h # g
    <3>1. recovery'[h] = recovery[h]
      BY <2>3 DEF PluginsOK
    <3>. QED BY <2>1, <3>1 DEF ReadingOK
  <2>. QED BY <2>2, <2>3
<1>2. recovery' \in [Registrations -> RecoveryRecords]
  BY <1>1 DEF PluginsOK
<1>. QED BY <1>1, <1>2

\* The next turn of a recovery's loop.
LEMMA RecoverNextType ==
    ASSUME TypeOK, NEW g \in Registrations, NEW rec \in SUBSET Runs, RecoverNext(g, rec)
    PROVE  /\ recovery' \in [Registrations -> RecoveryRecords]
           /\ \A h \in Registrations : recovery'[h].pc = "reading" => recovery'[h].id \in Runs
<1>1. PICK x \in RecoveryRecords : /\ recovery' = [recovery EXCEPT ![g] = x]
                                   /\ x.pc = "reading" => x.id \in Runs
  <2>1. ASSUME NEW r \in Candidates(g, rec)
        PROVE  [pc |-> "reading", id |-> r, seen |-> run[r].status] \in RecoveryRecords
    <3>1. r \in Runs /\ run[r].status \in Status
      BY RunType DEF Candidates
    <3>. QED BY <3>1 DEF RecoveryRecords, RunOrNone
  <2>2. [pc |-> "done", id |-> None, seen |-> "absent"] \in RecoveryRecords
    BY DEF RecoveryRecords, RunOrNone, Status
  <2>. QED BY <2>1, <2>2 DEF RecoverNext, Candidates
<1>. QED BY <1>1 DEF TypeOK, PluginsOK, ReadingOK

\* The next turn of a disposer's loop.
LEMMA DisposeNextType ==
    ASSUME TypeOK, NEW g \in Registrations, NEW ids \in SUBSET Runs,
           NEW todo \in SUBSET Runs, DisposeNext(g, ids, todo)
    PROVE  /\ disposer' \in [Registrations -> DisposerRecords]
           /\ \A h \in Registrations : disposer'[h].pc = "reading" => disposer'[h].id \in Runs
<1>1. disposer[g] \in DisposerRecords
  BY DEF TypeOK, PluginsOK
<1>2. PICK x \in DisposerRecords : /\ disposer' = [disposer EXCEPT ![g] = x]
                                   /\ x.pc = "reading" => x.id \in Runs
  <2>1. CASE todo = {} /\ disposer' = [disposer EXCEPT ![g] =
             [@ EXCEPT !.pc = "draining", !.ids = {}, !.todo = {}, !.id = None,
                       !.seen = "absent", !.slots = TasksOf(ids)]]
    <3> DEFINE x == [disposer[g] EXCEPT !.pc = "draining", !.ids = {}, !.todo = {},
                        !.id = None, !.seen = "absent", !.slots = TasksOf(ids)]
    <3>1. TasksOf(ids) \in SUBSET Slots
      BY DEF TasksOf, TypeOK, ExecutionOK
    <3>2. x \in DisposerRecords /\ x.pc = "draining"
      BY <1>1, <3>1 DEF DisposerRecords, RunOrNone, Status
    <3>3. disposer' = [disposer EXCEPT ![g] = x]
      BY <2>1 DEF TypeOK, PluginsOK
    <3> HIDE DEF x
    <3>. QED BY <3>2, <3>3
  <2>2. ASSUME NEW r \in todo,
               disposer' = [disposer EXCEPT ![g] =
                  [@ EXCEPT !.pc = "reading", !.ids = ids, !.todo = todo \ {r},
                            !.id = r, !.seen = run[r].status]]
        PROVE  \E x \in DisposerRecords : /\ disposer' = [disposer EXCEPT ![g] = x]
                                          /\ x.pc = "reading" => x.id \in Runs
    <3> DEFINE x == [disposer[g] EXCEPT !.pc = "reading", !.ids = ids, !.todo = todo \ {r},
                                        !.id = r, !.seen = run[r].status]
    <3>1. run[r].status \in Status /\ r \in Runs
      BY RunType
    <3>2. x \in DisposerRecords /\ x.id \in Runs
      BY <1>1, <3>1 DEF DisposerRecords, RunOrNone
    <3>3. disposer' = [disposer EXCEPT ![g] = x]
      BY <2>2 DEF TypeOK, PluginsOK
    <3> HIDE DEF x
    <3>. QED BY <3>2, <3>3
  <2>. QED BY <2>1, <2>2 DEF DisposeNext
<1>. QED BY <1>2 DEF TypeOK, PluginsOK, ReadingOK

\* Every step keeps the state well-formed.
LEMMA TypeStep == TypeOK /\ [Next]_vars => TypeOK'
<1>. SUFFICES ASSUME TypeOK, [Next]_vars PROVE TypeOK'
  OBVIOUS
<1>. USE DEF TypeOK, vars, beyondPlugins, beyondHost, durable, dispatch, schedule,
             execution, plugins, callers, phase
<1>1. ASSUME NEW r \in Runs, AdmissionContinue(r) PROVE TypeOK'
  <2>1. CallersOK'
    BY <1>1 DEF AdmissionContinue, CallersOK, AdmissionRecords
  <2>2. AcceptedOK'
    BY <1>1 DEF AdmissionContinue, AcceptedOK, CallersOK, AdmissionRecords
  <2>3. MutationsOK'
    BY <1>1, MutateType, MutationTypes DEF AdmissionContinue, Callers, Kinds,
       CancelKinds, ExecutionKinds, MutationsOK
  <2>4. DispatchOK' /\ ScheduleOK'
    BY <1>1, <2>2, EnqueueRunType, ArmScheduledRunType DEF AdmissionContinue,
       AcceptedOK, DispatchOK, ScheduleOK
  <2>5. DurableOK' /\ ExecutionOK' /\ PluginsOK' /\ PhaseOK' /\ ReadingOK'
    BY <1>1 DEF AdmissionContinue, DurableOK, ExecutionOK, PluginsOK, PhaseOK,
       ReadingOK
  <2>. QED BY <2>1, <2>2, <2>3, <2>4, <2>5
<1>2. ASSUME NEW r \in Runs, CommitExecution(r) PROVE TypeOK'
  <2>0. PICK ok \in BOOLEAN :
            /\ Committing(r, ok)
            /\ exec' = [exec EXCEPT ![Head(mutations[r]).by].pc = Told(Head(mutations[r]).kind, ok)]
    BY <1>2 DEF CommitExecution
  <2>1. DurableOK' /\ PhaseOK' /\ MutationsOK'
    BY <1>2, <2>0, CommittingType DEF CommitExecution, DurableOK, PhaseOK
  <2>2. ExecutionOK'
    <3>1. Told(Head(mutations[r]).kind, ok) \in {"started", "refused", "saved"}
      BY DEF Told
    <3>2. exec' \in [Slots -> ExecRecords]
      BY <2>0, <3>1, ExecPcType DEF ExecutionOK
    <3>. QED BY <1>2, <3>2 DEF CommitExecution, ExecutionOK
  <2>3. /\ DispatchOK' /\ ScheduleOK' /\ PluginsOK'
       /\ CallersOK' /\ AcceptedOK' /\ ReadingOK'
    BY <1>2 DEF CommitExecution, DispatchOK, ScheduleOK, PluginsOK, CallersOK,
       AcceptedOK, ReadingOK
  <2>. QED BY <2>1, <2>2, <2>3
<1>3. ASSUME NEW r \in Runs, CommitCancel(r) PROVE TypeOK'
  <2>0. PICK ok \in BOOLEAN : Committing(r, ok)
    BY <1>3 DEF CommitCancel
  <2>1. DurableOK' /\ PhaseOK' /\ MutationsOK'
    BY <1>3, <2>0, CommittingType DEF CommitCancel, DurableOK, PhaseOK
  <2>2. CallersOK'
    <3>1. Head(mutations[r]).by \in Callers
      BY <1>3, <2>0, CommittingType DEF CommitCancel, Mutations, CancelKinds, ExecutionKinds
    <3>2. cancels' \in [Runs -> SUBSET Callers]
      BY <1>3, <3>1 DEF CommitCancel, CallersOK
    <3>. QED BY <1>3, <3>2 DEF CommitCancel, CallersOK, AdmissionRecords
  <2>3. PluginsOK'
    BY <1>3, DisposerPcType DEF CommitCancel, PluginsOK
  <2>4. ReadingOK'
    BY <1>3, DisposerPcType DEF CommitCancel, PluginsOK, ReadingOK
  <2>5. DispatchOK' /\ ScheduleOK' /\ ExecutionOK' /\ AcceptedOK'
    BY <1>3 DEF CommitCancel, DispatchOK, ScheduleOK, ExecutionOK, AcceptedOK
  <2>. QED BY <2>1, <2>2, <2>3, <2>4, <2>5
<1>4. ASSUME NEW r \in Runs, CommitApproval(r) PROVE TypeOK'
  <2>0. PICK ok \in BOOLEAN : Committing(r, ok)
    BY <1>4 DEF CommitApproval
  <2>1. DurableOK' /\ PhaseOK' /\ MutationsOK'
    BY <1>4, <2>0, CommittingType DEF CommitApproval, DurableOK, PhaseOK
  <2>2. /\ DispatchOK' /\ ScheduleOK' /\ ExecutionOK'
       /\ PluginsOK' /\ CallersOK' /\ AcceptedOK' /\ ReadingOK'
    BY <1>4 DEF CommitApproval, DispatchOK, ScheduleOK, ExecutionOK, PluginsOK,
       CallersOK, AcceptedOK, ReadingOK
  <2>. QED BY <2>1, <2>2
<1>5. ASSUME NEW r \in Runs, CommitExpiry(r) PROVE TypeOK'
  <2>0. PICK ok \in BOOLEAN : Committing(r, ok)
    BY <1>5 DEF CommitExpiry
  <2>1. DurableOK' /\ PhaseOK' /\ MutationsOK'
    BY <1>5, <2>0, CommittingType DEF CommitExpiry, DurableOK, PhaseOK
  <2>2. PluginsOK'
    BY <1>5, RecoveryPcType DEF CommitExpiry, PluginsOK
  <2>3. ReadingOK'
    BY <1>5, RecoveryPcType DEF CommitExpiry, PluginsOK, ReadingOK
  <2>4. DispatchOK' /\ ScheduleOK' /\ ExecutionOK' /\ CallersOK' /\ AcceptedOK'
    BY <1>5 DEF CommitExpiry, DispatchOK, ScheduleOK, ExecutionOK, CallersOK,
       AcceptedOK
  <2>. QED BY <2>1, <2>2, <2>3, <2>4
<1>6. ASSUME NEW r \in Runs, NEW c \in Callers, CancelContinue(r, c) PROVE TypeOK'
  <2>1. CallersOK'
    BY <1>6 DEF CancelContinue, CallersOK, AdmissionRecords
  <2>2. DispatchOK' /\ ScheduleOK'
    BY <1>6, RemoveQueuedIdType DEF CancelContinue, DispatchOK, ScheduleOK, NoTimer
  <2>3. ExecutionOK'
    BY <1>6, AbortedType DEF CancelContinue, ExecutionOK
  <2>4. AcceptedOK'
    BY <1>6 DEF CancelContinue, AcceptedOK, RegOrNone
  <2>5. PluginsOK'
    BY <1>6, DisposerPcType DEF CancelContinue, PluginsOK
  <2>6. ReadingOK'
    BY <1>6, DisposerPcType DEF CancelContinue, PluginsOK, ReadingOK
  <2>7. DurableOK' /\ PhaseOK' /\ MutationsOK'
    BY <1>6 DEF CancelContinue, DurableOK, PhaseOK, MutationsOK
  <2>. QED BY <2>1, <2>2, <2>3, <2>4, <2>5, <2>6, <2>7
<1>7. ASSUME NEW r \in Runs, TimerFires(r) PROVE TypeOK'
  <2>1. ScheduleOK'
    BY <1>7 DEF TimerFires, ScheduleOK, NoTimer
  <2>2. CallersOK'
    BY <1>7, RunType DEF TimerFires, CallersOK
  <2>3. /\ DurableOK' /\ DispatchOK' /\ ExecutionOK' /\ PluginsOK'
       /\ PhaseOK' /\ AcceptedOK' /\ MutationsOK' /\ ReadingOK'
    BY <1>7 DEF TimerFires, DurableOK, DispatchOK, ExecutionOK, PluginsOK, PhaseOK,
       AcceptedOK, MutationsOK, ReadingOK
  <2>. QED BY <2>1, <2>2, <2>3
<1>8. ASSUME NEW r \in Runs, ReleaseContinue(r) PROVE TypeOK'
  <2>1. CallersOK'
    BY <1>8 DEF ReleaseContinue, CallersOK
  <2>2. AcceptedOK'
    BY <1>8 DEF ReleaseContinue, AcceptedOK, RegOrNone
  <2>3. DispatchOK' /\ ScheduleOK'
    <3>1. CASE ArmScheduledRun(r, accepted, recoverable)
      BY <1>8, <3>1, ArmScheduledRunType DEF AcceptedOK, ScheduleOK
    <3>2. CASE /\ UNCHANGED dispatch
               /\ \/ recoverable' = Parked(r) /\ UNCHANGED scheduledTimers
                  \/ UNCHANGED schedule
                  \/ /\ UNCHANGED recoverable
                     /\ scheduledTimers' = [scheduledTimers EXCEPT ![r] = NoTimer]
      BY <1>8, <3>2 DEF Parked, DispatchOK, ScheduleOK, NoTimer
    <3>. QED BY <1>8, <3>1, <3>2 DEF ReleaseContinue
  <2>4. /\ DurableOK' /\ ExecutionOK' /\ PluginsOK'
       /\ PhaseOK' /\ MutationsOK' /\ ReadingOK'
    BY <1>8 DEF ReleaseContinue, DurableOK, ExecutionOK, PluginsOK, PhaseOK,
       MutationsOK, ReadingOK
  <2>. QED BY <2>1, <2>2, <2>3, <2>4
<1>9. ASSUME NEW r \in Runs, InitRun(r) PROVE TypeOK'
  <2>1. DurableOK'
    BY <1>9 DEF InitRun, DurableOK, RunRecords, Status
  <2>2. ScheduleOK'
    BY <1>9 DEF InitRun, Parked, ScheduleOK
  <2>3. PhaseOK'
    BY <1>9 DEF InitRun, PhaseOK
  <2>4. /\ DispatchOK' /\ ExecutionOK' /\ PluginsOK'
       /\ CallersOK' /\ AcceptedOK' /\ MutationsOK' /\ ReadingOK'
    BY <1>9 DEF InitRun, DispatchOK, ExecutionOK, PluginsOK, CallersOK, AcceptedOK,
       MutationsOK, ReadingOK
  <2>. QED BY <2>1, <2>2, <2>3, <2>4
<1>10. ASSUME NEW s \in Slots, ExecBody(s) PROVE TypeOK'
  <2>1. ExecutionOK'
    BY <1>10 DEF ExecBody, ExecStep, ExecutionOK, ExecRecords
  <2>2. /\ DurableOK' /\ DispatchOK' /\ ScheduleOK' /\ PluginsOK'
       /\ CallersOK' /\ PhaseOK' /\ AcceptedOK' /\ MutationsOK' /\ ReadingOK'
    BY <1>10 DEF ExecBody, ExecStep, DurableOK, DispatchOK, ScheduleOK, PluginsOK,
       CallersOK, PhaseOK, AcceptedOK, MutationsOK, ReadingOK
  <2>. QED BY <2>1, <2>2
<1>11. ASSUME NEW s \in Slots, ExecRefused(s) PROVE TypeOK'
  <2>1. ExecutionOK'
    BY <1>11, CatchType DEF ExecRefused
  <2>2. MutationsOK'
    BY <1>11, MutateType, MutationTypes DEF ExecRefused, ExecCatch, ExecutionKinds
  <2>3. /\ DurableOK' /\ DispatchOK' /\ ScheduleOK' /\ PluginsOK'
       /\ CallersOK' /\ PhaseOK' /\ AcceptedOK' /\ ReadingOK'
    BY <1>11 DEF ExecRefused, ExecCatch, DurableOK, DispatchOK, ScheduleOK, PluginsOK,
       CallersOK, PhaseOK, AcceptedOK, ReadingOK
  <2>. QED BY <2>1, <2>2, <2>3
<1>12. ASSUME NEW s \in Slots, BodyFails(s) PROVE TypeOK'
  <2>1. ExecutionOK'
    BY <1>12, CatchType DEF BodyFails
  <2>2. MutationsOK'
    BY <1>12, MutateType, MutationTypes DEF BodyFails, ExecCatch, ExecutionKinds
  <2>3. /\ DurableOK' /\ DispatchOK' /\ ScheduleOK' /\ PluginsOK'
       /\ CallersOK' /\ PhaseOK' /\ AcceptedOK' /\ ReadingOK'
    BY <1>12 DEF BodyFails, ExecCatch, DurableOK, DispatchOK, ScheduleOK, PluginsOK,
       CallersOK, PhaseOK, AcceptedOK, ReadingOK
  <2>. QED BY <2>1, <2>2, <2>3
<1>13. ASSUME NEW s \in Slots, ExecSettled(s) PROVE TypeOK'
  <2>1. ExecutionOK'
    BY <1>13 DEF ExecSettled, ExecStep, ExecutionOK, ExecRecords
  <2>2. /\ DurableOK' /\ DispatchOK' /\ ScheduleOK' /\ PluginsOK'
       /\ CallersOK' /\ PhaseOK' /\ AcceptedOK' /\ MutationsOK' /\ ReadingOK'
    BY <1>13 DEF ExecSettled, ExecStep, DurableOK, DispatchOK, ScheduleOK, PluginsOK,
       CallersOK, PhaseOK, AcceptedOK, MutationsOK, ReadingOK
  <2>. QED BY <2>1, <2>2
<1>14. ASSUME NEW s \in Slots, TaskFinally(s) PROVE TypeOK'
  <2>1. ExecutionOK'
    <3>1. NoExec \in ExecRecords
      BY DEF NoExec, ExecRecords, RunOrNone, RegOrNone
    <3>2. exec' \in [Slots -> ExecRecords] /\ tasks' \in [Runs -> Slots \cup {None}]
      BY <1>14, <3>1 DEF TaskFinally, ExecutionOK
    <3>. QED BY <1>14, <3>2 DEF TaskFinally, ExecutionOK
  <2>2. AcceptedOK'
    BY <1>14 DEF TaskFinally, AcceptedOK, RegOrNone
  <2>3. PluginsOK' /\ ReadingOK'
    <3>1. \A g \in Registrations :
             /\ [disposer[g] EXCEPT !.slots = @ \ {s}] \in DisposerRecords
             /\ [disposer[g] EXCEPT !.slots = @ \ {s}].pc = disposer[g].pc
             /\ [disposer[g] EXCEPT !.slots = @ \ {s}].id = disposer[g].id
      BY DEF PluginsOK, DisposerRecords
    <3>2. \A g \in Registrations :
             disposer'[g] = [disposer[g] EXCEPT !.slots = @ \ {s}]
      BY <1>14 DEF TaskFinally
    <3>3. disposer' \in [Registrations -> DisposerRecords]
      BY <1>14, <3>1 DEF TaskFinally
    <3>. QED BY <1>14, <3>1, <3>2, <3>3 DEF TaskFinally, PluginsOK, ReadingOK
  <2>4. PhaseOK'
    BY <1>14 DEF TaskFinally, PhaseOK, StopRecords
  <2>5. DispatchOK'
    <3>1. activeCount - 1 \in Int
      BY DEF ExecutionOK
    <3>. QED BY <1>14, <2>2, <3>1, PumpType DEF TaskFinally, AcceptedOK, DispatchOK
  <2>6. DurableOK' /\ ScheduleOK' /\ CallersOK' /\ MutationsOK'
    BY <1>14 DEF TaskFinally, DurableOK, ScheduleOK, CallersOK, MutationsOK
  <2>. QED BY <2>1, <2>2, <2>3, <2>4, <2>5, <2>6
<1>15. ASSUME NEW s \in Slots, BodyReturns(s) PROVE TypeOK'
  <2>1. ExecutionOK'
    BY <1>15 DEF BodyReturns, ExecStep, ExecutionOK, ExecRecords
  <2>2. MutationsOK'
    BY <1>15, MutateType, MutationTypes DEF BodyReturns, ExecutionKinds
  <2>3. /\ DurableOK' /\ DispatchOK' /\ ScheduleOK' /\ PluginsOK'
       /\ CallersOK' /\ PhaseOK' /\ AcceptedOK' /\ ReadingOK'
    BY <1>15 DEF BodyReturns, ExecStep, DurableOK, DispatchOK, ScheduleOK, PluginsOK,
       CallersOK, PhaseOK, AcceptedOK, ReadingOK
  <2>. QED BY <2>1, <2>2, <2>3
<1>16. ASSUME NEW g \in Registrations, RecoverContinue(g) PROVE TypeOK'
  <2>1. AcceptedOK'
    BY <1>16 DEF RecoverContinue, AcceptedOK, RegOrNone
  <2>2. ScheduleOK' /\ DispatchOK'
    <3>1. recovery[g].id \in Runs /\ recoverable \ {recovery[g].id} \in SUBSET Runs
      BY <1>16 DEF RecoverContinue, ReadingOK, ScheduleOK
    <3>. QED BY <1>16, <2>1, <3>1, ArmScheduledRunType
            DEF RecoverContinue, AcceptedOK, ScheduleOK, DispatchOK
  <2>3. MutationsOK'
    BY <1>16, MutateType, MutationTypes DEF RecoverContinue, Callers, Kinds,
       CancelKinds, ExecutionKinds, MutationsOK
  <2>4. PluginsOK' /\ ReadingOK'
    <3>1. recoverable' \in SUBSET Runs
      BY <2>2 DEF ScheduleOK
    <3>2. CASE RecoverNext(g, recoverable')
      BY <1>16, <3>1, <3>2, RecoverNextType DEF RecoverContinue, PluginsOK, ReadingOK
    <3>3. CASE recovery' = [recovery EXCEPT ![g] =
                              [pc |-> "done", id |-> None, seen |-> "absent"]]
      <4>1. [pc |-> "done", id |-> None, seen |-> "absent"] \in RecoveryRecords
        BY DEF RecoveryRecords, RunOrNone, Status
      <4>. QED BY <1>16, <3>3, <4>1 DEF RecoverContinue, PluginsOK, ReadingOK
    <3>4. CASE recovery' = [recovery EXCEPT ![g].pc = "failing"]
      BY <1>16, <3>4, RecoveryPcType DEF RecoverContinue, PluginsOK, ReadingOK
    <3>. QED BY <1>16, <3>2, <3>3, <3>4 DEF RecoverContinue
  <2>5. DurableOK' /\ ExecutionOK' /\ CallersOK' /\ PhaseOK'
    BY <1>16 DEF RecoverContinue, DurableOK, ExecutionOK, CallersOK, PhaseOK
  <2>. QED BY <2>1, <2>2, <2>3, <2>4, <2>5
<1>17. ASSUME NEW g \in Registrations, RecoverResume(g) PROVE TypeOK'
  <2>1. PluginsOK' /\ ReadingOK'
    BY <1>17, RecoverNextType DEF RecoverResume, PluginsOK, ReadingOK, ScheduleOK
  <2>2. /\ DurableOK' /\ DispatchOK' /\ ScheduleOK' /\ ExecutionOK'
       /\ CallersOK' /\ PhaseOK' /\ AcceptedOK' /\ MutationsOK'
    BY <1>17 DEF RecoverResume, DurableOK, DispatchOK, ScheduleOK, ExecutionOK,
       CallersOK, PhaseOK, AcceptedOK, MutationsOK
  <2>. QED BY <2>1, <2>2
<1>18. ASSUME NEW g \in Registrations, DisposeAdmitted(g) PROVE TypeOK'
  <2>1. PluginsOK' /\ ReadingOK'
    <3>1. {r \in Runs : accepted[r] = g} \in SUBSET Runs
      OBVIOUS
    <3>. QED BY <1>18, <3>1, DisposeNextType DEF DisposeAdmitted, PluginsOK, ReadingOK
  <2>2. /\ DurableOK' /\ DispatchOK' /\ ScheduleOK' /\ ExecutionOK'
       /\ CallersOK' /\ PhaseOK' /\ AcceptedOK' /\ MutationsOK'
    BY <1>18 DEF DisposeAdmitted, DurableOK, DispatchOK, ScheduleOK, ExecutionOK,
       CallersOK, PhaseOK, AcceptedOK, MutationsOK
  <2>. QED BY <2>1, <2>2
<1>19. ASSUME NEW g \in Registrations, DisposeContinue(g) PROVE TypeOK'
  <2>1. PluginsOK' /\ ReadingOK'
    <3>1. disposer[g].ids \in SUBSET Runs /\ disposer[g].todo \in SUBSET Runs
      BY DEF PluginsOK, DisposerRecords
    <3>2. CASE DisposeNext(g, disposer[g].ids, disposer[g].todo)
      BY <1>19, <3>1, <3>2, DisposeNextType DEF DisposeContinue, PluginsOK, ReadingOK
    <3>3. CASE disposer' = [disposer EXCEPT ![g].pc = "cancelling"]
      BY <1>19, <3>3, DisposerPcType DEF DisposeContinue, PluginsOK, ReadingOK
    <3>. QED BY <1>19, <3>2, <3>3 DEF DisposeContinue
  <2>2. ScheduleOK' /\ DispatchOK'
    <3>1. disposer[g].id \in Runs
      BY <1>19 DEF DisposeContinue, ReadingOK
    <3>2. RemoveQueuedId(disposer[g].id) \in Seq(Runs)
      BY <3>1, RemoveQueuedIdType
    <3>3. DispatchOK'
      BY <1>19, <3>2 DEF DisposeContinue, DispatchOK
    <3>. QED BY <1>19, <3>1, <3>3 DEF DisposeContinue, Parked, ScheduleOK, NoTimer
  <2>3. AcceptedOK'
    BY <1>19 DEF DisposeContinue, AcceptedOK, RegOrNone
  <2>4. MutationsOK'
    BY <1>19, MutateType, MutationTypes DEF DisposeContinue, Callers, Kinds,
       CancelKinds, ExecutionKinds, MutationsOK
  <2>5. DurableOK' /\ ExecutionOK' /\ CallersOK' /\ PhaseOK'
    BY <1>19 DEF DisposeContinue, DurableOK, ExecutionOK, CallersOK, PhaseOK
  <2>. QED BY <2>1, <2>2, <2>3, <2>4, <2>5
<1>20. ASSUME NEW g \in Registrations, DisposeResume(g) PROVE TypeOK'
  <2>1. PluginsOK' /\ ReadingOK'
    <3>1. disposer[g].ids \in SUBSET Runs /\ disposer[g].todo \in SUBSET Runs
      BY DEF PluginsOK, DisposerRecords
    <3>. QED BY <1>20, <3>1, DisposeNextType DEF DisposeResume, PluginsOK, ReadingOK
  <2>2. /\ DurableOK' /\ DispatchOK' /\ ScheduleOK' /\ ExecutionOK'
       /\ CallersOK' /\ PhaseOK' /\ AcceptedOK' /\ MutationsOK'
    BY <1>20 DEF DisposeResume, DurableOK, DispatchOK, ScheduleOK, ExecutionOK,
       CallersOK, PhaseOK, AcceptedOK, MutationsOK
  <2>. QED BY <2>1, <2>2
<1>21. ASSUME NEW g \in Registrations, DisposeDrained(g) PROVE TypeOK'
  <2>1. PluginsOK' /\ ReadingOK'
    BY <1>21, DisposerPcType DEF DisposeDrained, PluginsOK, ReadingOK
  <2>2. /\ DurableOK' /\ DispatchOK' /\ ScheduleOK' /\ ExecutionOK'
       /\ CallersOK' /\ PhaseOK' /\ AcceptedOK' /\ MutationsOK'
    BY <1>21 DEF DisposeDrained, DurableOK, DispatchOK, ScheduleOK, ExecutionOK,
       CallersOK, PhaseOK, AcceptedOK, MutationsOK
  <2>. QED BY <2>1, <2>2
<1>22. CASE DrainContinue
  <2>1. DispatchOK'
    BY <1>22, DrainLoopType DEF DrainContinue, DispatchOK, AcceptedOK, ExecutionOK
  <2>2. ExecutionOK'
    <3>1. \A s \in Slots : [pc |-> "starting", run |-> drain.id, reg |-> drain.reg,
                          aborted |-> FALSE] \in ExecRecords
      BY DEF DispatchOK, DrainRecords, ExecRecords
    <3>2. exec' \in [Slots -> ExecRecords]
      BY <1>22, <3>1 DEF DrainContinue, ExecutionOK
    <3>3. /\ tasks' \in [Runs -> Slots \cup {None}]
          /\ controllers' \in [Runs -> Slots \cup {None}]
      BY <1>22 DEF DrainContinue, ExecutionOK
    <3>. QED BY <1>22, <3>2, <3>3 DEF DrainContinue, ExecutionOK
  <2>3. MutationsOK'
    BY <1>22, MutateType, MutationTypes DEF DrainContinue, ExecutionKinds, MutationsOK
  <2>4. /\ DurableOK' /\ ScheduleOK' /\ PluginsOK'
       /\ CallersOK' /\ PhaseOK' /\ AcceptedOK' /\ ReadingOK'
    BY <1>22 DEF DrainContinue, DurableOK, ScheduleOK, PluginsOK, CallersOK, PhaseOK,
       AcceptedOK, ReadingOK
  <2>. QED BY <2>1, <2>2, <2>3, <2>4
<1>23. CASE DrainFinally
  <2>1. DispatchOK'
    BY <1>23, DrainLoopType DEF DrainFinally, DispatchOK, AcceptedOK, ExecutionOK
  <2>2. /\ DurableOK' /\ ScheduleOK' /\ ExecutionOK' /\ PluginsOK'
       /\ CallersOK' /\ PhaseOK' /\ AcceptedOK' /\ MutationsOK' /\ ReadingOK'
    BY <1>23 DEF DrainFinally, DurableOK, ScheduleOK, ExecutionOK, PluginsOK,
       CallersOK, PhaseOK, AcceptedOK, MutationsOK, ReadingOK
  <2>. QED BY <2>1, <2>2
<1>24. CASE StopAbort
  <2>1. ExecutionOK'
    BY <1>24, AbortedType DEF StopAbort, ExecutionOK
  <2>2. PhaseOK'
    <3>1. TasksOf(Runs) \in SUBSET Slots
      BY DEF TasksOf, ExecutionOK
    <3>. QED BY <1>24, <3>1 DEF StopAbort, PhaseOK, StopRecords
  <2>3. /\ DurableOK' /\ DispatchOK' /\ ScheduleOK' /\ PluginsOK'
       /\ CallersOK' /\ AcceptedOK' /\ MutationsOK' /\ ReadingOK'
    BY <1>24 DEF StopAbort, DurableOK, DispatchOK, ScheduleOK, PluginsOK, CallersOK,
       AcceptedOK, MutationsOK, ReadingOK
  <2>. QED BY <2>1, <2>2, <2>3
<1>25. CASE StopTasks
  <2>1. PhaseOK'
    <3>1. [r \in Runs |-> Len(mutations[r])] \in [Runs -> Nat]
      BY LenProperties DEF MutationsOK
    <3>. QED BY <1>25, <3>1 DEF StopTasks, PhaseOK, StopRecords
  <2>2. /\ DurableOK' /\ DispatchOK' /\ ScheduleOK' /\ ExecutionOK'
       /\ PluginsOK' /\ CallersOK' /\ AcceptedOK' /\ MutationsOK' /\ ReadingOK'
    BY <1>25 DEF StopTasks, DurableOK, DispatchOK, ScheduleOK, ExecutionOK, PluginsOK,
       CallersOK, AcceptedOK, MutationsOK, ReadingOK
  <2>. QED BY <2>1, <2>2
<1>26. CASE StopEnd
  <2>1. PhaseOK'
    BY <1>26 DEF StopEnd, PhaseOK, StopRecords
  <2>2. /\ DurableOK' /\ DispatchOK' /\ ScheduleOK' /\ ExecutionOK'
       /\ PluginsOK' /\ CallersOK' /\ AcceptedOK' /\ MutationsOK' /\ ReadingOK'
    BY <1>26 DEF StopEnd, DurableOK, DispatchOK, ScheduleOK, ExecutionOK, PluginsOK,
       CallersOK, AcceptedOK, MutationsOK, ReadingOK
  <2>. QED BY <2>1, <2>2
<1>27. CASE Boot
  <2>1. DurableOK'
    BY <1>27 DEF Boot, DurableOK
  <2>2. DispatchOK'
    BY <1>27 DEF Boot, Fresh, DispatchOK, NoRead, DrainRecords, RunOrNone, RegOrNone,
       Status
  <2>3. ScheduleOK' /\ AcceptedOK' /\ MutationsOK'
    BY <1>27 DEF Boot, Fresh, ScheduleOK, AcceptedOK, MutationsOK, NoTimer, RegOrNone
  <2>4. ExecutionOK'
    BY <1>27 DEF Boot, Fresh, ExecutionOK, NoExec, ExecRecords, RunOrNone, RegOrNone
  <2>5. PluginsOK'
    BY <1>27 DEF Boot, Fresh, PluginsOK, NoRecovery, NoDisposer, RecoveryRecords,
       DisposerRecords, RunOrNone, RegOrNone, Status
  <2>6. ReadingOK'
    BY <1>27 DEF Boot, Fresh, ReadingOK, NoRecovery, NoDisposer
  <2>7. CallersOK'
    BY <1>27 DEF Boot, Fresh, CallersOK, AdmissionRecords, RegOrNone
  <2>8. PhaseOK'
    BY <1>27 DEF Boot, Fresh, PhaseOK, StopRecords
  <2>. QED BY <2>1, <2>2, <2>3, <2>4, <2>5, <2>6, <2>7, <2>8
<1>28. CASE Crash
  <2>1. DurableOK'
    BY <1>28 DEF Crash, DurableOK
  <2>2. DispatchOK'
    BY <1>28 DEF Crash, Fresh, DispatchOK, NoRead, DrainRecords, RunOrNone, RegOrNone,
       Status
  <2>3. ScheduleOK' /\ AcceptedOK' /\ MutationsOK'
    BY <1>28 DEF Crash, Fresh, ScheduleOK, AcceptedOK, MutationsOK, NoTimer, RegOrNone
  <2>4. ExecutionOK'
    BY <1>28 DEF Crash, Fresh, ExecutionOK, NoExec, ExecRecords, RunOrNone, RegOrNone
  <2>5. PluginsOK'
    BY <1>28 DEF Crash, Fresh, PluginsOK, NoRecovery, NoDisposer, RecoveryRecords,
       DisposerRecords, RunOrNone, RegOrNone, Status
  <2>6. ReadingOK'
    BY <1>28 DEF Crash, Fresh, ReadingOK, NoRecovery, NoDisposer
  <2>7. CallersOK'
    BY <1>28 DEF Crash, Fresh, CallersOK, AdmissionRecords, RegOrNone
  <2>8. PhaseOK'
    BY <1>28 DEF Crash, Fresh, PhaseOK, StopRecords
  <2>. QED BY <2>1, <2>2, <2>3, <2>4, <2>5, <2>6, <2>7, <2>8
<1>29. CASE InitDone
  <2>1. DispatchOK'
    BY <1>29, PumpType DEF InitDone, DispatchOK, AcceptedOK, ExecutionOK
  <2>2. PhaseOK'
    BY <1>29 DEF InitDone, PhaseOK
  <2>3. /\ DurableOK' /\ ScheduleOK' /\ ExecutionOK' /\ PluginsOK'
       /\ CallersOK' /\ AcceptedOK' /\ MutationsOK' /\ ReadingOK'
    BY <1>29 DEF InitDone, DurableOK, ScheduleOK, ExecutionOK, PluginsOK, CallersOK,
       AcceptedOK, MutationsOK, ReadingOK
  <2>. QED BY <2>1, <2>2, <2>3
<1>30. ASSUME NEW r \in Runs, NEW g \in Registrations, NEW at \in Schedules,
              Start(r, g, at)
       PROVE  TypeOK'
  <2>1. DurableOK'
    BY <1>30, ConstantTypes, RuntimeConstants DEF Start, DurableOK, RunRecords, Status
  <2>2. CallersOK'
    BY <1>30 DEF Start, CallersOK, AdmissionRecords, RegOrNone
  <2>3. /\ DispatchOK' /\ ScheduleOK' /\ ExecutionOK' /\ PluginsOK'
       /\ PhaseOK' /\ AcceptedOK' /\ MutationsOK' /\ ReadingOK'
    BY <1>30 DEF Start, DispatchOK, ScheduleOK, ExecutionOK, PluginsOK, PhaseOK,
       AcceptedOK, MutationsOK, ReadingOK
  <2>. QED BY <2>1, <2>2, <2>3
<1>31. ASSUME NEW r \in Runs, Cancel(r) PROVE TypeOK'
  <2>1. MutationsOK'
    BY <1>31, MutateType, MutationTypes DEF Cancel, UserCommand, Callers, Kinds,
       CancelKinds, ExecutionKinds
  <2>2. /\ DurableOK' /\ DispatchOK' /\ ScheduleOK' /\ ExecutionOK'
       /\ PluginsOK' /\ CallersOK' /\ PhaseOK' /\ AcceptedOK' /\ ReadingOK'
    BY <1>31 DEF Cancel, UserCommand, DurableOK, DispatchOK, ScheduleOK, ExecutionOK,
       PluginsOK, CallersOK, PhaseOK, AcceptedOK, ReadingOK
  <2>. QED BY <2>1, <2>2
<1>32. ASSUME NEW r \in Runs, Review(r) PROVE TypeOK'
  <2>1. MutationsOK'
    BY <1>32, MutateType, MutationTypes DEF Review, UserCommand, Callers, Kinds,
       CancelKinds, ExecutionKinds
  <2>2. /\ DurableOK' /\ DispatchOK' /\ ScheduleOK' /\ ExecutionOK'
       /\ PluginsOK' /\ CallersOK' /\ PhaseOK' /\ AcceptedOK' /\ ReadingOK'
    BY <1>32 DEF Review, UserCommand, DurableOK, DispatchOK, ScheduleOK, ExecutionOK,
       PluginsOK, CallersOK, PhaseOK, AcceptedOK, ReadingOK
  <2>. QED BY <2>1, <2>2
<1>33. ASSUME NEW g \in Registrations, Register(g) PROVE TypeOK'
  <2>1. PluginsOK' /\ ReadingOK'
    <3>1. recovery' \in [Registrations -> RecoveryRecords]
      BY <1>33, RecoverNextType DEF Register, PluginsOK, ScheduleOK
    <3>2. definitions' \in [Workflows -> RegOrNone]
      BY <1>33 DEF Register, PluginsOK, RegOrNone
    <3>. QED BY <1>33, <3>1, <3>2, RecoverNextType, DisposerPcType
            DEF Register, PluginsOK, ReadingOK, ScheduleOK
  <2>2. /\ DurableOK' /\ DispatchOK' /\ ScheduleOK' /\ ExecutionOK'
       /\ CallersOK' /\ PhaseOK' /\ AcceptedOK' /\ MutationsOK'
    BY <1>33 DEF Register, DurableOK, DispatchOK, ScheduleOK, ExecutionOK, CallersOK,
       PhaseOK, AcceptedOK, MutationsOK
  <2>. QED BY <2>1, <2>2
<1>34. ASSUME NEW g \in Registrations, Dispose(g) PROVE TypeOK'
  <2>1. PluginsOK' /\ ReadingOK'
    <3>1. Admitting \in SUBSET Runs /\ Recovering \in SUBSET Registrations
      BY DEF Admitting, Recovering
    <3>2. definitions' \in [Workflows -> RegOrNone]
      BY <1>34 DEF Dispose, PluginsOK, RegOrNone
    <3> DEFINE x == [disposer[g] EXCEPT !.pc = "admissions", !.wait = Admitting,
                                        !.waitRec = Recovering]
    <3>0. disposer[g] \in DisposerRecords
      BY <1>34 DEF PluginsOK
    <3>3. x \in DisposerRecords /\ x.pc # "reading"
      BY <3>0, <3>1 DEF DisposerRecords
    <3>4. disposer' = [disposer EXCEPT ![g] = x]
      BY <1>34 DEF Dispose, PluginsOK
    <3> HIDE DEF x
    <3>5. disposer' \in [Registrations -> DisposerRecords]
      BY <3>3, <3>4 DEF PluginsOK
    <3>6. \A h \in Registrations : disposer'[h].pc = "reading" => disposer'[h].id \in Runs
      BY <3>3, <3>4 DEF PluginsOK, ReadingOK
    <3>. QED BY <1>34, <3>2, <3>5, <3>6 DEF Dispose, PluginsOK, ReadingOK
  <2>2. /\ DurableOK' /\ DispatchOK' /\ ScheduleOK' /\ ExecutionOK'
       /\ CallersOK' /\ PhaseOK' /\ AcceptedOK' /\ MutationsOK'
    BY <1>34 DEF Dispose, DurableOK, DispatchOK, ScheduleOK, ExecutionOK, CallersOK,
       PhaseOK, AcceptedOK, MutationsOK
  <2>. QED BY <2>1, <2>2
<1>35. CASE StopBegin
  <2>1. PhaseOK'
    BY <1>35 DEF StopBegin, PhaseOK, StopRecords
  <2>2. ScheduleOK'
    BY <1>35 DEF StopBegin, ScheduleOK, NoTimer
  <2>3. /\ DurableOK' /\ DispatchOK' /\ ExecutionOK' /\ PluginsOK'
       /\ CallersOK' /\ AcceptedOK' /\ MutationsOK' /\ ReadingOK'
    BY <1>35 DEF StopBegin, DurableOK, DispatchOK, ExecutionOK, PluginsOK, CallersOK,
       AcceptedOK, MutationsOK, ReadingOK
  <2>. QED BY <2>1, <2>2, <2>3
<1>36. CASE Tick
  <2>1. DurableOK'
    BY <1>36 DEF Tick, DurableOK
  <2>2. /\ DispatchOK' /\ ScheduleOK' /\ ExecutionOK' /\ PluginsOK'
       /\ CallersOK' /\ PhaseOK' /\ AcceptedOK' /\ MutationsOK' /\ ReadingOK'
    BY <1>36 DEF Tick, DispatchOK, ScheduleOK, ExecutionOK, PluginsOK, CallersOK,
       PhaseOK, AcceptedOK, MutationsOK, ReadingOK
  <2>. QED BY <2>1, <2>2
<1>37. ASSUME NEW r \in Runs, ReleaseFails(r) PROVE TypeOK'
  <2>1. CallersOK'
    BY <1>37 DEF ReleaseFails, CallersOK
  <2>2. /\ DurableOK' /\ DispatchOK' /\ ScheduleOK' /\ ExecutionOK' /\ PluginsOK'
       /\ PhaseOK' /\ AcceptedOK' /\ MutationsOK' /\ ReadingOK'
    BY <1>37 DEF ReleaseFails, DurableOK, DispatchOK, ScheduleOK, ExecutionOK, PluginsOK,
       PhaseOK, AcceptedOK, MutationsOK, ReadingOK
  <2>. QED BY <2>1, <2>2
<1>38. ASSUME NEW s \in Slots, ExecUnread(s) PROVE TypeOK'
  <2>1. ExecutionOK'
    BY <1>38, CatchType DEF ExecUnread
  <2>2. MutationsOK'
    BY <1>38, MutateType, MutationTypes DEF ExecUnread, ExecCatch, ExecutionKinds
  <2>3. /\ DurableOK' /\ DispatchOK' /\ ScheduleOK' /\ PluginsOK'
       /\ CallersOK' /\ PhaseOK' /\ AcceptedOK' /\ ReadingOK'
    BY <1>38 DEF ExecUnread, ExecCatch, DurableOK, DispatchOK, ScheduleOK, PluginsOK,
       CallersOK, PhaseOK, AcceptedOK, ReadingOK
  <2>. QED BY <2>1, <2>2, <2>3
<1>39. ASSUME NEW g \in Registrations, RecoverFails(g) PROVE TypeOK'
  <2>1. PluginsOK' /\ ReadingOK'
    BY <1>39, RecoveryPcType DEF RecoverFails, PluginsOK, ReadingOK
  <2>2. /\ DurableOK' /\ DispatchOK' /\ ScheduleOK' /\ ExecutionOK'
       /\ CallersOK' /\ PhaseOK' /\ AcceptedOK' /\ MutationsOK'
    BY <1>39 DEF RecoverFails, DurableOK, DispatchOK, ScheduleOK, ExecutionOK,
       CallersOK, PhaseOK, AcceptedOK, MutationsOK
  <2>. QED BY <2>1, <2>2
<1>40. ASSUME NEW g \in Registrations, DisposeFails(g) PROVE TypeOK'
  <2>1. PluginsOK' /\ ReadingOK'
    BY <1>40, DisposerPcType DEF DisposeFails, PluginsOK, ReadingOK
  <2>2. /\ DurableOK' /\ DispatchOK' /\ ScheduleOK' /\ ExecutionOK'
       /\ CallersOK' /\ PhaseOK' /\ AcceptedOK' /\ MutationsOK'
    BY <1>40 DEF DisposeFails, DurableOK, DispatchOK, ScheduleOK, ExecutionOK,
       CallersOK, PhaseOK, AcceptedOK, MutationsOK
  <2>. QED BY <2>1, <2>2
<1>41. CASE DrainFails
  <2>1. DispatchOK'
    BY <1>41 DEF DrainFails, NoRead, DispatchOK, DrainRecords, RunOrNone, RegOrNone, Status
  <2>2. /\ DurableOK' /\ ScheduleOK' /\ ExecutionOK' /\ PluginsOK'
       /\ CallersOK' /\ PhaseOK' /\ AcceptedOK' /\ MutationsOK' /\ ReadingOK'
    BY <1>41 DEF DrainFails, DurableOK, ScheduleOK, ExecutionOK, PluginsOK,
       CallersOK, PhaseOK, AcceptedOK, MutationsOK, ReadingOK
  <2>. QED BY <2>1, <2>2
<1>42. CASE UNCHANGED vars
  BY <1>42 DEF DurableOK, DispatchOK, ScheduleOK, ExecutionOK, PluginsOK, CallersOK,
     PhaseOK, AcceptedOK, MutationsOK, ReadingOK
<1>. QED
  BY <1>1, <1>2, <1>3, <1>4, <1>5, <1>6, <1>7, <1>8, <1>9, <1>10, <1>11, <1>12, <1>13,
     <1>14, <1>15, <1>16, <1>17, <1>18, <1>19, <1>20, <1>21, <1>22, <1>23, <1>24,
     <1>25, <1>26, <1>27, <1>28, <1>29, <1>30, <1>31, <1>32, <1>33, <1>34, <1>35,
     <1>36, <1>37, <1>38, <1>39, <1>40, <1>41, <1>42
     DEF Next, RunStep, ExecutionStep, BodyStep, PluginStep, HostStep, Environment

\* Every variable keeps its shape in every behaviour.
THEOREM TypeCorrect == Spec => []TypeOK
<1>. QED BY TypeInit, TypeStep, PTL DEF Spec

-----------------------------------------------------------------------------
(* No run starts before its schedule *)

\* NeverEarly is not inductive: a run becomes "running" when an update
\* that an execution asked for commits, long after its schedule was looked
\* at.  The clock does not go back and a stored run keeps its schedule, so
\* "due" is stable, and whatever carries a run from the timer to that
\* update carries a run that is due: the queue, the pump's read, the
\* chained update.  What enters the queue without a look at the clock is
\* an immediate run, or one read from the repository.

Stored(r) == run[r].status # "absent"
Ready(r)  == Stored(r) /\ run[r].scheduledFor <= now

AllReady(queue) == \A i \in 1 .. Len(queue) : Ready(queue[i])
QueueReady == AllReady(queuedIds)
DrainReady == drain.pc = "reading" => drain.id \in Runs /\ Ready(drain.id)
StartReady ==
    \A r \in Runs : \A i \in 1 .. Len(mutations[r]) :
        mutations[r][i].kind = "start" => Ready(r)
HolderStored ==
    /\ \A r \in Runs : admission[r].pc = "creating" => Stored(r)
    /\ \A r \in Runs : release[r] = "queued" => Stored(r)
    /\ \A g \in Registrations :
          recovery[g].pc = "reading" /\ recovery[g].seen = "queued" => Stored(recovery[g].id)

EarlyInv ==
    TypeOK /\ NeverEarly /\ QueueReady /\ DrainReady /\ StartReady /\ HolderStored

-----------------------------------------------------------------------------
(* "Stored" and "due" are stable. *)

\* What a step may do to the durable state.
LEMMA DurableSteps ==
    ASSUME [Next]_vars
    PROVE  \/ UNCHANGED <<run, now>>
           \/ Tick
           \/ \E r \in Runs : (Commits(r) \/ InitRun(r)) /\ now' = now
           \/ \E r \in Runs, g \in Registrations, at \in Schedules : Start(r, g, at)
<1>. USE DEF vars, beyondPlugins, beyondHost, durable
<1>1. ASSUME NEW r \in Runs, RunStep(r)
      PROVE  UNCHANGED <<run, now>> \/ ((Commits(r) \/ InitRun(r)) /\ now' = now)
  BY <1>1 DEF RunStep, AdmissionContinue, CommitExecution, CommitCancel, CommitApproval,
     CommitExpiry, CancelContinue, TimerFires, ReleaseContinue, ReleaseFails, InitRun, Commits
<1>2. ASSUME NEW s \in Slots, ExecutionStep(s) \/ BodyStep(s)
      PROVE  UNCHANGED <<run, now>>
  BY <1>2 DEF ExecutionStep, BodyStep, ExecBody, ExecRefused, ExecUnread, ExecSettled,
     TaskFinally, BodyReturns, BodyFails, ExecStep, ExecCatch
<1>3. ASSUME NEW g \in Registrations, PluginStep(g)
      PROVE  UNCHANGED <<run, now>>
  BY <1>3 DEF PluginStep, RecoverContinue, RecoverResume, DisposeAdmitted,
     DisposeContinue, DisposeResume, DisposeDrained, RecoverFails, DisposeFails
<1>4. HostStep => UNCHANGED <<run, now>>
  BY DEF HostStep, DrainContinue, DrainFails, DrainFinally, StopAbort, StopTasks, StopEnd,
     Boot, InitDone
<1>5. ASSUME Environment
      PROVE  \/ UNCHANGED <<run, now>>
             \/ \E r \in Runs, g \in Registrations, at \in Schedules : Start(r, g, at)
  BY <1>5 DEF Environment, Cancel, Review, UserCommand, Register, Dispose, StopBegin, Crash
<1>. QED BY <1>1, <1>2, <1>3, <1>4, <1>5 DEF Next

\* What a run was created with.
SameOrder(r) ==
    /\ run'[r].scheduledFor = run[r].scheduledFor
    /\ run'[r].workflow = run[r].workflow
    /\ run'[r].version = run[r].version

\* A stored run stays stored, and keeps what it was created with.
LEMMA StoredKept ==
    ASSUME TypeOK, [Next]_vars, NEW r \in Runs, Stored(r)
    PROVE  Stored(r)' /\ SameOrder(r)
<1>1. run \in [Runs -> RunRecords] /\ \A q \in Runs : run[q] \in RunRecords
  BY DEF TypeOK, DurableOK
<1>2. ASSUME NEW q \in Runs, NEW status \in Status \ {"absent"},
             run' = [run EXCEPT ![q].status = status]
      PROVE  Stored(r)' /\ SameOrder(r)
  BY <1>1, <1>2 DEF Stored, SameOrder, RunRecords
<1>3. ASSUME NEW q \in Runs, Commits(q)
      PROVE  Stored(r)' /\ SameOrder(r)
  <2> DEFINE kind == Head(mutations[q]).kind
  <2>1. kind \in Kinds /\ run[q].status \in Status
    BY <1>3, CommittingType, RunType DEF Commits, Mutations, Kinds
  <2>2. run' = run
        \/ (run' = [run EXCEPT ![q].status = Result(kind, run[q].status)])
    BY <1>3 DEF Commits, Committing
  <2>3. Result(kind, run[q].status) \in Status
    BY <2>1, OutcomeType
  <2>4. Result(kind, run[q].status) # "absent" \/ run[q].status = "absent"
    BY <2>1 DEF Result, Outcome, Kinds, ExecutionKinds, CancelKinds
  <2> HIDE DEF kind
  <2>5. CASE run[q].status = "absent"
    <3>1. r # q
      BY <2>5 DEF Stored
    <3>. QED BY <3>1, <2>2, <1>1 DEF Stored, SameOrder
  <2>. QED BY <2>2, <2>3, <2>4, <2>5, <1>2 DEF Stored, SameOrder
<1>4. ASSUME NEW q \in Runs, InitRun(q)
      PROVE  Stored(r)' /\ SameOrder(r)
  BY <1>4, <1>2 DEF InitRun, Stored, SameOrder, Status
<1>5. ASSUME NEW q \in Runs, NEW g \in Registrations, NEW at \in Schedules, Start(q, g, at)
      PROVE  Stored(r)' /\ SameOrder(r)
  BY <1>5, <1>1 DEF Start, Stored, SameOrder
<1>6. CASE UNCHANGED run
  BY <1>6 DEF Stored, SameOrder
<1>. QED BY <1>3, <1>4, <1>5, <1>6, DurableSteps DEF Tick

\* A run that is due stays due, for the clock does not go back.
LEMMA ReadyKept ==
    ASSUME TypeOK, [Next]_vars
    PROVE  /\ now' >= now
           /\ \A r \in Runs : Stored(r) => Stored(r)'
           /\ \A r \in Runs : Ready(r) => Ready(r)'
<1>1. now \in Nat /\ \A r \in Runs : run[r].scheduledFor \in Nat
  BY RunType DEF TypeOK, DurableOK
<1>2. now' \in Nat /\ now' >= now
  BY <1>1, DurableSteps DEF Tick, Start
<1>. QED BY <1>1, <1>2, StoredKept DEF Ready, SameOrder

-----------------------------------------------------------------------------
(* What the queue operations put into the queue and into the pump's read. *)

\* drainQueue reads a run of its queue.
LEMMA DrainLoopReady ==
    ASSUME NEW queue \in Seq(Runs), AllReady(queue), NEW acc, NEW active,
           NEW otherwise \in {"idle", "exiting"}, UNCHANGED <<run, now>>,
           DrainLoop(queue, acc, active, otherwise)
    PROVE  QueueReady' /\ DrainReady'
<1>. USE DEF Ready, Stored
<1>1. CASE MayDispatch(queue, active)
  <2>1. queue # << >> /\ queuedIds' = Tail(queue)
    BY <1>1 DEF MayDispatch, DrainLoop, Shifted
  <2>2. /\ Head(queue) \in Runs /\ Head(queue) = queue[1] /\ Len(queue) >= 1
        /\ Len(Tail(queue)) = Len(queue) - 1
        /\ \A i \in 1 .. Len(Tail(queue)) : Tail(queue)[i] = queue[i + 1]
    BY <2>1
  <2>3. QueueReady'
    <3>1. ASSUME NEW i \in 1 .. Len(Tail(queue)) PROVE i + 1 \in 1 .. Len(queue)
      BY <2>2
    <3>. QED BY <2>1, <2>2, <3>1 DEF QueueReady, AllReady
  <2>4. drain'.id = Head(queue)
    BY <1>1 DEF DrainLoop
  <2>5. 1 \in 1 .. Len(queue)
    BY <2>2
  <2>6. DrainReady'
    BY <2>2, <2>4, <2>5 DEF DrainReady, AllReady
  <2>. QED BY <2>3, <2>6
<1>2. CASE ~MayDispatch(queue, active)
  BY <1>2 DEF DrainLoop, QueueReady, AllReady, DrainReady, NoRead
<1>. QED BY <1>1, <1>2

\* So does pump(), or it leaves the read in flight alone.
LEMMA PumpReady ==
    ASSUME NEW queue \in Seq(Runs), AllReady(queue), NEW acc, NEW active,
           DrainReady, UNCHANGED <<run, now>>, Pump(queue, acc, active)
    PROVE  QueueReady' /\ DrainReady'
<1>1. CASE drain.pc = "idle"
  BY <1>1, DrainLoopReady DEF Pump
<1>2. CASE drain.pc # "idle"
  BY <1>2 DEF Pump, QueueReady, AllReady, DrainReady, Ready, Stored
<1>. QED BY <1>1, <1>2

\* enqueueRun may be given any run that is due.
LEMMA EnqueueRunReady ==
    ASSUME DispatchOK, QueueReady, DrainReady, NEW r \in Runs, Ready(r), NEW acc,
           UNCHANGED <<run, now>>, EnqueueRun(r, acc)
    PROVE  QueueReady' /\ DrainReady'
<1> DEFINE queue == IF Queued(r) THEN queuedIds ELSE Append(queuedIds, r)
<1>1. queue \in Seq(Runs)
  BY DEF DispatchOK
<1>2. AllReady(queue)
  BY DEF QueueReady, AllReady, DispatchOK
<1>3. Pump(queue, acc, activeCount)
  BY DEF EnqueueRun
<1> HIDE DEF queue
<1>. QED BY <1>1, <1>2, <1>3, PumpReady

\* armScheduledRun enqueues its run only when it is due.
LEMMA ArmScheduledRunReady ==
    ASSUME DispatchOK, QueueReady, DrainReady, NEW r \in Runs, Stored(r), NEW acc, NEW rec,
           UNCHANGED <<run, now>>, ArmScheduledRun(r, acc, rec)
    PROVE  QueueReady' /\ DrainReady'
<1>1. CASE Due(r)
  BY <1>1, EnqueueRunReady DEF ArmScheduledRun, Due, Ready
<1>2. CASE ~Due(r)
  BY <1>2 DEF ArmScheduledRun, dispatch, QueueReady, AllReady, DrainReady, Ready, Stored
<1>. QED BY <1>1, <1>2

\* removeQueuedId adds nothing to the queue.
LEMMA RemoveQueuedIdReady ==
    ASSUME DispatchOK, QueueReady, NEW r \in Runs
    PROVE  AllReady(RemoveQueuedId(r))
<1>1. CASE ~Queued(r)
  BY <1>1 DEF RemoveQueuedId, QueueReady
<1>2. CASE Queued(r)
  <2> DEFINE i == CHOOSE j \in DOMAIN queuedIds : queuedIds[j] = r
             front == SubSeq(queuedIds, 1, i - 1)
             back == SubSeq(queuedIds, i + 1, Len(queuedIds))
  <2>1. i \in 1 .. Len(queuedIds)
    BY <1>2 DEF Queued, DispatchOK
  <2>2. RemoveQueuedId(r) = front \o back
    BY <1>2 DEF RemoveQueuedId
  <2>3. \A j \in 1 .. Len(queuedIds) : queuedIds[j] \in Runs /\ Ready(queuedIds[j])
    BY DEF DispatchOK, QueueReady, AllReady
  <2> HIDE DEF i
  <2>4. i \in Int /\ i - 1 \in Int /\ i + 1 \in Int /\ Len(queuedIds) \in Nat
    BY <2>1 DEF DispatchOK
  <2>5. front \in Seq(Runs) /\ \A j \in 1 .. Len(front) : Ready(front[j])
    <3>1. \A j \in 1 .. i - 1 : queuedIds[j] \in Runs /\ Ready(queuedIds[j])
      BY <2>1, <2>3, <2>4
    <3>2. /\ front \in Seq(Runs)
          /\ Len(front) = i - 1
          /\ \A j \in 1 .. i - 1 : front[j] = queuedIds[j]
      BY <2>1, <2>4, <3>1, SubSeqProperties
    <3>. QED BY <3>1, <3>2
  <2>6. back \in Seq(Runs) /\ \A j \in 1 .. Len(back) : Ready(back[j])
    <3>1. \A j \in i + 1 .. Len(queuedIds) : queuedIds[j] \in Runs /\ Ready(queuedIds[j])
      BY <2>1, <2>3, <2>4
    <3>2. /\ back \in Seq(Runs)
          /\ Len(back) = Len(queuedIds) - i
          /\ \A j \in 1 .. Len(queuedIds) - i : back[j] = queuedIds[i + j]
      BY <2>1, <2>4, <3>1, SubSeqProperties
    <3>3. \A j \in 1 .. Len(queuedIds) - i : i + j \in i + 1 .. Len(queuedIds)
      BY <2>1, <2>4
    <3>. QED BY <3>1, <3>2, <3>3
  <2> HIDE DEF front, back
  <2>7. \A j \in 1 .. Len(front \o back) : Ready((front \o back)[j])
    BY <2>5, <2>6
  <2>. QED BY <2>2, <2>7 DEF AllReady
<1>. QED BY <1>1, <1>2

-----------------------------------------------------------------------------
(* What an action may do to the chains. *)

\* A chained start is that of a due run.
LEMMA MutateReady ==
    ASSUME MutationsOK, StartReady, NEW r \in Runs, NEW kind, NEW caller,
           [kind |-> kind, by |-> caller] \in Mutations, kind = "start" => Ready(r),
           \A q \in Runs : Ready(q) => Ready(q)', Mutate(r, kind, caller)
    PROVE  StartReady'
<1> DEFINE m == [kind |-> kind, by |-> caller]
<1>1. m.kind = "start" => Ready(r)
  OBVIOUS
<1>2. mutations' = [mutations EXCEPT ![r] = Append(@, m)]
  BY DEF Mutate
<1> HIDE DEF m
<1>3. ASSUME NEW q \in Runs, NEW i \in 1 .. Len(mutations'[q]), mutations'[q][i].kind = "start"
      PROVE  Ready(q)
  <2>1. mutations[q] \in Seq(Mutations)
    BY DEF MutationsOK
  <2>2. CASE q = r
    <3>1. mutations'[q] = Append(mutations[q], m)
      BY <1>2, <2>2 DEF MutationsOK
    <3>2. /\ Len(mutations'[q]) = Len(mutations[q]) + 1
          /\ \A j \in 1 .. Len(mutations[q]) : mutations'[q][j] = mutations[q][j]
          /\ mutations'[q][Len(mutations[q]) + 1] = m
      BY <2>1, <3>1
    <3>3. i \in 1 .. Len(mutations[q]) \/ i = Len(mutations[q]) + 1
      BY <2>1, <3>2
    <3>. QED BY <1>1, <1>3, <2>2, <3>2, <3>3 DEF StartReady
  <2>3. CASE q # r
    BY <1>2, <1>3, <2>3 DEF MutationsOK, StartReady
  <2>. QED BY <2>2, <2>3
<1>. QED BY <1>3 DEF StartReady

\* A commit only shortens a chain.
LEMMA CommittingReady ==
    ASSUME TypeOK, StartReady, NEW r \in Runs, Commits(r),
           \A q \in Runs : Ready(q) => Ready(q)'
    PROVE  StartReady'
<1>1. mutations[r] \in Seq(Mutations) /\ mutations[r] # << >>
  BY DEF TypeOK, MutationsOK, Commits, Committing
<1>2. mutations' = [mutations EXCEPT ![r] = Tail(@)]
  BY DEF Commits, Committing
<1>3. /\ Len(Tail(mutations[r])) = Len(mutations[r]) - 1
      /\ \A i \in 1 .. Len(Tail(mutations[r])) :
            /\ i + 1 \in 1 .. Len(mutations[r])
            /\ Tail(mutations[r])[i] = mutations[r][i + 1]
  BY <1>1
<1>. QED BY <1>2, <1>3 DEF StartReady, TypeOK, MutationsOK

\* A commit never starts a run that is not due.
LEMMA CommittingNotEarly ==
    ASSUME TypeOK, NeverEarly, StartReady, NEW r \in Runs, Commits(r), now' = now
    PROVE  NeverEarly'
<1> DEFINE kind == Head(mutations[r]).kind
<1>1. kind \in Kinds /\ run[r].status \in Status
  BY CommittingType, RunType DEF Commits, Mutations, Kinds
<1>2. kind = "start" => Ready(r)
  <2>1. mutations[r] \in Seq(Mutations) /\ mutations[r] # << >>
    BY DEF TypeOK, MutationsOK, Commits, Committing
  <2>2. 1 \in 1 .. Len(mutations[r]) /\ Head(mutations[r]) = mutations[r][1]
    BY <2>1
  <2>. QED BY <2>2 DEF StartReady
<1>3. \/ run' = run
      \/ /\ Accepts(kind, run[r].status)
         /\ run' = [run EXCEPT ![r].status = Result(kind, run[r].status)]
  BY DEF Commits, Committing
<1> HIDE DEF kind
<1>4. ASSUME Accepts(kind, run[r].status),
             Result(kind, run[r].status) \in {"running", "review", "completed"}
      PROVE  run[r].scheduledFor <= now
  <2>1. \/ kind = "start"
        \/ kind = "review" /\ run[r].status = "running"
        \/ kind = "approve" /\ run[r].status = "review"
        \/ Result(kind, run[r].status) = run[r].status
    BY <1>1, <1>4 DEF Accepts, Result, Outcome, Kinds, ExecutionKinds, CancelKinds
  <2>. QED BY <1>2, <1>4, <2>1 DEF NeverEarly, Ready
<1>5. run \in [Runs -> RunRecords] /\ \A q \in Runs : run[q] \in RunRecords
  BY DEF TypeOK, DurableOK
<1>6. CASE /\ Accepts(kind, run[r].status)
           /\ run' = [run EXCEPT ![r].status = Result(kind, run[r].status)]
  <2>1. /\ \A q \in Runs \ {r} : run'[q] = run[q]
        /\ run'[r].status = Result(kind, run[r].status)
        /\ run'[r].scheduledFor = run[r].scheduledFor
    BY <1>5, <1>6 DEF RunRecords
  <2>. QED BY <1>4, <1>6, <2>1 DEF NeverEarly
<1>. QED BY <1>3, <1>6 DEF NeverEarly

-----------------------------------------------------------------------------
(* One lemma per part of the invariant: the steps that touch what it speaks  *)
(* of, and why each keeps it.                                                *)

\* No step starts a run that is not due.
LEMMA NeverEarlyStep ==
    ASSUME EarlyInv, [Next]_vars
    PROVE  NeverEarly'
<1>. USE DEF EarlyInv
<1>1. \A r \in Runs : Ready(r) => Ready(r)'
  BY ReadyKept
<1>2. run \in [Runs -> RunRecords] /\ \A r \in Runs : run[r] \in RunRecords
  BY DEF TypeOK, DurableOK
<1>3. ASSUME NEW r \in Runs, Commits(r), now' = now PROVE NeverEarly'
  BY <1>3, CommittingNotEarly
<1>4. ASSUME NEW r \in Runs, InitRun(r) PROVE NeverEarly'
  BY <1>2, <1>4 DEF InitRun, NeverEarly, RunRecords
<1>5. ASSUME NEW r \in Runs, NEW g \in Registrations, NEW at \in Schedules, Start(r, g, at)
      PROVE  NeverEarly'
  BY <1>2, <1>5 DEF Start, NeverEarly
<1>6. CASE UNCHANGED run
  BY <1>1, <1>6 DEF NeverEarly, Ready, Stored
<1>. QED BY <1>3, <1>4, <1>5, <1>6, DurableSteps DEF Tick

\* The steps that touch the queue or the read of the pump.
LEMMA DispatchSteps ==
    ASSUME [Next]_vars
    PROVE  \/ UNCHANGED dispatch
           \/ \E r \in Runs : \/ AdmissionContinue(r) \/ ReleaseContinue(r)
                              \/ \E c \in Callers : CancelContinue(r, c)
           \/ \E s \in Slots : TaskFinally(s)
           \/ \E g \in Registrations : RecoverContinue(g) \/ DisposeContinue(g)
           \/ DrainContinue \/ DrainFails \/ DrainFinally \/ InitDone \/ Boot \/ Crash
<1>. USE DEF vars, beyondPlugins, beyondHost
<1>1. ASSUME NEW r \in Runs, RunStep(r)
      PROVE  \/ UNCHANGED dispatch
             \/ AdmissionContinue(r) \/ ReleaseContinue(r)
             \/ \E c \in Callers : CancelContinue(r, c)
  BY <1>1 DEF RunStep, CommitExecution, CommitCancel, CommitApproval, CommitExpiry,
     TimerFires, ReleaseFails, InitRun
<1>2. ASSUME NEW s \in Slots, ExecutionStep(s) \/ BodyStep(s)
      PROVE  UNCHANGED dispatch \/ TaskFinally(s)
  BY <1>2 DEF ExecutionStep, BodyStep, ExecBody, ExecRefused, ExecUnread, ExecSettled, BodyReturns,
     BodyFails, ExecStep, ExecCatch
<1>3. ASSUME NEW g \in Registrations, PluginStep(g)
      PROVE  UNCHANGED dispatch \/ RecoverContinue(g) \/ DisposeContinue(g)
  BY <1>3 DEF PluginStep, RecoverResume, DisposeAdmitted, DisposeResume, DisposeDrained,
     RecoverFails, DisposeFails
<1>4. HostStep => \/ UNCHANGED dispatch
                  \/ DrainContinue \/ DrainFails \/ DrainFinally \/ InitDone \/ Boot
  BY DEF HostStep, StopAbort, StopTasks, StopEnd
<1>5. Environment => UNCHANGED dispatch \/ Crash
  BY DEF Environment, Start, Cancel, Review, UserCommand, Register, Dispose, StopBegin
<1>6. Tick => UNCHANGED dispatch
  BY DEF Tick
<1>. QED BY <1>1, <1>2, <1>3, <1>4, <1>5, <1>6 DEF Next

\* Whatever enters the queue, or is read from it, is due.
LEMMA DispatchReadyStep ==
    ASSUME EarlyInv, [Next]_vars
    PROVE  QueueReady' /\ DrainReady'
<1>. USE DEF EarlyInv
<1>1. \A r \in Runs : Ready(r) => Ready(r)'
  BY ReadyKept
<1>2. /\ DispatchOK /\ queuedIds \in Seq(Runs) /\ AllReady(queuedIds)
      /\ accepted \in [Runs -> RegOrNone]
  BY DEF TypeOK, DispatchOK, AcceptedOK, QueueReady
<1>3. \A i \in 1 .. Len(queuedIds) : queuedIds[i] \in Runs
  BY <1>2
<1>4. CASE UNCHANGED dispatch
  BY <1>1, <1>3, <1>4 DEF dispatch, QueueReady, AllReady, DrainReady
<1>5. ASSUME NEW r \in Runs, AdmissionContinue(r) PROVE QueueReady' /\ DrainReady'
  <2>1. UNCHANGED <<run, now>> /\ Stored(r)
    BY <1>5 DEF AdmissionContinue, durable, HolderStored
  <2>2. CASE UNCHANGED dispatch
    BY <1>4, <2>2
  <2>3. CASE Scheduled(r) /\ ArmScheduledRun(r, accepted', recoverable)
    BY <1>2, <2>1, <2>3, ArmScheduledRunReady
  <2>4. CASE ~Scheduled(r) /\ EnqueueRun(r, accepted')
    <3>1. Ready(r)
      BY <2>1, <2>4 DEF Ready, Scheduled, Immediate, TypeOK, DurableOK
    <3>. QED BY <1>2, <2>1, <2>4, <3>1, EnqueueRunReady
  <2>. QED BY <1>5, <2>2, <2>3, <2>4 DEF AdmissionContinue
<1>6. ASSUME NEW r \in Runs, ReleaseContinue(r) PROVE QueueReady' /\ DrainReady'
  <2>1. UNCHANGED <<run, now>> /\ (release[r] = "queued" => Stored(r))
    BY <1>6 DEF ReleaseContinue, durable, HolderStored
  <2>2. CASE UNCHANGED dispatch
    BY <1>4, <2>2
  <2>3. CASE release[r] = "queued" /\ ArmScheduledRun(r, accepted, recoverable)
    BY <1>2, <2>1, <2>3, ArmScheduledRunReady
  <2>. QED BY <1>6, <2>2, <2>3 DEF ReleaseContinue
<1>7. ASSUME NEW r \in Runs, NEW c \in Callers, CancelContinue(r, c)
      PROVE  QueueReady' /\ DrainReady'
  <2>1. UNCHANGED <<run, now, drain>> /\ queuedIds' = RemoveQueuedId(r)
    BY <1>7 DEF CancelContinue, durable
  <2>2. AllReady(RemoveQueuedId(r))
    BY <1>2, RemoveQueuedIdReady
  <2>. QED BY <2>1, <2>2 DEF QueueReady, AllReady, DrainReady, Ready, Stored
<1>8. ASSUME NEW s \in Slots, TaskFinally(s) PROVE QueueReady' /\ DrainReady'
  BY <1>2, <1>8, PumpReady DEF TaskFinally, durable
<1>9. ASSUME NEW g \in Registrations, RecoverContinue(g) PROVE QueueReady' /\ DrainReady'
  <2> DEFINE r == recovery[g].id
  <2>1. UNCHANGED <<run, now>> /\ r \in Runs /\ (recovery[g].seen = "queued" => Stored(r))
    BY <1>9 DEF RecoverContinue, durable, HolderStored, TypeOK, ReadingOK
  <2>2. CASE UNCHANGED dispatch
    BY <1>4, <2>2
  <2>3. CASE /\ recovery[g].seen = "queued"
             /\ ArmScheduledRun(r, accepted', recoverable \ {r})
    <3> HIDE DEF r
    <3>. QED BY <1>2, <2>1, <2>3, ArmScheduledRunReady
  <2>. QED BY <1>9, <2>2, <2>3 DEF RecoverContinue
<1>10. ASSUME NEW g \in Registrations, DisposeContinue(g) PROVE QueueReady' /\ DrainReady'
  <2>1. disposer[g].id \in Runs
    BY <1>10 DEF DisposeContinue, TypeOK, ReadingOK
  <2>2. UNCHANGED <<run, now, drain>>
        /\ (queuedIds' = RemoveQueuedId(disposer[g].id) \/ UNCHANGED queuedIds)
    BY <1>10 DEF DisposeContinue, durable
  <2>3. AllReady(RemoveQueuedId(disposer[g].id))
    BY <1>2, <2>1, RemoveQueuedIdReady
  <2>. QED BY <1>2, <2>2, <2>3 DEF QueueReady, AllReady, DrainReady, Ready, Stored
<1>11. CASE DrainContinue
  BY <1>2, <1>11, DrainLoopReady DEF DrainContinue, durable
<1>15. CASE DrainFails
  BY <1>1, <1>3, <1>15 DEF DrainFails, NoRead, QueueReady, AllReady, DrainReady
<1>12. CASE DrainFinally
  BY <1>2, <1>12, DrainLoopReady DEF DrainFinally, durable
<1>13. CASE InitDone
  BY <1>2, <1>13, PumpReady DEF InitDone, durable
<1>14. CASE Boot \/ Crash
  BY <1>14 DEF Boot, Crash, Fresh, NoRead, QueueReady, AllReady, DrainReady
<1>. QED BY <1>4, <1>5, <1>6, <1>7, <1>8, <1>9, <1>10, <1>11, <1>12, <1>13, <1>14, <1>15,
         DispatchSteps

\* What a step may do to the chains.
LEMMA MutationSteps ==
    ASSUME TypeOK, [Next]_vars
    PROVE  \/ UNCHANGED mutations
           \/ \E r \in Runs : Commits(r)
           \/ \E r \in Runs, kind \in Kinds \ {"start"}, caller \in Slots \cup Callers :
                 /\ [kind |-> kind, by |-> caller] \in Mutations /\ Mutate(r, kind, caller)
                 /\ kind = "expire" => caller \in Registrations /\ RecoverContinue(caller)
                 /\ kind = "reject" => caller = "user"
                 /\ kind = "cancel" /\ caller \in Registrations => DisposeContinue(caller)
                 /\ kind \in ExecutionKinds => caller \in Slots /\ exec'[caller].run = r
           \/ DrainContinue
           \/ (Boot \/ Crash) /\ mutations' = [r \in Runs |-> << >>]
<1>. USE MutationTypes DEF vars, beyondPlugins, beyondHost, Callers, Kinds, ExecutionKinds,
                           CancelKinds
<1>1. ASSUME NEW r \in Runs, RunStep(r)
      PROVE  \/ UNCHANGED mutations
             \/ Commits(r)
             \/ AdmissionContinue(r) /\ Mutate(r, "cancel", "admission")
  BY <1>1 DEF RunStep, AdmissionContinue, CommitExecution, CommitCancel, CommitApproval,
     CommitExpiry, CancelContinue, TimerFires, ReleaseContinue, ReleaseFails, InitRun, Commits
<1>2. ASSUME NEW s \in Slots, ExecutionStep(s) \/ BodyStep(s)
      PROVE  \/ UNCHANGED mutations
             \/ \E kind \in {"fail", "review"} :
                   Mutate(exec[s].run, kind, s) /\ exec'[s].run = exec[s].run
  <2>1. exec \in [Slots -> ExecRecords]
    BY DEF TypeOK, ExecutionOK
  <2>2. CASE ExecRefused(s) \/ ExecUnread(s) \/ BodyFails(s)
    <3>1. /\ Mutate(exec[s].run, "fail", s)
          /\ exec' = [exec EXCEPT ![s].pc = "failing", ![s].aborted = TRUE]
      BY <2>2 DEF ExecRefused, ExecUnread, BodyFails, ExecCatch
    <3>2. exec'[s].run = exec[s].run
      BY <2>1, <3>1 DEF ExecRecords
    <3>. QED BY <3>1, <3>2
  <2>3. CASE BodyReturns(s)
    <3>1. Mutate(exec[s].run, "review", s) /\ exec' = [exec EXCEPT ![s].pc = "reviewing"]
      BY <2>3 DEF BodyReturns, ExecStep
    <3>2. exec'[s].run = exec[s].run
      BY <2>1, <3>1 DEF ExecRecords
    <3>. QED BY <3>1, <3>2
  <2>4. CASE ExecBody(s) \/ ExecSettled(s) \/ TaskFinally(s)
    BY <2>4 DEF ExecBody, ExecSettled, TaskFinally, ExecStep
  <2>. QED BY <1>2, <2>2, <2>3, <2>4 DEF ExecutionStep, BodyStep
<1>3. ASSUME NEW g \in Registrations, PluginStep(g)
      PROVE  \/ UNCHANGED mutations
             \/ /\ RecoverContinue(g) /\ recovery[g].pc = "reading"
                /\ Mutate(recovery[g].id, "expire", g)
             \/ /\ DisposeContinue(g) /\ disposer[g].pc = "reading"
                /\ Mutate(disposer[g].id, "cancel", g)
  BY <1>3 DEF PluginStep, RecoverContinue, RecoverResume, DisposeAdmitted,
     DisposeContinue, DisposeResume, DisposeDrained, RecoverFails, DisposeFails
<1>4. HostStep => \/ UNCHANGED mutations
                  \/ DrainContinue
                  \/ (Boot \/ Crash) /\ mutations' = [r \in Runs |-> << >>]
  BY DEF HostStep, DrainFails, DrainFinally, StopAbort, StopTasks, StopEnd, Boot, Fresh, InitDone
<1>5. ASSUME Environment
      PROVE  \/ UNCHANGED mutations
             \/ \E r \in Runs, kind \in {"cancel", "approve", "reject"} :
                   Mutate(r, kind, "user")
             \/ (Boot \/ Crash) /\ mutations' = [r \in Runs |-> << >>]
  BY <1>5 DEF Environment, Start, Cancel, Review, UserCommand, Register, Dispose, StopBegin,
     Crash, Fresh
<1>6. /\ \A s \in Slots : exec[s].run \in Runs \cup {None}
      /\ \A g \in Registrations : recovery[g].pc = "reading" => recovery[g].id \in Runs
      /\ \A g \in Registrations : disposer[g].pc = "reading" => disposer[g].id \in Runs
  BY DEF TypeOK, ReadingOK, ExecutionOK, ExecRecords, RunOrNone
<1>7. ASSUME NEW kind, NEW caller, Mutate(None, kind, caller)
      PROVE  UNCHANGED mutations
  <2>1. mutations \in [Runs -> Seq(Mutations)] /\ None \notin Runs
    BY RuntimeConstants DEF TypeOK, MutationsOK
  <2>. QED BY <2>1, <1>7 DEF Mutate
<1> DEFINE Asks == \E r \in Runs, kind \in Kinds \ {"start"}, caller \in Slots \cup Callers :
                     /\ [kind |-> kind, by |-> caller] \in Mutations /\ Mutate(r, kind, caller)
                     /\ kind = "expire" => caller \in Registrations /\ RecoverContinue(caller)
                     /\ kind = "reject" => caller = "user"
                     /\ kind = "cancel" /\ caller \in Registrations => DisposeContinue(caller)
                     /\ kind \in ExecutionKinds => caller \in Slots /\ exec'[caller].run = r
<1>8. ASSUME NEW s \in Slots, NEW kind \in {"fail", "review"}, Mutate(exec[s].run, kind, s),
             exec'[s].run = exec[s].run
      PROVE  UNCHANGED mutations \/ Asks
  BY <1>6, <1>7, <1>8
<1>9. ASSUME NEW r \in Runs, NEW kind \in Kinds \ ExecutionKinds, NEW c \in Callers,
             Mutate(r, kind, c), kind = "expire" => c \in Registrations /\ RecoverContinue(c),
             kind = "reject" => c = "user",
             kind = "cancel" /\ c \in Registrations => DisposeContinue(c)
      PROVE  Asks
  BY <1>9
<1> HIDE DEF Asks
<1>10. \A s \in Slots : ExecutionStep(s) \/ BodyStep(s) => UNCHANGED mutations \/ Asks
  BY <1>2, <1>8
<1>11. \A r \in Runs : RunStep(r) => UNCHANGED mutations \/ Commits(r) \/ Asks
  BY <1>1, <1>9, RuntimeConstants
<1>12. \A g \in Registrations : PluginStep(g) => UNCHANGED mutations \/ Asks
  <2>1. ASSUME NEW g \in Registrations, NEW r \in Runs,
               \/ DisposeContinue(g) /\ Mutate(r, "cancel", g)
               \/ RecoverContinue(g) /\ Mutate(r, "expire", g)
        PROVE  Asks
    BY <1>9, <2>1
  <2>. QED BY <1>3, <1>6, <2>1
<1>13. Environment => \/ UNCHANGED mutations \/ Asks
                      \/ (Boot \/ Crash) /\ mutations' = [r \in Runs |-> << >>]
  BY <1>5, <1>9, RuntimeConstants
<1>. QED BY <1>4, <1>10, <1>11, <1>12, <1>13 DEF Next, Tick, Asks

\* Only the pump chains a start, of the run it has read.
LEMMA StartReadyStep ==
    ASSUME EarlyInv, [Next]_vars
    PROVE  StartReady'
<1>. USE DEF EarlyInv
<1>1. MutationsOK /\ \A r \in Runs : Ready(r) => Ready(r)'
  BY ReadyKept DEF TypeOK
<1>2. CASE UNCHANGED mutations
  BY <1>1, <1>2 DEF StartReady
<1>3. ASSUME NEW r \in Runs, Commits(r) PROVE StartReady'
  BY <1>1, <1>3, CommittingReady
<1>4. ASSUME NEW r \in Runs, NEW kind \in Kinds \ {"start"}, NEW caller \in Slots \cup Callers,
             [kind |-> kind, by |-> caller] \in Mutations, Mutate(r, kind, caller)
      PROVE  StartReady'
  BY <1>1, <1>4, MutateReady
<1>5. CASE DrainContinue
  <2>1. drain.id \in Runs /\ Ready(drain.id)
    BY <1>5 DEF DrainContinue, DrainReady
  <2>2. ASSUME NEW s \in Slots, Mutate(drain.id, "start", s) PROVE StartReady'
    <3>1. [kind |-> "start", by |-> s] \in Mutations
      BY MutationTypes DEF ExecutionKinds
    <3>. QED BY <1>1, <2>1, <2>2, <3>1, MutateReady
  <2>. QED BY <1>2, <1>5, <2>2 DEF DrainContinue
<1>6. CASE mutations' = [r \in Runs |-> << >>]
  BY <1>6 DEF StartReady
<1>. QED BY <1>2, <1>3, <1>4, <1>5, <1>6, MutationSteps

\* What a step may do to the admissions.
LEMMA AdmissionSteps ==
    ASSUME [Next]_vars
    PROVE  \/ UNCHANGED admission
           \/ admission' = [q \in Runs |-> [pc |-> "none", reg |-> None]]
           \/ \E q \in Runs : admission' = [admission EXCEPT ![q].pc = "done"]
           \/ \E q \in Runs : /\ admission[q].pc = "creating"
                              /\ admission' = [admission EXCEPT ![q].pc = "cancelling"]
                              /\ Mutate(q, "cancel", "admission")
           \/ \E q \in Runs, g \in Registrations, at \in Schedules : Start(q, g, at)
<1>. USE DEF vars, beyondPlugins, beyondHost, callers
<1>1. ASSUME NEW q \in Runs, RunStep(q)
      PROVE  \/ UNCHANGED admission
             \/ admission' = [admission EXCEPT ![q].pc = "done"]
             \/ /\ admission[q].pc = "creating"
                /\ admission' = [admission EXCEPT ![q].pc = "cancelling"]
                /\ Mutate(q, "cancel", "admission")
  BY <1>1 DEF RunStep, AdmissionContinue, CommitExecution, CommitCancel, CommitApproval,
     CommitExpiry, CancelContinue, TimerFires, ReleaseContinue, ReleaseFails, InitRun, Commits
<1>2. ASSUME NEW s \in Slots, ExecutionStep(s) \/ BodyStep(s)
      PROVE  UNCHANGED admission
  BY <1>2 DEF ExecutionStep, BodyStep, ExecBody, ExecRefused, ExecUnread, ExecSettled,
     TaskFinally, BodyReturns, BodyFails, ExecStep, ExecCatch
<1>3. ASSUME NEW g \in Registrations, PluginStep(g)
      PROVE  UNCHANGED admission
  BY <1>3 DEF PluginStep, RecoverContinue, RecoverResume, DisposeAdmitted,
     DisposeContinue, DisposeResume, DisposeDrained, RecoverFails, DisposeFails
<1>4. HostStep => \/ UNCHANGED admission
                  \/ admission' = [q \in Runs |-> [pc |-> "none", reg |-> None]]
  BY DEF HostStep, DrainContinue, DrainFails, DrainFinally, StopAbort, StopTasks, StopEnd,
     Boot, Fresh, InitDone
<1>5. ASSUME Environment
      PROVE  \/ UNCHANGED admission
             \/ admission' = [q \in Runs |-> [pc |-> "none", reg |-> None]]
             \/ \E q \in Runs, g \in Registrations, at \in Schedules : Start(q, g, at)
  BY <1>5 DEF Environment, Cancel, Review, UserCommand, Register, Dispose, StopBegin,
     Crash, Fresh
<1>. QED BY <1>1, <1>2, <1>3, <1>4, <1>5 DEF Next, Tick

\* Only a call of start begins an admission.
LEMMA AdmissionBegins ==
    ASSUME TypeOK, [Next]_vars, NEW r \in Runs,
           \/ admission'[r].pc = "creating" /\ admission[r].pc # "creating"
           \/ admission'[r].pc = "cancelling" /\ admission[r].pc \notin {"creating", "cancelling"}
    PROVE  \E g \in Registrations, at \in Schedules : Start(r, g, at)
<1>1. admission \in [Runs -> AdmissionRecords] /\ \A q \in Runs : admission[q] \in AdmissionRecords
  BY DEF TypeOK, CallersOK
<1>2. ASSUME NEW q \in Runs, NEW g \in Registrations, NEW at \in Schedules, Start(q, g, at)
      PROVE  Start(r, g, at)
  BY <1>1, <1>2 DEF Start
<1>. QED BY <1>1, <1>2, AdmissionSteps DEF AdmissionRecords

\* Only a timer begins a release.
LEMMA ReleaseSteps ==
    ASSUME TypeOK, [Next]_vars, NEW r \in Runs,
           release'[r] = "queued", release[r] # "queued"
    PROVE  TimerFires(r)
<1>. USE DEF vars, beyondPlugins, beyondHost, callers
<1>1. release \in [Runs -> Status \cup {"none"}]
  BY DEF TypeOK, CallersOK
<1>2. ASSUME NEW q \in Runs, RunStep(q)
      PROVE  \/ UNCHANGED release
             \/ release' = [release EXCEPT ![q] = "none"]
             \/ TimerFires(q) /\ release' = [release EXCEPT ![q] = run[q].status]
  BY <1>2 DEF RunStep, AdmissionContinue, CommitExecution, CommitCancel, CommitApproval,
     CommitExpiry, CancelContinue, TimerFires, ReleaseContinue, ReleaseFails, InitRun, Commits
<1>3. ASSUME NEW s \in Slots, ExecutionStep(s) \/ BodyStep(s)
      PROVE  UNCHANGED release
  BY <1>3 DEF ExecutionStep, BodyStep, ExecBody, ExecRefused, ExecUnread, ExecSettled,
     TaskFinally, BodyReturns, BodyFails, ExecStep, ExecCatch
<1>4. ASSUME NEW g \in Registrations, PluginStep(g)
      PROVE  UNCHANGED release
  BY <1>4 DEF PluginStep, RecoverContinue, RecoverResume, DisposeAdmitted,
     DisposeContinue, DisposeResume, DisposeDrained, RecoverFails, DisposeFails
<1>5. HostStep => UNCHANGED release \/ release' = [q \in Runs |-> "none"]
  BY DEF HostStep, DrainContinue, DrainFails, DrainFinally, StopAbort, StopTasks, StopEnd,
     Boot, Fresh, InitDone
<1>6. Environment => UNCHANGED release \/ release' = [q \in Runs |-> "none"]
  BY DEF Environment, Start, Cancel, Review, UserCommand, Register, Dispose, StopBegin,
     Crash, Fresh
<1>. QED BY <1>1, <1>2, <1>3, <1>4, <1>5, <1>6 DEF Next, Tick

\* Only the loop of a recovery begins a recovery's read.
LEMMA RecoverySteps ==
    ASSUME TypeOK, [Next]_vars, NEW g \in Registrations,
           recovery'[g].pc = "reading", recovery'[g] # recovery[g]
    PROVE  \E rec \in SUBSET Runs : RecoverNext(g, rec)
<1>. USE DEF vars, beyondPlugins, beyondHost, plugins
<1>1. /\ recovery \in [Registrations -> RecoveryRecords] /\ recoverable \in SUBSET Runs
      /\ \A h \in Registrations : recovery[h] \in RecoveryRecords
  BY DEF TypeOK, PluginsOK, ScheduleOK
<1>2. ASSUME NEW h, NEW pc \in {"failing", "next", "rejected"},
             recovery' = [recovery EXCEPT ![h].pc = pc]
      PROVE  FALSE
  BY <1>1, <1>2 DEF RecoveryRecords
<1>3. ASSUME NEW h \in Registrations, NEW rec \in SUBSET Runs, RecoverNext(h, rec)
      PROVE  h = g
  BY <1>1, <1>3 DEF RecoverNext
<1>4. ASSUME NEW r \in Runs, RunStep(r)
      PROVE  \/ UNCHANGED recovery
             \/ \E h : \/ recovery' = [recovery EXCEPT ![h].pc = "next"]
                     \/ recovery' = [recovery EXCEPT ![h].pc = "rejected"]
  BY <1>4 DEF RunStep, AdmissionContinue, CommitExecution, CommitCancel, CommitApproval,
     CommitExpiry, CancelContinue, TimerFires, ReleaseContinue, ReleaseFails, InitRun, Commits
<1>5. ASSUME NEW s \in Slots, ExecutionStep(s) \/ BodyStep(s)
      PROVE  UNCHANGED recovery
  BY <1>5 DEF ExecutionStep, BodyStep, ExecBody, ExecRefused, ExecUnread, ExecSettled,
     TaskFinally, BodyReturns, BodyFails, ExecStep, ExecCatch
<1>6. ASSUME NEW h \in Registrations, PluginStep(h)
      PROVE  \/ UNCHANGED recovery
             \/ recovery' = [recovery EXCEPT ![h] =
                               [pc |-> "done", id |-> None, seen |-> "absent"]]
             \/ recovery' = [recovery EXCEPT ![h].pc = "failing"]
             \/ recovery' = [recovery EXCEPT ![h].pc = "rejected"]
             \/ RecoverNext(h, recoverable)
             \/ RecoverContinue(h) /\ RecoverNext(h, recoverable')
  BY <1>6 DEF PluginStep, RecoverContinue, RecoverResume, DisposeAdmitted,
     DisposeContinue, DisposeResume, DisposeDrained, RecoverFails, DisposeFails
<1>7. HostStep => UNCHANGED recovery \/ recovery' = [h \in Registrations |-> NoRecovery]
  BY DEF HostStep, DrainContinue, DrainFails, DrainFinally, StopAbort, StopTasks, StopEnd,
     Boot, Fresh, InitDone
<1>8. ASSUME Environment
      PROVE  \/ UNCHANGED recovery
             \/ recovery' = [h \in Registrations |-> NoRecovery]
             \/ \E h \in Registrations : RecoverNext(h, recoverable)
  BY <1>8 DEF Environment, Start, Cancel, Review, UserCommand, Register, Dispose, StopBegin,
     Crash, Fresh
<1>9. recoverable' \in SUBSET Runs
  BY TypeStep DEF TypeOK, ScheduleOK
<1>10. CASE UNCHANGED recovery
  BY <1>10
<1>11. CASE \E h : recovery' = [recovery EXCEPT ![h] =
                                  [pc |-> "done", id |-> None, seen |-> "absent"]]
  BY <1>1, <1>11
<1>12. CASE recovery' = [h \in Registrations |-> NoRecovery]
  BY <1>12 DEF NoRecovery
<1>13. CASE \E h \in Registrations, rec \in SUBSET Runs : RecoverNext(h, rec)
  BY <1>3, <1>13
<1>. QED BY <1>1, <1>2, <1>4, <1>5, <1>6, <1>7, <1>8, <1>9, <1>10, <1>11, <1>12, <1>13
         DEF Next, Tick

\* A status that was read as "queued" is that of a stored run, and the admission of a
\* run is in flight only after createRun.
LEMMA HolderStoredStep ==
    ASSUME EarlyInv, [Next]_vars
    PROVE  HolderStored'
<1>. USE DEF EarlyInv, vars, beyondPlugins, beyondHost, callers, plugins
<1>1. \A r \in Runs : Stored(r) => Stored(r)'
  BY ReadyKept
<1>2. ASSUME NEW r \in Runs, admission'[r].pc = "creating" PROVE Stored(r)'
  <2>1. CASE admission[r].pc = "creating"
    BY <1>1, <2>1 DEF HolderStored
  <2>2. CASE admission[r].pc # "creating"
    <3>1. PICK g \in Registrations, at \in Schedules : Start(r, g, at)
      BY <1>2, <2>2, AdmissionBegins
    <3>. QED BY <3>1 DEF Start, Stored, TypeOK, DurableOK
  <2>. QED BY <2>1, <2>2
<1>3. ASSUME NEW r \in Runs, release'[r] = "queued" PROVE Stored(r)'
  <2>1. CASE release[r] = "queued"
    BY <1>1, <2>1 DEF HolderStored
  <2>2. CASE release[r] # "queued"
    <3>1. TimerFires(r)
      BY <1>3, <2>2, ReleaseSteps
    <3>2. run[r].status = "queued"
      BY <1>3, <3>1 DEF TimerFires, TypeOK, CallersOK
    <3>. QED BY <1>1, <3>2 DEF Stored
  <2>. QED BY <2>1, <2>2
<1>4. ASSUME NEW g \in Registrations, recovery'[g].pc = "reading", recovery'[g].seen = "queued"
      PROVE  Stored(recovery[g].id)'
  <2>1. CASE recovery'[g] = recovery[g]
    <3>1. recovery[g].id \in Runs
      BY <1>4, <2>1 DEF TypeOK, ReadingOK
    <3>. QED BY <1>1, <1>4, <2>1, <3>1 DEF HolderStored, Stored
  <2>2. CASE \E rec \in SUBSET Runs : RecoverNext(g, rec)
    <3>1. PICK r \in Runs : recovery'[g].id = r /\ recovery'[g].seen = run[r].status
      BY <1>4, <2>2 DEF RecoverNext, Candidates, TypeOK, PluginsOK
    <3>. QED BY <1>1, <1>4, <3>1 DEF Stored
  <2>. QED BY <1>4, <2>1, <2>2, RecoverySteps
<1>. QED BY <1>2, <1>3, <1>4 DEF HolderStored, Stored

-----------------------------------------------------------------------------

\* The initial state holds no run at all.
LEMMA EarlyInit == Init => EarlyInv
<1>. SUFFICES ASSUME Init PROVE EarlyInv
  OBVIOUS
<1>1. NeverEarly
  BY DEF Init, NeverEarly
<1>2. QueueReady /\ DrainReady /\ StartReady /\ HolderStored
  BY DEF Init, Fresh, QueueReady, AllReady, DrainReady, StartReady, HolderStored, NoRead,
     NoRecovery
<1>. QED BY <1>1, <1>2, TypeInit DEF EarlyInv

\* The strengthened property is inductive.
LEMMA EarlyStep == EarlyInv /\ [Next]_vars => EarlyInv'
<1>1. ASSUME EarlyInv, [Next]_vars PROVE EarlyInv'
  <2>1. TypeOK'
    BY <1>1, TypeStep DEF EarlyInv
  <2>. QED BY <1>1, <2>1, NeverEarlyStep, DispatchReadyStep, StartReadyStep,
              HolderStoredStep DEF EarlyInv
<1>. QED BY <1>1

\* A run never starts before its scheduledFor, whatever timer segments, releases,
\* plugin reloads, stops, crashes and restarts lie between.
THEOREM NeverEarlyCorrect == Spec => []NeverEarly
<1>1. EarlyInv => NeverEarly
  BY DEF EarlyInv
<1>. QED BY <1>1, EarlyInit, EarlyStep, PTL DEF Spec

-----------------------------------------------------------------------------
(* Never more runs than maxConcurrentRuns execute at once, and activeCount *)
(* is the number of unfinished executions.                                 *)
(*                                                                         *)
(* The bound is not inductive for two reasons.  The pump tests activeCount *)
(* before it awaits a read and increments it after: SlotFree says that the *)
(* slot it saw is still free, because nothing else takes one.  And an      *)
(* update that commits moves the execution that asked for it: the counter  *)
(* is right only if that execution is still there and waits for this very  *)
(* update (UpdateAwaited), of which it has one at a time (OneUpdate).      *)

AwaitPcs == {"starting", "reviewing", "failing"}
Awaits(kind) ==
    CASE kind = "start" -> "starting" [] kind = "review" -> "reviewing" [] OTHER -> "failing"

UpdateAwaited ==
    \A r \in Runs : \A i \in 1 .. Len(mutations[r]) :
        mutations[r][i].kind \in ExecutionKinds
        => exec[mutations[r][i].by].pc = Awaits(mutations[r][i].kind)

OneUpdate ==
    \A r, q \in Runs : \A i \in 1 .. Len(mutations[r]), j \in 1 .. Len(mutations[q]) :
        /\ mutations[r][i].kind \in ExecutionKinds
        /\ mutations[q][j].kind \in ExecutionKinds
        /\ mutations[r][i].by = mutations[q][j].by
        => r = q /\ i = j

SlotFree == drain.pc = "reading" => activeCount < MaxConcurrentRuns

BoundInv == TypeOK /\ UpdateAwaited /\ OneUpdate /\ ConcurrencyBound /\ SlotFree

\* The phases of the executions, but for who is aborted.
SamePc == \A s \in Slots : exec'[s].pc = exec[s].pc
Restarts ==
    /\ exec' = [s \in Slots |-> NoExec]
    /\ activeCount' = 0
    /\ mutations' = [r \in Runs |-> << >>]

\* What a step may do to the executions and to the chains.
LEMMA ExecutionSteps ==
    ASSUME TypeOK, [Next]_vars
    PROVE  \/ SamePc /\ UNCHANGED <<activeCount, mutations>>
           \/ /\ SamePc /\ UNCHANGED activeCount
              /\ \E r \in Runs, kind \in Kinds \ ExecutionKinds, c \in Callers :
                    Mutate(r, kind, c)
           \/ /\ SamePc /\ UNCHANGED activeCount
              /\ \E r \in Runs : Commits(r) /\ Head(mutations[r]).kind \notin ExecutionKinds
           \/ \E r \in Runs : CommitExecution(r)
           \/ \E s \in Slots : ExecutionStep(s) \/ BodyStep(s)
           \/ DrainContinue
           \/ Restarts
<1>. USE DEF vars, beyondPlugins, beyondHost, execution
<1>1. exec \in [Slots -> ExecRecords]
  BY DEF TypeOK, ExecutionOK
<1>2. UNCHANGED exec => SamePc
  BY DEF SamePc
<1>3. ASSUME NEW rs, exec' = Aborted(rs) PROVE SamePc
  <2>1. \A s \in Slots : [exec[s] EXCEPT !.aborted = TRUE].pc = exec[s].pc
    BY <1>1 DEF ExecRecords
  <2>. QED BY <1>3, <2>1 DEF Aborted, SamePc
<1>4. ASSUME NEW r \in Runs, RunStep(r)
      PROVE  \/ SamePc /\ UNCHANGED <<activeCount, mutations>>
             \/ SamePc /\ UNCHANGED activeCount /\ Mutate(r, "cancel", "admission")
             \/ /\ SamePc /\ UNCHANGED activeCount
                /\ Commits(r) /\ Head(mutations[r]).kind \notin ExecutionKinds
             \/ CommitExecution(r)
  BY <1>2, <1>3, <1>4 DEF RunStep, AdmissionContinue, CommitCancel, CommitApproval,
     CommitExpiry, CancelContinue, TimerFires, ReleaseContinue, ReleaseFails, InitRun, Commits,
     ExecutionKinds,
     CancelKinds
<1>5. ASSUME NEW g \in Registrations, PluginStep(g)
      PROVE  /\ UNCHANGED <<exec, activeCount>>
             /\ \/ UNCHANGED mutations
                \/ recovery[g].pc = "reading" /\ Mutate(recovery[g].id, "expire", g)
                \/ disposer[g].pc = "reading" /\ Mutate(disposer[g].id, "cancel", g)
  BY <1>5 DEF PluginStep, RecoverContinue, RecoverResume, DisposeAdmitted,
     DisposeContinue, DisposeResume, DisposeDrained, RecoverFails, DisposeFails
<1>6. HostStep => \/ SamePc /\ UNCHANGED <<activeCount, mutations>>
                  \/ DrainContinue
                  \/ Restarts
  BY <1>2, <1>3 DEF HostStep, DrainFails, DrainFinally, StopAbort, StopTasks, StopEnd, Boot, Fresh,
     InitDone, Restarts
<1>7. ASSUME Environment
      PROVE  \/ UNCHANGED <<exec, activeCount, mutations>>
             \/ /\ UNCHANGED <<exec, activeCount>>
                /\ \E r \in Runs, kind \in {"cancel", "approve", "reject"} :
                      Mutate(r, kind, "user")
             \/ Restarts
  BY <1>7 DEF Environment, Start, Cancel, Review, UserCommand, Register, Dispose, StopBegin,
     Crash, Fresh, Restarts
<1>8. /\ "user" \in Callers /\ "admission" \in Callers /\ Registrations \subseteq Callers
      /\ \A kind \in {"cancel", "approve", "reject", "expire"} : kind \in Kinds \ ExecutionKinds
  BY DEF Callers, Kinds, ExecutionKinds, CancelKinds
<1>9. /\ \A g \in Registrations : recovery[g].pc = "reading" => recovery[g].id \in Runs
      /\ \A g \in Registrations : disposer[g].pc = "reading" => disposer[g].id \in Runs
  BY DEF TypeOK, ReadingOK
<1>10. ASSUME NEW g \in Registrations, PluginStep(g)
       PROVE  /\ SamePc /\ UNCHANGED activeCount
              /\ \/ UNCHANGED mutations
                 \/ \E r \in Runs, kind \in Kinds \ ExecutionKinds, c \in Callers :
                       Mutate(r, kind, c)
  BY <1>2, <1>5, <1>8, <1>9, <1>10
<1>11. Tick => SamePc /\ UNCHANGED <<activeCount, mutations>>
  BY <1>2 DEF Tick
<1>. QED BY <1>2, <1>4, <1>6, <1>7, <1>8, <1>10, <1>11 DEF Next

-----------------------------------------------------------------------------
(* Updates and the executions that wait for them *)

\* No execution that waits for an update moves, and no update is added by one.
LEMMA UpdatesKept ==
    ASSUME UpdateAwaited, OneUpdate, UNCHANGED mutations,
           \A s \in Slots : exec[s].pc \in AwaitPcs => exec'[s].pc = exec[s].pc,
           MutationsOK
    PROVE  UpdateAwaited' /\ OneUpdate'
<1>1. ASSUME NEW r \in Runs, NEW i \in 1 .. Len(mutations[r]),
             mutations[r][i].kind \in ExecutionKinds
      PROVE  exec'[mutations[r][i].by].pc = Awaits(mutations[r][i].kind)
  <2>1. mutations[r][i] \in Mutations
    BY DEF MutationsOK
  <2>2. mutations[r][i].by \in Slots
    BY <1>1, <2>1 DEF Mutations, ExecutionKinds, Kinds
  <2>3. exec[mutations[r][i].by].pc = Awaits(mutations[r][i].kind)
    BY <1>1 DEF UpdateAwaited
  <2>. QED BY <1>1, <2>2, <2>3 DEF Awaits, AwaitPcs
<1>. QED BY <1>1 DEF UpdateAwaited, OneUpdate

\* An update is added by an execution that then waits for it, or by somebody else.
LEMMA UpdatesAdded ==
    ASSUME UpdateAwaited, OneUpdate, MutationsOK, NEW r \in Runs, NEW kind, NEW caller,
           [kind |-> kind, by |-> caller] \in Mutations, Mutate(r, kind, caller),
           \A s \in Slots : exec[s].pc \in AwaitPcs => exec'[s].pc = exec[s].pc,
           kind \in ExecutionKinds => /\ exec[caller].pc \notin AwaitPcs
                                      /\ exec'[caller].pc = Awaits(kind)
    PROVE  UpdateAwaited' /\ OneUpdate'
<1> DEFINE m == [kind |-> kind, by |-> caller]
<1>1. m.kind \in ExecutionKinds => exec[m.by].pc \notin AwaitPcs /\ exec'[m.by].pc = Awaits(m.kind)
  OBVIOUS
<1>2. mutations' = [mutations EXCEPT ![r] = Append(@, m)]
  BY DEF Mutate
<1> HIDE DEF m
<1>3. /\ \A q \in Runs : Len(mutations'[q]) = IF q = r THEN Len(mutations[q]) + 1
                                              ELSE Len(mutations[q])
      /\ \A q \in Runs : \A i \in 1 .. Len(mutations[q]) : mutations'[q][i] = mutations[q][i]
      /\ mutations'[r][Len(mutations[r]) + 1] = m
      /\ \A q \in Runs : Len(mutations[q]) \in Nat
  <2>1. \A q \in Runs : mutations[q] \in Seq(Mutations)
    BY DEF MutationsOK
  <2>2. /\ mutations'[r] = Append(mutations[r], m)
        /\ \A q \in Runs \ {r} : mutations'[q] = mutations[q]
    BY <1>2 DEF MutationsOK
  <2>3. /\ Len(mutations'[r]) = Len(mutations[r]) + 1
        /\ \A i \in 1 .. Len(mutations[r]) : mutations'[r][i] = mutations[r][i]
        /\ mutations'[r][Len(mutations[r]) + 1] = m
    BY <2>1, <2>2, m \in Mutations DEF m
  <2>4. \A q \in Runs : Len(mutations[q]) \in Nat
    BY <2>1
  <2>. QED BY <2>2, <2>3, <2>4
<1>4. ASSUME NEW q \in Runs, NEW i \in 1 .. Len(mutations'[q])
      PROVE  \/ i \in 1 .. Len(mutations[q]) /\ mutations'[q][i] = mutations[q][i]
             \/ q = r /\ i = Len(mutations[r]) + 1 /\ mutations'[q][i] = m
  BY <1>3
<1>5. ASSUME NEW q \in Runs, NEW i \in 1 .. Len(mutations[q]),
             mutations[q][i].kind \in ExecutionKinds
      PROVE  /\ exec[mutations[q][i].by].pc \in AwaitPcs
             /\ exec'[mutations[q][i].by].pc = Awaits(mutations[q][i].kind)
  <2>1. mutations[q][i] \in Mutations
    BY DEF MutationsOK
  <2>2. mutations[q][i].by \in Slots
    BY <1>5, <2>1 DEF Mutations, ExecutionKinds, Kinds
  <2>3. exec[mutations[q][i].by].pc = Awaits(mutations[q][i].kind)
    BY <1>5 DEF UpdateAwaited
  <2>4. Awaits(mutations[q][i].kind) \in AwaitPcs
    BY DEF Awaits, AwaitPcs
  <2>. QED BY <2>2, <2>3, <2>4
<1>6. UpdateAwaited'
  BY <1>1, <1>4, <1>5 DEF UpdateAwaited
<1>7. OneUpdate'
  <2>1. ASSUME NEW p \in Runs, NEW q \in Runs,
               NEW i \in 1 .. Len(mutations'[p]), NEW j \in 1 .. Len(mutations'[q]),
               mutations'[p][i].kind \in ExecutionKinds,
               mutations'[q][j].kind \in ExecutionKinds,
               mutations'[p][i].by = mutations'[q][j].by
        PROVE  p = q /\ i = j
    <3>1. CASE i \in 1 .. Len(mutations[p]) /\ j \in 1 .. Len(mutations[q])
      <4>1. mutations'[p][i] = mutations[p][i] /\ mutations'[q][j] = mutations[q][j]
        BY <1>3, <3>1
      <4>. QED BY <2>1, <3>1, <4>1 DEF OneUpdate
    <3>2. CASE i \in 1 .. Len(mutations[p]) /\ mutations'[q][j] = m
      <4>1. mutations'[p][i] = mutations[p][i]
        BY <1>3, <3>2
      <4>2. exec[mutations[p][i].by].pc \in AwaitPcs
        BY <1>5, <2>1, <3>2, <4>1
      <4>. QED BY <1>1, <2>1, <3>2, <4>1, <4>2
    <3>3. CASE j \in 1 .. Len(mutations[q]) /\ mutations'[p][i] = m
      <4>1. mutations'[q][j] = mutations[q][j]
        BY <1>3, <3>3
      <4>2. exec[mutations[q][j].by].pc \in AwaitPcs
        BY <1>5, <2>1, <3>3, <4>1
      <4>. QED BY <1>1, <2>1, <3>3, <4>1, <4>2
    <3>4. \/ i \in 1 .. Len(mutations[p])
          \/ p = r /\ i = Len(mutations[r]) + 1 /\ mutations'[p][i] = m
      BY <1>4
    <3>5. \/ j \in 1 .. Len(mutations[q])
          \/ q = r /\ j = Len(mutations[r]) + 1 /\ mutations'[q][j] = m
      BY <1>4
    <3>. QED BY <3>1, <3>2, <3>3, <3>4, <3>5
  <2>. QED BY <2>1 DEF OneUpdate
<1>. QED BY <1>6, <1>7

\* The head of a chain commits; the execution that waited for it may move.
LEMMA UpdatesCommitted ==
    ASSUME UpdateAwaited, OneUpdate, TypeOK, NEW r \in Runs, Commits(r),
           \A s \in Slots : \/ exec'[s].pc = exec[s].pc
                            \/ /\ Head(mutations[r]).kind \in ExecutionKinds
                               /\ Head(mutations[r]).by = s
    PROVE  UpdateAwaited' /\ OneUpdate'
<1>1. /\ mutations[r] \in Seq(Mutations) /\ mutations[r] # << >>
      /\ mutations' = [mutations EXCEPT ![r] = Tail(@)]
      /\ mutations \in [Runs -> Seq(Mutations)]
  BY DEF TypeOK, MutationsOK, Commits, Committing
<1>2. /\ Len(Tail(mutations[r])) = Len(mutations[r]) - 1
      /\ \A i \in 1 .. Len(Tail(mutations[r])) :
            /\ i + 1 \in 1 .. Len(mutations[r])
            /\ Tail(mutations[r])[i] = mutations[r][i + 1]
      /\ Head(mutations[r]) = mutations[r][1] /\ 1 \in 1 .. Len(mutations[r])
  BY <1>1
<1> DEFINE old(q, i) == IF q = r THEN i + 1 ELSE i
<1>3. ASSUME NEW q \in Runs, NEW i \in 1 .. Len(mutations'[q])
      PROVE  /\ old(q, i) \in 1 .. Len(mutations[q])
             /\ mutations'[q][i] = mutations[q][old(q, i)]
             /\ q = r => old(q, i) # 1
  BY <1>1, <1>2
<1>4. ASSUME NEW q \in Runs, NEW i \in 1 .. Len(mutations'[q]), NEW j \in 1 .. Len(mutations'[q]),
             old(q, i) = old(q, j)
      PROVE  i = j
  BY <1>4
<1> HIDE DEF old
<1>5. ASSUME NEW q \in Runs, NEW i \in 1 .. Len(mutations'[q]),
             mutations'[q][i].kind \in ExecutionKinds
      PROVE  exec'[mutations'[q][i].by].pc = Awaits(mutations'[q][i].kind)
  <2> DEFINE x == mutations[q][old(q, i)]
  <2>1. x \in Mutations
    BY <1>1, <1>3
  <2>2. x.by \in Slots /\ x.kind \in ExecutionKinds
    BY <1>3, <1>5, <2>1 DEF Mutations, ExecutionKinds, Kinds
  <2>3. exec[x.by].pc = Awaits(x.kind)
    BY <1>3, <2>2 DEF UpdateAwaited
  <2>4. ~ (Head(mutations[r]).kind \in ExecutionKinds /\ Head(mutations[r]).by = x.by)
    BY <1>2, <1>3, <2>2 DEF OneUpdate
  <2>. QED BY <1>3, <2>2, <2>3, <2>4
<1>6. ASSUME NEW p \in Runs, NEW q \in Runs,
             NEW i \in 1 .. Len(mutations'[p]), NEW j \in 1 .. Len(mutations'[q]),
             mutations'[p][i].kind \in ExecutionKinds, mutations'[q][j].kind \in ExecutionKinds,
             mutations'[p][i].by = mutations'[q][j].by
      PROVE  p = q /\ i = j
  <2> DEFINE k == old(p, i)
             l == old(q, j)
  <2>1. /\ k \in 1 .. Len(mutations[p]) /\ mutations'[p][i] = mutations[p][k]
        /\ l \in 1 .. Len(mutations[q]) /\ mutations'[q][j] = mutations[q][l]
    BY <1>3
  <2>2. p = q /\ k = l
    <3> HIDE DEF k, l
    <3>. QED BY <1>6, <2>1 DEF OneUpdate
  <2>. QED BY <1>4, <2>2
<1>. QED BY <1>5, <1>6 DEF UpdateAwaited, OneUpdate

\* An execution asks for an update of its run.
LEMMA ExecutionAsks ==
    ASSUME UpdateAwaited, OneUpdate, TypeOK, NEW r \in RunOrNone, NEW kind \in ExecutionKinds,
           NEW s \in Slots, exec[s].pc \notin AwaitPcs, Mutate(r, kind, s),
           exec'[s].pc = Awaits(kind), \A t \in Slots \ {s} : exec'[t].pc = exec[t].pc
    PROVE  UpdateAwaited' /\ OneUpdate'
<1>1. \A t \in Slots : exec[t].pc \in AwaitPcs => exec'[t].pc = exec[t].pc
  OBVIOUS
<1>2. MutationsOK /\ [kind |-> kind, by |-> s] \in Mutations
  BY MutationTypes DEF TypeOK
<1>3. CASE r \in Runs
  BY <1>1, <1>2, <1>3, UpdatesAdded
<1>4. CASE r = None
  <2>1. UNCHANGED mutations
    BY <1>2, <1>4, RuntimeConstants DEF Mutate, MutationsOK
  <2>. QED BY <1>1, <1>2, <2>1, UpdatesKept
<1>. QED BY <1>3, <1>4 DEF RunOrNone

\* Every update of an execution is awaited by it, and it has one at a time.
LEMMA UpdatesStep ==
    ASSUME BoundInv, [Next]_vars
    PROVE  UpdateAwaited' /\ OneUpdate'
<1>. USE DEF BoundInv
<1>1. /\ MutationsOK /\ exec \in [Slots -> ExecRecords] /\ drain.id \in RunOrNone
      /\ \A s \in Slots : exec[s] \in ExecRecords /\ exec[s].run \in RunOrNone
  BY DEF TypeOK, ExecutionOK, ExecRecords, DispatchOK, DrainRecords
<1>2. CASE SamePc /\ UNCHANGED mutations
  BY <1>1, <1>2, UpdatesKept DEF SamePc
<1>3. ASSUME SamePc, NEW r \in Runs, NEW kind \in Kinds \ ExecutionKinds, NEW c \in Callers,
             Mutate(r, kind, c)
      PROVE  UpdateAwaited' /\ OneUpdate'
  <2>1. [kind |-> kind, by |-> c] \in Mutations
    BY MutationTypes
  <2>. QED BY <1>1, <1>3, <2>1, UpdatesAdded DEF SamePc
<1>4. ASSUME SamePc, NEW r \in Runs, Commits(r)
      PROVE  UpdateAwaited' /\ OneUpdate'
  BY <1>4, UpdatesCommitted DEF SamePc
<1>5. ASSUME NEW r \in Runs, CommitExecution(r) PROVE UpdateAwaited' /\ OneUpdate'
  BY <1>1, <1>5, UpdatesCommitted DEF CommitExecution, Commits
<1>6. ASSUME NEW s \in Slots, ExecutionStep(s) \/ BodyStep(s)
      PROVE  UpdateAwaited' /\ OneUpdate'
  <2>1. CASE ExecBody(s) \/ ExecSettled(s) \/ TaskFinally(s)
    <3>1. /\ UNCHANGED mutations
          /\ \A t \in Slots \ {s} : exec'[t] = exec[t]
          /\ exec[s].pc \notin AwaitPcs
      BY <1>1, <2>1 DEF ExecBody, ExecSettled, TaskFinally, ExecStep, AwaitPcs
    <3>. QED BY <1>1, <3>1, UpdatesKept
  <2>2. CASE ExecRefused(s) \/ ExecUnread(s) \/ BodyFails(s)
    <3>1. /\ Mutate(exec[s].run, "fail", s)
          /\ \A t \in Slots \ {s} : exec'[t] = exec[t]
          /\ exec[s].pc \notin AwaitPcs /\ exec'[s].pc = Awaits("fail")
      BY <1>1, <2>2 DEF ExecRefused, ExecUnread, BodyFails, ExecCatch, AwaitPcs, Awaits, ExecRecords
    <3>. QED BY <1>1, <3>1, ExecutionAsks DEF ExecutionKinds
  <2>3. CASE BodyReturns(s)
    <3>1. /\ Mutate(exec[s].run, "review", s)
          /\ \A t \in Slots \ {s} : exec'[t] = exec[t]
          /\ exec[s].pc \notin AwaitPcs /\ exec'[s].pc = Awaits("review")
      BY <1>1, <2>3 DEF BodyReturns, ExecStep, AwaitPcs, Awaits, ExecRecords
    <3>. QED BY <1>1, <3>1, ExecutionAsks DEF ExecutionKinds
  <2>. QED BY <1>6, <2>1, <2>2, <2>3 DEF ExecutionStep, BodyStep
<1>7. CASE DrainContinue
  <2>1. CASE UNCHANGED <<execution, mutations>>
    BY <1>2, <2>1 DEF execution, SamePc
  <2>2. ASSUME NEW s \in Slots \ Busy, Mutate(drain.id, "start", s),
               exec' = [exec EXCEPT ![s] = [pc |-> "starting", run |-> drain.id,
                                            reg |-> drain.reg, aborted |-> FALSE]]
        PROVE  UpdateAwaited' /\ OneUpdate'
    <3>1. /\ \A t \in Slots \ {s} : exec'[t] = exec[t]
          /\ exec[s].pc \notin AwaitPcs /\ exec'[s].pc = Awaits("start")
      BY <1>1, <2>2 DEF AwaitPcs, Awaits, Busy
    <3>. QED BY <1>1, <2>2, <3>1, ExecutionAsks DEF ExecutionKinds
  <2>. QED BY <1>7, <2>1, <2>2 DEF DrainContinue
<1>8. CASE Restarts
  BY <1>8 DEF Restarts, UpdateAwaited, OneUpdate
<1>. QED BY <1>2, <1>3, <1>4, <1>5, <1>6, <1>7, <1>8, ExecutionSteps

-----------------------------------------------------------------------------
(* The counter and the free slot *)

\* After the loop of drainQueue, the read it began has a free slot.
LEMMA DrainLoopSlotFree ==
    ASSUME NEW queue, NEW acc, NEW active, NEW otherwise \in {"idle", "exiting"},
           DrainLoop(queue, acc, active, otherwise), activeCount' = active
    PROVE  SlotFree'
BY DEF DrainLoop, MayDispatch, SlotFree, NoRead

\* A call of pump() leaves a free slot to the read it may begin, or that is in flight.
LEMMA PumpSlotFree ==
    ASSUME TypeOK, TypeOK', SlotFree, NEW queue, NEW acc, NEW active,
           Pump(queue, acc, active), activeCount' = active, activeCount' <= activeCount
    PROVE  SlotFree'
<1>1. activeCount \in Int /\ activeCount' \in Int /\ MaxConcurrentRuns \in Nat
  BY ConstantTypes DEF TypeOK, ExecutionOK
<1>. QED BY <1>1, DrainLoopSlotFree DEF Pump, SlotFree

\* So does whatever enqueues a run.
LEMMA ArmScheduledRunSlotFree ==
    ASSUME TypeOK, TypeOK', SlotFree, NEW r, NEW acc, NEW rec, UNCHANGED activeCount,
           ArmScheduledRun(r, acc, rec) \/ EnqueueRun(r, acc)
    PROVE  SlotFree'
<1>1. activeCount' <= activeCount
  BY DEF TypeOK, ExecutionOK
<1>. QED BY <1>1, PumpSlotFree DEF ArmScheduledRun, EnqueueRun, dispatch, SlotFree

\* No step takes the slot that the read in flight saw free.
LEMMA SlotFreeStep ==
    ASSUME TypeOK, TypeOK', SlotFree, [Next]_vars
    PROVE  SlotFree'
<1>. USE DEF execution, vars, beyondPlugins, beyondHost
<1>1. activeCount \in Int /\ activeCount' \in Int
  BY DEF TypeOK, ExecutionOK
<1>2. ASSUME UNCHANGED <<drain, activeCount>> PROVE SlotFree'
  BY <1>2 DEF SlotFree
<1>3. ASSUME NEW r \in Runs, AdmissionContinue(r) \/ ReleaseContinue(r) PROVE SlotFree'
  BY <1>2, <1>3, ArmScheduledRunSlotFree DEF AdmissionContinue, ReleaseContinue, dispatch
<1>4. ASSUME NEW r \in Runs, NEW c \in Callers, CancelContinue(r, c) PROVE SlotFree'
  BY <1>2, <1>4 DEF CancelContinue
<1>5. ASSUME NEW s \in Slots, TaskFinally(s) PROVE SlotFree'
  BY <1>1, <1>5, PumpSlotFree DEF TaskFinally
<1>6. ASSUME NEW g \in Registrations, RecoverContinue(g) PROVE SlotFree'
  BY <1>2, <1>6, ArmScheduledRunSlotFree DEF RecoverContinue, dispatch
<1>7. ASSUME NEW g \in Registrations, DisposeContinue(g) PROVE SlotFree'
  BY <1>2, <1>7 DEF DisposeContinue
<1>8. CASE DrainContinue \/ DrainFinally
  BY <1>8, DrainLoopSlotFree DEF DrainContinue, DrainFinally
<1>12. CASE DrainFails
  BY <1>12 DEF DrainFails, NoRead, SlotFree
<1>9. CASE InitDone
  BY <1>1, <1>9, PumpSlotFree DEF InitDone
<1>10. CASE Boot \/ Crash
  BY <1>10 DEF Boot, Crash, Fresh, NoRead, SlotFree
<1>11. CASE UNCHANGED dispatch
  <2>1. UNCHANGED activeCount \/ DrainContinue \/ (\E s \in Slots : TaskFinally(s)) \/ Restarts
    BY ExecutionSteps DEF CommitExecution, ExecutionStep, BodyStep, ExecBody, ExecRefused,
       ExecUnread, ExecSettled, BodyReturns, BodyFails, ExecStep, ExecCatch
  <2>2. CASE Restarts
    BY <1>11, <2>2, RuntimeConstants DEF Restarts, SlotFree
  <2>. QED BY <1>2, <1>5, <1>8, <1>11, <2>1, <2>2 DEF dispatch
<1>. QED BY <1>3, <1>4, <1>5, <1>6, <1>7, <1>8, <1>9, <1>10, <1>11, <1>12,
         DispatchSteps

\* The counter follows the executions, and does not pass the bound.
LEMMA ConcurrencyStep ==
    ASSUME BoundInv, [Next]_vars
    PROVE  ConcurrencyBound'
<1>. USE DEF BoundInv
<1>1. /\ exec \in [Slots -> ExecRecords] /\ MutationsOK
      /\ activeCount \in Int /\ MaxConcurrentRuns \in Nat
  BY ConstantTypes DEF TypeOK, ExecutionOK
<1>2. IsFiniteSet(Busy) /\ Cardinality(Busy) \in Nat
  BY RuntimeConstants, FS_Subset, FS_CardinalityType DEF Busy
<1>3. CASE SamePc /\ UNCHANGED activeCount
  BY <1>3 DEF SamePc, ConcurrencyBound, Busy
<1>5. ASSUME NEW r \in Runs, CommitExecution(r) PROVE ConcurrencyBound'
  <2> DEFINE m == Head(mutations[r])
  <2>1. mutations[r] \in Seq(Mutations) /\ mutations[r] # << >>
    BY <1>1, <1>5 DEF MutationsOK, CommitExecution, Commits, Committing
  <2>2. m \in Mutations /\ m.kind \in ExecutionKinds /\ m = mutations[r][1]
        /\ 1 \in 1 .. Len(mutations[r])
    BY <1>5, <2>1, HeadTailProperties DEF CommitExecution
  <2>3. m.by \in Slots /\ exec[m.by].pc = Awaits(m.kind)
    BY <2>2 DEF UpdateAwaited, Mutations, ExecutionKinds, Kinds
  <2>4. exec[m.by].pc # "idle"
    BY <2>3 DEF Awaits
  <2>5. PICK pc \in {"saved", "started", "refused"} : exec' = [exec EXCEPT ![m.by].pc = pc]
    BY <1>5 DEF CommitExecution, Told
  <2> HIDE DEF m
  <2>6. exec'[m.by].pc = pc /\ \A t \in Slots \ {m.by} : exec'[t] = exec[t]
    BY <1>1, <2>3, <2>5 DEF ExecRecords
  <2>7. Busy' = Busy
    BY <2>4, <2>5, <2>6, <2>3 DEF Busy
  <2>8. UNCHANGED activeCount
    BY <1>5 DEF CommitExecution
  <2>. QED BY <2>7, <2>8 DEF ConcurrencyBound
<1>6. ASSUME NEW s \in Slots, ExecutionStep(s) \/ BodyStep(s)
      PROVE  ConcurrencyBound'
  <2>1. CASE TaskFinally(s)
    <3>1. exec' = [exec EXCEPT ![s] = NoExec] /\ exec[s].pc = "closing"
          /\ activeCount' = activeCount - 1
      BY <2>1 DEF TaskFinally
    <3>2. Busy' = Busy \ {s} /\ s \in Busy
      BY <1>1, <3>1 DEF Busy, NoExec
    <3>3. Cardinality(Busy') = Cardinality(Busy) - 1
      BY <1>2, <3>2, FS_RemoveElement
    <3>. QED BY <1>1, <3>1, <3>3 DEF ConcurrencyBound
  <2>2. CASE ~TaskFinally(s)
    <3>1. /\ exec[s].pc # "idle" /\ exec'[s].pc # "idle" /\ UNCHANGED activeCount
          /\ \A t \in Slots \ {s} : exec'[t] = exec[t]
      BY <1>1, <1>6, <2>2 DEF ExecutionStep, BodyStep, ExecBody, ExecRefused, ExecUnread,
         ExecSettled,
         BodyReturns, BodyFails, ExecStep, ExecCatch, ExecRecords
    <3>2. Busy' = Busy
      BY <3>1 DEF Busy
    <3>. QED BY <3>1, <3>2 DEF ConcurrencyBound
  <2>. QED BY <2>1, <2>2
<1>7. CASE DrainContinue
  <2>1. CASE UNCHANGED execution
    BY <1>3, <2>1 DEF execution, SamePc
  <2>2. ASSUME NEW s \in Slots \ Busy, activeCount' = activeCount + 1,
               exec' = [exec EXCEPT ![s] = [pc |-> "starting", run |-> drain.id,
                                            reg |-> drain.reg, aborted |-> FALSE]]
        PROVE  ConcurrencyBound'
    <3>1. Busy' = Busy \cup {s}
      BY <1>1, <2>2 DEF Busy
    <3>2. Cardinality(Busy') = Cardinality(Busy) + 1
      BY <1>2, <2>2, <3>1, FS_AddElement
    <3>3. activeCount < MaxConcurrentRuns
      BY <1>7 DEF DrainContinue, SlotFree
    <3>. QED BY <1>1, <2>2, <3>2, <3>3 DEF ConcurrencyBound
  <2>. QED BY <1>7, <2>1, <2>2 DEF DrainContinue
<1>8. CASE Restarts
  <2>1. Busy' = {}
    BY <1>8 DEF Restarts, Busy, NoExec
  <2>. QED BY <1>1, <1>8, <2>1, FS_EmptySet DEF Restarts, ConcurrencyBound
<1>. QED BY <1>3, <1>5, <1>6, <1>7, <1>8, ExecutionSteps

-----------------------------------------------------------------------------

\* The service starts without executions, updates and reads.
LEMMA BoundInit == Init => BoundInv
<1>. SUFFICES ASSUME Init PROVE BoundInv
  OBVIOUS
<1>1. UpdateAwaited /\ OneUpdate /\ SlotFree
  BY DEF Init, Fresh, UpdateAwaited, OneUpdate, SlotFree, NoRead
<1>2. Busy = {} /\ activeCount = 0
  BY DEF Init, Fresh, Busy, NoExec
<1>3. ConcurrencyBound
  BY <1>2, FS_EmptySet, ConstantTypes DEF ConcurrencyBound
<1>. QED BY <1>1, <1>3, TypeInit DEF BoundInv

\* The strengthened bound is inductive.
LEMMA BoundStep == BoundInv /\ [Next]_vars => BoundInv'
<1>1. ASSUME BoundInv, [Next]_vars PROVE BoundInv'
  <2>1. TypeOK'
    BY <1>1, TypeStep DEF BoundInv
  <2>2. SlotFree'
    BY <1>1, <2>1, SlotFreeStep DEF BoundInv
  <2>. QED BY <1>1, <2>1, <2>2, UpdatesStep, ConcurrencyStep DEF BoundInv
<1>. QED BY <1>1

\* The pump tests activeCount, awaits a read, and only then increments it; the counter
\* is still the number of unfinished executions, and never above maxConcurrentRuns.
THEOREM ConcurrencyBounded == Spec => []ConcurrencyBound
<1>1. BoundInv => ConcurrencyBound
  BY DEF BoundInv
<1>. QED BY <1>1, BoundInit, BoundStep, PTL DEF Spec

-----------------------------------------------------------------------------
(* A cancellation is saved before it is announced.                         *)
(*                                                                         *)
(* CancelSavedBeforeAbort is not inductive: cancelFrom aborts, after its   *)
(* update, the controller that the run has by then.  It must be that of    *)
(* this run (ControllerOfRun), and what the update saved must still stand  *)
(* (CancelsSaved), though a later update may overwrite it (TerminalKept).  *)
(* The stop effect aborts without saving, but only in a host that is no    *)
(* longer up (StopStarted).                                                *)

EarlyPcs == {"starting", "started", "body"}

ControllerOfRun ==
    \A r \in Runs, s \in Slots :
        controllers[r] = s => exec[s].run = r /\ exec[s].pc \notin {"idle", "closing"}

CancelsSaved == \A r \in Runs : cancels[r] # {} => run[r].status \in Terminal

StopStarted == stop.pc # "none" => stopped

AbortSaved ==
    ~stopped => \A s \in Slots :
        exec[s].aborted /\ exec[s].pc \in EarlyPcs
        => exec[s].run \in Runs /\ run[exec[s].run].status \in Terminal

SavedInv == BoundInv /\ ControllerOfRun /\ CancelsSaved /\ StopStarted /\ AbortSaved

\* A new process knows of no cancellation and no controller.
Forgets ==
    /\ Restarts
    /\ controllers' = [r \in Runs |-> None] /\ cancels' = [r \in Runs |-> {}]
    /\ stop'.pc = "none"

\* A terminal status is only ever overwritten by a terminal one.
LEMMA TerminalKept ==
    ASSUME TypeOK, [Next]_vars, NEW r \in Runs, run[r].status \in Terminal
    PROVE  run'[r].status \in Terminal
<1>1. run \in [Runs -> RunRecords] /\ \A q \in Runs : run[q] \in RunRecords
  BY DEF TypeOK, DurableOK
<1>2. ASSUME NEW q \in Runs, Commits(q) PROVE run'[r].status \in Terminal
  <2> DEFINE kind == Head(mutations[q]).kind
  <2>1. kind \in Kinds
    BY <1>2, CommittingType DEF Commits, Mutations, Kinds
  <2>2. CASE run' = run
    BY <2>2
  <2>3. CASE /\ run' = [run EXCEPT ![q].status = Result(kind, run[q].status)]
             /\ Accepts(kind, run[q].status)
    <3> HIDE DEF kind
    <3>1. run[q].status \in Terminal => Result(kind, run[q].status) \in Terminal
      BY <2>1, <2>3 DEF Result, Outcome, Accepts, Terminal, Live, Kinds, ExecutionKinds,
         CancelKinds
    <3>2. run'[r].status = IF r = q THEN Result(kind, run[q].status) ELSE run[r].status
      BY <1>1, <2>3 DEF RunRecords
    <3>. QED BY <3>1, <3>2
  <2>. QED BY <1>2, <2>2, <2>3 DEF Commits, Committing
<1>3. ASSUME NEW q \in Runs, InitRun(q) PROVE run'[r].status \in Terminal
  BY <1>1, <1>3 DEF InitRun, RunRecords, Terminal
<1>4. ASSUME NEW q \in Runs, NEW g \in Registrations, NEW at \in Schedules, Start(q, g, at)
      PROVE  run'[r].status \in Terminal
  BY <1>1, <1>4 DEF Start, Terminal
<1>. QED BY <1>2, <1>3, <1>4, DurableSteps DEF Tick

\* The stop effect runs in a stopping host, and only a new process ends that.
LEMMA StopStep ==
    ASSUME TypeOK, StopStarted, [Next]_vars
    PROVE  /\ StopStarted'
           /\ ~stopped' => ~stopped \/ Forgets
<1>. USE DEF vars, beyondPlugins, beyondHost, phase, stopped
<1>1. stop \in StopRecords
  BY DEF TypeOK, PhaseOK
<1>2. ASSUME host' = host, stop'.pc = stop.pc
      PROVE  StopStarted' /\ (~stopped' => ~stopped)
  BY <1>2 DEF StopStarted
<1>3. ASSUME NEW r \in Runs, RunStep(r) PROVE host' = host /\ stop'.pc = stop.pc
  <2>1. ASSUME NEW ok, Committing(r, ok) PROVE stop'.pc = stop.pc
    BY <1>1, <2>1 DEF Committing, StopRecords
  <2>2. CASE CommitExecution(r) \/ CommitCancel(r) \/ CommitApproval(r) \/ CommitExpiry(r)
    BY <2>1, <2>2 DEF CommitExecution, CommitCancel, CommitApproval, CommitExpiry
  <2>3. CASE InitRun(r)
    BY <2>3 DEF InitRun
  <2>4. \/ UNCHANGED <<host, stop>>
        \/ CommitExecution(r) \/ CommitCancel(r) \/ CommitApproval(r) \/ CommitExpiry(r)
        \/ InitRun(r)
    BY <1>3 DEF RunStep, AdmissionContinue, CancelContinue, TimerFires, ReleaseContinue,
       ReleaseFails
  <2>. QED BY <2>2, <2>3, <2>4
<1>4. ASSUME NEW s \in Slots, ExecutionStep(s) \/ BodyStep(s)
      PROVE  host' = host /\ stop'.pc = stop.pc
  BY <1>1, <1>4 DEF ExecutionStep, BodyStep, ExecBody, ExecRefused, ExecUnread, ExecSettled,
     TaskFinally, BodyReturns, BodyFails, ExecStep, ExecCatch, StopRecords
<1>5. ASSUME NEW g \in Registrations, PluginStep(g) PROVE host' = host /\ stop'.pc = stop.pc
  BY <1>5 DEF PluginStep, RecoverContinue, RecoverResume, RecoverFails, DisposeAdmitted,
     DisposeContinue, DisposeResume, DisposeDrained, DisposeFails
<1>6. CASE DrainContinue \/ DrainFinally \/ DrainFails
  BY <1>2, <1>6 DEF DrainContinue, DrainFinally, DrainFails
<1>7. CASE StopAbort \/ StopTasks
  BY <1>1, <1>7 DEF StopAbort, StopTasks, StopStarted
<1>8. CASE StopEnd \/ StopBegin
  BY <1>8 DEF StopEnd, StopBegin, StopStarted
<1>9. CASE InitDone
  BY <1>9 DEF InitDone, StopStarted
<1>10. CASE Boot \/ Crash
  BY <1>10 DEF Boot, Crash, Fresh, Forgets, Restarts, StopStarted
<1>11. Environment => (host' = host /\ stop' = stop) \/ StopBegin \/ Crash
  <2>1. ASSUME NEW r \in Runs, NEW g \in Registrations, NEW at \in Schedules, Start(r, g, at)
        PROVE  host' = host /\ stop' = stop
    BY <2>1 DEF Start
  <2>2. ASSUME NEW r \in Runs, Cancel(r) \/ Review(r) PROVE host' = host /\ stop' = stop
    BY <2>2 DEF Cancel, Review, UserCommand
  <2>3. ASSUME NEW g \in Registrations, Register(g) \/ Dispose(g)
        PROVE  host' = host /\ stop' = stop
    BY <2>3 DEF Register, Dispose
  <2>. QED BY <2>1, <2>2, <2>3 DEF Environment
<1>12. CASE Tick \/ UNCHANGED vars
  BY <1>2, <1>12 DEF Tick
<1>. QED BY <1>2, <1>3, <1>4, <1>5, <1>6, <1>7, <1>8, <1>9, <1>10, <1>11, <1>12
         DEF Next, HostStep
\* No step takes the run from an execution that is neither free nor closing.
KeepsRuns ==
    \A s \in Slots : exec[s].pc \notin {"idle", "closing"}
                     => exec'[s].run = exec[s].run /\ exec'[s].pc \notin {"idle", "closing"}

LEMMA ControllerSteps ==
    ASSUME TypeOK, [Next]_vars
    PROVE  \/ KeepsRuns /\ UNCHANGED controllers
           \/ \E s \in Slots : ExecSettled(s)
           \/ DrainContinue
           \/ Forgets
<1>. USE DEF vars, beyondPlugins, beyondHost, execution
<1>1. exec \in [Slots -> ExecRecords] /\ \A s \in Slots : exec[s] \in ExecRecords
  BY DEF TypeOK, ExecutionOK
<1>2. UNCHANGED exec => KeepsRuns
  BY DEF KeepsRuns
<1>3. ASSUME NEW rs, exec' = Aborted(rs) PROVE KeepsRuns
  <2>1. \A s \in Slots : /\ [exec[s] EXCEPT !.aborted = TRUE].pc = exec[s].pc
                         /\ [exec[s] EXCEPT !.aborted = TRUE].run = exec[s].run
    BY <1>1 DEF ExecRecords
  <2>. QED BY <1>3, <2>1 DEF Aborted, KeepsRuns
<1>4. ASSUME NEW s, NEW pc \in {"started", "body", "reviewing", "saved", "refused"},
             exec' = [exec EXCEPT ![s].pc = pc]
      PROVE  KeepsRuns
  BY <1>1, <1>4 DEF KeepsRuns, ExecRecords
<1>5. ASSUME NEW r \in Runs, CommitExecution(r) PROVE KeepsRuns /\ UNCHANGED controllers
  <2>1. PICK pc \in {"saved", "started", "refused"} :
           exec' = [exec EXCEPT ![Head(mutations[r]).by].pc = pc]
    BY <1>5 DEF CommitExecution, Told
  <2>. QED BY <1>4, <1>5, <2>1 DEF CommitExecution
<1>6. ASSUME NEW r \in Runs, RunStep(r) PROVE KeepsRuns /\ UNCHANGED controllers
  BY <1>2, <1>3, <1>5, <1>6 DEF RunStep, AdmissionContinue, CommitCancel, CommitApproval,
     CommitExpiry, CancelContinue, TimerFires, ReleaseContinue, ReleaseFails, InitRun
<1>7. ASSUME NEW s \in Slots, ExecCatch(s) PROVE KeepsRuns /\ UNCHANGED controllers
  BY <1>1, <1>7 DEF ExecCatch, KeepsRuns, ExecRecords
<1>8. ASSUME NEW s \in Slots, TaskFinally(s) PROVE KeepsRuns /\ UNCHANGED controllers
  BY <1>1, <1>8 DEF TaskFinally, KeepsRuns
<1>9. ASSUME NEW s \in Slots, ExecutionStep(s) \/ BodyStep(s)
      PROVE  (KeepsRuns /\ UNCHANGED controllers) \/ ExecSettled(s)
  <2>1. CASE ExecBody(s) \/ BodyReturns(s)
    <3>1. PICK pc \in {"body", "reviewing"} : exec' = [exec EXCEPT ![s].pc = pc]
      BY <2>1 DEF ExecBody, BodyReturns, ExecStep
    <3>. QED BY <1>4, <2>1, <3>1 DEF ExecBody, BodyReturns
  <2>. QED BY <1>7, <1>8, <1>9, <2>1 DEF ExecutionStep, BodyStep, ExecRefused, ExecUnread, BodyFails
<1>10. ASSUME NEW g \in Registrations, PluginStep(g) PROVE UNCHANGED <<exec, controllers>>
  BY <1>10 DEF PluginStep, RecoverContinue, RecoverResume, RecoverFails, DisposeAdmitted,
     DisposeContinue, DisposeResume, DisposeDrained, DisposeFails
<1>11. CASE Boot \/ Crash
  BY <1>11 DEF Boot, Crash, Fresh, Forgets, Restarts
<1>12. CASE HostStep /\ ~Boot
  BY <1>2, <1>3, <1>12 DEF HostStep, DrainFinally, DrainFails, StopAbort, StopTasks, StopEnd,
     InitDone
<1>13. ASSUME Environment
       PROVE  UNCHANGED <<exec, controllers>> \/ Crash
  <2>1. ASSUME NEW r \in Runs, NEW g \in Registrations, NEW at \in Schedules, Start(r, g, at)
        PROVE  UNCHANGED <<exec, controllers>>
    BY <2>1 DEF Start
  <2>2. ASSUME NEW r \in Runs, Cancel(r) \/ Review(r) PROVE UNCHANGED <<exec, controllers>>
    BY <2>2 DEF Cancel, Review, UserCommand
  <2>3. ASSUME NEW g \in Registrations, Register(g) \/ Dispose(g)
        PROVE  UNCHANGED <<exec, controllers>>
    BY <2>3 DEF Register, Dispose
  <2>. QED BY <1>13, <2>1, <2>2, <2>3 DEF Environment, StopBegin
<1>14. CASE Tick \/ UNCHANGED vars
  BY <1>2, <1>14 DEF Tick
<1>. QED BY <1>2, <1>6, <1>9, <1>10, <1>11, <1>12, <1>13, <1>14 DEF Next

\* A controller is that of the execution of its run.
LEMMA ControllerStep ==
    ASSUME TypeOK, ControllerOfRun, [Next]_vars
    PROVE  ControllerOfRun'
<1>1. /\ exec \in [Slots -> ExecRecords] /\ controllers \in [Runs -> Slots \cup {None}]
      /\ \A s \in Slots : exec[s] \in ExecRecords
  BY DEF TypeOK, ExecutionOK
<1>2. ASSUME KeepsRuns, UNCHANGED controllers PROVE ControllerOfRun'
  BY <1>2 DEF KeepsRuns, ControllerOfRun
<1>3. ASSUME NEW s \in Slots, ExecSettled(s) PROVE ControllerOfRun'
  <2>1. /\ \A t \in Slots \ {s} : exec'[t] = exec[t]
        /\ controllers' = [controllers EXCEPT ![exec[s].run] = None]
    BY <1>1, <1>3 DEF ExecSettled, ExecStep
  <2>2. ASSUME NEW r \in Runs, NEW t \in Slots, controllers'[r] = t
        PROVE  controllers[r] = t /\ t # s
    <3>1. r # exec[s].run /\ controllers[r] = t
      BY <1>1, <2>1, <2>2, RuntimeConstants
    <3>. QED BY <3>1 DEF ControllerOfRun
  <2>. QED BY <2>1, <2>2 DEF ControllerOfRun
<1>4. CASE DrainContinue
  <2>1. CASE UNCHANGED execution
    BY <1>2, <2>1 DEF execution, KeepsRuns
  <2>2. ASSUME NEW s \in Slots \ Busy, controllers' = [controllers EXCEPT ![drain.id] = s],
               exec' = [exec EXCEPT ![s] = [pc |-> "starting", run |-> drain.id,
                                            reg |-> drain.reg, aborted |-> FALSE]]
        PROVE  ControllerOfRun'
    <3>1. /\ \A t \in Slots \ {s} : exec'[t] = exec[t]
          /\ exec'[s].pc = "starting" /\ exec'[s].run = drain.id
          /\ exec[s].pc = "idle"
      BY <1>1, <2>2 DEF Busy
    <3>2. ASSUME NEW r \in Runs, NEW t \in Slots, controllers'[r] = t
          PROVE  exec'[t].run = r /\ exec'[t].pc \notin {"idle", "closing"}
      <4>1. CASE r = drain.id
        BY <1>1, <2>2, <3>1, <3>2, <4>1
      <4>2. CASE r # drain.id
        BY <1>1, <2>2, <3>1, <3>2, <4>2 DEF ControllerOfRun
      <4>. QED BY <4>1, <4>2
    <3>. QED BY <3>2 DEF ControllerOfRun
  <2>. QED BY <1>4, <2>1, <2>2 DEF DrainContinue
<1>5. CASE Forgets
  BY <1>5, RuntimeConstants DEF Forgets, ControllerOfRun
<1>. QED BY <1>2, <1>3, <1>4, <1>5, ControllerSteps
\* A caller that goes on after its cancel finds the run cancelled, or failed since.
LEMMA CancelsSavedStep ==
    ASSUME TypeOK, CancelsSaved, [Next]_vars
    PROVE  CancelsSaved'
<1>. USE DEF vars, beyondPlugins, beyondHost, callers
<1>1. cancels \in [Runs -> SUBSET Callers] /\ run \in [Runs -> RunRecords]
  BY DEF TypeOK, CallersOK, DurableOK
<1>2. ASSUME \A r \in Runs : cancels'[r] \subseteq cancels[r] PROVE CancelsSaved'
  BY <1>2, TerminalKept DEF CancelsSaved
<1>3. ASSUME NEW r \in Runs, CommitCancel(r) PROVE CancelsSaved'
  <2> DEFINE m == Head(mutations[r])
  <2>1. PICK ok \in BOOLEAN : /\ Committing(r, ok)
                              /\ cancels' = IF ok THEN [cancels EXCEPT ![r] = @ \cup {m.by}]
                                                  ELSE cancels
    BY <1>3 DEF CommitCancel
  <2>2. m.kind \in CancelKinds
    BY <1>3 DEF CommitCancel
  <2>3. CASE ok = FALSE
    BY <1>2, <2>1, <2>3
  <2>4. CASE ok = TRUE
    <3>1. /\ run' = [run EXCEPT ![r].status = Result(m.kind, @)]
          /\ cancels' = [cancels EXCEPT ![r] = @ \cup {m.by}]
      BY <2>1, <2>4 DEF Committing
    <3>2. Result(m.kind, run[r].status) = "cancelled"
      BY <2>2 DEF Result, Outcome, CancelKinds
    <3> HIDE DEF m
    <3>3. run'[r].status \in Terminal
      BY <1>1, <3>1, <3>2 DEF Terminal, RunRecords
    <3>4. \A q \in Runs \ {r} : cancels'[q] = cancels[q]
      BY <1>1, <3>1
    <3>. QED BY <3>3, <3>4, TerminalKept DEF CancelsSaved
  <2>. QED BY <2>3, <2>4
<1>4. ASSUME NEW r \in Runs, NEW c \in Callers, CancelContinue(r, c) PROVE CancelsSaved'
  BY <1>1, <1>2, <1>4 DEF CancelContinue
<1>5. ASSUME NEW r \in Runs, RunStep(r) PROVE CancelsSaved'
  <2>1. UNCHANGED cancels \/ CommitCancel(r) \/ \E c \in Callers : CancelContinue(r, c)
    BY <1>5 DEF RunStep, AdmissionContinue, CommitExecution, CommitApproval, CommitExpiry,
       TimerFires, ReleaseContinue, ReleaseFails, InitRun
  <2>. QED BY <1>2, <1>3, <1>4, <2>1
<1>6. ASSUME NEW s \in Slots, ExecutionStep(s) \/ BodyStep(s) PROVE UNCHANGED cancels
  BY <1>6 DEF ExecutionStep, BodyStep, ExecBody, ExecRefused, ExecUnread, ExecSettled,
     TaskFinally, BodyReturns, BodyFails, ExecStep, ExecCatch
<1>7. ASSUME NEW g \in Registrations, PluginStep(g) PROVE UNCHANGED cancels
  BY <1>7 DEF PluginStep, RecoverContinue, RecoverResume, RecoverFails, DisposeAdmitted,
     DisposeContinue, DisposeResume, DisposeDrained, DisposeFails
<1>8. CASE Boot \/ Crash
  BY <1>8 DEF Boot, Crash, Fresh, CancelsSaved
<1>9. HostStep => UNCHANGED cancels \/ Boot
  BY DEF HostStep, DrainContinue, DrainFinally, DrainFails, StopAbort, StopTasks, StopEnd,
     InitDone
<1>10. ASSUME Environment
       PROVE  UNCHANGED cancels \/ Crash
  <2>1. ASSUME NEW r \in Runs, NEW g \in Registrations, NEW at \in Schedules, Start(r, g, at)
        PROVE  UNCHANGED cancels
    BY <2>1 DEF Start
  <2>2. ASSUME NEW r \in Runs, Cancel(r) \/ Review(r) PROVE UNCHANGED cancels
    BY <2>2 DEF Cancel, Review, UserCommand
  <2>3. ASSUME NEW g \in Registrations, Register(g) \/ Dispose(g) PROVE UNCHANGED cancels
    BY <2>3 DEF Register, Dispose
  <2>. QED BY <1>10, <2>1, <2>2, <2>3 DEF Environment, StopBegin
<1>11. Tick => UNCHANGED cancels
  BY DEF Tick
<1>. QED BY <1>2, <1>5, <1>6, <1>7, <1>8, <1>9, <1>10, <1>11 DEF Next

-----------------------------------------------------------------------------
(* Who is aborted, and where. *)

\* An execution that has not returned or failed yet is aborted by cancelFrom, by the stop
\* effect, or was aborted before, when it can only have been waiting for its start.
LEMMA AbortSteps ==
    ASSUME BoundInv, [Next]_vars, NEW s \in Slots,
           exec'[s].aborted, exec'[s].pc \in EarlyPcs
    PROVE  \/ /\ exec[s].aborted /\ exec[s].pc \in EarlyPcs /\ exec'[s].run = exec[s].run
              /\ ~Forgets
           \/ \E r \in Runs, c \in Callers :
                 /\ CancelContinue(r, c)
                 /\ controllers[r] = s /\ exec'[s].run = exec[s].run
           \/ StopAbort
<1>. USE DEF vars, beyondPlugins, beyondHost, execution, EarlyPcs
<1>1. /\ exec \in [Slots -> ExecRecords] /\ \A t \in Slots : exec[t] \in ExecRecords
      /\ MutationsOK
  BY DEF BoundInv, TypeOK, ExecutionOK
<1>2. ~Forgets
  BY DEF Forgets, Restarts, NoExec
<1> DEFINE Kept == exec[s].aborted /\ exec[s].pc \in EarlyPcs /\ exec'[s].run = exec[s].run
<1>3. UNCHANGED exec => Kept
  OBVIOUS
<1>4. ASSUME NEW r \in Runs, NEW c \in Callers, CancelContinue(r, c)
      PROVE  Kept \/ (controllers[r] = s /\ exec'[s].run = exec[s].run)
  BY <1>1, <1>4 DEF CancelContinue, Aborted, ExecRecords
<1>5. ASSUME NEW r \in Runs, CommitExecution(r) PROVE Kept
  <2> DEFINE m == Head(mutations[r])
  <2>1. mutations[r] \in Seq(Mutations) /\ mutations[r] # << >>
    BY <1>1, <1>5 DEF MutationsOK, CommitExecution, Committing
  <2>2. m \in Mutations /\ m = mutations[r][1] /\ 1 \in 1 .. Len(mutations[r])
    BY <2>1, HeadTailProperties
  <2>3. m.by \in Slots /\ m.kind \in ExecutionKinds /\ exec[m.by].pc = Awaits(m.kind)
    BY <1>5, <2>2 DEF CommitExecution, BoundInv, UpdateAwaited, Mutations, ExecutionKinds, Kinds
  <2>4. PICK ok \in BOOLEAN : exec' = [exec EXCEPT ![m.by].pc = Told(m.kind, ok)]
    BY <1>5 DEF CommitExecution
  <2> HIDE DEF m
  <2>5. CASE m.by # s
    BY <1>1, <2>4, <2>5
  <2>6. CASE m.by = s
    <3>1. exec'[s].pc = Told(m.kind, ok) /\ exec'[s].aborted = exec[s].aborted
          /\ exec'[s].run = exec[s].run
      BY <1>1, <2>3, <2>4, <2>6 DEF ExecRecords
    <3>2. m.kind = "start"
      BY <3>1 DEF Told
    <3>3. exec[s].pc = "starting"
      BY <2>3, <2>6, <3>2 DEF Awaits
    <3>. QED BY <3>1, <3>3
  <2>. QED BY <2>5, <2>6
<1>6. ASSUME NEW r \in Runs, RunStep(r)
      PROVE  Kept \/ \E c \in Callers : /\ CancelContinue(r, c)
                                        /\ controllers[r] = s /\ exec'[s].run = exec[s].run
  <2>1. \/ UNCHANGED exec \/ CommitExecution(r)
        \/ \E c \in Callers : CancelContinue(r, c)
    BY <1>6 DEF RunStep, AdmissionContinue, CommitCancel, CommitApproval, CommitExpiry,
       TimerFires, ReleaseContinue, ReleaseFails, InitRun
  <2> HIDE DEF Kept
  <2>. QED BY <1>3, <1>4, <1>5, <2>1
<1>7. ASSUME NEW t \in Slots, ExecutionStep(t) \/ BodyStep(t) PROVE Kept
  <2>1. CASE t # s
    BY <1>1, <1>7, <2>1 DEF ExecutionStep, BodyStep, ExecBody, ExecRefused, ExecUnread,
       ExecSettled, TaskFinally, BodyReturns, BodyFails, ExecStep, ExecCatch
  <2>2. CASE t = s
    <3>1. CASE ExecBody(s)
      BY <1>1, <3>1 DEF ExecBody, ExecStep, ExecRecords
    <3>2. exec'[s].pc \in EarlyPcs => ExecBody(s)
      BY <1>1, <1>7, <2>2 DEF ExecutionStep, BodyStep, ExecRefused, ExecUnread, ExecSettled,
         TaskFinally, NoExec, BodyReturns, BodyFails, ExecStep, ExecCatch, ExecRecords
    <3>. QED BY <3>1, <3>2
  <2>. QED BY <2>1, <2>2
<1>8. ASSUME NEW g \in Registrations, PluginStep(g) PROVE UNCHANGED exec
  BY <1>8 DEF PluginStep, RecoverContinue, RecoverResume, RecoverFails, DisposeAdmitted,
     DisposeContinue, DisposeResume, DisposeDrained, DisposeFails
<1>9. ASSUME DrainContinue PROVE Kept
  <2>1. ASSUME NEW t \in Slots \ Busy,
               exec' = [exec EXCEPT ![t] = [pc |-> "starting", run |-> drain.id,
                                            reg |-> drain.reg, aborted |-> FALSE]]
        PROVE  Kept
    BY <1>1, <2>1
  <2>2. \/ UNCHANGED exec
        \/ \E t \in Slots \ Busy :
              exec' = [exec EXCEPT ![t] = [pc |-> "starting", run |-> drain.id,
                                           reg |-> drain.reg, aborted |-> FALSE]]
    BY <1>9 DEF DrainContinue
  <2> HIDE DEF Kept
  <2>. QED BY <1>3, <2>1, <2>2
<1>10. ASSUME Boot \/ Crash PROVE FALSE
  BY <1>10 DEF Boot, Crash, Fresh, NoExec
<1>11. HostStep => UNCHANGED exec \/ DrainContinue \/ StopAbort \/ Boot
  BY DEF HostStep, DrainFinally, DrainFails, StopTasks, StopEnd, InitDone
<1>12. ASSUME Environment
       PROVE  UNCHANGED exec \/ Crash
  <2>1. ASSUME NEW r \in Runs, NEW g \in Registrations, NEW at \in Schedules, Start(r, g, at)
        PROVE  UNCHANGED exec
    BY <2>1 DEF Start
  <2>2. ASSUME NEW r \in Runs, Cancel(r) \/ Review(r) PROVE UNCHANGED exec
    BY <2>2 DEF Cancel, Review, UserCommand
  <2>3. ASSUME NEW g \in Registrations, Register(g) \/ Dispose(g) PROVE UNCHANGED exec
    BY <2>3 DEF Register, Dispose
  <2>. QED BY <1>12, <2>1, <2>2, <2>3 DEF Environment, StopBegin
<1>13. Tick => UNCHANGED exec
  BY DEF Tick
<1> HIDE DEF Kept
<1>14. HostStep \/ Environment \/ Tick \/ UNCHANGED vars => Kept \/ StopAbort
  BY <1>3, <1>9, <1>10, <1>11, <1>12, <1>13
<1>15. Kept \/ StopAbort \/ \E r \in Runs, c \in Callers :
                              /\ CancelContinue(r, c)
                              /\ controllers[r] = s /\ exec'[s].run = exec[s].run
  BY <1>3, <1>6, <1>7, <1>8, <1>14 DEF Next
<1>. QED BY <1>2, <1>15 DEF Kept

\* Whoever aborts an execution has saved the outcome of its run.
LEMMA AbortSavedStep ==
    ASSUME SavedInv, [Next]_vars
    PROVE  AbortSaved'
<1>. USE DEF SavedInv
<1>1. TypeOK
  BY DEF BoundInv
<1>2. SUFFICES ASSUME ~stopped', NEW s \in Slots, exec'[s].aborted, exec'[s].pc \in EarlyPcs
               PROVE  exec'[s].run \in Runs /\ run'[exec'[s].run].status \in Terminal
  BY DEF AbortSaved
<1>3. CASE exec[s].aborted /\ exec[s].pc \in EarlyPcs /\ exec'[s].run = exec[s].run /\ ~Forgets
  <2>1. ~stopped
    BY <1>1, <1>2, <1>3, StopStep
  <2>2. exec[s].run \in Runs /\ run[exec[s].run].status \in Terminal
    BY <1>3, <2>1 DEF AbortSaved
  <2>. QED BY <1>1, <1>3, <2>2, TerminalKept
<1>4. ASSUME NEW r \in Runs, NEW c \in Callers, CancelContinue(r, c), controllers[r] = s,
             exec'[s].run = exec[s].run
      PROVE  exec'[s].run \in Runs /\ run'[exec'[s].run].status \in Terminal
  <2>1. run[r].status \in Terminal
    BY <1>4 DEF CancelContinue, CancelsSaved
  <2>2. exec'[s].run = r
    BY <1>4 DEF ControllerOfRun
  <2>. QED BY <1>1, <2>1, <2>2, TerminalKept
<1>5. CASE StopAbort
  <2>1. stopped /\ host' = host
    BY <1>5 DEF StopAbort, StopStarted
  <2>. QED BY <1>2, <2>1 DEF stopped
<1>. QED BY <1>2, <1>3, <1>4, <1>5, AbortSteps

\* The service starts without cancellations, controllers and a stop.
LEMMA SavedInit == Init => SavedInv
<1>. SUFFICES ASSUME Init PROVE SavedInv
  OBVIOUS
<1>1. /\ controllers = [r \in Runs |-> None] /\ cancels = [r \in Runs |-> {}]
      /\ exec = [s \in Slots |-> NoExec] /\ stop.pc = "none"
  BY DEF Init, Fresh
<1>2. ControllerOfRun /\ CancelsSaved /\ StopStarted /\ AbortSaved
  BY <1>1, RuntimeConstants DEF ControllerOfRun, CancelsSaved, StopStarted, AbortSaved, NoExec
<1>. QED BY <1>2, BoundInit DEF SavedInv

\* The strengthened invariant is inductive.
LEMMA SavedStep == SavedInv /\ [Next]_vars => SavedInv'
<1>1. ASSUME SavedInv, [Next]_vars PROVE SavedInv'
  <2>1. BoundInv' /\ AbortSaved'
    BY <1>1, BoundStep, AbortSavedStep DEF SavedInv
  <2>. QED BY <1>1, <2>1, ControllerStep, CancelsSavedStep, StopStep DEF SavedInv, BoundInv
<1>. QED BY <1>1

\* While the host is up, a signal is aborted only after the outcome is saved or while
\* the execution itself is failing: cancelFrom() awaits its update before it aborts.
THEOREM CancellationIsSavedFirst == Spec => []CancelSavedBeforeAbort
<1>1. SavedInv => CancelSavedBeforeAbort
  BY DEF SavedInv, AbortSaved, CancelSavedBeforeAbort, stopped, EarlyPcs
<1>. QED BY <1>1, SavedInit, SavedStep, PTL DEF Spec
=============================================================================
