------------------------- MODULE FactoryQueueProofs -------------------------
(***************************************************************************)
(* FactoryRuntime loses no queued run, whatever plugins come and go: for   *)
(* any number of runs, registrations, unloads, host starts, stops and      *)
(* crashes, as long as the repository keeps the updates and answers the    *)
(* reads of the pump and of the releases (Reliable).                       *)
(*                                                                         *)
(* Whoever gives a queued run up hands it on in the same step (NoneUnheld, *)
(* which also covers the runs that Service.init has still to look at).     *)
(* That is inductive because what a step relies on stands: a status that   *)
(* was read as anything but "queued" is not that of a queued run, for no   *)
(* run becomes queued twice (NotStale), and what is not created yet is in  *)
(* nobody's hand (HeldStored); the start or the expiry that commits is     *)
(* that of the execution or of the recovery that waits for it (UpdateOwn,  *)
(* ExpiryOwn), of which a recovery has one at a time (ExpiryOnce,          *)
(* RegisteredOnce); and an execution past its start has moved its run on   *)
(* (Begun).                                                                *)
(*                                                                         *)
(* And a disposer that has resolved leaves no immediate run executing      *)
(* (ImmediateRunsDrained), without that condition.  What the disposer      *)
(* awaits are the tasks of the runs that were accepted for it when its     *)
(* walk began, while what uses the implementation are executions whose     *)
(* registration the pump had read from accepted before its await.  Both    *)
(* agree for a run without a schedule: it is in one place at a time        *)
(* (Sole), and the read in flight or the execution still under way has the *)
(* registration of the map (Follows).  The walk misses none: once a        *)
(* disposal has begun nothing more is accepted for it (Gone, AdmitsOwn),   *)
(* what it has passed has left the queue (Walks), because the cancellation *)
(* it waits for is its own and the only one (CancelOwn, CancelOnce); so    *)
(* nothing starts behind its back (Drains).                                *)
(*                                                                         *)
(* So an immediate run keeps what FactoryDispatchProofs shows of every run *)
(* while plugins stay and a workflow keeps its version: it is dispatched   *)
(* once and moves along the documented edges (Orderly).  Its one place is  *)
(* Sole again, its status fits that place (PromptFits), and neither a      *)
(* recovery (Unexpired) nor Service.init, which works alone (InitIdle) on  *)
(* the runs it has listed (BootStatus), fails a run that has gone on.      *)
(*                                                                         *)
(* Last, nobody waits for what no step will bring.  At rest the pump has   *)
(* nothing left that it could take (Served); whoever awaits an update has  *)
(* it in the chain of its run or has been told of it, and whoever awaits   *)
(* tasks awaits activations that go on (Answered).  That is the part a     *)
(* proof can say of RunLeavesQueue, DisposerSettles and StopEnds: the rest *)
(* is fairness.                                                            *)
(*                                                                         *)
(* And the stop effect, whatever it misses of the executions, leaves every *)
(* start() decided (StopDecides, under Reliable): a queued run belongs to  *)
(* its admission, to the registration that accepted it, to the parked      *)
(* ones or to a recovery that is failing it (Owned), also in a host that   *)
(* is stopping, and the first and the last of these have settled when the  *)
(* effect goes on (StopSettled, StopQuiet).                                *)
(***************************************************************************)
EXTENDS FactoryDispatchProofs

Held(r) ==
    \/ admission[r].pc \in {"creating", "cancelling"}
    \/ scheduledTimers[r] # NoTimer
    \/ release[r] = "queued"
    \/ Queued(r) /\ accepted[r] # None
    \/ drain.id = r /\ drain.reg # None
    \/ \E s \in Busy : exec[s].run = r /\ exec[s].pc = "starting"
    \/ \E g \in Registrations : Fails(g, r)
    \/ r \in recoverable

NoneUnheld ==
    host \in {"init", "up"} =>
        \A r \in Runs : run[r].status = "queued" => r \in booting \/ Held(r)

HeldStored ==
    \A r \in Runs : ~Stored(r) =>
        /\ scheduledTimers[r] = NoTimer /\ release[r] = "none" /\ r \notin recoverable
        /\ \A g \in Registrations : ~Reads(g, r)
        /\ \A g \in Registrations :
              disposer[g].pc = "reading" /\ disposer[g].seen = "queued" => disposer[g].id # r

NotStale ==
    \A r \in Runs : run[r].status = "queued" =>
        /\ drain.pc = "reading" /\ drain.id = r => drain.seen = "queued"
        /\ release[r] \in {"none", "queued"}
        /\ \A g \in Registrations : Reads(g, r) => recovery[g].seen = "queued"

ExpiryOwn ==
    \A r \in Runs : \A i \in 1 .. Len(mutations[r]) :
        mutations[r][i].kind = "expire" =>
            mutations[r][i].by \in Registrations /\ Fails(mutations[r][i].by, r)

ExpiryOnce ==
    \A r \in Runs : \A i, j \in 1 .. Len(mutations[r]) :
        /\ mutations[r][i].kind = "expire" /\ mutations[r][j].kind = "expire"
        /\ mutations[r][i].by = mutations[r][j].by
        => i = j

RejectsByUser ==
    \A r \in Runs : \A i \in 1 .. Len(mutations[r]) :
        mutations[r][i].kind = "reject" => mutations[r][i].by = "user"

RegisteredOnce ==
    \A g \in Registrations : recovery[g].pc # "none" => disposer[g].pc # "none"

Begun ==
    \A s \in Busy :
        /\ exec[s].run \in Runs /\ Stored(exec[s].run)
        /\ exec[s].pc # "starting" => run[exec[s].run].status # "queued"

HeldInv ==
    /\ EarlyInv /\ SavedInv /\ DrainIdle /\ AdmittedFor /\ InitBoots
    /\ HeldStored /\ NotStale /\ UpdateOwn /\ ExpiryOwn /\ ExpiryOnce /\ RejectsByUser
    /\ RegisteredOnce /\ Begun /\ NoneUnheld

\* The repository keeps every update, and answers the reads of the pump and of releases.
Reliable == MayFail \subseteq {"execution", "recovery", "disposer"}

-----------------------------------------------------------------------------
(* What was read, and when *)

\* A recovery reads the status of a run that is parked at that moment.
LEMMA RecoveryReads ==
    ASSUME TypeOK, [Next]_vars, NEW g \in Registrations, recovery'[g].pc = "reading"
    PROVE  \/ recovery'[g] = recovery[g]
           \/ /\ recovery'[g].id \in recoverable
              /\ recovery'[g].seen = run[recovery'[g].id].status
<1>. DEFINE Read == /\ recovery'[g].id \in recoverable
                    /\ recovery'[g].seen = run[recovery'[g].id].status
<1>1. /\ recovery \in [Registrations -> RecoveryRecords]
      /\ \A h \in Registrations : recovery[h] \in RecoveryRecords
  BY DEF TypeOK, PluginsOK
<1>2. ASSUME NEW h \in Registrations, NEW rec \in SUBSET recoverable, RecoverNext(h, rec)
      PROVE  recovery'[g] = recovery[g] \/ Read
  BY <1>1, <1>2 DEF RecoverNext, Candidates
<1>3. ASSUME NEW h, NEW pc \in {"failing", "next", "rejected"},
             recovery' = [recovery EXCEPT ![h].pc = pc]
      PROVE  recovery'[g] = recovery[g]
  BY <1>1, <1>3 DEF RecoveryRecords
<1>4. ASSUME NEW h \in Registrations, RecoverContinue(h)
      PROVE  recovery'[g] = recovery[g] \/ Read
  <2>1. \A acc, r : ArmScheduledRun(r, acc, recoverable \ {r}) => recoverable' \subseteq recoverable
    BY DEF ArmScheduledRun, EnqueueRun
  <2>2. \/ recovery' = [recovery EXCEPT ![h] = [pc |-> "done", id |-> None, seen |-> "absent"]]
        \/ recovery' = [recovery EXCEPT ![h].pc = "failing"]
        \/ RecoverNext(h, recoverable') /\ recoverable' \subseteq recoverable
    BY <1>4, <2>1 DEF RecoverContinue
  <2>3. CASE recovery' = [recovery EXCEPT ![h] = [pc |-> "done", id |-> None, seen |-> "absent"]]
    BY <1>1, <2>3
  <2>. QED BY <1>2, <1>3, <2>2, <2>3
<1>5. ASSUME NEW h \in Registrations, RecoverResume(h) \/ Register(h)
      PROVE  recovery'[g] = recovery[g] \/ Read
  BY <1>2, <1>5 DEF RecoverResume, Register
<1>6. CASE (\E h \in Registrations : RecoverFails(h)) \/ \E r \in Runs : CommitExpiry(r)
  BY <1>3, <1>6 DEF RecoverFails, CommitExpiry
<1>7. CASE Boot \/ Crash
  BY <1>7 DEF Boot, Crash, Fresh, NoRecovery
<1>. QED BY <1>4, <1>5, <1>6, <1>7, RegistrationSteps DEF Dispose

\* So does a disposer of its run, and the pump of the one it shifts.
LEMMA DisposerReads ==
    ASSUME TypeOK, [Next]_vars, NEW g \in Registrations, disposer'[g].pc = "reading"
    PROVE  \/ /\ disposer[g].pc = "reading" /\ disposer'[g].id = disposer[g].id
              /\ disposer'[g].seen = disposer[g].seen
           \/ disposer'[g].seen = run[disposer'[g].id].status
<1>. DEFINE Kept == /\ disposer[g].pc = "reading" /\ disposer'[g].id = disposer[g].id
                    /\ disposer'[g].seen = disposer[g].seen
            Read == disposer'[g].seen = run[disposer'[g].id].status
<1>. USE DEF vars, beyondPlugins, beyondHost, plugins
<1>1. /\ disposer \in [Registrations -> DisposerRecords]
      /\ \A h \in Registrations : disposer[h] \in DisposerRecords
  BY DEF TypeOK, PluginsOK
<1>2. ASSUME NEW h, NEW pc \in {"registered", "rejected", "next", "disposed", "cancelling"},
             disposer' = [disposer EXCEPT ![h].pc = pc]
      PROVE  Kept
  BY <1>1, <1>2 DEF DisposerRecords
<1>3. ASSUME NEW h \in Registrations, NEW ids, NEW todo, DisposeNext(h, ids, todo)
      PROVE  Kept \/ Read
  <2>1. CASE h # g
    BY <1>1, <1>3, <2>1 DEF DisposeNext
  <2>2. CASE h = g
    <3>1. \/ \E r \in todo : disposer'[g] =
                [disposer[g] EXCEPT !.pc = "reading", !.ids = ids, !.todo = todo \ {r},
                                    !.id = r, !.seen = run[r].status]
          \/ disposer'[g] = [disposer[g] EXCEPT !.pc = "draining", !.ids = {}, !.todo = {},
                                    !.id = None, !.seen = "absent", !.slots = TasksOf(ids)]
      BY <1>1, <1>3, <2>2 DEF DisposeNext
    <3>. QED BY <1>1, <3>1 DEF DisposerRecords
  <2>. QED BY <2>1, <2>2
<1>4. ASSUME NEW r \in Runs, RunStep(r)
      PROVE  \/ UNCHANGED disposer
             \/ \E h : \/ disposer' = [disposer EXCEPT ![h].pc = "rejected"]
                       \/ disposer' = [disposer EXCEPT ![h].pc = "next"]
  BY <1>4 DEF RunStep, AdmissionContinue, CommitExecution, CommitCancel, CommitApproval,
     CommitExpiry, CancelContinue, TimerFires, ReleaseContinue, ReleaseFails, InitRun
<1>5. ASSUME NEW s \in Slots, ExecutionStep(s) \/ BodyStep(s)
      PROVE  \/ UNCHANGED disposer
             \/ disposer' = [h \in Registrations |-> [disposer[h] EXCEPT !.slots = @ \ {s}]]
  BY <1>5 DEF ExecutionStep, BodyStep, ExecBody, ExecRefused, ExecUnread, ExecSettled,
     TaskFinally, BodyReturns, BodyFails, ExecStep, ExecCatch
<1>6. ASSUME NEW h \in Registrations, PluginStep(h)
      PROVE  \/ UNCHANGED disposer
             \/ \E pc \in {"rejected", "disposed", "cancelling"} :
                   disposer' = [disposer EXCEPT ![h].pc = pc]
             \/ \E ids, todo : DisposeNext(h, ids, todo)
  BY <1>6 DEF PluginStep, RecoverContinue, RecoverResume, RecoverFails, DisposeAdmitted,
     DisposeContinue, DisposeResume, DisposeDrained, DisposeFails
<1>7. HostStep => UNCHANGED disposer \/ disposer' = [h \in Registrations |-> NoDisposer]
  BY DEF HostStep, DrainContinue, DrainFails, DrainFinally, StopAbort, StopTasks, StopEnd,
     Boot, Fresh, InitDone
<1>8. ASSUME Environment
      PROVE  \/ UNCHANGED disposer
             \/ disposer' = [h \in Registrations |-> NoDisposer]
             \/ \E h \in Registrations : \/ disposer' = [disposer EXCEPT ![h].pc = "registered"]
                                         \/ Dispose(h)
  BY <1>8 DEF Environment, Start, Cancel, Review, UserCommand, Register,
              StopBegin, Crash, Fresh
<1>9. ASSUME NEW h \in Registrations, Dispose(h) PROVE Kept
  BY <1>1, <1>9 DEF Dispose, DisposerRecords
<1>10. ASSUME disposer' = [h \in Registrations |-> NoDisposer]
       PROVE  Kept
  BY <1>10 DEF NoDisposer
<1>11. ASSUME \E s : disposer' = [h \in Registrations |-> [disposer[h] EXCEPT !.slots = @ \ {s}]]
       PROVE  Kept
  BY <1>1, <1>11 DEF DisposerRecords
<1>12. ASSUME UNCHANGED disposer PROVE Kept
  BY <1>12
<1>. HIDE DEF Kept, Read
<1>13. ASSUME NEW r \in Runs, RunStep(r) PROVE Kept \/ Read
  BY <1>2, <1>4, <1>12, <1>13
<1>14. ASSUME NEW s \in Slots, ExecutionStep(s) \/ BodyStep(s) PROVE Kept \/ Read
  BY <1>5, <1>11, <1>12, <1>14
<1>15. ASSUME NEW h \in Registrations, PluginStep(h) PROVE Kept \/ Read
  BY <1>2, <1>3, <1>6, <1>12, <1>15
<1>16. ASSUME HostStep PROVE Kept \/ Read
  BY <1>7, <1>10, <1>12, <1>16
<1>17. ASSUME Environment PROVE Kept \/ Read
  BY <1>2, <1>8, <1>9, <1>10, <1>12, <1>17
<1>18. Kept \/ Read
  BY <1>12, <1>13, <1>14, <1>15, <1>16, <1>17 DEF Next, Tick
<1>. QED BY <1>18 DEF Kept, Read

\* What the pump has read is the status of the run it has shifted.
LEMMA DrainReads ==
    ASSUME [Next]_vars, drain'.pc = "reading"
    PROVE  drain' = drain \/ drain'.seen = run[drain'.id].status
<1>. DEFINE Read == drain' = drain \/ drain'.seen = run[drain'.id].status
<1>1. ASSUME NEW queue, NEW acc, NEW active,
             \/ Pump(queue, acc, active)
             \/ \E otherwise \in {"idle", "exiting"} : DrainLoop(queue, acc, active, otherwise)
      PROVE  Read
  BY <1>1 DEF Pump, DrainLoop, NoRead
<1>2. ASSUME NEW r, NEW acc, NEW rec, ArmScheduledRun(r, acc, rec) \/ EnqueueRun(r, acc)
      PROVE  Read
  BY <1>1, <1>2 DEF ArmScheduledRun, EnqueueRun, dispatch
<1>3. ASSUME NEW r \in Runs,
             AdmissionContinue(r) \/ ReleaseContinue(r) \/ \E c \in Callers : CancelContinue(r, c)
      PROVE  Read
  BY <1>2, <1>3 DEF AdmissionContinue, ReleaseContinue, CancelContinue, dispatch
<1>4. ASSUME NEW s \in Slots, TaskFinally(s) PROVE Read
  BY <1>1, <1>4 DEF TaskFinally
<1>5. ASSUME NEW g \in Registrations, RecoverContinue(g) \/ DisposeContinue(g) PROVE Read
  BY <1>2, <1>5 DEF RecoverContinue, DisposeContinue, dispatch
<1>6. CASE DrainContinue \/ DrainFinally \/ InitDone
  BY <1>1, <1>6 DEF DrainContinue, DrainFinally, InitDone
<1>7. ~DrainFails /\ ~Boot /\ ~Crash
  BY DEF DrainFails, Boot, Crash, Fresh, NoRead
<1>. QED BY <1>3, <1>4, <1>5, <1>6, <1>7, DispatchSteps DEF dispatch

-----------------------------------------------------------------------------
(* What is not created yet is in nobody's hand, and what was read holds *)

LEMMA HeldStoredStep ==
    ASSUME HeldInv, [Next]_vars
    PROVE  HeldStored'
<1>. SUFFICES ASSUME NEW r \in Runs, ~Stored(r)'
              PROVE  /\ scheduledTimers'[r] = NoTimer /\ release'[r] = "none"
                     /\ r \notin recoverable'
                     /\ \A g \in Registrations : ~Reads(g, r)'
                     /\ \A g \in Registrations :
                           disposer'[g].pc = "reading" /\ disposer'[g].seen = "queued"
                           => disposer'[g].id # r
  BY DEF HeldStored
<1>1. TypeOK /\ EarlyInv /\ HolderStored /\ HeldStored
  BY DEF HeldInv, EarlyInv
<1>2. ~Stored(r)
  BY <1>1, StoredKept
<1>3. /\ scheduledTimers[r] = NoTimer /\ release[r] = "none" /\ r \notin recoverable
      /\ \A g \in Registrations : ~Reads(g, r)
      /\ \A g \in Registrations :
            disposer[g].pc = "reading" /\ disposer[g].seen = "queued" => disposer[g].id # r
  BY <1>1, <1>2 DEF HeldStored
<1>4. ~AdmissionContinue(r) /\ ~ReleaseContinue(r) /\ ~TimerFires(r)
  BY <1>1, <1>2, <1>3 DEF HolderStored, AdmissionContinue, ReleaseContinue, TimerFires
<1>5. scheduledTimers'[r] = NoTimer
  <2>1. \A g \in Registrations : RecoverContinue(g) => recovery[g].id # r
    BY <1>3 DEF RecoverContinue, Reads
  <2>. QED BY <1>1, <1>3, <1>4, <2>1, TimerSteps
<1>6. release'[r] = "none"
  BY <1>1, <1>3, <1>4, ReleaseReads
<1>7. r \notin recoverable'
  <2>1. \A g \in Registrations :
           DisposeContinue(g) => ~(disposer[g].id = r /\ disposer[g].seen = "queued")
    BY <1>3 DEF DisposeContinue
  <2>2. ~(InitRun(r) /\ r \in recoverable')
    BY <1>2, <1>3 DEF InitRun, Stored
  <2>. QED BY <1>1, <1>3, <1>4, <2>1, <2>2, ParkSteps
<1>8. \A g \in Registrations : ~Reads(g, r)'
  BY <1>1, <1>3, RecoveryReads DEF Reads
<1>9. \A g \in Registrations :
         disposer'[g].pc = "reading" /\ disposer'[g].seen = "queued" => disposer'[g].id # r
  BY <1>1, <1>2, <1>3, DisposerReads DEF Stored
<1>. QED BY <1>5, <1>6, <1>7, <1>8, <1>9

LEMMA NotStaleStep ==
    ASSUME HeldInv, [Next]_vars
    PROVE  NotStale'
<1>. SUFFICES ASSUME NEW r \in Runs, run'[r].status = "queued"
              PROVE  /\ drain'.pc = "reading" /\ drain'.id = r => drain'.seen = "queued"
                     /\ release'[r] \in {"none", "queued"}
                     /\ \A g \in Registrations : Reads(g, r)' => recovery'[g].seen = "queued"
  BY DEF NotStale
<1>1. TypeOK /\ EarlyInv /\ DrainReady /\ HeldStored /\ NotStale
  BY DEF HeldInv, EarlyInv
<1>2. CASE run[r].status = "queued"
  <2>1. drain'.pc = "reading" /\ drain'.id = r => drain'.seen = "queued"
    BY <1>1, <1>2, DrainReads DEF NotStale
  <2>2. release'[r] \in {"none", "queued"}
    BY <1>1, <1>2, ReleaseReads DEF NotStale
  <2>3. ASSUME NEW g \in Registrations, Reads(g, r)' PROVE recovery'[g].seen = "queued"
    BY <1>1, <1>2, <2>3, RecoveryReads DEF NotStale, Reads
  <2>. QED BY <2>1, <2>2, <2>3
<1>3. ASSUME NEW h \in Registrations, NEW at \in Schedules, Start(r, h, at)
      PROVE  /\ drain'.pc # "reading" \/ drain'.id # r
             /\ release'[r] = "none"
             /\ \A g \in Registrations : ~Reads(g, r)'
  <2>1. ~Stored(r) /\ UNCHANGED <<drain, release, recovery>>
    BY <1>3 DEF Start, Stored, dispatch, plugins
  <2>. QED BY <1>1, <2>1 DEF DrainReady, Ready, HeldStored, Reads
<1>. QED BY <1>1, <1>2, <1>3, QueuedFrom

-----------------------------------------------------------------------------
(* The start and the expiry that commit *)

\* What is chained: an update by an execution for its own run, where the start is asked for
\* by the pump, an expiry by a recovery that then waits for it, and a cancellation by a
\* disposer that does, too.
Chains(q, m) ==
    /\ m.kind \in ExecutionKinds => m.by \in Slots /\ exec'[m.by].run = q
    /\ m.kind = "start" => m.by \notin Busy /\ DrainContinue
    /\ m.kind = "expire" =>
          /\ m.by \in Registrations /\ Reads(m.by, q)
          /\ recovery' = [recovery EXCEPT ![m.by].pc = "failing"]
    /\ m.kind = "reject" => m.by = "user"
    /\ m.kind = "cancel" /\ m.by \in Registrations =>
          /\ DisposeContinue(m.by) /\ disposer[m.by].id = q
          /\ disposer' = [disposer EXCEPT ![m.by].pc = "cancelling"]

LEMMA ChainSteps ==
    ASSUME TypeOK, [Next]_vars, NEW q \in Runs
    PROVE  \/ mutations'[q] = mutations[q]
           \/ Commits(q) /\ mutations[q] # << >> /\ mutations'[q] = Tail(mutations[q])
           \/ \E m : mutations'[q] = Append(mutations[q], m) /\ Chains(q, m)
           \/ (Boot \/ Crash) /\ mutations'[q] = << >>
<1>1. /\ mutations \in [Runs -> Seq(Mutations)]
      /\ exec \in [Slots -> ExecRecords]
  BY DEF TypeOK, MutationsOK, ExecutionOK
<1>2. ASSUME NEW r \in Runs, Commits(r)
      PROVE  \/ mutations'[q] = mutations[q]
             \/ Commits(q) /\ mutations[q] # << >> /\ mutations'[q] = Tail(mutations[q])
  <2>1. mutations[r] # << >> /\ mutations' = [mutations EXCEPT ![r] = Tail(@)]
    BY <1>2 DEF Commits, Committing
  <2>. QED BY <1>1, <1>2, <2>1
<1>3. ASSUME NEW r, NEW m, mutations' = [mutations EXCEPT ![r] = Append(@, m)],
             r = q => Chains(q, m)
      PROVE  \/ mutations'[q] = mutations[q]
             \/ \E n : mutations'[q] = Append(mutations[q], n) /\ Chains(q, n)
  BY <1>1, <1>3
<1>4. ASSUME NEW r \in Runs, NEW kind \in Kinds \ {"start"}, NEW caller,
             Mutate(r, kind, caller),
             kind = "expire" => caller \in Registrations /\ RecoverContinue(caller),
             kind = "reject" => caller = "user",
             kind = "cancel" /\ caller \in Registrations => DisposeContinue(caller),
             kind \in ExecutionKinds => caller \in Slots /\ exec'[caller].run = r
      PROVE  \/ mutations'[q] = mutations[q]
             \/ \E m : mutations'[q] = Append(mutations[q], m) /\ Chains(q, m)
  <2>1. CASE kind = "expire"
    <3>1. \/ UNCHANGED mutations
          \/ /\ Mutate(recovery[caller].id, "expire", caller) /\ recovery[caller].pc = "reading"
             /\ recovery' = [recovery EXCEPT ![caller].pc = "failing"]
      BY <1>4, <2>1 DEF RecoverContinue
    <3>2. CASE Mutate(recovery[caller].id, "expire", caller) /\ recovery[caller].pc = "reading"
               /\ recovery' = [recovery EXCEPT ![caller].pc = "failing"]
      <4>. DEFINE m == [kind |-> "expire", by |-> caller]
      <4>1. mutations' = [mutations EXCEPT ![recovery[caller].id] = Append(@, m)]
        BY <3>2 DEF Mutate
      <4>2. recovery[caller].id = q => Chains(q, m)
        BY <1>4, <2>1, <3>2 DEF Chains, Reads, ExecutionKinds
      <4>. HIDE DEF m
      <4>. QED BY <1>3, <4>1, <4>2
    <3>. QED BY <3>1, <3>2
  <2>2. CASE kind = "cancel" /\ caller \in Registrations
    <3>1. \/ UNCHANGED mutations
          \/ /\ Mutate(disposer[caller].id, "cancel", caller) /\ DisposeContinue(caller)
             /\ disposer' = [disposer EXCEPT ![caller].pc = "cancelling"]
      BY <1>4, <2>2 DEF DisposeContinue
    <3>2. CASE /\ Mutate(disposer[caller].id, "cancel", caller) /\ DisposeContinue(caller)
               /\ disposer' = [disposer EXCEPT ![caller].pc = "cancelling"]
      <4>. DEFINE m == [kind |-> "cancel", by |-> caller]
      <4>1. mutations' = [mutations EXCEPT ![disposer[caller].id] = Append(@, m)]
        BY <3>2 DEF Mutate
      <4>2. disposer[caller].id = q => Chains(q, m)
        BY <3>2 DEF Chains, ExecutionKinds
      <4>. HIDE DEF m
      <4>. QED BY <1>3, <4>1, <4>2
    <3>. QED BY <3>1, <3>2
  <2>3. CASE kind # "expire" /\ ~(kind = "cancel" /\ caller \in Registrations)
    <3>. DEFINE m == [kind |-> kind, by |-> caller]
    <3>1. mutations' = [mutations EXCEPT ![r] = Append(@, m)]
      BY <1>4 DEF Mutate
    <3>2. r = q => Chains(q, m)
      BY <1>4, <2>3 DEF Chains
    <3>. HIDE DEF m
    <3>. QED BY <1>3, <3>1, <3>2
  <2>. QED BY <2>1, <2>2, <2>3
<1>5. CASE DrainContinue
  <2>1. ASSUME NEW s \in Slots \ Busy, Mutate(drain.id, "start", s),
               exec' = [exec EXCEPT ![s] = [pc |-> "starting", run |-> drain.id,
                                            reg |-> drain.reg, aborted |-> FALSE]]
        PROVE  \/ mutations'[q] = mutations[q]
               \/ \E m : mutations'[q] = Append(mutations[q], m) /\ Chains(q, m)
    <3>. DEFINE m == [kind |-> "start", by |-> s]
    <3>1. mutations' = [mutations EXCEPT ![drain.id] = Append(@, m)]
      BY <2>1 DEF Mutate
    <3>2. drain.id = q => Chains(q, m)
      BY <1>1, <1>5, <2>1 DEF Chains
    <3>. HIDE DEF m
    <3>. QED BY <1>3, <3>1, <3>2
  <2>. QED BY <1>5, <2>1 DEF DrainContinue
<1>. QED BY <1>2, <1>4, <1>5, MutationSteps

\* What is left of a chain after its head, or before what is added.
LEMMA ChainEntries ==
    ASSUME NEW S, NEW chain \in Seq(S), chain # << >>
    PROVE  /\ Len(Tail(chain)) = Len(chain) - 1 /\ Len(chain) \in Nat
           /\ \A i \in 1 .. Len(Tail(chain)) :
                 i + 1 \in 1 .. Len(chain) /\ i + 1 # 1 /\ Tail(chain)[i] = chain[i + 1]
           /\ 1 \in 1 .. Len(chain) /\ Head(chain) = chain[1]
OBVIOUS

LEMMA ChainAppend ==
    ASSUME NEW S, NEW chain \in Seq(S), NEW m
    PROVE  /\ Len(chain) \in Nat /\ Len(Append(chain, m)) = Len(chain) + 1
           /\ \A i \in 1 .. Len(chain) : Append(chain, m)[i] = chain[i]
           /\ Append(chain, m)[Len(chain) + 1] = m
           /\ \A i \in 1 .. Len(Append(chain, m)) : i \in 1 .. Len(chain) \/ i = Len(chain) + 1
OBVIOUS

\* An execution that has begun keeps its run until its task ends.
LEMMA RunKept ==
    ASSUME BoundInv, [Next]_vars, NEW s \in Slots, exec[s].pc \notin {"idle", "closing"},
           ~Boot, ~Crash
    PROVE  exec'[s].run = exec[s].run
<1>1. exec \in [Slots -> ExecRecords]
  BY DEF BoundInv, TypeOK, ExecutionOK
<1>2. CASE DrainContinue
  BY <1>1, <1>2 DEF DrainContinue, execution, Busy
<1>3. ASSUME NEW t \in Slots, TaskFinally(t) PROVE exec'[s].run = exec[s].run
  BY <1>1, <1>3 DEF TaskFinally
<1>. QED BY <1>2, <1>3, SlotSteps DEF SameSlots

LEMMA OwnUpdatesStep ==
    ASSUME BoundInv, UpdateOwn, [Next]_vars
    PROVE  UpdateOwn'
<1>. SUFFICES ASSUME NEW r \in Runs, NEW i \in 1 .. Len(mutations'[r]),
                     mutations'[r][i].kind \in ExecutionKinds
              PROVE  exec'[mutations'[r][i].by].run = r
  BY DEF UpdateOwn
<1>1. TypeOK /\ mutations[r] \in Seq(Mutations)
  BY DEF BoundInv, TypeOK, MutationsOK
<1>2. ~Boot /\ ~Crash
  BY DEF Boot, Crash, Fresh
<1>3. ASSUME NEW j \in 1 .. Len(mutations[r]), mutations'[r][i] = mutations[r][j]
      PROVE  exec'[mutations'[r][i].by].run = r
  <2>1. PICK m : m = mutations[r][j]
    OBVIOUS
  <2>2. m \in Mutations /\ m.kind \in ExecutionKinds
    BY <1>1, <1>3, <2>1
  <2>3. PICK t : t = m.by
    OBVIOUS
  <2>4. t \in Slots
    BY <2>2, <2>3 DEF Mutations, ExecutionKinds, Kinds
  <2>5. exec[t].run = r /\ exec[t].pc = Awaits(m.kind)
    BY <1>1, <2>1, <2>2, <2>3 DEF UpdateOwn, BoundInv, UpdateAwaited
  <2>6. exec[t].pc \notin {"idle", "closing"}
    BY <2>2, <2>5 DEF Awaits
  <2>7. exec'[t].run = exec[t].run
    BY <1>1, <1>2, <2>4, <2>6, RunKept
  <2>. QED BY <1>3, <2>1, <2>3, <2>5, <2>7
<1>4. CASE mutations'[r] = mutations[r]
  BY <1>3, <1>4
<1>5. CASE mutations[r] # << >> /\ mutations'[r] = Tail(mutations[r])
  BY <1>1, <1>3, <1>5, ChainEntries
<1>6. ASSUME NEW m, mutations'[r] = Append(mutations[r], m), Chains(r, m)
      PROVE  exec'[mutations'[r][i].by].run = r
  <2>1. i \in 1 .. Len(mutations[r]) \/ mutations'[r][i] = m
    BY <1>1, <1>6, ChainAppend
  <2>2. CASE i \in 1 .. Len(mutations[r])
    <3>1. mutations'[r][i] = mutations[r][i]
      BY <1>1, <1>6, <2>2, ChainAppend
    <3>. QED BY <1>3, <2>2, <3>1
  <2>3. CASE mutations'[r][i] = m
    BY <1>6, <2>3 DEF Chains
  <2>. QED BY <2>1, <2>2, <2>3
<1>7. CASE mutations'[r] = << >>
  BY <1>7
<1>. QED BY <1>1, <1>4, <1>5, <1>6, <1>7, ChainSteps

\* A registration is recovered once.
LEMMA RegisteredOnceStep ==
    ASSUME HeldInv, [Next]_vars
    PROVE  RegisteredOnce'
<1>. USE DEF vars, beyondPlugins, beyondHost, plugins
<1>1. /\ TypeOK /\ RegisteredOnce /\ ExpiryOwn
      /\ disposer \in [Registrations -> DisposerRecords]
      /\ \A h \in Registrations : disposer[h] \in DisposerRecords
      /\ recovery \in [Registrations -> RecoveryRecords]
      /\ \A h \in Registrations : recovery[h] \in RecoveryRecords
      /\ mutations \in [Runs -> Seq(Mutations)]
  BY DEF HeldInv, SavedInv, BoundInv, TypeOK, PluginsOK, MutationsOK
<1>2. CASE Boot \/ Crash
  BY <1>2 DEF Boot, Crash, Fresh, NoRecovery, RegisteredOnce
<1>3. CASE ~Boot /\ ~Crash
  <2>1. ASSUME NEW g \in Registrations, disposer[g].pc # "none" PROVE disposer'[g].pc # "none"
    <3>1. ASSUME NEW h, NEW pc \in {"registered", "rejected", "next", "disposed", "cancelling"},
                 disposer' = [disposer EXCEPT ![h].pc = pc]
          PROVE  disposer'[g].pc # "none"
      BY <1>1, <2>1, <3>1 DEF DisposerRecords
    <3>2. ASSUME NEW h, NEW ids, NEW todo, DisposeNext(h, ids, todo)
          PROVE  disposer'[g].pc # "none"
      <4>1. CASE h # g
        BY <1>1, <2>1, <3>2, <4>1 DEF DisposeNext
      <4>2. CASE h = g
        <5>1. \/ \E r \in todo : disposer'[g] =
                    [disposer[g] EXCEPT !.pc = "reading", !.ids = ids, !.todo = todo \ {r},
                                        !.id = r, !.seen = run[r].status]
              \/ disposer'[g] = [disposer[g] EXCEPT !.pc = "draining", !.ids = {}, !.todo = {},
                                        !.id = None, !.seen = "absent", !.slots = TasksOf(ids)]
          BY <1>1, <3>2, <4>2 DEF DisposeNext
        <5>. QED BY <1>1, <5>1 DEF DisposerRecords
      <4>. QED BY <4>1, <4>2
    <3>3. ASSUME NEW r \in Runs, RunStep(r)
          PROVE  \/ UNCHANGED disposer
                 \/ \E h : \/ disposer' = [disposer EXCEPT ![h].pc = "rejected"]
                           \/ disposer' = [disposer EXCEPT ![h].pc = "next"]
      BY <3>3 DEF RunStep, AdmissionContinue, CommitExecution, CommitCancel, CommitApproval,
         CommitExpiry, CancelContinue, TimerFires, ReleaseContinue, ReleaseFails, InitRun
    <3>4. ASSUME NEW s \in Slots, ExecutionStep(s) \/ BodyStep(s)
          PROVE  \/ UNCHANGED disposer
                 \/ disposer' = [h \in Registrations |-> [disposer[h] EXCEPT !.slots = @ \ {s}]]
      BY <3>4 DEF ExecutionStep, BodyStep, ExecBody, ExecRefused, ExecUnread, ExecSettled,
         TaskFinally, BodyReturns, BodyFails, ExecStep, ExecCatch
    <3>5. ASSUME NEW h \in Registrations, PluginStep(h)
          PROVE  \/ UNCHANGED disposer
                 \/ \E pc \in {"rejected", "disposed", "cancelling"} :
                       disposer' = [disposer EXCEPT ![h].pc = pc]
                 \/ \E ids, todo : DisposeNext(h, ids, todo)
      BY <3>5 DEF PluginStep, RecoverContinue, RecoverResume, RecoverFails, DisposeAdmitted,
         DisposeContinue, DisposeResume, DisposeDrained, DisposeFails
    <3>6. HostStep => UNCHANGED disposer
      BY <1>3 DEF HostStep, DrainContinue, DrainFails, DrainFinally, StopAbort, StopTasks,
         StopEnd, InitDone
    <3>7. ASSUME Environment
          PROVE  \/ UNCHANGED disposer
                 \/ \E h \in Registrations :
                       disposer' = [disposer EXCEPT ![h].pc = "registered"] \/ Dispose(h)
      BY <1>3, <3>7 DEF Environment, Start, Cancel, Review, UserCommand, Register, StopBegin
    <3>8. ASSUME NEW h \in Registrations, Dispose(h) PROVE disposer'[g].pc # "none"
      BY <1>1, <2>1, <3>8 DEF Dispose, DisposerRecords
    <3>9. ASSUME NEW s, disposer' = [h \in Registrations |-> [disposer[h] EXCEPT !.slots = @ \ {s}]]
          PROVE  disposer'[g].pc # "none"
      BY <1>1, <2>1, <3>9 DEF DisposerRecords
    <3>. QED BY <2>1, <3>1, <3>2, <3>3, <3>4, <3>5, <3>6, <3>7, <3>8, <3>9 DEF Next, Tick
  <2>2. ASSUME NEW g \in Registrations, recovery[g].pc = "none", recovery'[g].pc # "none"
        PROVE  disposer'[g].pc # "none"
    <3>1. ASSUME NEW h \in Registrations, NEW rec, RecoverNext(h, rec) PROVE h = g
      BY <1>1, <2>2, <3>1 DEF RecoverNext
    <3>2. ASSUME NEW h \in Registrations,
                 RecoverContinue(h) \/ RecoverResume(h) \/ RecoverFails(h)
          PROVE  FALSE
      <4>1. recovery[h].pc # "none"
        BY <3>2 DEF RecoverContinue, RecoverResume, RecoverFails
      <4>2. \/ recovery' = [recovery EXCEPT ![h].pc = "failing"]
            \/ recovery' = [recovery EXCEPT ![h].pc = "rejected"]
            \/ recovery' = [recovery EXCEPT ![h] = [pc |-> "done", id |-> None, seen |-> "absent"]]
            \/ \E rec : RecoverNext(h, rec)
        BY <3>2 DEF RecoverContinue, RecoverResume, RecoverFails
      <4>. QED BY <1>1, <2>2, <3>1, <4>1, <4>2
    <3>3. ASSUME NEW h \in Registrations, Register(h) PROVE disposer'[g].pc # "none"
      <4>1. h = g
        BY <3>1, <3>3 DEF Register
      <4>. QED BY <1>1, <3>3, <4>1 DEF Register, DisposerRecords
    <3>4. ASSUME NEW r \in Runs, CommitExpiry(r) PROVE FALSE
      <4>1. mutations[r] # << >> /\ Head(mutations[r]).kind = "expire"
        BY <3>4 DEF CommitExpiry, Committing
      <4>2. 1 \in 1 .. Len(mutations[r]) /\ Head(mutations[r]) = mutations[r][1]
        BY <1>1, <4>1, ChainEntries
      <4>3. recovery[Head(mutations[r]).by].pc = "failing"
        BY <1>1, <4>1, <4>2 DEF ExpiryOwn, Fails
      <4>. QED BY <1>1, <2>2, <3>4, <4>3 DEF CommitExpiry
    <3>. QED BY <1>3, <2>2, <3>2, <3>3, <3>4, RegistrationSteps DEF Dispose
  <2>. QED BY <1>1, <2>1, <2>2 DEF RegisteredOnce
<1>. QED BY <1>2, <1>3

\* A recovery waits for its update until that commits.
LEMMA ExpiryKept ==
    ASSUME TypeOK, RegisteredOnce, [Next]_vars, NEW g \in Registrations, NEW r \in Runs,
           Fails(g, r), ~Fails(g, r)', ~Boot, ~Crash
    PROVE  \E q \in Runs : CommitExpiry(q) /\ Head(mutations[q]).by = g
<1>. USE DEF Fails
<1>1. /\ recovery \in [Registrations -> RecoveryRecords]
      /\ \A h \in Registrations : recovery[h] \in RecoveryRecords
  BY DEF TypeOK, PluginsOK
<1>2. ASSUME NEW h \in Registrations, NEW rec, h # g, RecoverNext(h, rec) PROVE FALSE
  BY <1>1, <1>2 DEF RecoverNext
<1>3. ASSUME NEW h \in Registrations, RecoverContinue(h) \/ RecoverResume(h) \/ RecoverFails(h)
      PROVE  FALSE
  <2>1. h # g
    BY <1>3 DEF RecoverContinue, RecoverResume, RecoverFails
  <2>2. \/ \E pc \in {"failing", "rejected"} : recovery' = [recovery EXCEPT ![h].pc = pc]
        \/ recovery' = [recovery EXCEPT ![h] = [pc |-> "done", id |-> None, seen |-> "absent"]]
        \/ \E rec : RecoverNext(h, rec)
    BY <1>3 DEF RecoverContinue, RecoverResume, RecoverFails
  <2>. QED BY <1>1, <1>2, <2>1, <2>2
<1>4. ASSUME NEW h \in Registrations, Register(h) PROVE FALSE
  <2>1. h # g
    BY <1>4 DEF Register, RegisteredOnce
  <2>. QED BY <1>2, <1>4, <2>1 DEF Register
<1>5. ASSUME NEW q \in Runs, CommitExpiry(q) PROVE Head(mutations[q]).by = g
  BY <1>1, <1>5 DEF CommitExpiry
<1>6. ASSUME NEW h \in Registrations, Dispose(h) PROVE UNCHANGED recovery
  BY <1>6 DEF Dispose
<1>7. ~UNCHANGED recovery
  OBVIOUS
<1>. QED BY <1>3, <1>4, <1>5, <1>6, <1>7, RegistrationSteps

LEMMA ExpiryOwnStep ==
    ASSUME HeldInv, [Next]_vars
    PROVE  ExpiryOwn'
<1>. SUFFICES ASSUME NEW r \in Runs, NEW i \in 1 .. Len(mutations'[r]), NEW g,
                     mutations'[r][i].kind = "expire", mutations'[r][i].by = g
              PROVE  g \in Registrations /\ Fails(g, r)'
  BY DEF ExpiryOwn, Fails
<1>1. /\ TypeOK /\ ExpiryOwn /\ ExpiryOnce /\ RegisteredOnce
      /\ mutations \in [Runs -> Seq(Mutations)]
      /\ recovery \in [Registrations -> RecoveryRecords]
      /\ \A h \in Registrations : recovery[h] \in RecoveryRecords
  BY DEF HeldInv, SavedInv, BoundInv, TypeOK, MutationsOK, PluginsOK
<1>2. ~Boot /\ ~Crash
  BY DEF Boot, Crash, Fresh
<1>3. ASSUME NEW j \in 1 .. Len(mutations[r]), mutations'[r][i] = mutations[r][j],
             mutations'[r] = Tail(mutations[r]) /\ mutations[r] # << >> => j = i + 1
      PROVE  g \in Registrations /\ Fails(g, r)'
  <2>2. g \in Registrations /\ Fails(g, r)
    BY <1>1, <1>3 DEF ExpiryOwn
  <2>3. ASSUME NEW q \in Runs, CommitExpiry(q), Head(mutations[q]).by = g
        PROVE  FALSE
    <3>1. /\ mutations[q] # << >> /\ Head(mutations[q]).kind = "expire"
          /\ mutations' = [mutations EXCEPT ![q] = Tail(@)]
      BY <2>3 DEF CommitExpiry, Committing
    <3>2. 1 \in 1 .. Len(mutations[q]) /\ Head(mutations[q]) = mutations[q][1]
      BY <1>1, <3>1, ChainEntries
    <3>3. Fails(g, q)
      BY <1>1, <2>3, <3>1, <3>2 DEF ExpiryOwn
    <3>4. q = r
      BY <2>2, <3>3 DEF Fails
    <3>5. j = i + 1
      BY <1>1, <1>3, <3>1, <3>4
    <3>6. j = 1
      BY <1>1, <1>3, <2>3, <3>1, <3>2, <3>4 DEF ExpiryOnce
    <3>. QED BY <3>5, <3>6
  <2>4. Fails(g, r)'
    BY <1>1, <1>2, <2>2, <2>3, ExpiryKept
  <2>. QED BY <2>2, <2>4
<1>4. CASE mutations'[r] = mutations[r]
  <2>1. mutations[r] # << >> => mutations[r] # Tail(mutations[r])
    BY <1>1, ChainEntries
  <2>. QED BY <1>3, <1>4, <2>1
<1>5. CASE mutations[r] # << >> /\ mutations'[r] = Tail(mutations[r])
  BY <1>1, <1>3, <1>5, ChainEntries
<1>6. ASSUME NEW m, mutations'[r] = Append(mutations[r], m), Chains(r, m)
      PROVE  g \in Registrations /\ Fails(g, r)'
  <2>1. i \in 1 .. Len(mutations[r]) \/ mutations'[r][i] = m
    BY <1>1, <1>6, ChainAppend
  <2>2. CASE i \in 1 .. Len(mutations[r])
    <3>1. mutations'[r][i] = mutations[r][i]
      BY <1>1, <1>6, <2>2, ChainAppend
    <3>2. mutations[r] # << >> => mutations'[r] # Tail(mutations[r])
      BY <1>1, <1>6, ChainEntries, ChainAppend
    <3>. QED BY <1>3, <2>2, <3>1, <3>2
  <2>3. CASE mutations'[r][i] = m
    <3>1. g \in Registrations /\ Reads(g, r) /\ recovery' = [recovery EXCEPT ![g].pc = "failing"]
      BY <1>6, <2>3 DEF Chains
    <3>. QED BY <1>1, <3>1 DEF Reads, Fails, RecoveryRecords
  <2>. QED BY <2>1, <2>2, <2>3
<1>7. CASE mutations'[r] = << >>
  BY <1>7
<1>. QED BY <1>1, <1>4, <1>5, <1>6, <1>7, ChainSteps

LEMMA ExpiryOnceStep ==
    ASSUME HeldInv, [Next]_vars
    PROVE  ExpiryOnce'
<1>. SUFFICES ASSUME NEW r \in Runs,
                     NEW i \in 1 .. Len(mutations'[r]), NEW j \in 1 .. Len(mutations'[r]),
                     mutations'[r][i].kind = "expire", mutations'[r][j].kind = "expire",
                     mutations'[r][i].by = mutations'[r][j].by
              PROVE  i = j
  BY DEF ExpiryOnce
<1>1. /\ TypeOK /\ ExpiryOwn /\ ExpiryOnce
      /\ mutations[r] \in Seq(Mutations)
  BY DEF HeldInv, SavedInv, BoundInv, TypeOK, MutationsOK
<1>2. CASE mutations'[r] = mutations[r]
  BY <1>1, <1>2 DEF ExpiryOnce
<1>3. CASE mutations[r] # << >> /\ mutations'[r] = Tail(mutations[r])
  <2>1. /\ i + 1 \in 1 .. Len(mutations[r]) /\ mutations'[r][i] = mutations[r][i + 1]
        /\ j + 1 \in 1 .. Len(mutations[r]) /\ mutations'[r][j] = mutations[r][j + 1]
    BY <1>1, <1>3, ChainEntries
  <2>2. i + 1 = j + 1
    BY <1>1, <2>1 DEF ExpiryOnce
  <2>. QED BY <2>2
<1>4. ASSUME NEW m, mutations'[r] = Append(mutations[r], m), Chains(r, m)
      PROVE  i = j
  <2>1. ASSUME NEW k \in 1 .. Len(mutations[r]), mutations'[r][k].kind = "expire",
               mutations'[r][k].by = m.by, m.kind = "expire"
        PROVE  FALSE
    <3>1. mutations'[r][k] = mutations[r][k]
      BY <1>1, <1>4, <2>1, ChainAppend
    <3>2. Fails(m.by, r)
      BY <1>1, <2>1, <3>1 DEF ExpiryOwn
    <3>. QED BY <1>4, <2>1, <3>2 DEF Chains, Reads, Fails
  <2>2. /\ i \in 1 .. Len(mutations[r]) \/ (i = Len(mutations[r]) + 1 /\ mutations'[r][i] = m)
        /\ j \in 1 .. Len(mutations[r]) \/ (j = Len(mutations[r]) + 1 /\ mutations'[r][j] = m)
    BY <1>1, <1>4, ChainAppend
  <2>3. CASE i \in 1 .. Len(mutations[r]) /\ j \in 1 .. Len(mutations[r])
    <3>1. mutations'[r][i] = mutations[r][i] /\ mutations'[r][j] = mutations[r][j]
      BY <1>1, <1>4, <2>3, ChainAppend
    <3>. QED BY <1>1, <2>3, <3>1 DEF ExpiryOnce
  <2>. QED BY <2>1, <2>2, <2>3
<1>5. CASE mutations'[r] = << >>
  BY <1>5
<1>. QED BY <1>1, <1>2, <1>3, <1>4, <1>5, ChainSteps

-----------------------------------------------------------------------------
(* An execution past its start has moved its run on *)

\* An execution leaves its start when the update of that commits.
LEMMA StartLeaves ==
    ASSUME BoundInv, [Next]_vars, NEW s \in Slots, exec[s].pc = "starting",
           exec'[s].pc \notin {"starting", "idle"}
    PROVE  \E q \in Runs : CommitExecution(q) /\ Head(mutations[q]).by = s
<1>1. TypeOK /\ exec \in [Slots -> ExecRecords] /\ \A t \in Slots : exec[t] \in ExecRecords
  BY DEF BoundInv, TypeOK, ExecutionOK
<1>2. ASSUME NEW q \in Runs, CommitExecution(q) PROVE Head(mutations[q]).by = s
  BY <1>1, <1>2 DEF CommitExecution
<1>3. ASSUME NEW t \in Slots, exec[t].pc # "starting",
             \/ \E pc : exec' = [exec EXCEPT ![t].pc = pc]
             \/ ExecCatch(t)
             \/ exec' = [exec EXCEPT ![t] = NoExec]
      PROVE  FALSE
  <2>1. t # s
    BY <1>3
  <2>. QED BY <1>1, <1>3, <2>1 DEF ExecCatch
<1>4. ASSUME NEW t \in Slots, ExecutionStep(t) \/ BodyStep(t) PROVE FALSE
  <2>1. exec[t].pc # "starting"
    BY <1>4 DEF ExecutionStep, BodyStep, ExecBody, ExecRefused, ExecUnread, ExecSettled,
       TaskFinally, BodyReturns, BodyFails, ExecStep
  <2>2. \/ \E pc : exec' = [exec EXCEPT ![t].pc = pc]
        \/ ExecCatch(t)
        \/ exec' = [exec EXCEPT ![t] = NoExec]
    BY <1>4 DEF ExecutionStep, BodyStep, ExecBody, ExecRefused, ExecUnread, ExecSettled,
       TaskFinally, BodyReturns, BodyFails, ExecStep
  <2>. QED BY <1>3, <2>1, <2>2
<1>5. CASE DrainContinue
  BY <1>1, <1>5 DEF DrainContinue, execution, Busy
<1>6. ~SamePc /\ ~Restarts
  BY DEF SamePc, Restarts, NoExec
<1>. QED BY <1>1, <1>2, <1>4, <1>5, <1>6, ExecutionSteps

\* Only the pump begins an execution.
LEMMA BusyBegins ==
    ASSUME BoundInv, [Next]_vars, NEW s \in Slots, exec[s].pc = "idle", exec'[s].pc # "idle"
    PROVE  DrainContinue
<1>1. exec \in [Slots -> ExecRecords]
  BY DEF BoundInv, TypeOK, ExecutionOK
<1>2. ASSUME NEW t \in Slots, TaskFinally(t) PROVE FALSE
  BY <1>1, <1>2 DEF TaskFinally, NoExec
<1>3. ~SameSlots /\ ~Boot /\ ~Crash
  BY DEF SameSlots, Boot, Crash, Fresh, NoExec
<1>. QED BY <1>2, <1>3, SlotSteps

\* Every update of a run that is taken in a reliable repository is saved.
LEMMA CommitSaves ==
    ASSUME Reliable, TypeOK, NEW q \in Runs, NEW ok \in BOOLEAN, Committing(q, ok)
    PROVE  /\ ok <=> Accepts(Head(mutations[q]).kind, run[q].status)
           /\ ok => run'[q].status = Result(Head(mutations[q]).kind, run[q].status)
           /\ \A p \in Runs \ {q} : run'[p] = run[p]
           /\ Head(mutations[q]) \in Mutations /\ Head(mutations[q]) = mutations[q][1]
           /\ 1 \in 1 .. Len(mutations[q])
<1>1. /\ run \in [Runs -> RunRecords] /\ run[q] \in RunRecords
      /\ mutations[q] \in Seq(Mutations) /\ mutations[q] # << >>
  BY DEF TypeOK, DurableOK, MutationsOK, Committing
<1>2. ok <=> Accepts(Head(mutations[q]).kind, run[q].status)
  BY DEF Committing, Reliable
<1>3. run' = IF ok THEN [run EXCEPT ![q].status = Result(Head(mutations[q]).kind, @)] ELSE run
  BY DEF Committing
<1>4. /\ Head(mutations[q]) \in Mutations /\ Head(mutations[q]) = mutations[q][1]
      /\ 1 \in 1 .. Len(mutations[q])
  BY <1>1, ChainEntries
<1>5. ok => run'[q].status = Result(Head(mutations[q]).kind, run[q].status)
  BY <1>1, <1>3 DEF RunRecords
<1>. QED BY <1>1, <1>2, <1>3, <1>4, <1>5

\* The start that an execution of a queued run awaits is of that run, and makes it run.
LEMMA StartSaves ==
    ASSUME Reliable, TypeOK, BoundInv, UpdateOwn, NEW q \in Runs, CommitExecution(q),
           NEW s \in Slots, s = Head(mutations[q]).by, exec[s].pc = "starting",
           run[exec[s].run].status = "queued"
    PROVE  q = exec[s].run /\ run'[q].status = "running"
<1>1. PICK ok \in BOOLEAN : Committing(q, ok)
  BY DEF CommitExecution
<1>2. PICK m : m = Head(mutations[q])
  OBVIOUS
<1>3. m = mutations[q][1] /\ 1 \in 1 .. Len(mutations[q])
  BY <1>1, <1>2, CommitSaves
<1>4. m.kind \in ExecutionKinds
  BY <1>2 DEF CommitExecution
<1>5. exec[s].pc = Awaits(m.kind)
  BY <1>2, <1>3, <1>4 DEF BoundInv, UpdateAwaited
<1>6. m.kind = "start"
  BY <1>4, <1>5 DEF Awaits, ExecutionKinds
<1>7. q = exec[s].run
  BY <1>2, <1>3, <1>4 DEF UpdateOwn
<1>8. Accepts("start", "queued") /\ Result("start", "queued") = "running"
  BY DEF Accepts, Result, Outcome
<1>. QED BY <1>1, <1>2, <1>6, <1>7, <1>8, CommitSaves

LEMMA BegunStep ==
    ASSUME Reliable, HeldInv, [Next]_vars
    PROVE  Begun'
<1>. SUFFICES ASSUME NEW s \in Slots, exec'[s].pc # "idle"
              PROVE  /\ exec'[s].run \in Runs /\ run'[exec'[s].run].status # "absent"
                     /\ exec'[s].pc # "starting" => run'[exec'[s].run].status # "queued"
  BY DEF Begun, Busy, Stored
<1>1. /\ TypeOK /\ BoundInv /\ DrainReady /\ Begun /\ UpdateOwn
      /\ exec \in [Slots -> ExecRecords] /\ \A t \in Slots : exec[t] \in ExecRecords
      /\ run \in [Runs -> RunRecords] /\ \A q \in Runs : run[q] \in RunRecords
      /\ mutations \in [Runs -> Seq(Mutations)]
  BY DEF HeldInv, EarlyInv, SavedInv, BoundInv, TypeOK, ExecutionOK, DurableOK, MutationsOK
<1>2. ~Boot /\ ~Crash
  BY DEF Boot, Crash, Fresh, NoExec
<1>3. CASE exec[s].pc = "idle"
  <2>1. DrainContinue
    BY <1>1, <1>3, BusyBegins
  <2>2. /\ exec'[s].run = drain.id /\ exec'[s].pc = "starting"
        /\ drain.id \in Runs /\ Stored(drain.id)
    BY <1>1, <1>3, <2>1 DEF DrainContinue, DrainReady, Ready, execution
  <2>4. run'[drain.id].status # "absent"
    BY <2>1, <2>2 DEF DrainContinue, durable, Stored
  <2>. QED BY <2>2, <2>4
<1>4. CASE exec[s].pc # "idle"
  <2>1. PICK r : r = exec[s].run
    OBVIOUS
  <2>2. /\ r \in Runs /\ Stored(r)
        /\ exec[s].pc # "starting" => run[r].status # "queued"
    BY <1>1, <1>4, <2>1 DEF Begun, Busy
  <2>3. exec'[s].run = r
    <3>1. CASE exec[s].pc # "closing"
      BY <1>1, <1>2, <1>4, <2>1, <3>1, RunKept
    <3>2. CASE exec[s].pc = "closing"
      <4>1. ASSUME NEW t \in Slots, TaskFinally(t) PROVE exec'[s].run = r
        BY <1>1, <2>1, <4>1 DEF TaskFinally, NoExec
      <4>2. CASE DrainContinue
        BY <1>1, <2>1, <3>2, <4>2 DEF DrainContinue, execution, Busy
      <4>. QED BY <1>1, <1>2, <2>1, <4>1, <4>2, SlotSteps DEF SameSlots
    <3>. QED BY <3>1, <3>2
  <2>4. run'[r].status # "absent"
    BY <1>1, <2>2, StoredKept DEF Stored
  <2>5. ASSUME exec'[s].pc # "starting" PROVE run'[r].status # "queued"
    <3>1. CASE run[r].status # "queued"
      BY <1>1, <2>2, <3>1, QueuedFrom DEF Start, Stored
    <3>2. CASE exec[s].pc = "starting" /\ run[r].status = "queued"
      <4>1. PICK q \in Runs : CommitExecution(q) /\ Head(mutations[q]).by = s
        BY <1>1, <2>5, <3>2, StartLeaves
      <4>2. q = r /\ run'[q].status = "running"
        BY <1>1, <2>1, <3>2, <4>1, StartSaves
      <4>. QED BY <4>2
    <3>. QED BY <2>2, <3>1, <3>2
  <2>. QED BY <2>2, <2>3, <2>4, <2>5
<1>. QED BY <1>3, <1>4

\* Only a user rejects a run.
LEMMA RejectsByUserStep ==
    ASSUME TypeOK, RejectsByUser, [Next]_vars
    PROVE  RejectsByUser'
<1>. SUFFICES ASSUME NEW r \in Runs, NEW i \in 1 .. Len(mutations'[r]),
                     mutations'[r][i].kind = "reject"
              PROVE  mutations'[r][i].by = "user"
  BY DEF RejectsByUser
<1>1. mutations[r] \in Seq(Mutations)
  BY DEF TypeOK, MutationsOK
<1>2. CASE mutations'[r] = mutations[r] \/ mutations'[r] = << >>
  BY <1>2 DEF RejectsByUser
<1>3. CASE mutations[r] # << >> /\ mutations'[r] = Tail(mutations[r])
  BY <1>1, <1>3, ChainEntries DEF RejectsByUser
<1>4. ASSUME NEW m, mutations'[r] = Append(mutations[r], m), Chains(r, m)
      PROVE  mutations'[r][i].by = "user"
  <2>1. i \in 1 .. Len(mutations[r]) \/ mutations'[r][i] = m
    BY <1>1, <1>4, ChainAppend
  <2>2. CASE i \in 1 .. Len(mutations[r])
    <3>1. mutations'[r][i] = mutations[r][i]
      BY <1>1, <1>4, <2>2, ChainAppend
    <3>. QED BY <2>2, <3>1 DEF RejectsByUser
  <2>3. CASE mutations'[r][i] = m
    BY <1>4, <2>3 DEF Chains
  <2>. QED BY <2>1, <2>2, <2>3
<1>. QED BY <1>2, <1>3, <1>4, ChainSteps

-----------------------------------------------------------------------------
(* What the queue and the timers hold, stays there or with the pump's read *)

LEMMA DrainLoopKeeps ==
    ASSUME NEW queue \in Seq(Runs), NEW acc, NEW active, NEW otherwise, NEW r,
           InQueue(queue, r), DispatchOK', DrainLoop(queue, acc, active, otherwise)
    PROVE  Queued(r)' \/ (drain'.id = r /\ drain'.reg = acc[r])
<1>1. PICK i \in 1 .. Len(queue) : queue[i] = r
  BY DEF InQueue
<1>2. CASE MayDispatch(queue, active)
  <2>1. /\ queue # << >> /\ queuedIds' = Tail(queue)
        /\ drain'.id = Head(queue) /\ drain'.reg = acc[Head(queue)]
    BY <1>2 DEF MayDispatch, DrainLoop, Shifted
  <2>2. /\ Head(queue) = queue[1] /\ Len(queue) \in Nat
        /\ DOMAIN Tail(queue) = 1 .. Len(queue) - 1
        /\ \A j \in 1 .. Len(queue) - 1 : Tail(queue)[j] = queue[j + 1]
    BY <2>1
  <2>3. CASE i = 1
    BY <1>1, <2>1, <2>2, <2>3
  <2>4. CASE i # 1
    <3>1. i - 1 \in 1 .. Len(queue) - 1 /\ i - 1 + 1 = i
      BY <2>2, <2>4
    <3>2. Tail(queue)[i - 1] = r /\ i - 1 \in DOMAIN Tail(queue)
      BY <1>1, <2>2, <3>1
    <3>. QED BY <2>1, <3>2 DEF Queued
  <2>. QED BY <2>3, <2>4
<1>3. CASE ~MayDispatch(queue, active)
  <2>1. queuedIds' = queue
    BY <1>3 DEF DrainLoop
  <2>. QED BY <1>1, <2>1 DEF Queued
<1>. QED BY <1>2, <1>3

\* What a call of the pump leaves a run with: queued, read, or as it was.
Carried(r, acc) ==
    /\ scheduledTimers'[r] = scheduledTimers[r]
    /\ r \in recoverable => r \in recoverable'
    /\ Queued(r) => Queued(r)' \/ (drain'.id = r /\ drain'.reg = acc[r])
    /\ drain.id = r => drain' = drain

LEMMA PumpKeeps ==
    ASSUME DrainIdle, NEW queue \in Seq(Runs), NEW acc, NEW active, NEW r \in Runs,
           DispatchOK', Pump(queue, acc, active)
    PROVE  /\ InQueue(queue, r) => Queued(r)' \/ (drain'.id = r /\ drain'.reg = acc[r])
           /\ drain.id = r => drain' = drain
<1>1. CASE drain.pc = "idle"
  <2>1. drain.id # r
    BY <1>1, RuntimeConstants DEF DrainIdle
  <2>. QED BY <1>1, <2>1, DrainLoopKeeps DEF Pump
<1>2. CASE drain.pc # "idle"
  BY <1>2 DEF Pump, InQueue, Queued
<1>. QED BY <1>1, <1>2

LEMMA EnqueueRunKeeps ==
    ASSUME TypeOK, DrainIdle, DispatchOK', NEW q \in Runs, NEW acc, EnqueueRun(q, acc)
    PROVE  /\ \A r \in Runs \ {q} : Carried(r, acc)
           /\ Queued(q)' \/ (drain'.id = q /\ drain'.reg = acc[q])
<1>. DEFINE queue == IF Queued(q) THEN queuedIds ELSE Append(queuedIds, q)
<1>1. /\ queuedIds \in Seq(Runs) /\ scheduledTimers \in [Runs -> Nat]
      /\ \A r : Queued(r) <=> InQueue(queuedIds, r)
  BY QueuedIn DEF TypeOK, DispatchOK, ScheduleOK
<1>2. /\ queue \in Seq(Runs) /\ InQueue(queue, q)
      /\ \A r : InQueue(queuedIds, r) => InQueue(queue, r)
  <2>1. CASE Queued(q)
    BY <1>1, <2>1
  <2>2. CASE ~Queued(q)
    <3>1. queue = Append(queuedIds, q)
      BY <2>2
    <3>2. /\ Len(queuedIds) \in Nat /\ Len(queue) = Len(queuedIds) + 1
          /\ queue \in Seq(Runs) /\ queue[Len(queuedIds) + 1] = q
          /\ \A i \in 1 .. Len(queuedIds) : queue[i] = queuedIds[i]
      BY <1>1, <3>1
    <3>. QED BY <3>2 DEF InQueue
  <2>. QED BY <2>1, <2>2
<1>3. Pump(queue, acc, activeCount)
  BY DEF EnqueueRun
<1>. HIDE DEF queue
<1>4. \A r \in Runs :
         /\ InQueue(queue, r) => Queued(r)' \/ (drain'.id = r /\ drain'.reg = acc[r])
         /\ drain.id = r => drain' = drain
  BY <1>2, <1>3, PumpKeeps
<1>5. \A r \in Runs \ {q} : /\ scheduledTimers'[r] = scheduledTimers[r]
                            /\ r \in recoverable => r \in recoverable'
  BY <1>1 DEF EnqueueRun
<1>. QED BY <1>1, <1>2, <1>4, <1>5 DEF Carried

\* An armed run has a timer, or is in the hands of the pump.
LEMMA ArmKeeps ==
    ASSUME TypeOK, DrainIdle, DispatchOK', NEW q \in Runs, NEW acc,
           NEW rec \in {recoverable, recoverable \ {q}}, ArmScheduledRun(q, acc, rec)
    PROVE  /\ \A r \in Runs \ {q} : Carried(r, acc)
           /\ \/ scheduledTimers'[q] # NoTimer
              \/ Queued(q)' \/ (drain'.id = q /\ drain'.reg = acc[q])
<1>1. CASE Due(q)
  BY <1>1, EnqueueRunKeeps DEF ArmScheduledRun
<1>2. CASE ~Due(q)
  <2>. DEFINE remaining == run[q].scheduledFor - now
              timer == now + (IF remaining < MaxTimerDelay THEN remaining ELSE MaxTimerDelay)
  <2>1. /\ scheduledTimers' = [scheduledTimers EXCEPT ![q] = timer]
        /\ recoverable' = rec /\ UNCHANGED dispatch
    BY <1>2 DEF ArmScheduledRun
  <2>2. /\ scheduledTimers \in [Runs -> Nat] /\ now \in Nat
        /\ run[q].scheduledFor \in Nat /\ MaxTimerDelay \in Nat \ {0}
    BY RuntimeConstants, RunType DEF TypeOK, ScheduleOK, DurableOK
  <2>3. timer # NoTimer
    BY <1>2, <2>2 DEF Due, NoTimer
  <2>. HIDE DEF timer
  <2>4. \A r \in Runs \ {q} : Queued(r) => Queued(r)'
    BY <2>1 DEF Queued, dispatch
  <2>. QED BY <2>1, <2>2, <2>3, <2>4 DEF Carried, dispatch
<1>. QED BY <1>1, <1>2

\* removeQueuedId takes no other run out.
LEMMA RemoveKeeps ==
    ASSUME TypeOK, NEW q \in Runs, NEW r \in Runs \ {q}, Queued(r),
           queuedIds' = RemoveQueuedId(q)
    PROVE  Queued(r)'
<1>1. CASE ~Queued(q)
  BY <1>1 DEF RemoveQueuedId, Queued
<1>2. CASE Queued(q)
  <2> DEFINE i == CHOOSE j \in DOMAIN queuedIds : queuedIds[j] = q
             front == SubSeq(queuedIds, 1, i - 1)
             back == SubSeq(queuedIds, i + 1, Len(queuedIds))
  <2>1. i \in 1 .. Len(queuedIds) /\ queuedIds[i] = q
    BY <1>2 DEF Queued, TypeOK, DispatchOK
  <2>2. queuedIds' = front \o back
    BY <1>2 DEF RemoveQueuedId
  <2>3. \A j \in 1 .. Len(queuedIds) : queuedIds[j] \in Runs
    BY DEF TypeOK, DispatchOK
  <2> HIDE DEF i
  <2>4. i \in Int /\ i - 1 \in Int /\ i + 1 \in Int /\ Len(queuedIds) \in Nat
    BY <2>1 DEF TypeOK, DispatchOK
  <2>5. /\ front \in Seq(Runs) /\ Len(front) = i - 1
        /\ \A j \in 1 .. i - 1 : front[j] = queuedIds[j]
    <3>1. \A j \in 1 .. i - 1 : queuedIds[j] \in Runs
      BY <2>1, <2>3, <2>4
    <3>. QED BY <2>1, <2>4, <3>1, SubSeqProperties
  <2>6. /\ back \in Seq(Runs) /\ Len(back) = Len(queuedIds) - i
        /\ \A j \in 1 .. Len(queuedIds) - i : back[j] = queuedIds[i + j]
    <3>1. \A j \in i + 1 .. Len(queuedIds) : queuedIds[j] \in Runs
      BY <2>1, <2>3, <2>4
    <3>. QED BY <2>1, <2>4, <3>1, SubSeqProperties
  <2> HIDE DEF front, back
  <2> DEFINE queue == front \o back
  <2>7. /\ DOMAIN queue = 1 .. Len(front) + Len(back)
        /\ \A j \in 1 .. Len(front) + Len(back) :
              queue[j] = IF j <= Len(front) THEN front[j] ELSE back[j - Len(front)]
    BY <2>5, <2>6, ConcatProperties
  <2> HIDE DEF queue
  <2>8. PICK k \in 1 .. Len(queuedIds) : queuedIds[k] = r
    BY DEF Queued, TypeOK, DispatchOK
  <2>9. CASE k < i
    <3>1. k \in 1 .. Len(front) + Len(back) /\ k <= Len(front) /\ k \in 1 .. i - 1
      BY <2>1, <2>4, <2>5, <2>6, <2>9
    <3>2. queue[k] = r
      BY <2>5, <2>7, <2>8, <3>1
    <3>. QED BY <2>2, <2>7, <3>1, <3>2 DEF Queued, queue
  <2>10. CASE ~(k < i)
    <3>1. k # i
      BY <2>1, <2>8
    <3>2. /\ k - 1 \in 1 .. Len(front) + Len(back) /\ ~(k - 1 <= Len(front))
          /\ k - 1 - Len(front) \in 1 .. Len(queuedIds) - i
          /\ i + (k - 1 - Len(front)) = k
      BY <2>1, <2>4, <2>5, <2>6, <2>10, <3>1
    <3>3. queue[k - 1] = back[k - 1 - Len(front)]
      BY <2>7, <3>2
    <3>4. queue[k - 1] = r
      BY <2>6, <2>8, <3>2, <3>3
    <3>. QED BY <2>2, <2>7, <3>2, <3>4 DEF Queued, queue
  <2>. QED BY <2>9, <2>10
<1>. QED BY <1>1, <1>2

-----------------------------------------------------------------------------
(* A run that a step passes by stays in the hands that held it *)

Passed(r) ==
    /\ admission'[r] = admission[r] /\ release'[r] = release[r]
    /\ accepted'[r] = accepted[r] /\ scheduledTimers'[r] = scheduledTimers[r]
    /\ r \in recoverable => r \in recoverable'
    /\ \A s \in Slots : exec[s].run = r /\ exec[s].pc = "starting"
                        => exec'[s].run = r /\ exec'[s].pc = "starting"
    /\ \A g \in Registrations : Fails(g, r) => Fails(g, r)'
    /\ Queued(r) => Queued(r)' \/ (drain'.id = r /\ drain'.reg = accepted[r])
    /\ drain.id = r => drain' = drain

LEMMA PassedHeld ==
    ASSUME NEW r \in Runs, Held(r), Passed(r)
    PROVE  Held(r)'
<1>1. ASSUME NEW s \in Busy, exec[s].run = r, exec[s].pc = "starting"
      PROVE  s \in Busy' /\ exec'[s].run = r /\ exec'[s].pc = "starting"
  BY <1>1 DEF Passed, Busy
<1>. QED BY <1>1 DEF Held, Passed

\* An update to the executions that touches none that is about to start.
LEMMA OtherExecs ==
    ASSUME TypeOK, NEW s \in Slots, exec[s].pc # "starting",
           \/ \E pc : exec' = [exec EXCEPT ![s].pc = pc]
           \/ exec' = [exec EXCEPT ![s].pc = "failing", ![s].aborted = TRUE]
           \/ exec' = [exec EXCEPT ![s] = NoExec]
    PROVE  \A t \in Slots : exec[t].pc = "starting" => exec'[t] = exec[t]
<1>1. exec \in [Slots -> ExecRecords]
  BY DEF TypeOK, ExecutionOK
<1>. QED BY <1>1

\* An aborted execution is where it was.
LEMMA AbortedExecs ==
    ASSUME TypeOK, NEW rs, exec' = Aborted(rs)
    PROVE  \A s \in Slots : exec'[s].pc = exec[s].pc /\ exec'[s].run = exec[s].run
<1>1. \A s \in Slots : /\ [exec[s] EXCEPT !.aborted = TRUE].pc = exec[s].pc
                       /\ [exec[s] EXCEPT !.aborted = TRUE].run = exec[s].run
  BY DEF TypeOK, ExecutionOK, ExecRecords
<1>. QED BY <1>1 DEF Aborted

\* What the lemmas of this part share: a queued run that is held, in a host that has not
\* begun to stop.
Keeping(r) ==
    /\ Reliable /\ HeldInv /\ DispatchOK'
    /\ run[r].status = "queued" /\ run'[r].status = "queued"
    /\ Held(r) /\ r \notin booting /\ ~stopped

LEMMA KeepingFacts ==
    ASSUME NEW r \in Runs, Keeping(r)
    PROVE  /\ TypeOK /\ DrainIdle /\ AdmittedFor /\ NotStale /\ ExpiryOwn /\ Begun
           /\ CancelsSaved /\ RejectsByUser /\ BoundInv /\ UpdateOwn /\ StopStarted
           /\ scheduledTimers \in [Runs -> Nat] /\ recoverable \in SUBSET Runs
           /\ accepted \in [Runs -> RegOrNone] /\ admission \in [Runs -> AdmissionRecords]
           /\ release \in [Runs -> Status \cup {"none"}]
           /\ recovery \in [Registrations -> RecoveryRecords]
           /\ \A h \in Registrations : recovery[h] \in RecoveryRecords
           /\ run \in [Runs -> RunRecords] /\ \A q \in Runs : run[q] \in RunRecords
           /\ mutations \in [Runs -> Seq(Mutations)] /\ None \notin Registrations
           /\ None \notin Runs
BY RuntimeConstants DEF Keeping, HeldInv, SavedInv, BoundInv, TypeOK, ScheduleOK, AcceptedOK,
   CallersOK, PluginsOK, DurableOK, MutationsOK

LEMMA AdmissionHolds ==
    ASSUME NEW r \in Runs, Keeping(r), NEW q \in Runs, AdmissionContinue(q)
    PROVE  Held(r)'
<1>. USE KeepingFacts
<1>. USE DEF durable, execution, plugins, phase, schedule, dispatch
<1>1. CASE q # r
  <2>1. /\ admission'[r] = admission[r] /\ accepted'[r] = accepted[r]
        /\ UNCHANGED <<release, exec, recovery>>
    BY <1>1 DEF AdmissionContinue
  <2>2. UNCHANGED <<dispatch, schedule>> \/ Carried(r, accepted')
    BY <1>1, ArmKeeps, EnqueueRunKeeps DEF AdmissionContinue, Keeping
  <2>3. Passed(r)
    BY <2>1, <2>2 DEF Passed, Carried, Fails, Queued
  <2>. QED BY <2>3, PassedHeld DEF Keeping
<1>2. CASE q = r
  <2>1. CASE admission' = [admission EXCEPT ![r].pc = "cancelling"]
    BY <2>1 DEF Held, AdmissionRecords
  <2>2. CASE /\ accepted' = [accepted EXCEPT ![r] = admission[r].reg]
             /\ \/ ArmScheduledRun(r, accepted', recoverable)
                \/ EnqueueRun(r, accepted')
    <3>1. accepted'[r] # None
      BY <1>2, <2>2 DEF AdmissionContinue, AdmittedFor
    <3>2. \/ scheduledTimers'[r] # NoTimer
          \/ Queued(r)' \/ (drain'.id = r /\ drain'.reg = accepted'[r])
      BY <2>2, ArmKeeps, EnqueueRunKeeps DEF Keeping
    <3>. QED BY <3>1, <3>2 DEF Held
  <2>. QED BY <1>2, <2>1, <2>2 DEF AdmissionContinue
<1>. QED BY <1>1, <1>2

LEMMA CommitHolds ==
    ASSUME NEW r \in Runs, Keeping(r), NEW q \in Runs,
           CommitExecution(q) \/ CommitCancel(q) \/ CommitApproval(q) \/ CommitExpiry(q)
    PROVE  Held(r)'
<1>. USE KeepingFacts
<1>. USE DEF execution, plugins, callers, schedule, dispatch
<1>. SUFFICES Passed(r)
  BY PassedHeld DEF Keeping
<1>1. CASE CommitExecution(q)
  <2>1. PICK s : s = Head(mutations[q]).by
    OBVIOUS
  <2>2. PICK pc : exec' = [exec EXCEPT ![s].pc = pc]
    BY <1>1, <2>1 DEF CommitExecution
  <2>3. UNCHANGED <<dispatch, schedule, plugins, callers, accepted>>
    BY <1>1 DEF CommitExecution
  <2>4. ASSUME NEW t \in Slots, exec[t].run = r, exec[t].pc = "starting"
        PROVE  exec'[t].run = r /\ exec'[t].pc = "starting"
    <3>1. t # s
      BY <1>1, <2>1, <2>4, StartSaves DEF Keeping
    <3>. QED BY <2>2, <2>4, <3>1 DEF TypeOK, ExecutionOK
  <2>. QED BY <2>3, <2>4 DEF Passed, Fails, Queued
<1>2. CASE CommitCancel(q)
  <2>1. admission'[r] = admission[r]
    <3>1. PICK m : m = Head(mutations[q])
      OBVIOUS
    <3>2. PICK ok \in BOOLEAN :
             /\ Committing(q, ok)
             /\ admission' = IF m.by = "admission" /\ ~ok
                             THEN [admission EXCEPT ![q].pc = "done"] ELSE admission
      BY <1>2, <3>1 DEF CommitCancel
    <3>3. CASE q = r /\ m.by = "admission" /\ ~ok
      <4>1. m.kind = "cancel"
        <5>1. m = mutations[q][1] /\ 1 \in 1 .. Len(mutations[q])
          BY <3>1, <3>2, CommitSaves DEF Keeping
        <5>2. m.kind \in {"cancel", "reject"}
          BY <1>2, <3>1 DEF CommitCancel, CancelKinds
        <5>3. m.kind = "reject" => m.by = "user"
          BY <5>1 DEF RejectsByUser
        <5>. QED BY <3>3, <5>2, <5>3
      <4>. QED BY <3>1, <3>2, <3>3, <4>1, CommitSaves DEF Keeping, Accepts, Live
    <3>. QED BY <3>2, <3>3
  <2>2. UNCHANGED <<dispatch, schedule, exec, recovery, release, accepted>>
    BY <1>2 DEF CommitCancel
  <2>. QED BY <2>1, <2>2 DEF Passed, Fails, Queued
<1>3. CASE CommitApproval(q)
  BY <1>3 DEF CommitApproval, Passed, Fails, Queued
<1>4. CASE CommitExpiry(q)
  <2>1. PICK g : g = Head(mutations[q]).by
    OBVIOUS
  <2>2. PICK pc : recovery' = [recovery EXCEPT ![g].pc = pc]
    BY <1>4, <2>1 DEF CommitExpiry
  <2>3. UNCHANGED <<dispatch, schedule, execution, callers, accepted>>
    BY <1>4 DEF CommitExpiry
  <2>4. ASSUME NEW h \in Registrations, Fails(h, r) PROVE Fails(h, r)'
    <3>1. ASSUME h = g PROVE FALSE
      <4>1. PICK ok \in BOOLEAN : Committing(q, ok) /\ Head(mutations[q]).kind = "expire"
        BY <1>4 DEF CommitExpiry
      <4>2. Fails(g, q)
        BY <2>1, <4>1, CommitSaves DEF ExpiryOwn, Keeping
      <4>3. q = r
        BY <2>4, <3>1, <4>2 DEF Fails
      <4>4. Accepts("expire", "queued") /\ Result("expire", "queued") = "failed"
        BY DEF Accepts, Result, Outcome
      <4>. QED BY <4>1, <4>3, <4>4, CommitSaves DEF Keeping
    <3>. QED BY <2>2, <2>4, <3>1 DEF Fails
  <2>. QED BY <2>3, <2>4 DEF Passed, Queued
<1>. QED BY <1>1, <1>2, <1>3, <1>4

LEMMA RunStepHolds ==
    ASSUME NEW r \in Runs, Keeping(r), NEW q \in Runs, RunStep(q)
    PROVE  Held(r)'
<1>. USE KeepingFacts
<1>. USE DEF durable, execution, plugins, callers, phase, schedule, dispatch
<1>1. ASSUME NEW c \in Callers, CancelContinue(q, c) PROVE Passed(r)
  <2>1. q # r
    BY <1>1 DEF CancelContinue, CancelsSaved, Keeping, Terminal
  <2>2. \A s \in Slots : exec'[s].pc = exec[s].pc /\ exec'[s].run = exec[s].run
    BY <1>1, AbortedExecs DEF CancelContinue
  <2>3. Queued(r) => Queued(r)'
    BY <1>1, <2>1, RemoveKeeps DEF CancelContinue
  <2>4. /\ admission'[r] = admission[r] /\ accepted'[r] = accepted[r]
        /\ scheduledTimers'[r] = scheduledTimers[r]
        /\ r \in recoverable => r \in recoverable'
    BY <1>1, <2>1 DEF CancelContinue
  <2>5. UNCHANGED <<drain, release, recovery>>
    BY <1>1 DEF CancelContinue
  <2>. QED BY <2>2, <2>3, <2>4, <2>5 DEF Passed, Fails
<1>2. CASE TimerFires(q)
  <2>1. CASE q = r
    <3>1. release'[r] = "queued"
      BY <1>2, <2>1 DEF TimerFires, Keeping
    <3>. QED BY <3>1 DEF Held
  <2>2. CASE q # r
    <3>1. Passed(r)
      BY <1>2, <2>2 DEF TimerFires, Passed, Fails, Queued
    <3>. QED BY <3>1, PassedHeld DEF Keeping
  <2>. QED BY <2>1, <2>2
<1>3. CASE ReleaseContinue(q) /\ q = r
  <2>1. release[r] = "queued" /\ ~stopped
    BY <1>3 DEF ReleaseContinue, NotStale, Keeping
  <2>2. \/ r \in recoverable'
        \/ /\ accepted'[r] # None
           /\ ArmScheduledRun(r, accepted, recoverable) /\ UNCHANGED accepted
    BY <1>3, <2>1 DEF ReleaseContinue, Parked
  <2>3. ArmScheduledRun(r, accepted, recoverable) =>
           \/ scheduledTimers'[r] # NoTimer
           \/ Queued(r)' \/ (drain'.id = r /\ drain'.reg = accepted[r])
    BY ArmKeeps DEF Keeping
  <2>. QED BY <2>2, <2>3 DEF Held
<1>4. CASE ReleaseContinue(q) /\ q # r
  <2>1. /\ release'[r] = release[r] /\ accepted'[r] = accepted[r]
        /\ UNCHANGED <<admission, exec, recovery>>
    BY <1>4 DEF ReleaseContinue
  <2>2. \/ UNCHANGED dispatch /\ scheduledTimers'[r] = scheduledTimers[r]
           /\ (r \in recoverable => r \in recoverable')
        \/ ArmScheduledRun(q, accepted, recoverable)
    BY <1>4 DEF ReleaseContinue, Parked
  <2>3. ArmScheduledRun(q, accepted, recoverable) => Carried(r, accepted)
    BY <1>4, ArmKeeps DEF Keeping
  <2>4. Passed(r)
    BY <2>1, <2>2, <2>3 DEF Passed, Carried, Fails, Queued
  <2>. QED BY <2>4, PassedHeld DEF Keeping
<1>5. ~ReleaseFails(q)
  BY DEF ReleaseFails, Keeping, Reliable
<1>6. ASSUME InitRun(q) PROVE Passed(r)
  BY <1>6 DEF InitRun, Passed, Fails, Queued, Parked
<1>. QED BY <1>1, <1>2, <1>3, <1>4, <1>5, <1>6, AdmissionHolds, CommitHolds, PassedHeld
     DEF RunStep, Keeping

LEMMA ExecutionHolds ==
    ASSUME NEW r \in Runs, Keeping(r), NEW s \in Slots, ExecutionStep(s) \/ BodyStep(s)
    PROVE  Held(r)'
<1>. USE KeepingFacts
<1>. USE DEF callers, schedule, dispatch, plugins
<1>. SUFFICES Passed(r)
  BY PassedHeld DEF Keeping
<1>1. exec[s].pc # "starting"
  BY DEF ExecutionStep, BodyStep, ExecBody, ExecRefused, ExecUnread, ExecSettled,
     TaskFinally, BodyReturns, BodyFails, ExecStep
<1>2. \/ \E pc : exec' = [exec EXCEPT ![s].pc = pc]
      \/ exec' = [exec EXCEPT ![s].pc = "failing", ![s].aborted = TRUE]
      \/ exec' = [exec EXCEPT ![s] = NoExec]
  BY DEF ExecutionStep, BodyStep, ExecBody, ExecRefused, ExecUnread, ExecSettled,
     TaskFinally, BodyReturns, BodyFails, ExecStep, ExecCatch
<1>3. \A t \in Slots : exec[t].pc = "starting" => exec'[t] = exec[t]
  BY <1>1, <1>2, OtherExecs
<1>4. CASE TaskFinally(s)
  <2>1. exec[s].run # r
    BY <1>4 DEF TaskFinally, Begun, Busy, Keeping
  <2>2. accepted'[r] = accepted[r] /\ UNCHANGED <<schedule, callers, recovery>>
    BY <1>4, <2>1 DEF TaskFinally
  <2>3. Pump(queuedIds, accepted', activeCount - 1) /\ queuedIds \in Seq(Runs)
    BY <1>4 DEF TaskFinally, TypeOK, DispatchOK
  <2>4. /\ InQueue(queuedIds, r) => Queued(r)' \/ (drain'.id = r /\ drain'.reg = accepted'[r])
        /\ drain.id = r => drain' = drain
    BY <2>3, PumpKeeps DEF Keeping
  <2>5. Queued(r) => InQueue(queuedIds, r)
    BY QueuedIn DEF TypeOK
  <2>. QED BY <1>3, <2>2, <2>4, <2>5 DEF Passed, Fails
<1>5. CASE ~TaskFinally(s)
  <2>1. UNCHANGED <<dispatch, schedule, callers, accepted, recovery>>
    BY <1>5 DEF ExecutionStep, BodyStep, ExecBody, ExecRefused, ExecUnread, ExecSettled,
       BodyReturns, BodyFails, ExecStep, ExecCatch
  <2>. QED BY <1>3, <2>1 DEF Passed, Fails, Queued
<1>. QED BY <1>4, <1>5

LEMMA PluginHolds ==
    ASSUME NEW r \in Runs, Keeping(r), NEW g \in Registrations, PluginStep(g)
    PROVE  Held(r)'
<1>. USE KeepingFacts
<1>. USE DEF beyondPlugins, durable, execution, callers, schedule, dispatch
<1>1. CASE RecoverContinue(g)
  <2>. DEFINE id == recovery[g].id
  <2>1. recovery[g].pc = "reading" /\ id \in Runs
    BY <1>1 DEF RecoverContinue, TypeOK, ReadingOK
  <2>2. UNCHANGED <<admission, release, exec>>
    BY <1>1 DEF RecoverContinue
  <2>3. ASSUME NEW rec, RecoverNext(g, rec), NEW h \in Registrations, Fails(h, r)
        PROVE  Fails(h, r)'
    BY <2>1, <2>3 DEF RecoverNext, Fails
  <2>4. CASE /\ recovery' = [recovery EXCEPT ![g] = [pc |-> "done", id |-> None,
                                                     seen |-> "absent"]]
             /\ UNCHANGED <<accepted, dispatch, schedule>>
    <3>1. \A h \in Registrations : Fails(h, r) => Fails(h, r)'
      BY <2>1, <2>4 DEF Fails
    <3>2. Passed(r)
      BY <2>2, <2>4, <3>1 DEF Passed, Queued
    <3>. QED BY <3>2, PassedHeld DEF Keeping
  <2>5. CASE /\ recovery[g].seen # "queued" /\ recoverable' = recoverable \ {id}
             /\ \E rec : RecoverNext(g, rec)
             /\ UNCHANGED <<accepted, dispatch, scheduledTimers>>
    <3>1. id # r
      BY <2>1, <2>5 DEF NotStale, Reads, Keeping
    <3>2. Passed(r)
      BY <2>2, <2>3, <2>5, <3>1 DEF Passed, Queued
    <3>. QED BY <3>2, PassedHeld DEF Keeping
  <2>6. CASE /\ recoverable' = recoverable \ {id}
             /\ recovery' = [recovery EXCEPT ![g].pc = "failing"]
             /\ UNCHANGED <<accepted, dispatch, scheduledTimers>>
    <3>1. CASE id = r
      <4>1. Fails(g, r)'
        BY <2>6, <3>1 DEF Fails, RecoveryRecords
      <4>. QED BY <4>1 DEF Held, Fails
    <3>2. CASE id # r
      <4>1. \A h \in Registrations : Fails(h, r) => Fails(h, r)'
        BY <2>6 DEF Fails, RecoveryRecords
      <4>2. Passed(r)
        BY <2>2, <2>6, <3>2, <4>1 DEF Passed, Queued
      <4>. QED BY <4>2, PassedHeld DEF Keeping
    <3>. QED BY <3>1, <3>2
  <2>7. CASE /\ accepted' = [accepted EXCEPT ![id] = g]
             /\ ArmScheduledRun(id, accepted', recoverable \ {id})
             /\ \E rec : RecoverNext(g, rec)
    <3>1. CASE id = r
      <4>1. accepted'[r] # None
        BY <2>7, <3>1
      <4>2. \/ scheduledTimers'[r] # NoTimer
            \/ Queued(r)' \/ (drain'.id = r /\ drain'.reg = accepted'[r])
        BY <2>7, <3>1, ArmKeeps DEF Keeping
      <4>. QED BY <4>1, <4>2 DEF Held
    <3>2. CASE id # r
      <4>1. Carried(r, accepted') /\ accepted'[r] = accepted[r]
        BY <2>1, <2>7, <3>2, ArmKeeps DEF Keeping
      <4>2. Passed(r)
        BY <2>2, <2>3, <2>7, <4>1 DEF Passed, Carried
      <4>. QED BY <4>2, PassedHeld DEF Keeping
    <3>. QED BY <3>1, <3>2
  <2>. QED BY <1>1, <2>4, <2>5, <2>6, <2>7 DEF RecoverContinue
<1>2. CASE RecoverResume(g) \/ RecoverFails(g)
  <2>1. \A h \in Registrations : Fails(h, r) => Fails(h, r)'
    BY <1>2 DEF RecoverResume, RecoverFails, RecoverNext, Fails
  <2>2. UNCHANGED beyondPlugins
    BY <1>2 DEF RecoverResume, RecoverFails
  <2>3. Passed(r)
    BY <2>1, <2>2 DEF Passed, Queued
  <2>. QED BY <2>3, PassedHeld DEF Keeping
<1>3. CASE DisposeAdmitted(g) \/ DisposeResume(g) \/ DisposeDrained(g) \/ DisposeFails(g)
  <2>1. UNCHANGED <<beyondPlugins, recovery>>
    BY <1>3 DEF DisposeAdmitted, DisposeResume, DisposeDrained, DisposeFails
  <2>2. Passed(r)
    BY <2>1 DEF Passed, Fails, Queued
  <2>. QED BY <2>2, PassedHeld DEF Keeping
<1>4. CASE DisposeContinue(g)
  <2>. DEFINE id == disposer[g].id
  <2>1. UNCHANGED <<drain, exec, recovery, admission, release>> /\ id \in Runs
    BY <1>4 DEF DisposeContinue, TypeOK, ReadingOK
  <2>2. CASE UNCHANGED <<schedule, queuedIds, accepted>>
    <3>1. Passed(r)
      BY <2>1, <2>2 DEF Passed, Fails, Queued
    <3>. QED BY <3>1, PassedHeld DEF Keeping
  <2>3. CASE /\ scheduledTimers' = [scheduledTimers EXCEPT ![id] = NoTimer]
             /\ queuedIds' = RemoveQueuedId(id)
             /\ accepted' = [accepted EXCEPT ![id] = None]
             /\ recoverable' = recoverable \cup {id}
    <3>1. CASE id = r
      BY <2>3, <3>1 DEF Held
    <3>2. CASE id # r
      <4>1. Queued(r) => Queued(r)'
        BY <2>1, <2>3, <3>2, RemoveKeeps
      <4>2. Passed(r)
        BY <2>1, <2>3, <3>2, <4>1 DEF Passed, Fails
      <4>. QED BY <4>2, PassedHeld DEF Keeping
    <3>. QED BY <3>1, <3>2
  <2>. QED BY <1>4, <2>2, <2>3 DEF DisposeContinue, Parked
<1>. QED BY <1>1, <1>2, <1>3, <1>4 DEF PluginStep

LEMMA HostHolds ==
    ASSUME NEW r \in Runs, Keeping(r), HostStep, ~Boot
    PROVE  Held(r)'
<1>. USE KeepingFacts
<1>. USE DEF durable, execution, plugins, callers, schedule, dispatch
<1>1. queuedIds \in Seq(Runs) /\ (Queued(r) => InQueue(queuedIds, r))
  BY QueuedIn DEF TypeOK, DispatchOK
<1>2. ~StopAbort /\ ~StopTasks /\ ~StopEnd /\ ~DrainFails
  BY DEF StopAbort, StopTasks, StopEnd, StopStarted, DrainFails, Reliable, Keeping
<1>3. CASE DrainContinue
  <2>1. UNCHANGED <<admission, release, accepted, schedule, recovery>>
    BY <1>3 DEF DrainContinue
  <2>2. \E active, otherwise : DrainLoop(queuedIds, accepted, active, otherwise)
    BY <1>3 DEF DrainContinue
  <2>3. Queued(r) => Queued(r)' \/ (drain'.id = r /\ drain'.reg = accepted[r])
    BY <1>1, <2>2, DrainLoopKeeps DEF Keeping
  <2>4. ASSUME NEW s \in Slots, exec[s].run = r, exec[s].pc = "starting"
        PROVE  exec'[s].run = r /\ exec'[s].pc = "starting"
    <3>1. UNCHANGED exec \/ \E t \in Slots \ Busy : \E e : exec' = [exec EXCEPT ![t] = e]
      BY <1>3 DEF DrainContinue
    <3>. QED BY <2>4, <3>1 DEF Busy, TypeOK, ExecutionOK
  <2>5. CASE drain.id = r /\ drain.reg # None
    <3>1. drain.seen = "queued"
      BY <1>3, <2>5 DEF DrainContinue, NotStale, Keeping
    <3>2. PICK s \in Slots :
             exec' = [exec EXCEPT ![s] = [pc |-> "starting", run |-> drain.id,
                                          reg |-> drain.reg, aborted |-> FALSE]]
      BY <1>3, <2>5, <3>1 DEF DrainContinue
    <3>3. exec'[s].run = r /\ exec'[s].pc = "starting"
      BY <2>5, <3>2 DEF TypeOK, ExecutionOK
    <3>. QED BY <3>3 DEF Held, Busy
  <2>6. CASE ~(drain.id = r /\ drain.reg # None)
    BY <2>1, <2>3, <2>4, <2>6 DEF Held, Keeping, Busy, Fails
  <2>. QED BY <2>5, <2>6
<1>4. CASE DrainFinally
  <2>1. UNCHANGED <<admission, release, accepted, schedule, recovery, exec>> /\ drain.id # r
    BY <1>4 DEF DrainFinally, DrainIdle
  <2>2. DrainLoop(queuedIds, accepted, activeCount, "idle")
    BY <1>4 DEF DrainFinally
  <2>3. Queued(r) => Queued(r)' \/ (drain'.id = r /\ drain'.reg = accepted[r])
    BY <1>1, <2>2, DrainLoopKeeps DEF Keeping
  <2>4. Passed(r)
    BY <2>1, <2>3 DEF Passed, Fails
  <2>. QED BY <2>4, PassedHeld DEF Keeping
<1>5. CASE InitDone
  <2>1. UNCHANGED <<admission, release, accepted, schedule, recovery, exec>>
    BY <1>5 DEF InitDone
  <2>2. Pump(queuedIds, accepted, activeCount)
    BY <1>5 DEF InitDone
  <2>3. /\ Queued(r) => Queued(r)' \/ (drain'.id = r /\ drain'.reg = accepted[r])
        /\ drain.id = r => drain' = drain
    BY <1>1, <2>2, PumpKeeps DEF Keeping
  <2>4. Passed(r)
    BY <2>1, <2>3 DEF Passed, Fails
  <2>. QED BY <2>4, PassedHeld DEF Keeping
<1>. QED BY <1>2, <1>3, <1>4, <1>5 DEF HostStep

LEMMA EnvironmentHolds ==
    ASSUME NEW r \in Runs, Keeping(r), Environment, ~StopBegin, ~Crash
    PROVE  Held(r)'
<1>. USE KeepingFacts
<1>. USE DEF beyondPlugins, durable, execution, plugins, callers, schedule, dispatch
<1>. SUFFICES Passed(r)
  BY PassedHeld DEF Keeping
<1>1. ASSUME NEW q \in Runs, NEW h \in Registrations, NEW at \in Schedules, Start(q, h, at)
      PROVE  Passed(r)
  <2>1. q # r
    BY <1>1 DEF Start, Keeping
  <2>2. admission'[r] = admission[r]
        /\ UNCHANGED <<release, dispatch, schedule, exec, recovery, accepted>>
    BY <1>1, <2>1 DEF Start
  <2>. QED BY <2>2 DEF Passed, Fails, Queued
<1>2. ASSUME NEW q \in Runs, Cancel(q) \/ Review(q) PROVE Passed(r)
  <2>1. UNCHANGED <<callers, dispatch, schedule, exec, recovery, accepted>>
    BY <1>2 DEF Cancel, Review, UserCommand
  <2>. QED BY <2>1 DEF Passed, Fails, Queued
<1>3. ASSUME NEW h \in Registrations, Register(h) \/ Dispose(h) PROVE Passed(r)
  <2>1. UNCHANGED beyondPlugins
    BY <1>3 DEF Register, Dispose
  <2>2. ASSUME NEW k \in Registrations, Fails(k, r) PROVE Fails(k, r)'
    <3>1. CASE Dispose(h)
      BY <2>2, <3>1 DEF Dispose, Fails
    <3>2. CASE Register(h)
      <4>1. k # h
        BY <2>2, <3>2 DEF Register, Keeping, HeldInv, RegisteredOnce, Fails
      <4>2. recovery'[k] = recovery[k]
        BY <3>2, <4>1 DEF Register, RecoverNext
      <4>. QED BY <2>2, <4>2 DEF Fails
    <3>. QED BY <1>3, <3>1, <3>2
  <2>. QED BY <2>1, <2>2 DEF Passed, Queued
<1>. QED BY <1>1, <1>2, <1>3 DEF Environment

\* Service.init parks or fails every run that it takes from its list.
LEMMA BootingLeaves ==
    ASSUME [Next]_vars, NEW r \in booting, r \notin booting', ~Crash, ~Boot
    PROVE  InitRun(r)
<1>. USE DEF vars, beyondPlugins, beyondHost, phase
<1>1. ASSUME NEW q \in Runs, RunStep(q) PROVE InitRun(r)
  <2>1. InitRun(q)
    BY <1>1 DEF RunStep, AdmissionContinue, CommitExecution, CommitCancel, CommitApproval,
       CommitExpiry, CancelContinue, TimerFires, ReleaseContinue, ReleaseFails
  <2>2. q = r
    BY <2>1 DEF InitRun
  <2>. QED BY <2>1, <2>2
<1>2. ASSUME NEW s \in Slots, ExecutionStep(s) \/ BodyStep(s) PROVE FALSE
  BY <1>2 DEF ExecutionStep, BodyStep, ExecBody, ExecRefused, ExecUnread, ExecSettled,
     TaskFinally, BodyReturns, BodyFails, ExecStep, ExecCatch
<1>3. ASSUME NEW g \in Registrations, PluginStep(g) PROVE FALSE
  BY <1>3 DEF PluginStep, RecoverContinue, RecoverResume, RecoverFails, DisposeAdmitted,
     DisposeContinue, DisposeResume, DisposeDrained, DisposeFails
<1>4. ~HostStep
  BY DEF HostStep, DrainContinue, DrainFails, DrainFinally, StopAbort, StopTasks, StopEnd,
     InitDone
<1>5. ~Environment
  <2>1. ASSUME NEW q \in Runs, NEW g \in Registrations, NEW at \in Schedules, Start(q, g, at)
        PROVE  FALSE
    BY <2>1 DEF Start
  <2>. QED BY <2>1 DEF Environment, Cancel, Review, UserCommand, Register, Dispose, StopBegin
<1>. QED BY <1>1, <1>2, <1>3, <1>4, <1>5 DEF Next, Tick

LEMMA NoneUnheldStep ==
    ASSUME Reliable, HeldInv, TypeOK', [Next]_vars
    PROVE  NoneUnheld'
<1>. SUFFICES ASSUME host' \in {"init", "up"}, NEW r \in Runs, run'[r].status = "queued",
                     r \notin booting'
              PROVE  Held(r)'
  BY DEF NoneUnheld
<1>1. /\ TypeOK /\ InitBoots /\ StopStarted /\ NoneUnheld
      /\ admission \in [Runs -> AdmissionRecords] /\ booting \in SUBSET Runs
      /\ DispatchOK'
  BY DEF HeldInv, SavedInv, BoundInv, TypeOK, CallersOK, PhaseOK
<1>2. ASSUME NEW g \in Registrations, NEW at \in Schedules, Start(r, g, at) PROVE Held(r)'
  BY <1>1, <1>2 DEF Start, Held
<1>3. ~Boot
  <2>1. Boot => run' = run /\ booting' = {q \in Runs : run[q].status \in {"queued", "running"}}
    BY DEF Boot
  <2>. QED BY <2>1
<1>4. ~Crash /\ ~StopBegin
  BY DEF Crash, StopBegin
<1>5. host \in {"init", "up"}
  <2>1. ~StopEnd /\ (InitDone => host = "init")
    BY DEF StopEnd, InitDone
  <2>. QED BY <1>3, <1>4, <2>1, HostSteps
<1>6. CASE r \in booting
  <2>1. InitRun(r)
    BY <1>3, <1>4, <1>6, BootingLeaves
  <2>2. run' # [run EXCEPT ![r].status = "failed"]
    BY <1>1 DEF TypeOK, DurableOK, RunRecords
  <2>3. r \in recoverable'
    BY <2>1, <2>2 DEF InitRun, Parked
  <2>. QED BY <2>3 DEF Held
<1>7. CASE run[r].status = "queued" /\ r \notin booting
  <2>1. Held(r) /\ ~stopped
    BY <1>1, <1>5, <1>7 DEF NoneUnheld, stopped
  <2>2. Keeping(r)
    BY <1>1, <1>7, <2>1 DEF Keeping
  <2>3. CASE UNCHANGED vars \/ Tick
    <3>1. Passed(r)
      BY <2>3 DEF vars, beyondPlugins, plugins, dispatch, schedule, execution, callers, Tick,
         Passed, Fails, Queued
    <3>. QED BY <2>1, <3>1, PassedHeld
  <2>. QED BY <1>3, <1>4, <2>2, <2>3, RunStepHolds, ExecutionHolds, PluginHolds, HostHolds,
              EnvironmentHolds DEF Next
<1>. QED BY <1>1, <1>2, <1>6, <1>7, QueuedFrom

-----------------------------------------------------------------------------

LEMMA HeldInit == Init => HeldInv
<1>. SUFFICES ASSUME Init PROVE HeldInv
  OBVIOUS
<1>. USE DEF Init, Fresh
<1>1. EarlyInv /\ SavedInv
  BY EarlyInit, SavedInit
<1>2. /\ DrainIdle /\ AdmittedFor /\ InitBoots
      /\ \A q \in Runs : mutations[q] = << >> /\ release[q] = "none" /\ run[q].status = "absent"
      /\ \A g \in Registrations : recovery[g].pc = "none" /\ disposer[g].pc = "none"
      /\ Busy = {}
  BY DEF DrainIdle, NoRead, AdmittedFor, InitBoots, NoRecovery, NoDisposer, Busy, NoExec
<1>3. HeldStored /\ NotStale
  BY <1>2 DEF HeldStored, NotStale, Reads
<1>4. UpdateOwn /\ ExpiryOwn /\ ExpiryOnce /\ RejectsByUser /\ RegisteredOnce /\ Begun
  BY <1>2 DEF UpdateOwn, ExpiryOwn, ExpiryOnce, RejectsByUser, RegisteredOnce, Begun
<1>5. NoneUnheld
  BY <1>2 DEF NoneUnheld
<1>. QED BY <1>1, <1>2, <1>3, <1>4, <1>5 DEF HeldInv

LEMMA HeldStep == Reliable /\ HeldInv /\ [Next]_vars => HeldInv'
<1>. SUFFICES ASSUME Reliable, HeldInv, [Next]_vars PROVE HeldInv'
  OBVIOUS
<1>1. /\ EarlyInv /\ SavedInv /\ DrainIdle /\ AdmittedFor /\ InitBoots /\ RejectsByUser
      /\ TypeOK /\ StopStarted /\ BoundInv /\ UpdateOwn
  BY DEF HeldInv, SavedInv, BoundInv
<1>2. EarlyInv' /\ SavedInv' /\ TypeOK'
  BY <1>1, EarlyStep, SavedStep, TypeStep
<1>3. DrainIdle' /\ AdmittedFor' /\ InitBoots' /\ RejectsByUser'
  BY <1>1, DrainIdleStep, AdmittedForStep, BootingSteps, RejectsByUserStep
<1>4. HeldStored' /\ NotStale' /\ UpdateOwn' /\ ExpiryOwn' /\ ExpiryOnce' /\ RegisteredOnce'
  BY <1>1, HeldStoredStep, NotStaleStep, OwnUpdatesStep, ExpiryOwnStep, ExpiryOnceStep,
     RegisteredOnceStep
<1>5. Begun' /\ NoneUnheld'
  BY <1>2, BegunStep, NoneUnheldStep
<1>. QED BY <1>2, <1>3, <1>4, <1>5 DEF HeldInv

\* The holders one by one.
LEMMA HeldHolders ==
    ASSUME NEW r \in Runs, Held(r)
    PROVE  Holders(r) # {}
<1>1. CASE admission[r].pc \in {"creating", "cancelling"}
  BY <1>1 DEF Holders
<1>2. CASE scheduledTimers[r] # NoTimer
  <2>1. "timer" \in Holders(r)
    BY <1>2 DEF Holders
  <2>. QED BY <2>1
<1>3. CASE release[r] = "queued"
  <2>1. "release" \in Holders(r)
    BY <1>3 DEF Holders
  <2>. QED BY <2>1
<1>4. CASE Queued(r) /\ accepted[r] # None
  <2>1. "queue" \in Holders(r)
    BY <1>4 DEF Holders
  <2>. QED BY <2>1
<1>5. CASE drain.id = r /\ drain.reg # None
  <2>1. "read" \in Holders(r)
    BY <1>5 DEF Holders
  <2>. QED BY <2>1
<1>6. CASE \E s \in Busy : exec[s].run = r /\ exec[s].pc = "starting"
  <2>1. "start" \in Holders(r)
    BY <1>6 DEF Holders
  <2>. QED BY <2>1
<1>7. CASE \E g \in Registrations : Fails(g, r)
  <2>1. "expire" \in Holders(r)
    BY <1>7 DEF Holders, Fails
  <2>. QED BY <2>1
<1>8. CASE r \in recoverable
  <2>1. "recoverable" \in Holders(r)
    BY <1>8 DEF Holders
  <2>. QED BY <2>1
<1>. QED BY <1>1, <1>2, <1>3, <1>4, <1>5, <1>6, <1>7, <1>8 DEF Held

\* While the host is up, a queued run is always in somebody's hands: no order of unloads,
\* registrations, releases, recoveries, cancellations, stops and crashes loses one, if the
\* repository keeps the updates and answers the reads of the pump and of the releases.
THEOREM NoneLost == Reliable => (Spec => []QueuedHasHolder)
<1>. SUFFICES ASSUME Reliable PROVE Spec => []QueuedHasHolder
  OBVIOUS
<1>1. HeldInv /\ [Next]_vars => HeldInv'
  BY HeldStep
<1>2. HeldInv => QueuedHasHolder
  BY HeldHolders DEF HeldInv, InitBoots, NoneUnheld, QueuedHasHolder
<1>. QED BY <1>1, <1>2, HeldInit, PTL DEF Spec

-----------------------------------------------------------------------------
(* A resolved disposer leaves no immediate run executing.                  *)

\* No schedule, or not created yet.
Prompt(r) == Stored(r) => ~Scheduled(r)

AcceptedStored == \A r \in Runs : accepted[r] # None => Stored(r)

ExecStored == \A s \in Busy : exec[s].run \in Runs /\ Stored(exec[s].run)

Untimed ==
    \A r \in Runs : Prompt(r) =>
        /\ scheduledTimers[r] = NoTimer /\ release[r] = "none" /\ r \notin recoverable
        /\ \A g \in Registrations : ~Reads(g, r)

Sole ==
    /\ Distinct(queuedIds)
    /\ \A r \in Runs : Prompt(r) =>
          /\ Admitted(r) => ~Pumped(r) /\ ~Executed(r)
          /\ Queued(r) => drain.id # r /\ ~Executed(r)
          /\ drain.id = r => ~Executed(r)
          /\ \A s \in Busy : exec[s].run = r => tasks[r] = s

Underway(s) ==
    \/ exec[s].pc \in {"started", "body", "reviewing"}
    \/ exec[s].pc = "starting" /\ run[exec[s].run].status = "queued"

Follows ==
    \A r \in Runs : Prompt(r) =>
        /\ run[r].status = "queued" /\ drain.pc = "reading" /\ drain.id = r
           => drain.reg = accepted[r]
        /\ \A s \in Slots : exec[s].run = r /\ Underway(s) => exec[s].reg = accepted[r]

AdmitsOwn ==
    \A r \in Runs : admission[r].pc = "creating" =>
        /\ admission[r].reg \in Registrations
        /\ Stored(r) /\ run[r].workflow = WorkflowOf[admission[r].reg]

Leaving(g) == disposer[g].pc \notin {"none", "registered"}

Gone == \A g \in Registrations : Leaving(g) => definitions[WorkflowOf[g]] # g

Cancels(m, g) == m.kind \in CancelKinds /\ m.by = g
Cancelling(g, r) ==
    g \in cancels[r] \/ \E i \in 1 .. Len(mutations[r]) : Cancels(mutations[r][i], g)

CancelOwn ==
    \A g \in Registrations, r \in Runs :
        Cancelling(g, r) => disposer[g].pc = "cancelling" /\ disposer[g].id = r

CancelOnce ==
    \A g \in Registrations, r \in Runs : \A i, j \in 1 .. Len(mutations[r]) :
        Cancels(mutations[r][i], g) =>
            g \notin cancels[r] /\ (Cancels(mutations[r][j], g) => i = j)

Settled(r) == run[r].status \notin {"absent", "queued"}

\* Whether the disposer still has to look at a run, or to cancel it.
Ahead(g, r) ==
    \/ r \in disposer[g].todo
    \/ r = disposer[g].id /\ disposer[g].pc = "cancelling"
    \/ r = disposer[g].id /\ disposer[g].pc = "reading" /\ disposer[g].seen = "queued"

Walks ==
    \A g \in Registrations : disposer[g].pc \in {"reading", "cancelling", "next"} =>
        /\ disposer[g].todo \subseteq disposer[g].ids /\ disposer[g].id \in disposer[g].ids
        /\ \A r \in Runs : accepted[r] = g => r \in disposer[g].ids
        /\ \A r \in disposer[g].ids :
              Stored(r) /\ (Prompt(r) => Settled(r) \/ Ahead(g, r))

Drains ==
    \A g \in Registrations : disposer[g].pc \in {"draining", "disposed"} =>
        /\ \A r \in Runs : accepted[r] = g /\ Prompt(r) => Settled(r)
        /\ \A s \in Slots : Uses(s, g) /\ Prompt(exec[s].run) => s \in disposer[g].slots

Disposed == \A g \in Registrations : disposer[g].pc = "disposed" => disposer[g].slots = {}

PromptInv ==
    /\ EarlyInv /\ SavedInv /\ DrainIdle /\ UpdateOwn /\ RejectsByUser
    /\ AcceptedStored /\ ExecStored /\ AdmitsOwn /\ Untimed /\ Sole /\ Follows
    /\ Gone /\ CancelOwn /\ CancelOnce /\ Walks /\ Drains /\ Disposed

-----------------------------------------------------------------------------

\* A run that is without a schedule after a step was so before.
LEMMA PromptKept ==
    ASSUME TypeOK, [Next]_vars, NEW r \in Runs, Prompt(r)'
    PROVE  Prompt(r)
BY StoredKept DEF Prompt, Scheduled, SameOrder

\* Only a stored run is accepted.
LEMMA AcceptedSets ==
    ASSUME TypeOK, [Next]_vars, NEW r \in Runs, accepted'[r] \notin {None, accepted[r]}
    PROVE  \/ /\ AdmissionContinue(r) /\ accepted'[r] = admission[r].reg
              /\ definitions[run[r].workflow] = admission[r].reg
           \/ \E g \in Registrations :
                 /\ RecoverContinue(g) /\ Reads(g, r) /\ recovery[g].seen = "queued"
                 /\ accepted'[r] = g /\ definitions[WorkflowOf[g]] = g
<1>. USE DEF vars, beyondPlugins, beyondHost
<1>1. accepted \in [Runs -> RegOrNone] /\ None \notin Registrations
  BY RuntimeConstants DEF TypeOK, AcceptedOK
<1>2. ASSUME NEW q \in Runs, RunStep(q)
      PROVE  \/ UNCHANGED accepted
             \/ /\ AdmissionContinue(q) /\ accepted' = [accepted EXCEPT ![q] = admission[q].reg]
                /\ definitions[run[q].workflow] = admission[q].reg
             \/ accepted' = [accepted EXCEPT ![q] = None]
  BY <1>2 DEF RunStep, AdmissionContinue, CommitExecution, CommitCancel, CommitApproval,
     CommitExpiry, CancelContinue, TimerFires, ReleaseContinue, ReleaseFails, InitRun
<1>3. ASSUME NEW s \in Slots, ExecutionStep(s) \/ BodyStep(s)
      PROVE  UNCHANGED accepted \/ accepted' = [accepted EXCEPT ![exec[s].run] = None]
  BY <1>3 DEF ExecutionStep, BodyStep, ExecBody, ExecRefused, ExecUnread, ExecSettled,
     TaskFinally, BodyReturns, BodyFails, ExecStep, ExecCatch
<1>4. ASSUME NEW g \in Registrations, PluginStep(g)
      PROVE  \/ UNCHANGED accepted
             \/ /\ RecoverContinue(g) /\ recovery[g].pc = "reading"
                /\ recovery[g].seen = "queued" /\ definitions[WorkflowOf[g]] = g
                /\ accepted' = [accepted EXCEPT ![recovery[g].id] = g]
             \/ accepted' = [accepted EXCEPT ![disposer[g].id] = None]
  BY <1>4 DEF PluginStep, RecoverContinue, RecoverResume, RecoverFails, DisposeAdmitted,
     DisposeContinue, DisposeResume, DisposeDrained, DisposeFails
<1>5. HostStep => UNCHANGED accepted \/ accepted' = [q \in Runs |-> None]
  BY DEF HostStep, DrainContinue, DrainFails, DrainFinally, StopAbort, StopTasks, StopEnd,
     InitDone, Boot, Fresh
<1>6. ASSUME Environment
      PROVE  UNCHANGED accepted \/ accepted' = [q \in Runs |-> None]
  <2>1. ASSUME NEW q \in Runs, NEW g \in Registrations, NEW at \in Schedules, Start(q, g, at)
        PROVE  UNCHANGED accepted
    BY <2>1 DEF Start
  <2>. QED BY <1>6, <2>1 DEF Environment, Cancel, Review, UserCommand, Register, Dispose,
              StopBegin, Crash, Fresh
<1>. QED BY <1>1, <1>2, <1>3, <1>4, <1>5, <1>6 DEF Next, Tick, Reads

LEMMA AcceptedStoredStep ==
    ASSUME EarlyInv, AcceptedStored, [Next]_vars
    PROVE  AcceptedStored'
<1>. SUFFICES ASSUME NEW r \in Runs, accepted'[r] # None
              PROVE  Stored(r)'
  BY DEF AcceptedStored, Stored
<1>1. TypeOK /\ HolderStored
  BY DEF EarlyInv
<1>2. Stored(r)
  BY <1>1, AcceptedSets DEF AcceptedStored, HolderStored, AdmissionContinue, Reads
<1>. QED BY <1>1, <1>2, StoredKept

LEMMA ExecStoredStep ==
    ASSUME EarlyInv, BoundInv, ExecStored, [Next]_vars
    PROVE  ExecStored'
<1>. SUFFICES ASSUME NEW s \in Slots, exec'[s].pc # "idle"
              PROVE  exec'[s].run \in Runs /\ run'[exec'[s].run].status # "absent"
  BY DEF ExecStored, Busy, Stored
<1>1. /\ TypeOK /\ DrainReady /\ exec \in [Slots -> ExecRecords]
  BY DEF EarlyInv, TypeOK, ExecutionOK
<1>2. ~Boot /\ ~Crash
  BY DEF Boot, Crash, Fresh, NoExec
<1>3. ASSUME exec[s].pc # "idle", exec'[s].run = exec[s].run
      PROVE  exec'[s].run \in Runs /\ run'[exec'[s].run].status # "absent"
  BY <1>1, <1>3, StoredKept DEF ExecStored, Busy, Stored
<1>4. CASE SameSlots
  BY <1>3, <1>4 DEF SameSlots
<1>5. ASSUME NEW t \in Slots, TaskFinally(t)
      PROVE  exec[s].pc # "idle" /\ exec'[s].run = exec[s].run
  BY <1>1, <1>5 DEF TaskFinally, NoExec
<1>6. CASE DrainContinue
  <2>1. UNCHANGED run
    BY <1>6 DEF DrainContinue, durable
  <2>2. \/ exec[s].pc # "idle" /\ exec'[s].run = exec[s].run
        \/ exec'[s].run = drain.id
    BY <1>1, <1>6 DEF DrainContinue, execution, Busy
  <2>3. drain.id \in Runs /\ Stored(drain.id)
    BY <1>1, <1>6 DEF DrainContinue, DrainReady, Ready
  <2>. QED BY <1>3, <2>1, <2>2, <2>3 DEF Stored
<1>. QED BY <1>2, <1>3, <1>4, <1>5, <1>6, SlotSteps

LEMMA AdmitsOwnStep ==
    ASSUME TypeOK, AdmitsOwn, [Next]_vars
    PROVE  AdmitsOwn'
<1>. SUFFICES ASSUME NEW r \in Runs, admission'[r].pc = "creating"
              PROVE  /\ admission'[r].reg \in Registrations
                     /\ Stored(r)' /\ run'[r].workflow = WorkflowOf[admission'[r].reg]
  BY DEF AdmitsOwn, Stored
<1>1. /\ admission \in [Runs -> AdmissionRecords]
      /\ \A q \in Runs : admission[q] \in AdmissionRecords
      /\ run \in [Runs -> RunRecords]
  BY DEF TypeOK, CallersOK, DurableOK
<1>2. CASE admission'[r] = admission[r]
  BY <1>2, StoredKept DEF AdmitsOwn, SameOrder
<1>3. ASSUME NEW q \in Runs, NEW g \in Registrations, NEW at \in Schedules, Start(q, g, at),
             admission'[r] # admission[r]
      PROVE  /\ admission'[r].reg \in Registrations
             /\ Stored(r)' /\ run'[r].workflow = WorkflowOf[admission'[r].reg]
  BY <1>1, <1>3 DEF Start, Stored
<1>4. ASSUME NEW q \in Runs, NEW pc \in {"done", "cancelling"},
             admission' = [admission EXCEPT ![q].pc = pc]
      PROVE  admission'[r] = admission[r]
  BY <1>1, <1>4 DEF AdmissionRecords
<1>. QED BY <1>2, <1>3, <1>4, AdmissionSteps

\* A run without a schedule never meets a timer, a release or a recovery.
LEMMA UntimedStep ==
    ASSUME TypeOK, AdmitsOwn, Untimed, Walks, [Next]_vars
    PROVE  Untimed'
<1>. SUFFICES ASSUME NEW r \in Runs, Prompt(r)'
              PROVE  /\ scheduledTimers'[r] = NoTimer /\ release'[r] = "none"
                     /\ r \notin recoverable'
                     /\ \A g \in Registrations : ~Reads(g, r)'
  BY DEF Untimed, Prompt, Stored, Scheduled, Reads
<1>1. Prompt(r)
  BY PromptKept
<1>2. /\ scheduledTimers[r] = NoTimer /\ release[r] = "none" /\ r \notin recoverable
      /\ \A g \in Registrations : ~Reads(g, r)
  BY <1>1 DEF Untimed
<1>3. ~ReleaseContinue(r) /\ ~TimerFires(r)
  BY <1>2 DEF ReleaseContinue, TimerFires
<1>4. \A g \in Registrations : ~(RecoverContinue(g) /\ recovery[g].id = r)
  BY <1>2 DEF RecoverContinue, Reads
<1>5. scheduledTimers'[r] = NoTimer
  <2>1. AdmissionContinue(r) => scheduledTimers'[r] = NoTimer
    <3>1. ASSUME AdmissionContinue(r) PROVE ~Scheduled(r)
      BY <1>1, <3>1 DEF AdmissionContinue, AdmitsOwn, Prompt
    <3>. QED BY <1>2, <3>1 DEF AdmissionContinue, EnqueueRun, schedule, TypeOK, ScheduleOK
  <2>. QED BY <1>2, <1>3, <1>4, <2>1, TimerSteps
<1>6. release'[r] = "none"
  BY <1>2, <1>3, ReleaseReads
<1>7. r \notin recoverable'
  <2>1. ~(InitRun(r) /\ r \in recoverable')
    BY <1>1, <1>2 DEF InitRun, Prompt, Stored
  <2>2. ASSUME NEW g \in Registrations, DisposeContinue(g), disposer[g].id = r,
               disposer[g].seen = "queued"
        PROVE  r \notin recoverable'
    <3>1. Stored(r)
      BY <2>2 DEF DisposeContinue, Walks
    <3>. QED BY <1>1, <1>2, <2>2, <3>1 DEF DisposeContinue, Prompt, schedule
  <2>. QED BY <1>2, <1>3, <2>1, <2>2, ParkSteps
<1>8. ASSUME NEW g \in Registrations PROVE ~Reads(g, r)'
  BY <1>2, RecoveryReads DEF Reads
<1>. QED BY <1>5, <1>6, <1>7, <1>8

-----------------------------------------------------------------------------
(* How a run gets into the queue, and from there to the pump's read         *)

Enqueues(r) ==
    \/ AdmissionContinue(r) \/ ReleaseContinue(r)
    \/ \E g \in Registrations : RecoverContinue(g) /\ Reads(g, r)

\* The read in flight stays, or is that of a run that has just left the queue.
Shifts(queue, acc) ==
    /\ Distinct(queuedIds') /\ \A r : InQueue(queuedIds', r) => InQueue(queue, r)
    /\ drain'.pc = "reading" =>
          \/ drain' = drain
          \/ /\ InQueue(queue, drain'.id) /\ ~InQueue(queuedIds', drain'.id)
             /\ drain'.reg = acc[drain'.id]

LEMMA DrainLoopShifts ==
    ASSUME NEW queue \in Seq(Runs), Distinct(queue), NEW acc, NEW active,
           NEW otherwise \in {"idle", "exiting"}, DispatchOK',
           DrainLoop(queue, acc, active, otherwise)
    PROVE  /\ Shifts(queue, acc)
           /\ drain'.pc = "reading" =>
                 /\ InQueue(queue, drain'.id) /\ ~InQueue(queuedIds', drain'.id)
                 /\ drain'.reg = acc[drain'.id]
<1>1. QueueOnce' /\ \A r : Pumped(r)' => InQueue(queue, r)
  BY DrainLoopOnce
<1>2. \A r : Queued(r)' <=> InQueue(queuedIds', r)
  BY DEF Queued, InQueue, DispatchOK
<1>3. drain'.pc = "reading" => drain'.reg = acc[drain'.id]
  BY DEF DrainLoop, NoRead
<1>. QED BY <1>1, <1>2, <1>3 DEF QueueOnce, Pumped, Shifts

LEMMA PumpShifts ==
    ASSUME NEW queue \in Seq(Runs), Distinct(queue), NEW acc, NEW active, DispatchOK',
           Pump(queue, acc, active)
    PROVE  Shifts(queue, acc)
<1>1. CASE drain.pc = "idle"
  BY <1>1, DrainLoopShifts DEF Pump
<1>2. CASE drain.pc # "idle"
  BY <1>2 DEF Pump, Shifts
<1>. QED BY <1>1, <1>2

\* What a step may do to the queue and to the pump's read.
Flows ==
    /\ Distinct(queuedIds')
    /\ \A r \in Runs : Queued(r)' => Queued(r) \/ Enqueues(r)
    /\ \A r \in Runs : drain'.pc = "reading" /\ drain'.id = r =>
          \/ drain' = drain /\ ~DrainContinue
          \/ (Queued(r) \/ Enqueues(r)) /\ ~Queued(r)' /\ drain'.reg = accepted'[r]

\* The queue that enqueueRun hands to the pump.
LEMMA AppendedQueue ==
    ASSUME DispatchOK, Distinct(queuedIds), NEW r \in Runs
    PROVE  LET queue == IF Queued(r) THEN queuedIds ELSE Append(queuedIds, r)
           IN  /\ queue \in Seq(Runs) /\ Distinct(queue)
               /\ \A q : InQueue(queue, q) => Queued(q) \/ q = r
<1>1. queuedIds \in Seq(Runs) /\ \A q : Queued(q) <=> InQueue(queuedIds, q)
  BY QueuedIn DEF DispatchOK
<1>2. CASE Queued(r)
  BY <1>1, <1>2
<1>3. CASE ~Queued(r)
  <2>1. /\ Append(queuedIds, r) \in Seq(Runs)
        /\ Len(queuedIds) \in Nat /\ Len(Append(queuedIds, r)) = Len(queuedIds) + 1
        /\ \A i \in 1 .. Len(queuedIds) : Append(queuedIds, r)[i] = queuedIds[i]
        /\ Append(queuedIds, r)[Len(queuedIds) + 1] = r
        /\ \A i \in 1 .. Len(Append(queuedIds, r)) :
              i \in 1 .. Len(queuedIds) \/ i = Len(queuedIds) + 1
    BY <1>1, ChainAppend
  <2>2. \A i \in 1 .. Len(queuedIds) : queuedIds[i] # r
    BY <1>1, <1>3 DEF InQueue
  <2>3. Distinct(Append(queuedIds, r))
    BY <2>1, <2>2 DEF Distinct
  <2>4. \A q : InQueue(Append(queuedIds, r), q) => InQueue(queuedIds, q) \/ q = r
    BY <2>1 DEF InQueue
  <2>. QED BY <1>1, <1>3, <2>1, <2>3, <2>4
<1>. QED BY <1>2, <1>3

\* enqueueRun adds its run, if it is not there yet.
LEMMA EnqueueRunShifts ==
    ASSUME DispatchOK, Distinct(queuedIds), NEW r \in Runs, NEW acc, DispatchOK',
           EnqueueRun(r, acc)
    PROVE  \E queue : /\ Shifts(queue, acc)
                      /\ \A q : InQueue(queue, q) => Queued(q) \/ q = r
<1>. DEFINE queue == IF Queued(r) THEN queuedIds ELSE Append(queuedIds, r)
<1>1. /\ queue \in Seq(Runs) /\ Distinct(queue)
      /\ \A q : InQueue(queue, q) => Queued(q) \/ q = r
  BY AppendedQueue
<1>2. Pump(queue, acc, activeCount)
  BY DEF EnqueueRun
<1>. HIDE DEF queue
<1>3. Shifts(queue, acc)
  BY <1>1, <1>2, PumpShifts
<1>. QED BY <1>1, <1>3

LEMMA FlowStep ==
    ASSUME TypeOK, Distinct(queuedIds), [Next]_vars
    PROVE  Flows
<1>1. /\ TypeOK' /\ DispatchOK /\ DispatchOK' /\ queuedIds \in Seq(Runs)
      /\ \A r : Queued(r) <=> InQueue(queuedIds, r)
  <2>1. TypeOK'
    BY TypeStep
  <2>. QED BY <2>1, QueuedIn DEF TypeOK, DispatchOK
<1>2. \A r : Queued(r)' <=> InQueue(queuedIds', r)
  BY <1>1 DEF Queued, InQueue, DispatchOK
<1>3. ASSUME UNCHANGED dispatch, ~DrainContinue PROVE Flows
  BY <1>1, <1>2, <1>3 DEF dispatch, Flows
<1>4. ASSUME NEW queue, Shifts(queue, accepted'), ~DrainContinue,
             \A r \in Runs : InQueue(queue, r) => Queued(r) \/ Enqueues(r)
      PROVE  Flows
  BY <1>1, <1>2, <1>4 DEF Flows, Shifts
<1>5. ASSUME NEW r \in Runs, Enqueues(r), ~DrainContinue, EnqueueRun(r, accepted')
      PROVE  Flows
  <2>1. PICK queue : /\ Shifts(queue, accepted')
                     /\ \A q : InQueue(queue, q) => Queued(q) \/ q = r
    BY <1>1, <1>5, EnqueueRunShifts
  <2>. QED BY <1>4, <1>5, <2>1
<1>6. ASSUME NEW r \in Runs, NEW rec, Enqueues(r), ~DrainContinue,
             ArmScheduledRun(r, accepted', rec)
      PROVE  Flows
  BY <1>3, <1>5, <1>6 DEF ArmScheduledRun
<1>7. ASSUME DrainContinue PROVE Flows
  <2>1. /\ accepted' = accepted
        /\ \E active : DrainLoop(queuedIds, accepted', active, "exiting")
    BY <1>7 DEF DrainContinue
  <2>2. PICK active : DrainLoop(queuedIds, accepted', active, "exiting")
    BY <2>1
  <2>3. /\ Shifts(queuedIds, accepted')
        /\ drain'.pc = "reading" =>
              /\ InQueue(queuedIds, drain'.id) /\ ~InQueue(queuedIds', drain'.id)
              /\ drain'.reg = accepted'[drain'.id]
    BY <1>1, <2>2, DrainLoopShifts
  <2>. QED BY <1>1, <1>2, <2>3 DEF Flows, Shifts
<1>8. ASSUME NEW r \in Runs, queuedIds' = RemoveQueuedId(r), drain' = drain, ~DrainContinue
      PROVE  Flows
  <2>1. Distinct(queuedIds') /\ \A q : Queued(q)' => Queued(q)
    BY <1>1, <1>8, RemoveQueuedIdLess
  <2>. QED BY <1>8, <2>1 DEF Flows
<1>9. ASSUME ~DrainContinue PROVE Flows
  <2>1. ASSUME NEW r \in Runs, AdmissionContinue(r) PROVE Flows
    <3>1. \/ UNCHANGED dispatch \/ EnqueueRun(r, accepted')
          \/ ArmScheduledRun(r, accepted', recoverable)
      BY <2>1 DEF AdmissionContinue
    <3>. QED BY <1>3, <1>5, <1>6, <1>9, <2>1, <3>1 DEF Enqueues
  <2>2. ASSUME NEW r \in Runs, ReleaseContinue(r) PROVE Flows
    <3>1. \/ UNCHANGED dispatch
          \/ accepted' = accepted /\ ArmScheduledRun(r, accepted, recoverable)
      BY <2>2 DEF ReleaseContinue
    <3>. QED BY <1>3, <1>6, <1>9, <2>2, <3>1 DEF Enqueues
  <2>3. ASSUME NEW r \in Runs, NEW c \in Callers, CancelContinue(r, c) PROVE Flows
    BY <1>8, <1>9, <2>3 DEF CancelContinue
  <2>4. ASSUME NEW s \in Slots, TaskFinally(s) PROVE Flows
    <3>1. Pump(queuedIds, accepted', activeCount - 1)
      BY <2>4 DEF TaskFinally
    <3>2. Shifts(queuedIds, accepted')
      BY <1>1, <3>1, PumpShifts
    <3>. QED BY <1>1, <1>4, <1>9, <3>2
  <2>5. ASSUME NEW g \in Registrations, RecoverContinue(g) PROVE Flows
    <3>1. PICK r : r = recovery[g].id
      OBVIOUS
    <3>2. r \in Runs /\ Reads(g, r)
      BY <2>5, <3>1 DEF RecoverContinue, Reads, TypeOK, ReadingOK
    <3>3. UNCHANGED dispatch \/ ArmScheduledRun(r, accepted', recoverable \ {r})
      BY <2>5, <3>1 DEF RecoverContinue
    <3>. QED BY <1>3, <1>6, <1>9, <2>5, <3>2, <3>3 DEF Enqueues
  <2>6. ASSUME NEW g \in Registrations, DisposeContinue(g) PROVE Flows
    <3>1. disposer[g].id \in Runs
      BY <2>6 DEF DisposeContinue, TypeOK, ReadingOK
    <3>2. /\ drain' = drain
          /\ queuedIds' = queuedIds \/ queuedIds' = RemoveQueuedId(disposer[g].id)
      BY <2>6 DEF DisposeContinue
    <3>. QED BY <1>3, <1>8, <1>9, <3>1, <3>2 DEF dispatch
  <2>7. CASE DrainFinally \/ InitDone
    <3>1. /\ accepted' = accepted
          /\ \/ DrainLoop(queuedIds, accepted, activeCount, "idle")
             \/ Pump(queuedIds, accepted, activeCount)
      BY <2>7 DEF DrainFinally, InitDone
    <3>2. Shifts(queuedIds, accepted')
      BY <1>1, <3>1, PumpShifts, DrainLoopShifts
    <3>. QED BY <1>1, <1>4, <1>9, <3>2
  <2>8. CASE DrainFails
    BY <1>1, <1>2, <2>8 DEF DrainFails, NoRead, Flows
  <2>9. CASE Boot \/ Crash
    BY <2>9 DEF Boot, Crash, Fresh, NoRead, Flows, Distinct, Queued
  <2>. QED BY <1>3, <1>9, <2>1, <2>2, <2>3, <2>4, <2>5, <2>6, <2>7, <2>8, <2>9, DispatchSteps
<1>. QED BY <1>7, <1>9

\* A run without a schedule enters the queue when it is admitted, and only then.
LEMMA PromptEnqueues ==
    ASSUME Untimed, NEW r \in Runs, Prompt(r), Enqueues(r)
    PROVE  AdmissionContinue(r)
BY DEF Untimed, Enqueues, ReleaseContinue

-----------------------------------------------------------------------------
(* One queue entry, one read or one execution of such a run                 *)

\* Where an execution of a run comes from.
LEMMA ExecutedFrom ==
    ASSUME BoundInv, [Next]_vars, NEW s \in Slots, exec'[s].pc # "idle"
    PROVE  \/ /\ exec[s].pc # "idle" /\ exec'[s].run = exec[s].run
              /\ exec'[s].reg = exec[s].reg
           \/ /\ DrainContinue /\ drain.pc = "reading" /\ tasks' = [tasks EXCEPT ![drain.id] = s]
              /\ exec'[s].pc = "starting" /\ exec'[s].run = drain.id
              /\ exec'[s].reg = drain.reg
<1>1. exec \in [Slots -> ExecRecords]
  BY DEF BoundInv, TypeOK, ExecutionOK
<1>2. CASE DrainContinue
  BY <1>1, <1>2 DEF DrainContinue, execution, Busy
<1>3. ASSUME NEW t \in Slots, TaskFinally(t)
      PROVE  exec[s].pc # "idle" /\ exec'[s] = exec[s]
  BY <1>1, <1>3 DEF TaskFinally, NoExec
<1>4. ~Boot /\ ~Crash
  BY DEF Boot, Crash, Fresh, NoExec
<1>. QED BY <1>2, <1>3, <1>4, SlotSteps DEF SameSlots

\* The task that ends is not that of another execution of its run.
LEMMA PromptExecution ==
    ASSUME BoundInv, Sole, [Next]_vars, NEW r \in Runs, Prompt(r), NEW s \in Slots,
           exec'[s].pc # "idle", exec'[s].run = r
    PROVE  \/ /\ exec[s].pc # "idle" /\ exec[s].run = r /\ exec'[s].reg = exec[s].reg
              /\ tasks[r] = s /\ tasks'[r] = s
              /\ ~(DrainContinue /\ drain.id = r)
              /\ \A t \in Slots : TaskFinally(t) => exec[t].run # r
           \/ /\ DrainContinue /\ drain.pc = "reading" /\ drain.id = r /\ tasks'[r] = s
              /\ exec'[s].pc = "starting" /\ exec'[s].reg = drain.reg
<1>1. tasks \in [Runs -> Slots \cup {None}] /\ exec \in [Slots -> ExecRecords]
  BY DEF BoundInv, TypeOK, ExecutionOK
<1>2. ASSUME exec[s].pc # "idle", exec[s].run = r
      PROVE  /\ tasks[r] = s /\ tasks'[r] = s
             /\ ~(DrainContinue /\ drain.id = r)
             /\ \A t \in Slots : TaskFinally(t) => exec[t].run # r
  <2>1. /\ Executed(r) /\ drain.id # r /\ s \in Busy /\ tasks[r] = s
        /\ \A t \in Busy : exec[t].run = r => t = s
    BY <1>2 DEF Sole, Executed, Busy
  <2>2. ASSUME NEW t \in Slots, TaskFinally(t)
        PROVE  exec[t].run # r /\ tasks'[r] = tasks[r]
    <3>1. t \in Busy /\ t # s
      BY <1>1, <2>2 DEF TaskFinally, Busy, NoExec
    <3>. QED BY <1>1, <2>1, <2>2, <3>1 DEF TaskFinally
  <2>3. DrainContinue => tasks'[r] = tasks[r]
    BY <1>1, <2>1 DEF DrainContinue, execution
  <2>4. ~Boot /\ ~Crash
    BY DEF Boot, Crash, Fresh, NoExec
  <2>5. tasks'[r] = tasks[r]
    BY <2>2, <2>3, <2>4, TaskSteps
  <2>. QED BY <2>1, <2>2, <2>5
<1>3. CASE exec[s].pc # "idle" /\ exec[s].run = r /\ exec'[s].reg = exec[s].reg
  BY <1>2, <1>3
<1>4. CASE /\ DrainContinue /\ drain.pc = "reading" /\ drain.id = r
           /\ tasks' = [tasks EXCEPT ![drain.id] = s]
           /\ exec'[s].pc = "starting" /\ exec'[s].reg = drain.reg
  BY <1>1, <1>4
<1>. QED BY <1>3, <1>4, ExecutedFrom

\* What is not created yet is not in the pump's hands.
LEMMA AbsentIdle ==
    ASSUME EarlyInv, ExecStored, NEW r \in Runs, ~Stored(r)
    PROVE  ~Pumped(r) /\ ~Executed(r)
BY QueuedIn DEF EarlyInv, QueueReady, AllReady, DrainReady, Ready, ExecStored, Pumped, Executed,
   InQueue, TypeOK

LEMMA SoleStep ==
    ASSUME EarlyInv, BoundInv, DrainIdle, ExecStored, Untimed, Sole, [Next]_vars
    PROVE  Sole'
<1>1. TypeOK /\ Distinct(queuedIds) /\ DrainIdle'
  BY DrainIdleStep DEF BoundInv, Sole
<1>2. Flows
  BY <1>1, FlowStep
<1>3. ASSUME NEW r \in Runs, Prompt(r)'
      PROVE  /\ Admitted(r)' => ~Pumped(r)' /\ ~Executed(r)'
             /\ Queued(r)' => drain'.id # r /\ ~Executed(r)'
             /\ drain'.id = r => ~Executed(r)'
             /\ \A s \in Busy' : exec'[s].run = r => tasks'[r] = s
  <2>1. Prompt(r)
    BY <1>1, <1>3, PromptKept
  <2>2. /\ Admitted(r) => ~Pumped(r) /\ ~Executed(r)
        /\ Queued(r) => drain.id # r /\ ~Executed(r)
        /\ drain.id = r => ~Executed(r)
    BY <2>1 DEF Sole
  <2>3. Enqueues(r) => AdmissionContinue(r) /\ Admitted(r)
    BY <2>1, PromptEnqueues DEF AdmissionContinue, Admitted
  <2>4. Executed(r)' => Executed(r) \/ (DrainContinue /\ drain.pc = "reading" /\ drain.id = r)
    BY <2>1, PromptExecution DEF Executed, Busy
  <2>5. drain'.id = r => drain'.pc = "reading"
    BY <1>1, RuntimeConstants DEF DrainIdle
  <2>6. drain'.id = r =>
           \/ drain' = drain /\ drain.pc = "reading" /\ drain.id = r /\ ~DrainContinue
           \/ (Queued(r) \/ Enqueues(r)) /\ ~Queued(r)'
    BY <1>2, <2>5 DEF Flows
  <2>7. Queued(r)' => Queued(r) \/ Enqueues(r)
    BY <1>2 DEF Flows
  <2>8. Queued(r) \/ Enqueues(r) => drain.id # r /\ ~Executed(r) /\ ~Executed(r)'
    <3>1. drain.id = r => drain.pc = "reading"
      BY RuntimeConstants DEF DrainIdle
    <3>. QED BY <2>2, <2>3, <2>4, <3>1 DEF Pumped
  <2>9. Queued(r)' => drain'.id # r /\ ~Executed(r)'
    BY <2>2, <2>6, <2>7, <2>8
  <2>10. drain'.id = r => ~Executed(r)'
    BY <2>2, <2>4, <2>6, <2>8
  <2>11. ASSUME Admitted(r)' PROVE ~Pumped(r)' /\ ~Executed(r)'
    <3>1. CASE \E g \in Registrations, at \in Schedules : Start(r, g, at)
      <4>1. ~Pumped(r) /\ ~Executed(r) /\ UNCHANGED <<queuedIds, drain, exec>>
        BY <3>1, AbsentIdle DEF Start, Stored, dispatch, execution
      <4>. QED BY <4>1 DEF Pumped, Queued, Executed, Busy
    <3>2. CASE Admitted(r) /\ AdmissionContinue(r)
      <4>1. UNCHANGED <<queuedIds, drain, exec>>
        BY <1>1, <2>11, <3>2 DEF AdmissionContinue, Admitted, TypeOK, CallersOK, AdmissionRecords,
           dispatch, execution
      <4>. QED BY <2>2, <3>2, <4>1 DEF Pumped, Queued, Executed, Busy
    <3>3. CASE Admitted(r) /\ ~AdmissionContinue(r)
      BY <2>2, <2>3, <2>4, <2>6, <2>7, <3>3 DEF Pumped
    <3>4. Admitted(r) \/ \E g \in Registrations, at \in Schedules : Start(r, g, at)
      BY <1>1, <2>11, AdmissionBegins DEF Admitted
    <3>. QED BY <3>1, <3>2, <3>3, <3>4
  <2>12. \A s \in Busy' : exec'[s].run = r => tasks'[r] = s
    BY <2>1, PromptExecution DEF Busy
  <2>. QED BY <2>9, <2>10, <2>11, <2>12
<1>. QED BY <1>2, <1>3 DEF Sole, Flows, Prompt, Stored, Scheduled, Admitted, Pumped, Executed,
         Queued, Busy

-----------------------------------------------------------------------------
(* The pump's read and the executions of such a run use the registration    *)
(* that it is accepted for.                                                  *)

\* What changes the registration of a run without a schedule.
LEMMA PromptAccepted ==
    ASSUME TypeOK, CancelsSaved, Untimed, Walks, [Next]_vars, NEW r \in Runs, Prompt(r),
           accepted'[r] # accepted[r]
    PROVE  \/ AdmissionContinue(r) /\ Admitted(r)
           \/ tasks[r] = None /\ run[r].status \in Terminal
           \/ \E s \in Slots : TaskFinally(s) /\ exec[s].run = r
           \/ Boot \/ Crash
<1>1. accepted \in [Runs -> RegOrNone]
  BY DEF TypeOK, AcceptedOK
<1>2. AdmissionContinue(r) => Admitted(r)
  BY DEF AdmissionContinue, Admitted
<1>3. ~ReleaseContinue(r) /\ \A g \in Registrations : ~Reads(g, r)
  BY DEF Untimed, ReleaseContinue
<1>4. ASSUME NEW c \in Callers, CancelContinue(r, c)
      PROVE  tasks[r] = None /\ run[r].status \in Terminal
  BY <1>4 DEF CancelContinue, CancelsSaved
<1>5. ASSUME NEW g \in Registrations, DisposeContinue(g)
      PROVE  FALSE
  <2>1. /\ disposer[g].id = r /\ disposer[g].pc = "reading" /\ Scheduled(r)
    BY <1>1, <1>5 DEF DisposeContinue
  <2>2. Stored(r)
    BY <2>1 DEF Walks
  <2>. QED BY <2>1, <2>2 DEF Prompt
<1>6. CASE accepted'[r] # None
  BY <1>2, <1>3, <1>6, AcceptedSets
<1>7. CASE accepted'[r] = None
  BY <1>2, <1>3, <1>4, <1>5, <1>7, AcceptedSteps
<1>. QED BY <1>6, <1>7

BodyPcs == {"started", "body", "reviewing"}

\* An execution reaches its body from its start.
LEMMA BodyFrom ==
    ASSUME BoundInv, [Next]_vars, NEW s \in Slots, exec[s].pc # "idle",
           exec'[s].pc \in BodyPcs \cup {"starting"}
    PROVE  exec[s].pc = "starting" \/ (exec[s].pc \in BodyPcs /\ exec'[s].pc \in BodyPcs)
<1>1. /\ TypeOK /\ exec \in [Slots -> ExecRecords] /\ \A t \in Slots : exec[t] \in ExecRecords
      /\ mutations \in [Runs -> Seq(Mutations)]
  BY DEF BoundInv, TypeOK, ExecutionOK, MutationsOK
<1>. USE DEF BodyPcs
<1>2. ASSUME NEW q \in Runs, CommitExecution(q)
      PROVE  exec[s].pc = "starting" \/ (exec[s].pc \in BodyPcs /\ exec'[s].pc \in BodyPcs)
  <2>1. PICK m : m = Head(mutations[q])
    OBVIOUS
  <2>2. mutations[q] # << >> /\ m.kind \in ExecutionKinds
    BY <1>2, <2>1 DEF CommitExecution, Committing
  <2>3. m = mutations[q][1] /\ 1 \in 1 .. Len(mutations[q])
    BY <1>1, <2>1, <2>2, ChainEntries
  <2>4. exec[m.by].pc = Awaits(m.kind)
    BY <2>2, <2>3 DEF BoundInv, UpdateAwaited
  <2>5. PICK ok \in BOOLEAN : exec' = [exec EXCEPT ![m.by].pc = Told(m.kind, ok)]
    BY <1>2, <2>1 DEF CommitExecution
  <2>6. CASE m.by = s
    <3>1. exec'[s].pc = Told(m.kind, ok)
      BY <1>1, <2>5, <2>6
    <3>2. m.kind = "start"
      BY <3>1 DEF Told
    <3>. QED BY <2>4, <2>6, <3>2 DEF Awaits
  <2>7. CASE m.by # s
    BY <1>1, <2>5, <2>7
  <2>. QED BY <2>6, <2>7
<1>3. ASSUME NEW t \in Slots, ExecutionStep(t) \/ BodyStep(t)
      PROVE  exec[s].pc = "starting" \/ (exec[s].pc \in BodyPcs /\ exec'[s].pc \in BodyPcs)
  <2>1. \/ \E pc : exec' = [exec EXCEPT ![t].pc = pc] /\ pc = "closing"
        \/ \E pc : /\ exec' = [exec EXCEPT ![t].pc = pc] /\ pc \in {"body", "reviewing"}
                   /\ exec[t].pc \in {"started", "body"}
        \/ exec' = [exec EXCEPT ![t].pc = "failing", ![t].aborted = TRUE]
        \/ exec' = [exec EXCEPT ![t] = NoExec]
    BY <1>3 DEF ExecutionStep, BodyStep, ExecBody, ExecRefused, ExecUnread, ExecSettled,
       TaskFinally, BodyReturns, BodyFails, ExecStep, ExecCatch
  <2>2. CASE t # s
    <3>1. exec'[s] = exec[s]
      BY <1>1, <2>1, <2>2
    <3>. QED BY <3>1
  <2>3. CASE t = s
    BY <1>1, <2>1, <2>3 DEF NoExec, ExecRecords
  <2>. QED BY <2>2, <2>3
<1>4. CASE DrainContinue
  <2>1. exec'[s] = exec[s]
    BY <1>1, <1>4 DEF DrainContinue, execution, Busy
  <2>. QED BY <2>1
<1>5. ~Restarts
  BY DEF Restarts, NoExec
<1>6. SamePc => exec'[s].pc = exec[s].pc
  BY DEF SamePc
<1>. QED BY <1>1, <1>2, <1>3, <1>4, <1>5, <1>6, ExecutionSteps

\* What starts is the queued run of the execution.
LEMMA StartCommits ==
    ASSUME BoundInv, UpdateOwn, [Next]_vars, NEW s \in Slots, exec[s].pc = "starting",
           exec'[s].pc \in BodyPcs
    PROVE  run[exec[s].run].status = "queued"
<1>1. /\ TypeOK /\ exec \in [Slots -> ExecRecords]
      /\ mutations \in [Runs -> Seq(Mutations)]
  BY DEF BoundInv, TypeOK, ExecutionOK, MutationsOK
<1>2. PICK q \in Runs : CommitExecution(q) /\ Head(mutations[q]).by = s
  BY StartLeaves DEF BodyPcs
<1>3. PICK m : m = Head(mutations[q])
  OBVIOUS
<1>4. mutations[q] # << >> /\ m.kind \in ExecutionKinds /\ m.by = s
  BY <1>2, <1>3 DEF CommitExecution, Committing
<1>5. m = mutations[q][1] /\ 1 \in 1 .. Len(mutations[q])
  BY <1>1, <1>3, <1>4, ChainEntries
<1>6. m.kind = "start"
  BY <1>4, <1>5 DEF BoundInv, UpdateAwaited, Awaits
<1>7. q = exec[s].run
  BY <1>4, <1>5 DEF UpdateOwn
<1>8. PICK ok \in BOOLEAN : /\ Committing(q, ok)
                            /\ exec' = [exec EXCEPT ![m.by].pc = Told(m.kind, ok)]
  BY <1>2, <1>3 DEF CommitExecution
<1>9. exec'[s].pc = Told("start", ok)
  BY <1>1, <1>4, <1>6, <1>8
<1>10. ok
  BY <1>9 DEF Told, BodyPcs
<1>11. Accepts("start", run[q].status)
  BY <1>3, <1>6, <1>8, <1>10 DEF Committing
<1>. QED BY <1>7, <1>11 DEF Accepts

\* An execution under way has not been overtaken by a cancellation before its start.
LEMMA UnderwayFrom ==
    ASSUME BoundInv, UpdateOwn, ExecStored, [Next]_vars, NEW s \in Slots, exec[s].pc # "idle",
           exec'[s].run = exec[s].run, Underway(s)'
    PROVE  Underway(s)
<1>1. TypeOK /\ exec[s].run \in Runs /\ Stored(exec[s].run)
  BY DEF BoundInv, ExecStored, Busy
<1>2. CASE exec'[s].pc \in BodyPcs
  BY <1>2, BodyFrom, StartCommits DEF BodyPcs, Underway
<1>3. CASE exec'[s].pc = "starting" /\ run'[exec'[s].run].status = "queued"
  <2>1. run[exec[s].run].status = "queued"
    BY <1>1, <1>3, QueuedFrom DEF Start, Stored
  <2>2. exec[s].pc = "starting"
    BY <1>3, BodyFrom DEF BodyPcs
  <2>. QED BY <2>1, <2>2 DEF Underway
<1>. QED BY <1>2, <1>3 DEF Underway, BodyPcs

LEMMA FollowsStep ==
    ASSUME EarlyInv, SavedInv, DrainIdle, UpdateOwn, ExecStored, Untimed, Sole, Follows, Walks,
           [Next]_vars
    PROVE  Follows'
<1>1. TypeOK /\ BoundInv /\ CancelsSaved /\ DrainReady /\ Distinct(queuedIds)
  BY DEF EarlyInv, SavedInv, Sole
<1>2. Flows
  BY <1>1, FlowStep
<1>3. ASSUME NEW r \in Runs, Prompt(r)', run'[r].status = "queued", drain'.pc = "reading",
             drain'.id = r
      PROVE  drain'.reg = accepted'[r]
  <2>1. Prompt(r)
    BY <1>1, <1>3, PromptKept
  <2>2. CASE drain' = drain
    <3>1. Stored(r) /\ Pumped(r) /\ ~Admitted(r) /\ ~Executed(r)
      BY <1>1, <1>3, <2>1, <2>2 DEF DrainReady, Ready, Pumped, Sole
    <3>2. run[r].status = "queued"
      BY <1>1, <1>3, <3>1, QueuedFrom DEF Start, Stored
    <3>3. \A s \in Slots : TaskFinally(s) => exec[s].run # r
      BY <3>1 DEF TaskFinally, Executed, Busy
    <3>4. ~Boot /\ ~Crash
      BY <1>3 DEF Boot, Crash, Fresh, NoRead
    <3>5. accepted'[r] = accepted[r]
      BY <1>1, <2>1, <3>1, <3>2, <3>3, <3>4, PromptAccepted DEF Terminal
    <3>. QED BY <1>3, <2>1, <2>2, <3>2, <3>5 DEF Follows
  <2>. QED BY <1>2, <1>3, <2>2 DEF Flows
<1>4. ASSUME NEW r \in Runs, Prompt(r)', NEW s \in Slots, exec'[s].run = r, Underway(s)'
      PROVE  exec'[s].reg = accepted'[r]
  <2>1. Prompt(r)
    BY <1>1, <1>4, PromptKept
  <2>2. exec'[s].pc # "idle"
    BY <1>4 DEF Underway
  <2>3. CASE /\ exec[s].pc # "idle" /\ exec[s].run = r /\ exec'[s].reg = exec[s].reg
             /\ tasks[r] = s /\ \A t \in Slots : TaskFinally(t) => exec[t].run # r
    <3>1. exec[s].reg = accepted[r]
      BY <1>1, <1>4, <2>1, <2>3, UnderwayFrom DEF Follows
    <3>2. Executed(r) /\ ~Admitted(r) /\ tasks[r] # None
      BY <2>1, <2>3, RuntimeConstants DEF Executed, Busy, Sole
    <3>3. ~Boot /\ ~Crash
      BY <2>2 DEF Boot, Crash, Fresh, NoExec
    <3>4. accepted'[r] = accepted[r]
      BY <1>1, <2>1, <2>3, <3>2, <3>3, PromptAccepted
    <3>. QED BY <2>3, <3>1, <3>4
  <2>4. CASE /\ DrainContinue /\ drain.pc = "reading" /\ drain.id = r
             /\ exec'[s].pc = "starting" /\ exec'[s].reg = drain.reg
    <3>1. run' = run /\ accepted' = accepted
      BY <2>4 DEF DrainContinue, durable
    <3>2. run[r].status = "queued"
      BY <1>4, <2>4, <3>1 DEF Underway
    <3>. QED BY <2>1, <2>4, <3>1, <3>2 DEF Follows
  <2>. QED BY <1>1, <1>4, <2>1, <2>2, <2>3, <2>4, PromptExecution
<1>. QED BY <1>3, <1>4 DEF Follows, Prompt, Stored, Scheduled, Underway

-----------------------------------------------------------------------------
(* What a step does to a disposer                                           *)

AcceptedFor(g) == {r \in Runs : accepted[r] = g}

SamePlan(g) ==
    /\ disposer'[g].ids = disposer[g].ids /\ disposer'[g].todo = disposer[g].todo
    /\ disposer'[g].id = disposer[g].id /\ disposer'[g].seen = disposer[g].seen

\* The disposer reads its next run, or has walked them all.
Turns(g, ids, todo) ==
    \/ \E r \in todo :
          /\ disposer'[g].pc = "reading" /\ disposer'[g].ids = ids
          /\ disposer'[g].todo = todo \ {r} /\ disposer'[g].id = r
          /\ disposer'[g].seen = run[r].status
    \/ todo = {} /\ disposer'[g].pc = "draining" /\ disposer'[g].slots = TasksOf(ids)

\* It walks on after a run that it need not cancel, or has cancelled.
WalksOn(g) ==
    /\ \/ DisposeContinue(g) /\ ~(disposer[g].seen = "queued" /\ ~Scheduled(disposer[g].id))
       \/ DisposeResume(g)
    /\ Turns(g, disposer[g].ids, disposer[g].todo)

DisposerMoves(g) ==
    \/ disposer'[g] = disposer[g]
    \/ /\ SamePlan(g) /\ disposer'[g].pc = disposer[g].pc
       /\ \E s \in Slots : TaskFinally(s) /\ disposer'[g].slots = disposer[g].slots \ {s}
    \/ Register(g) /\ disposer'[g].pc = "registered"
    \/ Dispose(g) /\ disposer'[g].pc = "admissions"
    \/ DisposeAdmitted(g) /\ Turns(g, AcceptedFor(g), AcceptedFor(g))
    \/ /\ DisposeContinue(g) /\ SamePlan(g) /\ disposer'[g].pc = "cancelling"
       /\ Mutate(disposer[g].id, "cancel", g)
    \/ WalksOn(g)
    \/ \E q \in Runs :
          /\ CommitCancel(q) /\ Head(mutations[q]).by = g /\ disposer'[g].pc = "rejected"
    \/ \E q \in Runs :
          /\ CancelContinue(q, g) /\ SamePlan(g) /\ disposer'[g].pc = "next"
    \/ DisposeFails(g) /\ disposer'[g].pc = "rejected"
    \/ DisposeDrained(g) /\ disposer'[g].pc = "disposed" /\ disposer'[g].slots = {}
    \/ (Boot \/ Crash) /\ disposer'[g].pc = "none"

LEMMA DisposerMovesStep ==
    ASSUME TypeOK, [Next]_vars, NEW g \in Registrations
    PROVE  DisposerMoves(g)
<1>. USE DEF vars, beyondPlugins, beyondHost, plugins
<1>1. /\ disposer \in [Registrations -> DisposerRecords]
      /\ \A h \in Registrations : disposer[h] \in DisposerRecords
  BY DEF TypeOK, PluginsOK
<1>2. ASSUME disposer'[g] = disposer[g] PROVE DisposerMoves(g)
  BY <1>2 DEF DisposerMoves
<1>3. ASSUME NEW h, NEW pc, disposer' = [disposer EXCEPT ![h].pc = pc]
      PROVE  \/ h # g /\ disposer'[g] = disposer[g]
             \/ /\ h = g /\ SamePlan(g) /\ disposer'[g].pc = pc
                /\ disposer'[g].slots = disposer[g].slots
  BY <1>1, <1>3 DEF DisposerRecords, SamePlan
<1>4. ASSUME NEW h \in Registrations, NEW ids, NEW todo, DisposeNext(h, ids, todo)
      PROVE  \/ h # g /\ disposer'[g] = disposer[g]
             \/ h = g /\ Turns(g, ids, todo)
  <2>1. CASE h # g
    BY <1>1, <1>4, <2>1 DEF DisposeNext
  <2>2. CASE h = g
    <3>1. \/ \E r \in todo : disposer'[g] =
                [disposer[g] EXCEPT !.pc = "reading", !.ids = ids, !.todo = todo \ {r},
                                    !.id = r, !.seen = run[r].status]
          \/ /\ todo = {}
             /\ disposer'[g] = [disposer[g] EXCEPT !.pc = "draining", !.ids = {}, !.todo = {},
                                    !.id = None, !.seen = "absent", !.slots = TasksOf(ids)]
      BY <1>1, <1>4, <2>2 DEF DisposeNext
    <3>. QED BY <1>1, <2>2, <3>1 DEF DisposerRecords, Turns
  <2>. QED BY <2>1, <2>2
<1>5. ASSUME NEW r \in Runs, RunStep(r) PROVE DisposerMoves(g)
  <2>1. \/ UNCHANGED disposer
        \/ \E h : /\ CommitCancel(r) /\ h = Head(mutations[r]).by
                  /\ disposer' = [disposer EXCEPT ![h].pc = "rejected"]
        \/ \E h : CancelContinue(r, h) /\ disposer' = [disposer EXCEPT ![h].pc = "next"]
    BY <1>5 DEF RunStep, AdmissionContinue, CommitExecution, CommitCancel, CommitApproval,
       CommitExpiry, CancelContinue, TimerFires, ReleaseContinue, ReleaseFails, InitRun
  <2>2. CASE \E h : /\ CommitCancel(r) /\ h = Head(mutations[r]).by
                    /\ disposer' = [disposer EXCEPT ![h].pc = "rejected"]
    BY <1>3, <2>2 DEF DisposerMoves
  <2>3. CASE \E h : CancelContinue(r, h) /\ disposer' = [disposer EXCEPT ![h].pc = "next"]
    BY <1>3, <2>3 DEF DisposerMoves
  <2>. QED BY <1>2, <2>1, <2>2, <2>3
<1>6. ASSUME NEW s \in Slots, ExecutionStep(s) \/ BodyStep(s) PROVE DisposerMoves(g)
  <2>1. \/ UNCHANGED disposer
        \/ /\ TaskFinally(s)
           /\ disposer' = [h \in Registrations |-> [disposer[h] EXCEPT !.slots = @ \ {s}]]
    BY <1>6 DEF ExecutionStep, BodyStep, ExecBody, ExecRefused, ExecUnread, ExecSettled,
       TaskFinally, BodyReturns, BodyFails, ExecStep, ExecCatch
  <2>2. CASE /\ TaskFinally(s)
             /\ disposer' = [h \in Registrations |-> [disposer[h] EXCEPT !.slots = @ \ {s}]]
    <3>1. disposer'[g] = [disposer[g] EXCEPT !.slots = @ \ {s}]
      BY <2>2
    <3>. QED BY <1>1, <2>2, <3>1 DEF DisposerRecords, DisposerMoves, SamePlan
  <2>. QED BY <1>2, <2>1, <2>2
<1>7. ASSUME NEW h \in Registrations, DisposeContinue(h) PROVE DisposerMoves(g)
  <2>1. \/ /\ disposer' = [disposer EXCEPT ![h].pc = "cancelling"]
           /\ Mutate(disposer[h].id, "cancel", h)
        \/ /\ DisposeNext(h, disposer[h].ids, disposer[h].todo)
           /\ ~(disposer[h].seen = "queued" /\ ~Scheduled(disposer[h].id))
    BY <1>7 DEF DisposeContinue, Withdrawn
  <2>2. CASE /\ disposer' = [disposer EXCEPT ![h].pc = "cancelling"]
             /\ Mutate(disposer[h].id, "cancel", h)
    BY <1>3, <1>7, <2>2 DEF DisposerMoves
  <2>3. CASE /\ DisposeNext(h, disposer[h].ids, disposer[h].todo)
             /\ ~(disposer[h].seen = "queued" /\ ~Scheduled(disposer[h].id))
    BY <1>4, <1>7, <2>3 DEF DisposerMoves, WalksOn
  <2>. QED BY <2>1, <2>2, <2>3
<1>8. ASSUME NEW h \in Registrations, PluginStep(h) PROVE DisposerMoves(g)
  <2>1. CASE DisposeAdmitted(h)
    <3>1. DisposeNext(h, AcceptedFor(h), AcceptedFor(h))
      BY <2>1 DEF DisposeAdmitted, AcceptedFor
    <3>. QED BY <1>4, <2>1, <3>1 DEF DisposerMoves
  <2>2. CASE DisposeResume(h)
    <3>1. DisposeNext(h, disposer[h].ids, disposer[h].todo)
      BY <2>2 DEF DisposeResume
    <3>. QED BY <1>4, <2>2, <3>1 DEF DisposerMoves, WalksOn
  <2>3. CASE DisposeFails(h)
    BY <1>3, <2>3 DEF DisposeFails, DisposerMoves
  <2>4. CASE DisposeDrained(h)
    BY <1>3, <2>4 DEF DisposeDrained, DisposerMoves
  <2>5. CASE RecoverContinue(h) \/ RecoverResume(h) \/ RecoverFails(h)
    BY <1>2, <2>5 DEF RecoverContinue, RecoverResume, RecoverFails
  <2>. QED BY <1>7, <1>8, <2>1, <2>2, <2>3, <2>4, <2>5 DEF PluginStep
<1>9. ASSUME Boot \/ Crash PROVE DisposerMoves(g)
  BY <1>9 DEF Boot, Crash, Fresh, NoDisposer, DisposerMoves
<1>10. HostStep => UNCHANGED disposer \/ Boot
  BY DEF HostStep, DrainContinue, DrainFails, DrainFinally, StopAbort, StopTasks, StopEnd,
     InitDone
<1>11. ASSUME NEW h \in Registrations, Register(h) PROVE DisposerMoves(g)
  BY <1>3, <1>11 DEF Register, DisposerMoves
<1>12. ASSUME NEW h \in Registrations, Dispose(h) PROVE DisposerMoves(g)
  <2>1. h # g => disposer'[g] = disposer[g]
    BY <1>1, <1>12 DEF Dispose
  <2>2. h = g => disposer'[g].pc = "admissions"
    BY <1>1, <1>12 DEF Dispose, DisposerRecords
  <2>. QED BY <1>12, <2>1, <2>2 DEF DisposerMoves
<1>13. Environment => \/ UNCHANGED disposer
                      \/ \E h \in Registrations : Register(h) \/ Dispose(h)
                      \/ Crash
  BY DEF Environment, Start, Cancel, Review, UserCommand, StopBegin
<1>14. CASE UNCHANGED disposer
  BY <1>2, <1>14
<1>. QED BY <1>5, <1>6, <1>8, <1>9, <1>10, <1>11, <1>12, <1>13, <1>14 DEF Next, Tick

-----------------------------------------------------------------------------
(* The one cancellation that a disposer waits for                           *)

\* A caller is past its update when that has been saved.
LEMMA CancelSteps ==
    ASSUME TypeOK, [Next]_vars, NEW r \in Runs
    PROVE  /\ \A c : c \in cancels'[r] /\ c \notin cancels[r] =>
                  CommitCancel(r) /\ Head(mutations[r]).by = c
           /\ \A c \in Callers : CancelContinue(r, c) => c \notin cancels'[r]
<1>. USE DEF vars, beyondPlugins, beyondHost, callers
<1>1. cancels \in [Runs -> SUBSET Callers]
  BY DEF TypeOK, CallersOK
<1>2. \A c \in Callers : CancelContinue(r, c) => c \notin cancels'[r]
  BY <1>1 DEF CancelContinue
<1>3. ASSUME NEW q \in Runs, RunStep(q), NEW c, c \in cancels'[r], c \notin cancels[r]
      PROVE  CommitCancel(r) /\ Head(mutations[r]).by = c
  <2>1. \/ UNCHANGED cancels
        \/ /\ CommitCancel(q)
           /\ cancels' = [cancels EXCEPT ![q] = @ \cup {Head(mutations[q]).by}]
        \/ \E d : cancels' = [cancels EXCEPT ![q] = @ \ {d}]
    BY <1>3 DEF RunStep, AdmissionContinue, CommitExecution, CommitCancel, CommitApproval,
       CommitExpiry, CancelContinue, TimerFires, ReleaseContinue, ReleaseFails, InitRun
  <2>. QED BY <1>1, <1>3, <2>1
<1>4. ASSUME NEW s \in Slots, ExecutionStep(s) \/ BodyStep(s) PROVE UNCHANGED cancels
  BY <1>4 DEF ExecutionStep, BodyStep, ExecBody, ExecRefused, ExecUnread, ExecSettled,
     TaskFinally, BodyReturns, BodyFails, ExecStep, ExecCatch
<1>5. ASSUME NEW g \in Registrations, PluginStep(g) PROVE UNCHANGED cancels
  BY <1>5 DEF PluginStep, RecoverContinue, RecoverResume, RecoverFails, DisposeAdmitted,
     DisposeContinue, DisposeResume, DisposeDrained, DisposeFails
<1>6. HostStep => UNCHANGED cancels \/ cancels'[r] = {}
  BY DEF HostStep, DrainContinue, DrainFails, DrainFinally, StopAbort, StopTasks, StopEnd,
     InitDone, Boot, Fresh
<1>7. Environment => UNCHANGED cancels \/ cancels'[r] = {}
  BY DEF Environment, Start, Cancel, Review, UserCommand, Register, Dispose, StopBegin, Crash,
     Fresh
<1>. QED BY <1>2, <1>3, <1>4, <1>5, <1>6, <1>7 DEF Next, Tick

\* The entry that commits.
LEMMA CancelCommits ==
    ASSUME TypeOK, NEW r \in Runs, CommitCancel(r)
    PROVE  /\ mutations[r] # << >> /\ mutations'[r] = Tail(mutations[r])
           /\ 1 \in 1 .. Len(mutations[r])
           /\ Cancels(mutations[r][1], Head(mutations[r]).by)
<1>1. mutations \in [Runs -> Seq(Mutations)]
  BY DEF TypeOK, MutationsOK
<1>2. /\ mutations[r] # << >> /\ mutations' = [mutations EXCEPT ![r] = Tail(@)]
      /\ Head(mutations[r]).kind \in CancelKinds
  BY DEF CommitCancel, Committing
<1>3. 1 \in 1 .. Len(mutations[r]) /\ Head(mutations[r]) = mutations[r][1]
  BY <1>1, <1>2, ChainEntries
<1>. QED BY <1>1, <1>2, <1>3 DEF Cancels

\* A disposer chains a cancellation, and waits.
LEMMA ChainsCancel ==
    ASSUME NEW q, NEW m, Chains(q, m), NEW g \in Registrations, Cancels(m, g)
    PROVE  /\ DisposeContinue(g) /\ disposer[g].id = q
           /\ disposer' = [disposer EXCEPT ![g].pc = "cancelling"]
BY RuntimeConstants DEF Chains, Cancels, CancelKinds

LEMMA CancellingFrom ==
    ASSUME TypeOK, [Next]_vars, NEW g \in Registrations, NEW r \in Runs, Cancelling(g, r)'
    PROVE  \/ Cancelling(g, r)
           \/ /\ DisposeContinue(g) /\ disposer[g].id = r
              /\ disposer' = [disposer EXCEPT ![g].pc = "cancelling"]
<1>1. mutations[r] \in Seq(Mutations)
  BY DEF TypeOK, MutationsOK
<1>2. CASE g \in cancels'[r]
  <2>1. CASE g \in cancels[r]
    BY <2>1 DEF Cancelling
  <2>2. CASE g \notin cancels[r]
    BY <1>2, <2>2, CancelSteps, CancelCommits DEF Cancelling
  <2>. QED BY <2>1, <2>2
<1>3. ASSUME NEW i \in 1 .. Len(mutations'[r]), Cancels(mutations'[r][i], g)
      PROVE  \/ Cancelling(g, r)
             \/ /\ DisposeContinue(g) /\ disposer[g].id = r
                /\ disposer' = [disposer EXCEPT ![g].pc = "cancelling"]
  <2>1. CASE mutations'[r] = mutations[r] \/ mutations'[r] = << >>
    BY <1>3, <2>1 DEF Cancelling
  <2>2. CASE mutations[r] # << >> /\ mutations'[r] = Tail(mutations[r])
    BY <1>1, <1>3, <2>2, ChainEntries DEF Cancelling
  <2>3. ASSUME NEW m, mutations'[r] = Append(mutations[r], m), Chains(r, m)
        PROVE  \/ Cancelling(g, r)
               \/ /\ DisposeContinue(g) /\ disposer[g].id = r
                  /\ disposer' = [disposer EXCEPT ![g].pc = "cancelling"]
    <3>1. \/ i \in 1 .. Len(mutations[r]) /\ mutations'[r][i] = mutations[r][i]
          \/ mutations'[r][i] = m
      BY <1>1, <1>3, <2>3, ChainAppend
    <3>. QED BY <1>3, <2>3, <3>1, ChainsCancel DEF Cancelling
  <2>. QED BY <2>1, <2>2, <2>3, ChainSteps
<1>. QED BY <1>2, <1>3 DEF Cancelling

LEMMA CancelOwnStep ==
    ASSUME TypeOK, CancelOwn, CancelOnce, [Next]_vars
    PROVE  CancelOwn'
<1>. SUFFICES ASSUME NEW g \in Registrations, NEW r \in Runs, Cancelling(g, r)'
              PROVE  disposer'[g].pc = "cancelling" /\ disposer'[g].id = r
  BY DEF CancelOwn, Cancelling, Cancels
<1>1. /\ disposer \in [Registrations -> DisposerRecords] /\ disposer[g] \in DisposerRecords
      /\ mutations[r] \in Seq(Mutations) /\ g \in Callers
  BY DEF TypeOK, PluginsOK, MutationsOK, Callers
<1>2. CASE DisposeContinue(g) /\ disposer[g].id = r
           /\ disposer' = [disposer EXCEPT ![g].pc = "cancelling"]
  BY <1>1, <1>2 DEF DisposerRecords
<1>3. CASE Cancelling(g, r)
  <2>1. disposer[g].pc = "cancelling" /\ disposer[g].id = r
    BY <1>3 DEF CancelOwn
  <2>2. ASSUME NEW q \in Runs, CommitCancel(q), Head(mutations[q]).by = g,
               disposer'[g].pc = "rejected"
        PROVE  FALSE
    <3>1. /\ mutations[q] # << >> /\ mutations'[q] = Tail(mutations[q])
          /\ 1 \in 1 .. Len(mutations[q]) /\ Cancels(mutations[q][1], g)
      BY <2>2, CancelCommits
    <3>2. q = r
      BY <2>1, <3>1 DEF CancelOwn, Cancelling
    <3>3. g \notin cancels[r] /\ cancels' = cancels
      <4>1. disposer' = disposer \/ cancels' = cancels
        BY <2>2 DEF CommitCancel
      <4>2. disposer' # disposer
        BY <2>1, <2>2
      <4>. QED BY <3>1, <3>2, <4>1, <4>2 DEF CancelOnce
    <3>4. PICK i \in 1 .. Len(mutations'[r]) : Cancels(mutations'[r][i], g)
      BY <3>3 DEF Cancelling, Cancels
    <3>5. i + 1 \in 1 .. Len(mutations[r]) /\ i + 1 # 1 /\ Cancels(mutations[r][i + 1], g)
      BY <1>1, <3>1, <3>2, <3>4, ChainEntries
    <3>. QED BY <3>1, <3>2, <3>5 DEF CancelOnce
  <2>3. ASSUME NEW q \in Runs, CancelContinue(q, g) PROVE FALSE
    <3>1. g \in cancels[q] /\ mutations' = mutations
      BY <2>3 DEF CancelContinue
    <3>2. q = r
      BY <2>1, <3>1 DEF CancelOwn, Cancelling
    <3>3. g \notin cancels'[r]
      BY <1>1, <2>3, <3>2, CancelSteps
    <3>4. PICK i \in 1 .. Len(mutations[r]) : Cancels(mutations[r][i], g)
      BY <3>1, <3>3 DEF Cancelling, Cancels
    <3>. QED BY <3>1, <3>2, <3>4 DEF CancelOnce
  <2>4. ~Boot /\ ~Crash
    BY DEF Boot, Crash, Fresh, Cancelling
  <2>5. ~Register(g) /\ ~Dispose(g) /\ ~DisposeAdmitted(g) /\ ~DisposeContinue(g)
        /\ ~DisposeResume(g) /\ ~DisposeFails(g) /\ ~DisposeDrained(g)
    BY <2>1 DEF Register, Dispose, DisposeAdmitted, DisposeContinue, DisposeResume,
       DisposeFails, DisposeDrained
  <2>6. DisposerMoves(g)
    BY DisposerMovesStep
  <2>. QED BY <2>1, <2>2, <2>3, <2>4, <2>5, <2>6 DEF DisposerMoves, SamePlan, WalksOn
<1>. QED BY <1>2, <1>3, CancellingFrom

LEMMA CancelOnceStep ==
    ASSUME TypeOK, CancelOwn, CancelOnce, [Next]_vars
    PROVE  CancelOnce'
<1>. SUFFICES ASSUME NEW g \in Registrations, NEW r \in Runs,
                     NEW i \in 1 .. Len(mutations'[r]), NEW j \in 1 .. Len(mutations'[r]),
                     Cancels(mutations'[r][i], g)
              PROVE  g \notin cancels'[r] /\ (Cancels(mutations'[r][j], g) => i = j)
  BY DEF CancelOnce, Cancels
<1>1. mutations[r] \in Seq(Mutations)
  BY DEF TypeOK, MutationsOK
<1>2. /\ mutations[r] \in Seq(Mutations)
      /\ \A k \in 1 .. Len(mutations[r]), l \in 1 .. Len(mutations[r]) :
            Cancels(mutations[r][k], g) =>
               g \notin cancels[r] /\ (Cancels(mutations[r][l], g) => k = l)
  BY <1>1 DEF CancelOnce
<1>3. CASE mutations'[r] = mutations[r]
  <2>1. g \notin cancels[r]
    BY <1>2, <1>3
  <2>2. g \notin cancels'[r]
    <3>1. CommitCancel(r) => mutations[r] # << >> /\ mutations'[r] = Tail(mutations[r])
      BY CancelCommits
    <3>2. mutations[r] # << >> => Len(Tail(mutations[r])) # Len(mutations[r])
      BY <1>1, ChainEntries
    <3>. QED BY <1>3, <2>1, <3>1, <3>2, CancelSteps
  <2>. QED BY <1>2, <1>3, <2>2
<1>4. CASE mutations[r] # << >> /\ mutations'[r] = Tail(mutations[r])
  <2>1. /\ i + 1 \in 1 .. Len(mutations[r]) /\ mutations'[r][i] = mutations[r][i + 1]
        /\ j + 1 \in 1 .. Len(mutations[r]) /\ mutations'[r][j] = mutations[r][j + 1]
        /\ i + 1 # 1
    BY <1>1, <1>4, ChainEntries
  <2>2. g \notin cancels[r]
    BY <1>2, <2>1
  <2>3. ~(CommitCancel(r) /\ Head(mutations[r]).by = g)
    BY <1>2, <2>1, CancelCommits
  <2>4. Cancels(mutations'[r][j], g) => i + 1 = j + 1
    BY <1>2, <2>1
  <2>. QED BY <2>2, <2>3, <2>4, CancelSteps
<1>5. ASSUME NEW m, mutations'[r] = Append(mutations[r], m), Chains(r, m)
      PROVE  g \notin cancels'[r] /\ (Cancels(mutations'[r][j], g) => i = j)
  <2>1. /\ \/ i \in 1 .. Len(mutations[r]) /\ mutations'[r][i] = mutations[r][i]
           \/ i = Len(mutations[r]) + 1 /\ mutations'[r][i] = m
        /\ \/ j \in 1 .. Len(mutations[r]) /\ mutations'[r][j] = mutations[r][j]
           \/ j = Len(mutations[r]) + 1 /\ mutations'[r][j] = m
    BY <1>1, <1>5, ChainAppend
  <2>2. Cancels(m, g) => ~Cancelling(g, r)
    BY <1>5, ChainsCancel DEF DisposeContinue, CancelOwn
  <2>3. ~(CommitCancel(r) /\ Head(mutations[r]).by = g)
    <3>1. CommitCancel(r) => mutations[r] # << >> /\ mutations'[r] = Tail(mutations[r])
      BY CancelCommits
    <3>2. mutations[r] # << >> => mutations'[r] # Tail(mutations[r])
      BY <1>1, <1>5, ChainEntries, ChainAppend
    <3>. QED BY <3>1, <3>2
  <2>4. g \notin cancels[r]
    BY <1>2, <2>1, <2>2 DEF Cancelling
  <2>5. Cancels(mutations'[r][j], g) => i = j
    BY <1>2, <2>1, <2>2 DEF Cancelling
  <2>. QED BY <2>3, <2>4, <2>5, CancelSteps
<1>6. CASE mutations'[r] = << >>
  BY <1>6
<1>. QED BY <1>3, <1>4, <1>5, <1>6, ChainSteps

-----------------------------------------------------------------------------
(* A registration whose disposal has begun is not defined any more          *)

LEMMA DefinedBy ==
    ASSUME TypeOK, [Next]_vars, NEW g \in Registrations, definitions'[WorkflowOf[g]] = g
    PROVE  definitions[WorkflowOf[g]] = g \/ Register(g)
<1>. USE DEF vars, beyondPlugins, plugins
<1>1. definitions \in [Workflows -> RegOrNone] /\ WorkflowOf[g] \in Workflows /\ None # g
  BY RuntimeConstants DEF TypeOK, PluginsOK
<1>2. ASSUME NEW h \in Registrations, Register(h) \/ Dispose(h)
      PROVE  definitions[WorkflowOf[g]] = g \/ Register(g)
  BY <1>1, <1>2, RuntimeConstants DEF Register, Dispose
<1>3. ASSUME NEW h \in Registrations, RecoverContinue(h) \/ RecoverResume(h) \/ RecoverFails(h)
      PROVE  UNCHANGED definitions
  BY <1>3 DEF RecoverContinue, RecoverResume, RecoverFails
<1>4. \A r \in Runs : CommitExpiry(r) => UNCHANGED definitions
  BY DEF CommitExpiry
<1>5. ~Boot /\ ~Crash
  BY <1>1 DEF Boot, Crash, Fresh
<1>. QED BY <1>2, <1>3, <1>4, <1>5, RegistrationSteps

LEMMA GoneStep ==
    ASSUME TypeOK, Gone, CancelOwn, [Next]_vars
    PROVE  Gone'
<1>. SUFFICES ASSUME NEW g \in Registrations, Leaving(g)', definitions'[WorkflowOf[g]] = g
              PROVE  FALSE
  BY DEF Gone, Leaving
<1>1. /\ disposer \in [Registrations -> DisposerRecords]
      /\ definitions \in [Workflows -> RegOrNone] /\ WorkflowOf[g] \in Workflows /\ None # g
  BY RuntimeConstants DEF TypeOK, PluginsOK
<1>2. ~Dispose(g)
  BY <1>1 DEF Dispose
<1>3. ~Register(g)
  BY <1>1 DEF Register, Leaving, DisposerRecords
<1>4. definitions[WorkflowOf[g]] = g
  BY <1>3, DefinedBy
<1>5. ~Leaving(g)
  BY <1>4 DEF Gone
<1>6. ~DisposeAdmitted(g) /\ ~DisposeContinue(g) /\ ~DisposeResume(g) /\ ~DisposeFails(g)
      /\ ~DisposeDrained(g)
  BY <1>5 DEF Leaving, DisposeAdmitted, DisposeContinue, DisposeResume, DisposeFails,
     DisposeDrained
<1>7. \A q \in Runs : ~(CommitCancel(q) /\ Head(mutations[q]).by = g) /\ ~CancelContinue(q, g)
  <2>1. \A q \in Runs : ~Cancelling(g, q)
    BY <1>5 DEF CancelOwn, Leaving
  <2>. QED BY <2>1, CancelCommits DEF Cancelling, CancelContinue
<1>8. DisposerMoves(g)
  BY DisposerMovesStep
<1>. QED BY <1>2, <1>3, <1>5, <1>6, <1>7, <1>8 DEF DisposerMoves, Leaving, WalksOn

-----------------------------------------------------------------------------
(* What a disposer has walked is out of the queue                           *)

LEMMA SettledKept ==
    ASSUME TypeOK, [Next]_vars, NEW r \in Runs, Settled(r)
    PROVE  Settled(r)'
BY QueuedFrom, StoredKept DEF Settled, Stored, Start

\* No run is accepted for a registration any more once its disposal has begun.
LEMMA AcceptedLeaving ==
    ASSUME TypeOK, AdmitsOwn, Gone, [Next]_vars, NEW g \in Registrations, Leaving(g),
           NEW r \in Runs, accepted'[r] = g
    PROVE  accepted[r] = g
<1>1. None # g /\ definitions[WorkflowOf[g]] # g
  BY RuntimeConstants DEF Gone
<1>2. ASSUME AdmissionContinue(r), accepted'[r] = admission[r].reg,
             definitions[run[r].workflow] = admission[r].reg
      PROVE  FALSE
  <2>1. run[r].workflow = WorkflowOf[g]
    BY <1>2 DEF AdmissionContinue, AdmitsOwn
  <2>. QED BY <1>1, <1>2, <2>1
<1>. QED BY <1>1, <1>2, AcceptedSets

\* The disposer need not look at its last run again.
LEMMA WalkedOn ==
    ASSUME Walks, NEW g \in Registrations, WalksOn(g), NEW r \in Runs, Prompt(r)
    PROVE  /\ disposer[g].pc \in {"reading", "next"}
           /\ r \in disposer[g].ids => Settled(r) \/ r \in disposer[g].todo
<1>1. disposer[g].pc \in {"reading", "next"}
  BY DEF WalksOn, DisposeContinue, DisposeResume
<1>2. ASSUME r \in disposer[g].ids PROVE Settled(r) \/ r \in disposer[g].todo
  <2>1. Stored(r) /\ (Settled(r) \/ Ahead(g, r))
    BY <1>1, <1>2 DEF Walks
  <2>2. ~Scheduled(r)
    BY <2>1 DEF Prompt
  <2>3. ~(r = disposer[g].id /\ disposer[g].pc = "reading" /\ disposer[g].seen = "queued")
    BY <2>2 DEF WalksOn, DisposeResume
  <2>. QED BY <1>1, <2>1, <2>3 DEF Ahead
<1>. QED BY <1>1, <1>2

LEMMA WalksStep ==
    ASSUME TypeOK, CancelsSaved, AcceptedStored, AdmitsOwn, Gone, CancelOwn, Walks, [Next]_vars
    PROVE  Walks'
<1>. SUFFICES ASSUME NEW g \in Registrations,
                     disposer'[g].pc \in {"reading", "cancelling", "next"}
              PROVE  /\ disposer'[g].todo \subseteq disposer'[g].ids
                     /\ disposer'[g].id \in disposer'[g].ids
                     /\ \A r \in Runs : accepted'[r] = g => r \in disposer'[g].ids
                     /\ \A r \in disposer'[g].ids :
                           Stored(r)' /\ (Prompt(r)' => Settled(r)' \/ Ahead(g, r)')
  BY DEF Walks, Stored, Prompt, Scheduled, Settled, Ahead
<1>. DEFINE Goal == /\ disposer'[g].todo \subseteq disposer'[g].ids
                    /\ disposer'[g].id \in disposer'[g].ids
                    /\ \A r \in Runs : accepted'[r] = g => r \in disposer'[g].ids
                    /\ \A r \in disposer'[g].ids :
                          Stored(r)' /\ (Prompt(r)' => Settled(r)' \/ Ahead(g, r)')
<1>1. disposer[g] \in DisposerRecords
  BY DEF TypeOK, PluginsOK
<1>2. disposer[g].ids \subseteq Runs
  BY <1>1 DEF DisposerRecords
\* The disposer stays with its plan.
<1>3. ASSUME disposer[g].pc \in {"reading", "cancelling", "next"},
             disposer'[g].ids = disposer[g].ids,
             disposer'[g].todo \subseteq disposer'[g].ids, disposer'[g].id \in disposer'[g].ids,
             \A r \in disposer[g].ids : Prompt(r) /\ ~Settled(r) => Ahead(g, r)' \/ Settled(r)'
      PROVE  Goal
  <2>1. Leaving(g)
    BY <1>3 DEF Leaving
  <2>2. \A r \in Runs : accepted'[r] = g => r \in disposer[g].ids
    BY <1>3, <2>1, AcceptedLeaving DEF Walks
  <2>3. \A r \in disposer[g].ids : Stored(r) /\ r \in Runs
    BY <1>2, <1>3 DEF Walks
  <2>4. ASSUME NEW r \in disposer[g].ids
        PROVE  Stored(r)' /\ (Prompt(r)' => Settled(r)' \/ Ahead(g, r)')
    BY <1>3, <2>3, StoredKept, PromptKept, SettledKept
  <2>. QED BY <1>3, <2>2, <2>4
<1>4. ASSUME SamePlan(g) /\ disposer'[g].pc = disposer[g].pc
      PROVE  Goal
  <2>1. disposer[g].pc \in {"reading", "cancelling", "next"}
    BY <1>4
  <2>2. /\ disposer'[g].ids = disposer[g].ids
        /\ disposer'[g].todo \subseteq disposer'[g].ids /\ disposer'[g].id \in disposer'[g].ids
    BY <1>4, <2>1 DEF Walks, SamePlan
  <2>3. \A r \in disposer[g].ids : Prompt(r) /\ ~Settled(r) => Ahead(g, r)'
    BY <1>4, <2>1 DEF Walks, SamePlan, Ahead
  <2>. QED BY <1>3, <2>1, <2>2, <2>3
<1>5. ASSUME DisposeAdmitted(g) /\ Turns(g, AcceptedFor(g), AcceptedFor(g))
      PROVE  Goal
  <2>1. UNCHANGED <<run, accepted>>
    BY <1>5 DEF DisposeAdmitted, beyondPlugins, durable
  <2>2. PICK q \in AcceptedFor(g) :
           /\ disposer'[g].pc = "reading" /\ disposer'[g].ids = AcceptedFor(g)
           /\ disposer'[g].todo = AcceptedFor(g) \ {q} /\ disposer'[g].id = q
           /\ disposer'[g].seen = run[q].status
    BY <1>5 DEF Turns
  <2>3. \A r \in AcceptedFor(g) : r \in Runs /\ accepted[r] = g /\ Stored(r)
    BY RuntimeConstants DEF AcceptedFor, AcceptedStored
  <2>4. ASSUME NEW r \in AcceptedFor(g) PROVE Stored(r)' /\ (Settled(r)' \/ Ahead(g, r)')
    BY <2>1, <2>2, <2>3, <2>4 DEF Stored, Settled, Ahead
  <2>5. \A r \in Runs : accepted'[r] = g => r \in AcceptedFor(g)
    BY <2>1 DEF AcceptedFor
  <2>. QED BY <2>2, <2>4, <2>5
<1>6. ASSUME DisposeContinue(g) /\ SamePlan(g) /\ disposer'[g].pc = "cancelling"
      PROVE  Goal
  <2>1. disposer[g].pc = "reading"
    BY <1>6 DEF DisposeContinue
  <2>2. /\ disposer'[g].ids = disposer[g].ids
        /\ disposer'[g].todo \subseteq disposer'[g].ids /\ disposer'[g].id \in disposer'[g].ids
    BY <1>6, <2>1 DEF Walks, SamePlan
  <2>3. \A r \in disposer[g].ids : Prompt(r) /\ ~Settled(r) => Ahead(g, r)'
    BY <1>6, <2>1 DEF Walks, SamePlan, Ahead
  <2>. QED BY <1>3, <2>1, <2>2, <2>3
<1>7. ASSUME WalksOn(g)
      PROVE  Goal
  <2>1. disposer[g].pc \in {"reading", "next"}
    BY <1>7 DEF WalksOn, DisposeContinue, DisposeResume
  <2>2. PICK q \in disposer[g].todo :
           /\ disposer'[g].pc = "reading" /\ disposer'[g].ids = disposer[g].ids
           /\ disposer'[g].todo = disposer[g].todo \ {q} /\ disposer'[g].id = q
           /\ disposer'[g].seen = run[q].status
    BY <1>7 DEF WalksOn, Turns
  <2>3. /\ disposer[g].todo \subseteq disposer[g].ids /\ \A r \in disposer[g].ids : Stored(r)
    BY <2>1 DEF Walks
  <2>4. ASSUME NEW r \in disposer[g].ids, Prompt(r), ~Settled(r)
        PROVE  Ahead(g, r)'
    <3>1. r \in disposer[g].todo
      BY <1>2, <1>7, <2>4, WalkedOn
    <3>2. run[r].status = "queued"
      BY <2>3, <2>4 DEF Settled, Stored
    <3>. QED BY <2>2, <3>1, <3>2 DEF Ahead
  <2>. QED BY <1>3, <2>1, <2>2, <2>3, <2>4
<1>8. ASSUME NEW q \in Runs, CancelContinue(q, g), SamePlan(g), disposer'[g].pc = "next"
      PROVE  Goal
  <2>1. g \in cancels[q]
    BY <1>8 DEF CancelContinue
  <2>2. disposer[g].pc = "cancelling" /\ disposer[g].id = q
    BY <2>1 DEF CancelOwn, Cancelling
  <2>3. Settled(q)
    BY <2>1 DEF CancelsSaved, Terminal, Settled
  <2>4. /\ disposer'[g].ids = disposer[g].ids
        /\ disposer'[g].todo \subseteq disposer'[g].ids /\ disposer'[g].id \in disposer'[g].ids
    BY <1>8, <2>2 DEF Walks, SamePlan
  <2>5. \A r \in disposer[g].ids : Prompt(r) /\ ~Settled(r) => Ahead(g, r)'
    BY <1>8, <2>2, <2>3 DEF Walks, SamePlan, Ahead
  <2>. QED BY <1>3, <2>2, <2>4, <2>5
<1>9. disposer'[g] = disposer[g] => SamePlan(g) /\ disposer'[g].pc = disposer[g].pc
  BY DEF SamePlan
<1>10. DisposerMoves(g)
  BY DisposerMovesStep
<1>. HIDE DEF Goal
<1>11. Goal
  BY <1>4, <1>5, <1>6, <1>7, <1>8, <1>9, <1>10 DEF DisposerMoves
<1>. QED BY <1>11 DEF Goal

-----------------------------------------------------------------------------
(* While a disposer awaits its tasks, and afterwards                        *)

LEMMA DrainsStep ==
    ASSUME EarlyInv, BoundInv, UpdateOwn, AcceptedStored, ExecStored, AdmitsOwn, Sole, Follows,
           Gone, Walks, Drains, [Next]_vars
    PROVE  Drains'
<1>. SUFFICES ASSUME NEW g \in Registrations, disposer'[g].pc \in {"draining", "disposed"}
              PROVE  /\ \A r \in Runs : accepted'[r] = g /\ Prompt(r)' => Settled(r)'
                     /\ \A s \in Slots :
                           Uses(s, g)' /\ Prompt(exec[s].run)' => s \in disposer'[g].slots
  BY DEF Drains, Settled, Prompt, Stored, Scheduled, Uses
<1>. DEFINE Goal == /\ \A r \in Runs : accepted'[r] = g /\ Prompt(r)' => Settled(r)'
                    /\ \A s \in Slots :
                          Uses(s, g)' /\ Prompt(exec[s].run)' => s \in disposer'[g].slots
<1>1. TypeOK /\ exec \in [Slots -> ExecRecords] /\ disposer[g] \in DisposerRecords
  BY DEF BoundInv, TypeOK, ExecutionOK, PluginsOK
\* What it has to await stays with it.
<1>2. ASSUME disposer[g].pc \in {"draining", "disposed"},
             \A s \in disposer[g].slots : s \in disposer'[g].slots \/ exec'[s].pc = "idle"
      PROVE  Goal
  <2>1. Leaving(g)
    BY <1>2 DEF Leaving
  <2>2. ASSUME NEW r \in Runs, accepted'[r] = g, Prompt(r)' PROVE Settled(r)'
    <3>1. accepted[r] = g /\ Prompt(r)
      BY <1>1, <2>1, <2>2, AcceptedLeaving, PromptKept
    <3>2. Settled(r)
      BY <1>2, <3>1 DEF Drains
    <3>. QED BY <1>1, <3>2, SettledKept
  <2>3. ASSUME NEW s \in Slots, Uses(s, g)', Prompt(exec[s].run)'
        PROVE  s \in disposer'[g].slots
    <3>1. PICK r : r = exec[s].run
      OBVIOUS
    <3>2. exec'[s].pc \in BodyPcs /\ exec'[s].pc # "idle" /\ exec'[s].reg = g
      BY <2>3 DEF Uses, BodyPcs
    <3>3. exec[s].pc # "idle" /\ exec'[s].run = r /\ exec[s].reg = g
      BY <3>1, <3>2, ExecutedFrom DEF BodyPcs
    <3>4. r \in Runs
      BY <3>1, <3>3 DEF ExecStored, Busy
    <3>5. Prompt(r)'
      BY <2>3, <3>3 DEF Prompt, Stored, Scheduled
    <3>6. Prompt(r)
      BY <1>1, <3>4, <3>5, PromptKept
    <3>7. exec[s].pc \in BodyPcs
      <4>1. ASSUME exec[s].pc = "starting" PROVE FALSE
        <5>1. run[r].status = "queued"
          BY <3>1, <3>2, <4>1, StartCommits
        <5>2. accepted[r] = g
          BY <3>1, <3>3, <3>4, <3>6, <4>1, <5>1 DEF Follows, Underway
        <5>. QED BY <1>2, <3>4, <3>6, <5>1, <5>2 DEF Drains, Settled
      <4>. QED BY <3>2, <3>3, <4>1, BodyFrom
    <3>8. s \in disposer[g].slots
      BY <1>2, <3>1, <3>3, <3>6, <3>7 DEF Drains, Uses, BodyPcs
    <3>. QED BY <1>2, <3>2, <3>8
  <2>. QED BY <2>2, <2>3
<1>3. ASSUME NEW s \in Slots, TaskFinally(s), disposer'[g].pc = disposer[g].pc,
             disposer'[g].slots = disposer[g].slots \ {s}
      PROVE  Goal
  <2>1. exec'[s].pc = "idle"
    BY <1>1, <1>3 DEF TaskFinally, NoExec
  <2>. QED BY <1>2, <1>3, <2>1
<1>4. ASSUME DisposeDrained(g)
      PROVE  Goal
  BY <1>2, <1>4 DEF DisposeDrained
\* What such an execution uses is its run's registration.
<1>5. ASSUME NEW s \in Slots, Uses(s, g), Prompt(exec[s].run)
      PROVE  /\ exec[s].run \in Runs /\ accepted[exec[s].run] = g
             /\ tasks[exec[s].run] = s
  <2>1. s \in Busy
    BY <1>5 DEF Uses, Busy
  <2>2. exec[s].run \in Runs /\ Underway(s) /\ exec[s].reg = g
    BY <1>5, <2>1 DEF ExecStored, Underway, Uses
  <2>. QED BY <1>5, <2>1, <2>2 DEF Follows, Sole
<1>6. ASSUME /\ DisposeAdmitted(g) /\ Turns(g, AcceptedFor(g), AcceptedFor(g))
      PROVE  Goal
  <2>1. UNCHANGED <<run, accepted, exec>> /\ AcceptedFor(g) = {}
    BY <1>6 DEF DisposeAdmitted, beyondPlugins, durable, execution, Turns
  <2>2. \A r \in Runs : accepted[r] # g
    BY <2>1 DEF AcceptedFor
  <2>3. \A s \in Slots : Uses(s, g)' /\ Prompt(exec[s].run)' => FALSE
    BY <1>5, <2>1, <2>2 DEF Uses, Prompt, Stored, Scheduled
  <2>. QED BY <2>1, <2>2, <2>3
<1>7. ASSUME WalksOn(g)
      PROVE  Goal
  <2>1. /\ disposer[g].todo = {} /\ disposer'[g].slots = TasksOf(disposer[g].ids)
        /\ UNCHANGED <<run, exec, tasks>>
    BY <1>7 DEF WalksOn, Turns, DisposeContinue, DisposeResume, beyondPlugins, durable, execution
  <2>2. disposer[g].pc \in {"reading", "next"}
    BY <1>7 DEF WalksOn, DisposeContinue, DisposeResume
  <2>3. \A r \in Runs : accepted[r] = g => r \in disposer[g].ids
    BY <2>2 DEF Walks
  <2>4. ASSUME NEW r \in Runs, accepted'[r] = g, Prompt(r)' PROVE Settled(r)'
    <3>1. Leaving(g)
      BY <2>2 DEF Leaving
    <3>2. accepted[r] = g /\ Prompt(r)
      BY <1>1, <2>4, <3>1, AcceptedLeaving, PromptKept
    <3>3. Settled(r)
      BY <1>7, <2>1, <2>3, <3>2, WalkedOn
    <3>. QED BY <1>1, <3>3, SettledKept
  <2>5. ASSUME NEW s \in Slots, Uses(s, g)', Prompt(exec[s].run)'
        PROVE  s \in disposer'[g].slots
    <3>1. Uses(s, g) /\ Prompt(exec[s].run)
      BY <2>1, <2>5 DEF Uses, Prompt, Stored, Scheduled
    <3>2. exec[s].run \in disposer[g].ids /\ tasks[exec[s].run] = s /\ s # None
      BY <1>5, <2>3, <3>1, RuntimeConstants
    <3>. QED BY <2>1, <3>2 DEF TasksOf
  <2>. QED BY <2>4, <2>5
<1>8. DisposerMoves(g)
  BY <1>1, DisposerMovesStep
<1>9. ASSUME disposer'[g] = disposer[g]
      PROVE  Goal
  BY <1>2, <1>9
<1>. HIDE DEF Goal
<1>10. Goal
  BY <1>3, <1>4, <1>6, <1>7, <1>8, <1>9 DEF DisposerMoves
<1>. QED BY <1>10 DEF Goal

LEMMA DisposedStep ==
    ASSUME TypeOK, Disposed, [Next]_vars
    PROVE  Disposed'
<1>. SUFFICES ASSUME NEW g \in Registrations, disposer'[g].pc = "disposed"
              PROVE  disposer'[g].slots = {}
  BY DEF Disposed
<1>1. DisposerMoves(g)
  BY DisposerMovesStep
<1>. QED BY <1>1 DEF DisposerMoves, Disposed, Turns, WalksOn

LEMMA PromptInit == Init => PromptInv
<1>. SUFFICES ASSUME Init PROVE PromptInv
  OBVIOUS
<1>. USE DEF Init, Fresh
<1>1. EarlyInv /\ SavedInv
  BY EarlyInit, SavedInit
<1>2. /\ DrainIdle /\ queuedIds = << >> /\ drain.pc = "idle" /\ Busy = {}
      /\ \A r \in Runs : /\ mutations[r] = << >> /\ run[r].status = "absent"
                         /\ accepted[r] = None /\ cancels[r] = {} /\ admission[r].pc = "none"
                         /\ scheduledTimers[r] = NoTimer /\ release[r] = "none"
                         /\ r \notin recoverable
      /\ \A s \in Slots : exec[s].pc = "idle"
      /\ \A g \in Registrations : /\ recovery[g].pc = "none" /\ disposer[g].pc = "none"
                                  /\ None # g
  BY RuntimeConstants DEF DrainIdle, NoRead, NoRecovery, NoDisposer, Busy, NoExec
<1>3. UpdateOwn /\ RejectsByUser /\ AcceptedStored /\ ExecStored /\ AdmitsOwn
  BY <1>2 DEF UpdateOwn, RejectsByUser, AcceptedStored, ExecStored, AdmitsOwn
<1>4. Untimed /\ Follows
  BY <1>2 DEF Untimed, Reads, Follows, Underway
<1>5. Sole
  BY <1>2 DEF Sole, Distinct, Admitted, Pumped, Executed, Queued
<1>6. Gone /\ CancelOwn /\ CancelOnce /\ Walks /\ Drains /\ Disposed
  BY <1>2 DEF Gone, Leaving, CancelOwn, Cancelling, CancelOnce, Walks, Drains, Disposed
<1>. QED BY <1>1, <1>2, <1>3, <1>4, <1>5, <1>6 DEF PromptInv

LEMMA PromptStep == PromptInv /\ [Next]_vars => PromptInv'
<1>. SUFFICES ASSUME PromptInv, [Next]_vars PROVE PromptInv'
  OBVIOUS
<1>1. /\ EarlyInv /\ SavedInv /\ BoundInv /\ TypeOK /\ CancelsSaved
      /\ DrainIdle /\ UpdateOwn /\ RejectsByUser
  BY DEF PromptInv, SavedInv, BoundInv
<1>2. /\ AcceptedStored /\ ExecStored /\ AdmitsOwn /\ Untimed /\ Sole /\ Follows
      /\ Gone /\ CancelOwn /\ CancelOnce /\ Walks /\ Drains /\ Disposed
  BY DEF PromptInv
<1>3. EarlyInv' /\ SavedInv' /\ DrainIdle' /\ UpdateOwn' /\ RejectsByUser'
  BY <1>1, EarlyStep, SavedStep, DrainIdleStep, OwnUpdatesStep, RejectsByUserStep
<1>4. AcceptedStored' /\ ExecStored' /\ AdmitsOwn' /\ Untimed'
  BY <1>1, <1>2, AcceptedStoredStep, ExecStoredStep, AdmitsOwnStep, UntimedStep
<1>5. Sole' /\ Follows'
  BY <1>1, <1>2, SoleStep, FollowsStep
<1>6. Gone' /\ CancelOwn' /\ CancelOnce'
  BY <1>1, <1>2, GoneStep, CancelOwnStep, CancelOnceStep
<1>7. Walks' /\ Drains' /\ Disposed'
  BY <1>1, <1>2, WalksStep, DrainsStep, DisposedStep
<1>. QED BY <1>3, <1>4, <1>5, <1>6, <1>7 DEF PromptInv

\* A disposer that has resolved leaves no execution of an immediate run, whatever other
\* plugins come and go, whatever the repository rejects, and however the stop, crashes and
\* restarts fall: it has cancelled the run or awaited its task, and neither the read that
\* the pump had in flight nor an update still chained can start it any more.
THEOREM ImmediateDrained == Spec => []ImmediateRunsDrained
<1>1. PromptInv => ImmediateRunsDrained
  <2>. SUFFICES ASSUME PromptInv, NEW g \in Registrations, disposer[g].pc = "disposed",
                       NEW s \in Slots, Uses(s, g), ~Scheduled(exec[s].run)
                PROVE  FALSE
    BY DEF ImmediateRunsDrained
  <2>1. Prompt(exec[s].run)
    BY DEF Prompt
  <2>2. s \in disposer[g].slots /\ disposer[g].slots = {}
    BY <2>1 DEF PromptInv, Drains, Disposed
  <2>. QED BY <2>2
<1>. QED BY <1>1, PromptInit, PromptStep, PTL DEF Spec

-----------------------------------------------------------------------------
(* The status of an immediate run moves along the documented edges.          *)

\* Until Service.init has ended the process has nothing in hand but what it parks.
InitIdle ==
    host = "init" =>
        /\ \A r \in Runs : /\ mutations[r] = << >> /\ admission[r].pc = "none"
                           /\ cancels[r] = {} /\ scheduledTimers[r] = NoTimer
                           /\ release[r] = "none" /\ ~Queued(r)
        /\ \A s \in Slots : exec[s].pc = "idle"
        /\ drain.pc = "idle"
        /\ \A g \in Registrations : recovery[g].pc = "none" /\ disposer[g].pc = "none"

Unexpired ==
    \A r \in Runs : Prompt(r) =>
        /\ \A g \in Registrations : ~Fails(g, r)
        /\ \A i \in 1 .. Len(mutations[r]) : mutations[r][i].kind # "expire"

PromptFits == \A r \in Runs : Prompt(r) => Fits(r)

CourseInv ==
    PromptInv /\ InitBoots /\ InitIdle /\ BootStatus /\ Unexpired /\ PromptFits

-----------------------------------------------------------------------------

\* While the host starts, only Service.init goes on.
LEMMA InitSteps ==
    ASSUME InitIdle, StopStarted, host = "init", [Next]_vars
    PROVE  \/ UNCHANGED vars \/ Tick \/ Crash \/ InitDone
           \/ \E r \in Runs : InitRun(r)
<1>1. /\ \A r \in Runs : /\ mutations[r] = << >> /\ admission[r].pc = "none"
                         /\ cancels[r] = {} /\ scheduledTimers[r] = NoTimer
                         /\ release[r] = "none"
      /\ \A s \in Slots : exec[s].pc = "idle"
      /\ drain.pc = "idle"
      /\ \A g \in Registrations : recovery[g].pc = "none" /\ disposer[g].pc = "none"
  BY DEF InitIdle
<1>2. ASSUME NEW r \in Runs, RunStep(r) PROVE InitRun(r)
  BY <1>1, <1>2 DEF RunStep, AdmissionContinue, CommitExecution, CommitCancel, CommitApproval,
     CommitExpiry, CancelContinue, TimerFires, ReleaseContinue, ReleaseFails, Committing
<1>3. ASSUME NEW s \in Slots, ExecutionStep(s) \/ BodyStep(s) PROVE FALSE
  BY <1>1, <1>3 DEF ExecutionStep, BodyStep, ExecBody, ExecRefused, ExecUnread, ExecSettled,
     TaskFinally, BodyReturns, BodyFails, ExecStep
<1>4. ASSUME NEW g \in Registrations, PluginStep(g) PROVE FALSE
  BY <1>1, <1>4 DEF PluginStep, RecoverContinue, RecoverResume, RecoverFails, DisposeAdmitted,
     DisposeContinue, DisposeResume, DisposeDrained, DisposeFails
<1>5. HostStep => InitDone
  <2>1. stop.pc = "none"
    BY DEF StopStarted, stopped
  <2>. QED BY <1>1, <2>1 DEF HostStep, DrainContinue, DrainFails, DrainFinally, StopAbort,
              StopTasks, StopEnd, Boot
<1>6. Environment => Crash
  BY DEF Environment, Start, Cancel, Review, UserCommand, Register, Dispose, StopBegin, up
<1>. QED BY <1>2, <1>3, <1>4, <1>5, <1>6 DEF Next

LEMMA InitIdleStep ==
    ASSUME InitIdle, StopStarted, [Next]_vars
    PROVE  InitIdle'
<1>. SUFFICES ASSUME host' = "init" PROVE InitIdle'
  BY DEF InitIdle
<1>1. CASE Boot
  BY <1>1 DEF Boot, Fresh, InitIdle, NoRead, NoExec, NoRecovery, NoDisposer, Queued
<1>2. CASE host = "init"
  <2>1. ~Crash /\ ~InitDone
    BY DEF Crash, InitDone
  <2> DEFINE hand == <<host, mutations, admission, cancels, scheduledTimers, release, queuedIds,
                       exec, drain, recovery, disposer>>
  <2>2. UNCHANGED vars => UNCHANGED hand
    BY DEF vars, beyondPlugins, beyondHost, plugins, callers, dispatch, execution, schedule, phase
  <2>3. Tick => UNCHANGED hand
    BY DEF Tick, dispatch, execution, plugins, callers, schedule, phase
  <2>4. ASSUME NEW r \in Runs, InitRun(r) PROVE UNCHANGED hand
    BY <2>4 DEF InitRun, dispatch, execution, plugins, callers
  <2>5. UNCHANGED hand
    BY <1>2, <2>1, <2>2, <2>3, <2>4, InitSteps
  <2>. QED BY <1>2, <2>5 DEF InitIdle, Queued
<1>3. host = "init" \/ Boot
  BY HostSteps DEF InitDone, StopBegin, StopEnd, Crash
<1>. QED BY <1>1, <1>2, <1>3

\* A run that Service.init has still to look at keeps the status it was listed with.
LEMMA BootStatusStep ==
    ASSUME TypeOK, InitBoots, InitIdle, BootStatus, StopStarted, [Next]_vars
    PROVE  BootStatus'
<1>1. run \in [Runs -> RunRecords] /\ booting \in SUBSET Runs
  BY DEF TypeOK, DurableOK, PhaseOK
<1>2. CASE Boot
  BY <1>2 DEF Boot, BootStatus
<1>3. CASE booting' \subseteq booting /\ booting # {}
  <2>1. host = "init"
    BY <1>3 DEF InitBoots
  <2>2. CASE UNCHANGED run
    BY <1>3, <2>2 DEF BootStatus
  <2>3. CASE Crash
    BY <2>3 DEF Crash, BootStatus
  <2>4. ASSUME NEW r \in Runs, InitRun(r) PROVE BootStatus'
    BY <1>1, <2>4 DEF InitRun, BootStatus
  <2>5. UNCHANGED vars \/ Tick \/ InitDone => UNCHANGED run
    BY DEF vars, beyondPlugins, beyondHost, durable, Tick, InitDone
  <2>. QED BY <2>1, <2>2, <2>3, <2>4, <2>5, InitSteps
<1>4. CASE booting' = {}
  BY <1>4 DEF BootStatus
<1>. QED BY <1>2, <1>3, <1>4, BootingSteps

\* A recovery fails only what it has read.
LEMMA FailsFrom ==
    ASSUME TypeOK, [Next]_vars, NEW g \in Registrations, NEW r, Fails(g, r)'
    PROVE  Fails(g, r) \/ (Reads(g, r) /\ Mutate(r, "expire", g))
<1>1. /\ recovery \in [Registrations -> RecoveryRecords]
      /\ \A h \in Registrations : recovery[h] \in RecoveryRecords
  BY DEF TypeOK, PluginsOK
<1>2. recovery'[g].pc = "failing" /\ recovery'[g].id = r
  BY DEF Fails
<1>3. ASSUME NEW h \in Registrations, NEW rec, RecoverNext(h, rec)
      PROVE  h # g /\ recovery'[g] = recovery[g]
  <2>1. h # g
    BY <1>1, <1>2, <1>3 DEF RecoverNext
  <2>. QED BY <1>1, <1>3, <2>1 DEF RecoverNext
<1>4. ASSUME NEW h, NEW pc \in {"next", "rejected"}, recovery' = [recovery EXCEPT ![h].pc = pc]
      PROVE  recovery'[g] = recovery[g]
  BY <1>1, <1>2, <1>4 DEF RecoveryRecords
<1>5. ASSUME NEW h \in Registrations, RecoverContinue(h)
      PROVE  Fails(g, r) \/ (Reads(g, r) /\ Mutate(r, "expire", g))
  <2>1. \/ recovery' = [recovery EXCEPT ![h] = [pc |-> "done", id |-> None, seen |-> "absent"]]
        \/ /\ recovery' = [recovery EXCEPT ![h].pc = "failing"] /\ recovery[h].pc = "reading"
           /\ Mutate(recovery[h].id, "expire", h)
        \/ RecoverNext(h, recoverable')
    BY <1>5 DEF RecoverContinue
  <2>2. CASE recovery' = [recovery EXCEPT ![h] = [pc |-> "done", id |-> None, seen |-> "absent"]]
    BY <1>1, <1>2, <2>2 DEF Fails
  <2>3. CASE /\ recovery' = [recovery EXCEPT ![h].pc = "failing"] /\ recovery[h].pc = "reading"
             /\ Mutate(recovery[h].id, "expire", h)
    <3>1. CASE h = g
      BY <1>1, <1>2, <2>3, <3>1 DEF Reads, RecoveryRecords
    <3>2. CASE h # g
      BY <1>1, <1>2, <2>3, <3>2 DEF Fails
    <3>. QED BY <3>1, <3>2
  <2>. QED BY <1>2, <1>3, <2>1, <2>2, <2>3 DEF Fails
<1>6. ASSUME NEW h \in Registrations,
             RecoverResume(h) \/ RecoverFails(h) \/ Register(h) \/ Dispose(h)
      PROVE  recovery'[g] = recovery[g]
  BY <1>3, <1>4, <1>6 DEF RecoverResume, RecoverFails, Register, Dispose
<1>7. ASSUME NEW q \in Runs, CommitExpiry(q) PROVE recovery'[g] = recovery[g]
  BY <1>4, <1>7 DEF CommitExpiry
<1>8. ~Boot /\ ~Crash
  BY <1>2 DEF Boot, Crash, Fresh, NoRecovery
<1>. QED BY <1>2, <1>5, <1>6, <1>7, <1>8, RegistrationSteps DEF Fails

LEMMA UnexpiredStep ==
    ASSUME TypeOK, Untimed, Unexpired, [Next]_vars
    PROVE  Unexpired'
<1>. SUFFICES ASSUME NEW r \in Runs, Prompt(r)'
              PROVE  /\ \A g \in Registrations : ~Fails(g, r)'
                     /\ \A i \in 1 .. Len(mutations'[r]) : mutations'[r][i].kind # "expire"
  BY DEF Unexpired, Prompt, Stored, Scheduled, Fails
<1>1. Prompt(r) /\ mutations[r] \in Seq(Mutations)
  BY PromptKept DEF TypeOK, MutationsOK
<1>2. /\ \A g \in Registrations : ~Fails(g, r) /\ ~Reads(g, r)
      /\ \A i \in 1 .. Len(mutations[r]) : mutations[r][i].kind # "expire"
  BY <1>1 DEF Unexpired, Untimed
<1>3. \A g \in Registrations : ~Fails(g, r)'
  BY <1>2, FailsFrom
<1>4. ASSUME NEW i \in 1 .. Len(mutations'[r]) PROVE mutations'[r][i].kind # "expire"
  <2>1. CASE mutations'[r] = mutations[r] \/ mutations'[r] = << >>
    BY <1>2, <2>1
  <2>2. CASE mutations[r] # << >> /\ mutations'[r] = Tail(mutations[r])
    BY <1>1, <1>2, <2>2, ChainEntries
  <2>3. ASSUME NEW m, mutations'[r] = Append(mutations[r], m), Chains(r, m)
        PROVE  mutations'[r][i].kind # "expire"
    <3>1. m.kind # "expire"
      BY <1>2, <2>3 DEF Chains
    <3>. QED BY <1>1, <1>2, <2>3, <3>1, ChainAppend
  <2>. QED BY <2>1, <2>2, <2>3, ChainSteps
<1>. QED BY <1>3, <1>4

-----------------------------------------------------------------------------
(* So the lemmas about one run apply to the immediate ones. *)

LEMMA PromptOrderly ==
    ASSUME CourseInv, NEW r \in Runs, Prompt(r)
    PROVE  Orderly(r) /\ BoundInv /\ TypeOK /\ UpdateOwn /\ BootStatus
<1>1. /\ BoundInv /\ TypeOK /\ UpdateOwn /\ BootStatus /\ Sole /\ Untimed /\ ExecStored
      /\ InitBoots /\ InitIdle /\ Unexpired /\ PromptFits
  BY DEF CourseInv, PromptInv, SavedInv, BoundInv
<1>2. Fits(r) /\ \A i \in 1 .. Len(mutations[r]) : mutations[r][i].kind # "expire"
  BY <1>1 DEF PromptFits, Unexpired
<1>3. \A s, t \in Busy : exec[s].run = r /\ exec[t].run = r => s = t
  BY <1>1 DEF Sole
<1>4. Executed(r) => Stored(r)
  BY <1>1 DEF Executed, ExecStored
<1>5. ASSUME r \in booting PROVE Nowhere(r)
  <2>1. /\ admission[r].pc = "none" /\ ~Queued(r) /\ drain.pc = "idle"
        /\ \A s \in Slots : exec[s].pc = "idle"
    BY <1>1, <1>5 DEF InitBoots, InitIdle
  <2>2. ~Admitted(r) /\ ~Pumped(r) /\ ~Executed(r)
    BY <2>1 DEF Admitted, Pumped, Executed, Busy
  <2>3. /\ scheduledTimers[r] = NoTimer /\ release[r] = "none" /\ ~Recovered(r) /\ ~Expiring(r)
    BY <1>1 DEF Untimed, Unexpired, Recovered, Expiring
  <2>. QED BY <2>2, <2>3, AtPlaces DEF Nowhere, Places
<1>. QED BY <1>1, <1>2, <1>3, <1>4, <1>5 DEF Orderly

\* An immediate run waits in its admission, in the queue or in the pump's read, where it
\* comes from another of these places or is created.
LEMMA PromptWaits ==
    ASSUME CourseInv, [Next]_vars, NEW r \in Runs, Prompt(r), Admitted(r)' \/ Pumped(r)'
    PROVE  \/ (Admitted(r) \/ Pumped(r)) /\ ~Executed(r)
           \/ run'[r].status = "queued"
<1>1. TypeOK /\ DrainIdle /\ Sole /\ Distinct(queuedIds) /\ Untimed
  BY DEF CourseInv, PromptInv, SavedInv, BoundInv, Sole
<1>2. Admitted(r) \/ Pumped(r) => ~Executed(r)
  BY <1>1 DEF Sole, Pumped
<1>3. CASE Admitted(r)'
  <2>1. ASSUME NEW g \in Registrations, NEW at \in Schedules, Start(r, g, at)
        PROVE  run'[r].status = "queued"
    BY <1>1, <2>1 DEF Start, TypeOK, DurableOK
  <2>. QED BY <1>1, <1>2, <1>3, <2>1, AdmissionBegins DEF Admitted
<1>4. CASE Pumped(r)'
  <2>1. Queued(r)' \/ (drain'.pc = "reading" /\ drain'.id = r)
    BY <1>4 DEF Pumped, Queued
  <2>2. Pumped(r) \/ Enqueues(r)
    BY <1>1, <2>1, FlowStep DEF Flows, Pumped
  <2>3. Enqueues(r) => Admitted(r)
    BY <1>1, PromptEnqueues DEF AdmissionContinue, Admitted
  <2>. QED BY <1>2, <2>2, <2>3
<1>. QED BY <1>3, <1>4

LEMMA PromptFitsStep ==
    ASSUME CourseInv, PromptInv', Unexpired', [Next]_vars
    PROVE  PromptFits'
<1>. SUFFICES ASSUME NEW r \in Runs, Prompt(r)'
              PROVE  Fits(r)'
  BY DEF PromptFits, Prompt, Stored, Scheduled
<1>1. TypeOK /\ TypeOK'
  BY DEF CourseInv, PromptInv, SavedInv, BoundInv
<1>2. Prompt(r)
  BY <1>1, PromptKept
<1>3. Orderly(r) /\ BoundInv /\ UpdateOwn
  BY <1>2, PromptOrderly
<1>4. ASSUME NEW p \in Places \ {"execution"}, At(r, p)' PROVE run'[r].status \in Waits
  <2>1. /\ scheduledTimers'[r] = NoTimer /\ release'[r] = "none" /\ ~Recovered(r)'
        /\ ~Expiring(r)'
    BY DEF PromptInv, Untimed, Unexpired, Recovered, Expiring, Prompt, Stored, Scheduled, Reads,
           Fails
  <2>2. Admitted(r)' \/ Pumped(r)'
    BY <1>4, <2>1 DEF At, Places
  <2>3. CASE run'[r].status = "queued"
    BY <2>3 DEF Waits
  <2>4. CASE (Admitted(r) \/ Pumped(r)) /\ ~Executed(r)
    <3>1. \E q \in Places \ {"execution"} : At(r, q)
      BY <2>4, AtPlaces DEF Places
    <3>. QED BY <1>3, <2>4, <3>1, WaitsKept
  <2>. QED BY <1>2, <2>2, <2>3, <2>4, PromptWaits
<1>5. \A s \in Busy' : exec'[s].run = r => run'[r].status \in During(exec'[s].pc)
  BY <1>1, <1>3, DuringStep
<1>. QED BY <1>4, <1>5 DEF Fits

LEMMA CourseInit == Init => CourseInv
<1>. SUFFICES ASSUME Init PROVE CourseInv
  OBVIOUS
<1>1. PromptInv
  BY PromptInit
<1>2. /\ booting = {} /\ Busy = {}
      /\ \A r \in Runs : /\ mutations[r] = << >> /\ admission[r].pc = "none"
                         /\ cancels[r] = {} /\ scheduledTimers[r] = NoTimer
                         /\ release[r] = "none" /\ r \notin recoverable /\ ~Queued(r)
      /\ \A s \in Slots : exec[s].pc = "idle"
      /\ drain.pc = "idle"
      /\ \A g \in Registrations : recovery[g].pc = "none" /\ disposer[g].pc = "none"
  BY DEF Init, Fresh, NoRead, NoRecovery, NoDisposer, Busy, NoExec, Queued
<1>3. InitBoots /\ InitIdle /\ BootStatus /\ Unexpired
  BY <1>2 DEF InitBoots, InitIdle, BootStatus, Unexpired, Fails
<1>4. PromptFits
  <2>1. ASSUME NEW r \in Runs PROVE \A p \in Places : ~At(r, p)
    BY <1>2, AtPlaces DEF Places, Admitted, Pumped, Executed, Recovered, Expiring, Reads, Fails
  <2>. QED BY <1>2, <2>1 DEF PromptFits, Fits
<1>. QED BY <1>1, <1>3, <1>4 DEF CourseInv

LEMMA CourseStep == CourseInv /\ [Next]_vars => CourseInv'
<1>. SUFFICES ASSUME CourseInv, [Next]_vars PROVE CourseInv'
  OBVIOUS
<1>1. /\ PromptInv /\ InitBoots /\ InitIdle /\ BootStatus /\ Unexpired /\ PromptFits
      /\ TypeOK /\ StopStarted /\ Untimed
  BY DEF CourseInv, PromptInv, SavedInv, BoundInv
<1>2. PromptInv'
  BY <1>1, PromptStep
<1>3. InitBoots' /\ InitIdle' /\ BootStatus' /\ Unexpired'
  BY <1>1, BootingSteps, InitIdleStep, BootStatusStep, UnexpiredStep
<1>4. PromptFits'
  BY <1>2, <1>3, PromptFitsStep
<1>. QED BY <1>2, <1>3, <1>4 DEF CourseInv

\* LegalTransitions of the runs without a schedule.
ImmediateLegal ==
    [][\A r \in Runs : ~Scheduled(r)' /\ run'[r].status # run[r].status
                       => <<run[r].status, run'[r].status>> \in Edges]_vars

\* TerminalFinal of the runs without a schedule.
ImmediateFinal ==
    [][\A r \in Runs : run[r].status \in Terminal /\ ~Scheduled(r)
                       => run'[r].status = run[r].status]_vars

\* SingleDispatch of the runs without a schedule.
ImmediateSingle ==
    \A s, t \in Busy : exec[s].run = exec[t].run /\ ~Scheduled(exec[s].run) => s = t

\* QueuedHeldOnce of the runs without a schedule, whatever the host is doing.
ImmediateHeldOnce ==
    \A r \in Runs : run[r].status = "queued" /\ ~Scheduled(r) => Cardinality(Holders(r)) <= 1

\* However plugins are unloaded and reloaded, and in whatever versions, the stored status
\* of an immediate run moves only along the documented edges: a late failure of its one
\* execution finds it running, queued or cancelled, and no recovery overwrites it.
THEOREM ImmediateTransitions == Spec => ImmediateLegal
<1>1. CourseInv /\ [Next]_vars =>
         [\A r \in Runs : ~Scheduled(r)' /\ run'[r].status # run[r].status =>
             <<run[r].status, run'[r].status>> \in Edges]_vars
  <2>. SUFFICES ASSUME CourseInv, [Next]_vars, NEW r \in Runs, ~Scheduled(r)',
                       run'[r].status # run[r].status
                PROVE  <<run[r].status, run'[r].status>> \in Edges
    OBVIOUS
  <2>1. TypeOK
    BY DEF CourseInv, PromptInv, SavedInv, BoundInv
  <2>2. Prompt(r)'
    BY DEF Prompt, Scheduled
  <2>3. Prompt(r)
    BY <2>1, <2>2, PromptKept
  <2>. QED BY <2>3, PromptOrderly, LegalEdges
<1>. QED BY <1>1, CourseInit, CourseStep, PTL DEF Spec, ImmediateLegal

\* So its terminal status is final: the cancelled run that fails after all, in run
\* runtime_terminal, can only be a scheduled one.
THEOREM ImmediateStays == Spec => ImmediateFinal
<1>1. CourseInv /\ [Next]_vars =>
         [\A r \in Runs : run[r].status \in Terminal /\ ~Scheduled(r)
                          => run'[r].status = run[r].status]_vars
  <2>. SUFFICES ASSUME CourseInv, [Next]_vars, NEW r \in Runs, run[r].status \in Terminal,
                       ~Scheduled(r)
                PROVE  run'[r].status = run[r].status
    OBVIOUS
  <2>1. \A status : <<run[r].status, status>> \notin Edges
    BY DEF Edges, Terminal, Live
  <2>2. Prompt(r)
    BY DEF Prompt
  <2>. QED BY <2>1, <2>2, PromptOrderly, LegalEdges
<1>. QED BY <1>1, CourseInit, CourseStep, PTL DEF Spec, ImmediateFinal

\* And no immediate run is ever in the hands of two execute() activations: a second
\* dispatch needs a run that a disposer parks.
THEOREM ImmediateOnce == Spec => []ImmediateSingle
<1>1. PromptInv => ImmediateSingle
  <2>. SUFFICES ASSUME PromptInv, NEW s \in Busy, NEW t \in Busy, exec[s].run = exec[t].run,
                       ~Scheduled(exec[s].run)
                PROVE  s = t
    BY DEF ImmediateSingle
  <2>1. exec[s].run \in Runs /\ Prompt(exec[s].run) /\ Sole
    BY DEF PromptInv, ExecStored, Prompt
  <2>2. tasks[exec[s].run] = s /\ tasks[exec[s].run] = t
    BY <2>1 DEF Sole
  <2>. QED BY <2>2
<1>. QED BY <1>1, PromptInit, PromptStep, PTL DEF Spec

\* Nor is an immediate run, while it is queued, in two of the places that it could be
\* started from, whatever plugins come and go and whatever the repository rejects.
THEOREM ImmediateHeld == Spec => []ImmediateHeldOnce
<1>1. CourseInv => ImmediateHeldOnce
  <2>. SUFFICES ASSUME CourseInv, NEW r \in Runs, ~Scheduled(r)
                PROVE  Cardinality(Holders(r)) <= 1
    BY DEF ImmediateHeldOnce
  <2>1. Prompt(r) /\ Sole /\ Untimed /\ Unexpired /\ DrainIdle
    BY DEF CourseInv, PromptInv, Prompt
  <2>2. /\ Admitted(r) => ~Pumped(r) /\ ~Executed(r)
        /\ Pumped(r) => ~Executed(r)
        /\ Queued(r) => drain.id # r
    BY <2>1 DEF Sole, Pumped
  <2>3. /\ scheduledTimers[r] = NoTimer /\ release[r] = "none"
        /\ ~Recovered(r) /\ ~Expiring(r)
    BY <2>1 DEF Untimed, Unexpired, Recovered, Expiring
  <2>4. OneAt(r)
    BY <2>2, <2>3 DEF OneAt, At, Places
  <2>. QED BY <2>1, <2>2, <2>4, OneHolder
<1>. QED BY <1>1, CourseInit, CourseStep, PTL DEF Spec
-----------------------------------------------------------------------------
(* A pump at rest has nothing left to take.                                 *)

\* The queue is empty or every slot is taken whenever the pump rests.
Served ==
    host = "up" /\ drain.pc = "idle" =>
        queuedIds = << >> \/ activeCount >= MaxConcurrentRuns

-----------------------------------------------------------------------------

\* What changes the counter and the tasks, and how the host comes up.
LEMMA CounterSteps ==
    ASSUME [Next]_vars
    PROVE  /\ \/ UNCHANGED <<activeCount, tasks>>
              \/ DrainContinue \/ \E s \in Slots : TaskFinally(s)
              \/ Boot \/ Crash
           /\ host' = "up" => host = "up" \/ InitDone
<1>. USE DEF vars, beyondPlugins, beyondHost, execution, phase
<1>1. ASSUME NEW r \in Runs, RunStep(r) PROVE UNCHANGED <<activeCount, tasks, host>>
  BY <1>1 DEF RunStep, AdmissionContinue, CommitExecution, CommitCancel, CommitApproval,
     CommitExpiry, CancelContinue, TimerFires, ReleaseContinue, ReleaseFails, InitRun
<1>2. ASSUME NEW s \in Slots, ExecutionStep(s) \/ BodyStep(s)
      PROVE  UNCHANGED host /\ (UNCHANGED <<activeCount, tasks>> \/ TaskFinally(s))
  BY <1>2 DEF ExecutionStep, BodyStep, ExecBody, ExecRefused, ExecUnread, ExecSettled,
     TaskFinally, BodyReturns, BodyFails, ExecStep, ExecCatch
<1>3. ASSUME NEW g \in Registrations, PluginStep(g) PROVE UNCHANGED <<activeCount, tasks, host>>
  BY <1>3 DEF PluginStep, RecoverContinue, RecoverResume, RecoverFails, DisposeAdmitted,
     DisposeContinue, DisposeResume, DisposeDrained, DisposeFails
<1>4. HostStep => /\ UNCHANGED <<activeCount, tasks>> \/ DrainContinue \/ Boot
                  /\ host' = "up" => host = "up" \/ InitDone
  BY DEF HostStep, DrainContinue, DrainFails, DrainFinally, StopAbort, StopTasks, StopEnd,
     InitDone, Boot
<1>5. Environment => /\ UNCHANGED <<activeCount, tasks>> \/ Crash
                     /\ host' = "up" => host = "up"
  BY DEF Environment, Start, Cancel, Review, UserCommand, Register, Dispose, StopBegin, Crash
<1>. QED BY <1>1, <1>2, <1>3, <1>4, <1>5 DEF Next, Tick

\* Whatever calls pump() leaves it awake.
LEMMA PumpAwake ==
    ASSUME NEW queue, NEW acc, NEW active, Pump(queue, acc, active)
    PROVE  drain'.pc # "idle"
BY DEF Pump, DrainLoop, NoRead

LEMMA ArmAwake ==
    ASSUME NEW r, NEW acc, NEW rec, ArmScheduledRun(r, acc, rec) \/ EnqueueRun(r, acc)
    PROVE  UNCHANGED dispatch \/ drain'.pc # "idle"
BY PumpAwake DEF ArmScheduledRun, EnqueueRun

\* The pump rests only when it has looked again at the queue and at the counter, and
\* whoever adds to the one or takes from the other wakes it.
LEMMA ServedStep ==
    ASSUME TypeOK, Served, [Next]_vars
    PROVE  Served'
<1>. SUFFICES ASSUME host' = "up", drain'.pc = "idle"
              PROVE  queuedIds' = << >> \/ activeCount' >= MaxConcurrentRuns
  BY DEF Served
<1>. USE DEF vars, beyondPlugins, beyondHost, dispatch
<1>1. CASE InitDone
  BY <1>1, PumpAwake DEF InitDone
<1>2. CASE \E s \in Slots : TaskFinally(s)
  BY <1>2, PumpAwake DEF TaskFinally
<1>3. CASE DrainContinue
  BY <1>3 DEF DrainContinue, DrainLoop, NoRead
<1>4. CASE Boot \/ Crash
  BY <1>4 DEF Boot, Crash
<1>5. CASE DrainFails
  BY <1>5 DEF DrainFails, NoRead
<1>6. CASE DrainFinally
  <2>1. ~MayDispatch(queuedIds, activeCount) /\ queuedIds' = queuedIds
    BY <1>6 DEF DrainFinally, DrainLoop
  <2>2. UNCHANGED <<host, activeCount>> /\ ~stopped
    BY <1>6 DEF DrainFinally, execution, phase, stopped
  <2>. QED BY <2>1, <2>2, ConstantTypes DEF MayDispatch, TypeOK, ExecutionOK
<1>7. ASSUME UNCHANGED <<activeCount, drain>>, host = "up",
             queuedIds = << >> => queuedIds' = << >>
      PROVE  queuedIds' = << >> \/ activeCount' >= MaxConcurrentRuns
  BY <1>7 DEF Served
<1>8. ASSUME ~InitDone, ~(\E s \in Slots : TaskFinally(s)), ~DrainContinue, ~Boot, ~Crash,
             ~DrainFails, ~DrainFinally
      PROVE  queuedIds' = << >> \/ activeCount' >= MaxConcurrentRuns
  <2>1. UNCHANGED activeCount /\ host = "up"
    BY <1>8, CounterSteps
  <2>2. CASE UNCHANGED dispatch
    BY <1>7, <2>1, <2>2
  <2>3. ASSUME NEW r \in Runs, AdmissionContinue(r) \/ ReleaseContinue(r)
        PROVE  UNCHANGED dispatch
    BY <2>3, ArmAwake DEF AdmissionContinue, ReleaseContinue
  <2>4. ASSUME NEW g \in Registrations, RecoverContinue(g)
        PROVE  UNCHANGED dispatch
    BY <2>4, ArmAwake DEF RecoverContinue
  <2>5. ASSUME NEW r, queuedIds = << >>
        PROVE  RemoveQueuedId(r) = << >>
    BY <2>5 DEF RemoveQueuedId, Queued
  <2>6. ASSUME NEW r \in Runs, NEW c \in Callers, CancelContinue(r, c)
        PROVE  UNCHANGED drain /\ (queuedIds = << >> => queuedIds' = << >>)
    BY <2>5, <2>6 DEF CancelContinue
  <2>7. ASSUME NEW g \in Registrations, DisposeContinue(g)
        PROVE  UNCHANGED drain /\ (queuedIds = << >> => queuedIds' = << >>)
    BY <2>5, <2>7 DEF DisposeContinue
  <2>. QED BY <1>7, <1>8, <2>1, <2>2, <2>3, <2>4, <2>6, <2>7, DispatchSteps
<1>. QED BY <1>1, <1>2, <1>3, <1>4, <1>5, <1>6, <1>8

\* In a host that is up, the pump never rests beside a free slot and a waiting run: the
\* finally of pump() looks again at what came while it was ending.  This is the safety half
\* of RunLeavesQueue.
THEOREM QueueServed == Spec => []Served
<1>1. Init => TypeOK /\ Served
  BY TypeInit DEF Init, Served
<1>2. TypeOK /\ Served /\ [Next]_vars => TypeOK' /\ Served'
  BY TypeStep, ServedStep
<1>. QED BY <1>1, <1>2, PTL DEF Spec

-----------------------------------------------------------------------------
(* What is awaited is under way.                                            *)

\* An update of this kind, asked for by this caller, waits in the chain of run r.
Chained(r, kind, by) ==
    r \in Runs /\ \E i \in 1 .. Len(mutations[r]) :
                     mutations[r][i].kind = kind /\ mutations[r][i].by = by

\* What an execution has asked updateRun for is in the chain of its run.
ExecutionsAnswered ==
    \A s \in Slots, kind \in ExecutionKinds :
        exec[s].pc = Awaits(kind) => Chained(exec[s].run, kind, s)

\* The cancellation in which admit ends is chained, or admit has been told of it.
AdmissionsAnswered ==
    \A r \in Runs : admission[r].pc = "cancelling" =>
        Chained(r, "cancel", "admission") \/ "admission" \in cancels[r]

\* The expiry recoverInterrupted waits for is chained.
RecoveriesAnswered ==
    \A g \in Registrations : recovery[g].pc = "failing" => Chained(recovery[g].id, "expire", g)

\* So is the cancellation a disposer waits for, unless the disposer has been told of it.
DisposersAnswered ==
    \A g \in Registrations : disposer[g].pc = "cancelling" =>
        /\ disposer[g].id \in Runs
        /\ Chained(disposer[g].id, "cancel", g) \/ g \in cancels[disposer[g].id]

\* The tasks that disposers and the stop effect await are activations that have not ended.
TasksGoOn ==
    /\ \A g \in Registrations : disposer[g].slots \subseteq Busy
    /\ stop.slots \subseteq Busy

\* The stop effect awaits no more updates of a run than its chain holds.
ChainsFollowed == \A r \in Runs : stop.chains[r] <= Len(mutations[r])

\* What tasks holds for a run is the slot of an activation of that run that has not ended.
TasksBusy ==
    \A r \in Runs : tasks[r] # None => tasks[r] \in Busy /\ exec[tasks[r]].run = r

\* Whoever waits for an update has it in the chain of its run, or has been told of it and
\* continues; whoever waits for tasks waits for activations that have not ended; and the
\* stop effect waits for no more updates than are chained.
Answered ==
    /\ ExecutionsAnswered /\ AdmissionsAnswered /\ RecoveriesAnswered /\ DisposersAnswered
    /\ TasksGoOn /\ ChainsFollowed

AnsweredInv == EarlyInv /\ BoundInv /\ ExecStored /\ TasksBusy /\ Answered

-----------------------------------------------------------------------------

\* What is chained stays so until it commits.
LEMMA ChainedKept ==
    ASSUME TypeOK, [Next]_vars, NEW r, NEW kind, NEW by, Chained(r, kind, by)
    PROVE  \/ Chained(r, kind, by)'
           \/ /\ r \in Runs /\ Commits(r)
              /\ Head(mutations[r]).kind = kind /\ Head(mutations[r]).by = by
           \/ Boot \/ Crash
<1>1. /\ r \in Runs /\ mutations[r] \in Seq(Mutations)
      /\ mutations'[r] \in Seq(Mutations)
  BY TypeStep DEF Chained, TypeOK, MutationsOK
<1>2. PICK i \in 1 .. Len(mutations[r]) : mutations[r][i].kind = kind /\ mutations[r][i].by = by
  BY DEF Chained
<1>3. CASE mutations'[r] = mutations[r]
  BY <1>1, <1>2, <1>3 DEF Chained
<1>4. CASE Commits(r) /\ mutations[r] # << >> /\ mutations'[r] = Tail(mutations[r])
  <2>1. CASE i = 1
    BY <1>1, <1>2, <1>4, <2>1
  <2>2. CASE i # 1
    <3>1. i - 1 \in 1 .. Len(mutations'[r]) /\ mutations'[r][i - 1] = mutations[r][i]
      BY <1>1, <1>2, <1>4, <2>2
    <3>. QED BY <1>1, <1>2, <3>1 DEF Chained
  <2>. QED BY <2>1, <2>2
<1>5. ASSUME NEW m, mutations'[r] = Append(mutations[r], m)
      PROVE  Chained(r, kind, by)'
  <2>1. i \in 1 .. Len(mutations'[r]) /\ mutations'[r][i] = mutations[r][i]
    BY <1>1, <1>2, <1>5, ChainAppend
  <2>. QED BY <1>1, <1>2, <2>1 DEF Chained
<1>. QED BY <1>3, <1>4, <1>5, <1>1, ChainSteps

\* What is asked for is chained.
LEMMA MutateChains ==
    ASSUME TypeOK, NEW r \in Runs, NEW kind, NEW by, Mutate(r, kind, by)
    PROVE  Chained(r, kind, by)'
<1> DEFINE m == [kind |-> kind, by |-> by]
<1>1. mutations \in [Runs -> Seq(Mutations)] /\ mutations[r] \in Seq(Mutations)
  BY DEF TypeOK, MutationsOK
<1>2. m.kind = kind /\ m.by = by
  OBVIOUS
<1>3. mutations' = [mutations EXCEPT ![r] = Append(@, m)]
  BY DEF Mutate
<1> HIDE DEF m
<1>4. mutations'[r] = Append(mutations[r], m)
  BY <1>1, <1>3
<1>5. /\ Len(mutations[r]) + 1 \in 1 .. Len(mutations'[r])
      /\ mutations'[r][Len(mutations[r]) + 1] = m
  BY <1>1, <1>4, ChainAppend
<1>. QED BY <1>2, <1>5 DEF Chained

\* A chain that loses its head has been committed by one of the four actions, or lost.
Commit(r) == CommitExecution(r) \/ CommitCancel(r) \/ CommitApproval(r) \/ CommitExpiry(r)

LEMMA CommitActions ==
    ASSUME TypeOK, [Next]_vars, NEW r \in Runs, Commits(r)
    PROVE  Commit(r) \/ Boot \/ Crash
<1>. USE DEF vars, beyondPlugins, beyondHost
<1>1. /\ mutations \in [Runs -> Seq(Mutations)] /\ mutations[r] \in Seq(Mutations)
      /\ mutations[r] # << >> /\ mutations' = [mutations EXCEPT ![r] = Tail(@)]
  BY DEF TypeOK, MutationsOK, Commits, Committing
<1>2. /\ Len(mutations'[r]) = Len(mutations[r]) - 1 /\ Len(mutations[r]) \in Nat
      /\ \A q \in Runs \ {r} : mutations'[q] = mutations[q]
  BY <1>1
<1>3. ~UNCHANGED mutations
  BY <1>2
<1>4. ASSUME NEW q, NEW kind, NEW by, Mutate(q, kind, by) PROVE FALSE
  <2> DEFINE m == [kind |-> kind, by |-> by]
  <2>1. mutations' = [mutations EXCEPT ![q] = Append(@, m)]
    BY <1>4 DEF Mutate
  <2> HIDE DEF m
  <2>2. mutations'[r] = mutations[r] \/ mutations'[r] = Append(mutations[r], m)
    BY <1>1, <2>1
  <2>3. Len(Append(mutations[r], m)) = Len(mutations[r]) + 1
    BY <1>1, ChainAppend
  <2>. QED BY <1>2, <2>2, <2>3
<1>5. ASSUME NEW q \in Runs, Commit(q) PROVE q = r
  <2>1. mutations[q] # << >> /\ mutations' = [mutations EXCEPT ![q] = Tail(@)]
    BY <1>5 DEF Commit, CommitExecution, CommitCancel, CommitApproval, CommitExpiry, Committing
  <2>2. Len(mutations'[q]) = Len(mutations[q]) - 1 /\ Len(mutations[q]) \in Nat
    BY <1>1, <2>1
  <2>. QED BY <1>2, <2>2
<1>6. ASSUME NEW q \in Runs, RunStep(q) PROVE Commit(r)
  <2>1. UNCHANGED mutations \/ Commit(q) \/ Mutate(q, "cancel", "admission")
    BY <1>6 DEF RunStep, AdmissionContinue, Commit, CancelContinue, TimerFires,
       ReleaseContinue, ReleaseFails, InitRun
  <2>. QED BY <1>3, <1>4, <1>5, <2>1
<1>7. ASSUME NEW s \in Slots, ExecutionStep(s) \/ BodyStep(s) PROVE FALSE
  BY <1>3, <1>4, <1>7 DEF ExecutionStep, BodyStep, ExecBody, ExecRefused, ExecUnread,
     ExecSettled, TaskFinally, BodyReturns, BodyFails, ExecStep, ExecCatch
<1>8. ASSUME NEW g \in Registrations, PluginStep(g) PROVE FALSE
  BY <1>3, <1>4, <1>8 DEF PluginStep, RecoverContinue, RecoverResume, RecoverFails,
     DisposeAdmitted, DisposeContinue, DisposeResume, DisposeDrained, DisposeFails
<1>9. HostStep => Boot
  BY <1>3, <1>4 DEF HostStep, DrainContinue, DrainFails, DrainFinally, StopAbort, StopTasks,
     StopEnd, InitDone
<1>10. Environment => Crash
  BY <1>3, <1>4 DEF Environment, Start, Cancel, Review, UserCommand, Register, Dispose,
     StopBegin
<1>. QED BY <1>3, <1>6, <1>7, <1>8, <1>9, <1>10 DEF Next, Tick

-----------------------------------------------------------------------------

\* An execution begins to wait for an update in the step that chains it.
LEMMA ExecutionWaits ==
    ASSUME BoundInv, [Next]_vars, NEW s \in Slots, NEW kind \in ExecutionKinds,
           exec'[s].pc = Awaits(kind)
    PROVE  \/ exec[s].pc = Awaits(kind) /\ exec'[s].run = exec[s].run
           \/ Mutate(exec'[s].run, kind, s)
<1>1. exec \in [Slots -> ExecRecords] /\ TypeOK
  BY DEF BoundInv, TypeOK, ExecutionOK
<1>2. Awaits(kind) \in AwaitPcs
  BY DEF Awaits, AwaitPcs
<1>3. ~Boot /\ ~Crash
  BY <1>2 DEF Boot, Crash, Fresh, NoExec, AwaitPcs
<1>4. CASE exec[s].pc = Awaits(kind)
  BY <1>2, <1>3, <1>4, RunKept DEF AwaitPcs
<1>5. CASE exec[s].pc # Awaits(kind)
  <2>1. ASSUME NEW r \in Runs, CommitExecution(r) PROVE FALSE
    <3>1. \/ \E who : exec' = [exec EXCEPT ![who].pc = Told(Head(mutations[r]).kind, TRUE)]
          \/ \E who : exec' = [exec EXCEPT ![who].pc = Told(Head(mutations[r]).kind, FALSE)]
      BY <2>1 DEF CommitExecution
    <3>2. \A k, ok : Told(k, ok) \notin AwaitPcs
      BY DEF Told, AwaitPcs
    <3>3. PICK by, pc : exec' = [exec EXCEPT ![by].pc = pc] /\ pc \notin AwaitPcs
      BY <3>1, <3>2
    <3>4. exec'[s].pc = exec[s].pc \/ exec'[s].pc = pc
      BY <1>1, <3>3 DEF ExecRecords
    <3>. QED BY <1>2, <1>5, <3>3, <3>4
  <2>2. ASSUME NEW t \in Slots, ExecutionStep(t) \/ BodyStep(t)
        PROVE  Mutate(exec'[s].run, kind, s)
    <3>1. CASE ExecBody(t) \/ ExecSettled(t) \/ TaskFinally(t)
      BY <1>1, <1>2, <1>5, <3>1 DEF ExecBody, ExecSettled, TaskFinally, ExecStep, NoExec,
         AwaitPcs, ExecRecords
    <3>2. CASE ExecRefused(t) \/ ExecUnread(t) \/ BodyFails(t)
      <4>1. /\ exec' = [exec EXCEPT ![t].pc = "failing", ![t].aborted = TRUE]
            /\ Mutate(exec[t].run, "fail", t)
        BY <3>2 DEF ExecRefused, ExecUnread, BodyFails, ExecCatch
      <4>2. t = s /\ exec'[s].pc = "failing" /\ exec'[s].run = exec[s].run
        BY <1>1, <1>5, <4>1 DEF ExecRecords
      <4>3. kind = "fail"
        BY <4>2 DEF Awaits, ExecutionKinds
      <4>. QED BY <4>1, <4>2, <4>3
    <3>3. CASE BodyReturns(t)
      <4>1. exec' = [exec EXCEPT ![t].pc = "reviewing"] /\ Mutate(exec[t].run, "review", t)
        BY <3>3 DEF BodyReturns, ExecStep
      <4>2. t = s /\ exec'[s].pc = "reviewing" /\ exec'[s].run = exec[s].run
        BY <1>1, <1>5, <4>1 DEF ExecRecords
      <4>3. kind = "review"
        BY <4>2 DEF Awaits, ExecutionKinds
      <4>. QED BY <4>1, <4>2, <4>3
    <3>. QED BY <2>2, <3>1, <3>2, <3>3 DEF ExecutionStep, BodyStep
  <2>3. CASE DrainContinue
    <3>1. PICK t \in Slots \ Busy :
             /\ exec' = [exec EXCEPT ![t] = [pc |-> "starting", run |-> drain.id,
                                             reg |-> drain.reg, aborted |-> FALSE]]
             /\ Mutate(drain.id, "start", t)
      BY <1>5, <2>3 DEF DrainContinue, execution
    <3>2. t = s /\ exec'[s].pc = "starting" /\ exec'[s].run = drain.id
      BY <1>1, <1>5, <3>1
    <3>3. kind = "start"
      BY <3>2 DEF Awaits, ExecutionKinds
    <3>. QED BY <3>1, <3>2, <3>3
  <2>4. ~SamePc
    BY <1>5 DEF SamePc
  <2>5. ~Restarts
    BY <1>2 DEF Restarts, NoExec, AwaitPcs
  <2>. QED BY <1>1, <2>1, <2>2, <2>3, <2>4, <2>5, ExecutionSteps
<1>. QED BY <1>4, <1>5

LEMMA ExecutionsStep ==
    ASSUME BoundInv, ExecStored', ExecutionsAnswered, [Next]_vars
    PROVE  ExecutionsAnswered'
<1>. SUFFICES ASSUME NEW s \in Slots, NEW kind \in ExecutionKinds, exec'[s].pc = Awaits(kind)
              PROVE  Chained(exec[s].run, kind, s)'
  BY DEF ExecutionsAnswered
<1>1. TypeOK /\ exec'[s].run \in Runs
  BY DEF BoundInv, ExecStored, Busy, Awaits
<1>2. CASE Mutate(exec'[s].run, kind, s)
  BY <1>1, <1>2, MutateChains DEF Chained
<1>3. CASE exec[s].pc = Awaits(kind) /\ exec'[s].run = exec[s].run
  <2>1. Chained(exec[s].run, kind, s)
    BY <1>3 DEF ExecutionsAnswered
  <2>2. ~Boot /\ ~Crash
    BY DEF Boot, Crash, Fresh, NoExec, Awaits
  <2>3. ASSUME NEW r \in Runs, Commits(r), Head(mutations[r]).kind = kind,
               Head(mutations[r]).by = s
        PROVE  FALSE
    <3>1. CommitExecution(r)
      BY <1>1, <2>2, <2>3, CommitActions DEF Commit, CommitCancel, CommitApproval,
         CommitExpiry, ExecutionKinds, CancelKinds
    <3>2. PICK ok \in BOOLEAN : exec' = [exec EXCEPT ![s].pc = Told(kind, ok)]
      BY <2>3, <3>1 DEF CommitExecution
    <3>3. exec'[s].pc = Told(kind, ok)
      BY <1>1, <3>2 DEF TypeOK, ExecutionOK, ExecRecords
    <3>. QED BY <3>3 DEF Told, Awaits
  <2>. QED BY <1>1, <1>3, <2>1, <2>2, <2>3, ChainedKept
<1>. QED BY <1>2, <1>3, ExecutionWaits

-----------------------------------------------------------------------------

\* Only the end of its task frees a slot.
LEMMA BusyKept ==
    ASSUME BoundInv, [Next]_vars, NEW t \in Busy, ~TaskFinally(t), ~Boot, ~Crash
    PROVE  t \in Busy' /\ exec'[t].run = exec[t].run
<1>1. exec \in [Slots -> ExecRecords] /\ t \in Slots
  BY DEF BoundInv, TypeOK, ExecutionOK, Busy
<1>2. CASE SameSlots
  BY <1>1, <1>2 DEF SameSlots, Busy
<1>3. CASE DrainContinue
  <2>1. \/ UNCHANGED exec
        \/ \E s \in Slots \ Busy : \E x : exec' = [exec EXCEPT ![s] = x]
    BY <1>3 DEF DrainContinue, execution
  <2>2. exec'[t] = exec[t]
    BY <1>1, <2>1
  <2>. QED BY <1>1, <2>2 DEF Busy
<1>4. ASSUME NEW s \in Slots, TaskFinally(s) PROVE exec'[t] = exec[t]
  BY <1>1, <1>4 DEF TaskFinally
<1>. QED BY <1>1, <1>2, <1>3, <1>4, SlotSteps DEF Busy

\* A run's task is its unfinished execution.
LEMMA TasksBusyStep ==
    ASSUME BoundInv, TasksBusy, [Next]_vars
    PROVE  TasksBusy'
<1>. SUFFICES ASSUME NEW r \in Runs, tasks'[r] # None
              PROVE  tasks'[r] \in Busy' /\ exec'[tasks'[r]].run = r
  BY DEF TasksBusy
<1>1. /\ tasks \in [Runs -> Slots \cup {None}] /\ exec \in [Slots -> ExecRecords]
      /\ None \notin Slots
  BY RuntimeConstants DEF BoundInv, TypeOK, ExecutionOK
<1>2. ~Boot /\ ~Crash
  BY DEF Boot, Crash, Fresh
<1>3. ASSUME tasks'[r] = tasks[r], ~TaskFinally(tasks[r])
      PROVE  tasks'[r] \in Busy' /\ exec'[tasks'[r]].run = r
  <2>1. tasks[r] \in Busy /\ exec[tasks[r]].run = r
    BY <1>3 DEF TasksBusy
  <2>. QED BY <1>2, <1>3, <2>1, BusyKept
<1>4. ASSUME NEW s \in Slots, TaskFinally(s)
      PROVE  tasks'[r] = tasks[r] /\ ~TaskFinally(tasks[r])
  <2>1. ASSUME NEW t \in Slots, TaskFinally(t)
        PROVE  tasks'[r] = tasks[r] /\ exec[t].run # r
    BY <1>1, <2>1 DEF TaskFinally
  <2>. QED BY <1>1, <1>4, <2>1 DEF TasksBusy, Busy
<1>5. CASE DrainContinue
  <2>1. CASE UNCHANGED execution
    <3>1. ~TaskFinally(tasks[r])
      BY <1>5, <2>1 DEF DrainContinue, TaskFinally, execution, BoundInv, TypeOK, ExecutionOK
    <3>. QED BY <1>3, <2>1, <3>1 DEF execution
  <2>2. ASSUME NEW s \in Slots \ Busy, tasks' = [tasks EXCEPT ![drain.id] = s],
               exec' = [exec EXCEPT ![s] = [pc |-> "starting", run |-> drain.id,
                                            reg |-> drain.reg, aborted |-> FALSE]]
        PROVE  tasks'[r] \in Busy' /\ exec'[tasks'[r]].run = r
    <3>1. CASE r = drain.id
      BY <1>1, <2>2, <3>1 DEF Busy
    <3>2. CASE r # drain.id
      <4>1. tasks'[r] = tasks[r] /\ tasks[r] \in Busy /\ exec[tasks[r]].run = r
        BY <1>1, <2>2, <3>2 DEF TasksBusy
      <4>2. exec'[tasks[r]] = exec[tasks[r]] /\ tasks[r] \in Slots
        BY <1>1, <2>2, <4>1 DEF Busy
      <4>. QED BY <4>1, <4>2 DEF Busy
    <3>. QED BY <3>1, <3>2
  <2>. QED BY <1>5, <2>1, <2>2 DEF DrainContinue
<1>6. CASE UNCHANGED tasks
  BY <1>1, <1>3, <1>4, <1>6 DEF TasksBusy, Busy
<1>. QED BY <1>2, <1>3, <1>4, <1>5, <1>6, CounterSteps

-----------------------------------------------------------------------------

\* What the commit of a cancellation leaves, and to whom.
LEMMA CancelTold ==
    ASSUME TypeOK, NEW r \in Runs, CommitCancel(r)
    PROVE  LET by == Head(mutations[r]).by
           IN  \/ by \in cancels'[r]
               \/ /\ by = "admission" => admission'[r].pc = "done"
                  /\ by \in Registrations => disposer'[by].pc = "rejected"
<1>1. /\ cancels \in [Runs -> SUBSET Callers] /\ admission \in [Runs -> AdmissionRecords]
      /\ disposer \in [Registrations -> DisposerRecords]
  BY DEF TypeOK, CallersOK, PluginsOK
<1>. QED BY <1>1 DEF CommitCancel, AdmissionRecords, DisposerRecords

\* An announced cancellation stays until its caller continues.
LEMMA CancelsKept ==
    ASSUME TypeOK, [Next]_vars, NEW r \in Runs, NEW c \in cancels[r]
    PROVE  c \in cancels'[r] \/ CancelContinue(r, c) \/ Boot \/ Crash
<1>. USE DEF vars, beyondPlugins, beyondHost, callers
<1>1. cancels \in [Runs -> SUBSET Callers]
  BY DEF TypeOK, CallersOK
<1>2. ASSUME NEW q \in Runs, RunStep(q)
      PROVE  c \in cancels'[r] \/ CancelContinue(r, c)
  <2>1. \/ UNCHANGED cancels
        \/ \E d : cancels' = [cancels EXCEPT ![q] = @ \cup {d}]
        \/ \E d \in Callers : /\ CancelContinue(q, d)
                              /\ cancels' = [cancels EXCEPT ![q] = @ \ {d}]
    BY <1>2 DEF RunStep, AdmissionContinue, CommitExecution, CommitCancel, CommitApproval,
       CommitExpiry, CancelContinue, TimerFires, ReleaseContinue, ReleaseFails, InitRun
  <2>. QED BY <1>1, <2>1
<1>3. ASSUME NEW s \in Slots, ExecutionStep(s) \/ BodyStep(s) PROVE UNCHANGED cancels
  BY <1>3 DEF ExecutionStep, BodyStep, ExecBody, ExecRefused, ExecUnread, ExecSettled,
     TaskFinally, BodyReturns, BodyFails, ExecStep, ExecCatch
<1>4. ASSUME NEW g \in Registrations, PluginStep(g) PROVE UNCHANGED cancels
  BY <1>4 DEF PluginStep, RecoverContinue, RecoverResume, RecoverFails, DisposeAdmitted,
     DisposeContinue, DisposeResume, DisposeDrained, DisposeFails
<1>5. HostStep => UNCHANGED cancels \/ Boot
  BY DEF HostStep, DrainContinue, DrainFails, DrainFinally, StopAbort, StopTasks, StopEnd,
     InitDone
<1>6. Environment => UNCHANGED cancels \/ Crash
  BY DEF Environment, Start, Cancel, Review, UserCommand, Register, Dispose, StopBegin
<1>. QED BY <1>2, <1>3, <1>4, <1>5, <1>6 DEF Next, Tick

\* A cancellation is on its way to the caller that waits for it.
CancelDue(r, c) == Chained(r, "cancel", c) \/ c \in cancels[r]

LEMMA CancelUnderway ==
    ASSUME TypeOK, [Next]_vars, NEW r \in Runs, NEW c, CancelDue(r, c)
    PROVE  \/ CancelDue(r, c)'
           \/ CancelContinue(r, c)
           \/ /\ c = "admission" => admission'[r].pc = "done"
              /\ c \in Registrations => disposer'[c].pc = "rejected"
           \/ Boot \/ Crash
<1>1. CASE c \in cancels[r]
  BY <1>1, CancelsKept DEF CancelDue
<1>2. CASE Chained(r, "cancel", c)
  <2>1. ASSUME Commits(r), Head(mutations[r]).kind = "cancel", Head(mutations[r]).by = c
        PROVE  CommitCancel(r) \/ Boot \/ Crash
    BY <2>1, CommitActions DEF Commit, CommitExecution, CommitApproval, CommitExpiry,
       ExecutionKinds
  <2>. QED BY <1>2, <2>1, ChainedKept, CancelTold DEF CancelDue
<1>. QED BY <1>1, <1>2 DEF CancelDue

LEMMA AdmissionsAnsweredStep ==
    ASSUME TypeOK, AdmissionsAnswered, [Next]_vars
    PROVE  AdmissionsAnswered'
<1>. SUFFICES ASSUME NEW r \in Runs, admission'[r].pc = "cancelling"
              PROVE  CancelDue(r, "admission")'
  BY DEF AdmissionsAnswered, CancelDue
<1>1. admission \in [Runs -> AdmissionRecords] /\ \A q \in Runs : admission[q] \in AdmissionRecords
  BY DEF TypeOK, CallersOK
<1>2. ~Boot /\ ~Crash
  BY DEF Boot, Crash, Fresh
<1>3. CASE admission[r].pc = "cancelling"
  <2>1. ~CancelContinue(r, "admission")
    BY <1>1 DEF CancelContinue, AdmissionRecords
  <2>2. CancelDue(r, "admission")
    BY <1>3 DEF AdmissionsAnswered, CancelDue
  <2>. QED BY <1>2, <2>1, <2>2, CancelUnderway
<1>4. CASE admission[r].pc # "cancelling"
  <2>1. ASSUME NEW q \in Runs, NEW g \in Registrations, NEW at \in Schedules, Start(q, g, at)
        PROVE  FALSE
    BY <1>1, <1>4, <2>1 DEF Start
  <2>2. Mutate(r, "cancel", "admission")
    BY <1>1, <1>4, <2>1, AdmissionSteps DEF AdmissionRecords
  <2>. QED BY <2>2, MutateChains DEF CancelDue
<1>. QED BY <1>3, <1>4

LEMMA RecoveriesAnsweredStep ==
    ASSUME TypeOK, RecoveriesAnswered, [Next]_vars
    PROVE  RecoveriesAnswered'
<1>. SUFFICES ASSUME NEW g \in Registrations, recovery'[g].pc = "failing"
              PROVE  Chained(recovery[g].id, "expire", g)'
  BY DEF RecoveriesAnswered
<1>. PICK r : r = recovery'[g].id
  OBVIOUS
<1>1. Fails(g, r)'
  BY DEF Fails
<1>2. ~Boot /\ ~Crash
  BY DEF Boot, Crash, Fresh, NoRecovery
<1>3. CASE Fails(g, r)
  <2>1. Chained(r, "expire", g)
    BY <1>3 DEF Fails, RecoveriesAnswered
  <2>2. ASSUME r \in Runs, Commits(r), Head(mutations[r]).kind = "expire",
               Head(mutations[r]).by = g
        PROVE  FALSE
    <3>1. CommitExpiry(r)
      BY <1>2, <2>2, CommitActions DEF Commit, CommitExecution, CommitApproval, CommitCancel,
         ExecutionKinds, CancelKinds
    <3>2. PICK pc \in {"next", "rejected"} : recovery' = [recovery EXCEPT ![g].pc = pc]
      BY <2>2, <3>1 DEF CommitExpiry
    <3>3. recovery'[g].pc = pc
      BY <3>2 DEF TypeOK, PluginsOK, RecoveryRecords
    <3>. QED BY <3>3
  <2>3. Chained(r, "expire", g)'
    BY <1>2, <2>1, <2>2, ChainedKept
  <2>. QED BY <2>3 DEF Chained
<1>4. CASE Reads(g, r) /\ Mutate(r, "expire", g)
  <2>1. r \in Runs
    BY <1>4 DEF Reads, TypeOK, ReadingOK
  <2>. QED BY <1>4, <2>1, MutateChains
<1>. QED BY <1>1, <1>3, <1>4, FailsFrom

LEMMA DisposersAnsweredStep ==
    ASSUME TypeOK, DisposersAnswered, [Next]_vars
    PROVE  DisposersAnswered'
<1>. SUFFICES ASSUME NEW g \in Registrations, disposer'[g].pc = "cancelling"
              PROVE  disposer'[g].id \in Runs /\ CancelDue(disposer[g].id, g)'
  BY DEF DisposersAnswered, CancelDue
<1>1. /\ disposer \in [Registrations -> DisposerRecords]
      /\ \A h \in Registrations : disposer[h] \in DisposerRecords
  BY DEF TypeOK, PluginsOK
<1>2. ~Boot /\ ~Crash
  BY DEF Boot, Crash, Fresh, NoDisposer
<1>3. CASE /\ DisposeContinue(g) /\ SamePlan(g) /\ Mutate(disposer[g].id, "cancel", g)
  <2>1. disposer'[g].id = disposer[g].id /\ disposer[g].id \in Runs
    BY <1>3 DEF SamePlan, DisposeContinue, TypeOK, ReadingOK
  <2>. QED BY <1>3, <2>1, MutateChains DEF CancelDue
<1>4. CASE disposer'[g].pc = disposer[g].pc /\ disposer'[g].id = disposer[g].id
  <2>. PICK r : r = disposer[g].id
    OBVIOUS
  <2>1. r \in Runs /\ CancelDue(r, g)
    BY <1>4 DEF DisposersAnswered, CancelDue
  <2>2. ~CancelContinue(r, g)
    BY <1>1, <1>4 DEF CancelContinue, DisposerRecords
  <2>3. CancelDue(r, g)'
    BY <1>2, <1>4, <2>1, <2>2, CancelUnderway
  <2>. QED BY <1>4, <2>1, <2>3 DEF CancelDue, Chained
<1>5. DisposerMoves(g)
  BY DisposerMovesStep
<1>. QED BY <1>3, <1>4, <1>5 DEF DisposerMoves, SamePlan, Turns, WalksOn

-----------------------------------------------------------------------------

\* A disposer begins to await the tasks that runs have, and is told of those that end.
LEMMA DisposerTasks ==
    ASSUME TypeOK, [Next]_vars, NEW g \in Registrations, NEW t \in disposer'[g].slots
    PROVE  /\ ~TaskFinally(t) /\ ~Boot /\ ~Crash
           /\ t \in disposer[g].slots \/ t \in TasksOf(Runs)
<1>. USE DEF vars, beyondPlugins, beyondHost, plugins
<1>1. /\ disposer \in [Registrations -> DisposerRecords]
      /\ \A h \in Registrations : disposer[h] \in DisposerRecords
  BY DEF TypeOK, PluginsOK
<1>2. ~Boot /\ ~Crash
  BY DEF Boot, Crash, Fresh, NoDisposer
<1>3. ASSUME NEW s \in Slots, TaskFinally(s) PROVE t \in disposer[g].slots \ {s}
  <2>1. disposer'[g] = [disposer[g] EXCEPT !.slots = @ \ {s}]
    BY <1>3 DEF TaskFinally
  <2>. QED BY <1>1, <2>1 DEF DisposerRecords
<1>4. ~TaskFinally(t)
  <2>1. t \in Slots
    BY TypeStep DEF TypeOK, PluginsOK, DisposerRecords
  <2>. QED BY <1>3, <2>1
<1> DEFINE Goal == t \in disposer[g].slots \/ t \in TasksOf(Runs)
<1>5. ASSUME UNCHANGED disposer PROVE Goal
  BY <1>5
<1>6. ASSUME NEW h, NEW pc, disposer' = [disposer EXCEPT ![h].pc = pc] PROVE Goal
  BY <1>1, <1>6 DEF DisposerRecords
<1>7. ASSUME NEW h \in Registrations, NEW ids \in SUBSET Runs, NEW todo, DisposeNext(h, ids, todo)
      PROVE  Goal
  <2>1. disposer'[g].slots \in {disposer[g].slots, TasksOf(ids)}
    <3>1. CASE h # g
      BY <1>1, <1>7, <3>1 DEF DisposeNext
    <3>2. CASE h = g
      <4>1. \/ \E r \in todo : disposer'[g] =
                  [disposer[g] EXCEPT !.pc = "reading", !.ids = ids, !.todo = todo \ {r},
                                      !.id = r, !.seen = run[r].status]
            \/ disposer'[g] =
                  [disposer[g] EXCEPT !.pc = "draining", !.ids = {}, !.todo = {},
                                      !.id = None, !.seen = "absent", !.slots = TasksOf(ids)]
        BY <1>1, <1>7, <3>2 DEF DisposeNext
      <4>. QED BY <1>1, <4>1 DEF DisposerRecords
    <3>. QED BY <3>1, <3>2
  <2>2. TasksOf(ids) \subseteq TasksOf(Runs)
    BY DEF TasksOf
  <2>. QED BY <2>1, <2>2
<1>8. ASSUME NEW h \in Registrations, PluginStep(h) PROVE Goal
  <2>1. disposer[h].ids \in SUBSET Runs /\ {r \in Runs : accepted[r] = h} \in SUBSET Runs
    BY <1>1 DEF DisposerRecords
  <2>2. \/ UNCHANGED disposer
        \/ \E pc : disposer' = [disposer EXCEPT ![h].pc = pc]
        \/ \E todo : \E ids \in SUBSET Runs : DisposeNext(h, ids, todo)
    BY <1>8, <2>1 DEF PluginStep, RecoverContinue, RecoverResume, RecoverFails,
       DisposeAdmitted, DisposeContinue, DisposeResume, DisposeDrained, DisposeFails
  <2> HIDE DEF Goal
  <2>. QED BY <1>5, <1>6, <1>7, <2>2
<1>9. ASSUME NEW h \in Registrations, Dispose(h) PROVE Goal
  BY <1>1, <1>9 DEF Dispose, DisposerRecords
<1> HIDE DEF Goal
<1>10. ASSUME NEW r \in Runs, RunStep(r) PROVE Goal
  <2>1. UNCHANGED disposer \/ \E h, pc : disposer' = [disposer EXCEPT ![h].pc = pc]
    BY <1>10 DEF RunStep, AdmissionContinue, CommitExecution, CommitCancel, CommitApproval,
       CommitExpiry, CancelContinue, TimerFires, ReleaseContinue, ReleaseFails, InitRun
  <2>. QED BY <1>5, <1>6, <2>1
<1>11. ASSUME NEW s \in Slots, ExecutionStep(s) \/ BodyStep(s) PROVE Goal
  <2>1. UNCHANGED disposer \/ TaskFinally(s)
    BY <1>11 DEF ExecutionStep, BodyStep, ExecBody, ExecRefused, ExecUnread, ExecSettled,
       BodyReturns, BodyFails, ExecStep, ExecCatch
  <2>. QED BY <1>3, <1>5, <2>1 DEF Goal
<1>12. HostStep => UNCHANGED disposer
  BY <1>2 DEF HostStep, DrainContinue, DrainFails, DrainFinally, StopAbort, StopTasks, StopEnd,
     InitDone
<1>13. Environment =>
         \/ UNCHANGED disposer
         \/ \E h \in Registrations :
               Dispose(h) \/ disposer' = [disposer EXCEPT ![h].pc = "registered"]
  BY <1>2 DEF Environment, Start, Cancel, Review, UserCommand, Register, StopBegin
<1>14. Goal
  BY <1>5, <1>6, <1>8, <1>9, <1>10, <1>11, <1>12, <1>13 DEF Next, Tick
<1>. QED BY <1>2, <1>4, <1>14 DEF Goal

\* So does the stop effect; and the updates it awaits are those that are chained.
StopMoves ==
    /\ \/ stop'.slots = stop.slots
       \/ \E s \in Slots : TaskFinally(s) /\ stop'.slots = stop.slots \ {s}
       \/ stop'.slots = TasksOf(Runs)
       \/ Boot \/ Crash
    /\ \/ stop'.chains = stop.chains
       \/ \E r \in Runs, ok \in BOOLEAN : Committing(r, ok)
       \/ stop'.chains = [r \in Runs |-> Len(mutations[r])] /\ UNCHANGED mutations
       \/ Boot \/ Crash

LEMMA StopMovesStep == TypeOK /\ [Next]_vars => StopMoves
<1>. SUFFICES ASSUME TypeOK, [Next]_vars PROVE StopMoves
  OBVIOUS
<1>. USE DEF vars, beyondPlugins, beyondHost, phase
<1>1. stop \in StopRecords
  BY DEF TypeOK, PhaseOK
<1>2. ASSUME UNCHANGED stop PROVE StopMoves
  BY <1>2 DEF StopMoves
<1>3. ASSUME NEW pc, stop' = [stop EXCEPT !.pc = pc] PROVE StopMoves
  BY <1>1, <1>3 DEF StopMoves, StopRecords
<1>4. ASSUME NEW r \in Runs, NEW ok \in BOOLEAN, Committing(r, ok) PROVE StopMoves
  <2>1. \E chains : stop' = [stop EXCEPT !.chains = chains]
    BY <1>1, <1>4 DEF Committing, StopRecords
  <2>2. stop'.slots = stop.slots
    BY <1>1, <2>1 DEF StopRecords
  <2>. QED BY <1>4, <2>2 DEF StopMoves
<1>5. ASSUME NEW s \in Slots, TaskFinally(s) PROVE StopMoves
  <2>1. stop'.slots = stop.slots \ {s} /\ stop'.chains = stop.chains
    BY <1>1, <1>5 DEF TaskFinally, StopRecords
  <2>. QED BY <1>5, <2>1 DEF StopMoves
<1>6. CASE StopAbort
  <2>1. stop'.slots = TasksOf(Runs) /\ stop'.chains = stop.chains
    BY <1>1, <1>6 DEF StopAbort, StopRecords
  <2>. QED BY <2>1 DEF StopMoves
<1>7. CASE StopTasks
  <2>1. /\ stop'.slots = stop.slots /\ UNCHANGED mutations
        /\ stop'.chains = [r \in Runs |-> Len(mutations[r])]
    BY <1>1, <1>7 DEF StopTasks, StopRecords
  <2>. QED BY <2>1 DEF StopMoves
<1>8. ASSUME NEW r \in Runs, RunStep(r) PROVE StopMoves
  <2>1. UNCHANGED stop \/ \E ok \in BOOLEAN : Committing(r, ok)
    BY <1>8 DEF RunStep, AdmissionContinue, CommitExecution, CommitCancel, CommitApproval,
       CommitExpiry, CancelContinue, TimerFires, ReleaseContinue, ReleaseFails, InitRun
  <2>. QED BY <1>2, <1>4, <2>1
<1>9. ASSUME NEW s \in Slots, ExecutionStep(s) \/ BodyStep(s)
      PROVE  UNCHANGED stop \/ TaskFinally(s)
  BY <1>9 DEF ExecutionStep, BodyStep, ExecBody, ExecRefused, ExecUnread, ExecSettled,
     BodyReturns, BodyFails, ExecStep, ExecCatch
<1>10. ASSUME NEW g \in Registrations, PluginStep(g) PROVE UNCHANGED stop
  BY <1>10 DEF PluginStep, RecoverContinue, RecoverResume, RecoverFails, DisposeAdmitted,
     DisposeContinue, DisposeResume, DisposeDrained, DisposeFails
<1>11. HostStep => \/ UNCHANGED stop \/ StopAbort \/ StopTasks \/ Boot
                   \/ stop' = [stop EXCEPT !.pc = "ended"]
  BY DEF HostStep, DrainContinue, DrainFails, DrainFinally, StopEnd, InitDone
<1>12. Environment => UNCHANGED stop \/ Crash \/ stop' = [stop EXCEPT !.pc = "admissions"]
  BY DEF Environment, Start, Cancel, Review, UserCommand, Register, Dispose, StopBegin
<1>13. ASSUME Boot \/ Crash PROVE StopMoves
  BY <1>13 DEF StopMoves
<1>. QED BY <1>2, <1>3, <1>5, <1>6, <1>7, <1>8, <1>9, <1>10, <1>11, <1>12, <1>13 DEF Next, Tick

LEMMA StopTasksAwaited ==
    ASSUME TypeOK, [Next]_vars, NEW t \in stop'.slots
    PROVE  /\ ~TaskFinally(t) /\ ~Boot /\ ~Crash
           /\ t \in stop.slots \/ t \in TasksOf(Runs)
<1>1. /\ stop \in StopRecords /\ t \in Slots
  BY TypeStep DEF TypeOK, PhaseOK, StopRecords
<1>2. ~Boot /\ ~Crash
  BY DEF Boot, Crash, Fresh
<1>3. ~TaskFinally(t)
  BY <1>1 DEF TaskFinally, StopRecords
<1>. QED BY <1>2, <1>3, StopMovesStep DEF StopMoves

\* The stop effect's view of a chain shrinks with the chain.
LEMMA ChainsFollowedStep ==
    ASSUME TypeOK, ChainsFollowed, [Next]_vars
    PROVE  ChainsFollowed'
<1>. SUFFICES ASSUME NEW r \in Runs PROVE stop'.chains[r] <= Len(mutations'[r])
  BY DEF ChainsFollowed
<1>1. /\ stop \in StopRecords /\ stop.chains \in [Runs -> Nat] /\ stop.chains[r] \in Nat
      /\ stop' \in StopRecords /\ stop'.chains[r] \in Nat
      /\ mutations[r] \in Seq(Mutations) /\ mutations'[r] \in Seq(Mutations)
      /\ stop.chains[r] <= Len(mutations[r])
      /\ Len(mutations[r]) \in Nat /\ Len(mutations'[r]) \in Nat
  BY TypeStep DEF TypeOK, PhaseOK, MutationsOK, StopRecords, ChainsFollowed
<1>2. ASSUME NEW q \in Runs, NEW ok \in BOOLEAN, Committing(q, ok)
      PROVE  /\ stop'.chains = [stop.chains EXCEPT ![q] = IF @ = 0 THEN 0 ELSE @ - 1]
             /\ mutations' = [mutations EXCEPT ![q] = Tail(@)] /\ mutations[q] # << >>
  BY <1>1, <1>2 DEF Committing, StopRecords
<1>3. CASE \E q \in Runs, ok \in BOOLEAN : Committing(q, ok)
  <2>1. PICK q \in Runs, ok \in BOOLEAN : Committing(q, ok)
    BY <1>3
  <2>2. CASE q = r
    <3>1. mutations'[r] = Tail(mutations[r]) /\ mutations[r] # << >>
      BY <1>2, <2>1, <2>2 DEF TypeOK, MutationsOK
    <3>2. Len(mutations'[r]) = Len(mutations[r]) - 1
      BY <1>1, <3>1
    <3>3. stop'.chains[r] = IF stop.chains[r] = 0 THEN 0 ELSE stop.chains[r] - 1
      BY <1>1, <1>2, <2>1, <2>2
    <3>. QED BY <1>1, <3>2, <3>3
  <2>3. CASE q # r
    BY <1>1, <1>2, <2>1, <2>3 DEF TypeOK, MutationsOK
  <2>. QED BY <2>2, <2>3
<1>4. CASE ~(\E q \in Runs, ok \in BOOLEAN : Committing(q, ok))
  <2>1. CASE Boot \/ Crash
    <3>1. stop'.chains[r] = 0
      BY <2>1 DEF Boot, Crash, Fresh
    <3>. QED BY <1>1, <3>1
  <2>2. CASE stop'.chains = [q \in Runs |-> Len(mutations[q])] /\ UNCHANGED mutations
    BY <1>1, <2>2
  <2>3. CASE ~Boot /\ ~Crash /\ stop'.chains = stop.chains
    <3>1. ASSUME NEW m, mutations'[r] = Append(mutations[r], m)
          PROVE  Len(mutations'[r]) = Len(mutations[r]) + 1
      BY <1>1, <3>1, ChainAppend
    <3>2. Len(mutations'[r]) >= Len(mutations[r])
      BY <1>1, <1>4, <2>3, <3>1, ChainSteps DEF Commits
    <3>. QED BY <1>1, <2>3, <3>2
  <2>. QED BY <1>4, <2>1, <2>2, <2>3, StopMovesStep DEF StopMoves
<1>. QED BY <1>3, <1>4

LEMMA TasksGoOnStep ==
    ASSUME BoundInv, TasksBusy, TasksGoOn, [Next]_vars
    PROVE  TasksGoOn'
<1>1. TypeOK
  BY DEF BoundInv
<1>2. TasksOf(Runs) \subseteq Busy
  BY DEF TasksOf, TasksBusy
<1>3. ASSUME NEW g \in Registrations, NEW t \in disposer'[g].slots PROVE t \in Busy'
  BY <1>1, <1>2, <1>3, DisposerTasks, BusyKept DEF TasksGoOn
<1>4. ASSUME NEW t \in stop'.slots PROVE t \in Busy'
  BY <1>1, <1>2, <1>4, StopTasksAwaited, BusyKept DEF TasksGoOn
<1>. QED BY <1>3, <1>4 DEF TasksGoOn

-----------------------------------------------------------------------------

LEMMA AnsweredInit == Init => AnsweredInv
<1>. SUFFICES ASSUME Init PROVE AnsweredInv
  OBVIOUS
<1>1. EarlyInv /\ BoundInv
  BY EarlyInit, BoundInit
<1>. USE DEF Init, Fresh
<1>2. ExecStored /\ TasksBusy
  BY DEF ExecStored, Busy, NoExec, TasksBusy
<1>3. ExecutionsAnswered /\ AdmissionsAnswered /\ RecoveriesAnswered /\ DisposersAnswered
  BY DEF ExecutionsAnswered, AdmissionsAnswered, RecoveriesAnswered, DisposersAnswered,
     NoExec, Awaits, NoRecovery, NoDisposer
<1>4. TasksGoOn /\ ChainsFollowed
  BY DEF TasksGoOn, ChainsFollowed, NoDisposer
<1>. QED BY <1>1, <1>2, <1>3, <1>4 DEF AnsweredInv, Answered

LEMMA AnsweredStep == AnsweredInv /\ [Next]_vars => AnsweredInv'
<1>. SUFFICES ASSUME AnsweredInv, [Next]_vars PROVE AnsweredInv'
  OBVIOUS
<1>1. /\ EarlyInv /\ BoundInv /\ TypeOK /\ ExecStored /\ TasksBusy
      /\ ExecutionsAnswered /\ AdmissionsAnswered /\ RecoveriesAnswered /\ DisposersAnswered
      /\ TasksGoOn /\ ChainsFollowed
  BY DEF AnsweredInv, Answered, BoundInv
<1>2. EarlyInv' /\ BoundInv' /\ ExecStored' /\ TasksBusy'
  BY <1>1, EarlyStep, BoundStep, ExecStoredStep, TasksBusyStep
<1>3. ExecutionsAnswered' /\ AdmissionsAnswered' /\ RecoveriesAnswered' /\ DisposersAnswered'
  BY <1>1, <1>2, ExecutionsStep, AdmissionsAnsweredStep, RecoveriesAnsweredStep,
     DisposersAnsweredStep
<1>4. TasksGoOn' /\ ChainsFollowed'
  BY <1>1, TasksGoOnStep, ChainsFollowedStep
<1>. QED BY <1>2, <1>3, <1>4 DEF AnsweredInv, Answered

\* Nobody waits for an answer that does not come: the update that an execution, an
\* admission, a recovery or a disposer awaits is still chained, or committed and about to be
\* told; a task that a disposer or the stop effect awaits has not ended; and the stop effect
\* awaits no more updates than are chained.
THEOREM NoneForgotten == Spec => []Answered
<1>1. AnsweredInv => Answered
  BY DEF AnsweredInv
<1>. QED BY <1>1, AnsweredInit, AnsweredStep, PTL DEF Spec

-----------------------------------------------------------------------------
(* The stop effect leaves every start() decided.                            *)
(*                                                                         *)
(* Whoever is queued belongs to an admission that has still to decide it,  *)
(* to the registration it was accepted for, to the parked schedules, or to *)
(* a recovery that is failing it (Owned), in a host that is stopping too:  *)
(* there a release need not hand its run on, but takes nothing from it.    *)
(* The stop effect waits for the admissions and for the recoveries, and    *)
(* none begins after that (StopSettled, StopQuiet).                        *)

Owned(r) ==
    \/ Admitted(r)
    \/ accepted[r] # None
    \/ r \in recoverable
    \/ \E g \in Registrations : Fails(g, r)

NoneDisowned ==
    host # "down" => \A r \in Runs : run[r].status = "queued" => r \in booting \/ Owned(r)

StopQuiet == StopPast => Recovering = {}

DecideInv ==
    /\ HeldInv /\ PromptInv
    /\ StopEnded /\ StopSettled /\ StopAwaited /\ StopQuiet /\ NoneDisowned

\* What takes a run from the parked ones.
LEMMA ParkedLeaves ==
    ASSUME [Next]_vars, NEW r \in Runs, r \in recoverable, r \notin recoverable'
    PROVE  \/ AdmissionContinue(r)
           \/ accepted[r] # None /\ UNCHANGED accepted
           \/ \E c \in Callers : CancelContinue(r, c)
           \/ \E g \in Registrations : RecoverContinue(g) /\ recovery[g].id = r
           \/ Boot \/ Crash
<1>. USE DEF vars, beyondPlugins, beyondHost, schedule
<1>1. \A q, acc, rec : ArmScheduledRun(q, acc, rec) \/ EnqueueRun(q, acc) =>
         recoverable' \in {rec, recoverable \ {q}}
  BY DEF ArmScheduledRun, EnqueueRun
<1>2. ASSUME NEW q \in Runs, RunStep(q)
      PROVE  \/ AdmissionContinue(r)
             \/ accepted[r] # None /\ UNCHANGED accepted
             \/ \E c \in Callers : CancelContinue(r, c)
  <2>1. CASE AdmissionContinue(q)
    <3>1. recoverable' \in {recoverable, recoverable \ {q}}
      BY <1>1, <2>1 DEF AdmissionContinue, EnqueueRun
    <3>. QED BY <2>1, <3>1
  <2>2. CASE ReleaseContinue(q)
    <3>1. \/ recoverable \subseteq recoverable'
          \/ /\ recoverable' \in {recoverable, recoverable \ {q}}
             /\ accepted[q] # None /\ UNCHANGED accepted
      BY <1>1, <2>2 DEF ReleaseContinue, Parked
    <3>. QED BY <3>1
  <2>3. ASSUME NEW c \in Callers, CancelContinue(q, c) PROVE CancelContinue(r, c)
    <3>1. recoverable' = recoverable \ {q}
      BY <2>3 DEF CancelContinue
    <3>. QED BY <2>3, <3>1
  <2>4. CASE InitRun(q)
    BY <2>4 DEF InitRun, Parked
  <2>. QED BY <1>2, <2>1, <2>2, <2>3, <2>4 DEF RunStep, CommitExecution, CommitCancel,
              CommitApproval, CommitExpiry, TimerFires, ReleaseFails
<1>3. ASSUME NEW s \in Slots, ExecutionStep(s) \/ BodyStep(s)
      PROVE  UNCHANGED recoverable
  BY <1>3 DEF ExecutionStep, BodyStep, ExecBody, ExecRefused, ExecUnread, ExecSettled,
     TaskFinally, BodyReturns, BodyFails, ExecStep, ExecCatch
<1>4. ASSUME NEW g \in Registrations, PluginStep(g)
      PROVE  RecoverContinue(g) /\ recovery[g].id = r
  <2>1. CASE RecoverContinue(g)
    <3>1. recoverable' \in {recoverable, recoverable \ {recovery[g].id}}
      BY <1>1, <2>1 DEF RecoverContinue
    <3>. QED BY <2>1, <3>1
  <2>. QED BY <1>4, <2>1 DEF PluginStep, RecoverResume, RecoverFails, DisposeAdmitted,
              DisposeContinue, DisposeResume, DisposeDrained, DisposeFails, Parked
<1>5. HostStep => UNCHANGED recoverable \/ Boot
  BY DEF HostStep, DrainContinue, DrainFails, DrainFinally, StopAbort, StopTasks, StopEnd,
     InitDone
<1>6. ASSUME Environment PROVE UNCHANGED recoverable \/ Crash
  <2>1. ASSUME NEW q \in Runs, NEW g \in Registrations, NEW at \in Schedules, Start(q, g, at)
        PROVE  UNCHANGED recoverable
    BY <2>1 DEF Start
  <2>. QED BY <1>6, <2>1 DEF Environment, Cancel, Review, UserCommand, Register, Dispose,
              StopBegin
<1>. QED BY <1>2, <1>3, <1>4, <1>5, <1>6 DEF Next, Tick

\* What ends an admission.
LEMMA AdmissionLeaves ==
    ASSUME TypeOK, [Next]_vars, NEW r \in Runs, Admitted(r), ~Admitted(r)'
    PROVE  \/ AdmissionContinue(r)
           \/ CommitCancel(r) /\ admission'[r] # admission[r]
           \/ \E c \in Callers : CancelContinue(r, c)
           \/ Boot \/ Crash
<1>. USE DEF vars, beyondPlugins, beyondHost, callers
<1>1. admission \in [Runs -> AdmissionRecords] /\ admission'[r] # admission[r]
  BY DEF TypeOK, CallersOK, Admitted
<1>2. ASSUME NEW q \in Runs, RunStep(q)
      PROVE  \/ AdmissionContinue(r) \/ CommitCancel(r)
             \/ \E c \in Callers : CancelContinue(r, c)
  <2>1. CASE AdmissionContinue(q)
    BY <1>1, <2>1 DEF AdmissionContinue
  <2>2. CASE CommitCancel(q)
    BY <1>1, <2>2 DEF CommitCancel
  <2>3. ASSUME NEW c \in Callers, CancelContinue(q, c) PROVE CancelContinue(r, c)
    BY <1>1, <2>3 DEF CancelContinue
  <2>. QED BY <1>1, <1>2, <2>1, <2>2, <2>3 DEF RunStep, CommitExecution, CommitApproval,
              CommitExpiry, TimerFires, ReleaseContinue, ReleaseFails, InitRun
<1>3. ASSUME NEW s \in Slots, ExecutionStep(s) \/ BodyStep(s)
      PROVE  UNCHANGED admission
  BY <1>3 DEF ExecutionStep, BodyStep, ExecBody, ExecRefused, ExecUnread, ExecSettled,
     TaskFinally, BodyReturns, BodyFails, ExecStep, ExecCatch
<1>4. ASSUME NEW g \in Registrations, PluginStep(g) PROVE UNCHANGED admission
  BY <1>4 DEF PluginStep, RecoverContinue, RecoverResume, RecoverFails, DisposeAdmitted,
     DisposeContinue, DisposeResume, DisposeDrained, DisposeFails
<1>5. HostStep => UNCHANGED admission \/ Boot
  BY DEF HostStep, DrainContinue, DrainFails, DrainFinally, StopAbort, StopTasks, StopEnd,
     InitDone
<1>6. ASSUME Environment PROVE UNCHANGED admission \/ Crash
  <2>1. ASSUME NEW q \in Runs, NEW g \in Registrations, NEW at \in Schedules, Start(q, g, at)
        PROVE  Admitted(r)'
    BY <1>1, <2>1 DEF Start, Admitted
  <2>. QED BY <1>6, <2>1 DEF Environment, Cancel, Review, UserCommand, Register, Dispose,
              StopBegin
<1>. QED BY <1>1, <1>2, <1>3, <1>4, <1>5, <1>6 DEF Next, Tick

\* A recovery that is failing a run goes on only when the run is failed.
LEMMA FailsLeaves ==
    ASSUME Reliable, TypeOK, ExpiryOwn, RegisteredOnce, [Next]_vars, ~Boot, ~Crash,
           NEW g \in Registrations, NEW r \in Runs, Fails(g, r), run'[r].status = "queued"
    PROVE  Fails(g, r)'
<1>. SUFFICES recovery'[g] = recovery[g]
  BY DEF Fails
<1>1. recovery[g].pc = "failing" /\ recovery[g].id = r
  BY DEF Fails
<1>2. ASSUME NEW h \in Registrations, NEW rec, RecoverNext(h, rec), h # g
      PROVE  recovery'[g] = recovery[g]
  BY <1>2 DEF RecoverNext, TypeOK, PluginsOK
<1>3. ASSUME NEW h \in Registrations, RecoverContinue(h) \/ RecoverResume(h) \/ RecoverFails(h)
      PROVE  recovery'[g] = recovery[g]
  <2>1. h # g
    BY <1>1, <1>3 DEF RecoverContinue, RecoverResume, RecoverFails
  <2>2. \/ \E e : recovery' = [recovery EXCEPT ![h] = e]
        \/ \E pc : recovery' = [recovery EXCEPT ![h].pc = pc]
        \/ RecoverNext(h, recoverable') \/ RecoverNext(h, recoverable)
    BY <1>3 DEF RecoverContinue, RecoverResume, RecoverFails
  <2>3. (\E e : recovery' = [recovery EXCEPT ![h] = e]) => recovery'[g] = recovery[g]
    BY <2>1
  <2>4. (\E pc : recovery' = [recovery EXCEPT ![h].pc = pc]) => recovery'[g] = recovery[g]
    BY <2>1
  <2>. QED BY <1>2, <2>1, <2>2, <2>3, <2>4
<1>4. ASSUME NEW h \in Registrations, Register(h)
      PROVE  recovery'[g] = recovery[g]
  <2>1. h # g
    BY <1>1, <1>4 DEF Register, RegisteredOnce
  <2>. QED BY <1>2, <1>4, <2>1 DEF Register
<1>5. ASSUME NEW q \in Runs, CommitExpiry(q)
      PROVE  recovery'[g] = recovery[g]
  <2>1. PICK h : h = Head(mutations[q]).by
    OBVIOUS
  <2>2. PICK ok \in BOOLEAN :
           /\ Committing(q, ok) /\ Head(mutations[q]).kind = "expire"
           /\ recovery' = [recovery EXCEPT ![h].pc = IF ok THEN "next" ELSE "rejected"]
    BY <1>5, <2>1 DEF CommitExpiry
  <2>3. Fails(h, q)
    BY <2>1, <2>2, CommitSaves DEF ExpiryOwn
  <2>4. Accepts("expire", run[q].status) /\ Result("expire", run[q].status) = "failed"
    BY DEF Accepts, Result, Outcome
  <2>5. run'[q].status = "failed"
    BY <2>2, <2>4, CommitSaves
  <2>6. h # g
    BY <1>1, <2>3, <2>5 DEF Fails
  <2>. QED BY <2>2, <2>6
<1>. QED BY <1>3, <1>4, <1>5, RegistrationSteps DEF Dispose

\* Neither an update nor a cancellation gives up a run that stays queued.
LEMMA CancelNotQueued ==
    ASSUME HeldInv, NEW r \in Runs, run[r].status = "queued"
    PROVE  \A c \in Callers : ~CancelContinue(r, c)
BY DEF HeldInv, SavedInv, CancelsSaved, CancelContinue, Terminal

LEMMA OwnedByAdmission ==
    ASSUME Reliable, HeldInv, [Next]_vars, ~Boot, ~Crash, NEW r \in Runs, Admitted(r),
           run[r].status = "queued", run'[r].status = "queued"
    PROVE  Owned(r)'
<1>. USE DEF callers
<1>1. /\ TypeOK /\ AdmittedFor /\ RejectsByUser /\ None \notin Registrations
      /\ admission \in [Runs -> AdmissionRecords] /\ accepted \in [Runs -> RegOrNone]
  BY RuntimeConstants
     DEF HeldInv, SavedInv, BoundInv, TypeOK, CallersOK, AcceptedOK
<1>2. ASSUME AdmissionContinue(r) PROVE Owned(r)'
  BY <1>1, <1>2 DEF AdmissionContinue, AdmittedFor, AdmissionRecords, Owned, Admitted
<1>3. ASSUME CommitCancel(r), admission'[r] # admission[r] PROVE FALSE
  <2>1. PICK m : m = Head(mutations[r])
    OBVIOUS
  <2>2. PICK ok \in BOOLEAN :
           /\ Committing(r, ok) /\ m.kind \in {"cancel", "reject"}
           /\ admission' = IF m.by = "admission" /\ ~ok
                           THEN [admission EXCEPT ![r].pc = "done"] ELSE admission
    BY <1>3, <2>1 DEF CommitCancel, CancelKinds
  <2>3. m.by = "admission" /\ ~ok
    BY <1>3, <2>2
  <2>4. m.kind = "cancel"
    <3>1. m = mutations[r][1] /\ 1 \in 1 .. Len(mutations[r])
      BY <1>1, <2>1, <2>2, CommitSaves
    <3>. QED BY <1>1, <2>2, <2>3, <3>1 DEF RejectsByUser
  <2>. QED BY <1>1, <2>1, <2>2, <2>3, <2>4, CommitSaves DEF Accepts, Live
<1>4. CASE Admitted(r)'
  BY <1>4 DEF Owned
<1>. QED BY <1>1, <1>2, <1>3, <1>4, AdmissionLeaves, CancelNotQueued

LEMMA OwnedAccepted ==
    ASSUME HeldInv, [Next]_vars, ~Boot, ~Crash, NEW r \in Runs, accepted[r] # None,
           run[r].status = "queued", run'[r].status = "queued"
    PROVE  Owned(r)'
<1>1. TypeOK /\ AdmittedFor /\ NotStale /\ Begun /\ accepted \in [Runs -> RegOrNone]
  BY DEF HeldInv, SavedInv, BoundInv, TypeOK, AcceptedOK
<1>2. ~(ReleaseContinue(r) /\ release[r] # "queued")
  BY <1>1 DEF NotStale, ReleaseContinue
<1>3. \A s \in Slots : ~(TaskFinally(s) /\ exec[s].run = r)
  BY <1>1 DEF TaskFinally, Begun, Busy
<1>4. ~(AdmissionContinue(r) /\ admission[r].reg = None)
  BY <1>1, RuntimeConstants DEF AdmissionContinue, AdmittedFor
<1>5. ASSUME NEW g \in Registrations, DisposeContinue(g), accepted'[r] = None
      PROVE  r \in recoverable'
  BY <1>1, <1>5 DEF DisposeContinue, Parked
<1>6. CASE accepted'[r] # None
  BY <1>6 DEF Owned
<1>7. CASE accepted'[r] = None
  <2>1. \E g \in Registrations : DisposeContinue(g)
    BY <1>1, <1>2, <1>3, <1>4, <1>7, AcceptedSteps, CancelNotQueued
  <2>. QED BY <1>5, <1>7, <2>1 DEF Owned
<1>. QED BY <1>6, <1>7

LEMMA OwnedParked ==
    ASSUME HeldInv, [Next]_vars, ~Boot, ~Crash, NEW r \in Runs, r \in recoverable,
           run[r].status = "queued", run'[r].status = "queued"
    PROVE  Owned(r)'
<1>1. /\ TypeOK /\ AdmittedFor /\ NotStale /\ None \notin Registrations
      /\ admission \in [Runs -> AdmissionRecords] /\ accepted \in [Runs -> RegOrNone]
      /\ recovery \in [Registrations -> RecoveryRecords]
  BY RuntimeConstants
     DEF HeldInv, SavedInv, BoundInv, TypeOK, CallersOK, AcceptedOK, PluginsOK
<1>2. CASE r \in recoverable'
  BY <1>2 DEF Owned
<1>3. CASE AdmissionContinue(r)
  BY <1>1, <1>3 DEF AdmissionContinue, AdmittedFor, AdmissionRecords, Owned, Admitted
<1>4. CASE accepted[r] # None /\ UNCHANGED accepted
  BY <1>4 DEF Owned
<1>5. ASSUME NEW g \in Registrations, RecoverContinue(g), recovery[g].id = r,
             r \notin recoverable'
      PROVE  Owned(r)'
  <2>1. recovery[g].pc = "reading" /\ recovery[g].seen = "queued"
    BY <1>1, <1>5 DEF RecoverContinue, NotStale, Reads
  <2>2. \/ recovery' = [recovery EXCEPT ![g].pc = "failing"]
        \/ accepted' = [accepted EXCEPT ![r] = g]
    BY <1>5, <2>1 DEF RecoverContinue, schedule
  <2>3. CASE recovery' = [recovery EXCEPT ![g].pc = "failing"]
    <3>1. Fails(g, r)'
      BY <1>1, <1>5, <2>3 DEF Fails, RecoveryRecords
    <3>. QED BY <3>1 DEF Owned
  <2>4. CASE accepted' = [accepted EXCEPT ![r] = g]
    BY <1>1, <2>4 DEF Owned
  <2>. QED BY <2>2, <2>3, <2>4
<1>. QED BY <1>2, <1>3, <1>4, <1>5, ParkedLeaves, CancelNotQueued

LEMMA NoneDisownedStep ==
    ASSUME Reliable, HeldInv, NoneDisowned, [Next]_vars
    PROVE  NoneDisowned'
<1>. SUFFICES ASSUME host' # "down", NEW r \in Runs, run'[r].status = "queued",
                     r \notin booting'
              PROVE  Owned(r)'
  BY DEF NoneDisowned
<1>1. /\ TypeOK /\ InitBoots /\ StopStarted /\ ExpiryOwn /\ RegisteredOnce
      /\ admission \in [Runs -> AdmissionRecords] /\ run \in [Runs -> RunRecords]
  BY DEF HeldInv, SavedInv, BoundInv, TypeOK, CallersOK, DurableOK
<1>2. ~Boot /\ ~Crash
  <2>1. Boot => run' = run /\ booting' = {q \in Runs : run[q].status \in {"queued", "running"}}
    BY DEF Boot
  <2>. QED BY <2>1 DEF Crash
<1>3. host # "down"
  BY <1>1, <1>2, HostSteps DEF InitDone, StopBegin, StopEnd, StopStarted, stopped
<1>4. ASSUME NEW g \in Registrations, NEW at \in Schedules, Start(r, g, at) PROVE Owned(r)'
  BY <1>1, <1>4 DEF Start, Owned, Admitted
<1>5. CASE r \in booting
  <2>1. InitRun(r)
    BY <1>2, <1>5, BootingLeaves
  <2>2. run' # [run EXCEPT ![r].status = "failed"]
    BY <1>1 DEF RunRecords
  <2>. QED BY <2>1, <2>2 DEF InitRun, Parked, Owned
<1>6. CASE run[r].status = "queued" /\ r \notin booting
  <2>1. Owned(r)
    BY <1>3, <1>6 DEF NoneDisowned
  <2>2. ASSUME NEW g \in Registrations, Fails(g, r) PROVE Owned(r)'
    <3>1. Fails(g, r)'
      BY <1>1, <1>2, <2>2, FailsLeaves
    <3>. QED BY <3>1 DEF Owned
  <2>. QED BY <1>2, <1>6, <2>1, <2>2, OwnedByAdmission, OwnedAccepted, OwnedParked DEF Owned
<1>. QED BY <1>1, <1>4, <1>5, <1>6, QueuedFrom

\* A recovery begins with a registration, which a host that is stopping refuses.
LEMMA StopQuietStep ==
    ASSUME Reliable, HeldInv, StopQuiet, [Next]_vars
    PROVE  StopQuiet'
<1>. DEFINE Recovers(g) == recovery[g].pc \in {"reading", "failing", "next"}
<1>1. /\ TypeOK /\ StopStarted /\ ExpiryOwn /\ stop \in StopRecords
      /\ recovery \in [Registrations -> RecoveryRecords]
  BY DEF HeldInv, SavedInv, BoundInv, TypeOK, PhaseOK, PluginsOK
<1>2. CASE Boot \/ Crash
  BY <1>2 DEF Boot, Crash, Fresh, StopQuiet, StopPast
<1>3. CASE StopAbort
  BY <1>3 DEF StopAbort, AdmissionsSettled, plugins, StopQuiet, Recovering
<1>4. CASE ~StopPast /\ ~Boot /\ ~Crash /\ ~StopAbort
  <2>1. ASSUME NEW s \in Slots, TaskFinally(s) PROVE stop'.pc = stop.pc
    BY <1>1, <2>1 DEF TaskFinally, StopRecords
  <2>2. ~StopPast'
    BY <1>1, <1>4, <2>1, StopSteps DEF StopBegin, StopTasks, StopEnd, StopRecords, StopPast
  <2>. QED BY <2>2 DEF StopQuiet
<1>5. CASE StopPast /\ ~Boot /\ ~Crash
  <2>1. \A g \in Registrations : ~Recovers(g) /\ ~Register(g)
    BY <1>1, <1>5 DEF StopQuiet, StopPast, Recovering, Register, StopStarted, stopped
  <2>2. ASSUME NEW q \in Runs, CommitExpiry(q) PROVE FALSE
    <3>1. PICK ok \in BOOLEAN : Committing(q, ok) /\ Head(mutations[q]).kind = "expire"
      BY <2>2 DEF CommitExpiry
    <3>2. PICK g \in Registrations : Fails(g, q)
      BY <1>1, <3>1, CommitSaves DEF ExpiryOwn
    <3>. QED BY <2>1, <3>2 DEF Fails
  <2>3. \A g \in Registrations : ~RecoverContinue(g) /\ ~RecoverResume(g) /\ ~RecoverFails(g)
    BY <2>1 DEF RecoverContinue, RecoverResume, RecoverFails
  <2>4. UNCHANGED recovery
    BY <1>5, <2>1, <2>2, <2>3, RegistrationSteps DEF Dispose
  <2>. QED BY <2>1, <2>4 DEF StopQuiet, Recovering
<1>. QED BY <1>2, <1>3, <1>4, <1>5

LEMMA DecideInit == Init => DecideInv
<1>. SUFFICES ASSUME Init PROVE DecideInv
  OBVIOUS
<1>1. StopEnded /\ StopSettled /\ StopAwaited /\ StopQuiet /\ NoneDisowned
  BY DEF Init, Fresh, StopEnded, StopSettled, StopAwaited, StopQuiet, NoneDisowned, StopPast
<1>. QED BY <1>1, HeldInit, PromptInit DEF DecideInv

LEMMA DecideStep == Reliable /\ DecideInv /\ [Next]_vars => DecideInv'
<1>. SUFFICES ASSUME Reliable, DecideInv, [Next]_vars PROVE DecideInv'
  OBVIOUS
<1>1. /\ HeldInv /\ PromptInv /\ TypeOK /\ StopStarted
      /\ StopEnded /\ StopSettled /\ StopAwaited /\ StopQuiet /\ NoneDisowned
  BY DEF DecideInv, HeldInv, SavedInv, BoundInv
<1>. QED BY <1>1, HeldStep, PromptStep, StopPhaseStep, StopQuietStep, NoneDisownedStep
     DEF DecideInv

\* When the stop effect has ended, every run that is still queued was accepted or is a
\* schedule that waits for its plugin, whatever was being admitted, recovered or unloaded
\* when the host began to stop, as long as the repository is Reliable: it has waited for
\* each start() to be decided, and for each recovery to let go of the run it was reading.
THEOREM StopDecided == Reliable => (Spec => []StopDecides)
<1>. SUFFICES ASSUME Reliable PROVE Spec => []StopDecides
  OBVIOUS
<1>1. DecideInv /\ [Next]_vars => DecideInv'
  BY DecideStep
<1>2. DecideInv => StopDecides
  <2>. SUFFICES ASSUME DecideInv, host = "stopped", NEW r \in Runs, run[r].status = "queued",
                       accepted[r] = None
                PROVE  Scheduled(r) /\ r \in recoverable
    BY DEF StopDecides
  <2>1. Admitting = {} /\ Recovering = {} /\ booting = {}
    BY DEF DecideInv, StopEnded, StopSettled, StopQuiet, StopPast, HeldInv, InitBoots
  <2>2. Owned(r)
    BY <2>1 DEF DecideInv, NoneDisowned
  <2>3. r \in recoverable
    BY <2>1, <2>2 DEF Owned, Admitted, Admitting, Recovering, Fails
  <2>4. ~Prompt(r)
    BY <2>3 DEF DecideInv, PromptInv, Untimed
  <2>. QED BY <2>3, <2>4 DEF Prompt
<1>. QED BY <1>1, <1>2, DecideInit, PTL DEF Spec
=============================================================================
