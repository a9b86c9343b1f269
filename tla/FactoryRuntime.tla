--------------------------- MODULE FactoryRuntime ---------------------------
(***************************************************************************)
(* The host service LightcodeFactoryRuntime: admission, one-time schedules,*)
(* the in-memory queue and its pump, executions, cancellation and review,  *)
(* plugin registration and disposal, stop, crash and restart.              *)
(*                                                                         *)
(* JavaScript runs one continuation at a time: an action below is the code *)
(* between two awaits, and any continuation whose promise is settled may   *)
(* run next.  A repository call takes effect when it is issued (what       *)
(* node:sqlite does) and its caller continues later, so a value read       *)
(* before an await can be stale when it is used.                           *)
(*                                                                         *)
(* The aggregate is abstracted to its status, version and schedule: nodes, *)
(* events and observations never decide a step of the scheduler.  A queued *)
(* mutation commits in one step: module MutationChain shows that update()  *)
(* has that effect.                                                        *)
(*                                                                         *)
(* A definition whose name ends in Mutant is the definition after it with  *)
(* a plausible mistake in it; no specification uses it.                    *)
(***************************************************************************)
EXTENDS Integers, Sequences, FiniteSets

CONSTANTS
    Runs,               \* run ids that queueRun may generate
    Workflows,          \* workflow ids
    Registrations,      \* registration objects captured by registerWorkflow
    WorkflowOf,         \* registration -> workflow id
    VersionOf,          \* registration -> version
    Disposable,         \* registrations whose plugin may be unloaded
    Slots,              \* identities of execute() activations
    MaxConcurrentRuns,  \* config.maxConcurrentRuns
    MaxTimerDelay,      \* MAX_TIMER_DELAY_MS
    Schedules,          \* values of scheduledFor that callers ask for
    MaxTime,            \* bound: the clock stops here
    MaxBoots,           \* bound: host starts
    MayStop, MayCrash,  \* whether the host is stopped, or killed
    MayFail,            \* which awaited repository calls may reject
    None

ASSUME RuntimeConstants ==
    /\ WorkflowOf \in [Registrations -> Workflows]
    /\ Disposable \subseteq Registrations
    /\ MaxConcurrentRuns \in Nat \ {0}
    /\ MaxTimerDelay \in Nat \ {0}
    /\ Schedules \subseteq Nat
    /\ MaxTime \in Nat /\ MaxBoots \in Nat
    /\ MayStop \in BOOLEAN /\ MayCrash \in BOOLEAN
    /\ MayFail \subseteq {"update", "execution", "drain", "release", "recovery", "disposer"}
    /\ None \notin Runs \cup Registrations \cup Slots
    /\ {"user", "admission"} \cap Registrations = {}   \* objects, not names of callers
    /\ IsFiniteSet(Slots) /\ Cardinality(Slots) >= MaxConcurrentRuns

Immediate == 0    \* scheduledFor === undefined; every real schedule is later
NoTimer   == 0

VARIABLES
    run,              \* durable: the stored aggregate of each run
    now,              \* the wall clock
    boots, host,      \* host starts so far; phase of the Runtime service
    booting,          \* interrupted runs the Service.init loop has left
    definitions, accepted, queuedIds, scheduledTimers, recoverable,
    activeCount, tasks, controllers,  \* the service's own fields
    mutations,        \* per run, the updates chained and not yet committed
    drain,            \* the drainQueue() activation; "idle" when ~pumping
    exec,             \* the execute() activations
    admission,        \* the queueRun() activation of each run
    cancels,          \* cancelFrom() activations past their update
    release,          \* releaseScheduledRun(): the status it read, or "none"
    recovery,         \* recoverScheduledRuns() of each registration
    disposer,         \* the disposer of each registration
    stop              \* the stop effect

durable   == <<run, now, boots>>
dispatch  == <<queuedIds, drain>>
schedule  == <<scheduledTimers, recoverable>>
execution == <<exec, tasks, controllers, activeCount>>
plugins   == <<definitions, recovery, disposer>>
callers   == <<admission, cancels, release>>
phase     == <<host, booting, stop>>
beyondPlugins == <<durable, dispatch, schedule, execution, callers, phase, accepted,
                   mutations>>
beyondHost == <<durable, dispatch, execution, plugins, callers, recoverable, booting,
                accepted, mutations>>
vars == <<beyondPlugins, plugins>>

Status   == {"absent", "queued", "running", "review",
             "completed", "cancelled", "failed"}
Terminal == {"completed", "cancelled", "failed"}
Live     == {"queued", "running", "review"}
Callers  == {"user", "admission"} \cup Registrations

NoRead == [pc |-> "idle", id |-> None, reg |-> None, seen |-> "absent"]
NoExec == [pc |-> "idle", run |-> None, reg |-> None, aborted |-> FALSE]

stopped == host \in {"stopping", "stopped"}
up      == host \in {"up", "stopping"}      \* the wire reaches the service
Scheduled(r) == run[r].scheduledFor # Immediate
Busy == {s \in Slots : exec[s].pc # "idle"}
TasksOfMutant(rs) == {}
TasksOf(rs) == {tasks[r] : r \in rs} \ {None}

\* exec when the controllers of rs are aborted
AbortedMutant(rs) == exec
Aborted(rs) ==
    [s \in Slots |-> IF s \in {controllers[r] : r \in rs}
                     THEN [exec[s] EXCEPT !.aborted = TRUE] ELSE exec[s]]

ParkedMutant(r) == recoverable
Parked(r) == recoverable \cup {r}

Queued(r) == \E i \in DOMAIN queuedIds : queuedIds[i] = r
DueMutant(r) == run[r].scheduledFor <= now + 1
Due(r) == run[r].scheduledFor <= now

\* removeQueuedId; the loop turns once, for an id is pushed only when absent.
RemoveQueuedId(r) ==
    LET i == CHOOSE j \in DOMAIN queuedIds : queuedIds[j] = r IN
    IF Queued(r)
    THEN SubSeq(queuedIds, 1, i - 1) \o SubSeq(queuedIds, i + 1, Len(queuedIds))
    ELSE queuedIds

-----------------------------------------------------------------------------
(* The mutations that update() applies: what each accepts, and its result. *)

ExecutionKinds == {"start", "review", "fail"}
CancelKinds    == {"cancel", "reject"}
Kinds == ExecutionKinds \cup CancelKinds \cup {"approve", "expire"}

Accepts(kind, status) ==
    CASE kind = "start"   -> status = "queued"
      [] kind = "cancel"  -> status \in Live
      [] kind \in {"reject", "approve"} -> status = "review"
      [] OTHER -> TRUE

OutcomeMutant ==
    [start |-> "running", review |-> "review", approve |-> "approved", cancel |-> "cancelled",
     reject |-> "cancelled", fail |-> "failed", expire |-> "failed"]

Outcome ==
    [start |-> "running", review |-> "review", approve |-> "completed", cancel |-> "cancelled",
     reject |-> "cancelled", fail |-> "failed", expire |-> "failed"]

\* A late failure overwrites a cancellation.
ResultMutant(kind, status) ==
    IF kind = "review" /\ status # "running" THEN status ELSE Outcome[kind]

\* A cancellation is announced and not saved.
ResultUnsavedMutant(kind, status) == IF kind = "cancel" THEN status ELSE Outcome[kind]

\* A late review keeps any other status, a late failure keeps a cancellation;
\* the version check of recoverScheduledRuns fails whatever it finds.
Result(kind, status) ==
    IF \/ kind = "review" /\ status # "running"
       \/ kind = "fail" /\ status = "cancelled"
    THEN status ELSE Outcome[kind]

Mutate(r, kind, caller) ==
    mutations' = [mutations EXCEPT ![r] = Append(@, [kind |-> kind, by |-> caller])]

-----------------------------------------------------------------------------
(* drainQueue, pump, enqueueRun and armScheduledRun up to the next await.   *)
(* acc and active are the values of accepted and activeCount at the call.   *)

\* Off by one.
MayDispatchMutant(queue, active) ==
    ~stopped /\ active <= MaxConcurrentRuns /\ queue # <<>>

MayDispatch(queue, active) ==
    ~stopped /\ active < MaxConcurrentRuns /\ queue # <<>>

ShiftedMutant(queue) == queue
Shifted(queue) == Tail(queue)

DrainLoop(queue, acc, active, otherwise) ==
    IF MayDispatch(queue, active)
    THEN /\ queuedIds' = Shifted(queue)
         /\ drain' = [pc |-> "reading", id |-> Head(queue), reg |-> acc[Head(queue)],
                      seen |-> run[Head(queue)].status]
    ELSE queuedIds' = queue /\ drain' = [NoRead EXCEPT !.pc = otherwise]

Pump(queue, acc, active) ==
    IF drain.pc = "idle" THEN DrainLoop(queue, acc, active, "exiting")
                         ELSE queuedIds' = queue /\ drain' = drain

EnqueueRun(r, acc) ==
    /\ scheduledTimers' = [scheduledTimers EXCEPT ![r] = NoTimer]
    /\ recoverable' = recoverable \ {r}
    /\ Pump(IF Queued(r) THEN queuedIds ELSE Append(queuedIds, r), acc, activeCount)

\* Never called while stopped: each caller checks first, except a release in
\* flight, whose timer the code does not set (ReleaseContinue).
ArmScheduledRun(r, acc, rec) ==
    LET remaining == run[r].scheduledFor - now IN
    IF Due(r)
    THEN EnqueueRun(r, acc)
    ELSE /\ scheduledTimers' = [scheduledTimers EXCEPT ![r] =
               now + (IF remaining < MaxTimerDelay THEN remaining ELSE MaxTimerDelay)]
         /\ recoverable' = rec
         /\ UNCHANGED dispatch

-----------------------------------------------------------------------------
(* start / queueRun *)

Start(r, g, at) ==
    /\ host = "up"
    /\ run[r].status = "absent"
    /\ definitions[WorkflowOf[g]] = g
    /\ at = Immediate \/ at > now
    /\ run' = [run EXCEPT ![r] = [status |-> "queued", workflow |-> WorkflowOf[g],
                                  version |-> VersionOf[g], scheduledFor |-> at]]
    /\ admission' = [admission EXCEPT ![r] = [pc |-> "creating", reg |-> g]]
    /\ UNCHANGED <<now, boots, dispatch, schedule, execution, plugins, phase,
                   cancels, release, accepted, mutations>>

\* createRun has settled: the plugin or the host may be gone by now.
AdmissionContinue(r) ==
    LET g == admission[r].reg IN
    /\ admission[r].pc = "creating"
    /\ IF stopped \/ definitions[run[r].workflow] # g
       THEN /\ admission' = [admission EXCEPT ![r].pc = "cancelling"]
            /\ Mutate(r, "cancel", "admission")
            /\ UNCHANGED <<accepted, dispatch, schedule>>
       ELSE /\ admission' = [admission EXCEPT ![r].pc = "done"]
            /\ accepted' = [accepted EXCEPT ![r] = g]
            /\ IF Scheduled(r) THEN ArmScheduledRun(r, accepted', recoverable)
                               ELSE EnqueueRun(r, accepted')
            /\ UNCHANGED mutations
    /\ UNCHANGED <<durable, execution, plugins, phase, cancels, release>>

-----------------------------------------------------------------------------
(* cancel and review; the update chain *)

Outstanding(r, kind) ==
    \E i \in DOMAIN mutations[r] : mutations[r][i] = [kind |-> kind, by |-> "user"]

\* Bound: one outstanding call of each kind per run, and none that is already
\* refused when it is made (it changes nothing).
UserCommand(r, kind) ==
    /\ up
    /\ Accepts(kind, run[r].status)
    /\ ~Outstanding(r, kind)
    /\ "user" \notin cancels[r]
    /\ Mutate(r, kind, "user")
    /\ UNCHANGED <<durable, dispatch, schedule, execution, plugins, callers,
                   phase, accepted>>

Cancel(r) == UserCommand(r, "cancel")
Review(r) == UserCommand(r, "approve") \/ UserCommand(r, "reject")

\* One update() reaches its turn in the chain, recomputes and saves; or its change
\* callback throws, or the repository rejects the read or the save.  Bound: not those of
\* a user, whose call then changes nothing, like one that is refused.
Committing(r, ok) ==
    LET kind == Head(mutations[r]).kind
        mayReject == "update" \in MayFail /\ Head(mutations[r]).by # "user" IN
    /\ mutations[r] # <<>>
    /\ IF Accepts(kind, run[r].status) THEN ok \/ mayReject ELSE ~ok
    /\ mutations' = [mutations EXCEPT ![r] = Tail(@)]
    /\ run' = IF ok THEN [run EXCEPT ![r].status = Result(kind, @)] ELSE run
    /\ stop' = [stop EXCEPT !.chains[r] = IF @ = 0 THEN 0 ELSE @ - 1]

\* A start or a review that is refused or not saved ends in the catch block of
\* execute(); a failure that cannot be saved is logged and forgotten.
Told(kind, ok) ==
    IF kind = "start" /\ ok THEN "started"
    ELSE IF kind = "fail" \/ ok THEN "saved" ELSE "refused"

CommitExecution(r) == \E ok \in BOOLEAN :
    LET m == Head(mutations[r]) IN
    /\ Committing(r, ok)
    /\ m.kind \in ExecutionKinds
    /\ exec' = [exec EXCEPT ![m.by].pc = Told(m.kind, ok)]
    /\ UNCHANGED <<now, boots, host, booting, dispatch, schedule, plugins, callers,
                   tasks, controllers, activeCount, accepted>>

\* A refused cancel rejects its caller: start() rejects, a disposer stops
\* where it is.
CommitCancel(r) == \E ok \in BOOLEAN :
    LET m == Head(mutations[r]) IN
    /\ Committing(r, ok)
    /\ m.kind \in CancelKinds
    /\ cancels' = IF ok THEN [cancels EXCEPT ![r] = @ \cup {m.by}] ELSE cancels
    /\ admission' = IF m.by = "admission" /\ ~ok
                    THEN [admission EXCEPT ![r].pc = "done"] ELSE admission
    /\ disposer' = IF m.by \in Registrations /\ ~ok
                   THEN [disposer EXCEPT ![m.by].pc = "rejected"] ELSE disposer
    /\ UNCHANGED <<now, boots, host, booting, dispatch, schedule, execution,
                   definitions, recovery, release, accepted>>

CommitApproval(r) ==
    /\ \E ok \in BOOLEAN : Committing(r, ok)
    /\ Head(mutations[r]).kind = "approve"
    /\ UNCHANGED <<now, boots, host, booting, dispatch, schedule, execution, plugins,
                   callers, accepted>>

\* A recovery whose update rejects ends.
CommitExpiry(r) == \E ok \in BOOLEAN :
    LET m == Head(mutations[r]) IN
    /\ Committing(r, ok)
    /\ m.kind = "expire"
    /\ recovery' = [recovery EXCEPT ![m.by].pc = IF ok THEN "next" ELSE "rejected"]
    /\ UNCHANGED <<now, boots, host, booting, dispatch, schedule, execution,
                   definitions, disposer, callers, accepted>>

\* cancelFrom after its update: timers, queue and signal of the run.
CancelContinue(r, c) ==
    /\ c \in cancels[r]
    /\ cancels' = [cancels EXCEPT ![r] = @ \ {c}]
    /\ scheduledTimers' = [scheduledTimers EXCEPT ![r] = NoTimer]
    /\ recoverable' = recoverable \ {r}
    /\ queuedIds' = RemoveQueuedId(r)
    /\ exec' = Aborted({r})
    /\ accepted' = IF tasks[r] = None THEN [accepted EXCEPT ![r] = None] ELSE accepted
    /\ admission' = IF c = "admission" THEN [admission EXCEPT ![r].pc = "done"]
                                       ELSE admission
    /\ disposer' = IF c \in Registrations THEN [disposer EXCEPT ![c].pc = "next"]
                                          ELSE disposer
    /\ UNCHANGED <<durable, phase, drain, tasks, controllers, activeCount, mutations,
                   definitions, recovery, release>>

-----------------------------------------------------------------------------
(* Timers: the callback of armScheduledRun and releaseScheduledRun. *)

\* The callback leaves its timer in the map.
TimerFiresMutant(r) ==
    /\ scheduledTimers[r] # NoTimer /\ scheduledTimers[r] <= now
    /\ release[r] = "none"
    /\ release' = [release EXCEPT ![r] = run[r].status]
    /\ UNCHANGED <<durable, dispatch, schedule, execution, plugins, phase,
                   admission, cancels, accepted, mutations>>

\* Bound: one release in flight per run.
TimerFires(r) ==
    /\ scheduledTimers[r] # NoTimer /\ scheduledTimers[r] <= now
    /\ release[r] = "none"
    /\ scheduledTimers' = [scheduledTimers EXCEPT ![r] = NoTimer]
    /\ release' = [release EXCEPT ![r] = run[r].status]
    /\ UNCHANGED <<durable, dispatch, recoverable, execution, plugins, phase,
                   admission, cancels, accepted, mutations>>

ReleaseContinue(r) ==
    /\ release[r] # "none"
    /\ release' = [release EXCEPT ![r] = "none"]
    /\ IF release[r] # "queued"
       THEN /\ accepted' = [accepted EXCEPT ![r] = None]
            /\ UNCHANGED <<dispatch, schedule>>
       ELSE /\ UNCHANGED accepted
            /\ IF accepted[r] = None
               THEN /\ recoverable' = Parked(r)
                    /\ UNCHANGED <<dispatch, scheduledTimers>>
               ELSE IF stopped /\ ~Due(r)
               THEN UNCHANGED <<dispatch, recoverable>>
                    /\ scheduledTimers' = [scheduledTimers EXCEPT ![r] = NoTimer]
               ELSE ArmScheduledRun(r, accepted, recoverable)
    /\ UNCHANGED <<durable, execution, plugins, phase, admission, cancels, mutations>>

\* Its getRun rejects: the error is logged, the run keeps neither timer nor place.
ReleaseFails(r) ==
    /\ "release" \in MayFail /\ release[r] # "none"
    /\ release' = [release EXCEPT ![r] = "none"]
    /\ UNCHANGED <<durable, dispatch, schedule, execution, plugins, phase, admission, cancels,
                   accepted, mutations>>

-----------------------------------------------------------------------------
(* The pump: drainQueue's continuation, and the finally of pump(). *)

DrainContinue ==
    /\ drain.pc = "reading"
    /\ IF drain.reg = None \/ drain.seen # "queued"
       THEN /\ DrainLoop(queuedIds, accepted, activeCount, "exiting")
            /\ UNCHANGED <<execution, mutations>>
       ELSE \E s \in Slots \ Busy :
            /\ exec' = [exec EXCEPT ![s] = [pc |-> "starting", run |-> drain.id,
                                            reg |-> drain.reg, aborted |-> FALSE]]
            /\ tasks' = [tasks EXCEPT ![drain.id] = s]
            /\ controllers' = [controllers EXCEPT ![drain.id] = s]
            /\ activeCount' = activeCount + 1
            /\ Mutate(drain.id, "start", s)
            /\ DrainLoop(queuedIds, accepted, activeCount + 1, "exiting")
    /\ UNCHANGED <<durable, schedule, plugins, callers, phase, accepted>>

\* Its getRun rejects: the activation ends, and with it the id it had shifted.
DrainFails ==
    /\ "drain" \in MayFail /\ drain.pc = "reading"
    /\ drain' = [NoRead EXCEPT !.pc = "exiting"]
    /\ UNCHANGED <<queuedIds, durable, schedule, execution, plugins, callers, phase,
                   accepted, mutations>>

\* The finally of pump() does not look at the queue again.
DrainFinallyMutant ==
    /\ drain.pc = "exiting"
    /\ drain' = NoRead
    /\ UNCHANGED <<queuedIds, durable, schedule, execution, plugins, callers, phase,
                   accepted, mutations>>

DrainFinally ==
    /\ drain.pc = "exiting"
    /\ DrainLoop(queuedIds, accepted, activeCount, "idle")
    /\ UNCHANGED <<durable, schedule, execution, plugins, callers, phase,
                   accepted, mutations>>

-----------------------------------------------------------------------------
(* execute(): its start, the plugin's body, its outcome, and the task's end *)

ExecStep(s, from, to) ==
    /\ exec[s].pc = from
    /\ exec' = [exec EXCEPT ![s].pc = to]
    /\ UNCHANGED <<durable, dispatch, schedule, plugins, callers, phase, accepted,
                   tasks, activeCount>>

\* The catch block: abort, then ask for the run to be failed.  The pending node that it
\* awaits in between is in RunExecution.
ExecCatch(s) ==
    /\ exec' = [exec EXCEPT ![s].pc = "failing", ![s].aborted = TRUE]
    /\ Mutate(exec[s].run, "fail", s)
    /\ UNCHANGED <<durable, dispatch, schedule, plugins, callers, phase, accepted,
                   tasks, controllers, activeCount>>

ExecBody(s) == ExecStep(s, "started", "body") /\ UNCHANGED <<controllers, mutations>>
ExecRefused(s) == exec[s].pc = "refused" /\ ExecCatch(s)
\* The requireRun after the start rejects.
ExecUnread(s) == "execution" \in MayFail /\ exec[s].pc = "started" /\ ExecCatch(s)
\* The body throws, swallows a node failure, skips a node, or sees the abort.
BodyFails(s) == exec[s].pc = "body" /\ ExecCatch(s)
BodyReturns(s) ==
    /\ ~exec[s].aborted
    /\ ExecStep(s, "body", "reviewing")
    /\ Mutate(exec[s].run, "review", s)
    /\ UNCHANGED controllers
ExecSettled(s) ==
    /\ ExecStep(s, "saved", "closing")
    /\ controllers' = [controllers EXCEPT ![exec[s].run] = None]
    /\ UNCHANGED mutations

TaskFinally(s) ==
    /\ exec[s].pc = "closing"
    /\ exec' = [exec EXCEPT ![s] = NoExec]
    /\ activeCount' = activeCount - 1
    /\ accepted' = [accepted EXCEPT ![exec[s].run] = None]
    /\ tasks' = [tasks EXCEPT ![exec[s].run] = None]
    /\ disposer' = [g \in Registrations |-> [disposer[g] EXCEPT !.slots = @ \ {s}]]
    /\ stop' = [stop EXCEPT !.slots = @ \ {s}]
    /\ Pump(queuedIds, accepted', activeCount - 1)
    /\ UNCHANGED <<durable, schedule, definitions, recovery, callers, host, booting,
                   controllers, mutations>>

-----------------------------------------------------------------------------
(* registerWorkflow and recoverScheduledRuns *)

\* Runs of another version are skipped instead of failed.
CandidatesMutant(g, rec) ==
    {r \in rec : run[r].workflow = WorkflowOf[g] /\ run[r].version = VersionOf[g]}

Candidates(g, rec) == {r \in rec : run[r].workflow = WorkflowOf[g]}

\* The for loop takes another recoverable run and reads it, or ends.
RecoverNext(g, rec) ==
    \/ \E r \in Candidates(g, rec) :
          recovery' = [recovery EXCEPT ![g] =
                         [pc |-> "reading", id |-> r, seen |-> run[r].status]]
    \/ /\ Candidates(g, rec) = {}
       /\ recovery' = [recovery EXCEPT ![g] =
                         [pc |-> "done", id |-> None, seen |-> "absent"]]

Register(g) ==
    /\ host = "up"
    /\ disposer[g].pc = "none"
    /\ definitions[WorkflowOf[g]] = None
    /\ definitions' = [definitions EXCEPT ![WorkflowOf[g]] = g]
    /\ disposer' = [disposer EXCEPT ![g].pc = "registered"]
    /\ RecoverNext(g, recoverable)
    /\ UNCHANGED <<beyondPlugins>>

RecoverContinue(g) ==
    LET r == recovery[g].id IN
    /\ recovery[g].pc = "reading"
    /\ IF stopped \/ definitions[WorkflowOf[g]] # g
       THEN /\ recovery' = [recovery EXCEPT ![g] =
                              [pc |-> "done", id |-> None, seen |-> "absent"]]
            /\ UNCHANGED <<accepted, mutations, dispatch, schedule>>
       ELSE IF recovery[g].seen # "queued"
       THEN /\ recoverable' = recoverable \ {r}
            /\ RecoverNext(g, recoverable')
            /\ UNCHANGED <<accepted, mutations, dispatch, scheduledTimers>>
       ELSE IF run[r].version # VersionOf[g]
       THEN /\ recoverable' = recoverable \ {r}
            /\ recovery' = [recovery EXCEPT ![g].pc = "failing"]
            /\ Mutate(r, "expire", g)
            /\ UNCHANGED <<accepted, dispatch, scheduledTimers>>
       ELSE /\ accepted' = [accepted EXCEPT ![r] = g]
            /\ ArmScheduledRun(r, accepted', recoverable \ {r})
            /\ RecoverNext(g, recoverable')
            /\ UNCHANGED mutations
    /\ UNCHANGED <<durable, execution, definitions, disposer, callers, phase>>

\* The update that failed a run of another version has settled.
RecoverResume(g) ==
    /\ recovery[g].pc = "next"
    /\ RecoverNext(g, recoverable)
    /\ UNCHANGED <<beyondPlugins, definitions, disposer>>

\* Its getRun rejects: the loop ends, what it has left stays recoverable.
RecoverFails(g) ==
    /\ "recovery" \in MayFail /\ recovery[g].pc = "reading"
    /\ recovery' = [recovery EXCEPT ![g].pc = "rejected"]
    /\ UNCHANGED <<beyondPlugins, definitions, disposer>>

-----------------------------------------------------------------------------
(* The disposer returned by registerWorkflow *)

Admitting  == {r \in Runs : admission[r].pc \in {"creating", "cancelling"}}
Recovering == {g \in Registrations : recovery[g].pc \in {"reading", "failing", "next"}}

AdmissionsSettledMutant == TRUE
AdmissionsSettled == Admitting = {} /\ Recovering = {}

Dispose(g) ==
    /\ g \in Disposable
    /\ up
    /\ disposer[g].pc = "registered"
    /\ definitions' = [definitions EXCEPT ![WorkflowOf[g]] = None]
    /\ disposer' = [disposer EXCEPT ![g].pc = "admissions",
                                    ![g].wait = Admitting, ![g].waitRec = Recovering]
    /\ UNCHANGED <<beyondPlugins, recovery>>

\* The for loop reads its next run, or the disposer awaits the tasks that the
\* runs it walked have at that moment.
DisposeNext(g, ids, todo) ==
    \/ \E r \in todo :
          disposer' = [disposer EXCEPT ![g] =
             [@ EXCEPT !.pc = "reading", !.ids = ids, !.todo = todo \ {r},
                       !.id = r, !.seen = run[r].status]]
    \/ /\ todo = {}
       /\ disposer' = [disposer EXCEPT ![g] =
             [@ EXCEPT !.pc = "draining", !.ids = {}, !.todo = {}, !.id = None,
                       !.seen = "absent", !.slots = TasksOf(ids)]]

DisposeAdmitted(g) ==
    LET ids == {r \in Runs : accepted[r] = g} IN
    /\ disposer[g].pc = "admissions"
    /\ disposer[g].wait \cap Admitting = {}
    /\ disposer[g].waitRec \cap Recovering = {}
    /\ DisposeNext(g, ids, ids)
    /\ UNCHANGED <<beyondPlugins, definitions, recovery>>

WithdrawnMutant == {"queued"}
Withdrawn == {"queued", "running"}

DisposeContinue(g) ==
    LET d == disposer[g] IN
    /\ d.pc = "reading"
    /\ IF d.seen = "queued" /\ Scheduled(d.id)
       THEN /\ scheduledTimers' = [scheduledTimers EXCEPT ![d.id] = NoTimer]
            /\ queuedIds' = RemoveQueuedId(d.id)
            /\ accepted' = [accepted EXCEPT ![d.id] = None]
            /\ recoverable' = Parked(d.id)
            /\ DisposeNext(g, d.ids, d.todo)
            /\ UNCHANGED mutations
       ELSE /\ UNCHANGED <<schedule, queuedIds, accepted>>
            /\ IF d.seen \in Withdrawn
               THEN /\ disposer' = [disposer EXCEPT ![g].pc = "cancelling"]
                    /\ Mutate(d.id, "cancel", g)
               ELSE /\ DisposeNext(g, d.ids, d.todo)
                    /\ UNCHANGED mutations
    /\ UNCHANGED <<durable, drain, execution, definitions, recovery, callers, phase>>

\* Its cancel() has settled.
DisposeResume(g) ==
    /\ disposer[g].pc = "next"
    /\ DisposeNext(g, disposer[g].ids, disposer[g].todo)
    /\ UNCHANGED <<beyondPlugins, definitions, recovery>>

\* Its getRun rejects: the disposer rejects where it is.
DisposeFails(g) ==
    /\ "disposer" \in MayFail /\ disposer[g].pc = "reading"
    /\ disposer' = [disposer EXCEPT ![g].pc = "rejected"]
    /\ UNCHANGED <<beyondPlugins, definitions, recovery>>

DisposeDrained(g) ==
    /\ disposer[g].pc = "draining"
    /\ disposer[g].slots = {}
    /\ disposer' = [disposer EXCEPT ![g].pc = "disposed"]
    /\ UNCHANGED <<beyondPlugins, definitions, recovery>>

-----------------------------------------------------------------------------
(* The stop effect, a crash, and Service.init *)

StopBegin ==
    /\ MayStop /\ host = "up"
    /\ host' = "stopping"
    /\ stop' = [stop EXCEPT !.pc = "admissions"]
    /\ scheduledTimers' = [r \in Runs |-> NoTimer]
    /\ UNCHANGED <<beyondHost>>

\* Admissions have settled (none is accepted while stopping): abort every
\* controller and await the tasks of this moment.
StopAbort ==
    /\ stop.pc = "admissions"
    /\ AdmissionsSettled
    /\ exec' = Aborted(Runs)
    /\ stop' = [stop EXCEPT !.pc = "tasks", !.slots = TasksOf(Runs)]
    /\ UNCHANGED <<durable, dispatch, schedule, plugins, callers, host, booting,
                   tasks, controllers, activeCount, accepted, mutations>>

StopTasks ==
    /\ stop.pc = "tasks" /\ stop.slots = {}
    /\ stop' = [stop EXCEPT !.pc = "mutations",
                            !.chains = [r \in Runs |-> Len(mutations[r])]]
    /\ UNCHANGED <<beyondHost, scheduledTimers, host>>

StopEnd ==
    /\ stop.pc = "mutations" /\ \A r \in Runs : stop.chains[r] = 0
    /\ host' = "stopped"
    /\ stop' = [stop EXCEPT !.pc = "ended"]
    /\ UNCHANGED <<beyondHost, scheduledTimers>>

NoRecovery == [pc |-> "none", id |-> None, seen |-> "absent"]
NoDisposer == [pc |-> "none", wait |-> {}, waitRec |-> {}, ids |-> {}, todo |-> {},
               id |-> None, seen |-> "absent", slots |-> {}]

\* A new process: every field of the service has its initial value.
Fresh(defs, acc, q, timers, rec, act, task, ctl, chain, drn, exe, adm, can, rel, rcv, dsp, stp) ==
    /\ defs = [w \in Workflows |-> None]
    /\ acc = [r \in Runs |-> None]
    /\ q = <<>>
    /\ timers = [r \in Runs |-> NoTimer]
    /\ rec = {}
    /\ act = 0
    /\ task = [r \in Runs |-> None] /\ ctl = [r \in Runs |-> None]
    /\ chain = [r \in Runs |-> <<>>]
    /\ drn = NoRead
    /\ exe = [s \in Slots |-> NoExec]
    /\ adm = [r \in Runs |-> [pc |-> "none", reg |-> None]]
    /\ can = [r \in Runs |-> {}]
    /\ rel = [r \in Runs |-> "none"]
    /\ rcv = [g \in Registrations |-> NoRecovery]
    /\ dsp = [g \in Registrations |-> NoDisposer]
    /\ stp = [pc |-> "none", slots |-> {}, chains |-> [r \in Runs |-> 0]]

Boot ==
    /\ host \in {"down", "stopped"} /\ boots < MaxBoots
    /\ boots' = boots + 1
    /\ host' = "init"
    /\ booting' = {r \in Runs : run[r].status \in {"queued", "running"}}
    /\ Fresh(definitions', accepted', queuedIds', scheduledTimers', recoverable',
             activeCount', tasks', controllers', mutations', drain', exec',
             admission', cancels', release', recovery', disposer', stop')
    /\ UNCHANGED <<run, now>>

\* One turn of the loop over listInterruptedRuns().
InitRun(r) ==
    /\ host = "init" /\ r \in booting
    /\ booting' = booting \ {r}
    /\ IF run[r].status = "queued" /\ Scheduled(r)
       THEN recoverable' = Parked(r) /\ UNCHANGED run
       ELSE run' = [run EXCEPT ![r].status = "failed"] /\ UNCHANGED recoverable
    /\ UNCHANGED <<now, boots, host, stop, dispatch, scheduledTimers, execution, plugins,
                   callers, accepted, mutations>>

InitDone ==
    /\ host = "init" /\ booting = {}
    /\ host' = "up"
    /\ Pump(queuedIds, accepted, activeCount)
    /\ UNCHANGED <<durable, booting, stop, schedule, execution, plugins, callers,
                   accepted, mutations>>

\* The process dies: only the repository and the clock remain.
Crash ==
    /\ MayCrash /\ host \in {"init", "up", "stopping"}
    /\ host' = "down"
    /\ booting' = {}
    /\ Fresh(definitions', accepted', queuedIds', scheduledTimers', recoverable',
             activeCount', tasks', controllers', mutations', drain', exec',
             admission', cancels', release', recovery', disposer', stop')
    /\ UNCHANGED durable

Tick ==
    /\ now < MaxTime
    /\ now' = now + 1
    /\ UNCHANGED <<run, boots, dispatch, schedule, execution, plugins, callers, phase,
                   accepted, mutations>>

-----------------------------------------------------------------------------

Init ==
    /\ run = [r \in Runs |-> [status |-> "absent", workflow |-> None, version |-> None,
                              scheduledFor |-> Immediate]]
    /\ now = 0 /\ boots = 0 /\ host = "down" /\ booting = {}
    /\ Fresh(definitions, accepted, queuedIds, scheduledTimers, recoverable,
             activeCount, tasks, controllers, mutations, drain, exec,
             admission, cancels, release, recovery, disposer, stop)

RunStep(r) ==
    \/ AdmissionContinue(r)
    \/ CommitExecution(r) \/ CommitCancel(r) \/ CommitApproval(r) \/ CommitExpiry(r)
    \/ \E c \in Callers : CancelContinue(r, c)
    \/ TimerFires(r) \/ ReleaseContinue(r) \/ ReleaseFails(r)
    \/ InitRun(r)

ExecutionStep(s) ==
    \/ ExecBody(s) \/ ExecRefused(s) \/ ExecUnread(s) \/ ExecSettled(s) \/ TaskFinally(s)

BodyStep(s) == BodyReturns(s) \/ BodyFails(s)

PluginStep(g) ==
    \/ RecoverContinue(g) \/ RecoverResume(g) \/ RecoverFails(g)
    \/ DisposeAdmitted(g) \/ DisposeContinue(g) \/ DisposeResume(g) \/ DisposeDrained(g)
    \/ DisposeFails(g)

HostStep == \/ DrainContinue \/ DrainFinally \/ DrainFails
            \/ StopAbort \/ StopTasks \/ StopEnd
            \/ Boot \/ InitDone

Environment ==
    \/ \E r \in Runs, g \in Registrations, at \in Schedules : Start(r, g, at)
    \/ \E r \in Runs : Cancel(r) \/ Review(r)
    \/ \E g \in Registrations : Register(g) \/ Dispose(g)
    \/ StopBegin \/ Crash

Next ==
    \/ \E r \in Runs : RunStep(r)
    \/ \E s \in Slots : ExecutionStep(s) \/ BodyStep(s)
    \/ \E g \in Registrations : PluginStep(g)
    \/ HostStep
    \/ Environment
    \/ Tick

Spec == Init /\ [][Next]_vars

\* The event loop runs every settled continuation and every expired timer, the
\* clock advances, and a workflow body ends once its AbortSignal is aborted.
\* Nothing else is assumed of bodies, and nothing of callers, plugins, the
\* operator or the machine.
Fairness ==
    /\ \A r \in Runs : WF_vars(RunStep(r))
    /\ \A s \in Slots : WF_vars(ExecutionStep(s))
                        /\ WF_vars(exec[s].aborted /\ BodyStep(s))
    /\ \A g \in Registrations : WF_vars(PluginStep(g))
    /\ WF_vars(DrainContinue \/ DrainFinally \/ DrainFails)
    /\ WF_vars(StopAbort \/ StopTasks \/ StopEnd)
    /\ WF_vars(InitDone)
    /\ WF_vars(Tick)

FairSpec == Spec /\ Fairness

-----------------------------------------------------------------------------
(* Properties *)

RunOrNone == Runs \cup {None}
RegOrNone == Registrations \cup {None}

RunRecords ==
    [status : Status, workflow : Workflows \cup {None},
     version : {VersionOf[g] : g \in Registrations} \cup {None},
     scheduledFor : Schedules \cup {Immediate}]
Mutations ==
    [kind : ExecutionKinds, by : Slots] \cup [kind : Kinds \ ExecutionKinds, by : Callers]
DrainRecords ==
    [pc : {"idle", "reading", "exiting"}, id : RunOrNone, reg : RegOrNone, seen : Status]
ExecRecords ==
    [pc : {"idle", "starting", "started", "refused", "body", "reviewing", "failing",
           "saved", "closing"},
     run : RunOrNone, reg : RegOrNone, aborted : BOOLEAN]
AdmissionRecords ==
    [pc : {"none", "creating", "cancelling", "done"}, reg : RegOrNone]
RecoveryRecords ==
    [pc : {"none", "reading", "failing", "next", "done", "rejected"}, id : RunOrNone, seen : Status]
DisposerRecords ==
    [pc : {"none", "registered", "admissions", "reading", "cancelling", "next",
           "draining", "disposed", "rejected"},
     wait : SUBSET Runs, waitRec : SUBSET Registrations, ids : SUBSET Runs,
     todo : SUBSET Runs, id : RunOrNone, seen : Status, slots : SUBSET Slots]
StopRecords ==
    [pc : {"none", "admissions", "tasks", "mutations", "ended"}, slots : SUBSET Slots,
     chains : [Runs -> Nat]]

DurableOK   == run \in [Runs -> RunRecords] /\ now \in Nat /\ boots \in Nat
DispatchOK  == queuedIds \in Seq(Runs) /\ drain \in DrainRecords
ScheduleOK  == scheduledTimers \in [Runs -> Nat] /\ recoverable \in SUBSET Runs
ExecutionOK ==
    /\ exec \in [Slots -> ExecRecords]
    /\ tasks \in [Runs -> Slots \cup {None}] /\ controllers \in [Runs -> Slots \cup {None}]
    /\ activeCount \in Int
PluginsOK ==
    /\ definitions \in [Workflows -> RegOrNone]
    /\ recovery \in [Registrations -> RecoveryRecords]
    /\ disposer \in [Registrations -> DisposerRecords]
ReadingOK ==
    /\ \A g \in Registrations : recovery[g].pc = "reading" => recovery[g].id \in Runs
    /\ \A g \in Registrations : disposer[g].pc = "reading" => disposer[g].id \in Runs
CallersOK ==
    /\ admission \in [Runs -> AdmissionRecords]
    /\ cancels \in [Runs -> SUBSET Callers]
    /\ release \in [Runs -> Status \cup {"none"}]
PhaseOK ==
    /\ host \in {"down", "init", "up", "stopping", "stopped"}
    /\ booting \in SUBSET Runs
    /\ stop \in StopRecords
AcceptedOK  == accepted \in [Runs -> RegOrNone]
MutationsOK == mutations \in [Runs -> Seq(Mutations)]

\* Every variable keeps its shape, and every chained update names a caller that can
\* be told of its outcome.
TypeOK ==
    /\ DurableOK /\ DispatchOK /\ ScheduleOK /\ ExecutionOK /\ PluginsOK /\ CallersOK
    /\ PhaseOK /\ AcceptedOK /\ MutationsOK /\ ReadingOK

\* The pump tests activeCount, awaits a read, and only then increments it; the
\* bound still holds, and the counter is the number of unfinished executions.
ConcurrencyBound ==
    /\ activeCount = Cardinality(Busy)
    /\ activeCount <= MaxConcurrentRuns

\* A run never starts before its scheduledFor, whatever timer segments, releases,
\* restarts or re-registrations lie between (docs/architecture.md, chapter 5).
NeverEarly ==
    \A r \in Runs :
        run[r].status \in {"running", "review", "completed"} => run[r].scheduledFor <= now

\* While the plugins stay, no run is ever in the hands of two execute() activations.
SingleDispatch ==
    \A s, t \in Busy : exec[s].run = exec[t].run => s = t

\* What can move a queued run on: an admission, a timer, a release, the queue, the
\* pump's read, an execution about to start it, a recovery's update, or the set that
\* the next registration recovers.
Holders(r) ==
    {h \in {"admission", "timer", "release", "queue", "read", "start", "expire",
            "recoverable"} :
       CASE h = "admission" -> admission[r].pc \in {"creating", "cancelling"}
         [] h = "timer"     -> scheduledTimers[r] # NoTimer
         [] h = "release"   -> release[r] = "queued"
         [] h = "queue"     -> Queued(r) /\ accepted[r] # None
         [] h = "read"      -> drain.id = r /\ drain.reg # None
         [] h = "start"     -> \E s \in Busy : exec[s].run = r /\ exec[s].pc = "starting"
         [] h = "expire"    -> \E g \in Registrations :
                                  recovery[g].pc = "failing" /\ recovery[g].id = r
         [] OTHER           -> r \in recoverable}

\* While the host is up, no queued run is lost, whatever plugins come and go.
QueuedHasHolder ==
    host = "up" => \A r \in Runs : run[r].status = "queued" => Holders(r) # {}

\* While the plugins stay, no queued run is in two places, whatever the repository
\* rejects: it could be started from both.
QueuedHeldOnce ==
    host = "up" =>
        \A r \in Runs : run[r].status = "queued" => Cardinality(Holders(r)) <= 1

\* Once the recovery of a registration has ended without an error, no queued run of its
\* workflow waits for a registration any more (docs/architecture.md, chapter 5).
NoStrandedSchedule ==
    \A g \in Registrations :
        host = "up" /\ definitions[WorkflowOf[g]] = g /\ recovery[g].pc = "done"
        => \A r \in recoverable :
              run[r].workflow = WorkflowOf[g] => run[r].status # "queued"

\* While the host is up, a signal is aborted only after the outcome is saved or
\* while the execution itself is failing: cancellation is durable before it is
\* announced (docs/architecture.md, chapter 5).
CancelSavedBeforeAbort ==
    host = "up" =>
        \A s \in Slots : exec[s].aborted /\ exec[s].pc \in {"starting", "started", "body"}
                         => run[exec[s].run].status \in Terminal

\* When the stop effect has ended no execution is under way, and none begins: it has
\* aborted and awaited the tasks (docs/architecture.md, chapter 5).
StopDrains == host = "stopped" => Busy = {}

\* When the stop effect has ended every start() has been decided: a run that is still
\* queued was accepted, or is a schedule that waits for its plugin.  One that was in
\* createRun when the host began to stop, or its plugin left, has been cancelled, and no
\* recovery is left in the middle of one.
StopDecides ==
    host = "stopped" =>
        \A r \in Runs : run[r].status = "queued" =>
            accepted[r] # None \/ (Scheduled(r) /\ r \in recoverable)

\* The stored status moves only along the documented edges.
Edges ==
    {<<"absent", "queued">>, <<"queued", "running">>, <<"running", "review">>,
     <<"review", "completed">>}
    \cup {<<s, "cancelled">> : s \in Live} \cup {<<s, "failed">> : s \in {"queued", "running"}}

LegalTransitions ==
    [][\A r \in Runs : run'[r].status # run[r].status =>
          <<run[r].status, run'[r].status>> \in Edges]_vars

\* No later step overwrites a terminal status (docs/architecture.md, chapter 5).
TerminalFinal ==
    [][\A r \in Runs : run[r].status \in Terminal => run'[r].status = run[r].status]_vars

\* A disposer that has settled leaves no execution of its implementation running or
\* able to run (docs/architecture.md, chapter 5).
Uses(s, g) == exec[s].reg = g /\ exec[s].pc \in {"started", "body", "reviewing"}

DisposalDrains ==
    \A g \in Registrations : disposer[g].pc = "disposed" => \A s \in Slots : ~Uses(s, g)

\* A disposer that has resolved leaves no execution of an immediate run: it has cancelled
\* the run, and even the read that the pump had in flight cannot start it any more.
\* One that has rejected promises nothing.
ImmediateRunsDrained ==
    \A g \in Registrations :
        disposer[g].pc = "disposed" => \A s \in Slots : Uses(s, g) => Scheduled(exec[s].run)

\* A queued run that the process has in hand leaves the queue as long as there is a
\* free slot: no wake-up of the pump is lost, and no timer, even when the repository
\* rejects the reads and updates of other runs.
Waiting(r) ==
    /\ run[r].status = "queued" /\ Holders(r) # {} /\ definitions[run[r].workflow] # None
    /\ host = "up" /\ activeCount < MaxConcurrentRuns

RunLeavesQueue == \A r \in Runs : Waiting(r) ~> ~Waiting(r)

\* A cancelled execution is signalled and ends, and its slot is free again.
CancelledExecutionEnds ==
    \A s \in Slots : (s \in Busy /\ run[exec[s].run].status = "cancelled") ~> s \notin Busy

\* The stop effect ends: nothing it awaits awaits the stop.
StopEnds == host = "stopping" ~> host # "stopping"

\* A disposer does not hang, unless it waits for the execution of a scheduled run: those it
\* parks instead of cancelling, also when their start is under way.  It may end early, when
\* a read fails or the run it was to cancel has ended meanwhile.
AwaitsScheduled(g) ==
    \E s \in disposer[g].slots : Scheduled(exec[s].run) /\ ~exec[s].aborted

DisposerSettles ==
    \A g \in Registrations :
        disposer[g].pc = "admissions"
        ~> disposer[g].pc \in {"disposed", "rejected", "none"} \/ AwaitsScheduled(g)
=============================================================================
