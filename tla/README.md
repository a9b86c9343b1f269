# Lightcode Factory in TLA+

Lightcode Factory is a plugin bundle for a host ("DSH") that runs
*workflows*: short sequences of named nodes that a person starts from a board,
now or at a set time, watches, reviews and may cancel.  The host side is one
service, `LightcodeFactoryRuntime` (`src/packages/runtime/src/index.ts`), over a
repository port with an SQLite adapter; a browser client polls it.  This
directory holds TLA+ modules of that code, TLC configurations that model-check
them, and TLAPS proofs about them.

1. [The system](#1-the-system) - components, state, operations, interactions, what is hard
2. [The modules](#2-the-modules) - what models what, and how
3. [The runs](#3-the-runs) - what each checks, its bounds, fairness
4. [The proofs](#4-the-proofs)
5. [Findings](#5-findings)
6. [What is not modelled](#6-what-is-not-modelled)
7. [The plan](#7-the-plan)

To check: `tlc -config runtime_queue.cfg MCFactoryRuntime.tla` and so on for
each configuration of section 3; `tlapm FactoryRuntimeProofs.tla` and so on for
each module of section 4.

## 1. The system

### Components

| Component | State | Operations | Must hold |
|---|---|---|---|
| **Runtime scheduler** (`runtime/src/index.ts`) | `definitions` (installed workflows), `accepted` (which registration will run a run), `queuedIds`, `scheduledTimers`, `recoverableScheduled`, `activeCount`, `pumping`, `tasks`, `controllers`, `admissions`, `stopped` | `start`, `cancel`, `review`, timers, the pump, `registerWorkflow` and its disposer, `Service.init`, the stop effect | never more executions than `maxConcurrentRuns`, no run executed twice, none lost or early, cancellation final and durable before it is signalled, disposal and stop drain and end |
| **Runtime update chain** (`update`, 463-478) | `mutations`: per run, the promise of the last update | read, change, save with the revision read, one update at a time per run | updates are atomic, in call order, survive each other's failures, leave nothing behind |
| **Run execution** (`execute`, `executeNode`, `reportObservation`) | the aggregate: status, current node, node statuses, observations, events | start, node start / report / completion, review, failure | a run in review has completed every node in order; nothing late is recorded |
| **SQLite repository** (`storage-sqlite`) | four tables, a revision per run, schema version | `open` and migration, `createRun`, `saveRun`, `getRun`, `listRuns`, `listInterruptedRuns`, `createBackup` | a save is all or nothing, a stale revision changes nothing, pages neither skip nor repeat |
| **Runtime client** (`runtime/src/client`) | the snapshot the board renders: runs, cursor, phase | `refresh` every 750 ms, `loadMore`, `getRun`, commands followed by refresh and upsert | the list converges to the stored runs |
| **Web UI** (`web`) | form and panel state | renders the snapshot, calls the client | what the user asked for reaches `start` |
| **Workflow catalog** (`workflows`) | per execution: a model session and its listeners, a buffer, the chain of reports, a timeout, a script process | registers a deterministic assessment at once and a script generator when the host can run it; executes them | however it ends, nothing is left behind; the stream is reported in order and whole before its script goes on; a risk is answered by its checklist |
| **Contracts, bundle, scripts** | none | types, schemas, packaging | - |

### How they interact

The browser calls the runtime over a wire contract (`remote.ts`); the runtime
calls the repository through an asynchronous port (`contracts/src/repository.ts`)
and plugins through the callback they registered; plugins call back into
`node()` and `report()` and hold an `AbortSignal`.  All host code shares one
JavaScript thread: there is no preemption, and every `await` is a point where
any other settled continuation may run first.

### What is hard

* **State read before an await and used after it.** Every scheduler loop
  (`drainQueue`, `releaseScheduledRun`, `recoverScheduledRuns`, a disposer) reads
  a run and then acts on five maps that others have edited meanwhile.
* **One run, many places.** A queued run is in an admission, a timer, a
  release, the queue, the pump's hands, a recovery or the recoverable set; each
  hand-over crosses an await.
* **Three waits.** `stop`, disposers and executions await one another's
  admissions, tasks and mutations; each takes its own snapshot.
* **Reloading.** A plugin may be unloaded and another of the same id, in the
  same version or another, registered while the first still drains.
* **Restart.** Only the repository survives; scheduled runs are re-armed by
  whichever registration comes, everything else is failed.
* **Late results** of timers, nodes, reports, cancellations and failures.
* **Reads that reject.** The port is asynchronous and may fail: each rejection
  ends one activation, and what it held must not be lost with it.
* **A stream and its report chain.** The script generator buffers text, chains
  reports that may each be refused, and aborts one controller from four places
  while it awaits the session, the chain and the disposal.

The list of hazards with their lines is in `PROJECT.json`.

## 2. The modules

| Module | Models | Kind |
|---|---|---|
| `FactoryRuntime` | the scheduler over a repository that may fail | state machine, 17 groups of fields, about 45 actions |
| `MCFactoryRuntime` | small instances of it | TLC |
| `FactoryRuntimeProofs` | type correctness, `NeverEarly`, `ConcurrencyBound`, `CancelSavedBeforeAbort` | TLAPS |
| `FactoryDispatchProofs` | for plugins that stay: `SingleDispatch`, `QueuedHeldOnce`, `NoStrandedSchedule`, `StopLeaves`, `LegalTransitions`, `TerminalFinal` | TLAPS |
| `FactoryQueueProofs` | whatever plugins come and go: `QueuedHasHolder`, `StopDecides`; and of immediate runs `ImmediateRunsDrained`, one dispatch, one place, legal and final statuses; no idle pump beside a waiting run (`Served`), no wait without something under way (`Answered`) | TLAPS |
| `AtomicUpdates` | what `update()` promises | abstract specification |
| `MutationChain` | `update()` itself over the repository's revision check | state machine, refines `AtomicUpdates` |
| `MCMutationChain` | a small instance of it | TLC |
| `MutationChainProofs` | `NoConflict`, `MapHoldsLast`, the refinement | TLAPS |
| `RunExecution` | one run from `execute()` to its review, with nodes, observations and events | state machine, about 20 actions |
| `RunRepository` | what the repository port promises of its writes | abstract specification |
| `SqliteStorage` | the SQLite adapter: tables, statements, `open`, pages | state machine, refines `RunRepository` |
| `MCSqliteStorage` | the database files it may find | TLC |
| `SqliteStorageProofs` | `SchemaStaysWhole`, `OpenIsCurrent`, `HeldIsStored`, `WalkComplete`, and that `SqliteStorage` implements `RunRepository` (`WritesAreAtomic`) | TLAPS |
| `FactoryClient` | the browser's list of runs, its calls in flight, the form | state machine |
| `MCFactoryClient` | a small instance of it | TLC |
| `FactoryClientProofs` | `LoadingMeansCall`, `PagesMeet`, and that the form is disabled exactly while its call is in flight | TLAPS |
| `RunExecutionProofs` | `ReviewMeansComplete`, `NothingLeftRunning`, `EndedRunIsSettled`, `FinishedNodesFrozen`, `LogAgrees`, `NewestFactsKept` | TLAPS |
| `MorningScript` | one execution of `morning-script-demo`: session, stream, reports, script process | state machine, about 25 actions |
| `ReleaseReadiness` | the assessment of `release-readiness`: notes, score, level, checklist | operators |
| `WorkflowCatalog` | the plugin: its registrations, and a run of either workflow | state machine, composes the two |
| `MCWorkflowCatalog` | the inputs of a small instance | TLC |
| `CatalogProofs` | `NothingLeftBehind`, `ResultIsReported`, `TraceInOrder`; `ChecklistFitsRisk` | TLAPS |

A definition whose name ends in `Mutant` is the definition after it with a
plausible mistake (an off-by-one, a dropped guard, a missing clean-up).  No
specification uses one; each is there to show that a property notices.

### FactoryRuntime

*Granularity.* An action is the code between two awaits, all of it: a
continuation that ends in `pump()` contains the synchronous part of
`drainQueue()`, so `EnqueueRun`, `Pump` and `DrainLoop` are operators that the
actions share, not actions.  The continuations that are ready may run in any
order; JavaScript's microtask order is one of them, and a repository behind a
real connection (the port is asynchronous, and the design foresees another
adapter) makes the others possible.  A repository call takes effect when it
is issued, as `node:sqlite` does, and its caller goes on later.

*Correspondence.* Variables carry the names of the fields.  What JavaScript
keeps on the stack of an asynchronous function is a record with a program
counter:

| Variable | The activation of | Its `pc` |
|---|---|---|
| `admission[r]` | `start`/`queueRun` | `creating` (awaits `createRun`), `cancelling` |
| `drain` | `drainQueue`, `pump` | `reading` (awaits `getRun`), `exiting` (before `finally`); not `idle` is `pumping` |
| `exec[s]` | `execute` and its task | `starting`, `started`, `refused`, `body`, `reviewing`, `failing`, `saved`, `closing` |
| `cancels[r]` | `cancelFrom` past its update | a set of callers |
| `release[r]` | `releaseScheduledRun` | the status it read |
| `recovery[g]` | `recoverScheduledRuns` | `reading`, `failing`, `next` |
| `disposer[g]` | the disposer | `admissions`, `reading`, `cancelling`, `next`, `draining` |
| `stop` | the stop effect | `admissions`, `tasks`, `mutations` |

`tasks` and `controllers` hold the slot of the activation they belong to;
`accepted` holds the registration.  `mutations[r]` is the sequence of updates
chained for a run; `Committing` applies its head in one step, which is what
`MutationChain` shows `update()` to do.  `Result` is the table of what each
change callback does to a status it finds.

*Repository failures.* `MayFail` names the awaited calls that the repository may
reject: `ReleaseFails` (the read of a released schedule: the run stays queued
with nothing to wake it), `DrainFails` (the shifted id is gone, `finally` pumps
again), `ExecUnread` (the read of `execute()`, whose catch block fails the run),
`RecoverFails` and `DisposeFails` (the activation ends there), and the updates
of an execution, a recovery, a disposer or an admission (`Committing` with its
second parameter, `Told` for the caller).  A user's command that is rejected
changes nothing and is not a step.  A run whose own read failed is in nobody's
hands until its workflow or the host starts again: `RunLeavesQueue` speaks of
runs that somebody holds, and `QueuedHasHolder` is checked without these failures,
only with those of a disposer.

*Abstracted.* The aggregate is its status, workflow, version and schedule:
nodes, events and observations decide no step of the scheduler.  A workflow
body is an environment: it returns, throws or does neither, at any time.  Reads
(`catalog`, `getRun`, `listRuns`) and `publish` change nothing.

*Bounds*, each named where it is used: a clock up to `MaxTime`, host starts up
to `MaxBoots`, one outstanding user call of each kind per run, one release in
flight per run, one registration of each registration object per process, and
calls that would be refused when they are made are not made (they change
nothing).  Services are called while the host is up, not during `Service.init`.
A start after `stopped` is a new process.

### MutationChain and AtomicUpdates

`MutationChain` follows one run.  `Call` is `update()` up to its return: it
links the new task behind the promise found in `mutations` and stores itself
there.  `Begin`, `Read`, `Change` and `Save` are the task; `Save` is the
revision check of `saveRun`.  `RepositoryFails` rejects a read or a save, whose
transaction is rolled back; `Clean` is the `finally` callback, which may run
after others have called.  `Crash` clears everything but the repository.  A
change callback may throw because of an earlier update (`Rejects`): a cancel
after an approval, for instance.

`AtomicUpdates` has none of this: updates are asked for, and in that order each
is applied, refused or fails, in one step.  The refinement maps the stored log
to its value and the settled phase to the reply.

### RunExecution

`run` is the stored aggregate; everything else is the process.  `pc` is where
`execute()` is; `index`, `pending` and `failed` are its local variables (`failed`
is that `nodeFailure` is set), and `task` is where the pending `executeNode()`
is.  The workflow body is again an environment, but here it holds a context: it
may call `node()` for the right or the wrong node, without awaiting it, after
a failure it swallowed and even after it returned (`CallNode` has the checks of
`node()`), keep the `report` function of a node that is over (`contexts`), and
ignore its signal.  A call that throws at once changes nothing and is not a step.

The module composes with the others at two seams.  Updates go through a
`chain` whose head `Commit` applies in one step, as `MutationChain` shows
`update()` to do; `Accepts` is the condition of each change callback and
`Changed` its result; `Told` resumes the caller with either outcome.  To the
scheduler one execution is one slot: `Controlled` is its entry in
`controllers`, and `StopAbort` and `Cancel` are what the scheduler does to it.
A crash keeps `run`; `Restart` is `Service.init` on it.

Facts are numbers in the order of the `report()` calls, so that the properties
can tell older from newer; `reports` is a history of what each caller was told.
Three restrictions in the properties are the code's: `NothingLeftRunning`
speaks of nodes only in the process that executed the run, because
`Service.init` fails an interrupted run and leaves its nodes as they were;
`EndedRunIsSettled` excludes an execution whose last update the repository
failed (`pc` is `lost`); and a body that swallows a node's failure may start
the next node while the failed one is still marked running, until the run
fails.

### SqliteStorage and RunRepository

`file` is the committed database, with the tables as sets of rows; `work` is
what the transaction in progress sees.  A method has no `await` once it has
begun, so one `call` is in progress at a time, and `stage` is its next
statement; `Rollback` may end it at any of them (a full disk, a lock, a refused
revision) and `Crash` kills the host.  Rows carry the ordinals and sequences
that the code writes and orders by: `Aggregate` is `readAggregate`, and the
refinement says that what it reads back is what was written.  `OrderBy` takes
the place of a row from the number of rows before it, which is what `ORDER BY`
over a unique key gives, and can be reasoned about where a sorting algorithm
cannot.  A value is a
status, a creation time, the observations of each node and the events; columns
that are only carried along are left out.  Callers keep what they were last
given and save changes of it, so that two of them may name the same revision.
`open` refuses a file of another schema before it changes anything; the two
schema versions differ in one column.

`walk` is a client that asks for page after page.  `due` records which runs
matched its filter all along; creation times may coincide, which is what the
`id` in the cursor is for.

In `RunRepository` a write is asked for and then applied or refused in one
step.  The refinement reads `store` off the tables and takes `call` for the
write in progress; opening and migrating are stutters.

### FactoryClient

`shown`, `cursor`, `loadingMore`, `phase` and `error` are the snapshot; a run's
content is a version, and runs are numbered in the order of the list.
`calls` are the remote calls in flight, in slots for the interval and for the
user, each sent, served (`Serve`: what the host answers is read then) and
answered in steps of their own; `at` is the `await` they are in.  A command goes
on with a refresh (`renew`) and then puts its result over the list (`upsert`).
`Fail` is a call that fails before or after the host has acted.  Left out: the
catalog, which `refresh` reads with the page, the schedule of a start (section 5),
and that the form's component may be unmounted.

What the list shows may have a gap above the place where `loadMore()` goes on
(`Contiguous` says it has none).  The next poll closes any gap, so a liveness
property would say nothing of `loadMore()`: `PagesMeet` is an action property.  A
refresh leaves a list without a gap, and a list gets one in two ways only: by a page
that was asked for after a cursor that a refresh has replaced meanwhile, and by the
result of `getRun()` or of a command, which `upsert` puts beside the pages.

### MorningScript, ReleaseReadiness and WorkflowCatalog

`MorningScript` is `generateScript` and `executeScript`: `pc` is the `await` that
the execution is at, and an action is the code up to the next one.  `chars`,
`buffer`, `reportFailure`, `stopReason` and `answer` are the code's variables,
`reports` is the chain of `enqueue()` that has not settled, `aborted` its
controller, `timer` and `listening` what the `finally` blocks must undo.  The
Runtime accepts a report or refuses it (`ReportAccepted`, `ReportRefused`: a
refusal aborts the controller and the chain goes on).  The session is an
environment: from the creation of its agent to its end it emits text of two
kinds (`Chunk`), messages and tool calls, before which the buffer is flushed
(`FlushingEvent`), and other events, which overtake it (`OtherEvent`); it may do
so after it was cancelled and while a rejected `whenIdle()` is being cleaned up.
Every call may reject, `child.done` itself or the reading of what it wrote among
them (`ChildFails`).  The abort event is fired once and reaches those who
listen by then (`Abort`).  A piece of text is a number of length one; `streamed`
and `trace` are histories.

`ReleaseReadiness` is the pure part of the other workflow: of a line of the notes
only the keywords that it matches are kept, or that it is blank; of the version
whether it is well-formed, a prerelease, and of major version 0.

`WorkflowCatalog` registers the two as `apply()` does, the second while the host
has what it needs, and runs one of them.  `Advance` is an `await` of
`release-readiness` with the computation behind it.  How an unloaded plugin's
runs are aborted is in `FactoryRuntime`; here it is the signal, at any time.

## 3. The runs

| Run | Instance | Shows |
|---|---|---|
| `runtime_queue` | 2 immediate runs, 1 of 2 slots, repository failures; fair | `ConcurrencyBound`: the pump's check, await and increment keep the bound; `CancelSavedBeforeAbort`; `LegalTransitions`; `RunLeavesQueue`: no lost wake-up; `CancelledExecutionEnds` |
| `runtime_restart` | 1 run, schedule 3 in segments of 1, 2 slots, 2 versions, 3 boots, stop, crash and repository failures; fair | `TypeOK`; `QueuedHeldOnce`; `SingleDispatch`: never in two executions; `NeverEarly`; `NoStrandedSchedule` after restart: nothing recoverable is left of a workflow whose recovery has ended; `StopEnds` |
| `runtime_reload` | 1 run, immediate or scheduled, 2 registrations of one version, stop, failing disposer; fair | `QueuedHasHolder`: never lost; `ImmediateRunsDrained`; `StopDecides`: a stop leaves every `start()` decided; `DisposerSettles` |
| `update_chain` | 4 updates, 2 that exclude one another; fair | `NoConflict`, `MapHoldsLast`, `UpdateSettles`, and that `update()` implements `AtomicUpdates` |
| `run_execution` | 2 nodes, 3 reports of which 2 are kept, repository failures, stop, crash and restart; fair | `ReviewMeansComplete`, `NothingLeftRunning`, `LogAgrees`, `NewestFactsKept`, `EndedRunIsSettled`, `FinishedNodesFrozen`, `CancelledRunEnds` |
| `sqlite_storage` | new, old, current and unsupported files, 3 runs of which 2 may be there, 2 creation times, 2 callers, 2 writes, pages of 1 | `WritesAreAtomic` (the refinement), `HeldIsStored`, `SchemaStaysWhole`, `OpenIsCurrent`, `WalkComplete` |
| `client_view` | 3 runs of 2 versions, pages of 1, a poll and a call of the user in flight, 1 failure; fair | `Converges`; `PagesMeet`: where `loadMore()` goes on; `LoadingMeansCall`, `FormFrees` |
| `workflow_catalog` | 2 pieces of text that count and one too many, a flush at 2, events up to 3 reports, any of them refused; every input of 3 lines over 2 keywords, 2 of them considered; fair | `TraceInOrder`, `ResultIsReported`, `NothingLeftBehind`, `WorkflowEnds`; `ChecklistFitsRisk` |
| `runtime_terminal` | 1 scheduled run, 2 versions, restart | violates `TerminalFinal` (section 5) |
| `runtime_stranded` | 1 scheduled run, reload | violates `NoStrandedSchedule` (section 5) |
| `runtime_unload` | 1 scheduled run, unload | violates `DisposalDrains` (section 5) |
| `runtime_stop` | 1 immediate run, stop, no failures | violates `StopDrains` (section 5) |

*Why these bounds.* Every hazard of the scheduler involves one run and its
holders, or two runs and one slot: the state that runs share is the queue, the
counter and the pump.  Two runs make an id follow another in the queue
while a cancelled execution still holds the slot; there is a slot more than `MaxConcurrentRuns`
where the bound is checked, so that exceeding it is possible, and a second one
where a run could be dispatched twice.  `MaxTimerDelay`
1 against a schedule of 3 gives several segments.  In `RunExecution` two nodes
give a first, a next and a call out of order, and three reports overflow a limit
of two; each user command is made once, since all but one of them is refused.  Two registrations are enough
for an old and a new one, in one version or two; three boots cross a restart
of a restarted host.  In `SqliteStorage` two writes
from one revision are enough for a conflict, three runs with two creation times
for a tie and an order, and pages of one for a cursor after each run.  In
`FactoryClient` three runs in pages of one give a cursor that a refresh moves
while a page is fetched, and a run that may be missing between two others; a poll and the
refresh of a command can be answered in the other order, and one failure hits every
kind of call.  In `WorkflowCatalog` two pieces give a flush by size and one by a change
of kind, three reports an event between two texts, and the third piece the limit;
three lines give a blank one, or one beyond the limit of the notes.  Runs and slots are symmetric where no fairness is
assumed.  Deadlock is not checked: with a bounded clock and run ids each used
once every instance comes to rest.

*Fairness.* The event loop runs every continuation whose promise has settled
and every timer that has expired (weak fairness on the steps of runs, slots,
plugins, pump, stop and init, and on the clock).  Of a workflow body it is only
assumed that it ends once its signal is aborted, which is what the runtime
itself relies on when it awaits tasks; a body that is not aborted may run for
ever.  Nothing is assumed of users, plugins or the operator.  In `MutationChain`
it is assumed that the repository answers.  In `RunExecution` the callback of a
node, too, ends once its signal is aborted.  In `FactoryClient` the interval
ticks, and a call is answered or fails and its promise goes on; the host's runs
and the user owe nothing, but the bounds make them stop, which is the premise of
`Converges`.  In `WorkflowCatalog` (`ScriptFairness`) the calls that the code
awaits settle, reports are accepted or refused and timers fire; an agent gets
idle once it was cancelled, and a process ends once its signal is aborted, since
`spawn` is given the signal and `graceMs`.  A model that streams for ever and a
script that never ends are behaviours of the model: `WorkflowEnds` rests on the
two timeouts.

*What a property leaves out.*  `StopDrains` is what the documents promise of the stop
effect; no passing run checks it, since the code does not keep it (section 5).  What
the code does keep is `StopDecides`, and, as a theorem, `StopLeaves`: one execution at
most escapes.  `DisposerSettles` counts as settled a disposer that rejects because the
run it meant to cancel has moved on: it leaves its other runs neither cancelled nor
awaited, and no property covers them (its caller is told; the hazard at
index.ts:129).  `ImmediateRunsDrained` therefore speaks of a disposer that has
resolved.  `DisposerSettles` also excepts a disposer that waits for a scheduled run
which it parked while it was being started: such an execution is awaited and not
cancelled.  `NoStrandedSchedule` speaks of `recoverableScheduled`: a queued run whose
release could not read it is outside (the hazard at index.ts:309).

## 4. The proofs

All are of the form `Spec => []P` or `Spec => AbstractSpec` and hold for every
value of the constants that satisfies the `ASSUME` of the module: any runs,
registrations, schedules, any `MaxConcurrentRuns` with at least as many slots.
Eight theorems about the scheduler have a further hypothesis on the constants,
written in the statement: where the code does not keep the property otherwise
(section 5, or what a lost read costs).

* **`TypeCorrect`** (`FactoryRuntimeProofs`): `Spec => []TypeOK`.  One lemma per
  group of actions; operators used by several actions (`DrainLoop`, `Pump`,
  `EnqueueRun`, `ArmScheduledRun`, `Committing`) have a lemma each.  Two facts
  are not about types alone: a recovery or a disposer that is reading holds a
  run id (`ReadingOK`), and a chained update names a caller of its kind.
* **`NeverEarlyCorrect`** (`FactoryRuntimeProofs`): no run starts before its
  time.  The status does not say why a run may start, so the invariant follows
  the run backwards: an execution about to start holds a due run
  (`StartReady`), so does the pump (`DrainReady`), so does the queue
  (`QueueReady`); and whoever holds a run holds a stored one (`HolderStored`),
  because an absent run's schedule could still be chosen.
* **`ConcurrencyBounded`** (`FactoryRuntimeProofs`): `activeCount` is the number
  of busy slots and at most `MaxConcurrentRuns`.  The pump tests the counter one
  step before it increments it, so the invariant says that while it reads there
  is a free place (`SlotFree`), which needs that only one activation of
  `drainQueue` exists.  That no finished slot is counted again needs that each
  execution has at most one chained update and waits for it (`OneUpdate`,
  `UpdateAwaited`).
* **`CancellationIsSavedFirst`** (`FactoryRuntimeProofs`): while the host is up, a
  signal is aborted only after the outcome is saved or while the execution is
  failing.  `cancelFrom` aborts the controller it finds after its update, so the
  invariant says that a controller is that of its run's execution
  (`ControllerOfRun`), that a caller past its update finds a terminal status
  (`CancelsSaved`; a terminal status is only overwritten by a terminal one,
  `TerminalKept`), and that the stop effect, which aborts without saving, runs only
  in a stopping host (`StopStarted`).  An execution that starts was aborted only
  while it waited for that very update (`UpdateAwaited`).
* **`DispatchedOnce`, `HeldOnce`** (`FactoryDispatchProofs`, for
  `Disposable = {}`): no run is executed twice at a time, and a queued one is in
  one place at most.  Neither is inductive.  The invariant speaks of all runs, not
  of queued ones: a run is in one place at a time (`OnePlace`), among them the
  reads in flight of the pump, a release and a recovery; the queue holds an id
  once, and not the one the pump is reading (`QueueOnce`); a run that is not
  stored, or that `Service.init` has still to look at, is nowhere
  (`AbsentNowhere`); and one registration of a workflow at most is defined and
  recovers its runs (`OneDefined`).  A step is followed by what it takes from a
  place and what it puts there.  With disposers the property does not hold:
  section 5, `runtime_unload`.
* **`NoneStranded`** (`FactoryDispatchProofs`, for `Disposable = {}`): a
  registration whose recovery has ended leaves no schedule of its workflow behind.
  The set that a recovery empties grows again when a release finds no registration
  for its run, so the invariant says that a queued run has one while its timer or
  its release holds it (`HeldAccepted`) and that what a release has read is still
  right (`ReleaseSaw`).  Run `runtime_stranded` is the case with a disposer.
* **`StopLeavesOne`** (`FactoryDispatchProofs`, for `Disposable = {}`): the finding
  `runtime_stop`, bounded.  When the stop effect has ended no admission is under way, and
  of the executions one at most was not aborted, the one the pump was reading for, for
  any number of slots.  The invariant follows the effect from its second phase on: no
  admission begins (`StopSettled`), and what escapes is one (`LooseOne`).  That the effect
  has awaited the others needs that the task kept for a run is that of its only
  execution (`TaskOfRun`).
* **`OnlyLegalTransitions`, `TerminalStays`** (`FactoryDispatchProofs`, for
  `Disposable = {}` and `OneVersion`): a failure that comes late does not look at
  the status it overwrites, so both rest on who may still ask for it: an execution
  asks for updates of its own run only (`UpdateOwn`) and has that run for itself
  (`DispatchedOnce`), and an expiry needs a second version of the workflow
  (`NoExpiry`), as in run `runtime_terminal`.
* **`NoneLost`** (`FactoryQueueProofs`, for any `Disposable`): while the host is up
  something holds each queued run.  The hypothesis `Reliable` says that the reads of
  the pump and of the releases and the updates are answered: where they reject, the
  code does leave the run to the next start of the host (hazards at index.ts:309 and
  364).  Whoever gives a run up hands it on in the same step (`NoneUnheld`), which
  needs that a status read as not queued is not that of a queued run (`NotStale`:
  no run becomes queued twice), that a chained start or expiry is that of the
  execution or the recovery that waits for it (`UpdateOwn`, `ExpiryOwn`,
  `ExpiryOnce`), and that an execution past its start has moved its run on
  (`Begun`).
* **`StopDecided`** (`FactoryQueueProofs`, for any `Disposable`, under `Reliable`): when
  the stop effect has ended, a run that is still queued was accepted by a registration or
  is a schedule that waits for its plugin.  `NoneUnheld` speaks no more when the host
  begins to stop, because a release or the pump then drops what it holds; who a run
  belongs to does not change by that.  So `NoneDisowned` says, until the process is gone,
  that a queued run belongs to its admission, to the registration that accepted it, to the
  parked ones or to a recovery that is failing it (`Owned`).  The effect waits for the
  first and the last of these, and none begins after its first phase (`StopSettled`,
  `StopQuiet`).
* **`ImmediateDrained`** (`FactoryQueueProofs`, for any `Disposable` and any
  `MayFail`): a disposer that has resolved leaves no execution of an immediate run.
  Its walk goes over the runs that were accepted for it when it began and awaits
  their tasks; what executes the implementation is what the pump read from `accepted`
  before an `await`.  That the two agree needs all of `PromptInv`: an immediate run
  is in one place at a time and its one execution is its task (`Sole`, from `Untimed`:
  no timer, release or recovery ever has it); the read in flight and an execution
  that is under way or may still start use the registration of the map (`Follows`);
  once the disposal has begun no run is accepted for it (`Gone`, `AdmitsOwn`); every
  run that the walk has passed has left the queue (`Walks`), because the cancellation
  it awaits is of the run at hand and its only one (`CancelOwn`, `CancelOnce`); so
  what uses the implementation afterwards is among the tasks it awaits (`Drains`).
  One assumption was added to the module for it: registrations, which are objects in
  the code, are not the names of the other callers, `"user"` and `"admission"`.
* **`ImmediateTransitions`, `ImmediateStays`, `ImmediateOnce`, `ImmediateHeld`**
  (`FactoryQueueProofs`, no hypothesis): an immediate run keeps `LegalTransitions`,
  `TerminalFinal`, `SingleDispatch` and `QueuedHeldOnce` whatever plugins are unloaded
  and reloaded and in whatever versions.  So the findings `runtime_terminal` and
  `runtime_unload` are confined to scheduled runs.  `CourseInv` adds to `PromptInv` that
  the status of such a run fits the place it is in (`PromptFits`), that no recovery
  fails it (`Unexpired`), and that `Service.init` works alone (`InitIdle`) on runs that
  are as it listed them (`BootStatus`); what a step does to one run is the same lemma
  as for `OnlyLegalTransitions` (`Orderly`).
* **`QueueServed`, `NoneForgotten`** (`FactoryQueueProofs`, no hypothesis): the part of
  `RunLeavesQueue`, `DisposerSettles` and `StopEnds` that a proof can say.  At rest the
  pump has an empty queue or no free slot (`Served`): whoever enqueues a run or frees a
  slot calls `pump()`, and where `pumping` is still set the `finally` looks again.
  And nobody awaits what will not come (`Answered`): the update that an execution, an
  admission, a recovery or a disposer awaits is in the chain of its run, or has
  committed and the caller is about to be told; tasks that a disposer or the stop
  effect awaits have not ended; the stop effect awaits no more updates than are
  chained.  What is chained leaves by a commit or with its process, and a commit tells
  the caller that the update names; so it remains to show that callers wait only for
  what they asked for: an execution for an update of its own run (`ExecStored`), and
  who awaits tasks for what `tasks` kept, an activation of that run that has not ended
  (`TasksBusy`).  That a chain moves, that an execution ends and that its caller goes on is
  fairness, and left to the runs.
* **`NoConflictEver`, `MapHoldsLastCalled`, `UpdateIsAtomic`**
  (`MutationChainProofs`): from `ChainInv`: calls are distinct and in order,
  each is linked to the one called before it in the same process or finds it
  settled (`Linked`), the map holds the last one or nothing is pending (`MapOK`),
  and an update between read and save has seen the stored run (`Fresh`).  That the
  map is empty in the end needs that its entry still has a callback to come, which
  removes it (`Owned`).
* **`ReviewMeansCompleteEver`, `NothingLeftRunningEver`, `EndedRunIsSettledEver`,
  `FinishedNodesFrozenEver`** (`RunExecutionProofs`): from `RunInv`.  Each update
  in the chain has its caller waiting for it, and `execute()` and the pending
  node wait for one update each (`ChainTold`, `OneEach`), so where the callers
  are says what can still happen to the aggregate.  As long as no failure was
  seen all nodes before the pending one are completed (`SettledCompleted`), and a
  review is asked for only when all are started and none is pending
  (`ReviewingReady`); in a running run the status of a node follows its task
  (`NodesFresh`).  `ChangedEffects` says once what each change callback does.
* **`LogAgreesEver`, `NewestFactsKeptEver`** (`RunExecutionProofs`): every event of
  the log fits the run (`Course`), and one that is appended did not fit it before,
  so none is told twice; node starts are in order because the nodes before the
  pending one have started.  Reports are told their outcome in the order of their
  calls (`ReportsAhead`): the fact that is acknowledged is newer than those before
  it, and cutting the list at its old end keeps it.
* **`LoadingMeansCallEver`, `FormFollowsCallEver`** (`FactoryClientProofs`): a step
  ends one call at most, and the calls made for the form are its start and the
  refresh that follows (`FormCalls`), one at a time (`FormOne`).  The second theorem
  is the safety half of `FormFrees`: the form is not freed before its call ends.
* **`PagesMeetEver`** (`FactoryClientProofs`): the runs of the host are the first ones
  by number, and a page in flight is a piece of them without a gap: from the newest one
  down, or from a cursor down, to the cursor that it brings (`PageIs`).  It stays that
  while it waits, since runs created meanwhile are newer than all it shows
  (`FitsGrown`).  So a refresh leaves a list without a gap, and a page asked for at
  the cursor the list still has goes on where the list ends.

* **`OpenIsCurrentEver`, `SchemaStaysWholeEver`** (`SqliteStorageProofs`): from
  `StorageInv`, which follows the transaction of `open()`: it starts from a
  supported file, has tables and column after the schema statement and the
  version after the last one; the statements of a write touch none of the three.
* **`HeldIsStoredEver`, `WritesAreAtomicEver`** (`SqliteStorageProofs`, the second is
  the refinement of `RunRepository`): the rows of a run number its nodes, observations
  and events from 1, and counting the rows before a row finds it again, so what is
  read back is what was written (`ReadBack`).  `WorkOK` says for each statement what
  the image in progress is: the file with the statements so far.  Events are only
  added (`INSERT OR IGNORE`), so the rows are right because a saved value goes on
  from the events of the revision it names (`CallOK`): a save of another revision is
  refused at its first statement.  A commit therefore shows the one write, whole, and
  everything before it is a stutter; and whoever holds a revision holds what was
  written under it (`HeldOK`).
* **`WalkCompleteEver`** (`SqliteStorageProofs`): `listRuns` lists each run that
  matches once and in order (`RunsInOrder`), no commit moves a run in that order, and
  what a reader has seen is not older than its cursor while what is due and unseen is
  (`WalkOK`).

  The assumptions of these five, checked on every run: a file found by `open` is whole
  or unsupported, and in a whole one rows belong to stored runs, which the foreign
  keys ensure, and are those of one aggregate, which is what `createRun` and `saveRun`
  leave (`FilesFound`, with `RowsWhole`: `RowsInv` shows that they keep it); and
  `None` is no method, aggregate or cursor.

* **`LeavesNothingBehind`, `ReportsResult`, `KeepsTraceInOrder`**
  (`CatalogProofs`): from `ScriptInv`.  `Tidy` says where
  the session, listeners and timer may be at each `await`.  `Kept` says that every
  piece of text is accepted, chained or buffered unless a report was refused, and
  that text was dropped only after an abort; so where the code finds neither, all of
  it was accepted, and then no more comes (`Whole`).  `Ordered` puts the accepted
  and chained reports and the buffer in one line: a lemma for each thing that
  happens to a line (a flush, a piece of text, an event, a refused report) and one
  step per action.  `PluginRunsScript` carries them to the whole plugin: each of its
  steps is one of the script workflow or leaves it alone.
* **`ChecklistsFitRisk`** (`CatalogProofs`): an assessment that is past its fifth
  `await` holds the checklist of its own input (`Assessed`); and for any number of
  keywords and notes a score is monotone in the notes (`PrefixScores`, by
  cardinalities) and a checklist in the score (`ChecklistGrows`).

Only model-checked: everything under fairness.  Liveness is out of the prover's
reach, beyond what `Served` and `Answered` say of it; every invariant and every
action property that a passing run checks, and both refinements, are theorems.

## 5. Findings

* **A cancellation can be overwritten** (`runtime_terminal`, index.ts:156).
  `recoverScheduledRuns` reads a run of another version, finds it queued, and
  chains an update that fails it without looking at its status again.  A cancel
  chained before it commits first: `cancelled` becomes `failed`.
  `docs/architecture.md:90` and `docs/dsh-plugin-bundle-guide/09-pitfalls.md:29`
  promise the contrary.  Only scheduled runs are exposed (`ImmediateStays`).
* **A reloaded plugin can strand schedules** (`runtime_stranded`, index.ts:127).
  The disposer deletes its definition first and parks its scheduled runs after
  several awaits; a registration in between has already recovered what there
  was.  The runs stay queued without a timer until the next registration or
  restart, against `docs/architecture.md:90`.
* **An unloaded plugin can still be executed** (`runtime_unload`, index.ts:363).
  `drainQueue` shifts a run and captures its registration before it awaits
  `getRun`.  A disposer that reads this run as queued and scheduled meanwhile parks
  it, finds it neither in the queue nor in `tasks`, and settles; `drainQueue` then
  executes the old implementation, against `docs/architecture.md:92` (the disposer
  awaits the tasks that captured it).  An immediate run is not affected: the disposer
  cancels it, and its start is refused (`ImmediateDrained`).  If the same version is
  registered again at that moment, the parked run is recovered and dispatched a second
  time: for a scheduled run `SingleDispatch` needs plugins that stay.
* **A run can start in a host that has stopped** (`runtime_stop`, index.ts:363).
  `drainQueue` tests `stopped` before it awaits `getRun`, and not after.  A stop effect
  whose snapshot of `controllers` and `tasks` falls into that await ends without having
  aborted or awaited the run that `drainQueue` then executes, while Storage closes:
  against `docs/architecture.md:92` and `docs/dsh-plugin-bundle-guide/09-pitfalls.md:23`
  (stop admission, abort, await, flush, close).  It is one run at most
  (`StopLeavesOne`).  `getRun` of the SQLite adapter has its answer before it returns, so
  the window is then that of a few microtasks; the port is asynchronous
  (`contracts/src/repository.ts:32`), and with a repository that really waits it is as
  long as a read.

Seen by reading, without a run: `FactoryBoard` calls `start` with a third argument
for a scheduled run, and its test (`packages/web/tests/factory-board.spec.tsx:78`) and
the client's (`packages/runtime/tests/client.spec.ts:29`) each pass; the function
that the page injects between them (`packages/web/src/client/index.ts:29`) takes two
parameters, so the schedule is dropped and the run starts at once, against
`README.md:41`.

Met while modelling, and left as they are because no document settles them: a
poll replaces the list by the first page, so that history loaded by `loadMore()`
is shown for 750 ms at most; a command whose result is older than the refresh
that follows it puts the older state over the list until the next poll; a start
whose answer is lost can be submitted twice.

## 6. What is not modelled

* In the scheduler, a `createRun` that rejects (`start` rejects and nothing is
  kept) and a failure inside `Service.init` (the service does not start).  A drain
  that rejects is also an unhandled rejection; a host that ends on one is a `Crash`.
* Of the catalog's workflows, prompts, fenced code, arguments of the process and
  the sandbox's policy; and more than one run of the plugin at a time: runs share
  nothing but its registrations.
* Outputs of nodes, and the texts and times in observations and events.
* `createBackup`: SQLite's backup API over a file system.
* The rendering of the web page, its panels and the fields of the form.
* Types and schemas, packaging, manifests and build scripts: no behaviour.
* `publish` and subscribers: synchronous, contained, no state of the runtime.

## 7. The plan

What would come next, most important first:

1. Once the four findings are fixed in the code: the changes in `FactoryRuntime`, their
   runs as passing ones, and the theorems that now stand for immediate runs, or for
   plugins that stay, without that condition.
2. The actions of a client and of the browser's poll composed with `FactoryRuntime`
   instead of the abstract host of `FactoryClient`.
3. A start whose answer is lost, once the code says what a second submit should do
   (the hazard at FactoryBoard.tsx:113).
