--------------------------- MODULE SqliteStorage ---------------------------
(***************************************************************************)
(* SqliteWorkflowRunRepository: the tables of the database file, the       *)
(* statements of the transactions that open it and write to it, and the    *)
(* pages that listRuns reads from it.                                      *)
(*                                                                         *)
(* A method runs without an await, so its statements are not interleaved   *)
(* with another method's; but any of them may fail, which rolls the        *)
(* transaction back, and the host may be killed between any two.           *)
(*                                                                         *)
(* A definition whose name ends in Mutant is the definition after it with  *)
(* a plausible mistake in it; no specification uses it.                    *)
(***************************************************************************)
EXTENDS Integers, Sequences, FiniteSets, FiniteSetsExt, SequencesExt

CONSTANTS
    Runs,           \* run ids: numbers, for the order of the id column
    NodeCount,      \* nodes of a run
    Callers,        \* users of the repository
    None,
    Files,          \* database files that may be found at the first open
    Times,          \* values of created_at
    MaxFacts,       \* bound: observations of a node
    MaxCalls,       \* bound: calls of createRun and saveRun
    PageLimits      \* limits with which listRuns is called

ASSUME StorageConstants ==
    /\ Runs \subseteq Nat /\ Times \subseteq Nat /\ PageLimits \subseteq Nat \ {0}
    /\ NodeCount \in Nat \ {0} /\ MaxFacts \in Nat \ {0} /\ MaxCalls \in Nat

Nodes    == 1 .. NodeCount
Statuses == {"queued", "completed"}
Texts    == Callers \cup {None}     \* of observations and events: who wrote it
Values   == [status : Statuses, createdAt : Nat, nodes : Seq(Seq(Texts)), events : Seq(Texts)]
Aggregates == [value : Values, revision : Nat]
CurrentSchemaVersion == 2

VARIABLES
    file,       \* the committed database
    db,         \* "closed" or "open": the connection
    work,       \* the database as the transaction in progress sees it, or None
    call,       \* the method in progress, or None
    stage,      \* its next statement
    held,       \* per caller the StoredWorkflowRun it was last given, or None
    calls,      \* writes called so far
    walk        \* a reader that goes through the pages of a list

vars == <<file, db, work, call, stage, held, calls, walk>>

-----------------------------------------------------------------------------
(* Tables.  runs is factory_runs by id; the others are sets of rows. *)

NoTables == [tables |-> FALSE, column |-> FALSE, version |-> 0, runs |-> [r \in {} |-> 0],
             nodes |-> {}, facts |-> {}, events |-> {}]

Rows(table, r) == {row \in table : row.run = r}

\* SELECT ... ORDER BY: the i-th row is the one that i - 1 rows precede.
OrderBy(rows, Precedes(_, _)) ==
    [i \in 1 .. Cardinality(rows) |->
        CHOOSE row \in rows : Cardinality({other \in rows : Precedes(other, row)}) = i - 1]

ByNode(rows)     == OrderBy(rows, LAMBDA p, q : p.node < q.node)
ByOrdinal(rows)  == OrderBy(rows, LAMBDA p, q : p.ordinal < q.ordinal)
BySequence(rows) == OrderBy(rows, LAMBDA p, q : p.sequence < q.sequence)

\* readAggregate, of the row and the rows of a run
ReadFacts(rows, k) ==
    LET facts == ByOrdinal({row \in rows : row.node = k})
    IN  [i \in DOMAIN facts |-> facts[i].fact]

ReadRows(head, nodeRows, factRows, eventRows) ==
    LET nodes  == ByNode(nodeRows)
        events == BySequence(eventRows)
    IN  [value |-> [status |-> head.status, createdAt |-> head.createdAt,
                    nodes  |-> [i \in DOMAIN nodes |-> ReadFacts(factRows, nodes[i].node)],
                    events |-> [i \in DOMAIN events |-> events[i].text]],
         revision |-> head.revision]

Aggregate(image, r) ==
    IF r \notin DOMAIN image.runs THEN None
    ELSE ReadRows(image.runs[r], Rows(image.nodes, r), Rows(image.facts, r),
                  Rows(image.events, r))

-----------------------------------------------------------------------------
(* The statements of a write *)

HeadRow(value, revision) ==
    [status |-> value.status, createdAt |-> value.createdAt, revision |-> revision]

\* SELECT 1 and INSERT, or UPDATE ... WHERE id = ? AND revision = ? and its change count.
HeadAllowedMutant == call.run \in DOMAIN work.runs <=> call.kind = "save"
HeadAllowed ==
    IF call.kind = "create" THEN call.run \notin DOMAIN work.runs
    ELSE call.run \in DOMAIN work.runs /\ work.runs[call.run].revision = call.revision

WithHead(image) ==
    [image EXCEPT !.runs = [r \in DOMAIN image.runs \cup {call.run} |->
        IF r = call.run THEN HeadRow(call.value, call.revision + 1) ELSE image.runs[r]]]

\* DELETE FROM factory_run_nodes: the observations go with their nodes.
Cleared(image) ==
    [image EXCEPT !.nodes = @ \ Rows(@, call.run), !.facts = @ \ Rows(@, call.run)]

NodeRows(r, value) == {[run |-> r, node |-> k] : k \in DOMAIN value.nodes}
FactRows(r, value) ==
    UNION {{[run |-> r, node |-> k, ordinal |-> i, fact |-> value.nodes[k][i]] :
                i \in DOMAIN value.nodes[k]} : k \in DOMAIN value.nodes}

WithNodes(image) ==
    [image EXCEPT !.nodes = @ \cup NodeRows(call.run, call.value),
                  !.facts = @ \cup FactRows(call.run, call.value)]

EventRows(r, value) ==
    {[run |-> r, sequence |-> i, text |-> value.events[i]] : i \in DOMAIN value.events}

\* INSERT OR IGNORE: a sequence that is stored stays as it is.
WithEvents(image) ==
    LET stored == {row.sequence : row \in Rows(image.events, call.run)}
    IN  [image EXCEPT !.events = @ \cup {row \in EventRows(call.run, call.value) :
                                            row.sequence \notin stored}]

-----------------------------------------------------------------------------
(* Methods and their transaction *)

Enter(method) ==
    /\ call = None
    /\ call' = method
    /\ stage' = "begin"

\* A file that no version of the repository has left.
Unsupported(image) ==
    IF image.tables THEN image.version \notin {1, CurrentSchemaVersion} ELSE image.version # 0

\* A file that a version of the repository has left: new, of schema 1 or of schema 2.
Whole(image) ==
    \/ ~image.tables /\ image.version = 0
    \/ image.tables /\ image.version = 1 /\ ~image.column
    \/ image.tables /\ image.version = CurrentSchemaVersion /\ image.column

\* Rows belong to runs that are stored (the foreign keys), and the rows of a run are those
\* of one aggregate: what createRun and saveRun leave.
RowsWhole(image) ==
    /\ DOMAIN image.runs \subseteq Runs /\ IsFiniteSet(DOMAIN image.runs)
    /\ \A row \in image.nodes \cup image.facts \cup image.events : row.run \in DOMAIN image.runs
    /\ \A r \in DOMAIN image.runs :
          LET stored == Aggregate(image, r) IN
          /\ stored \in Aggregates
          /\ image.runs[r] = HeadRow(stored.value, stored.revision)
          /\ Rows(image.nodes, r) = NodeRows(r, stored.value)
          /\ Rows(image.facts, r) = FactRows(r, stored.value)
          /\ Rows(image.events, r) = EventRows(r, stored.value)

\* A file that is found is whole or not supported.
ASSUME FilesFound ==
    \A image \in Files :
        /\ image = [tables |-> image.tables, column |-> image.column,
                    version |-> image.version, runs |-> image.runs,
                    nodes |-> image.nodes, facts |-> image.facts, events |-> image.events]
        /\ image.tables \in BOOLEAN /\ image.column \in BOOLEAN
        /\ Whole(image) \/ Unsupported(image)
        /\ Whole(image) => RowsWhole(image)

ASSUME NoneIsNoMethod == None # [kind |-> "open"]
ASSUME NoneIsNoAggregate == None \notin Aggregates
ASSUME NoneIsNoCursor == None \notin [createdAt : Nat, id : Nat]

Open ==
    /\ db = "closed"
    /\ ~Unsupported(file)
    /\ db' = "open"
    /\ Enter([kind |-> "open"])
    /\ UNCHANGED <<file, work, held, calls, walk>>

Close ==
    /\ db = "open" /\ call = None
    /\ db' = "closed"
    /\ UNCHANGED <<file, work, call, stage, held, calls, walk>>

Write(method) ==
    /\ db = "open"
    /\ calls < MaxCalls
    /\ calls' = calls + 1
    /\ Enter(method)
    /\ UNCHANGED <<file, db, work, held, walk>>

CreateRun(c, r, time) ==
    Write([kind |-> "create", caller |-> c, run |-> r, revision |-> 0,
           value |-> [status |-> "queued", createdAt |-> time,
                      nodes |-> [k \in Nodes |-> << >>], events |-> <<c>>]])

\* The runtime's changes: a status with its event, or an observation and no event.
Moved(value, c, status) == [value EXCEPT !.status = status, !.events = Append(@, c)]
Kept(facts) == SubSeq(facts, IF Len(facts) > MaxFacts THEN 2 ELSE 1, Len(facts))
Reported(value, c, k) == [value EXCEPT !.nodes[k] = Kept(Append(@, c))]

SaveRun(c) ==
    /\ held[c] # None
    /\ \E value \in {Moved(held[c].value, c, status) : status \in Statuses}
                    \cup {Reported(held[c].value, c, k) : k \in Nodes} :
          Write([kind |-> "save", caller |-> c, run |-> held[c].run, value |-> value,
                 revision |-> held[c].revision])

GetRun(c, r) ==
    /\ db = "open" /\ call = None
    /\ Aggregate(file, r) # None
    /\ held' = [held EXCEPT ![c] = [run |-> r, value |-> Aggregate(file, r).value,
                                    revision |-> Aggregate(file, r).revision]]
    /\ UNCHANGED <<file, db, work, call, stage, calls, walk>>

\* One statement of the transaction, by the method it belongs to.
Step(from, to, image) ==
    /\ call # None /\ stage = from
    /\ stage' = to
    /\ work' = image
    /\ UNCHANGED <<file, db, call, held, calls, walk>>

BeginImmediate == Step("begin", IF call.kind = "open" THEN "schema" ELSE "head", file)

\* The schema is changed outside the transaction.
SchemaMutant ==
    /\ call # None /\ stage = "schema"
    /\ stage' = "version"
    /\ file' = [work EXCEPT !.tables = TRUE, !.column = TRUE]
    /\ work' = file'
    /\ UNCHANGED <<db, call, held, calls, walk>>

\* ALTER TABLE, or CREATE TABLE IF NOT EXISTS.
Schema ==
    Step("schema", "version",
         IF work.tables /\ work.version = 1 THEN [work EXCEPT !.column = TRUE]
         ELSE IF work.tables THEN work
         ELSE [work EXCEPT !.tables = TRUE, !.column = TRUE])

UserVersion == Step("version", "commit", [work EXCEPT !.version = CurrentSchemaVersion])

WriteRun     == stage = "head" /\ HeadAllowed /\ Step("head", "clear", WithHead(work))
ClearNodes   == Step("clear", "nodes", Cleared(work))
InsertNodes  == Step("nodes", "events", WithNodes(work))
AppendEvents == Step("events", "commit", WithEvents(work))

Done ==
    /\ call' = None /\ stage' = "none" /\ work' = None

Matches(row, statuses) == row.status \in statuses

\* The StoredWorkflowRun a write returns.
Returned == [held EXCEPT ![call.caller] = [run |-> call.run, value |-> call.value,
                                           revision |-> call.revision + 1]]

Commit ==
    /\ call # None /\ stage = "commit"
    /\ file' = work
    /\ held' = IF call.kind = "open" THEN held ELSE Returned
    /\ walk' = IF walk = None THEN None
               ELSE [walk EXCEPT !.due = {r \in @ : Matches(work.runs[r], walk.statuses)}]
    /\ Done
    /\ UNCHANGED <<db, calls>>

\* What a failed transaction leaves in the file, what its caller is given, and the connection.
RolledBackMutant == IF work = None THEN file ELSE work
RolledBack == file

Thrown == held

DisconnectedMutant == "open"
Disconnected == IF call.kind = "open" THEN "closed" ELSE "open"

\* A statement or the commit fails, or a write is refused.
Rollback ==
    /\ call # None
    /\ file' = RolledBack /\ held' = Thrown /\ db' = Disconnected
    /\ Done
    /\ UNCHANGED <<calls, walk>>

\* The host is killed: the journal restores the file at the next open.
Crash ==
    /\ db = "open"
    /\ db' = "closed"
    /\ Done
    /\ held' = [c \in Callers |-> None]
    /\ UNCHANGED <<file, calls, walk>>

-----------------------------------------------------------------------------
(* Pages *)

\* ORDER BY created_at DESC, id DESC
Before(runs, r, q) ==
    \/ runs[r].createdAt > runs[q].createdAt
    \/ runs[r].createdAt = runs[q].createdAt /\ r > q

ByCreation(runs, ids) == OrderBy(ids, LAMBDA r, q : Before(runs, r, q))

\* created_at < ? and no id: runs created at the same time are lost.
OlderMutant(row, r, before) == row.createdAt < before.createdAt
Older(row, r, before) ==
    \/ row.createdAt < before.createdAt
    \/ row.createdAt = before.createdAt /\ r < before.id

\* One row more than the page tells whether another page follows.
ListRuns(statuses, before, limit) ==
    LET rows == ByCreation(file.runs,
                           {r \in DOMAIN file.runs :
                               /\ before = None \/ Older(file.runs[r], r, before)
                               /\ Matches(file.runs[r], statuses)})
        page == SubSeq(rows, 1, IF Len(rows) < limit THEN Len(rows) ELSE limit)
    IN  [runs |-> page,
         nextCursor |-> IF Len(rows) <= limit THEN None
                        ELSE [createdAt |-> file.runs[Last(page)].createdAt, id |-> Last(page)]]

\* A client reads page after page of the runs with some statuses.  due: the runs that have
\* one of them from the first page on.
WalkBegins(statuses, limit) ==
    /\ db = "open" /\ call = None /\ walk = None
    /\ walk' = [statuses |-> statuses, limit |-> limit, before |-> None, seen |-> << >>,
                due |-> {r \in DOMAIN file.runs : Matches(file.runs[r], statuses)},
                over |-> FALSE]
    /\ UNCHANGED <<file, db, work, call, stage, held, calls>>

WalkPage ==
    /\ db = "open" /\ call = None /\ walk # None
    /\ ~walk.over
    /\ LET page == ListRuns(walk.statuses, walk.before, walk.limit)
       IN  walk' = [walk EXCEPT !.seen = @ \o page.runs, !.before = page.nextCursor,
                                !.over = page.nextCursor = None]
    /\ UNCHANGED <<file, db, work, call, stage, held, calls>>

-----------------------------------------------------------------------------
Init ==
    /\ file \in Files
    /\ db = "closed" /\ work = None /\ call = None /\ stage = "none"
    /\ held = [c \in Callers |-> None] /\ calls = 0 /\ walk = None

Next ==
    \/ Open \/ Close \/ Rollback \/ Commit \/ Crash
    \/ BeginImmediate \/ Schema \/ UserVersion
    \/ WriteRun \/ ClearNodes \/ InsertNodes \/ AppendEvents
    \/ \E c \in Callers :
          \/ \E r \in Runs : GetRun(c, r) \/ \E time \in Times : CreateRun(c, r, time)
          \/ SaveRun(c)
    \/ \E statuses \in {Statuses, {"queued"}}, limit \in PageLimits : WalkBegins(statuses, limit)
    \/ WalkPage

Spec == Init /\ [][Next]_vars

-----------------------------------------------------------------------------
\* createRun and saveRun are atomic writes of aggregates to the store that readAggregate
\* shows, through the statements of their transactions, failures and crashes; opening,
\* migrating and closing leave that store alone.
Repository == INSTANCE RunRepository WITH
    store <- [r \in Runs |-> Aggregate(file, r)],
    call  <- IF call # None /\ call.kind # "open" THEN call ELSE None

WritesAreAtomic == Repository!Spec

\* What a caller was given under the stored revision is what is stored: two callers who know
\* the same revision of a run know the same aggregate, so a revision check is enough.
HeldIsStored ==
    \A c \in Callers :
        /\ held[c] # None
        /\ held[c].revision = file.runs[held[c].run].revision
        => held[c].value = Aggregate(file, held[c].run).value

\* A repository that accepts calls has the current schema: a failed open() leaves none open.
OpenIsCurrent ==
    db = "open" /\ call = None => file.tables /\ file.column
                                  /\ file.version = CurrentSchemaVersion

\* No failure or crash in the middle of open() leaves a file that the next open() refuses or
\* whose version and tables disagree.
SchemaStaysWhole == [][Whole(file) => Whole(file')]_vars

\* Reading page after page gives every run that matches all along, once, though runs are
\* created and change their status, and the database is closed and opened, between the pages.
WalkComplete ==
    walk # None /\ walk.over =>
        /\ walk.due \subseteq ToSet(walk.seen)
        /\ IsInjective(walk.seen)
=============================================================================
