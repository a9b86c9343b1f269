------------------------ MODULE SqliteStorageProofs ------------------------
(***************************************************************************)
(* The SQLite adapter keeps its properties for every file, caller, run,    *)
(* value and number of writes, with failures and kills between any two     *)
(* statements.                                                             *)
(*                                                                         *)
(* open(): the file it has read is supported, the image in progress has    *)
(* the tables and the column once the schema statement has run, and the    *)
(* version once the last one has; a write never touches any of the three   *)
(* (StorageInv).  So OpenIsCurrent and SchemaStaysWhole.                   *)
(*                                                                         *)
(* createRun and saveRun: the rows of a run number its nodes, observations *)
(* and events from 1, so readAggregate gives back the aggregate that was   *)
(* written (ReadBack), the events because a saved value goes on from the   *)
(* revision it names (CallOK).  The image of a write is the file with its  *)
(* statements so far (WorkOK).  So a commit shows the one write, whole:    *)
(* WritesAreAtomic, and HeldIsStored.                                      *)
(*                                                                         *)
(* listRuns: its order lists each run once (RunsInOrder, by counting the   *)
(* runs before each), and no commit changes the place of a run.  What a    *)
(* reader has seen is what is not older than its cursor (WalkOK), so       *)
(* WalkComplete.                                                           *)
(***************************************************************************)
EXTENDS SqliteStorage, FiniteSetTheorems, TLAPS

Shape(image) ==
    /\ image = [tables |-> image.tables, column |-> image.column, version |-> image.version,
                runs |-> image.runs, nodes |-> image.nodes, facts |-> image.facts,
                events |-> image.events]
    /\ image.tables \in BOOLEAN /\ image.column \in BOOLEAN

Current(image) == image.tables /\ image.column /\ image.version = CurrentSchemaVersion

Opening == call = [kind |-> "open"]

\* Where a transaction is says what its image is.
ImageOK ==
    /\ stage = "schema"  => work = file
    /\ stage = "version" => work.tables /\ work.column
    /\ stage \in {"head", "clear", "nodes", "events", "commit"} => Current(work)
    /\ stage \in {"schema", "version", "head", "clear", "nodes", "events", "commit"} => Shape(work)

StorageInv ==
    /\ Shape(file)
    /\ Whole(file) \/ Unsupported(file)
    /\ db \in {"closed", "open"}
    /\ db = "open" => ~Unsupported(file)
    /\ db = "open" /\ ~Opening => Current(file)
    /\ call # None => db = "open" /\ (Opening <=> call.kind = "open")
    /\ stage \in {"schema", "version"} => Opening
    /\ stage \in {"head", "clear", "nodes", "events"} => ~Opening
    /\ ImageOK

LEMMA InitInv == Init => StorageInv
<1>1. SUFFICES ASSUME Init PROVE StorageInv
  OBVIOUS
<1>2. Shape(file) /\ (Whole(file) \/ Unsupported(file))
  BY <1>1, FilesFound DEF Init, Shape
<1>3. QED
  BY <1>1, <1>2, NoneIsNoMethod DEF Init, StorageInv, ImageOK, Opening

-----------------------------------------------------------------------------
(* Images *)

LEMMA CurrentWhole ==
    ASSUME NEW image, Current(image)
    PROVE  Whole(image) /\ ~Unsupported(image)
BY DEF Current, Whole, Unsupported, CurrentSchemaVersion

\* The schema and version statements of a supported file make it current.
LEMMA SupportedBecomesCurrent ==
    ASSUME NEW image, Shape(image), Whole(image), ~Unsupported(image)
    PROVE  image.tables /\ image.version # 1 => Current(image)
BY DEF Current, Whole, Unsupported, CurrentSchemaVersion, Shape

\* The statements of a write leave the schema alone.
LEMMA RowsKeepSchema ==
    ASSUME NEW image, Shape(image), Current(image), NEW rows, NEW others
    PROVE  LET runs   == [image EXCEPT !.runs = rows]
               nodes  == [image EXCEPT !.nodes = rows, !.facts = others]
               events == [image EXCEPT !.events = rows]
           IN  /\ Shape(runs) /\ Current(runs)
               /\ Shape(nodes) /\ Current(nodes)
               /\ Shape(events) /\ Current(events)
<1>1. Shape([image EXCEPT !.runs = rows]) /\ Current([image EXCEPT !.runs = rows])
  <2> DEFINE new == [tables |-> image.tables, column |-> image.column, version |-> image.version,
                    runs |-> rows, nodes |-> image.nodes, facts |-> image.facts,
                    events |-> image.events]
  <2>1. [image EXCEPT !.runs = rows] = new
    BY DEF Shape
  <2>2. Shape(new) /\ Current(new)
    BY DEF Shape, Current
  <2>3. QED
    BY <2>1, <2>2, Zenon
<1>2. /\ Shape([image EXCEPT !.nodes = rows, !.facts = others])
      /\ Current([image EXCEPT !.nodes = rows, !.facts = others])
  <2> DEFINE mid == [tables |-> image.tables, column |-> image.column, version |-> image.version,
                     runs |-> image.runs, nodes |-> rows, facts |-> image.facts,
                     events |-> image.events]
             new == [mid EXCEPT !.facts = others]
  <2>1. [image EXCEPT !.nodes = rows] = mid
    BY DEF Shape
  <2>2. [image EXCEPT !.nodes = rows, !.facts = others] = [[image EXCEPT !.nodes = rows]
                                                            EXCEPT !.facts = others]
    OBVIOUS
  <2> DEFINE last == [tables |-> image.tables, column |-> image.column,
                      version |-> image.version, runs |-> image.runs, nodes |-> rows,
                      facts |-> others, events |-> image.events]
  <2>3. new = last
    OBVIOUS
  <2>4. Shape(last) /\ Current(last)
    BY DEF Shape, Current
  <2>5. QED
    BY <2>1, <2>2, <2>3, <2>4, Zenon
<1>3. Shape([image EXCEPT !.events = rows]) /\ Current([image EXCEPT !.events = rows])
  <2> DEFINE new == [tables |-> image.tables, column |-> image.column, version |-> image.version,
                    runs |-> image.runs, nodes |-> image.nodes, facts |-> image.facts,
                    events |-> rows]
  <2>1. [image EXCEPT !.events = rows] = new
    BY DEF Shape
  <2>2. Shape(new) /\ Current(new)
    BY DEF Shape, Current
  <2>3. QED
    BY <2>1, <2>2, Zenon
<1>4. QED
  BY <1>1, <1>2, <1>3

LEMMA WritesKeepSchema ==
    ASSUME NEW image, Shape(image), Current(image)
    PROVE  /\ Shape(WithHead(image)) /\ Current(WithHead(image))
           /\ Shape(Cleared(image)) /\ Current(Cleared(image))
           /\ Shape(WithNodes(image)) /\ Current(WithNodes(image))
           /\ Shape(WithEvents(image)) /\ Current(WithEvents(image))
<1>1. Shape(WithHead(image)) /\ Current(WithHead(image))
  BY RowsKeepSchema, Zenon DEF WithHead
<1>2. Shape(Cleared(image)) /\ Current(Cleared(image))
  BY RowsKeepSchema, Zenon DEF Cleared
<1>3. Shape(WithNodes(image)) /\ Current(WithNodes(image))
  BY RowsKeepSchema, Zenon DEF WithNodes
<1>4. Shape(WithEvents(image)) /\ Current(WithEvents(image))
  BY RowsKeepSchema, Zenon DEF WithEvents
<1>5. QED
  BY <1>1, <1>2, <1>3, <1>4

-----------------------------------------------------------------------------
(* One step *)

\* A step that changes neither the database, its connection nor the method in progress.
LEMMA QuietStep ==
    ASSUME StorageInv, UNCHANGED <<file, db, work, call, stage>>
    PROVE  StorageInv'
BY DEF StorageInv, ImageOK, Shape, Whole, Unsupported, Current, Opening

LEMMA StepInv == StorageInv /\ [Next]_vars => StorageInv'
<1>1. SUFFICES ASSUME StorageInv, [Next]_vars PROVE StorageInv'
  OBVIOUS
<1> USE <1>1
<1>2. CASE UNCHANGED vars
  BY <1>2, QuietStep DEF vars
<1>3. CASE Open
  BY <1>3, NoneIsNoMethod
  DEF Open, Enter, StorageInv, ImageOK, Shape, Whole, Unsupported, Current, Opening
<1>4. CASE Close
  BY <1>4, NoneIsNoMethod
  DEF Close, StorageInv, ImageOK, Shape, Whole, Unsupported, Current, Opening
<1>5. CASE \E c \in Callers : SaveRun(c) \/ \E r \in Runs, time \in Times : CreateRun(c, r, time)
  <2>1. PICK method : method.kind # "open" /\ Write(method)
    BY <1>5 DEF SaveRun, CreateRun
  <2>2. db = "open" /\ call = None /\ call' = method /\ stage' = "begin"
        /\ UNCHANGED <<file, db, work>>
    BY <2>1 DEF Write, Enter
  <2>3. ~Opening /\ ~Opening'
    BY <2>1, <2>2, NoneIsNoMethod DEF Opening
  <2>4. QED
    BY <2>1, <2>2, <2>3
    DEF StorageInv, ImageOK, Shape, Whole, Unsupported, Current
<1>6. CASE \E c \in Callers, r \in Runs : GetRun(c, r)
  BY <1>6, QuietStep DEF GetRun
<1>7. CASE (\E statuses \in {Statuses, {"queued"}}, limit \in PageLimits :
              WalkBegins(statuses, limit)) \/ WalkPage
  BY <1>7, QuietStep DEF WalkBegins, WalkPage
<1>8. CASE BeginImmediate
  <2>1. call # None /\ stage = "begin" /\ work' = file /\ UNCHANGED <<file, db, call>>
        /\ stage' = IF call.kind = "open" THEN "schema" ELSE "head"
    BY <1>8 DEF BeginImmediate, Step
  <2>2. QED
    BY <2>1 DEF StorageInv, ImageOK, Shape, Whole, Unsupported, Current, Opening
<1>9. CASE Schema
  <2>1. /\ call # None /\ stage = "schema" /\ stage' = "version" /\ UNCHANGED <<file, db, call>>
        /\ work' = IF work.tables /\ work.version = 1 THEN [work EXCEPT !.column = TRUE]
                   ELSE IF work.tables THEN work
                   ELSE [work EXCEPT !.tables = TRUE, !.column = TRUE]
    BY <1>9 DEF Schema, Step
  <2>2. work = file /\ Shape(file) /\ Whole(file) /\ ~Unsupported(file)
    BY <2>1 DEF StorageInv, ImageOK
  <2>3. Shape(work') /\ work'.tables /\ work'.column
    BY <2>1, <2>2, SupportedBecomesCurrent DEF Shape, Current
  <2>4. QED
    BY <2>1, <2>2, <2>3 DEF StorageInv, ImageOK, Shape, Whole, Unsupported, Current, Opening
<1>10. CASE UserVersion
  <2>1. /\ call # None /\ stage = "version" /\ stage' = "commit" /\ UNCHANGED <<file, db, call>>
        /\ work' = [work EXCEPT !.version = CurrentSchemaVersion]
    BY <1>10 DEF UserVersion, Step
  <2>2. Shape(work') /\ Current(work')
    BY <2>1 DEF StorageInv, ImageOK, Shape, Current
  <2>3. QED
    BY <2>1, <2>2 DEF StorageInv, ImageOK, Shape, Whole, Unsupported, Current, Opening
<1>11. CASE WriteRun \/ ClearNodes \/ InsertNodes \/ AppendEvents
  <2>1. /\ call # None /\ stage \in {"head", "clear", "nodes", "events"}
        /\ stage' \in {"clear", "nodes", "events", "commit"}
        /\ work' \in {WithHead(work), Cleared(work), WithNodes(work), WithEvents(work)}
        /\ UNCHANGED <<file, db, call>>
    BY <1>11 DEF WriteRun, ClearNodes, InsertNodes, AppendEvents, Step
  <2>2. Shape(work') /\ Current(work')
    BY <2>1, WritesKeepSchema DEF StorageInv, ImageOK
  <2>3. QED
    BY <2>1, <2>2 DEF StorageInv, ImageOK, Shape, Whole, Unsupported, Current, Opening
<1>12. CASE Commit
  <2>1. call # None /\ file' = work /\ call' = None /\ stage' = "none" /\ UNCHANGED db
    BY <1>12 DEF Commit, Done
  <2>2. Shape(file') /\ Current(file')
    BY <1>12, <2>1 DEF Commit, StorageInv, ImageOK
  <2>3. QED
    BY <2>1, <2>2, NoneIsNoMethod, CurrentWhole
    DEF StorageInv, ImageOK, Opening, Shape, Current, Whole, Unsupported
<1>13. CASE Rollback
  BY <1>13, NoneIsNoMethod
  DEF Rollback, RolledBack, Disconnected, Done, StorageInv, ImageOK, Shape, Whole, Unsupported,
      Current, Opening
<1>14. CASE Crash
  BY <1>14, NoneIsNoMethod
  DEF Crash, Done, StorageInv, ImageOK, Shape, Whole, Unsupported, Current, Opening
<1>15. QED
  BY <1>2, <1>3, <1>4, <1>5, <1>6, <1>7, <1>8, <1>9, <1>10, <1>11, <1>12, <1>13, <1>14 DEF Next

\* Only a commit changes the file.
LEMMA WholeStep == StorageInv /\ [Next]_vars => [Whole(file) => Whole(file')]_vars
<1>1. SUFFICES ASSUME StorageInv, Next, Whole(file) PROVE Whole(file')
  BY DEF vars
<1> USE <1>1
<1>2. CASE Commit
  BY <1>2, CurrentWhole DEF Commit, StorageInv, ImageOK
<1>3. CASE Rollback
  BY <1>3 DEF Rollback, RolledBack
<1>4. CASE ~Commit /\ ~Rollback
  <2>1. UNCHANGED file
    BY <1>4 DEF Next, Open, Close, Crash, BeginImmediate, Schema, UserVersion, WriteRun,
       ClearNodes, InsertNodes, AppendEvents, GetRun, CreateRun, SaveRun, Write, Step, WalkBegins,
       WalkPage
  <2>2. QED
    BY <2>1
<1>5. QED
  BY <1>2, <1>3, <1>4

LEMMA InvariantHolds == Spec => []StorageInv
BY InitInv, StepInv, PTL DEF Spec

\* The connection of a repository that accepts calls (open() and its error path) has the
\* current schema, whatever file was found and whatever failed or was killed.
THEOREM OpenIsCurrentEver == Spec => []OpenIsCurrent
<1>1. StorageInv => OpenIsCurrent
  BY NoneIsNoMethod DEF StorageInv, OpenIsCurrent, Opening, Current
<1>2. QED
  BY <1>1, InvariantHolds, PTL

\* No step takes a file that open() accepts to one that it refuses or whose version and tables
\* disagree: the schema statements and the version are in one transaction.
THEOREM SchemaStaysWholeEver == Spec => SchemaStaysWhole
BY InvariantHolds, WholeStep, PTL DEF Spec, SchemaStaysWhole

-----------------------------------------------------------------------------
(* What the rows of an aggregate are read as *)

\* A set that n places enumerate, each of its elements once, has n elements.
LEMMA Counted ==
    ASSUME NEW S, NEW n \in Nat, NEW f \in [1 .. n -> S],
           \A i, j \in 1 .. n : f[i] = f[j] => i = j,
           \A s \in S : \E j \in 1 .. n : f[j] = s
    PROVE  IsFiniteSet(S) /\ Cardinality(S) = n
<1>1. ExistsBijection(1 .. n, S)
  BY DEF ExistsBijection, Bijection, Injection, Surjection, IsInjective
<1>. QED BY <1>1, FS_CountingElements, FS_NatBijection

LEMMA NodesInOrder ==
    ASSUME NEW r, NEW value \in Values
    PROVE  ByNode(NodeRows(r, value)) =
               [k \in DOMAIN value.nodes |-> [run |-> r, node |-> k]]
<1>. DEFINE n == Len(value.nodes)
            f == [k \in 1 .. n |-> [run |-> r, node |-> k]]
            S == NodeRows(r, value)
            Below(row) == {other \in S : other.node < row.node}
<1>1. n \in Nat /\ DOMAIN value.nodes = 1 .. n
  BY DEF Values
<1>2. S = {f[j] : j \in 1 .. n} /\ \A i, j \in 1 .. n : f[i] = f[j] => i = j
  BY <1>1 DEF NodeRows
<1>3. Cardinality(S) = n
  <2>1. f \in [1 .. n -> S] /\ \A s \in S : \E j \in 1 .. n : f[j] = s
    BY <1>2
  <2>. HIDE DEF f, S
  <2>. QED BY <1>1, <1>2, <2>1, Counted
<1>4. ASSUME NEW k \in 1 .. n PROVE Cardinality(Below(f[k])) = k - 1
  <2> DEFINE B == Below(f[k])
             g == [j \in 1 .. (k - 1) |-> f[j]]
  <2>1. k - 1 \in Nat /\ \A i, j \in 1 .. (k - 1) : g[i] = g[j] => i = j
    BY <1>1, <1>2
  <2>2. g \in [1 .. (k - 1) -> B]
    BY <1>1, <1>2
  <2>3. ASSUME NEW s \in B PROVE \E j \in 1 .. (k - 1) : g[j] = s
    <3>1. PICK j \in 1 .. n : s = f[j]
      BY <1>2
    <3>. QED BY <1>1, <3>1
  <2> HIDE DEF B, g
  <2>4. Cardinality(B) = k - 1
    BY <2>1, <2>2, <2>3, Counted
  <2>. QED BY <2>4 DEF B
<1>5. ASSUME NEW i \in 1 .. n
      PROVE  (CHOOSE row \in S : Cardinality(Below(row)) = i - 1) = f[i]
  <2>1. f[i] \in S /\ Cardinality(Below(f[i])) = i - 1
    BY <1>2, <1>4
  <2>2. ASSUME NEW row \in S, Cardinality(Below(row)) = i - 1 PROVE row = f[i]
    <3>1. PICK k \in 1 .. n : row = f[k]
      BY <1>2
    <3>. HIDE DEF f, Below
    <3>2. k - 1 = i - 1
      BY <1>4, <2>2, <3>1
    <3>. QED BY <1>1, <3>1, <3>2
  <2>. HIDE DEF f, Below, S
  <2>. QED BY <2>1, <2>2
<1>6. ByNode(S)
        = [i \in 1 .. n |-> CHOOSE row \in S : Cardinality(Below(row)) = i - 1]
  BY <1>3 DEF OrderBy, ByNode
<1>. QED BY <1>1, <1>5, <1>6
LEMMA EventsInOrder ==
    ASSUME NEW r, NEW value \in Values
    PROVE  BySequence(EventRows(r, value)) =
               [k \in DOMAIN value.events |-> [run |-> r, sequence |-> k, text |-> value.events[k]]]
<1>. DEFINE n == Len(value.events)
            f == [k \in 1 .. n |-> [run |-> r, sequence |-> k, text |-> value.events[k]]]
            S == EventRows(r, value)
            Below(row) == {other \in S : other.sequence < row.sequence}
<1>1. n \in Nat /\ DOMAIN value.events = 1 .. n
  BY DEF Values
<1>2. S = {f[j] : j \in 1 .. n} /\ \A i, j \in 1 .. n : f[i] = f[j] => i = j
  BY <1>1 DEF EventRows
<1>3. Cardinality(S) = n
  <2>1. f \in [1 .. n -> S] /\ \A s \in S : \E j \in 1 .. n : f[j] = s
    BY <1>2
  <2>. HIDE DEF f, S
  <2>. QED BY <1>1, <1>2, <2>1, Counted
<1>4. ASSUME NEW k \in 1 .. n PROVE Cardinality(Below(f[k])) = k - 1
  <2> DEFINE B == Below(f[k])
             g == [j \in 1 .. (k - 1) |-> f[j]]
  <2>1. k - 1 \in Nat /\ \A i, j \in 1 .. (k - 1) : g[i] = g[j] => i = j
    BY <1>1, <1>2
  <2>2. g \in [1 .. (k - 1) -> B]
    BY <1>1, <1>2
  <2>3. ASSUME NEW s \in B PROVE \E j \in 1 .. (k - 1) : g[j] = s
    <3>1. PICK j \in 1 .. n : s = f[j]
      BY <1>2
    <3>. QED BY <1>1, <3>1
  <2> HIDE DEF B, g
  <2>4. Cardinality(B) = k - 1
    BY <2>1, <2>2, <2>3, Counted
  <2>. QED BY <2>4 DEF B
<1>5. ASSUME NEW i \in 1 .. n
      PROVE  (CHOOSE row \in S : Cardinality(Below(row)) = i - 1) = f[i]
  <2>1. f[i] \in S /\ Cardinality(Below(f[i])) = i - 1
    BY <1>2, <1>4
  <2>2. ASSUME NEW row \in S, Cardinality(Below(row)) = i - 1 PROVE row = f[i]
    <3>1. PICK k \in 1 .. n : row = f[k]
      BY <1>2
    <3>. HIDE DEF f, Below
    <3>2. k - 1 = i - 1
      BY <1>4, <2>2, <3>1
    <3>. QED BY <1>1, <3>1, <3>2
  <2>. HIDE DEF f, Below, S
  <2>. QED BY <2>1, <2>2
<1>6. BySequence(S)
        = [i \in 1 .. n |-> CHOOSE row \in S : Cardinality(Below(row)) = i - 1]
  BY <1>3 DEF OrderBy, BySequence
<1>. QED BY <1>1, <1>5, <1>6
NodeFacts(r, node, facts) ==
    {[run |-> r, node |-> node, ordinal |-> k, fact |-> facts[k]] : k \in DOMAIN facts}

LEMMA FactsInOrder ==
    ASSUME NEW r, NEW node, NEW facts \in Seq(Texts)
    PROVE  ByOrdinal(NodeFacts(r, node, facts)) =
               [k \in DOMAIN facts |-> [run |-> r, node |-> node, ordinal |-> k, fact |-> facts[k]]]
<1>. DEFINE n == Len(facts)
            f == [k \in 1 .. n |-> [run |-> r, node |-> node, ordinal |-> k, fact |-> facts[k]]]
            S == NodeFacts(r, node, facts)
            Below(row) == {other \in S : other.ordinal < row.ordinal}
<1>1. n \in Nat /\ DOMAIN facts = 1 .. n
  OBVIOUS
<1>2. S = {f[j] : j \in 1 .. n} /\ \A i, j \in 1 .. n : f[i] = f[j] => i = j
  BY <1>1 DEF NodeFacts
<1>3. Cardinality(S) = n
  <2>1. f \in [1 .. n -> S] /\ \A s \in S : \E j \in 1 .. n : f[j] = s
    BY <1>2
  <2>. HIDE DEF f, S
  <2>. QED BY <1>1, <1>2, <2>1, Counted
<1>4. ASSUME NEW k \in 1 .. n PROVE Cardinality(Below(f[k])) = k - 1
  <2> DEFINE B == Below(f[k])
             g == [j \in 1 .. (k - 1) |-> f[j]]
  <2>1. k - 1 \in Nat /\ \A i, j \in 1 .. (k - 1) : g[i] = g[j] => i = j
    BY <1>1, <1>2
  <2>2. g \in [1 .. (k - 1) -> B]
    BY <1>1, <1>2
  <2>3. ASSUME NEW s \in B PROVE \E j \in 1 .. (k - 1) : g[j] = s
    <3>1. PICK j \in 1 .. n : s = f[j]
      BY <1>2
    <3>. QED BY <1>1, <3>1
  <2> HIDE DEF B, g
  <2>4. Cardinality(B) = k - 1
    BY <2>1, <2>2, <2>3, Counted
  <2>. QED BY <2>4 DEF B
<1>5. ASSUME NEW i \in 1 .. n
      PROVE  (CHOOSE row \in S : Cardinality(Below(row)) = i - 1) = f[i]
  <2>1. f[i] \in S /\ Cardinality(Below(f[i])) = i - 1
    BY <1>2, <1>4
  <2>2. ASSUME NEW row \in S, Cardinality(Below(row)) = i - 1 PROVE row = f[i]
    <3>1. PICK k \in 1 .. n : row = f[k]
      BY <1>2
    <3>. HIDE DEF f, Below
    <3>2. k - 1 = i - 1
      BY <1>4, <2>2, <3>1
    <3>. QED BY <1>1, <3>1, <3>2
  <2>. HIDE DEF f, Below, S
  <2>. QED BY <2>1, <2>2
<1>6. ByOrdinal(S)
        = [i \in 1 .. n |-> CHOOSE row \in S : Cardinality(Below(row)) = i - 1]
  BY <1>3 DEF OrderBy, ByOrdinal
<1>. QED BY <1>1, <1>5, <1>6

\* What the rows of an aggregate are read as.
LEMMA ReadBack ==
    ASSUME NEW r, NEW value \in Values, NEW revision
    PROVE  ReadRows(HeadRow(value, revision), NodeRows(r, value), FactRows(r, value),
                    EventRows(r, value)) = [value |-> value, revision |-> revision]
<1>. DEFINE nodes  == ByNode(NodeRows(r, value))
            events == BySequence(EventRows(r, value))
<1>1. /\ value = [status |-> value.status, createdAt |-> value.createdAt,
                  nodes |-> value.nodes, events |-> value.events]
      /\ value.nodes \in Seq(Seq(Texts)) /\ value.events \in Seq(Texts)
  BY DEF Values
<1>2. [i \in DOMAIN events |-> events[i].text] = value.events
  BY <1>1, EventsInOrder
<1>3. ASSUME NEW k \in DOMAIN value.nodes PROVE ReadFacts(FactRows(r, value), k) = value.nodes[k]
  <2> DEFINE facts == value.nodes[k]
             S == {row \in FactRows(r, value) : row.node = k}
             rows == ByOrdinal(S)
  <2>1. facts \in Seq(Texts)
    BY <1>1
  <2>2. S = NodeFacts(r, k, facts)
    BY DEF FactRows, NodeFacts
  <2>3. rows = [i \in DOMAIN facts |-> [run |-> r, node |-> k, ordinal |-> i, fact |-> facts[i]]]
    <3>. HIDE DEF facts, S
    <3>. QED BY <2>1, <2>2, FactsInOrder
  <2>4. [i \in DOMAIN rows |-> rows[i].fact] = facts
    BY <2>1, <2>3
  <2>. QED BY <2>4 DEF ReadFacts
<1>4. [i \in DOMAIN nodes |-> ReadFacts(FactRows(r, value), nodes[i].node)] = value.nodes
  <2>1. nodes = [k \in DOMAIN value.nodes |-> [run |-> r, node |-> k]]
    BY NodesInOrder
  <2>2. DOMAIN nodes = DOMAIN value.nodes /\ \A k \in DOMAIN nodes : nodes[k].node = k
    BY <2>1
  <2>. HIDE DEF nodes
  <2>. QED BY <1>1, <1>3, <2>2
<1>. QED BY <1>1, <1>2, <1>4 DEF ReadRows, HeadRow

-----------------------------------------------------------------------------
(* What a write leaves *)

\* The two images show the same runs.
SameRows(image, other) ==
    /\ image.runs = other.runs /\ image.nodes = other.nodes
    /\ image.facts = other.facts /\ image.events = other.events

Writing == call # None /\ ~Opening

Admitted ==
    IF call.kind = "create" THEN call.run \notin DOMAIN file.runs
    ELSE call.run \in DOMAIN file.runs /\ file.runs[call.run].revision = call.revision

Written(image) == WithEvents(WithNodes(Cleared(WithHead(image))))

Extends(longer, events) ==
    /\ Len(events) <= Len(longer)
    /\ \A i \in 1 .. Len(events) : longer[i] = events[i]

\* A write names a value that goes on from the revision it names.
CallOK ==
    Writing =>
        /\ call.kind \in {"create", "save"} /\ call.caller \in Callers /\ call.run \in Runs
        /\ call.value \in Values /\ call.revision \in Nat
        /\ call.kind = "create" => call.revision = 0
        /\ call.kind = "save" =>
              /\ call.run \in DOMAIN file.runs
              /\ call.value.createdAt = file.runs[call.run].createdAt
              /\ file.runs[call.run].revision = call.revision =>
                    Extends(call.value.events, Aggregate(file, call.run).value.events)

ImageOf(image, runs, nodes, facts, events) ==
    [tables |-> image.tables, column |-> image.column, version |-> image.version,
     runs |-> runs, nodes |-> nodes, facts |-> facts, events |-> events]

LEMMA RowFields ==
    ASSUME NEW image, Shape(image), NEW rows, NEW others
    PROVE  /\ [image EXCEPT !.runs = rows]
                 = ImageOf(image, rows, image.nodes, image.facts, image.events)
           /\ [image EXCEPT !.nodes = rows, !.facts = others]
                 = ImageOf(image, image.runs, rows, others, image.events)
           /\ [image EXCEPT !.events = rows]
                 = ImageOf(image, image.runs, image.nodes, image.facts, rows)
<1>1. [image EXCEPT !.runs = rows]
         = ImageOf(image, rows, image.nodes, image.facts, image.events)
  BY DEF Shape, ImageOf
<1>2. [image EXCEPT !.nodes = rows, !.facts = others]
         = ImageOf(image, image.runs, rows, others, image.events)
  <2> DEFINE mid == ImageOf(image, image.runs, rows, image.facts, image.events)
  <2>1. [image EXCEPT !.nodes = rows] = mid
    BY DEF Shape, ImageOf
  <2>2. [image EXCEPT !.nodes = rows, !.facts = others] = [mid EXCEPT !.facts = others]
    <3>1. [image EXCEPT !.nodes = rows, !.facts = others]
             = [[image EXCEPT !.nodes = rows] EXCEPT !.facts = others]
      OBVIOUS
    <3>. HIDE DEF mid
    <3>. QED BY <3>1, <2>1, Zenon
  <2>3. [mid EXCEPT !.facts = others] = ImageOf(image, image.runs, rows, others, image.events)
    BY DEF ImageOf
  <2>. QED BY <2>2, <2>3
<1>3. [image EXCEPT !.events = rows]
         = ImageOf(image, image.runs, image.nodes, image.facts, rows)
  BY DEF Shape, ImageOf
<1>. QED BY <1>1, <1>2, <1>3

LEMMA ImageFields ==
    ASSUME NEW image, Shape(image), NEW runs, NEW nodes, NEW facts, NEW events
    PROVE  LET new == ImageOf(image, runs, nodes, facts, events) IN
           /\ Shape(new)
           /\ new.runs = runs /\ new.nodes = nodes /\ new.facts = facts /\ new.events = events
BY DEF Shape, ImageOf

LEMMA WrittenFields ==
    ASSUME NEW image, Shape(image)
    PROVE  LET new == Written(image) IN
           /\ new.runs = WithHead(image).runs
           /\ new.nodes = (image.nodes \ Rows(image.nodes, call.run))
                              \cup NodeRows(call.run, call.value)
           /\ new.facts = (image.facts \ Rows(image.facts, call.run))
                              \cup FactRows(call.run, call.value)
           /\ new.events = image.events \cup
                  {row \in EventRows(call.run, call.value) :
                      row.sequence \notin {old.sequence : old \in Rows(image.events, call.run)}}
<1>. DEFINE a == WithHead(image)
            b == Cleared(a)
            c == WithNodes(b)
<1>1. Shape(a) /\ a.nodes = image.nodes /\ a.facts = image.facts /\ a.events = image.events
  <2>1. PICK runs : a = ImageOf(image, runs, image.nodes, image.facts, image.events)
    BY RowFields, Zenon DEF WithHead
  <2>. QED BY <2>1, ImageFields
<1>. HIDE DEF a
<1>2. /\ Shape(b) /\ b.runs = a.runs /\ b.events = a.events
      /\ b.nodes = a.nodes \ Rows(a.nodes, call.run)
      /\ b.facts = a.facts \ Rows(a.facts, call.run)
  <2>1. b = ImageOf(a, a.runs, a.nodes \ Rows(a.nodes, call.run),
                    a.facts \ Rows(a.facts, call.run), a.events)
    BY <1>1, RowFields, Zenon DEF Cleared
  <2>. QED BY <1>1, <2>1, ImageFields
<1>. HIDE DEF b
<1>3. /\ Shape(c) /\ c.runs = b.runs /\ c.events = b.events
      /\ c.nodes = b.nodes \cup NodeRows(call.run, call.value)
      /\ c.facts = b.facts \cup FactRows(call.run, call.value)
  <2>1. c = ImageOf(b, b.runs, b.nodes \cup NodeRows(call.run, call.value),
                    b.facts \cup FactRows(call.run, call.value), b.events)
    BY <1>2, RowFields, Zenon DEF WithNodes
  <2>. QED BY <1>2, <2>1, ImageFields
<1>. HIDE DEF c
<1>4. LET new == WithEvents(c) IN
      /\ new.runs = c.runs /\ new.nodes = c.nodes /\ new.facts = c.facts
      /\ new.events = c.events \cup
                  {row \in EventRows(call.run, call.value) :
                      row.sequence \notin {old.sequence : old \in Rows(c.events, call.run)}}
  <2> DEFINE rows == c.events \cup
                  {row \in EventRows(call.run, call.value) :
                      row.sequence \notin {old.sequence : old \in Rows(c.events, call.run)}}
  <2>1. WithEvents(c) = [c EXCEPT !.events = rows]
    BY DEF WithEvents
  <2>2. /\ [c EXCEPT !.events = rows].runs = c.runs
        /\ [c EXCEPT !.events = rows].nodes = c.nodes
        /\ [c EXCEPT !.events = rows].facts = c.facts
        /\ [c EXCEPT !.events = rows].events = rows
    <3>. HIDE DEF rows
    <3>1. [c EXCEPT !.events = rows] = ImageOf(c, c.runs, c.nodes, c.facts, rows)
      BY <1>3, RowFields
    <3>. QED BY <1>3, <3>1, ImageFields
  <2>. HIDE DEF rows
  <2>3. /\ WithEvents(c).runs = c.runs /\ WithEvents(c).nodes = c.nodes
        /\ WithEvents(c).facts = c.facts /\ WithEvents(c).events = rows
    BY <2>1, <2>2
  <2>. QED BY <2>3 DEF rows
<1>5. Written(image) = WithEvents(c)
  BY DEF Written, a, b, c
<1>. QED BY <1>1, <1>2, <1>3, <1>4, <1>5, Zenon DEF a

\* The head of a run that is written, and those of the others.
LEMMA WrittenHeads ==
    ASSUME Shape(file)
    PROVE  /\ DOMAIN WithHead(file).runs = DOMAIN file.runs \cup {call.run}
           /\ WithHead(file).runs[call.run] = HeadRow(call.value, call.revision + 1)
           /\ \A r \in DOMAIN file.runs \ {call.run} : WithHead(file).runs[r] = file.runs[r]
<1>. DEFINE heads == [r \in DOMAIN file.runs \cup {call.run} |->
                        IF r = call.run THEN HeadRow(call.value, call.revision + 1)
                        ELSE file.runs[r]]
<1>1. WithHead(file) = [file EXCEPT !.runs = heads]
  BY DEF WithHead
<1>2. [file EXCEPT !.runs = heads].runs = heads
  <2>. HIDE DEF heads
  <2>1. [file EXCEPT !.runs = heads] = ImageOf(file, heads, file.nodes, file.facts, file.events)
    BY RowFields
  <2>. QED BY <2>1, ImageFields
<1>3. WithHead(file).runs = heads
  BY <1>1, <1>2, Zenon
<1>. QED BY <1>3

\* The rows of the run that is written are those of its value, and those of others stay.
LEMMA WrittenRows ==
    ASSUME Shape(file), RowsWhole(file), CallOK, Writing, Admitted,
           NEW new, new = Written(file)
    PROVE  /\ Rows(new.nodes, call.run) = NodeRows(call.run, call.value)
           /\ Rows(new.facts, call.run) = FactRows(call.run, call.value)
           /\ Rows(new.events, call.run) = EventRows(call.run, call.value)
           /\ \A r \in Runs \ {call.run} :
                 /\ Rows(new.nodes, r) = Rows(file.nodes, r)
                 /\ Rows(new.facts, r) = Rows(file.facts, r)
                 /\ Rows(new.events, r) = Rows(file.events, r)
<1>. DEFINE told == {row.sequence : row \in Rows(file.events, call.run)}
<1>1. /\ new.nodes = (file.nodes \ Rows(file.nodes, call.run)) \cup NodeRows(call.run, call.value)
      /\ new.facts = (file.facts \ Rows(file.facts, call.run)) \cup FactRows(call.run, call.value)
      /\ new.events = file.events \cup
                  {row \in EventRows(call.run, call.value) : row.sequence \notin told}
  BY WrittenFields
<1>2. /\ \A row \in NodeRows(call.run, call.value) : row.run = call.run
      /\ \A row \in FactRows(call.run, call.value) : row.run = call.run
      /\ \A row \in EventRows(call.run, call.value) : row.run = call.run
  BY DEF NodeRows, FactRows, EventRows
<1>3. /\ Rows(new.nodes, call.run) = NodeRows(call.run, call.value)
      /\ Rows(new.facts, call.run) = FactRows(call.run, call.value)
  BY <1>1, <1>2 DEF Rows
<1>4. \A r \in Runs \ {call.run} :
         /\ Rows(new.nodes, r) = Rows(file.nodes, r)
         /\ Rows(new.facts, r) = Rows(file.facts, r)
         /\ Rows(new.events, r) = Rows(file.events, r)
  BY <1>1, <1>2 DEF Rows
<1>5. Rows(new.events, call.run) = Rows(file.events, call.run) \cup
          {row \in EventRows(call.run, call.value) : row.sequence \notin told}
  BY <1>1, <1>2 DEF Rows
<1>6. CASE call.run \notin DOMAIN file.runs
  <2>1. Rows(file.events, call.run) = {}
    BY <1>6 DEF RowsWhole, Rows
  <2>. QED BY <1>3, <1>4, <1>5, <2>1
<1>7. CASE call.run \in DOMAIN file.runs
  <2> DEFINE old == Aggregate(file, call.run).value.events
             new_ == call.value.events
  <2>1. call.kind = "save" /\ file.runs[call.run].revision = call.revision
    BY <1>7 DEF Admitted, CallOK
  <2>2. Extends(new_, old) /\ call.value \in Values
    BY <2>1 DEF CallOK
  <2>3. /\ Aggregate(file, call.run) \in Aggregates
        /\ Rows(file.events, call.run) = EventRows(call.run, Aggregate(file, call.run).value)
    BY <1>7 DEF RowsWhole
  <2>4. old \in Seq(Texts) /\ new_ \in Seq(Texts)
    BY <2>2, <2>3 DEF Aggregates, Values
  <2>5. Rows(file.events, call.run)
           = {[run |-> call.run, sequence |-> i, text |-> old[i]] : i \in DOMAIN old}
    BY <2>3 DEF EventRows
  <2>6. EventRows(call.run, call.value)
           = {[run |-> call.run, sequence |-> i, text |-> new_[i]] : i \in DOMAIN new_}
    BY DEF EventRows
  <2>. HIDE DEF old, new_
  <2>7. told = DOMAIN old
    <3>1. ASSUME NEW i \in DOMAIN old PROVE i \in told
      <4>1. [run |-> call.run, sequence |-> i, text |-> old[i]] \in Rows(file.events, call.run)
        BY <2>5
      <4>. QED BY <4>1
    <3>2. \A i \in told : i \in DOMAIN old
      BY <2>5
    <3>. QED BY <3>1, <3>2
  <2>8. DOMAIN old = 1 .. Len(old) /\ DOMAIN new_ = 1 .. Len(new_)
        /\ Len(old) \in Nat /\ Len(new_) \in Nat
    BY <2>4
  <2>9. \A i \in DOMAIN old : i \in DOMAIN new_ /\ new_[i] = old[i]
    BY <2>2, <2>8 DEF Extends
  <2>. HIDE DEF told
  <2>10. Rows(new.events, call.run) = EventRows(call.run, call.value)
    <3>1. \A row \in Rows(file.events, call.run) : row \in EventRows(call.run, call.value)
      BY <2>5, <2>6, <2>9
    <3>2. \A row \in EventRows(call.run, call.value) :
             row.sequence \in told => row \in Rows(file.events, call.run)
      BY <2>5, <2>6, <2>7, <2>9
    <3>. QED BY <1>5, <3>1, <3>2
  <2>. QED BY <1>3, <1>4, <2>10
<1>. QED BY <1>6, <1>7

\* So the write is atomic as a reader sees it, and leaves rows that belong together.
LEMMA WrittenAggregates ==
    ASSUME Shape(file), RowsWhole(file), CallOK, Writing, Admitted,
           NEW new, new = Written(file)
    PROVE  /\ DOMAIN new.runs = DOMAIN file.runs \cup {call.run}
           /\ new.runs[call.run] = HeadRow(call.value, call.revision + 1)
           /\ Aggregate(new, call.run) = [value |-> call.value, revision |-> call.revision + 1]
           /\ \A r \in DOMAIN file.runs \ {call.run} :
                 new.runs[r] = file.runs[r] /\ Aggregate(new, r) = Aggregate(file, r)
           /\ RowsWhole(new)
<1>1. /\ DOMAIN new.runs = DOMAIN file.runs \cup {call.run}
      /\ new.runs[call.run] = HeadRow(call.value, call.revision + 1)
      /\ \A r \in DOMAIN file.runs \ {call.run} : new.runs[r] = file.runs[r]
  BY WrittenFields, WrittenHeads
<1>2. call.value \in Values /\ call.revision + 1 \in Nat /\ call.run \in Runs
  BY DEF CallOK
<1>3. DOMAIN file.runs \subseteq Runs /\ IsFiniteSet(DOMAIN file.runs)
  BY DEF RowsWhole
<1>4. /\ Rows(new.nodes, call.run) = NodeRows(call.run, call.value)
      /\ Rows(new.facts, call.run) = FactRows(call.run, call.value)
      /\ Rows(new.events, call.run) = EventRows(call.run, call.value)
  BY WrittenRows
<1>5. \A r \in Runs \ {call.run} :
                 /\ Rows(new.nodes, r) = Rows(file.nodes, r)
                 /\ Rows(new.facts, r) = Rows(file.facts, r)
                 /\ Rows(new.events, r) = Rows(file.events, r)
  BY WrittenRows
<1>6. Aggregate(new, call.run) = [value |-> call.value, revision |-> call.revision + 1]
  BY <1>1, <1>2, <1>4, ReadBack DEF Aggregate
<1>7. \A r \in DOMAIN file.runs \ {call.run} : Aggregate(new, r) = Aggregate(file, r)
  BY <1>1, <1>3, <1>5 DEF Aggregate
<1>8. RowsWhole(new)
  <2>1. DOMAIN new.runs \subseteq Runs /\ IsFiniteSet(DOMAIN new.runs)
    BY <1>1, <1>2, <1>3, FS_AddElement
  <2>2. \A row \in new.nodes \cup new.facts \cup new.events : row.run \in DOMAIN new.runs
    <3>1. \A row \in file.nodes \cup file.facts \cup file.events : row.run \in DOMAIN file.runs
      BY DEF RowsWhole
    <3>2. \A row \in NodeRows(call.run, call.value) \cup FactRows(call.run, call.value)
                        \cup EventRows(call.run, call.value) : row.run = call.run
      BY DEF NodeRows, FactRows, EventRows
    <3>. QED BY <1>1, <3>1, <3>2, WrittenFields
  <2>3. ASSUME NEW r \in DOMAIN new.runs
        PROVE  LET stored == Aggregate(new, r) IN
               /\ stored \in Aggregates
               /\ new.runs[r] = HeadRow(stored.value, stored.revision)
               /\ Rows(new.nodes, r) = NodeRows(r, stored.value)
               /\ Rows(new.facts, r) = FactRows(r, stored.value)
               /\ Rows(new.events, r) = EventRows(r, stored.value)
    <3>1. CASE r = call.run
      BY <1>1, <1>2, <1>4, <1>6, <3>1 DEF Aggregates
    <3>2. CASE r # call.run
      <4>1. r \in DOMAIN file.runs /\ r \in Runs
        BY <1>1, <1>3, <3>2
      <4>2. LET stored == Aggregate(file, r) IN
               /\ stored \in Aggregates
               /\ file.runs[r] = HeadRow(stored.value, stored.revision)
               /\ Rows(file.nodes, r) = NodeRows(r, stored.value)
               /\ Rows(file.facts, r) = FactRows(r, stored.value)
               /\ Rows(file.events, r) = EventRows(r, stored.value)
        BY <4>1 DEF RowsWhole
      <4>. QED BY <1>1, <1>5, <1>7, <3>2, <4>1, <4>2
    <3>. QED BY <3>1, <3>2
  <2>. QED BY <2>1, <2>2, <2>3 DEF RowsWhole
<1>. QED BY <1>1, <1>6, <1>7, <1>8

-----------------------------------------------------------------------------
(* What is stored and what callers hold *)

\* What a caller was given is a version of a run that is stored: the stored one if it has
\* its revision.
HeldOK ==
    \A c \in Callers : held[c] # None =>
        /\ held[c].run \in DOMAIN file.runs
        /\ held[c].value \in Values /\ held[c].revision \in Nat
        /\ held[c].revision <= file.runs[held[c].run].revision
        /\ held[c].value.createdAt = file.runs[held[c].run].createdAt
        /\ held[c].revision = file.runs[held[c].run].revision =>
              held[c].value = Aggregate(file, held[c].run).value

\* The image of a transaction is the file with the statements so far.
WorkOK ==
    /\ Opening /\ stage \in {"schema", "version", "commit"} => SameRows(work, file)
    /\ Writing /\ stage = "head" => work = file
    /\ Writing /\ stage \in {"clear", "nodes", "events", "commit"} => Admitted
    /\ Writing /\ stage = "clear" => work = WithHead(file)
    /\ Writing /\ stage = "nodes" => work = Cleared(WithHead(file))
    /\ Writing /\ stage = "events" => work = WithNodes(Cleared(WithHead(file)))
    /\ Writing /\ stage = "commit" => work = Written(file)

RowsInv ==
    /\ IF Whole(file) THEN RowsWhole(file) ELSE \A c \in Callers : held[c] = None
    /\ DOMAIN held = Callers
    /\ HeldOK /\ CallOK /\ WorkOK

LEMMA RowsInit == Init => RowsInv
<1>. SUFFICES ASSUME Init PROVE RowsInv
  OBVIOUS
<1>1. ~Opening /\ ~Writing
  BY NoneIsNoMethod DEF Init, Opening, Writing
<1>2. Whole(file) => RowsWhole(file)
  BY FilesFound DEF Init
<1>3. (\A c \in Callers : held[c] = None) /\ DOMAIN held = Callers
  BY DEF Init
<1>. QED BY <1>1, <1>2, <1>3 DEF RowsInv, HeldOK, CallOK, WorkOK

\* A change of the runtime goes on from the value it is given.
LEMMA MovedValue ==
    ASSUME NEW value \in Values, NEW c \in Callers, NEW status \in Statuses
    PROVE  LET new == Moved(value, c, status) IN
           /\ new \in Values /\ new.createdAt = value.createdAt
           /\ Extends(new.events, value.events)
<1>. DEFINE new == Moved(value, c, status)
            events == value.events
            longer == Append(events, c)
<1>1. events \in Seq(Texts) /\ c \in Texts
  BY DEF Values, Texts
<1>2. longer \in Seq(Texts) /\ Extends(longer, events)
  <2>. HIDE DEF events
  <2>. QED BY <1>1 DEF Extends
<1>3. new = [status |-> status, createdAt |-> value.createdAt,
             nodes |-> value.nodes, events |-> longer]
  <2>1. value = [status |-> value.status, createdAt |-> value.createdAt,
                 nodes |-> value.nodes, events |-> value.events]
    BY DEF Values
  <2>. HIDE DEF longer
  <2>2. [value EXCEPT !.status = status] = [status |-> status, createdAt |-> value.createdAt,
                                            nodes |-> value.nodes, events |-> value.events]
    BY <2>1
  <2>4. [value EXCEPT !.status = status, !.events = longer]
           = [[value EXCEPT !.status = status] EXCEPT !.events = longer]
    OBVIOUS
  <2>5. [[status |-> status, createdAt |-> value.createdAt, nodes |-> value.nodes,
          events |-> value.events] EXCEPT !.events = longer]
           = [status |-> status, createdAt |-> value.createdAt, nodes |-> value.nodes,
              events |-> longer]
    OBVIOUS
  <2>3. new = [value EXCEPT !.status = status, !.events = longer]
    BY DEF Moved, longer
  <2>. HIDE DEF new
  <2>. QED BY <2>2, <2>3, <2>4, <2>5, Zenon
<1>. HIDE DEF new, longer
<1>4. value.createdAt \in Nat /\ value.nodes \in Seq(Seq(Texts))
  BY DEF Values
<1>5. new \in Values
  BY <1>2, <1>3, <1>4 DEF Values
<1>6. new.createdAt = value.createdAt /\ new.events = longer
  BY <1>3
<1>7. Extends(new.events, value.events)
  BY <1>2, <1>6 DEF events
<1>8. new \in Values /\ new.createdAt = value.createdAt /\ Extends(new.events, value.events)
  BY <1>5, <1>6, <1>7
<1>. QED BY <1>8 DEF new

LEMMA ReportedValue ==
    ASSUME NEW value \in Values, NEW c \in Callers, NEW k \in Nodes
    PROVE  LET new == Reported(value, c, k) IN
           /\ new \in Values /\ new.createdAt = value.createdAt
           /\ Extends(new.events, value.events)
<1>. DEFINE new == Reported(value, c, k)
            nodes == [value.nodes EXCEPT ![k] = Kept(Append(@, c))]
<1>1. value.nodes \in Seq(Seq(Texts)) /\ value.events \in Seq(Texts) /\ c \in Texts
  BY DEF Values, Texts
<1>2. nodes \in Seq(Seq(Texts))
  <2>1. CASE k \in DOMAIN value.nodes
    <3>1. value.nodes[k] \in Seq(Texts)
      BY <1>1, <2>1
    <3>2. Append(value.nodes[k], c) \in Seq(Texts) /\ Len(Append(value.nodes[k], c)) \in Nat \ {0}
      BY <1>1, <3>1
    <3>3. \A s \in Seq(Texts) : Len(s) \in Nat \ {0} => Kept(s) \in Seq(Texts)
      BY DEF Kept
    <3>4. Kept(Append(value.nodes[k], c)) \in Seq(Texts)
      BY <3>2, <3>3
    <3>. QED BY <1>1, <2>1, <3>4
  <2>2. CASE k \notin DOMAIN value.nodes
    <3>1. nodes = value.nodes
      BY <1>1, <2>2
    <3>. QED BY <1>1, <3>1
  <2>. QED BY <2>1, <2>2
<1>3. new = [status |-> value.status, createdAt |-> value.createdAt,
             nodes |-> nodes, events |-> value.events]
  <2>1. value = [status |-> value.status, createdAt |-> value.createdAt,
                 nodes |-> value.nodes, events |-> value.events]
    BY DEF Values
  <2>. HIDE DEF nodes
  <2>2. \A x : [[status |-> value.status, createdAt |-> value.createdAt,
                nodes |-> value.nodes, events |-> value.events] EXCEPT !.nodes = x]
               = [status |-> value.status, createdAt |-> value.createdAt,
                  nodes |-> x, events |-> value.events]
    OBVIOUS
  <2>3. new = [value EXCEPT !.nodes = nodes]
    BY DEF Reported, nodes
  <2>. HIDE DEF new
  <2>. QED BY <2>1, <2>2, <2>3, Zenon
<1>4. Extends(value.events, value.events)
  BY <1>1 DEF Extends
<1>. HIDE DEF new, nodes
<1>5. value.createdAt \in Nat /\ value.status \in Statuses
  BY DEF Values
<1>6. new \in Values
  BY <1>1, <1>2, <1>3, <1>5 DEF Values
<1>7. new.createdAt = value.createdAt /\ new.events = value.events
  BY <1>3
<1>8. new \in Values /\ new.createdAt = value.createdAt /\ Extends(new.events, value.events)
  BY <1>4, <1>6, <1>7
<1>. QED BY <1>8 DEF new

LEMMA CreatedValue ==
    ASSUME NEW c \in Callers, NEW time \in Times
    PROVE  [status |-> "queued", createdAt |-> time, nodes |-> [k \in Nodes |-> << >>],
            events |-> <<c>>] \in Values
<1>1. [k \in Nodes |-> << >>] \in Seq(Seq(Texts))
  BY StorageConstants DEF Nodes
<1>2. <<c>> \in Seq(Texts) /\ time \in Nat /\ "queued" \in Statuses
  BY StorageConstants DEF Texts, Statuses
<1>. QED BY <1>1, <1>2 DEF Values

\* While a transaction runs the file is whole.
LEMMA OpenWhole == ASSUME StorageInv, db = "open" PROVE Whole(file) /\ Shape(file)
BY DEF StorageInv

\* Nothing that the invariant speaks of.
LEMMA RowsQuiet ==
    ASSUME RowsInv, UNCHANGED <<file, work, call, stage, held>>
    PROVE  RowsInv'
BY DEF RowsInv, HeldOK, CallOK, WorkOK, Opening, Writing, Admitted, SameRows, Written, WithHead,
   Cleared, WithNodes, WithEvents

\* The invariant of the runs that are stored and held.
Settled ==
    /\ IF Whole(file) THEN RowsWhole(file) ELSE \A c \in Callers : held[c] = None
    /\ DOMAIN held = Callers
    /\ HeldOK

LEMMA SettledStays ==
    ASSUME RowsInv, UNCHANGED <<file, held>> PROVE Settled'
BY DEF RowsInv, Settled, HeldOK

LEMMA RowsWriteBegins ==
    ASSUME RowsInv, StorageInv,
           \E c \in Callers : SaveRun(c) \/ \E r \in Runs, time \in Times : CreateRun(c, r, time)
    PROVE  RowsInv'
<1>1. PICK method :
         /\ db = "open" /\ call = None /\ call' = method /\ stage' = "begin"
         /\ UNCHANGED <<file, db, work, held>>
         /\ method.kind \in {"create", "save"} /\ method.caller \in Callers /\ method.run \in Runs
         /\ method.value \in Values /\ method.revision \in Nat
         /\ method.kind = "create" => method.revision = 0
         /\ method.kind = "save" =>
               /\ method.run \in DOMAIN file.runs
               /\ method.value.createdAt = file.runs[method.run].createdAt
               /\ file.runs[method.run].revision = method.revision =>
                    Extends(method.value.events, Aggregate(file, method.run).value.events)
  <2>1. CASE \E c \in Callers, r \in Runs, time \in Times : CreateRun(c, r, time)
    <3>1. PICK c \in Callers, r \in Runs, time \in Times : CreateRun(c, r, time)
      BY <2>1
    <3>. DEFINE value == [status |-> "queued", createdAt |-> time,
                          nodes |-> [k \in Nodes |-> << >>], events |-> <<c>>]
                method == [kind |-> "create", caller |-> c, run |-> r, revision |-> 0,
                           value |-> value]
    <3>2. Write(method)
      BY <3>1 DEF CreateRun
    <3>3. value \in Values
      BY CreatedValue
    <3>. HIDE DEF value
    <3>4. /\ method.kind = "create" /\ method.caller = c /\ method.run = r
          /\ method.revision = 0 /\ method.value = value
      OBVIOUS
    <3>. HIDE DEF method
    <3>5. /\ db = "open" /\ call = None /\ call' = method /\ stage' = "begin"
          /\ UNCHANGED <<file, db, work, held>>
      BY <3>2 DEF Write, Enter
    <3>. QED BY <3>3, <3>4, <3>5
  <2>2. CASE \E c \in Callers : SaveRun(c)
    <3>1. PICK c \in Callers : SaveRun(c)
      BY <2>2
    <3>2. PICK value \in {Moved(held[c].value, c, status) : status \in Statuses}
                             \cup {Reported(held[c].value, c, k) : k \in Nodes} :
             Write([kind |-> "save", caller |-> c, run |-> held[c].run, value |-> value,
                    revision |-> held[c].revision])
      BY <3>1 DEF SaveRun
    <3>3. held[c] # None
      BY <3>1 DEF SaveRun
    <3>. DEFINE method == [kind |-> "save", caller |-> c, run |-> held[c].run, value |-> value,
                           revision |-> held[c].revision]
    <3>4. /\ held[c].run \in DOMAIN file.runs
          /\ held[c].value \in Values /\ held[c].revision \in Nat
          /\ held[c].value.createdAt = file.runs[held[c].run].createdAt
          /\ held[c].revision = file.runs[held[c].run].revision =>
                held[c].value = Aggregate(file, held[c].run).value
      BY <3>3 DEF RowsInv, HeldOK
    <3>5. /\ value \in Values /\ value.createdAt = held[c].value.createdAt
          /\ Extends(value.events, held[c].value.events)
      BY <3>2, <3>4, MovedValue, ReportedValue
    <3>6. held[c].run \in Runs
      BY <3>3, <3>4 DEF RowsInv, RowsWhole
    <3>7. /\ method.kind = "save" /\ method.caller = c /\ method.run = held[c].run
          /\ method.revision = held[c].revision /\ method.value = value
      OBVIOUS
    <3>. HIDE DEF method
    <3>8. /\ db = "open" /\ call = None /\ call' = method /\ stage' = "begin"
          /\ UNCHANGED <<file, db, work, held>>
      BY <3>2 DEF Write, Enter, method
    <3>. QED BY <3>4, <3>5, <3>6, <3>7, <3>8
  <2>. QED BY <2>1, <2>2
<1>2. ~Opening'
  BY <1>1 DEF Opening
<1>3. CallOK'
  BY <1>1 DEF CallOK
<1>4. WorkOK'
  BY <1>1, <1>2 DEF WorkOK
<1>. QED BY <1>1, <1>3, <1>4, SettledStays DEF RowsInv, Settled

LEMMA RowsGiven ==
    ASSUME RowsInv, StorageInv, NEW c \in Callers, NEW r \in Runs, GetRun(c, r)
    PROVE  RowsInv'
<1>. DEFINE given == [run |-> r, value |-> Aggregate(file, r).value,
                      revision |-> Aggregate(file, r).revision]
<1>1. /\ db = "open" /\ call = None /\ held' = [held EXCEPT ![c] = given]
      /\ UNCHANGED <<file, work, call, stage>>
      /\ r \in DOMAIN file.runs
  BY DEF GetRun, Aggregate
<1>2. Whole(file)
  BY <1>1, OpenWhole
<1>3. /\ Aggregate(file, r) \in Aggregates
      /\ file.runs[r] = HeadRow(Aggregate(file, r).value, Aggregate(file, r).revision)
  BY <1>1, <1>2 DEF RowsInv, RowsWhole
<1>4. /\ given.run = r /\ given.value = Aggregate(file, r).value /\ given.value \in Values
      /\ given.revision \in Nat /\ given.revision = file.runs[r].revision
      /\ given.value.createdAt = file.runs[r].createdAt
  BY <1>3 DEF Aggregates, HeadRow
<1>. HIDE DEF given
<1>5. DOMAIN held' = Callers /\ held'[c] = given
      /\ \A d \in Callers : d # c => held'[d] = held[d]
  BY <1>1 DEF RowsInv
<1>6. HeldOK'
  <2>1. ASSUME NEW d \in Callers, held'[d] # None
        PROVE  /\ held'[d].run \in DOMAIN file.runs
               /\ held'[d].value \in Values /\ held'[d].revision \in Nat
               /\ held'[d].revision <= file.runs[held'[d].run].revision
               /\ held'[d].value.createdAt = file.runs[held'[d].run].createdAt
               /\ held'[d].revision = file.runs[held'[d].run].revision =>
                     held'[d].value = Aggregate(file, held'[d].run).value
    <3>1. CASE d = c
      BY <1>1, <1>4, <1>5, <3>1
    <3>2. CASE d # c
      BY <1>5, <2>1, <3>2 DEF RowsInv, HeldOK
    <3>. QED BY <3>1, <3>2
  <2>. QED BY <1>1, <2>1 DEF HeldOK
<1>7. ~Opening' /\ ~Writing'
  BY <1>1, NoneIsNoMethod DEF Opening, Writing
<1>8. CallOK' /\ WorkOK'
  BY <1>7 DEF CallOK, WorkOK
<1>. QED BY <1>1, <1>2, <1>5, <1>6, <1>8 DEF RowsInv

\* The statements work on the image only.
LEMMA RowsStatements ==
    ASSUME RowsInv, StorageInv,
           \/ BeginImmediate \/ Schema \/ UserVersion
           \/ WriteRun \/ ClearNodes \/ InsertNodes \/ AppendEvents
    PROVE  RowsInv'
<1>1. /\ call # None /\ UNCHANGED <<file, call, held>>
  BY DEF BeginImmediate, Schema, UserVersion, WriteRun, ClearNodes, InsertNodes, AppendEvents, Step
<1>2. Settled' /\ CallOK'
  <2>1. CallOK'
    BY <1>1 DEF RowsInv, CallOK, Writing, Opening
  <2>. QED BY <1>1, <2>1, SettledStays
<1>3. (Opening' <=> Opening) /\ (Writing' <=> Writing) /\ (Admitted' <=> Admitted)
  BY <1>1 DEF Opening, Writing, Admitted
<1>4. /\ WithHead(file)' = WithHead(file)
      /\ Cleared(WithHead(file))' = Cleared(WithHead(file))
      /\ WithNodes(Cleared(WithHead(file)))' = WithNodes(Cleared(WithHead(file)))
      /\ Written(file)' = Written(file)
  BY <1>1 DEF WithHead, Cleared, WithNodes, WithEvents, Written
<1>5. (Opening <=> call.kind = "open") /\ Shape(file)
  BY <1>1 DEF StorageInv
<1>6. WorkOK'
  <2>1. CASE BeginImmediate
    <3>1. work' = file /\ stage' = IF call.kind = "open" THEN "schema" ELSE "head"
      BY <2>1 DEF BeginImmediate, Step
    <3>. QED BY <1>1, <1>3, <1>5, <3>1 DEF WorkOK, Writing, SameRows
  <2>2. CASE Schema
    <3>1. /\ stage = "schema" /\ stage' = "version"
          /\ work' = IF work.tables /\ work.version = 1 THEN [work EXCEPT !.column = TRUE]
                     ELSE IF work.tables THEN work
                     ELSE [work EXCEPT !.tables = TRUE, !.column = TRUE]
      BY <2>2 DEF Schema, Step
    <3>2. Opening /\ SameRows(work, file)
      BY <3>1 DEF StorageInv, RowsInv, WorkOK
    <3>3. work = file
      BY <3>1 DEF StorageInv, ImageOK
    <3>4. SameRows(work', file)
      BY <1>5, <3>1, <3>3 DEF SameRows, Shape
    <3>. QED BY <1>1, <1>3, <3>1, <3>2, <3>4 DEF WorkOK, Writing, SameRows
  <2>3. CASE UserVersion
    <3>1. /\ stage = "version" /\ stage' = "commit"
          /\ work' = [work EXCEPT !.version = CurrentSchemaVersion]
      BY <2>3 DEF UserVersion, Step
    <3>2. Opening /\ SameRows(work, file) /\ Shape(work)
      BY <3>1 DEF StorageInv, ImageOK, RowsInv, WorkOK
    <3>3. SameRows(work', file)
      BY <3>1, <3>2 DEF SameRows, Shape
    <3>. QED BY <1>1, <1>3, <3>1, <3>2, <3>3 DEF WorkOK, Writing, SameRows
  <2>4. CASE WriteRun
    <3>1. stage = "head" /\ stage' = "clear" /\ HeadAllowed /\ work' = WithHead(work)
      BY <2>4 DEF WriteRun, Step
    <3>2. ~Opening /\ Writing /\ work = file
      BY <1>1, <3>1 DEF StorageInv, RowsInv, WorkOK, Writing
    <3>3. Admitted
      BY <3>1, <3>2 DEF HeadAllowed, Admitted
    <3>. QED BY <1>3, <1>4, <3>1, <3>2, <3>3 DEF WorkOK
  <2>5. CASE ClearNodes
    <3>1. stage = "clear" /\ stage' = "nodes" /\ work' = Cleared(work)
      BY <2>5 DEF ClearNodes, Step
    <3>2. ~Opening /\ Writing /\ work = WithHead(file) /\ Admitted
      BY <1>1, <3>1 DEF StorageInv, RowsInv, WorkOK, Writing
    <3>. QED BY <1>3, <1>4, <3>1, <3>2 DEF WorkOK
  <2>6. CASE InsertNodes
    <3>1. stage = "nodes" /\ stage' = "events" /\ work' = WithNodes(work)
      BY <2>6 DEF InsertNodes, Step
    <3>2. ~Opening /\ Writing /\ work = Cleared(WithHead(file)) /\ Admitted
      BY <1>1, <3>1 DEF StorageInv, RowsInv, WorkOK, Writing
    <3>. QED BY <1>3, <1>4, <3>1, <3>2 DEF WorkOK
  <2>7. CASE AppendEvents
    <3>1. stage = "events" /\ stage' = "commit" /\ work' = WithEvents(work)
      BY <2>7 DEF AppendEvents, Step
    <3>2. ~Opening /\ Writing /\ work = WithNodes(Cleared(WithHead(file))) /\ Admitted
      BY <1>1, <3>1 DEF StorageInv, RowsInv, WorkOK, Writing
    <3>3. work' = Written(file)
      BY <3>1, <3>2 DEF Written
    <3>. QED BY <1>3, <1>4, <3>1, <3>2, <3>3 DEF WorkOK
  <2>. QED BY <2>1, <2>2, <2>3, <2>4, <2>5, <2>6, <2>7
<1>. QED BY <1>2, <1>6 DEF RowsInv, Settled

\* What a commit puts in the file.
LEMMA CommitOpens ==
    ASSUME RowsInv, StorageInv, Commit, Opening
    PROVE  SameRows(file', file) /\ held' = held
BY DEF Commit, RowsInv, WorkOK, Opening, SameRows

LEMMA CommitWrites ==
    ASSUME RowsInv, StorageInv, Commit, ~Opening
    PROVE  /\ Writing /\ Admitted /\ file' = Written(file) /\ held' = Returned
           /\ Shape(file) /\ Whole(file) /\ RowsWhole(file)
<1>1. call # None /\ stage = "commit" /\ call.kind # "open"
  BY DEF Commit, StorageInv
<1>2. Writing /\ Admitted /\ work = Written(file)
  BY <1>1 DEF Writing, RowsInv, WorkOK
<1>3. Shape(file) /\ Whole(file)
  BY <1>1, OpenWhole DEF StorageInv
<1>. QED BY <1>1, <1>2, <1>3 DEF Commit, RowsInv

LEMMA RowsCommit ==
    ASSUME RowsInv, StorageInv, Commit PROVE RowsInv'
<1>1. call' = None /\ Whole(file) /\ Whole(file')
  <2>1. call # None /\ call' = None
    BY DEF Commit, Done
  <2>2. Whole(file)
    BY <2>1, OpenWhole DEF StorageInv
  <2>. QED BY <2>1, <2>2, WholeStep DEF Next, vars
<1>2. CallOK' /\ WorkOK'
  BY <1>1, NoneIsNoMethod DEF CallOK, WorkOK, Opening, Writing
<1>3. CASE Opening
  <2>1. SameRows(file', file) /\ held' = held
    BY <1>3, CommitOpens
  <2>2. \A r : Aggregate(file', r) = Aggregate(file, r)
    BY <2>1 DEF SameRows, Aggregate
  <2>3. RowsWhole(file')
    BY <1>1, <2>1, <2>2 DEF RowsInv, RowsWhole, SameRows
  <2>4. HeldOK'
    BY <2>1, <2>2 DEF RowsInv, HeldOK, SameRows
  <2>. QED BY <1>1, <1>2, <2>1, <2>3, <2>4 DEF RowsInv
<1>4. CASE ~Opening
  <2>1. /\ Writing /\ Admitted /\ file' = Written(file) /\ held' = Returned
        /\ Shape(file) /\ RowsWhole(file)
    BY <1>4, CommitWrites
  <2>2. CallOK /\ HeldOK /\ DOMAIN held = Callers
    BY DEF RowsInv
  <2>3. /\ DOMAIN file'.runs = DOMAIN file.runs \cup {call.run}
        /\ file'.runs[call.run] = HeadRow(call.value, call.revision + 1)
        /\ Aggregate(file', call.run) = [value |-> call.value, revision |-> call.revision + 1]
        /\ \A r \in DOMAIN file.runs \ {call.run} :
              file'.runs[r] = file.runs[r] /\ Aggregate(file', r) = Aggregate(file, r)
        /\ RowsWhole(file')
    BY <2>1, <2>2, WrittenAggregates
  <2>4. /\ call.kind \in {"create", "save"} /\ call.caller \in Callers
        /\ call.value \in Values /\ call.revision \in Nat
    BY <2>1, <2>2 DEF CallOK
  <2>. DEFINE given == [run |-> call.run, value |-> call.value, revision |-> call.revision + 1]
  <2>5. held' = [held EXCEPT ![call.caller] = given]
    BY <2>1 DEF Returned
  <2>6. /\ given.run = call.run /\ given.value = call.value /\ given.revision = call.revision + 1
        /\ file'.runs[call.run].revision = call.revision + 1
        /\ file'.runs[call.run].createdAt = call.value.createdAt
        /\ Aggregate(file', call.run).value = call.value
    BY <2>3 DEF HeadRow
  <2>. HIDE DEF given
  <2>7. /\ DOMAIN held' = Callers /\ held'[call.caller] = given
        /\ \A d \in Callers : d # call.caller => held'[d] = held[d]
    BY <2>2, <2>4, <2>5
  <2>8. ASSUME NEW d \in Callers, held'[d] # None
        PROVE  /\ held'[d].run \in DOMAIN file'.runs
               /\ held'[d].value \in Values /\ held'[d].revision \in Nat
               /\ held'[d].revision <= file'.runs[held'[d].run].revision
               /\ held'[d].value.createdAt = file'.runs[held'[d].run].createdAt
               /\ held'[d].revision = file'.runs[held'[d].run].revision =>
                     held'[d].value = Aggregate(file', held'[d].run).value
    <3>1. CASE d = call.caller
      BY <2>3, <2>4, <2>6, <2>7, <3>1
    <3>2. CASE d # call.caller
      <4>1. held'[d] = held[d] /\ held[d] # None
        BY <2>7, <2>8, <3>2
      <4>2. /\ held[d].run \in DOMAIN file.runs
            /\ held[d].value \in Values /\ held[d].revision \in Nat
            /\ held[d].revision <= file.runs[held[d].run].revision
            /\ held[d].value.createdAt = file.runs[held[d].run].createdAt
            /\ held[d].revision = file.runs[held[d].run].revision =>
                  held[d].value = Aggregate(file, held[d].run).value
        BY <2>2, <4>1 DEF HeldOK
      <4>3. CASE held[d].run # call.run
        BY <2>3, <4>1, <4>2, <4>3
      <4>4. CASE held[d].run = call.run
        <5>1. /\ call.revision = file.runs[call.run].revision
              /\ call.value.createdAt = file.runs[call.run].createdAt
          BY <2>1, <2>2, <2>4, <4>2, <4>4 DEF Admitted, CallOK
        <5>. QED BY <2>3, <2>4, <2>6, <4>1, <4>2, <4>4, <5>1
      <4>. QED BY <4>3, <4>4
    <3>. QED BY <3>1, <3>2
  <2>9. HeldOK'
    BY <2>8 DEF HeldOK
  <2>. QED BY <1>1, <1>2, <2>3, <2>7, <2>9 DEF RowsInv
<1>. QED BY <1>3, <1>4

LEMMA RowsEnded ==
    ASSUME RowsInv, StorageInv, Rollback \/ Crash PROVE RowsInv'
<1>1. call' = None /\ file' = file
  BY DEF Rollback, RolledBack, Crash, Done
<1>2. CallOK' /\ WorkOK'
  BY <1>1, NoneIsNoMethod DEF CallOK, WorkOK, Opening, Writing
<1>3. CASE Rollback
  <2>1. held' = held
    BY <1>3 DEF Rollback, Thrown
  <2>. QED BY <1>1, <1>2, <2>1, SettledStays DEF RowsInv, Settled
<1>4. CASE Crash
  <2>1. held' = [c \in Callers |-> None]
    BY <1>4 DEF Crash
  <2>2. HeldOK' /\ DOMAIN held' = Callers /\ \A c \in Callers : held'[c] = None
    BY <2>1 DEF HeldOK
  <2>. QED BY <1>1, <1>2, <2>2 DEF RowsInv
<1>. QED BY <1>3, <1>4

LEMMA RowsStep == RowsInv /\ StorageInv /\ [Next]_vars => RowsInv'
<1>. SUFFICES ASSUME RowsInv, StorageInv, [Next]_vars PROVE RowsInv'
  OBVIOUS
<1>1. CASE UNCHANGED vars
  BY <1>1, RowsQuiet DEF vars
<1>2. CASE Open
  <2>1. call' = [kind |-> "open"] /\ stage' = "begin" /\ UNCHANGED <<file, work, held>>
    BY <1>2 DEF Open, Enter
  <2>2. Opening' /\ ~Writing'
    BY <2>1 DEF Opening, Writing
  <2>3. CallOK' /\ WorkOK'
    BY <2>1, <2>2 DEF CallOK, WorkOK
  <2>. QED BY <2>1, <2>3, SettledStays DEF RowsInv, Settled
<1>3. CASE \E c \in Callers : SaveRun(c) \/ \E r \in Runs, time \in Times : CreateRun(c, r, time)
  BY <1>3, RowsWriteBegins
<1>4. CASE \E c \in Callers, r \in Runs : GetRun(c, r)
  BY <1>4, RowsGiven
<1>5. CASE Close \/ WalkPage \/ \E statuses \in {Statuses, {"queued"}}, limit \in PageLimits :
              WalkBegins(statuses, limit)
  BY <1>5, RowsQuiet DEF Close, WalkBegins, WalkPage
<1>6. CASE \/ BeginImmediate \/ Schema \/ UserVersion
           \/ WriteRun \/ ClearNodes \/ InsertNodes \/ AppendEvents
  BY <1>6, RowsStatements
<1>7. CASE Commit
  BY <1>7, RowsCommit
<1>8. CASE Rollback \/ Crash
  BY <1>8, RowsEnded
<1>. QED BY <1>1, <1>2, <1>3, <1>4, <1>5, <1>6, <1>7, <1>8 DEF Next

LEMMA RowsHold == Spec => [](RowsInv /\ StorageInv)
<1>1. Init => RowsInv /\ StorageInv
  BY RowsInit, InitInv
<1>2. RowsInv /\ StorageInv /\ [Next]_vars => RowsInv' /\ StorageInv'
  BY RowsStep, StepInv
<1>. QED BY <1>1, <1>2, PTL DEF Spec

\* Two callers who know the same revision of a run know the same aggregate, the stored one if
\* it is stored: so the WHERE clause of saveRun is enough to refuse whatever is stale.
THEOREM HeldIsStoredEver == Spec => []HeldIsStored
<1>1. RowsInv => HeldIsStored
  BY DEF RowsInv, HeldOK, HeldIsStored
<1>. QED BY <1>1, RowsHold, PTL

-----------------------------------------------------------------------------
(* The refinement *)

Store == [r \in Runs |-> Aggregate(file, r)]
Asked == IF call # None /\ call.kind # "open" THEN call ELSE None

LEMMA WritesInit == Init => Repository!Init
BY DEF Init, Repository!Init

\* A step that writes nothing and asks for nothing.
LEMMA StoreStays ==
    ASSUME UNCHANGED file PROVE Store' = Store
BY DEF Store, Aggregate, ReadRows, ReadFacts, Rows, ByNode, ByOrdinal, BySequence, OrderBy

LEMMA WritesStep ==
    ASSUME RowsInv, StorageInv, [Next]_vars
    PROVE  \/ UNCHANGED <<Store, Asked>>
           \/ Asked = None /\ Asked' # None /\ UNCHANGED Store
           \/ Asked # None /\ Asked' = None /\ UNCHANGED Store
           \/ /\ Asked # None /\ Asked' = None
              /\ \/ Asked.kind = "create" /\ Store[Asked.run] = None
                 \/ /\ Asked.kind = "save" /\ Store[Asked.run] # None
                    /\ Store[Asked.run].revision = Asked.revision
              /\ Store' = [Store EXCEPT ![Asked.run] =
                              [value |-> Asked.value, revision |-> Asked.revision + 1]]
<1>1. CASE UNCHANGED <<file, call>>
  BY <1>1, StoreStays DEF Asked
<1>2. CASE Open
  BY <1>2, StoreStays, NoneIsNoMethod DEF Open, Enter, Asked
<1>3. CASE \E c \in Callers : SaveRun(c) \/ \E r \in Runs, time \in Times : CreateRun(c, r, time)
  <2>1. UNCHANGED file /\ call = None
    BY <1>3 DEF SaveRun, CreateRun, Write, Enter
  <2>. QED BY <2>1, StoreStays DEF Asked
<1>4. CASE Rollback \/ Crash
  <2>1. UNCHANGED file /\ call' = None
    BY <1>4 DEF Rollback, RolledBack, Crash, Done
  <2>. QED BY <2>1, StoreStays DEF Asked
<1>5. CASE Commit
  <2>1. call # None /\ call' = None
    BY <1>5 DEF Commit, Done
  <2>2. CASE Opening
    <3>1. SameRows(file', file)
      BY <1>5, <2>2, CommitOpens
    <3>2. \A r \in Runs : Aggregate(file', r) = Aggregate(file, r)
      BY <3>1 DEF SameRows, Aggregate
    <3>3. Store' = Store
      BY <3>2 DEF Store
    <3>. QED BY <2>1, <2>2, <3>3 DEF Asked, StorageInv
  <2>3. CASE ~Opening
    <3>1. Writing /\ Admitted /\ file' = Written(file) /\ Shape(file) /\ RowsWhole(file) /\ CallOK
      BY <1>5, <2>3, CommitWrites DEF RowsInv
    <3>2. /\ call.kind \in {"create", "save"} /\ call.run \in Runs
      BY <3>1 DEF CallOK
    <3>3. Asked = call /\ Asked # None /\ Asked' = None
      BY <2>1, <3>2 DEF Asked
    <3>4. /\ Aggregate(file', call.run) = [value |-> call.value, revision |-> call.revision + 1]
          /\ DOMAIN file'.runs = DOMAIN file.runs \cup {call.run}
          /\ \A r \in DOMAIN file.runs \ {call.run} : Aggregate(file', r) = Aggregate(file, r)
      BY <3>1, WrittenAggregates
    <3>5. \A r \in Runs \ {call.run} : Aggregate(file', r) = Aggregate(file, r)
      BY <3>4 DEF Aggregate
    <3>6. Store' = [Store EXCEPT ![call.run] =
                       [value |-> call.value, revision |-> call.revision + 1]]
      BY <3>2, <3>4, <3>5 DEF Store
    <3>7. CASE call.kind = "create"
      BY <3>1, <3>2, <3>3, <3>6, <3>7 DEF Admitted, Store, Aggregate
    <3>8. CASE call.kind = "save"
      <4>1. call.run \in DOMAIN file.runs /\ file.runs[call.run].revision = call.revision
        BY <3>1, <3>8 DEF Admitted
      <4>2. /\ Aggregate(file, call.run) \in Aggregates
            /\ file.runs[call.run] = HeadRow(Aggregate(file, call.run).value,
                                             Aggregate(file, call.run).revision)
        BY <3>1, <4>1 DEF RowsWhole
      <4>3. Aggregate(file, call.run).revision = call.revision /\ Aggregate(file, call.run) # None
        BY <4>1, <4>2, NoneIsNoAggregate DEF HeadRow
      <4>4. Store[call.run] = Aggregate(file, call.run)
        BY <3>2 DEF Store
      <4>. QED BY <3>3, <3>6, <3>8, <4>3, <4>4
    <3>. QED BY <3>2, <3>7, <3>8
  <2>. QED BY <2>2, <2>3
<1>6. CASE ~UNCHANGED <<file, call>>
  <2>1. ~UNCHANGED vars
    BY <1>6 DEF vars
  <2>2. ~(Close \/ WalkPage \/ \E statuses \in {Statuses, {"queued"}}, limit \in PageLimits :
              WalkBegins(statuses, limit)) /\ ~\E c \in Callers, r \in Runs : GetRun(c, r)
    BY <1>6 DEF Close, WalkPage, WalkBegins, GetRun
  <2>3. ~(BeginImmediate \/ Schema \/ UserVersion \/ WriteRun \/ ClearNodes \/ InsertNodes
            \/ AppendEvents)
    BY <1>6 DEF BeginImmediate, Schema, UserVersion, WriteRun, ClearNodes, InsertNodes,
       AppendEvents, Step
  <2>. QED BY <1>2, <1>3, <1>4, <1>5, <2>1, <2>2, <2>3 DEF Next
<1>. QED BY <1>1, <1>6

\* createRun and saveRun, statement by statement, implement the writes that the port promises:
\* completely or not at all, one at a time, each on the revision it names, through failures of
\* any statement, kills between any two, opening, migrating and closing.
THEOREM WritesAreAtomicEver == Spec => WritesAreAtomic
<1>1. RowsInv /\ StorageInv /\ [Next]_vars => [Repository!Next]_(Repository!vars)
  <2>. SUFFICES ASSUME RowsInv, StorageInv, [Next]_vars
                PROVE  [Repository!Next]_(Repository!vars)
    OBVIOUS
  <2>. QED BY WritesStep
       DEF Repository!Next, Repository!Ask, Repository!Apply, Repository!Refuse,
           Repository!Allowed, Repository!vars, Store, Asked
<1>. QED BY <1>1, WritesInit, RowsHold, PTL DEF Spec, WritesAreAtomic, Repository!Spec

-----------------------------------------------------------------------------
(* The pages *)

\* ORDER BY created_at DESC, id DESC lists each of the runs once, in that order.
LEMMA RunsInOrder ==
    ASSUME NEW runs, NEW S, S \subseteq Nat, IsFiniteSet(S), \A r \in S : runs[r].createdAt \in Nat
    PROVE  LET rows == ByCreation(runs, S)
               n    == Cardinality(S)
           IN  /\ n \in Nat /\ rows \in [1 .. n -> S]
               /\ \A r \in S : \E i \in 1 .. n : rows[i] = r
               /\ \A i, j \in 1 .. n : i < j => Before(runs, rows[i], rows[j])
<1>. DEFINE n == Cardinality(S)
            P(r) == {o \in S : Before(runs, o, r)}
            rows == ByCreation(runs, S)
<1>0. /\ \A r \in S : ~Before(runs, r, r)
      /\ \A o, r, q \in S : Before(runs, o, r) /\ Before(runs, r, q) => Before(runs, o, q)
  <2>1. \A r \in S : r \in Nat
    OBVIOUS
  <2>. QED BY <2>1 DEF Before
<1>1. n \in Nat
  BY FS_CardinalityType
<1>2. ASSUME NEW r \in S, NEW q \in S, Before(runs, r, q)
      PROVE  Cardinality(P(r)) < Cardinality(P(q))
  <2>1. P(r) \subseteq P(q) /\ r \in P(q) /\ r \notin P(r)
    BY <1>0, <1>2
  <2>2. P(q) \subseteq S /\ P(r) # P(q)
    BY <2>1
  <2>. HIDE DEF P
  <2>3. IsFiniteSet(P(q))
    BY <2>2, FS_Subset
  <2>4. IsFiniteSet(P(r)) /\ Cardinality(P(r)) <= Cardinality(P(q))
        /\ Cardinality(P(r)) # Cardinality(P(q))
    BY <2>1, <2>2, <2>3, FS_Subset
  <2>5. Cardinality(P(r)) \in Nat /\ Cardinality(P(q)) \in Nat
    BY <2>3, <2>4, FS_CardinalityType
  <2>. QED BY <2>4, <2>5
<1>3. \A r, q \in S : r = q \/ Before(runs, r, q) \/ Before(runs, q, r)
  BY DEF Before
<1>4. ASSUME NEW r \in S PROVE Cardinality(P(r)) \in 0 .. (n - 1)
  <2>1. P(r) \subseteq S /\ r \notin P(r)
    BY <1>0
  <2>2. P(r) # S
    BY <2>1
  <2>. HIDE DEF P
  <2>3. IsFiniteSet(P(r)) /\ Cardinality(P(r)) <= n /\ n # Cardinality(P(r))
    BY <2>1, <2>2, FS_Subset
  <2>4. Cardinality(P(r)) \in Nat
    BY <2>3, FS_CardinalityType
  <2>. QED BY <1>1, <2>3, <2>4
<1>. DEFINE place == [r \in S |-> Cardinality(P(r)) + 1]
<1>5. place \in [S -> 1 .. n] /\ \A r, q \in S : Before(runs, r, q) => place[r] < place[q]
  <2>1. ASSUME NEW r \in S, NEW q \in S, Before(runs, r, q) PROVE place[r] < place[q]
    <3>1. Cardinality(P(r)) < Cardinality(P(q))
      BY <1>2, <2>1
    <3>2. Cardinality(P(r)) \in 0 .. (n - 1) /\ Cardinality(P(q)) \in 0 .. (n - 1)
      BY <1>4
    <3>. HIDE DEF P, n
    <3>. QED BY <1>1, <3>1, <3>2
  <2>2. place \in [S -> 1 .. n]
    <3>. HIDE DEF P, n
    <3>. QED BY <1>1, <1>4
  <2>. QED BY <2>1, <2>2
<1>6. \A r, q \in S : place[r] = place[q] => r = q
  <2>. HIDE DEF place, n
  <2>. QED BY <1>1, <1>3, <1>5
<1>7. \A i \in 1 .. n : \E r \in S : place[r] = i
  <2>. HIDE DEF place
  <2>1. place \in Injection(S, 1 .. n)
    BY <1>5, <1>6 DEF Injection, IsInjective
  <2>2. IsFiniteSet(1 .. n) /\ Cardinality(1 .. n) = n
    <3>. HIDE DEF n
    <3>. QED BY <1>1, FS_Interval
  <2>3. place \in Surjection(S, 1 .. n)
    BY <2>1, <2>2, FS_Injection
  <2>. QED BY <2>3 DEF Surjection
<1>8. ASSUME NEW i \in 1 .. n PROVE rows[i] \in S /\ place[rows[i]] = i
  <2>1. rows[i] = CHOOSE r \in S : Cardinality(P(r)) = i - 1
    BY DEF ByCreation, OrderBy
  <2>2. PICK r \in S : place[r] = i
    BY <1>7
  <2>3. Cardinality(P(r)) \in 0 .. (n - 1) /\ place[r] = Cardinality(P(r)) + 1
    BY <1>4
  <2>4. Cardinality(P(r)) = i - 1
    <3>. HIDE DEF P, n, place
    <3>. QED BY <1>1, <2>2, <2>3
  <2>5. rows[i] \in S /\ Cardinality(P(rows[i])) = i - 1
    <3>. HIDE DEF P, rows
    <3>. QED BY <2>1, <2>4
  <2>6. place[rows[i]] = Cardinality(P(rows[i])) + 1
    BY <2>5
  <2>. HIDE DEF P, n, place, rows
  <2>. QED BY <1>1, <2>5, <2>6
<1>9. DOMAIN rows = 1 .. n /\ rows = [i \in 1 .. n |-> rows[i]]
  <2>1. rows = [i \in 1 .. n |-> CHOOSE r \in S : Cardinality(P(r)) = i - 1]
    BY DEF ByCreation, OrderBy
  <2>. HIDE DEF rows, n, P
  <2>. QED BY <2>1
<1>. HIDE DEF rows, place, n, P
<1>10. rows \in [1 .. n -> S]
  BY <1>8, <1>9
<1>11. \A r \in S : \E i \in 1 .. n : rows[i] = r
  BY <1>5, <1>6, <1>8
<1>12. \A i, j \in 1 .. n : i < j => Before(runs, rows[i], rows[j])
  <2>1. SUFFICES ASSUME NEW i \in 1 .. n, NEW j \in 1 .. n, i < j
                 PROVE  Before(runs, rows[i], rows[j])
    OBVIOUS
  <2>2. rows[i] \in S /\ rows[j] \in S /\ place[rows[i]] = i /\ place[rows[j]] = j
    BY <1>8
  <2>3. ~(place[rows[j]] < place[rows[i]]) /\ rows[i] # rows[j]
    BY <1>1, <2>1, <2>2
  <2>. QED BY <1>3, <1>5, <2>2, <2>3
<1>. QED BY <1>1, <1>10, <1>11, <1>12 DEF rows, n

\* A reader that goes through the pages has seen, each once, what is not older than its
\* cursor among the runs that matched all along, and some others.
WalkOK ==
    walk # None =>
        /\ walk = [statuses |-> walk.statuses, limit |-> walk.limit, before |-> walk.before,
                   seen |-> walk.seen, due |-> walk.due, over |-> walk.over]
        /\ walk.limit \in PageLimits /\ walk.over \in BOOLEAN
        /\ walk.seen \in Seq(DOMAIN file.runs) /\ IsInjective(walk.seen)
        /\ walk.due \subseteq DOMAIN file.runs
        /\ \A r \in walk.due : Matches(file.runs[r], walk.statuses)
        /\ walk.over => walk.due \subseteq ToSet(walk.seen)
        /\ ~walk.over /\ walk.before = None => walk.seen = << >>
        /\ ~walk.over /\ walk.before # None =>
              /\ walk.before.createdAt \in Nat /\ walk.before.id \in Nat
              /\ \A r \in ToSet(walk.seen) : ~Older(file.runs[r], r, walk.before)
              /\ \A r \in walk.due \ ToSet(walk.seen) : Older(file.runs[r], r, walk.before)

\* A commit creates a run or keeps its place in the list.
LEMMA CommitKeepsPlaces ==
    ASSUME RowsInv, StorageInv, Commit
    PROVE  /\ DOMAIN file.runs \subseteq DOMAIN file'.runs
           /\ \A r \in DOMAIN file.runs : file'.runs[r].createdAt = file.runs[r].createdAt
<1>1. CASE Opening
  BY <1>1, CommitOpens DEF SameRows
<1>2. CASE ~Opening
  <2>1. Writing /\ Admitted /\ file' = Written(file) /\ Shape(file) /\ RowsWhole(file) /\ CallOK
    BY <1>2, CommitWrites DEF RowsInv
  <2>2. /\ DOMAIN file'.runs = DOMAIN file.runs \cup {call.run}
        /\ file'.runs[call.run] = HeadRow(call.value, call.revision + 1)
        /\ \A r \in DOMAIN file.runs \ {call.run} : file'.runs[r] = file.runs[r]
    BY <2>1, WrittenAggregates
  <2>3. call.run \in DOMAIN file.runs => call.value.createdAt = file.runs[call.run].createdAt
    BY <2>1 DEF Admitted, CallOK
  <2>4. file'.runs[call.run].createdAt = call.value.createdAt
    BY <2>2 DEF HeadRow
  <2>. QED BY <2>2, <2>3, <2>4
<1>. QED BY <1>1, <1>2

LEMMA WalkCommit ==
    ASSUME RowsInv, StorageInv, WalkOK, Commit PROVE WalkOK'
<1>1. CASE walk = None
  BY <1>1 DEF Commit, WalkOK
<1>2. CASE walk # None
  <2>. DEFINE due == {r \in walk.due : Matches(work.runs[r], walk.statuses)}
  <2>1. walk' = [walk EXCEPT !.due = due] /\ file' = work
    BY <1>2 DEF Commit
  <2>2. /\ walk'.statuses = walk.statuses /\ walk'.limit = walk.limit
        /\ walk'.before = walk.before /\ walk'.seen = walk.seen
        /\ walk'.due = due /\ walk'.over = walk.over
        /\ walk' = [statuses |-> walk.statuses, limit |-> walk.limit, before |-> walk.before,
                    seen |-> walk.seen, due |-> due, over |-> walk.over]
    <3>. HIDE DEF due
    <3>. QED BY <1>2, <2>1 DEF WalkOK
  <2>3. /\ DOMAIN file.runs \subseteq DOMAIN file'.runs
        /\ \A r \in DOMAIN file.runs : file'.runs[r].createdAt = file.runs[r].createdAt
    BY CommitKeepsPlaces
  <2>4. due \subseteq walk.due /\ \A r \in due : Matches(file'.runs[r], walk.statuses)
    BY <2>1
  <2>5. walk.seen \in Seq(DOMAIN file'.runs)
    BY <1>2, <2>3 DEF WalkOK
  <2>6. \A before : \A r \in DOMAIN file.runs :
           Older(file'.runs[r], r, before) <=> Older(file.runs[r], r, before)
    BY <2>3 DEF Older
  <2>7. ToSet(walk.seen) \subseteq DOMAIN file.runs
    BY <1>2 DEF WalkOK, ToSet
  <2>. HIDE DEF due
  <2>. QED BY <1>2, <2>2, <2>3, <2>4, <2>5, <2>6, <2>7 DEF WalkOK
<1>. QED BY <1>1, <1>2

LEMMA WalkFirst ==
    ASSUME RowsInv, StorageInv, NEW statuses, NEW limit \in PageLimits, WalkBegins(statuses, limit)
    PROVE  WalkOK'
<1>. DEFINE due == {r \in DOMAIN file.runs : Matches(file.runs[r], statuses)}
            begun == [statuses |-> statuses, limit |-> limit, before |-> None, seen |-> << >>,
                      due |-> due, over |-> FALSE]
<1>1. walk' = begun /\ file' = file
  BY DEF WalkBegins
<1>2. due \subseteq DOMAIN file.runs /\ \A r \in due : Matches(file.runs[r], statuses)
  OBVIOUS
<1>3. << >> \in Seq(DOMAIN file.runs) /\ IsInjective(<< >>)
  BY DEF IsInjective
<1>. HIDE DEF due
<1>4. /\ walk'.statuses = statuses /\ walk'.limit = limit /\ walk'.before = None
      /\ walk'.seen = << >> /\ walk'.due = due /\ walk'.over = FALSE
  BY <1>1
<1>. QED BY <1>1, <1>2, <1>3, <1>4 DEF WalkOK

LEMMA Joined ==
    ASSUME NEW X, NEW s \in Seq(X), NEW t \in Seq(X)
    PROVE  /\ s \o t \in Seq(X) /\ Len(s \o t) = Len(s) + Len(t)
           /\ Len(s) \in Nat /\ Len(t) \in Nat
           /\ \A i \in 1 .. Len(s) : (s \o t)[i] = s[i]
           /\ \A i \in 1 .. Len(t) : (s \o t)[Len(s) + i] = t[i]
OBVIOUS

\* The next page adds what follows its cursor, and its own cursor is behind that.
LEMMA WalkNext ==
    ASSUME RowsInv, StorageInv, WalkOK, WalkPage PROVE WalkOK'
<1>. DEFINE runs == file.runs
            S    == {r \in DOMAIN runs : /\ walk.before = None \/ Older(runs[r], r, walk.before)
                                         /\ Matches(runs[r], walk.statuses)}
            rows == ByCreation(runs, S)
            n    == Cardinality(S)
            m    == IF n < walk.limit THEN n ELSE walk.limit
            page == SubSeq(rows, 1, m)
            seen == walk.seen \o page
            before == IF n <= walk.limit THEN None
                      ELSE [createdAt |-> runs[Last(page)].createdAt, id |-> Last(page)]
<1>1. /\ db = "open" /\ call = None /\ walk # None /\ ~walk.over /\ file' = file
  BY DEF WalkPage
<1>2. Whole(file) /\ RowsWhole(file)
  BY <1>1, OpenWhole DEF RowsInv
<1>3. DOMAIN runs \subseteq Nat /\ IsFiniteSet(DOMAIN runs)
      /\ \A r \in DOMAIN runs : runs[r].createdAt \in Nat
  <2>1. DOMAIN runs \subseteq Runs /\ IsFiniteSet(DOMAIN runs)
    BY <1>2 DEF RowsWhole
  <2>2. ASSUME NEW r \in DOMAIN runs PROVE runs[r].createdAt \in Nat
    <3>1. /\ Aggregate(file, r) \in Aggregates
          /\ file.runs[r] = HeadRow(Aggregate(file, r).value, Aggregate(file, r).revision)
      BY <1>2, <2>2 DEF RowsWhole
    <3>. QED BY <3>1 DEF HeadRow, Aggregates, Values
  <2>. QED BY <2>1, <2>2, StorageConstants
<1>4. /\ S \subseteq DOMAIN runs /\ IsFiniteSet(S)
  BY <1>3, FS_Subset
<1>5. /\ n \in Nat /\ rows \in [1 .. n -> S]
      /\ \A r \in S : \E i \in 1 .. n : rows[i] = r
      /\ \A i, j \in 1 .. n : i < j => Before(runs, rows[i], rows[j])
  <2>. HIDE DEF S, runs
  <2>. QED BY <1>3, <1>4, RunsInOrder
<1>6. walk.limit \in Nat \ {0} /\ m \in 0 .. n /\ m \in Nat
  BY <1>1, <1>5, StorageConstants DEF WalkOK
<1>7. walk' = [walk EXCEPT !.seen = seen, !.before = before, !.over = before = None]
  <2>1. rows \in Seq(S) /\ Len(rows) = n
    <3>. HIDE DEF rows, S, n
    <3>. QED BY <1>5
  <2>2. ListRuns(walk.statuses, walk.before, walk.limit) = [runs |-> page, nextCursor |-> before]
    BY <2>1 DEF ListRuns
  <2>. HIDE DEF page, before, S
  <2>. QED BY <2>2 DEF WalkPage
<1>8. page \in Seq(S) /\ Len(page) = m /\ \A i \in 1 .. m : page[i] = rows[i] /\ rows[i] \in S
  <2>. HIDE DEF rows, S, n, m
  <2>1. /\ page = [i \in 1 .. m |-> rows[i]]
    BY <1>5, <1>6
  <2>2. \A i \in 1 .. m : i \in 1 .. n
    BY <1>5, <1>6
  <2>. QED BY <1>5, <1>6, <2>1, <2>2
<1>9. /\ walk.seen \in Seq(DOMAIN runs) /\ IsInjective(walk.seen)
      /\ walk.due \subseteq DOMAIN runs /\ \A r \in walk.due : Matches(runs[r], walk.statuses)
      /\ walk.before = None => walk.seen = << >>
      /\ walk.before # None =>
              /\ walk.before.createdAt \in Nat /\ walk.before.id \in Nat
              /\ \A r \in ToSet(walk.seen) : ~Older(runs[r], r, walk.before)
              /\ \A r \in walk.due \ ToSet(walk.seen) : Older(runs[r], r, walk.before)
  BY <1>1 DEF WalkOK
<1>10. walk.due \ ToSet(walk.seen) \subseteq S
  BY <1>9
<1>11. \A r \in ToSet(walk.seen) : r \notin S
  <2>1. CASE walk.before = None
    BY <1>9, <2>1 DEF ToSet
  <2>2. CASE walk.before # None
    BY <1>9, <2>2
  <2>. QED BY <2>1, <2>2
<1>12. \A i, j \in 1 .. n : rows[i] = rows[j] => i = j
  <2>. HIDE DEF rows, n
  <2>1. SUFFICES ASSUME NEW i \in 1 .. n, NEW j \in 1 .. n, i < j PROVE rows[i] # rows[j]
    BY <1>5
  <2>2. Before(runs, rows[i], rows[j]) /\ rows[i] \in S
    BY <1>5, <2>1
  <2>3. rows[i] \in Nat /\ runs[rows[i]].createdAt \in Nat
    BY <1>3, <1>4, <2>2
  <2>. QED BY <2>2, <2>3 DEF Before
<1>. HIDE DEF rows, S, n, m, page, runs
<1>13. /\ seen \in Seq(DOMAIN runs) /\ Len(seen) = Len(walk.seen) + m
       /\ Len(walk.seen) \in Nat
       /\ \A i \in 1 .. Len(walk.seen) : seen[i] = walk.seen[i]
       /\ \A i \in 1 .. m : seen[Len(walk.seen) + i] = page[i]
  <2>1. page \in Seq(DOMAIN runs)
    BY <1>4, <1>8
  <2>2. walk.seen \in Seq(DOMAIN runs) /\ Len(page) = m
    BY <1>8, <1>9
  <2>3. /\ seen \in Seq(DOMAIN runs) /\ Len(seen) = Len(walk.seen) + Len(page)
        /\ Len(walk.seen) \in Nat
        /\ \A i \in 1 .. Len(walk.seen) : seen[i] = walk.seen[i]
        /\ \A i \in 1 .. Len(page) : seen[Len(walk.seen) + i] = page[i]
    <3>. DEFINE s == walk.seen
                X == DOMAIN runs
    <3>1. s \in Seq(X) /\ page \in Seq(X)
      BY <2>1, <2>2
    <3>. HIDE DEF s, X
    <3>2. /\ s \o page \in Seq(X) /\ Len(s \o page) = Len(s) + Len(page)
          /\ Len(s) \in Nat
          /\ \A i \in 1 .. Len(s) : (s \o page)[i] = s[i]
          /\ \A i \in 1 .. Len(page) : (s \o page)[Len(s) + i] = page[i]
      BY ONLY <3>1, Joined
    <3>. QED BY <3>2 DEF s, X
  <2>. HIDE DEF seen
  <2>. QED BY <2>2, <2>3
<1>14. \A i \in 1 .. Len(walk.seen) : walk.seen[i] \in ToSet(walk.seen)
  BY <1>9 DEF ToSet
<1>15. \A r \in ToSet(seen) : r \in ToSet(walk.seen) \/ \E i \in 1 .. m : r = rows[i]
  <2>1. SUFFICES ASSUME NEW i \in 1 .. Len(seen)
                 PROVE  seen[i] \in ToSet(walk.seen) \/ \E k \in 1 .. m : seen[i] = rows[k]
    BY <1>13 DEF ToSet
  <2>2. CASE i <= Len(walk.seen)
    BY <1>13, <1>14, <2>2
  <2>3. CASE i > Len(walk.seen)
    <3>1. i - Len(walk.seen) \in 1 .. m /\ i = Len(walk.seen) + (i - Len(walk.seen))
      BY <1>6, <1>13, <2>3
    <3>. QED BY <1>8, <1>13, <3>1
  <2>. QED BY <1>13, <2>2, <2>3
<1>16. /\ \A r \in ToSet(walk.seen) : r \in ToSet(seen)
       /\ \A i \in 1 .. m : rows[i] \in ToSet(seen)
  <2>1. ASSUME NEW r \in ToSet(walk.seen) PROVE r \in ToSet(seen)
    <3>1. PICK i \in 1 .. Len(walk.seen) : r = walk.seen[i]
      BY <1>9 DEF ToSet
    <3>2. i \in 1 .. Len(seen) /\ seen[i] = r
      BY <1>6, <1>13, <3>1
    <3>3. DOMAIN seen = 1 .. Len(seen)
      BY <1>13
    <3>. HIDE DEF seen
    <3>. QED BY <3>2, <3>3 DEF ToSet
  <2>2. ASSUME NEW i \in 1 .. m PROVE rows[i] \in ToSet(seen)
    <3>1. Len(walk.seen) + i \in 1 .. Len(seen) /\ seen[Len(walk.seen) + i] = rows[i]
      BY <1>6, <1>8, <1>13
    <3>2. DOMAIN seen = 1 .. Len(seen)
      BY <1>13
    <3>. HIDE DEF seen
    <3>. QED BY <3>1, <3>2 DEF ToSet
  <2>. QED BY <2>1, <2>2
<1>17. IsInjective(seen)
  <2>1. SUFFICES ASSUME NEW i \in 1 .. Len(seen), NEW j \in 1 .. Len(seen), i < j
                 PROVE  seen[i] # seen[j]
    BY <1>13 DEF IsInjective
  <2>2. CASE j <= Len(walk.seen)
    <3>1. i \in 1 .. Len(walk.seen) /\ j \in 1 .. Len(walk.seen)
      BY <1>13, <2>1, <2>2
    <3>. QED BY <1>9, <1>13, <2>1, <3>1 DEF IsInjective
  <2>3. CASE j > Len(walk.seen)
    <3>. DEFINE k == j - Len(walk.seen)
    <3>1. k \in 1 .. m /\ j = Len(walk.seen) + k
      BY <1>6, <1>13, <2>3
    <3>2. seen[j] = rows[k] /\ rows[k] \in S
      BY <1>8, <1>13, <3>1
    <3>3. CASE i <= Len(walk.seen)
      BY <1>11, <1>13, <1>14, <3>2, <3>3
    <3>4. CASE i > Len(walk.seen)
      <4>. DEFINE h == i - Len(walk.seen)
      <4>1. h \in 1 .. m /\ i = Len(walk.seen) + h
        BY <1>6, <1>13, <3>4
      <4>2. seen[i] = rows[h]
        BY <1>8, <1>13, <4>1
      <4>3. h # k /\ h \in 1 .. n /\ k \in 1 .. n
        BY <1>5, <1>6, <1>13, <2>1, <3>1, <4>1
      <4>. HIDE DEF h, k
      <4>. QED BY <1>12, <3>2, <4>2, <4>3
    <3>. QED BY <1>13, <3>3, <3>4
  <2>. QED BY <1>13, <2>2, <2>3
<1>. HIDE DEF seen, before
<1>18. /\ walk'.statuses = walk.statuses /\ walk'.limit = walk.limit
       /\ walk'.before = before /\ walk'.seen = seen
       /\ walk'.due = walk.due /\ walk'.over = (before = None)
       /\ walk' = [statuses |-> walk.statuses, limit |-> walk.limit, before |-> before,
                   seen |-> seen, due |-> walk.due, over |-> before = None]
  BY <1>1, <1>7 DEF WalkOK
<1>19. CASE n <= walk.limit
  <2>1. before = None /\ m = n
    BY <1>5, <1>6, <1>19 DEF before, m
  <2>2. walk.due \subseteq ToSet(seen)
    BY <1>5, <1>10, <1>16, <2>1
  <2>. QED BY <1>1, <1>6, <1>9, <1>13, <1>17, <1>18, <2>1, <2>2 DEF WalkOK, runs
<1>20. CASE ~(n <= walk.limit)
  <2>. DEFINE q == rows[m]
  <2>1. m = walk.limit /\ m \in 1 .. m /\ m < n
    BY <1>5, <1>6, <1>20 DEF m
  <2>2. q \in S /\ Last(page) = q
    BY <1>8, <2>1 DEF Last
  <2>3. q \in Nat /\ runs[q].createdAt \in Nat
    BY <1>3, <1>4, <2>2
  <2>4. before = [createdAt |-> runs[q].createdAt, id |-> q]
    BY <1>20, <2>2 DEF before
  <2>5. before # None
    BY <2>3, <2>4, NoneIsNoCursor
  <2>6. before.createdAt = runs[q].createdAt /\ before.id = q
    BY <2>4
  <2>. HIDE DEF q
  <2>7. ASSUME NEW r \in ToSet(seen) PROVE ~Older(runs[r], r, before)
    <3>1. CASE r \in ToSet(walk.seen)
      <4>1. r \in Nat /\ runs[r].createdAt \in Nat
        BY <1>3, <1>9, <3>1 DEF ToSet
      <4>2. walk.before # None
        BY <1>9, <3>1 DEF ToSet
      <4>3. ~Older(runs[r], r, walk.before) /\ Older(runs[q], q, walk.before)
        BY <1>9, <2>2, <3>1, <4>2 DEF S
      <4>. QED BY <1>9, <2>3, <2>6, <4>1, <4>2, <4>3 DEF Older
    <3>2. CASE \E i \in 1 .. m : r = rows[i]
      <4>1. PICK i \in 1 .. m : r = rows[i]
        BY <3>2
      <4>2. i = m \/ i < m
        BY <1>6
      <4>3. r = q \/ Before(runs, r, q)
        BY <1>5, <1>6, <2>1, <4>1, <4>2 DEF q
      <4>4. r \in S
        BY <1>8, <4>1
      <4>5. r \in Nat /\ runs[r].createdAt \in Nat
        BY <1>3, <1>4, <4>4
      <4>. QED BY <2>3, <2>6, <4>3, <4>5 DEF Before, Older
    <3>. QED BY <1>15, <3>1, <3>2
  <2>8. ASSUME NEW r \in walk.due \ ToSet(seen) PROVE Older(runs[r], r, before)
    <3>1. r \in S
      BY <1>10, <1>16
    <3>2. PICK j \in 1 .. n : rows[j] = r
      BY <1>5, <3>1
    <3>3. j \notin 1 .. m
      BY <1>16, <3>2
    <3>4. m < j
      BY <1>5, <1>6, <3>3
    <3>5. Before(runs, q, r)
      BY <1>5, <1>6, <2>1, <3>2, <3>4 DEF q
    <3>6. r \in Nat /\ runs[r].createdAt \in Nat
      BY <1>3, <1>4, <3>1
    <3>. QED BY <2>3, <2>6, <3>5, <3>6 DEF Before, Older
  <2>9. before.createdAt \in Nat /\ before.id \in Nat
    BY <2>3, <2>6
  <2>. QED BY <1>1, <1>6, <1>9, <1>13, <1>17, <1>18, <2>5, <2>7, <2>8, <2>9 DEF WalkOK, runs
<1>. QED BY <1>19, <1>20

LEMMA WalkStep == WalkOK /\ RowsInv /\ StorageInv /\ [Next]_vars => WalkOK'
<1>. SUFFICES ASSUME WalkOK, RowsInv, StorageInv, [Next]_vars PROVE WalkOK'
  OBVIOUS
<1>1. CASE UNCHANGED <<file, walk>>
  BY <1>1 DEF WalkOK
<1>2. CASE Commit
  BY <1>2, WalkCommit
<1>3. CASE WalkPage
  BY <1>3, WalkNext
<1>4. CASE \E statuses \in {Statuses, {"queued"}}, limit \in PageLimits :
              WalkBegins(statuses, limit)
  BY <1>4, WalkFirst
<1>5. CASE ~UNCHANGED <<file, walk>>
  <2>1. ~UNCHANGED vars
    BY <1>5 DEF vars
  <2>2. ~(Open \/ Close \/ Rollback \/ Crash \/ BeginImmediate \/ Schema \/ UserVersion
            \/ WriteRun \/ ClearNodes \/ InsertNodes \/ AppendEvents)
    BY <1>5 DEF Open, Close, Rollback, RolledBack, Crash, BeginImmediate, Schema, UserVersion,
       WriteRun, ClearNodes, InsertNodes, AppendEvents, Step
  <2>3. ~\E c \in Callers :
            \/ \E r \in Runs : GetRun(c, r) \/ \E time \in Times : CreateRun(c, r, time)
            \/ SaveRun(c)
    BY <1>5 DEF GetRun, CreateRun, SaveRun, Write
  <2>. QED BY <1>2, <1>3, <1>4, <2>1, <2>2, <2>3 DEF Next
<1>. QED BY <1>1, <1>5

\* Reading page after page gives every run that matches all along, once, whatever is created
\* or changes its status between the pages, and however many runs share a createdAt.
THEOREM WalkCompleteEver == Spec => []WalkComplete
<1>1. Init => WalkOK
  BY DEF Init, WalkOK
<1>2. WalkOK => WalkComplete
  BY DEF WalkOK, WalkComplete
<1>. QED BY <1>1, <1>2, WalkStep, RowsHold, PTL DEF Spec
=============================================================================
