--------------------------- MODULE MutationChain ---------------------------
(***************************************************************************)
(* LightcodeFactoryRuntime.update for one run: each call chains itself     *)
(* behind the promise it finds in the mutations map, reads the run,        *)
(* applies its change, saves with the revision it read, and leaves the map *)
(* if it is still the last.  The repository reads and writes at any moment *)
(* between a call and its answer, and may fail one.                        *)
(*                                                                         *)
(* A definition whose name ends in Mutant is the definition after it with  *)
(* a plausible mistake in it; no specification uses it.                    *)
(***************************************************************************)
EXTENDS Sequences, Naturals, FiniteSets

CONSTANTS
    Updates,    \* calls of update() for the run
    Rejects,    \* <<u, v>>: the change of u throws once v has been applied
    None

ASSUME ChainConstants == None \notin Updates

VARIABLES
    stored,     \* the repository: the updates applied to the run, its revision
    tail,       \* mutations.get(id): the task of the last update, or None
    previous,   \* per update, the promise it found in the map
    phase,      \* per update, where its task is
    seen,       \* per update, what its getRun returned
    cleaned,    \* updates whose finally callback has run
    calls       \* history: the order of the calls

memory == <<tail, previous, phase, seen, cleaned>>
vars == <<stored, memory, calls>>

Settled == {"saved", "refused", "conflict", "failed", "lost"}
settled(u) == phase[u] \in Settled
Refuses(u, log) == \E i \in DOMAIN log : <<u, log[i]>> \in Rejects

Init ==
    /\ stored = [log |-> << >>, revision |-> 1]
    /\ tail = None
    /\ previous = [u \in Updates |-> None]
    /\ phase = [u \in Updates |-> "new"]
    /\ seen = [u \in Updates |-> stored]
    /\ cleaned = {}
    /\ calls = << >>

\* An update forgets to enter the map.
CallMutant(u) ==
    /\ phase[u] = "new"
    /\ previous' = [previous EXCEPT ![u] = tail]
    /\ UNCHANGED tail
    /\ phase' = [phase EXCEPT ![u] = "waiting"]
    /\ calls' = Append(calls, u)
    /\ UNCHANGED <<stored, seen, cleaned>>

\* update(): up to its return.
Call(u) ==
    /\ phase[u] = "new"
    /\ previous' = [previous EXCEPT ![u] = tail]
    /\ tail' = u
    /\ phase' = [phase EXCEPT ![u] = "waiting"]
    /\ calls' = Append(calls, u)
    /\ UNCHANGED <<stored, seen, cleaned>>

\* A predecessor that rejects holds the chain.
MayBeginMutant(u) == previous[u] # None => phase[previous[u]] = "saved"

\* previous.catch(...): however the predecessor settled.
MayBegin(u) == previous[u] # None => settled(previous[u])

Begin(u) ==
    /\ phase[u] = "waiting"
    /\ MayBegin(u)
    /\ phase' = [phase EXCEPT ![u] = "reading"]
    /\ UNCHANGED <<stored, tail, previous, seen, cleaned, calls>>

\* getRun reads.
Read(u) ==
    /\ phase[u] = "reading"
    /\ phase' = [phase EXCEPT ![u] = "read"]
    /\ seen' = [seen EXCEPT ![u] = stored]
    /\ UNCHANGED <<stored, tail, previous, cleaned, calls>>

\* The change is computed from what was read: it throws, or saveRun is called.
Change(u) ==
    /\ phase[u] = "read"
    /\ phase' = [phase EXCEPT ![u] = IF Refuses(u, seen[u].log) THEN "refused" ELSE "saving"]
    /\ UNCHANGED <<stored, tail, previous, seen, cleaned, calls>>

\* saveRun: UPDATE ... WHERE revision = expectedRevision.
Save(u) ==
    /\ phase[u] = "saving"
    /\ IF stored.revision = seen[u].revision
       THEN /\ stored' = [log |-> Append(seen[u].log, u), revision |-> seen[u].revision + 1]
            /\ phase' = [phase EXCEPT ![u] = "saved"]
       ELSE /\ phase' = [phase EXCEPT ![u] = "conflict"]
            /\ UNCHANGED stored
    /\ UNCHANGED <<tail, previous, seen, cleaned, calls>>

\* The transaction of saveRun is not rolled back.
RepositoryFailsMutant(u) ==
    /\ phase[u] \in {"reading", "saving"}
    /\ stored' = [stored EXCEPT !.log = IF phase[u] = "saving" THEN Append(@, u) ELSE @]
    /\ phase' = [phase EXCEPT ![u] = "failed"]
    /\ UNCHANGED <<tail, previous, seen, cleaned, calls>>

\* getRun or saveRun rejects; a transaction that fails is rolled back.
RepositoryFails(u) ==
    /\ phase[u] \in {"reading", "saving"}
    /\ phase' = [phase EXCEPT ![u] = "failed"]
    /\ UNCHANGED <<stored, tail, previous, seen, cleaned, calls>>

\* The finally callback deletes whatever the map holds.
LeaveMutant(u) == None

\* The finally callback: the last task leaves the map.
Leave(u) == IF tail = u THEN None ELSE tail

Clean(u) ==
    /\ settled(u) /\ phase[u] # "lost" /\ u \notin cleaned
    /\ cleaned' = cleaned \cup {u}
    /\ tail' = Leave(u)
    /\ UNCHANGED <<stored, previous, phase, seen, calls>>

\* The process dies: the map and the tasks are gone.
Crash ==
    /\ tail' = None
    /\ phase' = [u \in Updates |-> IF phase[u] \in Settled \cup {"new"} THEN phase[u] ELSE "lost"]
    /\ cleaned' = {u \in Updates : phase'[u] \in Settled}
    /\ UNCHANGED <<stored, previous, seen, calls>>

Step(u) == Begin(u) \/ Read(u) \/ Change(u) \/ Save(u) \/ Clean(u)
Next == Crash \/ \E u \in Updates : Call(u) \/ Step(u) \/ RepositoryFails(u)

Spec == Init /\ [][Next]_vars

\* The event loop runs what is ready and the repository answers.
FairSpec == Spec /\ \A u \in Updates : WF_vars(Step(u))

-----------------------------------------------------------------------------
(* Properties *)

Stores == [log : Seq(Updates), revision : Nat]

\* Every variable keeps its shape.
TypeOK ==
    /\ stored \in Stores
    /\ tail \in Updates \cup {None}
    /\ previous \in [Updates -> Updates \cup {None}]
    /\ phase \in [Updates -> Settled \cup {"new", "waiting", "reading", "read", "saving"}]
    /\ seen \in [Updates -> Stores]
    /\ cleaned \in SUBSET Updates
    /\ calls \in Seq(Updates)

\* The revision check of saveRun never fails within one process: no change is ever
\* computed from a run that has moved on.
NoConflict == \A u \in Updates : phase[u] # "conflict"

\* As long as an update of this process is not settled the map holds the last one
\* called, so that awaiting mutations.values() awaits them all (the stop effect does);
\* and once their callbacks have run, an idle run costs the map nothing.
MapHoldsLast ==
    /\ (\E u \in Updates : phase[u] # "new" /\ ~settled(u)) => tail = calls[Len(calls)]
    /\ (\A u \in Updates : phase[u] \in {"new", "lost"} \/ u \in cleaned) => tail = None

\* Each update settles, whatever became of its predecessors.
UpdateSettles == \A u \in Updates : phase[u] = "waiting" ~> settled(u)

\* update() keeps its promise.
Reply == [u \in Updates |-> IF settled(u) THEN phase[u] ELSE "none"]
Promise == INSTANCE AtomicUpdates WITH value <- stored.log, reply <- Reply
Atomic == Promise!Spec
=============================================================================
