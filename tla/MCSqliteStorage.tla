-------------------------- MODULE MCSqliteStorage --------------------------
(***************************************************************************)
(* Small instances of SqliteStorage: the database is new, of schema        *)
(* version 1 or 2 with runs created at the same time or not, or one that   *)
(* the repository does not support.                                        *)
(***************************************************************************)
EXTENDS SqliteStorage

CONSTANTS c1, c2

MCFile(version, times) ==
    [tables |-> TRUE, column |-> version = 2, version |-> version,
     runs   |-> [r \in DOMAIN times |-> [status |-> "queued", createdAt |-> times[r],
                                         revision |-> 1]],
     nodes  |-> [run : DOMAIN times, node : Nodes],
     facts  |-> {},
     events |-> [run : DOMAIN times, sequence : {1}, text : {None}]]

MCFiles ==
    {NoTables, [NoTables EXCEPT !.version = 1], [NoTables EXCEPT !.tables = TRUE]}
    \cup {MCFile(1, <<1, 1>>), MCFile(2, <<2, 1>>)}

MCCallers == Permutations(Callers)
=============================================================================
