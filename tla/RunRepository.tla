--------------------------- MODULE RunRepository ---------------------------
(***************************************************************************)
(* What the WorkflowRunRepository port promises of its writes: createRun   *)
(* and saveRun take effect completely or not at all, one at a time, a      *)
(* creation only of a run that is absent and a save only of the revision   *)
(* it names.                                                               *)
(***************************************************************************)
EXTENDS Integers

CONSTANTS Runs, None

VARIABLES
    store,      \* per run None or its value and revision
    call        \* the write in progress, or None

vars == <<store, call>>

Allowed ==
    CASE call.kind = "create" -> store[call.run] = None
      [] call.kind = "save"   -> /\ store[call.run] # None
                                 /\ store[call.run].revision = call.revision

Init == store \in [Runs -> {None} \cup {store[r] : r \in Runs}] /\ call = None

Ask == call = None /\ call' # None /\ UNCHANGED store

Apply ==
    /\ call # None
    /\ Allowed
    /\ store' = [store EXCEPT ![call.run] = [value |-> call.value, revision |-> call.revision + 1]]
    /\ call' = None

\* A write is refused, or the repository or its host fails.
Refuse == call # None /\ call' = None /\ UNCHANGED store

Next == Ask \/ Apply \/ Refuse

Spec == Init /\ [][Next]_vars
=============================================================================
