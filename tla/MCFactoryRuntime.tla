-------------------------- MODULE MCFactoryRuntime --------------------------
(***************************************************************************)
(* Small instances of FactoryRuntime: one workflow, registered in one      *)
(* version or in two.  Runs and activations are interchangeable, except    *)
(* under fairness.                                                         *)
(***************************************************************************)
EXTENDS FactoryRuntime, TLC

CONSTANTS wf, v1, v2

MCWorkflowOf  == [g \in Registrations |-> wf]
MCOneVersion  == [g \in Registrations |-> v1]
MCTwoVersions == [g \in Registrations |->
                    IF g = CHOOSE h \in Registrations : TRUE THEN v1 ELSE v2]

MCRunsAndSlots == Permutations(Slots) \cup Permutations(Runs)
=============================================================================
