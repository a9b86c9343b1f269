--------------------------- MODULE MCWorkflowCatalog ---------------------------
(* A model of WorkflowCatalog: every input of up to three lines. *)
EXTENDS WorkflowCatalog

MCInputs ==
    [valid : BOOLEAN, prerelease : BOOLEAN, zeroMajor : BOOLEAN,
     lines : UNION {[1 .. n -> NoteLines] : n \in 0 .. 3}]
=============================================================================
