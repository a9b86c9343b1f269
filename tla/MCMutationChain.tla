-------------------------- MODULE MCMutationChain --------------------------
(* An instance of MutationChain for TLC: cancel and approve exclude one another, *)
(* a note is refused by neither.                                                 *)
EXTENDS MutationChain

CONSTANTS cancel, approve, start, note

MCUpdates == {cancel, approve, start, note}
MCRejects == {<<cancel, approve>>, <<approve, cancel>>, <<start, cancel>>, <<start, approve>>}
=============================================================================
