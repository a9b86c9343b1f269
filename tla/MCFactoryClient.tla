-------------------------- MODULE MCFactoryClient --------------------------
(***************************************************************************)
(* Small instances of FactoryClient.                                       *)
(***************************************************************************)
EXTENDS FactoryClient

CONSTANTS p1, u1
=============================================================================
