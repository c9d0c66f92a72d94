-------------------------- MODULE MCRuntimeMigration --------------------------
(***************************************************************************)
(* Instances of RuntimeMigration for TLC.                                  *)
(***************************************************************************)
EXTENDS RuntimeMigration, TLC

Symmetry == Permutations(Services)
=============================================================================
