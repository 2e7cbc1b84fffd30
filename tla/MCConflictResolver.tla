-------------------------- MODULE MCConflictResolver --------------------------
(***************************************************************************)
(* Two actors, leases of two seconds, a history of two conflicts.          *)
(***************************************************************************)
EXTENDS ConflictResolver, TLC

Symmetry == Permutations(Actor)
=============================================================================
