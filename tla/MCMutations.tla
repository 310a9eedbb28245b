---------------------------- MODULE MCMutations ----------------------------
(* A small instance of Mutations and of the abstract store it implements. *)
EXTENDS MutationsRefinement, TLC

Symmetry == Permutations(Entities) \cup Permutations(Clients)
=============================================================================
