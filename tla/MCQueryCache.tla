------------------------------ MODULE MCQueryCache ------------------------------
(***************************************************************************)
(* QueryHandlers for TLC: handlers and the queries of a type are           *)
(* interchangeable in the invariants.                                      *)
(***************************************************************************)
EXTENDS QueryHandlers, TLC

Symmetry == Permutations(Readers) \cup Permutations(Writers) \cup Permutations(Queries)
=============================================================================
