----------------------------- MODULE MCPresence -----------------------------
(* Presence with interchangeable accounts and interchangeable pages. *)
EXTENDS Presence, TLC

Interchangeable == Permutations(Users) \cup Permutations(Clients)

=============================================================================
