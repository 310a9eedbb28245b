--------------------------- MODULE MCAuthSessions ---------------------------
(* Small instances of AuthSessions. *)
EXTENDS AuthSessions, TLC

Symmetry == Permutations(Clients) \cup Permutations(Devices)
=============================================================================
