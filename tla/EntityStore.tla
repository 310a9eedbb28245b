----------------------------- MODULE EntityStore -----------------------------
(***************************************************************************)
(* What the mutation API promises: a map from entities to objects, changed *)
(* by whole requests, one at a time, the operations of a request in order, *)
(* all or none.  An object is a map from its attributes to the operation   *)
(* that last set them; the empty map is an absent entity.                  *)
(***************************************************************************)
EXTENDS Naturals, Sequences

CONSTANTS
    Entities,
    Attrs,
    TypeAttr,
    Batches,        \* requests: sequences of operations
    Versions        \* what tells one request's values from another's

VARIABLE store

Absent == [a \in {} |-> 0]

Init == store = [e \in Entities |-> Absent]

\* insert needs an absent entity, update and delete a present one.
Possible(s, o) ==
    IF s[o.ent] = Absent THEN o.op \in {"insert", "upsert"} ELSE o.op # "insert"

Sets(s, o) ==
    IF s[o.ent] = Absent THEN o.attrs \cup {TypeAttr} ELSE o.attrs

\* The object after the operation; v marks the values it sets.
After(s, o, v) ==
    [s EXCEPT ![o.ent] =
        IF o.op = "delete" THEN Absent
        ELSE [a \in DOMAIN s[o.ent] \cup Sets(s, o) |->
                IF a \in Sets(s, o) THEN v ELSE s[o.ent][a]]]

\* The states a request goes through, operation by operation.
States(ops, v) ==
    LET f[n \in 0 .. Len(ops)] ==
            IF n = 0 THEN store ELSE After(f[n - 1], ops[n], <<v, n>>)
    IN  f

Apply(ops, v) ==
    LET s == States(ops, v) IN
    /\ \A n \in 1 .. Len(ops) : Possible(s[n - 1], ops[n])
    /\ store' = s[Len(ops)]

Next == \E ops \in Batches, v \in Versions : Apply(ops, v)

Spec == Init /\ [][Next]_store
=============================================================================
