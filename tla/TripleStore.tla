----------------------------- MODULE TripleStore -----------------------------
(***************************************************************************)
(* The triples table (packages/server/src/triple_store/mod.rs) as its      *)
(* statements see it: append-only rows that are asserted under one tx_id   *)
(* and retracted at most once, with a retraction stamp that a trigger      *)
(* draws, row by row, from the sequence the tx_ids come from.              *)
(*                                                                         *)
(* A row is [ent, attr, val, tx, rtx, ttl].  rtx = 0 is retracted_tx_id    *)
(* NULL (and NOT retracted: the trigger sets both).  ttl says whether      *)
(* expires_at is set; the rows of an entity that have a deadline have the  *)
(* same one, because a create sets it for all rows and set_entity_ttl      *)
(* resets it for all.  val is abstracted to the position, in its request,  *)
(* of the operation that wrote the row.                                    *)
(***************************************************************************)
EXTENDS Naturals, FiniteSets

CONSTANTS
    Entities,       \* entity ids
    Attrs,          \* data attributes ("<type>/<key>")
    TypeAttr        \* ":db/type"

ASSUME AttrsAssumption == TypeAttr \notin Attrs

VARIABLES
    triples,        \* the committed rows
    seq             \* last value drawn from darshan_tx_seq

AllAttrs == Attrs \cup {TypeAttr}

Row == [ent : Entities, attr : AllAttrs, val : Nat,
        tx : Nat \ {0}, rtx : Nat, ttl : BOOLEAN]

TripleStoreInit ==
    /\ triples = {}
    /\ seq = 0

-----------------------------------------------------------------------------
(* Reads *)

Live(rows) == {r \in rows : r.rtx = 0}

\* get_entity / get_entity_in_tx: the rows of an entity WHERE NOT retracted.
get_entity(rows, e) == {r \in Live(rows) : r.ent = e}

\* get_entity_at: of the rows asserted by t and not retracted by t, one per
\* attribute, with the highest tx_id (DISTINCT ON ... ORDER BY tx_id DESC).  Of
\* rows tied at that tx_id the query returns any one, so this is the set of
\* answers it may give, each a set of <<attribute, value, tx_id>>.
get_entity_at(rows, e, t) ==
    LET seen == {r \in rows : r.ent = e /\ r.tx <= t /\ (r.rtx = 0 \/ r.rtx > t)}
        newest == {<<r.attr, r.val, r.tx>> : r \in
                      {r \in seen : \A q \in seen : q.attr = r.attr => q.tx <= r.tx}}
    IN  {A \in SUBSET newest : \A x \in newest :
            Cardinality({y \in A : y[1] = x[1]}) = 1}

-----------------------------------------------------------------------------
(* Writes, as sets of rows *)

\* What the trigger does to a row that UPDATE triples SET retracted = true has
\* locked: it gives it a stamp of its own, drawn there and then.
Stamp(r, n) == [r EXCEPT !.rtx = n]

\* INSERT ... SELECT FROM UNNEST: one row per input, all under one tx_id.
\* An input is <<entity, attribute, value>>.
Inserted(inputs, tx, ttl) ==
    {[ent |-> i[1], attr |-> i[2], val |-> i[3],
      tx |-> tx, rtx |-> 0, ttl |-> ttl] : i \in inputs}

\* UPDATE triples SET expires_at: a negative TTL removes the deadline.
SetTtl(r, ttl) == [r EXCEPT !.ttl = ttl]

WithTtl(rows, ttl) == {SetTtl(r, ttl) : r \in rows}
=============================================================================
