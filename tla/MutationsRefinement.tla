------------------------- MODULE MutationsRefinement -------------------------
(* The abstract store that the write paths implement: the mapping. *)
EXTENDS Mutations

CONSTANT TxIds      \* the tx_ids the abstract store may mark values with

\* The object that the live rows of an entity make up.
ObjectOf(live) ==
    [a \in {r.attr : r \in live} |->
        LET r == CHOOSE r \in live : r.attr = a IN <<r.tx, r.val>>]

objects == [e \in Entities |-> ObjectOf(get_entity(triples, e))]

Abstract == INSTANCE EntityStore WITH
    store <- objects,
    Batches <- UNION {[1 .. n -> Op] : n \in 1 .. MaxOps},
    Versions <- TxIds

\* The requests of the HTTP API that run in a transaction are atomic and
\* serializable: every change of the live rows is one request, applied
\* operation by operation to the store as it is at that moment, in spite of
\* the tx_ids being drawn, and the entities being read, before other requests
\* commit.
ImplementsEntityStore == Abstract!Spec
=============================================================================
