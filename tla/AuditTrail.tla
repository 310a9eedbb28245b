----------------------------- MODULE AuditTrail -----------------------------
(* The chain of roots, with the Merkle trees of its transactions. *)
EXTENDS AuditChain, MerkleTree

CONSTANTS
    LeafHashes,     \* hashes of triples
    MaxLeaves       \* bound: triples of one transaction

ASSUME MaxLeavesAssumption == MaxLeaves \in Nat

ProofsExact == ProofsAreExact(LeafHashes, MaxLeaves)

\* Inclusion proofs against a recorded root are exact for every transaction the
\* bound allows: the proof of a triple leads to the transaction's root and that
\* of no other triple does, for odd and even numbers of triples and repeated
\* ones.
MerkleProofsExact == roots # {} => ProofsExact
=============================================================================
