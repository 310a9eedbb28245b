----------------------------- MODULE MerkleTree -----------------------------
(***************************************************************************)
(* The Merkle tree of one transaction's triples (audit/mod.rs): the root,  *)
(* built level by level with the last hash of an odd level duplicated, the *)
(* inclusion proof of a triple, and its verification.  Hashes are terms:   *)
(* hash_pair is a pair, so two hashes are equal only if what was hashed is.*)
(***************************************************************************)
EXTENDS Naturals, Sequences

hash_pair(left, right) == <<left, right>>

\* An odd level is padded with its last hash (the Bitcoin convention).
Padded(level) ==
    level \o (IF Len(level) % 2 = 0 THEN <<>> ELSE <<level[Len(level)]>>)

NextLevel(level) ==
    LET padded == Padded(level) IN
    [i \in 1 .. Len(padded) \div 2 |-> hash_pair(padded[2 * i - 1], padded[2 * i])]

\* An iteration of the loop, which stops at one hash.
Above(level) == IF Len(level) = 1 THEN level ELSE NextLevel(level)

\* The levels over a non-empty sequence of leaf hashes.  There are never more
\* than leaves.
Levels(leaves) ==
    LET level[n \in 0 .. Len(leaves)] == IF n = 0 THEN leaves ELSE Above(level[n - 1])
    IN  level

\* The number of iterations.
Height(leaves) ==
    CHOOSE h \in 0 .. Len(leaves) :
        /\ Len(Levels(leaves)[h]) = 1
        /\ \A n \in 0 .. (h - 1) : Len(Levels(leaves)[n]) # 1

merkle_root(leaves) == Levels(leaves)[Height(leaves)][1]

\* Where the path from leaf number index passes the levels up to height h.
Indices(index, h) ==
    LET at[n \in 0 .. h] == IF n = 0 THEN index ELSE (at[n - 1] + 1) \div 2
    IN  at

Sibling(index, level) ==
    IF index % 2 = 1
    THEN [hash |-> Padded(level)[index + 1], position |-> "right"]
    ELSE [hash |-> Padded(level)[index - 1], position |-> "left"]

\* The siblings from leaf number index up to the root.
ProofPath(index, leaves) ==
    LET h == Height(leaves)
        at == Indices(index, h)
        level == Levels(leaves)
    IN  [n \in 1 .. h |-> Sibling(at[n - 1], level[n - 1])]

\* The first leaf that carries the target's hash.
LeafIndex(target, leaves) ==
    CHOOSE i \in DOMAIN leaves :
        leaves[i] = target /\ \A j \in DOMAIN leaves : leaves[j] = target => i <= j

generate_proof(target, leaves) == ProofPath(LeafIndex(target, leaves), leaves)

\* Mutant: the sibling goes to the wrong side.
CombineSwapped(current, node) ==
    IF node.position = "right" THEN hash_pair(node.hash, current)
    ELSE hash_pair(current, node.hash)

Combine(current, node) ==
    IF node.position = "left" THEN hash_pair(node.hash, current)
    ELSE hash_pair(current, node.hash)

\* The hashes that a leaf and a path lead to.
Folded(leaf, path) ==
    LET at[n \in 0 .. Len(path)] == IF n = 0 THEN leaf ELSE Combine(at[n - 1], path[n])
    IN  at

verify_proof(leaf, path, root) == Folded(leaf, path)[Len(path)] = root

-----------------------------------------------------------------------------

\* For every transaction of up to n triples over the given leaf hashes, equal
\* ones included: the proof of a leaf verifies against the root, and with that
\* proof no other leaf hash does.
ProofsAreExact(Leaves, n) ==
    \A len \in 1 .. n : \A leaves \in [1 .. len -> Leaves] :
        \A target \in {leaves[i] : i \in DOMAIN leaves} :
            \A leaf \in Leaves :
                verify_proof(leaf, generate_proof(target, leaves), merkle_root(leaves))
                    <=> leaf = target

=============================================================================
