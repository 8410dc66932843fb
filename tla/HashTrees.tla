------------------------------ MODULE HashTrees ------------------------------
(* The batch Merkle tree and the Merkle Mountain Range of aeon-crypto, over   *)
(* symbolic hashes: a hash is the term it was computed from, so two hashes    *)
(* are equal exactly when their preimages are (SHA-512 without collisions,    *)
(* and no payload is itself the concatenation of two hashes).                 *)
(* Only TLC uses this module: a tree is built by recursion.                   *)
EXTENDS Integers, Sequences, SequencesExt, FiniteSets, TLC

\* sha512 of an event payload.
Sha512(d) == <<"leaf", d>>

\* sha512_pair: the hash of a node is that of its two children, in order.
Sha512Pair(l, r) == <<"pair", l, r>>

-----------------------------------------------------------------------------
(* MerkleTree                                                                 *)

\* Duplicate the last element if the count is odd; a level of one is the root.
Padded(level) ==
    IF Len(level) > 1 /\ Len(level) % 2 = 1
    THEN Append(level, Last(level))
    ELSE level

\* The level above: one node per pair of chunks_exact(2).
Above(level) ==
    [i \in 1 .. Len(level) \div 2 |-> Sha512Pair(level[2 * i - 1], level[2 * i])]

RECURSIVE FromLeaves(_)
\* from_leaves: the levels, leaves first and root last.
FromLeaves(leaves) ==
    IF Len(leaves) = 1
    THEN <<leaves>>
    ELSE <<Padded(leaves)>> \o FromLeaves(Above(Padded(leaves)))

\* from_data: every item is hashed into a leaf.
FromData(items) == FromLeaves([i \in DOMAIN items |-> Sha512(items[i])])

Root(levels) == Last(levels)[1]

\* The index (from 0) of the sibling of idx in its level.
Sibling(idx) == IF idx % 2 = 0 THEN idx + 1 ELSE idx - 1

ProofStep(level, idx) ==
    [hash |-> level[Sibling(idx) + 1], side |-> IF idx % 2 = 0 THEN "Right" ELSE "Left"]

\* proof answers None for an index that is not one of the first level's.
HasProof(levels, index) == index < Len(levels[1])

\* proof: the siblings on the way up; a level that has no sibling adds none.
Proof(levels, index) ==
    LET Idx(k) == index \div 2 ^ (k - 1)
        Has(k) == Sibling(Idx(k)) < Len(levels[k])
        ks     == SelectSeq([k \in 1 .. Len(levels) - 1 |-> k], Has)
    IN  [leaf_hash |-> levels[1][index + 1],
         path      |-> [j \in DOMAIN ks |-> ProofStep(levels[ks[j]], Idx(ks[j]))],
         root      |-> Root(levels)]

\* MerkleProof::verify: recompute from the leaf to the root.
Verify(proof) ==
    LET Up(current, step) == IF step.side = "Left"
                             THEN Sha512Pair(step.hash, current)
                             ELSE Sha512Pair(current, step.hash)
    IN  FoldLeft(Up, proof.leaf_hash, proof.path) = proof.root

-----------------------------------------------------------------------------
(* MerkleMountainRange: the nodes stored flat, and the number of leaves       *)

ZeroHash == <<"zero">>

EmptyRange == [nodes |-> << >>, leaf_count |-> 0]

\* The number of trailing zeros of n > 0, and of its ones.
TrailingZeros(n) == CHOOSE k \in 0 .. n : n % 2 ^ k = 0 /\ n % 2 ^ (k + 1) # 0

RECURSIVE CountOnes(_)
CountOnes(n) == IF n = 0 THEN 0 ELSE (n % 2) + CountOnes(n \div 2)

RECURSIVE Merge(_, _, _, _)
\* The carries of one append: the node at right and the root of the tree of
\* the same height before it (positions from 0) get a parent.
Merge(nodes, right, h, merges) ==
    IF h = merges
    THEN nodes
    ELSE LET left   == right - (2 ^ (h + 1) - 1)
             parent == Sha512Pair(nodes[left + 1], nodes[right + 1])
         IN  Merge(Append(nodes, parent), Len(nodes), h + 1, merges)

\* append
RangeAppend(mmr, leaf) ==
    [nodes      |-> Merge(Append(mmr.nodes, leaf), Len(mmr.nodes), 0,
                          TrailingZeros(mmr.leaf_count + 1)),
     leaf_count |-> mmr.leaf_count + 1]

RECURSIVE PeaksFrom(_, _, _)
\* The peaks of the trees of height at most h, the first tree at offset.
PeaksFrom(remaining, offset, h) ==
    IF h < 0
    THEN << >>
    ELSE IF remaining >= 2 ^ h
         THEN <<offset + 2 * 2 ^ h - 2>>
              \o PeaksFrom(remaining - 2 ^ h, offset + 2 * 2 ^ h - 1, h - 1)
         ELSE PeaksFrom(remaining, offset, h - 1)

\* Mutant of Peaks: the highest tree is searched one height too low.
PeaksLow(mmr) ==
    IF mmr.leaf_count = 0
    THEN << >>
    ELSE PeaksFrom(mmr.leaf_count, 0,
                   (CHOOSE k \in 0 .. mmr.leaf_count :
                        2 ^ k <= mmr.leaf_count /\ mmr.leaf_count < 2 ^ (k + 1)) - 1)

\* peaks: positions from 0, one for each set bit of leaf_count, from the highest.
Peaks(mmr) ==
    IF mmr.leaf_count = 0
    THEN << >>
    ELSE PeaksFrom(mmr.leaf_count, 0,
                   CHOOSE k \in 0 .. mmr.leaf_count :
                        2 ^ k <= mmr.leaf_count /\ mmr.leaf_count < 2 ^ (k + 1))

\* root: the peaks bagged from right to left.
RangeRoot(mmr) ==
    LET peaks == Peaks(mmr)
        Bag(p, hash) == Sha512Pair(mmr.nodes[p + 1], hash)
    IN  IF peaks = << >>
        THEN ZeroHash
        ELSE FoldRight(Bag, Front(peaks), mmr.nodes[Last(peaks) + 1])

-----------------------------------------------------------------------------
(* What the trees should compute, by recursion on the leaves                  *)

RECURSIVE Filled(_, _)
\* The payloads under a root: with nodes of w payloads each, an odd number of
\* nodes above one repeats the last node.
Filled(items, w) ==
    IF Len(items) <= w THEN items
    ELSE IF (Len(items) \div w) % 2 = 0 THEN Filled(items, 2 * w)
    ELSE Filled(items \o SubSeq(items, Len(items) - w + 1, Len(items)), 2 * w)

RECURSIVE Bagged(_)
\* The hash of leaves as a range: the largest perfect tree that fits, paired
\* with the hash of the rest.  A perfect tree is a pair of its halves.
Bagged(leaves) ==
    IF Len(leaves) = 0 THEN ZeroHash
    ELSE IF Len(leaves) = 1 THEN leaves[1]
    ELSE LET big == CHOOSE n \in {2 ^ k : k \in 0 .. 30} :
                        n < Len(leaves) /\ Len(leaves) <= 2 * n
         IN  Sha512Pair(Bagged(SubSeq(leaves, 1, big)),
                        Bagged(SubSeq(leaves, big + 1, Len(leaves))))
=============================================================================
