------------------------------ MODULE MerkleTree -----------------------------
(***************************************************************************)
(* The Merkle trees of merkle.rs and the verifier of zap1-verify.  A hash  *)
(* is the term that was hashed: BLAKE2b without collisions, each           *)
(* personalization a tag.                                                  *)
(***************************************************************************)
EXTENDS Integers, Sequences, SequencesExt

HashNode(left, right) == <<"node", left, right>>

CommitRoot(n, raw) == <<"root", n, raw>>

ZeroHash == <<"zero">>

-----------------------------------------------------------------------------
(* Trees, level by level: "bound" trees, whose roots commit to the number  *)
(* of leaves, and "legacy" trees.                                          *)

\* Mutant: a last node without a partner is dropped.
PairUpDrop(shape, level) ==
  IF Len(level) = 1 THEN level
  ELSE [k \in 1..Len(level) \div 2 |-> HashNode(level[2*k - 1], level[2*k])]
\* The level above: a last node without a partner is carried up, in legacy
\* trees it is paired with itself.  A root stays.
PairUp(shape, level) ==
  IF Len(level) <= 1 THEN level
  ELSE [k \in 1..(Len(level) + 1) \div 2 |->
          IF 2*k <= Len(level) THEN HashNode(level[2*k - 1], level[2*k])
          ELSE IF shape = "legacy" THEN HashNode(level[2*k - 1], level[2*k - 1])
          ELSE level[2*k - 1]]

\* The levels above some leaves; n leaves have their root after n - 1 at most.
Levels(shape, leaves) ==
  LET level[n \in 0..Len(leaves) - 1] ==
        IF n = 0 THEN leaves ELSE PairUp(shape, level[n - 1])
  IN level

Top(shape, leaves) ==
  IF leaves = <<>> THEN ZeroHash ELSE Levels(shape, leaves)[Len(leaves) - 1][1]

ComputeRawTreeRoot(leaves) == Top("bound", leaves)
ComputeLegacyRoot(leaves) == Top("legacy", leaves)
ComputeRoot(leaves) ==
  IF leaves = <<>> THEN ZeroHash
  ELSE CommitRoot(Len(leaves), ComputeRawTreeRoot(leaves))

-----------------------------------------------------------------------------
(* The definition a tree is meant to meet: split at the largest power of two. *)

Power(d) ==
  LET power[i \in 0..d] == IF i = 0 THEN 1 ELSE 2 * power[i - 1] IN power[d]

\* The leaves on the left of a tree of n leaves: the largest power of two.
LeftSize(n) == Max({Power(d) : d \in 0..n} \cap 1..n - 1)

\* The trees over the leaves of a list: of so many leaves, from that one on.
SplitTrees(leaves) ==
  LET tree[size \in 1..Len(leaves)] ==
        [first \in 1..Len(leaves) - size + 1 |->
           IF size = 1 THEN leaves[first]
           ELSE HashNode(tree[LeftSize(size)][first],
                         tree[size - LeftSize(size)][first + LeftSize(size)])]
  IN tree
SplitTree(leaves) == SplitTrees(leaves)[Len(leaves)][1]

-----------------------------------------------------------------------------
(* Inclusion proofs.  Indexes count from 0, as in the code. *)

Step(hash, position) == [hash |-> hash, position |-> position]

\* The step next to node k of a level; none for a carried node.
Sibling(shape, level, k) ==
  IF k % 2 = 1 THEN <<Step(level[k], "left")>>
  ELSE IF k + 1 < Len(level) THEN <<Step(level[k + 2], "right")>>
  ELSE IF shape = "legacy" THEN <<Step(level[k + 1], "right")>>
  ELSE <<>>

\* One turn of the loop: from a node of a level to the one above it.
Turn(shape, at) ==
  IF Len(at.level) <= 1 THEN at
  ELSE [level |-> PairUp(shape, at.level),
        index |-> at.index \div 2,
        proof |-> at.proof \o Sibling(shape, at.level, at.index)]

\* The way up from leaf index.
Climb(shape, leaves, index) ==
  LET at[n \in 0..Len(leaves) - 1] ==
        IF n = 0 THEN [level |-> leaves, index |-> index, proof |-> <<>>]
        ELSE Turn(shape, at[n - 1])
  IN at

Path(shape, leaves, index) ==
  IF index >= Len(leaves) THEN <<>>
  ELSE Climb(shape, leaves, index)[Len(leaves) - 1].proof

GenerateProof(leaves, index) == Path("bound", leaves, index)
GenerateLegacyProof(leaves, index) == Path("legacy", leaves, index)

Combine(hash, step) ==
  IF step.position = "right" THEN HashNode(hash, step.hash)
  ELSE HashNode(step.hash, hash)

Walk(leaf, proof) ==
  LET current[n \in 0..Len(proof)] ==
        IF n = 0 THEN leaf ELSE Combine(current[n - 1], proof[n])
  IN current
WalkRawProof(leaf, proof) == Walk(leaf, proof)[Len(proof)]

VerifyLegacyProof(leaf, proof, root) == WalkRawProof(leaf, proof) = root

VerifyProof(leaf, proof, leafCount, root) ==
  leafCount # 0 /\ CommitRoot(leafCount, WalkRawProof(leaf, proof)) = root
=============================================================================
