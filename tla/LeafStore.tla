------------------------------- MODULE LeafStore -----------------------------
(***************************************************************************)
(* The tables merkle_leaves and merkle_roots of db.rs: leaves are appended *)
(* with their root, roots get the anchor that publishes them, and any leaf *)
(* is served with a proof under the root that select_covering_root picks.  *)
(* The store may come from a release that wrote legacy roots.              *)
(***************************************************************************)
EXTENDS MerkleTree, FiniteSets, FiniteSetsExt

CONSTANTS
  Leaves,       \* leaf hashes
  LegacyMax,    \* LEGACY_ROOT_MAX_ANCHOR_HEIGHT
  MaxHeight,    \* bound: block heights, those above LegacyMax are recent
  MaxInserts,   \* bound: inserts, those that find the leaf stored included
  Imported      \* leaves that an older release inserted, in their order

ASSUME StoreAssumption ==
  /\ LegacyMax \in Nat /\ MaxHeight \in Nat /\ LegacyMax < MaxHeight
  /\ MaxInserts \in Nat
  /\ Imported \in Seq(Leaves)
  /\ \A j, k \in DOMAIN Imported : Imported[j] = Imported[k] => j = k

VARIABLES
  leaves,   \* merkle_leaves.leaf_hash in the order of their ids
  ids,      \* merkle_leaves.id
  lastId,   \* sqlite_sequence of merkle_leaves
  roots,    \* merkle_roots in the order of their ids, anchor height 0 for NULL
  upgraded, \* history: the rows of merkle_roots an older release wrote
  inserts   \* history: INSERT OR IGNORE statements so far

vars == <<leaves, ids, lastId, roots, upgraded, inserts>>

Prefix(n) == SubSeq(leaves, 1, n)

\* The rows at some positions of a table, in their order.
RowsAt(table, positions) ==
  LET upTo[n \in 0..Len(table)] ==
        IF n = 0 THEN <<>>
        ELSE IF n \in positions THEN Append(upTo[n - 1], table[n])
        ELSE upTo[n - 1]
  IN upTo[Len(table)]

\* A row of merkle_roots.
Root(hash, count) ==
  [hash |-> hash, count |-> count, anchored |-> FALSE, height |-> 0]

Index(leaf) == CHOOSE k \in 1..Len(leaves) : leaves[k] = leaf

-----------------------------------------------------------------------------
(* Reading roots. *)

\* root_by_hash_and_count, then latest_root with its count clamped: the row of
\* the canonical root of the leaves in list, if there is one.
HasCanonical(list, rows) ==
  \/ \E k \in DOMAIN rows :
       rows[k].hash = ComputeRoot(list) /\ rows[k].count = Len(list)
  \/ /\ rows # <<>>
     /\ Last(rows).hash = ComputeRoot(list)
     /\ Min({Last(rows).count, Len(list)}) = Len(list)

\* current_root: reading the current root writes it when it is missing.
WithCurrent(list, rows) ==
  IF list = <<>> \/ HasCanonical(list, rows) THEN rows
  ELSE Append(rows, Root(ComputeRoot(list), Len(list)))

\* The row current_root returns; rows holds it.
CurrentRoot(list, rows) ==
  LET exact == {k \in DOMAIN rows : /\ rows[k].hash = ComputeRoot(list)
                                    /\ rows[k].count = Len(list)}
  IN IF exact # {} THEN rows[Max(exact)]
     ELSE [Last(rows) EXCEPT !.count = Min({@, Len(list)})]

\* Rows of anchored roots that claim at least n leaves.
Covering(n) == {k \in DOMAIN roots : roots[k].anchored /\ roots[k].count >= n}

\* The row commits to a prefix of the leaves.
Fits(k, ComputeTree(_)) ==
  /\ roots[k].count <= Len(leaves)
  /\ roots[k].hash = ComputeTree(Prefix(roots[k].count))

\* The smallest of some rows, the oldest of equal ones.
Smallest(rows) ==
  CHOOSE k \in rows : \A j \in rows :
    \/ roots[k].count < roots[j].count
    \/ roots[k].count = roots[j].count /\ k <= j

\* select_covering_root: the anchored rows for the leaf at position n, counted
\* from 1; a legacy root only when no count-bound one covers it.
Selected(n) ==
  LET bound == {k \in Covering(n) : Fits(k, ComputeRoot)}
      legacy == {k \in Covering(n) : Fits(k, ComputeLegacyRoot)}
  IN IF bound # {} THEN {Smallest(bound)}
     ELSE IF legacy # {} THEN {Smallest(legacy)}
     ELSE {}

\* Mutant: the proof always has the count-bound shape.
ProofForNew(list, index, root) == GenerateProof(list, index)
ProofFor(list, index, root) ==
  IF ComputeLegacyRoot(list) = root.hash /\ ComputeRoot(list) # root.hash
  THEN GenerateLegacyProof(list, index)
  ELSE GenerateProof(list, index)

\* get_verification_bundle of a stored leaf.
BundleRoot(leaf) ==
  LET selected == Selected(Index(leaf))
  IN IF selected # {} THEN roots[Max(selected)]
     ELSE CurrentRoot(leaves, WithCurrent(leaves, roots))
Bundle(leaf) ==
  LET root == BundleRoot(leaf) IN
  [root |-> root,
   proof |-> ProofFor(Prefix(root.count), Index(leaf) - 1, root)]

\* verify_bundle_merkle, as proof.json, the check page and the badge report it.
BundleValid(leaf) ==
  LET bundle == Bundle(leaf) IN
  \/ VerifyProof(leaf, bundle.proof, bundle.root.count, bundle.root.hash)
  \/ /\ VerifyLegacyProof(leaf, bundle.proof, bundle.root.hash)
     /\ bundle.root.height \in 1..LegacyMax

\* get_root_covering_leaf, for the timeline of a wallet: the oldest anchored
\* row whose count is at least the id of the leaf.
TimelineAnchored(leaf) == Covering(ids[Index(leaf)]) # {}

\* Mutant: the count of the first anchored row, not the largest.
UnanchoredCountFirst ==
  Max({0, Len(leaves) - (IF Covering(0) = {} THEN 0 ELSE roots[Min(Covering(0))].count)})
\* unanchored_leaf_count
UnanchoredCount ==
  Max({0, Len(leaves) - Max({0} \cup {roots[k].count : k \in Covering(0)})})

-----------------------------------------------------------------------------
(* Writing. *)

\* Mutant: the root is computed before the leaf is inserted.
RootAfterStale(leaf) == Root(ComputeRoot(leaves), Len(leaves) + 1)
RootAfter(leaf) == Root(ComputeRoot(Append(leaves, leaf)), Len(leaves) + 1)

\* Mutant: the root row is brought up to date in place and keeps its anchor.
InsertLeafInPlace(leaf) ==
  /\ inserts < MaxInserts
  /\ inserts' = inserts + 1
  /\ lastId' = lastId + 1
  /\ \A k \in DOMAIN leaves : leaves[k] # leaf
  /\ leaves' = Append(leaves, leaf)
  /\ ids' = Append(ids, lastId + 1)
  /\ roots' = IF roots = <<>> THEN <<RootAfter(leaf)>>
              ELSE [roots EXCEPT ![Len(roots)].hash = RootAfter(leaf).hash,
                                 ![Len(roots)].count = RootAfter(leaf).count]
  /\ UNCHANGED upgraded
\* insert_leaf_raw, insert_merkle_leaf, insert_lifecycle_leaf_transaction: one
\* SQLite transaction.  A leaf that is stored already is ignored, after the
\* statement drew an id for it.
InsertLeaf(leaf) ==
  /\ inserts < MaxInserts
  /\ inserts' = inserts + 1
  /\ lastId' = lastId + 1
  /\ IF \E k \in DOMAIN leaves : leaves[k] = leaf
     THEN /\ roots' = WithCurrent(leaves, roots)
          /\ UNCHANGED <<leaves, ids>>
     ELSE /\ leaves' = Append(leaves, leaf)
          /\ ids' = Append(ids, lastId + 1)
          /\ roots' = WithCurrent(leaves', Append(roots, RootAfter(leaf)))
  /\ UNCHANGED upgraded

\* Any request that reads the current root: a bundle of an uncovered leaf, the
\* anchor loop, the status pages.
ReadCurrent ==
  /\ leaves # <<>>
  /\ roots' = WithCurrent(leaves, roots)
  /\ UNCHANGED <<leaves, ids, lastId, upgraded, inserts>>

\* The newest row of a root hash.
RowOf(hash) == Max({k \in DOMAIN roots : roots[k].hash = hash})

\* record_anchor_reference_in_tx for a transaction that is not mined yet, as
\* finalize_anchor_broadcast calls it, or mined at height h.
RecordAnchor(hash, h) ==
  LET k == RowOf(hash) IN
  /\ ~roots[k].anchored
  /\ roots' = [roots EXCEPT ![k].anchored = TRUE, ![k].height = h]
  /\ UNCHANGED <<leaves, ids, lastId, upgraded, inserts>>

\* confirm_anchor_broadcast, record_merkle_anchor_height
RecordHeight(k, h) ==
  /\ roots[k].anchored /\ roots[k].height = 0
  /\ roots' = [roots EXCEPT ![k].height = h]
  /\ UNCHANGED <<leaves, ids, lastId, upgraded, inserts>>

-----------------------------------------------------------------------------

\* Every root so far, those of an older release up to LegacyMax.
Hashes == {roots[k].hash : k \in DOMAIN roots}
Recent == LegacyMax + 1..MaxHeight

\* A store as an older release left it and Db::open repaired it: a legacy root
\* for each of n leaves, one of them possibly anchored, one of them possibly
\* with a count that is too large but at most n.
LegacyStore(n, anchoredRow, height, surplusRow) ==
  /\ leaves = [k \in 1..n |-> Imported[k]]
  /\ roots = [k \in 1..n |->
       [hash |-> ComputeLegacyRoot(Prefix(k)),
        count |-> Min({n, IF k = surplusRow THEN k + 1 ELSE k}),
        anchored |-> k = anchoredRow,
        height |-> IF k = anchoredRow THEN height ELSE 0]]

Init ==
  /\ \E n \in 0..Len(Imported) : \E row \in 0..n, surplus \in 0..n, height \in 0..LegacyMax :
       LegacyStore(n, row, height, surplus)
  /\ ids = [k \in DOMAIN leaves |-> k]
  /\ lastId = Len(leaves)
  /\ upgraded = Len(roots)
  /\ inserts = 0

Next ==
  \/ \E leaf \in Leaves : InsertLeaf(leaf)
  \/ ReadCurrent
  \/ \E hash \in Hashes, h \in {0} \cup Recent : RecordAnchor(hash, h)
  \/ \E k \in DOMAIN roots, h \in Recent : RecordHeight(k, h)

Spec == Init /\ [][Next]_vars

-----------------------------------------------------------------------------
(* What must hold. *)

\* Every variable keeps its type; ids grow with positions.
TypeOK ==
  /\ leaves \in Seq(Leaves)
  /\ ids \in Seq(1..lastId) /\ Len(ids) = Len(leaves)
  /\ lastId \in Nat
  /\ \A k \in DOMAIN roots :
       /\ roots[k].count \in Nat /\ roots[k].anchored \in BOOLEAN
       /\ roots[k].height \in 0..MaxHeight
  /\ upgraded \in 0..Len(roots)
  /\ inserts \in 0..MaxInserts

Stored == {leaves[k] : k \in DOMAIN leaves}

\* A root this release writes commits to the leaves it counts, and still does
\* after any later insert (current_root, insert_leaf_raw).
RootsCommitToPrefixes ==
  \A k \in DOMAIN roots : k > upgraded => Fits(k, ComputeRoot)

\* Whatever proof is served for a leaf is accepted by the verifier, unless the
\* root is a legacy one whose anchor is not historical
\* (get_verification_bundle against verify_bundle_merkle).
BundleVerifies ==
  \A leaf \in Stored :
    \/ BundleValid(leaf)
    \/ /\ BundleRoot(leaf).hash = ComputeLegacyRoot(Prefix(BundleRoot(leaf).count))
       /\ BundleRoot(leaf).height \notin 1..LegacyMax

Anchored(leaf) == Selected(Index(leaf)) # {}

\* A leaf served with an anchored root is never served with an unanchored one
\* again, whatever is inserted or recorded later (select_covering_root).
AnchoredStays == [][\A leaf \in Stored : Anchored(leaf) => Anchored(leaf)']_vars

Published == {leaf \in Stored : Anchored(leaf)}
Log == INSTANCE AnchoredLog WITH log <- leaves, published <- Published

\* The store is an append-only log: no leaf is published by being inserted,
\* and an anchor publishes a whole first part of the leaves, for good
\* (insert_leaf_raw, record_anchor_reference_in_tx, select_covering_root).
LogSpec == Log!Spec

\* If every anchored root commits to leaves, the backlog that starts an anchor
\* is the number of leaves no anchored root covers, and the timeline of a
\* wallet shows no anchor that the leaf's bundle lacks
\* (unanchored_leaf_count, get_root_covering_leaf).
CoverageIsHonest ==
  (\A k \in Covering(0) : Fits(k, ComputeRoot) \/ Fits(k, ComputeLegacyRoot)) =>
    /\ UnanchoredCount = Cardinality({leaf \in Stored : ~Anchored(leaf)})
    /\ \A leaf \in Stored : TimelineAnchored(leaf) => Anchored(leaf)
=============================================================================
