-------------------------- MODULE AnchorWalletProofs --------------------------
(***************************************************************************)
(* The wallet's three invariants, for every chain and every schedule of    *)
(* the tasks.  They rest on each other: where a task stands and what it    *)
(* has locked (Sound); that the tree and its newest checkpoint are the     *)
(* chain's whenever no block is half inserted, as long as blocks are fed   *)
(* in order (Feeding); that the notes tracked are the ones those blocks    *)
(* bring, at the positions the chain gives them, marked when spent, and    *)
(* that the note selected is one of them (Noted).                          *)
(***************************************************************************)
EXTENDS AnchorWallet, DataLemmas

\* Types, and heights within the chain.
Typed ==
  /\ chain \in Chains /\ tip \in Nat /\ tip <= Len(chain)
  /\ pc \in [Tasks -> {"start", "seed", "position", "fetch", "next", "tree", "notes",
                       "ended", "idle", "witness", "sent"}]
  /\ at \in [Feeders -> Nat] /\ upTo \in [Feeders -> 0 .. tip]
  /\ holder \in [Locks -> Tasks \cup {None}]
  /\ scanned \in Nat

\* Where a task may stand.
Places ==
  /\ pc[Anchor] \in {"idle", "witness", "sent"}
  /\ pc[Recovery] \in {"start", "seed", "position", "fetch", "next", "tree", "notes", "ended"}
  /\ pc[Scanner] \in {"idle", "fetch", "next", "tree", "notes"}
  /\ pc[Recovery] \in {"seed", "position"} => at[Recovery] \in 1 .. tip
  /\ \A p \in Feeders : pc[p] \in {"fetch", "next", "tree", "notes"} => at[p] <= tip

\* A feeder holds next_position from LockNext on, and the tree from InsertBlock
\* on; nobody holds two locks the other way round.
Locked ==
  /\ \A p \in Tasks : holder["next"] = p <=> pc[p] \in {"tree", "notes"}
  /\ \A p \in Tasks : holder["tree"] = p <=> pc[p] = "notes"
  /\ holder["notes"] = None

\* No feeder is between the tree and the notes.
Quiet == \A p \in Feeders : pc[p] # "notes"

\* Before the seed counts, nothing was fed.
Unfed ==
  fed = None =>
    /\ notes = <<>> /\ pc[Anchor] = "idle" /\ tx = None /\ used = {} /\ next = 0
    /\ Quiet =>
         IF pc[Recovery] = "position"
         THEN /\ tree = ChainTree(at[Recovery])
              /\ ckpt = [height |-> at[Recovery], size |-> ChainSize(at[Recovery])]
         ELSE tree = <<>> /\ ckpt = [height |-> -1, size |-> 0]

\* The blocks fed are on the chain; a seed comes first.
FedTyped ==
  /\ fed \in {None, Broken} \cup (Nat \X Nat)
  /\ InOrder => fed[1] \in 1 .. fed[2] /\ fed[2] <= tip
  /\ pc[Recovery] \in {"start", "seed", "position"} => ~InOrder

Stands(h) == tree = ChainTree(h) /\ ckpt = [height |-> h, size |-> ChainSize(h)]

\* The tree is the chain's, up to the last block fed or with the one under way.
Grown ==
  InOrder =>
    /\ next = ChainSize(fed[2])
    /\ Quiet => Stands(fed[2])
    /\ \A p \in Feeders : pc[p] = "notes" /\ at[p] = fed[2] + 1 => Stands(fed[2] + 1)

-----------------------------------------------------------------------------
(* The chain: its commitments, their number and their positions. *)

LEMMA ChainShape ==
  ASSUME Typed
  PROVE  /\ Len(chain) \in Nat
         /\ \A h \in 1 .. Len(chain) :
              /\ Len(chain[h]) \in Nat /\ DOMAIN chain[h] = 1 .. Len(chain[h])
              /\ chain[h] = <<>> <=> Len(chain[h]) = 0
              /\ \A i \in 1 .. Len(chain[h]) :
                   /\ chain[h][i] \in Actions
                   /\ chain[h][i].spends # None => chain[h][i].spends[1] < h
<1>1. chain \in Seq(Seq(Actions))
  BY WalletAssumption DEF WalletAssumption, Typed
<1>2. Len(chain) \in Nat /\ DOMAIN chain = 1 .. Len(chain)
      /\ \A h \in 1 .. Len(chain) : chain[h] \in Seq(Actions)
  BY <1>1
<1>3. ASSUME NEW h \in 1 .. Len(chain)
      PROVE  /\ Len(chain[h]) \in Nat /\ DOMAIN chain[h] = 1 .. Len(chain[h])
             /\ chain[h] = <<>> <=> Len(chain[h]) = 0
             /\ \A i \in 1 .. Len(chain[h]) : chain[h][i] \in Actions
  BY <1>2, EmptySeq
<1>4. \A h \in DOMAIN chain : \A i \in DOMAIN chain[h] :
        chain[h][i].spends # None => chain[h][i].spends[1] < h
  BY WalletAssumption DEF WalletAssumption, Typed
<1> QED
  BY <1>2, <1>3, <1>4

LEMMA InThrough ==
  ASSUME NEW h, NEW id
  PROVE  id \in Through(h) <=> \E k \in 1 .. h : \E i \in 1 .. Len(chain[k]) : id = <<k, i>>
  BY DEF Through

LEMMA NextBlock ==
  ASSUME Typed, NEW h \in Nat, h + 1 <= Len(chain)
  PROVE  /\ Through(h + 1) = Through(h) \cup {h + 1} \X (1 .. Len(chain[h + 1]))
         /\ Through(h) \cap ({h + 1} \X (1 .. Len(chain[h + 1]))) = {}
<1>1. 1 .. h + 1 = (1 .. h) \cup {h + 1} /\ h + 1 \notin 1 .. h
  OBVIOUS
<1>2. \A id : id \in Through(h + 1)
              <=> id \in Through(h) \/ \E i \in 1 .. Len(chain[h + 1]) : id = <<h + 1, i>>
  BY <1>1, InThrough
<1>3. \A id : id \in {h + 1} \X (1 .. Len(chain[h + 1]))
              <=> \E i \in 1 .. Len(chain[h + 1]) : id = <<h + 1, i>>
  OBVIOUS
<1>4. \A id \in Through(h) : id \notin {h + 1} \X (1 .. Len(chain[h + 1]))
  BY <1>1, <1>3, InThrough
<1> QED
  BY <1>2, <1>3, <1>4

LEMMA ThroughFinite ==
  ASSUME Typed
  PROVE  /\ ChainSize(0) = 0 /\ Through(0) = {}
         /\ \A h \in 0 .. Len(chain) : IsFiniteSet(Through(h)) /\ ChainSize(h) \in Nat
         /\ \A h \in 0 .. Len(chain) - 1 : ChainSize(h + 1) = ChainSize(h) + Len(chain[h + 1])
<1> DEFINE K == {h \in 0 .. Len(chain) : IsFiniteSet(Through(h))}
           New(h) == {h + 1} \X (1 .. Len(chain[h + 1]))
<1>0. Len(chain) \in Nat /\ \A h \in 1 .. Len(chain) : Len(chain[h]) \in Nat
  BY ChainShape
<1>1. Through(0) = {} /\ ChainSize(0) = 0 /\ 0 \in K
  <2>1. Through(0) = {}
    BY InThrough
  <2>2. IsFiniteSet({}) /\ Cardinality({}) = 0
    BY FS_EmptySet
  <2>3. ChainSize(0) = 0
    BY <2>1, <2>2 DEF ChainSize
  <2>4. 0 \in 0 .. Len(chain) /\ IsFiniteSet(Through(0))
    BY <1>0, <2>1, <2>2
  <2> QED
    BY <2>1, <2>3, <2>4
<1>2. ASSUME NEW h \in 0 .. Len(chain) - 1
      PROVE  /\ IsFiniteSet(New(h)) /\ Cardinality(New(h)) = Len(chain[h + 1])
             /\ Through(h + 1) = Through(h) \cup New(h) /\ Through(h) \cap New(h) = {}
  <2> DEFINE n == Len(chain[h + 1])
  <2>1. n \in Nat /\ h \in Nat /\ h + 1 <= Len(chain)
    BY <1>0
  <2>2. IsFiniteSet(1 .. n) /\ Cardinality(1 .. n) = n
    <3> HIDE DEF n
    <3> QED
      BY <2>1, FS_Interval
  <2>3. IsFiniteSet({h + 1}) /\ Cardinality({h + 1}) = 1
    BY FS_Singleton
  <2>4. IsFiniteSet({h + 1} \X (1 .. n)) /\ Cardinality({h + 1} \X (1 .. n)) = 1 * n
    <3> HIDE DEF n
    <3> QED
      BY <2>2, <2>3, FS_Product
  <2>5. Cardinality({h + 1} \X (1 .. n)) = n
    <3> HIDE DEF n
    <3> QED
      BY <2>1, <2>4
  <2> QED
    BY <2>1, <2>4, <2>5, NextBlock
<1>3. ASSUME NEW h \in 0 .. Len(chain) - 1, h \in K PROVE h + 1 \in K
  <2>1. h + 1 \in 0 .. Len(chain)
    BY <1>0
  <2>2. IsFiniteSet(Through(h)) /\ IsFiniteSet(New(h)) /\ Through(h + 1) = Through(h) \cup New(h)
    BY <1>2, <1>3
  <2>3. IsFiniteSet(Through(h + 1))
    <3>1. \A A, B : IsFiniteSet(A) /\ IsFiniteSet(B) => IsFiniteSet(A \cup B)
      BY FS_Union
    <3> HIDE DEF New
    <3> QED
      BY <2>2, <3>1
  <2> QED
    BY <2>1, <2>3
<1>4. 0 .. Len(chain) \subseteq K
  <2> HIDE DEF K
  <2> QED
    BY <1>0, <1>1, <1>3, InductiveUpTo
<1>5. \A h \in 0 .. Len(chain) : IsFiniteSet(Through(h)) /\ ChainSize(h) \in Nat
  BY <1>4, FS_CardinalityType DEF ChainSize
<1>6. ASSUME NEW h \in 0 .. Len(chain) - 1 PROVE ChainSize(h + 1) = ChainSize(h) + Len(chain[h + 1])
  <2> HIDE DEF New
  <2>1. /\ IsFiniteSet(Through(h)) /\ IsFiniteSet(New(h)) /\ Cardinality(New(h)) = Len(chain[h + 1])
        /\ Through(h + 1) = Through(h) \cup New(h) /\ Through(h) \cap New(h) = {}
    BY <1>0, <1>2, <1>5
  <2>2. Cardinality(Through(h) \cap New(h)) = 0
    BY <2>1, FS_EmptySet
  <2>3. Cardinality(Through(h + 1)) = Cardinality(Through(h)) + Cardinality(New(h)) - 0
    BY <2>1, <2>2, FS_Union
  <2>4. Cardinality(Through(h)) \in Nat /\ Len(chain[h + 1]) \in Nat
    BY <1>0, <1>5 DEF ChainSize
  <2> QED
    BY <2>1, <2>3, <2>4 DEF ChainSize
<1> QED
  BY <1>1, <1>5, <1>6

LEMMA ThroughGrows ==
  ASSUME Typed, NEW g \in 0 .. Len(chain), NEW h \in 0 .. Len(chain), g <= h
  PROVE  Through(g) \subseteq Through(h) /\ ChainSize(g) <= ChainSize(h)
<1>1. Len(chain) \in Nat
  BY ChainShape
<1>2. 1 .. g \subseteq 1 .. h
  BY <1>1
<1>3. Through(g) \subseteq Through(h)
  BY <1>2, InThrough
<1>4. Cardinality(Through(g)) <= Cardinality(Through(h))
  BY <1>3, ThroughFinite, FS_Subset
<1> QED
  BY <1>3, <1>4 DEF ChainSize

\* A position lies within its block.
LEMMA PositionIn ==
  ASSUME Typed, NEW k \in 1 .. Len(chain), NEW i \in 1 .. Len(chain[k])
  PROVE  /\ ChainPosition(<<k, i>>) \in Nat
         /\ ChainPosition(<<k, i>>) = ChainSize(k - 1) + i - 1
         /\ ChainSize(k - 1) <= ChainPosition(<<k, i>>) /\ ChainPosition(<<k, i>>) < ChainSize(k)
<1>1. Len(chain) \in Nat /\ Len(chain[k]) \in Nat
  BY ChainShape
<1>2. k - 1 \in 0 .. Len(chain) - 1 /\ (k - 1) + 1 = k
  BY <1>1
<1>3. ChainSize(k) = ChainSize(k - 1) + Len(chain[k]) /\ ChainSize(k - 1) \in Nat
  BY <1>1, <1>2, ThroughFinite
<1>4. ChainPosition(<<k, i>>) = ChainSize(k - 1) + i - 1
  BY DEF ChainPosition
<1> QED
  BY <1>1, <1>3, <1>4

LEMMA PositionsDiffer ==
  ASSUME Typed, NEW a \in Through(Len(chain)), NEW b \in Through(Len(chain)),
         ChainPosition(a) = ChainPosition(b)
  PROVE  a = b
<1>1. PICK k \in 1 .. Len(chain) : \E i \in 1 .. Len(chain[k]) : a = <<k, i>>
  BY InThrough
<1>1a. PICK i \in 1 .. Len(chain[k]) : a = <<k, i>>
  BY <1>1
<1>2. PICK l \in 1 .. Len(chain) : \E j \in 1 .. Len(chain[l]) : b = <<l, j>>
  BY InThrough
<1>2a. PICK j \in 1 .. Len(chain[l]) : b = <<l, j>>
  BY <1>2
<1>0. Len(chain) \in Nat /\ Len(chain[k]) \in Nat /\ Len(chain[l]) \in Nat
  BY ChainShape
<1>3. /\ ChainSize(k) \in Nat /\ ChainSize(l) \in Nat
      /\ ChainSize(k - 1) \in Nat /\ ChainSize(l - 1) \in Nat
  BY <1>0, ThroughFinite
<1>4. /\ ChainPosition(a) = ChainSize(k - 1) + i - 1 /\ ChainPosition(a) < ChainSize(k)
      /\ ChainPosition(b) = ChainSize(l - 1) + j - 1 /\ ChainPosition(b) < ChainSize(l)
      /\ ChainSize(k - 1) <= ChainPosition(a) /\ ChainSize(l - 1) <= ChainPosition(b)
  BY <1>1a, <1>2a, PositionIn
<1>5. CASE k < l
  <2>1. k \in 0 .. Len(chain) /\ l - 1 \in 0 .. Len(chain) /\ k <= l - 1
    BY <1>0, <1>5
  <2>2. ChainSize(k) <= ChainSize(l - 1)
    BY <2>1, ThroughGrows
  <2>3. ChainPosition(a) \in Nat /\ ChainPosition(b) \in Nat
    BY <1>1a, <1>2a, PositionIn
  <2> QED
    BY <1>3, <1>4, <2>2, <2>3
<1>6. CASE l < k
  <2>1. l \in 0 .. Len(chain) /\ k - 1 \in 0 .. Len(chain) /\ l <= k - 1
    BY <1>0, <1>6
  <2>2. ChainSize(l) <= ChainSize(k - 1)
    BY <2>1, ThroughGrows
  <2>3. ChainPosition(a) \in Nat /\ ChainPosition(b) \in Nat
    BY <1>1a, <1>2a, PositionIn
  <2> QED
    BY <1>3, <1>4, <2>2, <2>3
<1>7. CASE k = l
  <2>1. ChainSize(k - 1) + i - 1 = ChainSize(k - 1) + j - 1
    BY <1>4, <1>7
  <2>2. i \in Int /\ j \in Int
    BY <1>0
  <2>3. i = j
    BY <1>3, <2>1, <2>2
  <2> QED
    BY <1>1a, <1>2a, <1>7, <2>3
<1> QED
  BY <1>0, <1>5, <1>6, <1>7

\* The tree of the chain has each commitment at its position.
LEMMA TreeAt ==
  ASSUME Typed, NEW h \in 0 .. Len(chain), NEW id \in Through(h)
  PROVE  /\ ChainPosition(id) \in 0 .. ChainSize(h) - 1
         /\ ChainTree(h)[ChainPosition(id)] = id
<1>1. PICK k \in 1 .. h : \E i \in 1 .. Len(chain[k]) : id = <<k, i>>
  BY InThrough
<1>1a. PICK i \in 1 .. Len(chain[k]) : id = <<k, i>>
  BY <1>1
<1>0. Len(chain) \in Nat /\ k \in 1 .. Len(chain) /\ k \in 0 .. Len(chain) /\ k <= h
  BY ChainShape
<1>2. /\ ChainPosition(id) \in Nat /\ ChainPosition(id) < ChainSize(k)
      /\ ChainSize(k) <= ChainSize(h) /\ ChainSize(k) \in Nat /\ ChainSize(h) \in Nat
  BY <1>0, <1>1a, PositionIn, ThroughGrows, ThroughFinite
<1>3. ChainPosition(id) \in 0 .. ChainSize(h) - 1
  BY <1>2
<1>4. id \in Through(Len(chain))
  BY <1>0, ThroughGrows
<1>5. (CHOOSE x \in Through(Len(chain)) : ChainPosition(x) = ChainPosition(id)) = id
  BY <1>4, PositionsDiffer
<1> QED
  BY <1>3, <1>5 DEF ChainTree

\* The chain does not change.
LEMMA ChainStays ==
  ASSUME UNCHANGED chain
  PROVE  /\ \A h : Through(h)' = Through(h) /\ ChainSize(h)' = ChainSize(h)
         /\ \A h : ChainTree(h)' = ChainTree(h)
         /\ \A id : ChainPosition(id)' = ChainPosition(id)
  BY DEF Through, ChainSize, ChainTree, ChainPosition

\* A tree of positions 0 .. n - 1.
LEMMA SizeOf ==
  ASSUME NEW n \in Nat, NEW t, DOMAIN t = 0 .. n - 1
  PROVE  Size(t) = n
<1>1. CASE n = 0
  BY <1>1 DEF Size
<1>2. CASE n # 0
  <2>1. n - 1 \in DOMAIN t /\ \A q \in DOMAIN t : q <= n - 1
    BY <1>2
  <2>2. (CHOOSE p \in DOMAIN t : \A q \in DOMAIN t : q <= p) = n - 1
    <3>1. ASSUME NEW p \in DOMAIN t, \A q \in DOMAIN t : q <= p PROVE p = n - 1
      <4>1. n - 1 <= p /\ p <= n - 1 /\ p \in Int
        BY <2>1, <3>1
      <4> QED
        BY <4>1
    <3> QED
      BY <2>1, <3>1
  <2>3. DOMAIN t # {} /\ 1 + (n - 1) = n
    BY <2>1
  <2> QED
    BY <2>2, <2>3 DEF Size
<1> QED
  BY <1>1, <1>2

LEMMA TreeSize ==
  ASSUME Typed, NEW h \in 0 .. Len(chain)
  PROVE  Size(ChainTree(h)) = ChainSize(h) /\ DOMAIN ChainTree(h) = 0 .. ChainSize(h) - 1
<1>1. ChainSize(h) \in Nat
  BY ThroughFinite
<1>2. DOMAIN ChainTree(h) = 0 .. ChainSize(h) - 1
  BY DEF ChainTree
<1> QED
  BY <1>1, <1>2, SizeOf

\* batch_insert of the next block makes the next tree of the chain.
LEMMA TreeGrows ==
  ASSUME Typed, NEW h \in Nat, h + 1 <= Len(chain), tree = ChainTree(h), next = ChainSize(h)
  PROVE  Put(Inserted(h + 1)) = ChainTree(h + 1)
<1> DEFINE n == Len(chain[h + 1])
           leaf(p) == CHOOSE id \in Through(Len(chain)) : ChainPosition(id) = p
           new == Inserted(h + 1)
<1>0. /\ Len(chain) \in Nat /\ n \in Nat /\ h \in 0 .. Len(chain) - 1 /\ h \in 0 .. Len(chain)
      /\ h + 1 \in 0 .. Len(chain) /\ h + 1 \in 1 .. Len(chain)
  BY ChainShape
<1>1. ChainSize(h + 1) = next + n /\ next \in Nat
  BY <1>0, ThroughFinite
<1>2. new = [q \in next .. next + n - 1 |-> <<h + 1, q - next + 1>>]
  BY DEF Inserted
<1>3. DOMAIN tree = 0 .. next - 1 /\ \A q \in 0 .. next - 1 : tree[q] = leaf(q)
  BY DEF ChainTree
<1>4. ASSUME NEW q \in next .. next + n - 1 PROVE new[q] = leaf(q)
  <2> DEFINE i == q - next + 1
  <2>1. i \in 1 .. n
    BY <1>0, <1>1
  <2>2. <<h + 1, i>> \in Through(h + 1)
    <3>1. h + 1 \in 1 .. h + 1
      OBVIOUS
    <3> HIDE DEF i
    <3> QED
      BY <2>1, <3>1, InThrough
  <2>3. ChainPosition(<<h + 1, i>>) = q
    <3>1. (h + 1) - 1 = h
      OBVIOUS
    <3>2. ChainPosition(<<h + 1, i>>) = ChainSize(h) + i - 1
      BY <3>1 DEF ChainPosition
    <3> QED
      BY <1>1, <3>2
  <2>4. /\ ChainPosition(<<h + 1, i>>) \in 0 .. ChainSize(h + 1) - 1
        /\ ChainTree(h + 1)[ChainPosition(<<h + 1, i>>)] = <<h + 1, i>>
    <3> HIDE DEF i
    <3> QED
      BY <1>0, <2>2, TreeAt
  <2>5. leaf(q) = <<h + 1, i>>
    BY <2>3, <2>4 DEF ChainTree
  <2> QED
    BY <1>2, <2>5
<1>5. 0 .. next + n - 1 = (next .. next + n - 1) \cup (0 .. next - 1)
  BY <1>0, <1>1
<1>6. \A q \in 0 .. next + n - 1 :
        (IF q \in DOMAIN new THEN new[q] ELSE tree[q]) = leaf(q)
  <2>1. DOMAIN new = next .. next + n - 1
    BY <1>2
  <2> HIDE DEF new, leaf
  <2> QED
    BY <1>3, <1>4, <1>5, <2>1
<1>7. Put(new) = [q \in 0 .. next + n - 1 |-> IF q \in DOMAIN new THEN new[q] ELSE tree[q]]
  <2>1. DOMAIN new \cup DOMAIN tree = 0 .. next + n - 1
    BY <1>2, <1>3, <1>5
  <2> HIDE DEF new
  <2> QED
    BY <2>1 DEF Put
<1>8. Put(new) = [q \in 0 .. next + n - 1 |-> leaf(q)]
  <2> HIDE DEF new, leaf
  <2> QED
    BY <1>6, <1>7
<1>9. ChainTree(h + 1) = [q \in 0 .. next + n - 1 |-> leaf(q)]
  <2>1. ChainTree(h + 1) = [q \in 0 .. ChainSize(h + 1) - 1 |-> leaf(q)]
    BY DEF ChainTree
  <2> HIDE DEF leaf
  <2> QED
    BY <1>1, <2>1
<1> QED
  BY <1>8, <1>9

LEMMA TreeStays ==
  ASSUME Typed, NEW h \in Nat, h + 1 <= Len(chain), chain[h + 1] = <<>>
  PROVE  ChainTree(h + 1) = ChainTree(h) /\ ChainSize(h + 1) = ChainSize(h)
<1>1. Len(chain[h + 1]) = 0 /\ h \in 0 .. Len(chain) - 1
  BY ChainShape
<1>2. ChainSize(h + 1) = ChainSize(h) + 0 /\ ChainSize(h) \in Nat
  BY <1>1, ThroughFinite
<1> QED
  BY <1>2 DEF ChainTree

\* The seed goes into an empty tree.
LEMMA SeedTree ==
  ASSUME tree = <<>>, NEW h
  PROVE  Put(ChainTree(h)) = ChainTree(h)
<1>1. DOMAIN tree = {}
  OBVIOUS
<1>2. \A t : DOMAIN t \cup DOMAIN tree = DOMAIN t
  BY <1>1
<1> QED
  BY <1>2 DEF Put, ChainTree

-----------------------------------------------------------------------------
(* Types, places and locks. *)

Sound == Typed /\ Places /\ Locked

LEMMA InitSound == Init => Sound
  BY WalletAssumption
  DEF WalletAssumption, Init, Sound, Typed, Places, Locked, Tasks, Feeders, Recovery, Scanner,
      Anchor, Locks

\* What the end of a block does to a feeder.
LEMMA FeederGoesOn ==
  ASSUME Sound, NEW p \in Feeders, pc[p] \in {"fetch", "tree", "notes"}, Finished(p)
  PROVE  /\ at' \in [Feeders -> Nat] /\ scanned' \in Nat
         /\ \E l \in {"fetch", "ended", "idle"} :
              /\ pc' = [pc EXCEPT ![p] = l]
              /\ l = "fetch" => at'[p] <= tip
              /\ p = Recovery => l \in {"fetch", "ended"}
              /\ p = Scanner => l \in {"fetch", "idle"}
         /\ \A q \in Feeders \ {p} : at'[q] = at[q]
<1> USE DEF Sound, Typed, Tasks, Feeders, Recovery, Scanner, Anchor, Finished, Go
<1>1. CASE at[p] < upTo[p]
  <2>1. at' = [at EXCEPT ![p] = at[p] + 1] /\ pc' = [pc EXCEPT ![p] = "fetch"]
    BY <1>1
  <2>2. at[p] + 1 <= tip /\ at[p] \in Nat
    BY <1>1
  <2>3. at' \in [Feeders -> Nat] /\ at'[p] <= tip /\ \A q \in Feeders \ {p} : at'[q] = at[q]
    BY <2>1, <2>2
  <2>4. scanned' \in Nat
    OBVIOUS
  <2> QED
    BY <2>1, <2>3, <2>4
<1>2. CASE ~(at[p] < upTo[p])
  BY <1>2
<1> QED
  BY <1>1, <1>2

LEMMA NextSound == Sound /\ [Next]_vars => Sound'
<1> SUFFICES ASSUME Sound, [Next]_vars PROVE Sound'
  OBVIOUS
<1> USE WalletAssumption
    DEF WalletAssumption, Tasks, Feeders, Recovery, Scanner, Anchor, Locks, Go,
        chainVars, treeVars, walletVars, taskVars, history
<1>0. Typed /\ Places /\ Locked
  BY DEF Sound
<1>1. CASE Mine
  BY <1>0, <1>1 DEF Mine, Sound, Typed, Places, Locked
<1>2. CASE RecoveryReturns
  BY <1>0, <1>2 DEF RecoveryReturns, Sound, Typed, Places, Locked
<1>3. CASE RecoveryStart
  BY <1>0, <1>3 DEF RecoveryStart, Reseed, Sound, Typed, Places, Locked
<1>4. CASE RecoveryStartYoung
  BY <1>0, <1>4 DEF RecoveryStartYoung, Sound, Typed, Places, Locked
<1>5. CASE SeedFails
  BY <1>0, <1>5 DEF SeedFails, Sound, Typed, Places, Locked
<1>6. CASE SeedFrontier
  BY <1>0, <1>6 DEF SeedFrontier, Sound, Typed, Places, Locked
<1>7. CASE SeedPosition
  BY <1>0, <1>7 DEF SeedPosition, RecoveryRange, Sound, Typed, Places, Locked
<1>8. CASE ScanRound
  <2> DEFINE start == IF scanned = 0 THEN ScanFrom ELSE scanned + 1
             ahead == start + ScanBatch
  <2>1. /\ pc[Scanner] = "idle" /\ start <= tip /\ start \in Nat /\ ahead \in Nat
        /\ UNCHANGED <<chainVars, walletVars, choice, history>>
    BY <1>0, <1>8 DEF ScanRound, Typed
  <2>2. CASE /\ at' = [at EXCEPT ![Scanner] = start]
             /\ upTo' = [upTo EXCEPT ![Scanner] = IF ahead - 1 <= tip THEN ahead - 1 ELSE tip]
             /\ pc' = [pc EXCEPT ![Scanner] = "fetch"] /\ UNCHANGED scanned
    <3>1. (IF ahead - 1 <= tip THEN ahead - 1 ELSE tip) \in 0 .. tip
      BY <1>0, <2>1 DEF Typed
    <3> HIDE DEF start, ahead
    <3> QED
      BY <1>0, <2>1, <2>2, <3>1 DEF Sound, Typed, Places, Locked
  <2>3. CASE scanned' = (IF ahead <= tip THEN ahead ELSE tip) /\ UNCHANGED <<pc, at, upTo>>
    <3> HIDE DEF start, ahead
    <3> QED
      BY <1>0, <2>1, <2>3 DEF Sound, Typed, Places, Locked
  <2> QED
    BY <1>8, <2>2, <2>3 DEF ScanRound
<1>9. CASE RoundFails
  BY <1>0, <1>9 DEF RoundFails, Sound, Typed, Places, Locked
<1>10. ASSUME NEW p \in Feeders, Fetch(p) PROVE Sound'
  BY <1>0, <1>10 DEF Fetch, Sound, Typed, Places, Locked
<1>11. ASSUME NEW p \in Feeders, FetchFails(p) PROVE Sound'
  BY <1>0, <1>11, FeederGoesOn DEF FetchFails, Sound, Typed, Places, Locked
<1>12. ASSUME NEW p \in Feeders, LockNext(p) PROVE Sound'
  BY <1>0, <1>12 DEF LockNext, Sound, Typed, Places, Locked
<1>13. ASSUME NEW p \in Feeders, EmptyBlock(p) PROVE Sound'
  BY <1>0, <1>13, FeederGoesOn DEF EmptyBlock, Release, Sound, Typed, Places, Locked
<1>14. ASSUME NEW p \in Feeders, InsertBlock(p) PROVE Sound'
  BY <1>0, <1>14 DEF InsertBlock, Sound, Typed, Places, Locked
<1>15. ASSUME NEW p \in Feeders, InsertFails(p) PROVE Sound'
  BY <1>0, <1>15, FeederGoesOn DEF InsertFails, Release, Sound, Typed, Places, Locked
<1>16. ASSUME NEW p \in Feeders, TrackNotes(p) PROVE Sound'
  BY <1>0, <1>16, FeederGoesOn DEF TrackNotes, Release, Sound, Typed, Places, Locked
<1>17. CASE Select
  BY <1>0, <1>17 DEF Select, Sound, Typed, Places, Locked
<1>18. CASE Witness
  BY <1>0, <1>18 DEF Witness, Release, Sound, Typed, Places, Locked
<1>19. CASE EnsureSpent \/ NotSent
  BY <1>0, <1>19 DEF EnsureSpent, NotSent, Sound, Typed, Places, Locked
<1>20. CASE UNCHANGED vars
  BY <1>0, <1>20 DEF vars, Sound, Typed, Places, Locked
<1> QED
  BY <1>1, <1>2, <1>3, <1>4, <1>5, <1>6, <1>7, <1>8, <1>9, <1>10, <1>11, <1>12, <1>13, <1>14,
     <1>15, <1>16, <1>17, <1>18, <1>19, <1>20
  DEF Next, RecoveryStep, Feed, AnchorStep

LEMMA SoundInvariant == Spec => []Sound
<1> QED
  BY InitSound, NextSound, PTL DEF Spec

\* A task at "notes" waits for nobody, one at "tree" for a task at "notes", and
\* every other for one of those.
LEMMA NoCycle == Sound => NoCircularWait
<1> SUFFICES ASSUME Sound, NEW S \in SUBSET Tasks, S # {}
             PROVE  \E p \in S : Wanted(p) = None \/ holder[Wanted(p)] \notin S
  BY DEF NoCircularWait
<1> USE WalletAssumption
    DEF WalletAssumption, Sound, Typed, Places, Locked, Tasks, Feeders, Recovery, Scanner, Anchor,
        Locks
<1>1. \A p \in Tasks :
        /\ pc[p] = "notes" => Wanted(p) = "notes"
        /\ pc[p] = "tree" => Wanted(p) = "tree"
        /\ Wanted(p) \in {"next", "tree", "notes", None}
  BY DEF Wanted
<1>2. \A p \in Tasks : holder["notes"] # p
  OBVIOUS
<1>3. CASE \E p \in S : pc[p] = "notes"
  BY <1>1, <1>2, <1>3
<1>4. CASE (\A p \in S : pc[p] # "notes") /\ \E p \in S : pc[p] = "tree"
  BY <1>1, <1>4
<1>5. CASE \A p \in S : pc[p] \notin {"notes", "tree"}
  BY <1>1, <1>2, <1>5
<1> QED
  BY <1>3, <1>4, <1>5

\* The three tasks never wait for each other in a circle (the comment in
\* build_anchor_tx, NoCircularWait).
THEOREM NoTasksDeadlock == Spec => []NoCircularWait
  BY SoundInvariant, NoCycle, PTL

-----------------------------------------------------------------------------
(* The tree is the chain's. *)

Feeding == Unfed /\ FedTyped /\ Grown

LEMMA InitFeeding == Init => Feeding
  BY WalletAssumption
  DEF WalletAssumption, Init, Feeding, Unfed, FedTyped, Grown, InOrder, Broken, Recovery, Scanner,
      Anchor, Tasks, Feeders, Quiet

\* Steps that feed nothing.
LEMMA FeedingKept ==
  ASSUME Sound, Feeding, UNCHANGED <<chain, tree, ckpt, next, fed>>, tip' \in Nat, tip <= tip',
         \A p \in Feeders : /\ pc'[p] = "notes" <=> pc[p] = "notes"
                            /\ pc[p] = "notes" => at'[p] = at[p],
         pc'[Recovery] \in {"start", "seed", "position"}
           => pc[Recovery] \in {"start", "seed", "position"},
         pc'[Recovery] = "position" <=> pc[Recovery] = "position",
         pc[Recovery] = "position" => at'[Recovery] = at[Recovery],
         fed = None => notes' = notes /\ pc'[Anchor] = "idle" /\ tx' = tx /\ used' = used
  PROVE  Feeding'
<1>1. /\ \A h : ChainTree(h)' = ChainTree(h) /\ ChainSize(h)' = ChainSize(h)
      /\ Quiet' <=> Quiet
      /\ InOrder' <=> InOrder
  BY ChainStays DEF Quiet, InOrder, Broken
<1>2. \A h : Stands(h)' <=> Stands(h)
  BY <1>1 DEF Stands
<1>3. Unfed'
  <2> SUFFICES ASSUME fed' = None
               PROVE  /\ (notes = <<>> /\ pc[Anchor] = "idle" /\ tx = None /\ used = {} /\ next = 0)'
                      /\ Quiet' => (IF pc[Recovery] = "position"
                                    THEN /\ tree = ChainTree(at[Recovery])
                                         /\ ckpt = [height |-> at[Recovery],
                                                    size |-> ChainSize(at[Recovery])]
                                    ELSE tree = <<>> /\ ckpt = [height |-> -1, size |-> 0])'
    BY DEF Unfed
  <2>1. /\ notes = <<>> /\ pc[Anchor] = "idle" /\ tx = None /\ used = {} /\ next = 0
        /\ Quiet => IF pc[Recovery] = "position"
                    THEN /\ tree = ChainTree(at[Recovery])
                         /\ ckpt = [height |-> at[Recovery], size |-> ChainSize(at[Recovery])]
                    ELSE tree = <<>> /\ ckpt = [height |-> -1, size |-> 0]
    BY DEF Feeding, Unfed
  <2>2. ChainTree(at[Recovery])' = ChainTree(at'[Recovery])
        /\ ChainSize(at[Recovery])' = ChainSize(at'[Recovery])
    BY DEF ChainTree, ChainSize, ChainPosition, Through
  <2> QED
    BY <1>1, <2>1, <2>2
<1>4. FedTyped'
  <2>1. FedTyped /\ fed' = fed
    BY DEF Feeding
  <2>2. InOrder => fed \in Nat \X Nat /\ fed[2] <= tip
    BY <2>1 DEF FedTyped, InOrder
  <2>3. InOrder => fed[2] \in Nat /\ fed[2] <= tip'
    BY <2>2 DEF Sound, Typed
  <2> QED
    BY <1>1, <2>1, <2>3 DEF FedTyped, Broken
<1>5. Grown'
  <2> SUFFICES ASSUME InOrder'
               PROVE  /\ next' = ChainSize(fed'[2])
                      /\ Quiet => Stands(fed[2])
                      /\ \A p \in Feeders : pc'[p] = "notes" /\ at'[p] = fed[2] + 1
                                              => Stands(fed[2] + 1)
    BY <1>1, <1>2 DEF Grown, ChainSize, Through, Stands, ChainTree, ChainPosition
  <2> QED
    BY <1>1 DEF Feeding, Grown
<1> QED
  BY <1>3, <1>4, <1>5 DEF Feeding

\* The locks that keep the tree to one feeder.
LEMMA TreeIsFree ==
  ASSUME Sound, holder["tree"] = None
  PROVE  Quiet
  BY WalletAssumption DEF WalletAssumption, Sound, Locked, Quiet, Tasks

LEMMA NextIsFree ==
  ASSUME Sound, holder["next"] = None
  PROVE  \A p \in Feeders : pc[p] \notin {"tree", "notes"}
  BY WalletAssumption DEF WalletAssumption, Sound, Locked, Tasks

LEMMA OneAtNotes ==
  ASSUME Sound, NEW p \in Feeders, pc[p] = "notes"
  PROVE  \A q \in Feeders \ {p} : pc[q] # "notes"
  BY WalletAssumption DEF WalletAssumption, Sound, Locked, Tasks

LEMMA SeedFeeding ==
  ASSUME Sound, Feeding, SeedFrontier
  PROVE  Feeding'
<1> USE WalletAssumption
    DEF WalletAssumption, chainVars, treeVars, walletVars, taskVars, history, Go, Recovery, Scanner,
        Anchor, Tasks, Feeders
<1> DEFINE h == at[Recovery]
<1>0. /\ pc[Recovery] = "seed" /\ Quiet /\ h \in 1 .. tip /\ h \in 0 .. Len(chain) /\ Typed
      /\ pc' = [pc EXCEPT ![Recovery] = "position"]
      /\ pc \in [Tasks -> {"start", "seed", "position", "fetch", "next", "tree", "notes",
                            "ended", "idle", "witness", "sent"}]
      /\ UNCHANGED <<chain, tip, next, notes, at, tx, used, fed>>
  <2>1. Typed /\ Places /\ SeedFrontier /\ Quiet
    BY TreeIsFree DEF Sound, SeedFrontier
  <2> QED
    BY <2>1 DEF SeedFrontier, Typed, Places
<1>1. fed \in {None, Broken} /\ ~InOrder
  BY <1>0 DEF Feeding, FedTyped, InOrder
<1>2. ~InOrder'
  BY <1>0, <1>1 DEF InOrder, Broken
<1>3. fed' = None => tree' = ChainTree(h) /\ ckpt' = [height |-> h, size |-> ChainSize(h)]
  <2> SUFFICES ASSUME fed = None PROVE tree' = ChainTree(h) /\ ckpt' = [height |-> h, size |-> ChainSize(h)]
    BY <1>0
  <2>1. tree = <<>> /\ ckpt = [height |-> -1, size |-> 0]
    BY <1>0 DEF Feeding, Unfed
  <2>2. tree' = ChainTree(h)
    BY <2>1, SeedTree DEF SeedFrontier
  <2>3. Size(ChainTree(h)) = ChainSize(h)
    BY <1>0, TreeSize
  <2>4. ckpt' = Checkpointed(tree', h)
    BY DEF SeedFrontier
  <2>5. ckpt.height = -1 /\ h > -1
    BY <1>0, <2>1
  <2>6. ckpt' = [height |-> h, size |-> Size(tree')]
    BY <2>4, <2>5 DEF Checkpointed
  <2> QED
    BY <2>2, <2>3, <2>6
<1>4. Unfed'
  <2>1. ChainTree(at[Recovery])' = ChainTree(h) /\ ChainSize(at[Recovery])' = ChainSize(h)
    BY <1>0 DEF ChainTree, ChainSize, ChainPosition, Through
  <2>2. pc'[Recovery] = "position" /\ pc'[Anchor] = pc[Anchor]
    BY <1>0
  <2>3. fed' = None => (notes = <<>> /\ pc[Anchor] = "idle" /\ tx = None /\ used = {} /\ next = 0)'
    BY <1>0, <2>2 DEF Feeding, Unfed
  <2>4. ASSUME fed' = None
        PROVE  (IF pc[Recovery] = "position"
                THEN /\ tree = ChainTree(at[Recovery])
                     /\ ckpt = [height |-> at[Recovery], size |-> ChainSize(at[Recovery])]
                ELSE tree = <<>> /\ ckpt = [height |-> -1, size |-> 0])'
    <3>1. at'[Recovery] = h /\ pc'[Recovery] = "position"
      BY <1>0, <2>2
    <3> HIDE DEF h
    <3> QED
      BY <1>3, <2>1, <2>4, <3>1
  <2> HIDE DEF h
  <2> QED
    BY <2>3, <2>4 DEF Unfed
<1>5. FedTyped' /\ Grown'
  BY <1>0, <1>1, <1>2 DEF FedTyped, Grown, Broken
<1> QED
  BY <1>4, <1>5 DEF Feeding

LEMMA SeededFeeding ==
  ASSUME Sound, Feeding, SeedPosition
  PROVE  Feeding' /\ (InOrder' => fed = None /\ fed' = <<at[Recovery], at[Recovery]>>)
<1> USE WalletAssumption
    DEF WalletAssumption, chainVars, treeVars, walletVars, taskVars, history, Go, Recovery, Scanner,
        Anchor, Tasks, Feeders
<1> DEFINE h == at[Recovery]
<1>0. /\ pc[Recovery] = "position" /\ h \in 1 .. tip /\ tip \in Nat
      /\ pc[Scanner] \notin {"tree", "notes"} /\ pc'[Scanner] = pc[Scanner]
      /\ pc'[Recovery] \in {"fetch", "ended"}
      /\ UNCHANGED <<chain, tip, tree, ckpt, notes, tx, used>>
      /\ next' = ChainSize(h)
      /\ fed' = IF fed = None THEN <<h, h>> ELSE Broken
  <2>1. Typed /\ Places /\ pc[Scanner] \notin {"tree", "notes"}
    BY NextIsFree DEF Sound, SeedPosition
  <2> QED
    BY <2>1 DEF SeedPosition, RecoveryRange, Typed, Places
<1>1. Quiet /\ Quiet'
  BY <1>0 DEF Quiet
<1>2. fed' # None
  BY <1>0 DEF Broken
<1>3. InOrder' => fed = None /\ fed' = <<h, h>>
  BY <1>0 DEF InOrder
<1>4. Unfed' /\ FedTyped'
  BY <1>0, <1>2, <1>3 DEF Unfed, FedTyped, InOrder
<1>5. InOrder' => fed'[2] = h /\ ChainSize(fed[2])' = ChainSize(h) /\ ChainTree(fed[2])' = ChainTree(h)
  BY <1>0, <1>3 DEF ChainTree, ChainSize, ChainPosition, Through
<1>6. InOrder' => tree = ChainTree(h) /\ ckpt = [height |-> h, size |-> ChainSize(h)]
  BY <1>0, <1>1, <1>3 DEF Feeding, Unfed
<1>7. Grown'
  <2>1. InOrder' => Stands(fed[2])'
    BY <1>0, <1>5, <1>6 DEF Stands
  <2>2. \A p \in Feeders : pc'[p] # "notes"
    BY <1>1 DEF Quiet
  <2> QED
    BY <1>0, <1>5, <2>1, <2>2 DEF Grown
<1> QED
  BY <1>3, <1>4, <1>7 DEF Feeding

\* What a feeder's step to the end of a block, or into one, does around it.
LEMMA FeederMoves ==
  ASSUME Sound, NEW p \in Feeders, pc[p] \in {"fetch", "tree", "notes"}, Finished(p)
  PROVE  /\ pc'[p] \notin {"start", "seed", "position", "tree", "notes"}
         /\ \A q \in Tasks \ {p} : pc'[q] = pc[q]
         /\ \A q \in Feeders \ {p} : at'[q] = at[q]
<1>1. PICK l \in {"fetch", "ended", "idle"} : pc' = [pc EXCEPT ![p] = l]
  BY FeederGoesOn
<1>2. pc \in [Tasks -> {"start", "seed", "position", "fetch", "next", "tree", "notes",
                         "ended", "idle", "witness", "sent"}]
      /\ p \in Tasks
  BY DEF Sound, Typed, Tasks
<1>3. pc'[p] = l /\ \A q \in Tasks \ {p} : pc'[q] = pc[q]
  BY <1>1, <1>2
<1> QED
  BY <1>3, FeederGoesOn

\* A block that was fed: the next one, or one that breaks the order.
LEMMA FedFurther ==
  ASSUME FedTyped, NEW p \in Feeders, FedBy(p)
  PROVE  /\ fed' # None
         /\ InOrder' => /\ InOrder /\ fed \in Nat \X Nat /\ at[p] = fed[2] + 1
                        /\ fed' = <<fed[1], fed[2] + 1>>
         /\ ~InOrder' => fed' = Broken
<1> USE WalletAssumption DEF WalletAssumption
<1>1. CASE fed \notin {None, Broken} /\ fed[2] + 1 = at[p]
  <2>1. fed \in Nat \X Nat
    BY <1>1 DEF FedTyped
  <2>2. fed' = <<fed[1], fed[2] + 1>> /\ fed' \in Nat \X Nat
    BY <1>1, <2>1 DEF FedBy
  <2>3. fed' # None /\ fed' # Broken
    BY <2>2 DEF Broken
  <2> QED
    BY <1>1, <2>1, <2>2, <2>3 DEF InOrder
<1>2. CASE ~(fed \notin {None, Broken} /\ fed[2] + 1 = at[p])
  <2>1. fed' = Broken
    BY <1>2 DEF FedBy
  <2> QED
    BY <2>1 DEF InOrder, Broken
<1> QED
  BY <1>1, <1>2

\* Once the block is in the tree and counted, the order stands.
LEMMA BlockFed ==
  ASSUME Sound, Feeding, NEW p \in Feeders, pc[p] \in {"tree", "notes"}, FedBy(p), Finished(p),
         UNCHANGED <<chain, tip>>,
         \A q \in Feeders \ {p} : pc[q] # "notes",
         InOrder' => /\ next' = ChainSize(fed[2] + 1)
                     /\ tree' = ChainTree(fed[2] + 1)
                     /\ ckpt' = [height |-> fed[2] + 1, size |-> ChainSize(fed[2] + 1)]
  PROVE  Feeding'
<1>1. /\ fed' # None
      /\ InOrder' => /\ InOrder /\ fed \in Nat \X Nat /\ at[p] = fed[2] + 1
                     /\ fed' = <<fed[1], fed[2] + 1>>
      /\ ~InOrder' => fed' = Broken
  BY FedFurther DEF Feeding
<1>2. /\ pc'[p] \notin {"start", "seed", "position", "tree", "notes"}
      /\ \A q \in Feeders \ {p} : pc'[q] = pc[q] /\ at'[q] = at[q]
  BY FeederMoves DEF Tasks
<1>3. \A q \in Feeders : pc'[q] # "notes"
  BY <1>2
<1>4. at[p] <= tip /\ tip \in Nat
  BY DEF Sound, Typed, Places
<1>5. Unfed'
  BY <1>1 DEF Unfed
<1>6. FedTyped'
  <2>1. InOrder' => fed'[1] \in 1 .. fed'[2] /\ fed'[2] <= tip' /\ fed' \in Nat \X Nat
    <3>1. InOrder => fed[1] \in 1 .. fed[2]
      BY DEF Feeding, FedTyped
    <3>2. ASSUME InOrder' PROVE fed'[1] \in 1 .. fed'[2] /\ fed'[2] <= tip' /\ fed' \in Nat \X Nat
      <4>1. fed'[1] = fed[1] /\ fed'[2] = fed[2] + 1 /\ fed[1] \in Nat /\ fed[2] \in Nat
        BY <1>1, <3>2
      <4> QED
        BY <1>1, <1>4, <3>1, <3>2, <4>1
    <3> QED
      BY <3>2
  <2>2. pc'[Recovery] \in {"start", "seed", "position"} => pc[Recovery] \in {"start", "seed", "position"}
    BY <1>2 DEF Feeders
  <2>3. pc'[Recovery] \in {"start", "seed", "position"} => ~InOrder'
    BY <1>1, <2>2 DEF Feeding, FedTyped
  <2>4. fed' \in {None, Broken} \cup (Nat \X Nat)
    BY <1>1, <2>1
  <2>5. InOrder' => fed'[1] \in 1 .. fed'[2] /\ fed'[2] <= tip'
    BY <2>1
  <2> HIDE DEF InOrder
  <2> QED
    BY <2>3, <2>4, <2>5 DEF FedTyped, Broken
<1>7. Grown'
  <2> SUFFICES ASSUME InOrder' PROVE next' = ChainSize(fed[2])' /\ Stands(fed[2])'
    BY <1>3 DEF Grown
  <2>1. fed'[2] = fed[2] + 1
    BY <1>1
  <2>2. ChainSize(fed[2])' = ChainSize(fed[2] + 1) /\ ChainTree(fed[2])' = ChainTree(fed[2] + 1)
    BY <2>1 DEF ChainTree, ChainSize, ChainPosition, Through
  <2> QED
    BY <2>1, <2>2 DEF Stands
<1> QED
  BY <1>5, <1>6, <1>7 DEF Feeding

\* The order as a number: blocks up to b are fed and b + 1 is at hand.
LEMMA AtHand ==
  ASSUME Sound, Feeding, NEW p \in Feeders, InOrder, at[p] = fed[2] + 1,
         pc[p] \in {"fetch", "next", "tree", "notes"}
  PROVE  /\ fed[2] \in Nat /\ fed[2] + 1 <= Len(chain) /\ Len(chain) \in Nat
         /\ fed[2] + 1 \in 1 .. Len(chain)
         /\ fed[2] \in 0 .. Len(chain) - 1 /\ fed[2] \in 0 .. Len(chain)
         /\ fed[2] + 1 \in 0 .. Len(chain)
         /\ Typed
<1>1. fed[2] \in Nat
  <2>1. fed \in Nat \X Nat
    BY DEF Feeding, FedTyped, InOrder
  <2> QED
    BY <2>1
<1>2. at[p] <= tip /\ tip \in Nat /\ tip <= Len(chain) /\ Typed
  BY DEF Sound, Typed, Places
<1>3. Len(chain) \in Nat
  BY <1>2, ChainShape
<1> QED
  BY <1>1, <1>2, <1>3

LEMMA EmptyFeeding ==
  ASSUME Sound, Feeding, NEW p \in Feeders, EmptyBlock(p)
  PROVE  Feeding'
<1>1. /\ pc[p] = "tree" /\ Quiet /\ FedBy(p) /\ Finished(p) /\ chain[at[p]] = <<>>
      /\ UNCHANGED <<chain, tip, tree, next>> /\ ckpt' = Checkpointed(tree, at[p])
  BY TreeIsFree DEF EmptyBlock, chainVars
<1>2. ASSUME InOrder'
      PROVE  /\ next' = ChainSize(fed[2] + 1) /\ tree' = ChainTree(fed[2] + 1)
             /\ ckpt' = [height |-> fed[2] + 1, size |-> ChainSize(fed[2] + 1)]
  <2>1. InOrder /\ at[p] = fed[2] + 1
    BY <1>1, <1>2, FedFurther DEF Feeding
  <2>2. next = ChainSize(fed[2]) /\ Stands(fed[2])
    BY <1>1, <2>1 DEF Feeding, Grown
  <2>3. /\ fed[2] \in Nat /\ fed[2] + 1 <= Len(chain) /\ fed[2] \in 0 .. Len(chain) /\ Typed
    BY <1>1, <2>1, AtHand
  <2>4. ChainTree(fed[2] + 1) = ChainTree(fed[2]) /\ ChainSize(fed[2] + 1) = ChainSize(fed[2])
    BY <1>1, <2>1, <2>3, TreeStays
  <2>5. Size(tree) = ChainSize(fed[2])
    BY <2>2, <2>3, TreeSize DEF Stands
  <2>6. ckpt.height = fed[2] /\ fed[2] + 1 > fed[2]
    BY <2>2, <2>3 DEF Stands
  <2>7. ckpt' = [height |-> fed[2] + 1, size |-> Size(tree)]
    BY <1>1, <2>1, <2>6 DEF Checkpointed
  <2> QED
    BY <1>1, <2>2, <2>4, <2>5, <2>7 DEF Stands
<1>3. \A q \in Feeders \ {p} : pc[q] # "notes"
  BY <1>1 DEF Quiet
<1> QED
  BY <1>1, <1>2, <1>3, BlockFed

LEMMA NotesFeeding ==
  ASSUME Sound, Feeding, NEW p \in Feeders, TrackNotes(p)
  PROVE  Feeding'
<1>1. /\ pc[p] = "notes" /\ FedBy(p) /\ Finished(p) /\ next' = next + Len(chain[at[p]])
      /\ UNCHANGED <<chain, tip, tree, ckpt>>
  BY DEF TrackNotes, chainVars
<1>2. ASSUME InOrder'
      PROVE  /\ next' = ChainSize(fed[2] + 1) /\ tree' = ChainTree(fed[2] + 1)
             /\ ckpt' = [height |-> fed[2] + 1, size |-> ChainSize(fed[2] + 1)]
  <2>1. InOrder /\ at[p] = fed[2] + 1
    BY <1>1, <1>2, FedFurther DEF Feeding
  <2>2. next = ChainSize(fed[2]) /\ Stands(fed[2] + 1)
    BY <1>1, <2>1 DEF Feeding, Grown
  <2>3. fed[2] \in 0 .. Len(chain) - 1 /\ Typed
    BY <1>1, <2>1, AtHand
  <2>4. ChainSize(fed[2] + 1) = ChainSize(fed[2]) + Len(chain[fed[2] + 1])
    BY <2>3, ThroughFinite
  <2> QED
    BY <1>1, <2>1, <2>2, <2>4 DEF Stands
<1>3. \A q \in Feeders \ {p} : pc[q] # "notes"
  BY <1>1, OneAtNotes
<1> QED
  BY <1>1, <1>2, <1>3, BlockFed

LEMMA InsertFeeding ==
  ASSUME Sound, Feeding, NEW p \in Feeders, InsertBlock(p)
  PROVE  Feeding'
<1>1. /\ pc[p] = "tree" /\ Quiet /\ pc' = [pc EXCEPT ![p] = "notes"]
      /\ tree' = Put(Inserted(at[p])) /\ ckpt' = Checkpointed(tree', at[p])
      /\ UNCHANGED <<chain, tip, next, notes, at, tx, used, fed>>
  BY TreeIsFree DEF InsertBlock, chainVars, treeVars, walletVars, history, Go
<1>2. /\ pc'[p] = "notes" /\ \A q \in Tasks \ {p} : pc'[q] = pc[q]
      /\ p \in Tasks /\ p # Anchor /\ Anchor \in Tasks /\ Recovery \in Tasks
  BY <1>1 DEF Sound, Typed, Tasks, Feeders, Recovery, Scanner, Anchor
<1>3. ~Quiet'
  BY <1>2 DEF Quiet
<1>4. InOrder' <=> InOrder
  BY <1>1 DEF InOrder, Broken
<1>5. Unfed'
  BY <1>1, <1>2, <1>3 DEF Feeding, Unfed
<1>6. FedTyped'
  <2>1. pc'[Recovery] \in {"start", "seed", "position"} => pc[Recovery] \in {"start", "seed", "position"}
    BY <1>2
  <2> QED
    BY <1>1, <1>4, <2>1 DEF Feeding, FedTyped, Broken
<1>7. ASSUME InOrder, at[p] = fed[2] + 1 PROVE Stands(fed[2] + 1)'
  <2>1. next = ChainSize(fed[2]) /\ Stands(fed[2])
    BY <1>1, <1>7 DEF Feeding, Grown
  <2>2. /\ fed[2] \in Nat /\ fed[2] + 1 <= Len(chain) /\ fed[2] + 1 \in 0 .. Len(chain) /\ Typed
    BY <1>1, <1>7, AtHand
  <2>3. tree' = ChainTree(fed[2] + 1)
    BY <1>1, <1>7, <2>1, <2>2, TreeGrows DEF Stands
  <2>4. Size(tree') = ChainSize(fed[2] + 1)
    BY <2>2, <2>3, TreeSize
  <2>5. ckpt.height = fed[2] /\ fed[2] + 1 > fed[2]
    BY <2>1, <2>2 DEF Stands
  <2>6. ckpt' = [height |-> fed[2] + 1, size |-> ChainSize(fed[2] + 1)]
    BY <1>1, <1>7, <2>4, <2>5 DEF Checkpointed
  <2>7. /\ ChainSize(fed[2] + 1)' = ChainSize(fed[2] + 1)
        /\ ChainTree(fed[2] + 1)' = ChainTree(fed[2] + 1)
    BY <1>1 DEF ChainTree, ChainSize, ChainPosition, Through
  <2> QED
    BY <1>1, <2>3, <2>6, <2>7 DEF Stands
<1>8. Grown'
  <2> SUFFICES ASSUME InOrder
               PROVE  /\ next' = ChainSize(fed[2])'
                      /\ \A q \in Feeders : pc'[q] = "notes" /\ at'[q] = fed'[2] + 1
                                              => Stands(fed[2] + 1)'
    BY <1>3, <1>4 DEF Grown
  <2>1. next' = ChainSize(fed[2])'
    <3>1. next = ChainSize(fed[2])
      BY DEF Feeding, Grown
    <3>2. ChainSize(fed[2])' = ChainSize(fed[2])
      BY <1>1 DEF ChainSize, Through
    <3> QED
      BY <1>1, <3>1, <3>2
  <2>2. \A q \in Feeders : pc'[q] = "notes" => q = p
    BY <1>1, <1>2 DEF Quiet, Tasks
  <2> QED
    BY <1>1, <1>7, <2>1, <2>2
<1> QED
  BY <1>5, <1>6, <1>8 DEF Feeding

\* Places keeps the recovery scan on its way: what comes before the seed is
\* never entered again.
LEMMA NextFeeding == Sound /\ Feeding /\ [Next]_vars => Feeding'
<1> SUFFICES ASSUME Sound, Feeding, [Next]_vars PROVE Feeding'
  OBVIOUS
<1> USE DEF chainVars, treeVars, walletVars, taskVars, history, Go, Recovery, Scanner, Anchor, Tasks,
            Feeders
<1>0. /\ pc \in [Tasks -> {"start", "seed", "position", "fetch", "next", "tree", "notes",
                            "ended", "idle", "witness", "sent"}]
      /\ at \in [Feeders -> Nat] /\ tip \in Nat /\ Places
      /\ fed = None => notes = <<>> /\ pc[Anchor] = "idle"
  BY DEF Sound, Typed, Feeding, Unfed
<1>1. CASE Mine
  BY <1>0, <1>1, FeedingKept DEF Mine
<1>2. CASE RecoveryReturns \/ RecoveryStart \/ RecoveryStartYoung \/ SeedFails
  <2>1. /\ UNCHANGED <<chain, tip, tree, ckpt, next, notes, fed, tx, used>>
        /\ pc[Recovery] \in {"start", "seed"} /\ pc'[Recovery] \in {"start", "seed", "fetch", "ended"}
        /\ pc'[Scanner] = pc[Scanner] /\ pc'[Anchor] = pc[Anchor] /\ at'[Scanner] = at[Scanner]
    BY <1>0, <1>2 DEF RecoveryReturns, RecoveryStart, RecoveryStartYoung, SeedFails
  <2> QED
    BY <1>0, <2>1, FeedingKept
<1>3. CASE SeedFrontier
  BY <1>3, SeedFeeding
<1>4. CASE SeedPosition
  BY <1>4, SeededFeeding
<1>5. CASE ScanRound \/ RoundFails
  <2>1. /\ UNCHANGED <<chain, tip, tree, ckpt, next, notes, fed, tx, used>>
        /\ pc[Scanner] # "notes" /\ pc'[Scanner] # "notes"
        /\ pc'[Recovery] = pc[Recovery] /\ pc'[Anchor] = pc[Anchor] /\ at'[Recovery] = at[Recovery]
    BY <1>0, <1>5 DEF ScanRound, RoundFails
  <2> QED
    BY <1>0, <2>1, FeedingKept
<1>6. ASSUME NEW p \in Feeders, Fetch(p) \/ LockNext(p) PROVE Feeding'
  <2>1. /\ UNCHANGED <<chain, tip, tree, ckpt, next, notes, fed, tx, used, at>>
        /\ pc[p] \in {"fetch", "next"} /\ pc'[p] \in {"next", "tree"}
        /\ \A q \in Tasks \ {p} : pc'[q] = pc[q]
    BY <1>0, <1>6 DEF Fetch, LockNext
  <2> QED
    BY <1>0, <2>1, FeedingKept
<1>7. ASSUME NEW p \in Feeders, FetchFails(p) \/ InsertFails(p) PROVE Feeding'
  <2>1. /\ UNCHANGED <<chain, tip, tree, ckpt, next, notes, fed, tx, used>>
        /\ pc[p] \in {"fetch", "tree"} /\ Finished(p)
    BY <1>7 DEF FetchFails, InsertFails
  <2>2. /\ pc'[p] \notin {"start", "seed", "position", "tree", "notes"}
        /\ \A q \in Tasks \ {p} : pc'[q] = pc[q]
        /\ \A q \in Feeders \ {p} : at'[q] = at[q]
    BY <2>1, FeederMoves
  <2> QED
    BY <1>0, <2>1, <2>2, FeedingKept
<1>8. ASSUME NEW p \in Feeders, EmptyBlock(p) \/ InsertBlock(p) \/ TrackNotes(p) PROVE Feeding'
  BY <1>8, EmptyFeeding, InsertFeeding, NotesFeeding
<1>9. CASE AnchorStep
  <2>1. /\ UNCHANGED <<chain, tip, tree, ckpt, next, fed, at>>
        /\ pc'[Recovery] = pc[Recovery] /\ pc'[Scanner] = pc[Scanner]
    BY <1>0, <1>9 DEF AnchorStep, Select, Witness, EnsureSpent, NotSent
  <2>2. fed # None
    <3>1. CASE Select
      <4>1. DOMAIN <<>> = {}
        OBVIOUS
      <4> QED
        BY <1>0, <3>1, <4>1 DEF Select
    <3>2. CASE Witness \/ EnsureSpent \/ NotSent
      BY <1>0, <3>2 DEF Witness, EnsureSpent, NotSent
    <3> QED
      BY <1>9, <3>1, <3>2 DEF AnchorStep
  <2> QED
    BY <1>0, <2>1, <2>2, FeedingKept
<1>10. CASE UNCHANGED vars
  BY <1>0, <1>10, FeedingKept DEF vars
<1> QED
  BY <1>1, <1>2, <1>3, <1>4, <1>5, <1>6, <1>7, <1>8, <1>9, <1>10 DEF Next, RecoveryStep, Feed

LEMMA FeedingInvariant == Spec => [](Sound /\ Feeding)
<1>1. (Sound /\ Feeding) /\ [Next]_vars => (Sound /\ Feeding)'
  BY NextSound, NextFeeding
<1> QED
  BY <1>1, InitSound, InitFeeding, PTL DEF Spec

-----------------------------------------------------------------------------
(* The notes a block brings. *)

Note == [id : Nat \X Nat, position : Nat, spent : BOOLEAN]

NoteAt(h, i) == [id |-> <<h, i>>, position |-> next + i - 1, spent |-> FALSE]

\* NewNotes, action by action.
NotesUpTo(h) ==
  CHOOSE found : found = [i \in 0 .. Len(chain[h]) |->
    IF i = 0 THEN <<>>
    ELSE IF chain[h][i].ours
    THEN Append(found[i - 1], [id |-> <<h, i>>, position |-> next + i - 1, spent |-> FALSE])
    ELSE found[i - 1]]

LEMMA NewNotesDefined ==
  ASSUME NEW h, Len(chain[h]) \in Nat
  PROVE  LET found == NotesUpTo(h) IN
         /\ NewNotes(h) = found[Len(chain[h])]
         /\ found[0] = <<>>
         /\ \A i \in 1 .. Len(chain[h]) :
              found[i] = IF chain[h][i].ours THEN Append(found[i - 1], NoteAt(h, i))
                         ELSE found[i - 1]
<1> DEFINE N == Len(chain[h])
           step(i, rows) == IF chain[h][i].ours THEN Append(rows, NoteAt(h, i)) ELSE rows
           On(f, m) == [i \in 0 .. m |-> IF i = 0 THEN <<>> ELSE step(i, f[i - 1])]
           S == {m \in Nat : \E f : f = On(f, m)}
           found == NotesUpTo(h)
<1>1. found = CHOOSE f : f = On(f, N)
  BY Zenon DEF NotesUpTo, NoteAt
<1>2. NewNotes(h) = found[N]
  BY Zenon DEF NewNotes, NotesUpTo
<1> HIDE DEF step, found
<1>3. 0 \in S
  <2>1. [i \in 0 .. 0 |-> <<>>] = On([i \in 0 .. 0 |-> <<>>], 0)
    OBVIOUS
  <2> QED
    BY <2>1
<1>4. ASSUME NEW m \in Nat, m \in S PROVE m + 1 \in S
  <2>1. PICK f : f = On(f, m)
    BY <1>4
  <2> DEFINE g == [i \in 0 .. m + 1 |-> IF i = m + 1 THEN step(m + 1, f[m]) ELSE f[i]]
  <2>2. ASSUME NEW i \in 0 .. m + 1 PROVE g[i] = On(g, m + 1)[i]
    <3>1. CASE i = 0
      BY <2>1, <3>1
    <3>2. CASE i \in 1 .. m
      <4>1. g[i] = f[i] /\ g[i - 1] = f[i - 1]
        BY <3>2
      <4>2. f[i] = step(i, f[i - 1])
        BY <2>1, <3>2
      <4>3. On(g, m + 1)[i] = step(i, g[i - 1])
        BY <3>2
      <4> QED
        BY <4>1, <4>2, <4>3
    <3>3. CASE i = m + 1
      <4>1. g[i] = step(m + 1, f[m]) /\ g[i - 1] = f[m]
        BY <3>3
      <4>2. On(g, m + 1)[i] = step(i, g[i - 1])
        BY <3>3
      <4> QED
        BY <3>3, <4>1, <4>2
    <3> QED
      BY <3>1, <3>2, <3>3
  <2>3. g = On(g, m + 1)
    BY <2>2
  <2> HIDE DEF g
  <2> QED
    BY <2>3
<1>5. \E f : f = On(f, N)
  <2>1. N \in S
    <3> HIDE DEF S
    <3> QED
      BY <1>3, <1>4, InductiveSet
  <2> QED
    BY <2>1
<1>6. found = On(found, N)
  BY <1>1, <1>5
<1>7. found[0] = <<>> /\ \A i \in 1 .. N : found[i] = step(i, found[i - 1])
  <2>1. 0 \in 0 .. N /\ \A i \in 1 .. N : i \in 0 .. N /\ i # 0
    OBVIOUS
  <2>2. \A i \in 0 .. N : found[i] = IF i = 0 THEN <<>> ELSE step(i, found[i - 1])
    BY <1>6
  <2> HIDE DEF N
  <2> QED
    BY <2>1, <2>2
<1> QED
  BY <1>2, <1>7 DEF step, found

\* Each note of this wallet in the block, once and where the block puts it.
BlockNotes(rows, h, n) ==
  /\ rows \in Seq(Note)
  /\ {rows[k].id : k \in DOMAIN rows} = {<<h, i>> : i \in {i \in 1 .. n : chain[h][i].ours}}
  /\ \A j, k \in DOMAIN rows : rows[j].id = rows[k].id => j = k
  /\ \A k \in DOMAIN rows : /\ rows[k].position = next + rows[k].id[2] - 1
                            /\ rows[k].spent = FALSE

LEMMA BlockNote ==
  ASSUME NEW h \in Nat, NEW n \in Nat, next \in Nat, NEW rows, BlockNotes(rows, h, n)
  PROVE  /\ chain[h][n + 1].ours => BlockNotes(Append(rows, NoteAt(h, n + 1)), h, n + 1)
         /\ ~chain[h][n + 1].ours => BlockNotes(rows, h, n + 1)
<1> DEFINE ours(m) == {i \in 1 .. m : chain[h][i].ours}
           new == Append(rows, NoteAt(h, n + 1))
<1>1. 1 .. n + 1 = (1 .. n) \cup {n + 1} /\ n + 1 \notin 1 .. n
  OBVIOUS
<1>2. CASE ~chain[h][n + 1].ours
  <2>1. ours(n + 1) = ours(n)
    BY <1>1, <1>2
  <2> QED
    BY <1>2, <2>1 DEF BlockNotes
<1>3. CASE chain[h][n + 1].ours
  <2>1. ours(n + 1) = ours(n) \cup {n + 1} /\ n + 1 \notin ours(n)
    BY <1>1, <1>3
  <2>2. NoteAt(h, n + 1) \in Note
    BY DEF NoteAt, Note
  <2>3. rows \in Seq(Note) /\ IsTable(rows)
    BY TypedTable DEF BlockNotes
  <2>4. new \in Seq(Note)
    BY <2>2, <2>3, AppendProperties
  <2>5. /\ DOMAIN new = DOMAIN rows \cup {Len(rows) + 1} /\ Len(rows) + 1 \notin DOMAIN rows
        /\ \A k \in DOMAIN rows : new[k] = rows[k]
        /\ new[Len(rows) + 1] = NoteAt(h, n + 1)
    <3>1. Len(rows) \in Nat /\ DOMAIN rows = 1 .. Len(rows)
      BY <2>3, TableIndexes
    <3>2. DOMAIN new = 1 .. Len(rows) + 1
      BY <2>3, InsertRow
    <3> QED
      BY <2>3, <3>1, <3>2, InsertRow
  <2>6. /\ NoteAt(h, n + 1).id = <<h, n + 1>> /\ NoteAt(h, n + 1).id[2] = n + 1
        /\ NoteAt(h, n + 1).position = next + (n + 1) - 1 /\ NoteAt(h, n + 1).spent = FALSE
    BY DEF NoteAt
  <2>7. {new[k].id : k \in DOMAIN new} = {rows[k].id : k \in DOMAIN rows} \cup {<<h, n + 1>>}
    <3>1. new[Len(rows) + 1].id = <<h, n + 1>>
      BY <2>5, <2>6
    <3>2. \A k \in DOMAIN rows : new[k].id = rows[k].id
      BY <2>5
    <3>3. DOMAIN new = DOMAIN rows \cup {Len(rows) + 1}
      BY <2>5
    <3> HIDE DEF new
    <3> QED
      BY <3>1, <3>2, <3>3
  <2>8. {<<h, i>> : i \in ours(n + 1)} = {<<h, i>> : i \in ours(n)} \cup {<<h, n + 1>>}
    BY <2>1
  <2>9. \A k \in DOMAIN rows : rows[k].id # <<h, n + 1>>
    <3>1. \A k \in DOMAIN rows : rows[k].id \in {<<h, i>> : i \in ours(n)}
      BY DEF BlockNotes
    <3> QED
      BY <2>1, <3>1
  <2>10. \A j, k \in DOMAIN new : new[j].id = new[k].id => j = k
    <3> HIDE DEF new
    <3> QED
      BY <2>5, <2>6, <2>9 DEF BlockNotes
  <2>11. \A k \in DOMAIN new : new[k].position = next + new[k].id[2] - 1 /\ new[k].spent = FALSE
    <3> HIDE DEF new
    <3> QED
      BY <2>5, <2>6 DEF BlockNotes
  <2>12. BlockNotes(new, h, n + 1)
    <3> HIDE DEF new
    <3> QED
      BY <2>4, <2>7, <2>8, <2>10, <2>11 DEF BlockNotes
  <2> QED
    BY <1>3, <2>12
<1> QED
  BY <1>2, <1>3

LEMMA NewNotesFound ==
  ASSUME Typed, next \in Nat, NEW h \in 1 .. Len(chain)
  PROVE  BlockNotes(NewNotes(h), h, Len(chain[h]))
<1> DEFINE N == Len(chain[h])
           found == NotesUpTo(h)
           S == {n \in 0 .. N : BlockNotes(found[n], h, n)}
<1>1. N \in Nat /\ h \in Nat
  BY ChainShape
<1>2. /\ NewNotes(h) = found[N] /\ found[0] = <<>>
      /\ \A i \in 1 .. N : found[i] = IF chain[h][i].ours THEN Append(found[i - 1], NoteAt(h, i))
                                      ELSE found[i - 1]
  BY <1>1, NewNotesDefined
<1> HIDE DEF found
<1>3. 0 \in S
  <2>1. <<>> \in Seq(Note) /\ DOMAIN <<>> = {} /\ 1 .. 0 = {}
    OBVIOUS
  <2>2. BlockNotes(<<>>, h, 0)
    BY <2>1 DEF BlockNotes
  <2> QED
    BY <1>1, <1>2, <2>2
<1>4. ASSUME NEW n \in 0 .. N - 1, n \in S PROVE n + 1 \in S
  <2>1. n + 1 \in 1 .. N /\ (n + 1) - 1 = n /\ n + 1 \in 0 .. N /\ n \in Nat
    BY <1>1
  <2>2. found[n + 1] = IF chain[h][n + 1].ours THEN Append(found[n], NoteAt(h, n + 1)) ELSE found[n]
    BY <1>2, <2>1
  <2>3. BlockNotes(found[n], h, n)
    BY <1>4
  <2>4. BlockNotes(found[n + 1], h, n + 1)
    BY <1>1, <2>1, <2>2, <2>3, BlockNote
  <2> QED
    BY <2>1, <2>4
<1>5. 0 .. N \subseteq S
  <2> HIDE DEF S
  <2> QED
    BY <1>1, <1>3, <1>4, InductiveUpTo
<1>6. N \in 0 .. N
  BY <1>1
<1> QED
  BY <1>2, <1>5, <1>6

-----------------------------------------------------------------------------
(* Notes received and spent between two blocks. *)

FedIn(a, b) == Through(b) \ Through(a)
OwnedIn(a, b) == {id \in FedIn(a, b) : chain[id[1]][id[2]].ours}
RevealedIn(a, b) == {chain[id[1]][id[2]].spends : id \in FedIn(a, b)}

Received(h) == {<<h, i>> : i \in {i \in 1 .. Len(chain[h]) : chain[h][i].ours}}
Spends(h) == {chain[h][i].spends : i \in 1 .. Len(chain[h])}

\* Where ids come from.
LEMMA IdsIn ==
  ASSUME Typed, NEW a, NEW b \in 0 .. Len(chain), NEW id \in FedIn(a, b)
  PROVE  id \in Nat \X Nat /\ id \in Through(b) /\ id[1] <= b /\ id # None
<1>1. PICK k \in 1 .. b : \E i \in 1 .. Len(chain[k]) : id = <<k, i>>
  BY InThrough DEF FedIn
<1>1a. PICK i \in 1 .. Len(chain[k]) : id = <<k, i>>
  BY <1>1
<1>2. Len(chain) \in Nat /\ k \in 1 .. Len(chain)
  BY ChainShape
<1>3. k \in Nat /\ i \in Nat /\ k <= b
  BY <1>2, ChainShape
<1> QED
  BY <1>1a, <1>3, WalletAssumption DEF WalletAssumption, FedIn

LEMMA BlockIn ==
  ASSUME Typed, NEW a \in Nat, NEW b \in Nat, a <= b, b + 1 <= Len(chain)
  PROVE  /\ OwnedIn(a, b + 1) = OwnedIn(a, b) \cup Received(b + 1)
         /\ RevealedIn(a, b + 1) = RevealedIn(a, b) \cup Spends(b + 1)
<1> DEFINE New == {b + 1} \X (1 .. Len(chain[b + 1]))
<1>1. Through(b + 1) = Through(b) \cup New /\ Through(b) \cap New = {}
  BY NextBlock
<1>2. Through(a) \subseteq Through(b)
  <2>1. Len(chain) \in Nat
    BY ChainShape
  <2>2. a \in 0 .. Len(chain) /\ b \in 0 .. Len(chain)
    BY <2>1
  <2> QED
    BY <2>2, ThroughGrows
<1>3. FedIn(a, b + 1) = FedIn(a, b) \cup New
  <2> HIDE DEF New
  <2> QED
    BY <1>1, <1>2 DEF FedIn
<1>4. {id \in New : chain[id[1]][id[2]].ours} = Received(b + 1)
  <2>1. \A id : id \in New <=> \E i \in 1 .. Len(chain[b + 1]) : id = <<b + 1, i>>
    OBVIOUS
  <2> HIDE DEF New
  <2>2. ASSUME NEW id \in New, chain[id[1]][id[2]].ours PROVE id \in Received(b + 1)
    <3>1. PICK i \in 1 .. Len(chain[b + 1]) : id = <<b + 1, i>>
      BY <2>1
    <3> QED
      BY <2>2, <3>1 DEF Received
  <2>3. ASSUME NEW id \in Received(b + 1) PROVE id \in New /\ chain[id[1]][id[2]].ours
    <3>1. PICK i \in 1 .. Len(chain[b + 1]) : id = <<b + 1, i>> /\ chain[b + 1][i].ours
      BY DEF Received
    <3> QED
      BY <2>1, <3>1
  <2>4. \A x \in {id \in New : chain[id[1]][id[2]].ours} : x \in Received(b + 1)
    BY <2>2
  <2>5. \A x \in Received(b + 1) : x \in {id \in New : chain[id[1]][id[2]].ours}
    BY <2>3
  <2> QED
    BY <2>4, <2>5, Zenon
<1>5. {chain[id[1]][id[2]].spends : id \in New} = Spends(b + 1)
  <2>1. \A id \in New : \E i \in 1 .. Len(chain[b + 1]) : id = <<b + 1, i>>
    OBVIOUS
  <2>2. \A i \in 1 .. Len(chain[b + 1]) : <<b + 1, i>> \in New
    OBVIOUS
  <2> HIDE DEF New
  <2>3. \A id \in New : chain[id[1]][id[2]].spends \in Spends(b + 1)
    <3> SUFFICES ASSUME NEW id \in New PROVE chain[id[1]][id[2]].spends \in Spends(b + 1)
      OBVIOUS
    <3>1. PICK i \in 1 .. Len(chain[b + 1]) : id = <<b + 1, i>>
      BY <2>1
    <3> QED
      BY <3>1 DEF Spends
  <2>4. \A x \in Spends(b + 1) : \E id \in New : x = chain[id[1]][id[2]].spends
    <3> SUFFICES ASSUME NEW x \in Spends(b + 1)
                 PROVE  \E id \in New : x = chain[id[1]][id[2]].spends
      OBVIOUS
    <3>1. PICK i \in 1 .. Len(chain[b + 1]) : x = chain[b + 1][i].spends
      BY DEF Spends
    <3>2. <<b + 1, i>> \in New /\ <<b + 1, i>>[1] = b + 1 /\ <<b + 1, i>>[2] = i
      BY <2>2
    <3> QED
      BY <3>1, <3>2
  <2> QED
    BY <2>3, <2>4
<1> HIDE DEF New
<1>6. OwnedIn(a, b + 1) = OwnedIn(a, b) \cup Received(b + 1)
  <2>1. OwnedIn(a, b + 1) = OwnedIn(a, b) \cup {id \in New : chain[id[1]][id[2]].ours}
    BY <1>3 DEF OwnedIn
  <2> QED
    BY <1>4, <2>1
<1>7. RevealedIn(a, b + 1) = RevealedIn(a, b) \cup Spends(b + 1)
  <2>1. RevealedIn(a, b + 1)
        = RevealedIn(a, b) \cup {chain[id[1]][id[2]].spends : id \in New}
    BY <1>3 DEF RevealedIn
  <2> QED
    BY <1>5, <2>1
<1> QED
  BY <1>6, <1>7

\* What a block brings is not spent in it or before it.
LEMMA ReceivedUnspent ==
  ASSUME Typed, NEW a \in Nat, NEW b \in Nat, a <= b, b + 1 <= Len(chain),
         NEW id \in Received(b + 1)
  PROVE  id \notin RevealedIn(a, b + 1) /\ id \notin OwnedIn(a, b)
<1>0. Len(chain) \in Nat /\ b \in 0 .. Len(chain) /\ b + 1 \in 0 .. Len(chain)
      /\ b + 1 \in 1 .. Len(chain)
  BY ChainShape
<1>1. PICK i \in 1 .. Len(chain[b + 1]) : id = <<b + 1, i>>
  BY DEF Received
<1>2. id \in Nat \X Nat /\ id[1] = b + 1 /\ id # None
  <2>1. i \in Nat
    BY <1>0, ChainShape
  <2> QED
    BY <1>1, <2>1, WalletAssumption DEF WalletAssumption
<1>3. id \notin OwnedIn(a, b)
  <2> SUFFICES ASSUME id \in FedIn(a, b) PROVE FALSE
    BY DEF OwnedIn
  <2>1. id[1] <= b
    BY <1>0, IdsIn
  <2> QED
    BY <1>2, <2>1
<1>4. ASSUME id \in RevealedIn(a, b + 1) PROVE FALSE
  <2>1. PICK x \in FedIn(a, b + 1) : id = chain[x[1]][x[2]].spends
    BY <1>4 DEF RevealedIn
  <2>2. x \in Through(b + 1) /\ x[1] <= b + 1
    BY <1>0, <2>1, IdsIn
  <2>3. PICK k \in 1 .. b + 1 : \E j \in 1 .. Len(chain[k]) : x = <<k, j>>
    BY <2>2, InThrough
  <2>4. PICK j \in 1 .. Len(chain[k]) : x = <<k, j>>
    BY <2>3
  <2>5. k \in 1 .. Len(chain)
    BY <1>0
  <2>6. id = chain[k][j].spends
    BY <2>1, <2>4
  <2>7. chain[k][j].spends[1] < k
    BY <1>2, <2>5, <2>6, ChainShape
  <2>8. b + 1 < k /\ k <= b + 1 /\ k \in Nat
    BY <1>0, <1>2, <2>6, <2>7
  <2> QED
    BY <2>8
<1> QED
  BY <1>3, <1>4

\* The tracked notes, in a list.
Tracks(list, owned, spent) ==
  /\ list \in Seq(Note)
  /\ {list[k].id : k \in DOMAIN list} = owned
  /\ \A j, k \in DOMAIN list : list[j].id = list[k].id => j = k
  /\ \A k \in DOMAIN list : /\ list[k].position = ChainPosition(list[k].id)
                            /\ list[k].spent <=> list[k].id \in spent

\* The nullifiers of a block mark the notes they belong to.
LEMMA MarkedNotes ==
  ASSUME Typed, NEW h \in 1 .. Len(chain), NEW owned, NEW spent, Tracks(notes, owned, spent)
  PROVE  Tracks(MarkSpent(h), owned, spent \cup Spends(h))
<1> DEFINE new == MarkSpent(h)
<1>1. IsTable(notes) /\ notes \in Seq(Note)
  BY TypedTable DEF Tracks
<1>2. Len(notes) \in Nat /\ DOMAIN notes = 1 .. Len(notes) /\ \A k \in DOMAIN notes : notes[k] \in Note
  BY <1>1, TableIndexes
<1>3. DOMAIN chain[h] = 1 .. Len(chain[h])
  BY ChainShape
<1>4. ASSUME NEW k \in DOMAIN notes
      PROVE  \A j \in 1 .. k - 1 : notes[j].id # notes[k].id
  <2>1. \A j \in 1 .. k - 1 : j \in DOMAIN notes /\ j # k
    BY <1>2
  <2> QED
    BY <2>1 DEF Tracks
<1>5. ASSUME NEW k \in DOMAIN notes
      PROVE  new[k] = IF notes[k].id \in Spends(h) THEN [notes[k] EXCEPT !.spent = TRUE]
                      ELSE notes[k]
  <2>1. notes[k].id \in Spends(h) <=> \E i \in DOMAIN chain[h] : chain[h][i].spends = notes[k].id
    BY <1>3 DEF Spends
  <2>2. \A j \in 1 .. k - 1 : notes[j].id = notes[k].id => notes[j].spent
    BY <1>4
  <2> QED
    BY <2>1, <2>2 DEF MarkSpent
<1>6. DOMAIN new = DOMAIN notes
  BY DEF MarkSpent
<1> HIDE DEF new
<1>7. ASSUME NEW k \in DOMAIN notes
      PROVE  /\ new[k] \in Note /\ new[k].id = notes[k].id /\ new[k].position = notes[k].position
             /\ new[k].spent <=> notes[k].spent \/ notes[k].id \in Spends(h)
  <2>1. notes[k] \in Note
    BY <1>2
  <2>2. CASE notes[k].id \in Spends(h)
    <3>1. new[k] = [notes[k] EXCEPT !.spent = TRUE]
      BY <1>5, <2>2
    <3> QED
      BY <2>1, <2>2, <3>1 DEF Note
  <2>3. CASE notes[k].id \notin Spends(h)
    <3>1. new[k] = notes[k]
      BY <1>5, <2>3
    <3> QED
      BY <2>1, <2>3, <3>1
  <2> QED
    BY <2>2, <2>3
<1>8. new \in Seq(Note)
  <2>1. new \in [1 .. Len(notes) -> Note]
    <3>1. new = [k \in DOMAIN notes |-> new[k]]
      BY DEF new, MarkSpent
    <3> QED
      BY <1>2, <1>6, <1>7, <3>1
  <2> QED
    BY <1>2, <2>1
<1>9. {new[k].id : k \in DOMAIN new} = {notes[k].id : k \in DOMAIN notes}
  BY <1>6, <1>7
<1>10. \A j, k \in DOMAIN new : new[j].id = new[k].id => j = k
  BY <1>6, <1>7 DEF Tracks
<1>11. \A k \in DOMAIN new : /\ new[k].position = ChainPosition(new[k].id)
                             /\ new[k].spent <=> new[k].id \in spent \cup Spends(h)
  BY <1>6, <1>7 DEF Tracks
<1>12. {notes[k].id : k \in DOMAIN notes} = owned
  BY DEF Tracks
<1>13. Tracks(new, owned, spent \cup Spends(h))
  BY <1>8, <1>9, <1>10, <1>11, <1>12 DEF Tracks
<1> QED
  BY <1>13 DEF new

\* And what the block brings is added.
LEMMA AddedNotes ==
  ASSUME Typed, NEW b \in Nat, b + 1 <= Len(chain), next = ChainSize(b),
         NEW list, NEW owned, NEW spent, Tracks(list, owned, spent),
         owned \cap Received(b + 1) = {}, spent \cap Received(b + 1) = {}
  PROVE  Tracks(list \o NewNotes(b + 1), owned \cup Received(b + 1), spent)
<1> DEFINE new == NewNotes(b + 1)
           all == list \o new
           m == Len(list)
           n == Len(new)
<1>0. Len(chain) \in Nat /\ b \in 0 .. Len(chain) /\ b + 1 \in 1 .. Len(chain)
  BY ChainShape
<1>1. next \in Nat
  BY <1>0, ThroughFinite
<1>2. BlockNotes(new, b + 1, Len(chain[b + 1]))
  BY <1>0, <1>1, NewNotesFound
<1> HIDE DEF new
<1>3. list \in Seq(Note) /\ new \in Seq(Note) /\ IsTable(list) /\ IsTable(new)
  BY <1>2, TypedTable DEF Tracks, BlockNotes
<1>4. m \in Nat /\ n \in Nat /\ DOMAIN list = 1 .. m /\ DOMAIN new = 1 .. n
  BY <1>3, TableIndexes
<1>5. /\ all \in Seq(Note) /\ Len(all) = m + n
      /\ \A k \in 1 .. m + n : all[k] = IF k <= m THEN list[k] ELSE new[k - m]
  BY <1>3, ConcatProperties
<1>6. DOMAIN all = 1 .. m + n
  <2>1. IsTable(all)
    BY <1>5, TypedTable
  <2> QED
    BY <1>5, <2>1, TableIndexes
<1> HIDE DEF all, m, n
<1>7. /\ \A k \in 1 .. m : k \in DOMAIN all /\ all[k] = list[k]
      /\ \A k \in 1 .. n : k + m \in DOMAIN all /\ all[k + m] = new[k]
  <2>1. \A k \in 1 .. n : k + m \in 1 .. m + n /\ ~(k + m <= m) /\ (k + m) - m = k
    BY <1>4
  <2>2. \A k \in 1 .. m : k \in 1 .. m + n /\ k <= m
    BY <1>4
  <2> QED
    BY <1>5, <1>6, <2>1, <2>2
<1>8. ASSUME NEW k \in DOMAIN all
      PROVE  \/ k \in 1 .. m /\ all[k] = list[k]
             \/ k - m \in 1 .. n /\ all[k] = new[k - m] /\ ~(k \in 1 .. m)
  BY <1>4, <1>5, <1>6
<1>9. /\ {list[k].id : k \in 1 .. m} = owned
      /\ {new[k].id : k \in 1 .. n} = Received(b + 1)
  BY <1>2, <1>4 DEF Tracks, BlockNotes, Received
<1>10. /\ \A k \in 1 .. m : list[k].id \in owned /\ list[k].id \notin Received(b + 1)
       /\ \A k \in 1 .. n : new[k].id \in Received(b + 1) /\ new[k].id \notin owned
                            /\ new[k].id \notin spent
  BY <1>9
<1>11. {all[k].id : k \in DOMAIN all} = owned \cup Received(b + 1)
  <2>1. \A k \in DOMAIN all : all[k].id \in owned \cup Received(b + 1)
    BY <1>8, <1>10
  <2>2. \A id \in owned : \E k \in DOMAIN all : all[k].id = id
    BY <1>7, <1>9
  <2>3. \A id \in Received(b + 1) : \E k \in DOMAIN all : all[k].id = id
    BY <1>7, <1>9
  <2> QED
    BY <2>1, <2>2, <2>3
<1>12. ASSUME NEW j \in DOMAIN all, NEW k \in DOMAIN all, all[j].id = all[k].id PROVE j = k
  <2>1. CASE j \in 1 .. m /\ k \in 1 .. m
    BY <1>4, <1>7, <1>12, <2>1 DEF Tracks
  <2>2. CASE j - m \in 1 .. n /\ k - m \in 1 .. n /\ all[j] = new[j - m] /\ all[k] = new[k - m]
    <3>1. j - m = k - m
      BY <1>2, <1>4, <1>12, <2>2 DEF BlockNotes
    <3> QED
      BY <1>4, <1>6, <3>1
  <2> QED
    BY <1>8, <1>10, <1>12, <2>1, <2>2
<1>13. ASSUME NEW k \in 1 .. n
       PROVE  new[k].position = ChainPosition(new[k].id) /\ new[k].spent = FALSE
  <2>1. new[k].id \in Received(b + 1)
    BY <1>10
  <2>2. PICK i \in 1 .. Len(chain[b + 1]) : new[k].id = <<b + 1, i>>
    BY <2>1 DEF Received
  <2>3. new[k].position = next + i - 1 /\ new[k].spent = FALSE
    BY <1>2, <1>4, <2>2 DEF BlockNotes
  <2>4. (b + 1) - 1 = b
    OBVIOUS
  <2>5. ChainPosition(<<b + 1, i>>) = ChainSize(b) + i - 1
    BY <2>4 DEF ChainPosition
  <2> QED
    BY <2>2, <2>3, <2>5
<1>14. ASSUME NEW k \in DOMAIN all
       PROVE  /\ all[k].position = ChainPosition(all[k].id)
              /\ all[k].spent <=> all[k].id \in spent
  <2>1. CASE k \in 1 .. m /\ all[k] = list[k]
    BY <1>4, <2>1 DEF Tracks
  <2>2. CASE k - m \in 1 .. n /\ all[k] = new[k - m]
    BY <1>10, <1>13, <2>2
  <2> QED
    BY <1>8, <2>1, <2>2
<1>15. Tracks(all, owned \cup Received(b + 1), spent)
  BY <1>5, <1>11, <1>12, <1>14 DEF Tracks
<1> QED
  BY <1>15 DEF all, new

-----------------------------------------------------------------------------
(* Notes, choices and spends. *)

\* The wallet tracks each note received once, where the chain has it, and
\* knows which are spent.
NotesSound ==
  InOrder =>
    /\ Tracks(notes, OwnedIn(fed[1], fed[2]), RevealedIn(fed[1], fed[2]) \cup used)
    /\ used \subseteq OwnedIn(fed[1], fed[2])

\* The note that was selected is one of them.
ChoiceSound ==
  InOrder /\ pc[Anchor] \in {"witness", "sent"} =>
    choice.id \in OwnedIn(fed[1], fed[2]) /\ choice.position = ChainPosition(choice.id)

Noted == NotesSound /\ ChoiceSound /\ SpendIsValid

\* What the notes and the choice have to be after a step.
LEMMA NotesMean ==
  ASSUME UNCHANGED chain,
         InOrder' => /\ Tracks(notes', OwnedIn(fed'[1], fed'[2]), RevealedIn(fed'[1], fed'[2]) \cup used')
                     /\ used' \subseteq OwnedIn(fed'[1], fed'[2])
  PROVE  NotesSound'
<1>1. /\ OwnedIn(fed[1], fed[2])' = OwnedIn(fed'[1], fed'[2])
      /\ RevealedIn(fed[1], fed[2])' = RevealedIn(fed'[1], fed'[2])
  BY DEF OwnedIn, RevealedIn, FedIn, Through
<1>2. Tracks(notes, OwnedIn(fed[1], fed[2]), RevealedIn(fed[1], fed[2]) \cup used)'
      <=> Tracks(notes', OwnedIn(fed'[1], fed'[2]), RevealedIn(fed'[1], fed'[2]) \cup used')
  BY <1>1 DEF Tracks, ChainPosition, ChainSize, Through
<1> QED
  BY <1>1, <1>2 DEF NotesSound

LEMMA ChoiceMeans ==
  ASSUME UNCHANGED chain,
         InOrder' /\ pc'[Anchor] \in {"witness", "sent"} =>
           choice'.id \in OwnedIn(fed'[1], fed'[2]) /\ choice'.position = ChainPosition(choice'.id)
  PROVE  ChoiceSound'
<1>1. OwnedIn(fed[1], fed[2])' = OwnedIn(fed'[1], fed'[2])
  BY DEF OwnedIn, FedIn, Through
<1>2. ChainPosition(choice.id)' = ChainPosition(choice'.id)
  BY DEF ChainPosition, ChainSize, Through
<1> QED
  BY <1>1, <1>2 DEF ChoiceSound

\* A spend that was valid stays so.
LEMMA SpendStays ==
  ASSUME SpendIsValid, UNCHANGED <<chain, tx>>, tip \in Nat, tip' \in Nat, tip <= tip',
         InOrder' => InOrder \/ tx = None
  PROVE  SpendIsValid'
<1>1. \A h : ChainTree(h)' = ChainTree(h)
  BY ChainStays
<1> SUFFICES ASSUME InOrder', tx' # None
             PROVE  /\ tx'.position \in DOMAIN tx'.leaves /\ tx'.leaves[tx'.position] = tx'.id
                    /\ \E h \in 1 .. tip' : tx'.leaves = ChainTree(h)
  BY <1>1 DEF SpendIsValid
<1>2. /\ tx.position \in DOMAIN tx.leaves /\ tx.leaves[tx.position] = tx.id
      /\ \E h \in 1 .. tip : tx.leaves = ChainTree(h)
  BY DEF SpendIsValid
<1>3. 1 .. tip \subseteq 1 .. tip'
  OBVIOUS
<1> QED
  BY <1>2, <1>3

\* Steps that leave the notes and the order alone.
LEMMA NotedKept ==
  ASSUME Sound, Noted, UNCHANGED <<chain, notes, used, choice, tx, fed>>,
         tip' \in Nat, tip <= tip',
         pc'[Anchor] \in {"witness", "sent"} => pc[Anchor] \in {"witness", "sent"}
  PROVE  Noted'
<1>1. InOrder' <=> InOrder
  BY DEF InOrder, Broken
<1>2. NotesSound'
  BY <1>1, NotesMean DEF Noted, NotesSound
<1>3. ChoiceSound'
  BY <1>1, ChoiceMeans DEF Noted, ChoiceSound
<1>4. SpendIsValid'
  BY <1>1, SpendStays DEF Noted, Sound, Typed
<1> QED
  BY <1>2, <1>3, <1>4 DEF Noted

\* The two heights of the order.
LEMMA OrderTyped ==
  ASSUME Sound, Feeding, InOrder
  PROVE  /\ fed \in Nat \X Nat /\ fed[1] \in Nat /\ fed[2] \in Nat /\ fed[1] <= fed[2]
         /\ fed[2] \in 1 .. tip /\ fed[2] \in 0 .. Len(chain) /\ Len(chain) \in Nat /\ Typed
<1>1. fed \in Nat \X Nat
  BY DEF Feeding, FedTyped, InOrder
<1>2. fed[1] \in 1 .. fed[2] /\ fed[2] <= tip
  BY DEF Feeding, FedTyped
<1>3. tip \in Nat /\ tip <= Len(chain) /\ Typed
  BY DEF Sound, Typed
<1>4. Len(chain) \in Nat
  BY <1>3, ChainShape
<1>5. fed[1] \in Nat /\ fed[2] \in Nat
  BY <1>1
<1> QED
  BY <1>1, <1>2, <1>3, <1>4, <1>5

\* A block fed in order brings its notes and spends.
LEMMA BlockNoted ==
  ASSUME Sound, Feeding, Noted, NEW p \in Feeders, pc[p] \in {"tree", "notes"}, FedBy(p),
         Finished(p), UNCHANGED <<chain, tip, used, choice, tx>>, pc'[Anchor] = pc[Anchor],
         InOrder' => notes' = Tracked(fed[2] + 1)
  PROVE  Noted'
<1>1. InOrder' => InOrder /\ at[p] = fed[2] + 1 /\ fed' = <<fed[1], fed[2] + 1>>
  BY FedFurther DEF Feeding
<1> DEFINE a == fed[1]
           b == fed[2]
<1>2. ASSUME InOrder'
      PROVE  /\ a \in Nat /\ b \in Nat /\ a <= b /\ b + 1 <= Len(chain) /\ b + 1 \in 1 .. Len(chain)
             /\ Typed /\ next = ChainSize(b)
  BY <1>1, <1>2, OrderTyped, AtHand DEF Feeding, Grown
<1>3. InOrder' => fed'[1] = a /\ fed'[2] = b + 1
  BY <1>1
<1>4. ASSUME InOrder'
      PROVE  /\ Tracks(notes, OwnedIn(a, b), RevealedIn(a, b) \cup used)
             /\ used \subseteq OwnedIn(a, b)
  BY <1>1, <1>4 DEF Noted, NotesSound
<1>5. InOrder' => \/ /\ choice.id \in OwnedIn(a, b)
                     /\ choice.position = ChainPosition(choice.id)
                  \/ pc[Anchor] \notin {"witness", "sent"}
  BY <1>1 DEF Noted, ChoiceSound
<1> HIDE DEF a, b
<1>6. InOrder' => /\ OwnedIn(a, b + 1) = OwnedIn(a, b) \cup Received(b + 1)
                  /\ RevealedIn(a, b + 1) = RevealedIn(a, b) \cup Spends(b + 1)
  BY <1>2, BlockIn
<1>7. ASSUME InOrder'
      PROVE  /\ Tracks(notes', OwnedIn(a, b + 1), RevealedIn(a, b + 1) \cup used)
             /\ used \subseteq OwnedIn(a, b + 1)
  <2> DEFINE spent == (RevealedIn(a, b) \cup used) \cup Spends(b + 1)
  <2>1. Tracks(MarkSpent(b + 1), OwnedIn(a, b), spent)
    BY <1>2, <1>4, <1>7, MarkedNotes
  <2>2. \A id \in Received(b + 1) : id \notin RevealedIn(a, b + 1) /\ id \notin OwnedIn(a, b)
    BY <1>2, <1>7, ReceivedUnspent
  <2>3. spent = RevealedIn(a, b + 1) \cup used
    BY <1>6, <1>7
  <2>4. OwnedIn(a, b) \cap Received(b + 1) = {} /\ spent \cap Received(b + 1) = {}
    <3> HIDE DEF spent
    <3> QED
      BY <1>4, <1>7, <2>2, <2>3
  <2>5. Tracks(MarkSpent(b + 1) \o NewNotes(b + 1), OwnedIn(a, b) \cup Received(b + 1), spent)
    <3> HIDE DEF spent
    <3> QED
      BY <1>2, <1>7, <2>1, <2>4, AddedNotes
  <2>6. notes' = MarkSpent(b + 1) \o NewNotes(b + 1)
    BY <1>7 DEF Tracked, b
  <2> HIDE DEF spent
  <2> QED
    BY <1>4, <1>6, <1>7, <2>3, <2>5, <2>6
<1>8. NotesSound'
  BY <1>3, <1>7, NotesMean
<1>9. ChoiceSound'
  BY <1>3, <1>5, <1>6, ChoiceMeans
<1>10. SpendIsValid'
  BY <1>1, SpendStays DEF Noted, Sound, Typed
<1> QED
  BY <1>8, <1>9, <1>10 DEF Noted

LEMMA InitNoted == Init => Noted
  BY DEF Init, Noted, NotesSound, ChoiceSound, SpendIsValid, InOrder

\* The seed: nothing is owned yet.
LEMMA SeedNoted ==
  ASSUME Sound, Feeding, Noted, SeedPosition
  PROVE  Noted'
<1> DEFINE h == at[Recovery]
<1>1. /\ UNCHANGED <<chain, tip, notes, used, choice, tx>>
      /\ InOrder' => fed = None /\ fed' = <<h, h>>
  BY SeededFeeding DEF SeedPosition, chainVars
<1>2. InOrder' => notes = <<>> /\ used = {} /\ tx = None /\ pc[Anchor] = "idle"
  BY <1>1 DEF Feeding, Unfed
<1>3. pc'[Anchor] = pc[Anchor]
  BY DEF SeedPosition, RecoveryRange, Go, Recovery, Anchor, Sound, Typed, Tasks, Feeders, Scanner
<1>4. InOrder' => OwnedIn(fed'[1], fed'[2]) = {} /\ RevealedIn(fed'[1], fed'[2]) = {}
  <2>1. InOrder' => fed'[1] = h /\ fed'[2] = h
    BY <1>1
  <2> QED
    BY <2>1 DEF OwnedIn, RevealedIn, FedIn
<1>5. Tracks(<<>>, {}, {})
  <2>1. <<>> \in Seq(Note) /\ DOMAIN <<>> = {}
    OBVIOUS
  <2> QED
    BY <2>1 DEF Tracks
<1>6. NotesSound'
  <2>1. InOrder' => /\ Tracks(notes', OwnedIn(fed'[1], fed'[2]), RevealedIn(fed'[1], fed'[2]) \cup used')
                    /\ used' \subseteq OwnedIn(fed'[1], fed'[2])
    BY <1>1, <1>2, <1>4, <1>5
  <2> QED
    BY <1>1, <2>1, NotesMean
<1>7. ChoiceSound'
  BY <1>1, <1>2, <1>3, ChoiceMeans
<1>8. SpendIsValid'
  BY <1>1, <1>2, SpendStays DEF Noted, Sound, Typed
<1> QED
  BY <1>6, <1>7, <1>8 DEF Noted

\* The end of a block is none of the anchor loop's.
LEMMA AnchorWaits ==
  ASSUME Sound, NEW p \in Feeders, pc[p] \in {"fetch", "tree", "notes"}, Finished(p)
  PROVE  pc'[Anchor] = pc[Anchor]
<1>1. Anchor \in Tasks \ {p}
  BY DEF Tasks, Feeders, Recovery, Scanner, Anchor
<1> QED
  BY <1>1, FeederMoves

LEMMA EmptyNoted ==
  ASSUME Sound, Feeding, Noted, NEW p \in Feeders, EmptyBlock(p)
  PROVE  Noted'
<1>1. /\ pc[p] = "tree" /\ FedBy(p) /\ Finished(p) /\ chain[at[p]] = <<>>
      /\ UNCHANGED <<chain, tip, notes, used, choice, tx>>
  BY DEF EmptyBlock, chainVars
<1>2. pc'[Anchor] = pc[Anchor]
  BY <1>1, AnchorWaits
<1>3. ASSUME InOrder' PROVE notes' = Tracked(fed[2] + 1)
  <2> DEFINE h == fed[2] + 1
  <2>1. InOrder /\ at[p] = h
    BY <1>1, <1>3, FedFurther DEF Feeding
  <2>2. h \in 1 .. Len(chain) /\ Typed /\ next = ChainSize(fed[2]) /\ fed[2] \in 0 .. Len(chain)
    BY <1>1, <2>1, AtHand DEF Feeding, Grown
  <2>3. chain[h] = <<>> /\ DOMAIN chain[h] = {} /\ Len(chain[h]) = 0
    BY <1>1, <2>1
  <2>4. notes \in Seq(Note)
    BY <2>1 DEF Noted, NotesSound, Tracks
  <2>5. next \in Nat
    BY <2>2, ThroughFinite
  <2> HIDE DEF h
  <2>6. NewNotes(h) = <<>>
    <3>1. BlockNotes(NewNotes(h), h, 0)
      BY <2>2, <2>3, <2>5, NewNotesFound
    <3>2. {NewNotes(h)[k].id : k \in DOMAIN NewNotes(h)} = {} /\ NewNotes(h) \in Seq(Note)
      <4>1. {<<h, i>> : i \in {i \in 1 .. 0 : chain[h][i].ours}} = {}
        OBVIOUS
      <4> QED
        BY <3>1, <4>1 DEF BlockNotes
    <3>3. DOMAIN NewNotes(h) = {}
      BY <3>2
    <3>4. Len(NewNotes(h)) = 0
      <4>1. IsTable(NewNotes(h))
        BY <3>2, TypedTable
      <4>2. Len(NewNotes(h)) \in Nat /\ 1 .. Len(NewNotes(h)) = {}
        BY <3>3, <4>1, TableIndexes
      <4> QED
        BY <4>2
    <3> QED
      BY <3>2, <3>4, EmptySeq
  <2>7. MarkSpent(h) = notes
    <3>1. \A k \in DOMAIN notes : MarkSpent(h)[k] = notes[k]
      BY <2>3 DEF MarkSpent
    <3>2. MarkSpent(h) = [k \in DOMAIN notes |-> notes[k]]
      BY <2>3 DEF MarkSpent
    <3> QED
      BY <2>4, <3>2
  <2>8. notes \o <<>> = notes
    BY <2>4, ConcatEmptySeq
  <2> QED
    BY <1>1, <2>6, <2>7, <2>8 DEF Tracked, h
<1> QED
  BY <1>1, <1>2, <1>3, BlockNoted

LEMMA TrackNoted ==
  ASSUME Sound, Feeding, Noted, NEW p \in Feeders, TrackNotes(p)
  PROVE  Noted'
<1>1. /\ pc[p] = "notes" /\ FedBy(p) /\ Finished(p) /\ notes' = Tracked(at[p])
      /\ UNCHANGED <<chain, tip, used, choice, tx>>
  BY DEF TrackNotes, chainVars
<1>2. pc'[Anchor] = pc[Anchor]
  BY <1>1, AnchorWaits
<1>3. InOrder' => at[p] = fed[2] + 1
  BY <1>1, FedFurther DEF Feeding
<1> QED
  BY <1>1, <1>2, <1>3, BlockNoted

LEMMA SelectNoted ==
  ASSUME Sound, Feeding, Noted, Select
  PROVE  Noted'
<1>1. /\ UNCHANGED <<chain, tip, notes, used, fed, tx>>
      /\ \E k \in DOMAIN notes : choice' = notes[k]
  BY DEF Select, chainVars, walletVars
<1>2. InOrder' <=> InOrder
  BY <1>1 DEF InOrder, Broken
<1>3. NotesSound'
  BY <1>1, <1>2, NotesMean DEF Noted, NotesSound
<1>4. InOrder => choice'.id \in OwnedIn(fed[1], fed[2]) /\ choice'.position = ChainPosition(choice'.id)
  BY <1>1 DEF Noted, NotesSound, Tracks
<1>5. ChoiceSound'
  BY <1>1, <1>2, <1>4, ChoiceMeans
<1>6. SpendIsValid'
  BY <1>1, <1>2, SpendStays DEF Noted, Sound, Typed
<1> QED
  BY <1>3, <1>5, <1>6 DEF Noted

\* With the tree's lock in hand the tree and its checkpoint are the chain's.
LEMMA WitnessNoted ==
  ASSUME Sound, Feeding, Noted, Witness
  PROVE  Noted'
<1>1. /\ pc[Anchor] = "witness" /\ Quiet
      /\ UNCHANGED <<chain, tip, notes, used, fed, choice>>
  BY TreeIsFree DEF Witness, chainVars
<1>2. InOrder' <=> InOrder
  BY <1>1 DEF InOrder, Broken
<1>3. NotesSound'
  BY <1>1, <1>2, NotesMean DEF Noted, NotesSound
<1>4. ChoiceSound'
  BY <1>1, <1>2, ChoiceMeans DEF Noted, ChoiceSound
<1>5. CASE UNCHANGED tx
  <2>1. SpendIsValid'
    BY <1>1, <1>2, <1>5, SpendStays DEF Noted, Sound, Typed
  <2> QED
    BY <1>3, <1>4, <2>1 DEF Noted
<1>6. CASE tx' = [id |-> choice.id, position |-> choice.position,
                  leaves |-> [q \in {q \in DOMAIN tree : q < ckpt.size} |-> tree[q]]]
  <2> SUFFICES ASSUME InOrder' PROVE SpendIsValid'
    BY <1>3, <1>4 DEF Noted, SpendIsValid
  <2> DEFINE h == fed[2]
  <2>1. h \in 1 .. tip /\ h \in 0 .. Len(chain) /\ Typed
    BY <1>2, OrderTyped
  <2>2. Stands(h)
    BY <1>1, <1>2 DEF Feeding, Grown
  <2>3. choice.id \in Through(h) /\ choice.position = ChainPosition(choice.id)
    BY <1>1, <1>2 DEF Noted, ChoiceSound, OwnedIn, FedIn
  <2> HIDE DEF h
  <2>4. choice.position \in 0 .. ChainSize(h) - 1 /\ ChainTree(h)[choice.position] = choice.id
    BY <2>1, <2>3, TreeAt
  <2>5. DOMAIN ChainTree(h) = 0 .. ChainSize(h) - 1 /\ ChainSize(h) \in Nat
    BY <2>1, TreeSize, ThroughFinite
  <2>6. [q \in {q \in DOMAIN tree : q < ckpt.size} |-> tree[q]] = ChainTree(h)
    <3>1. tree = ChainTree(h) /\ ckpt.size = ChainSize(h)
      BY <2>2 DEF Stands
    <3>2. {q \in DOMAIN tree : q < ckpt.size} = DOMAIN tree
      BY <2>5, <3>1
    <3>3. [q \in DOMAIN tree |-> tree[q]] = tree
      BY <3>1 DEF ChainTree
    <3> QED
      BY <3>1, <3>2, <3>3
  <2>7. tx'.leaves = ChainTree(h) /\ tx'.position = choice.position /\ tx'.id = choice.id
    BY <1>6, <2>6
  <2>8. ChainTree(h)' = ChainTree(h)
    BY <1>1 DEF ChainTree, ChainPosition, ChainSize, Through, h
  <2>9. \A k : ChainTree(k)' = ChainTree(k)
    BY <1>1, ChainStays
  <2>10. tx'.position \in DOMAIN tx'.leaves /\ tx'.leaves[tx'.position] = tx'.id
    BY <2>4, <2>5, <2>7
  <2>11. \E k \in 1 .. tip : tx'.leaves = ChainTree(k)
    BY <2>1, <2>7
  <2> QED
    BY <1>1, <2>9, <2>10, <2>11 DEF SpendIsValid
<1> QED
  BY <1>5, <1>6 DEF Witness

LEMMA EnsureNoted ==
  ASSUME Sound, Feeding, Noted, EnsureSpent
  PROVE  Noted'
<1>1. /\ UNCHANGED <<chain, tip, fed, tx>> /\ pc'[Anchor] = "idle"
      /\ \E k \in DOMAIN notes : /\ notes' = [notes EXCEPT ![k].spent = TRUE]
                                 /\ used' = used \cup {notes[k].id}
  BY DEF EnsureSpent, chainVars, Go, Sound, Typed, Tasks
<1>2. InOrder' <=> InOrder
  BY <1>1 DEF InOrder, Broken
<1>3. PICK k \in DOMAIN notes : /\ notes' = [notes EXCEPT ![k].spent = TRUE]
                                /\ used' = used \cup {notes[k].id}
  BY <1>1
<1> DEFINE owned == OwnedIn(fed[1], fed[2])
           spent == RevealedIn(fed[1], fed[2]) \cup used
<1>4. InOrder => Tracks(notes, owned, spent) /\ used \subseteq owned
  BY DEF Noted, NotesSound
<1> HIDE DEF owned, spent
<1>5. ASSUME InOrder PROVE Tracks(notes', owned, spent \cup {notes[k].id}) /\ notes[k].id \in owned
  <2>1. notes \in Seq(Note) /\ IsTable(notes)
    BY <1>4, <1>5, TypedTable DEF Tracks
  <2>2. Len(notes) \in Nat /\ DOMAIN notes = 1 .. Len(notes) /\ \A j \in DOMAIN notes : notes[j] \in Note
    BY <2>1, TableIndexes
  <2>3. DOMAIN notes' = DOMAIN notes /\ notes'[k] = [notes[k] EXCEPT !.spent = TRUE]
        /\ \A j \in DOMAIN notes \ {k} : notes'[j] = notes[j]
    BY <1>3
  <2>4. \A j \in DOMAIN notes : /\ notes'[j] \in Note /\ notes'[j].id = notes[j].id
                                /\ notes'[j].position = notes[j].position
                                /\ notes'[j].spent <=> notes[j].spent \/ j = k
    <3>1. notes[k] \in Note
      BY <2>2
    <3>2. /\ notes'[k] \in Note /\ notes'[k].id = notes[k].id
          /\ notes'[k].position = notes[k].position /\ notes'[k].spent = TRUE
      BY <2>3, <3>1 DEF Note
    <3>3. \A j \in DOMAIN notes \ {k} : notes'[j] = notes[j] /\ notes[j] \in Note
      BY <2>2, <2>3
    <3> QED
      BY <3>2, <3>3
  <2>5. notes' \in Seq(Note)
    <3>1. notes' \in [1 .. Len(notes) -> Note]
      BY <1>3, <2>2, <2>4
    <3> QED
      BY <2>2, <3>1
  <2>6. {notes'[j].id : j \in DOMAIN notes'} = owned
    <3>1. {notes'[j].id : j \in DOMAIN notes'} = {notes[j].id : j \in DOMAIN notes}
      BY <2>3, <2>4
    <3> QED
      BY <1>4, <1>5, <3>1 DEF Tracks
  <2>7. \A i, j \in DOMAIN notes' : notes'[i].id = notes'[j].id => i = j
    BY <1>4, <1>5, <2>3, <2>4 DEF Tracks
  <2>8. \A j \in DOMAIN notes' : /\ notes'[j].position = ChainPosition(notes'[j].id)
                                 /\ notes'[j].spent <=> notes'[j].id \in spent \cup {notes[k].id}
    BY <1>4, <1>5, <2>3, <2>4 DEF Tracks
  <2>9. notes[k].id \in owned
    BY <1>4, <1>5 DEF Tracks
  <2> QED
    BY <2>5, <2>6, <2>7, <2>8, <2>9 DEF Tracks
<1>6. NotesSound'
  <2>1. spent \cup {notes[k].id} = RevealedIn(fed[1], fed[2]) \cup used'
    BY <1>3 DEF spent
  <2>2. InOrder' => /\ Tracks(notes', OwnedIn(fed'[1], fed'[2]), RevealedIn(fed'[1], fed'[2]) \cup used')
                    /\ used' \subseteq OwnedIn(fed'[1], fed'[2])
    BY <1>1, <1>2, <1>3, <1>4, <1>5, <2>1 DEF owned
  <2> QED
    BY <1>1, <2>2, NotesMean
<1>7. ChoiceSound'
  BY <1>1 DEF ChoiceSound
<1>8. SpendIsValid'
  BY <1>1, <1>2, SpendStays DEF Noted, Sound, Typed
<1> QED
  BY <1>6, <1>7, <1>8 DEF Noted

LEMMA NextNoted == Sound /\ Feeding /\ Noted /\ [Next]_vars => Noted'
<1> SUFFICES ASSUME Sound, Feeding, Noted, [Next]_vars PROVE Noted'
  OBVIOUS
<1> USE DEF chainVars, treeVars, walletVars, taskVars, history, Go, Recovery, Scanner, Anchor, Tasks,
            Feeders
<1>0. /\ pc \in [Tasks -> {"start", "seed", "position", "fetch", "next", "tree", "notes",
                            "ended", "idle", "witness", "sent"}]
      /\ tip \in Nat
  BY DEF Sound, Typed
<1>1. CASE Mine \/ RecoveryReturns \/ RecoveryStart \/ RecoveryStartYoung \/ SeedFails
           \/ SeedFrontier \/ ScanRound \/ RoundFails
  <2>1. /\ UNCHANGED <<chain, notes, used, choice, tx, fed>>
        /\ tip' \in Nat /\ tip <= tip' /\ pc'[Anchor] = pc[Anchor]
    BY <1>0, <1>1 DEF Mine, RecoveryReturns, RecoveryStart, RecoveryStartYoung, SeedFails,
                      SeedFrontier, ScanRound, RoundFails
  <2> QED
    BY <2>1, NotedKept
<1>2. CASE SeedPosition
  BY <1>2, SeedNoted
<1>3. ASSUME NEW p \in Feeders, Fetch(p) \/ LockNext(p) \/ InsertBlock(p) PROVE Noted'
  <2>1. UNCHANGED <<chain, notes, used, choice, tx, fed, tip>> /\ pc'[Anchor] = pc[Anchor]
    BY <1>0, <1>3 DEF Fetch, LockNext, InsertBlock
  <2> QED
    BY <1>0, <2>1, NotedKept
<1>4. ASSUME NEW p \in Feeders, FetchFails(p) \/ InsertFails(p) PROVE Noted'
  <2>1. /\ UNCHANGED <<chain, notes, used, choice, tx, fed, tip>>
        /\ pc[p] \in {"fetch", "tree"} /\ Finished(p)
    BY <1>4 DEF FetchFails, InsertFails
  <2>2. pc'[Anchor] = pc[Anchor]
    BY <2>1, AnchorWaits
  <2> QED
    BY <1>0, <2>1, <2>2, NotedKept
<1>5. ASSUME NEW p \in Feeders, EmptyBlock(p) \/ TrackNotes(p) PROVE Noted'
  BY <1>5, EmptyNoted, TrackNoted
<1>6. CASE Select \/ Witness \/ EnsureSpent
  BY <1>6, SelectNoted, WitnessNoted, EnsureNoted
<1>7. CASE NotSent
  <2>1. UNCHANGED <<chain, notes, used, choice, tx, fed, tip>> /\ pc'[Anchor] = "idle"
    BY <1>0, <1>7 DEF NotSent
  <2> QED
    BY <1>0, <2>1, NotedKept
<1>8. CASE UNCHANGED vars
  BY <1>0, <1>8, NotedKept DEF vars
<1> QED
  BY <1>1, <1>2, <1>3, <1>4, <1>5, <1>6, <1>7, <1>8 DEF Next, RecoveryStep, Feed, AnchorStep

\* The unspent entries are the notes owned and not spent.
LEMMA NotesBalance == NotesSound => BalanceIsOwned
<1> SUFFICES ASSUME NotesSound, InOrder PROVE BalanceIsOwned
  BY DEF BalanceIsOwned
<1> DEFINE actions == Through(fed[2]) \ Through(fed[1])
           unspent == {k \in DOMAIN notes : ~notes[k].spent}
           owned == {id \in actions : chain[id[1]][id[2]].ours}
           spent == {chain[id[1]][id[2]].spends : id \in actions}
<1>1. Tracks(notes, owned, spent \cup used)
  BY DEF NotesSound, OwnedIn, RevealedIn, FedIn
<1>2. BalanceIsOwned <=> /\ {notes[k].id : k \in unspent} = owned \ (spent \cup used)
                         /\ \A j, k \in unspent : notes[j].id = notes[k].id => j = k
  BY DEF BalanceIsOwned
<1> HIDE DEF owned, spent
<1>3. \A k \in DOMAIN notes : notes[k].id \in owned /\ (notes[k].spent <=> notes[k].id \in spent \cup used)
  BY <1>1 DEF Tracks
<1>4. \A id \in owned : \E k \in DOMAIN notes : notes[k].id = id
  BY <1>1 DEF Tracks
<1>5. {notes[k].id : k \in unspent} = owned \ (spent \cup used)
  BY <1>3, <1>4
<1>6. \A j, k \in unspent : notes[j].id = notes[k].id => j = k
  BY <1>1 DEF Tracks
<1> QED
  BY <1>2, <1>5, <1>6

LEMMA NotedInvariant == Spec => [](Sound /\ Feeding /\ Noted)
<1>1. (Sound /\ Feeding /\ Noted) /\ [Next]_vars => (Sound /\ Feeding /\ Noted)'
  BY NextSound, NextFeeding, NextNoted
<1> QED
  BY <1>1, InitSound, InitFeeding, InitNoted, PTL DEF Spec

\* A spend build_anchor_tx returns proves its note under a root the chain had,
\* while the blocks are fed in order (SpendIsValid).
THEOREM SpendsAreValid == Spec => []SpendIsValid
<1>1. Noted => SpendIsValid
  BY DEF Noted
<1> QED
  BY <1>1, NotedInvariant, PTL

\* The wallet's unspent notes are those the chain gives it, each once, while
\* the blocks are fed in order (BalanceIsOwned).
THEOREM BalanceIsTrue == Spec => []BalanceIsOwned
<1>1. Noted => BalanceIsOwned
  BY NotesBalance DEF Noted
<1> QED
  BY <1>1, NotedInvariant, PTL
===============================================================================
