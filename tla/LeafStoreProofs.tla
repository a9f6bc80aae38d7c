---------------------------- MODULE LeafStoreProofs ----------------------------
(***************************************************************************)
(* The leaf store for every number of leaves and inserts, every imported   *)
(* store and every bound.  The tables only grow: leaves keep their         *)
(* positions, and rows of merkle_roots keep their hash and count and never *)
(* lose their anchor (Grown).  That every root of this release commits to  *)
(* a prefix of the leaves, and that a leaf stays anchored, both follow.    *)
(* The readers follow: a served proof is accepted, a package of bundles    *)
(* verifies offline and the operator's report is honest whatever is        *)
(* written between the requests that made it.  What a tree is matters to   *)
(* these only, through the theorems of DataLemmas.                         *)
(***************************************************************************)
EXTENDS BundleAudit, OpsReport, DataLemmas, FiniteSetTheorems

\* Rows of merkle_roots.
TypedRows(rows) ==
  \A k \in DOMAIN rows :
    /\ DOMAIN rows[k] = {"hash", "count", "anchored", "height"}
    /\ rows[k].count \in Nat /\ rows[k].anchored \in BOOLEAN
    /\ rows[k].height \in 0..MaxHeight

\* What the tables are, whatever the hashes.
Tables ==
  /\ leaves \in Seq(Leaves)
  /\ \A j, k \in DOMAIN leaves : leaves[j] = leaves[k] => j = k
  /\ IsTable(roots)
  /\ TypedRows(roots)

\* ids keep up with the leaves.
Numbers ==
  /\ lastId \in Nat
  /\ ids \in Seq(1..lastId) /\ Len(ids) = Len(leaves)
  /\ upgraded \in 0..Len(roots)
  /\ inserts \in 0..MaxInserts

\* What every step does to the tables.
RowsKept ==
  /\ Len(roots) <= Len(roots')
  /\ \A k \in DOMAIN roots : /\ roots'[k].hash = roots[k].hash
                             /\ roots'[k].count = roots[k].count
                             /\ roots[k].anchored => roots'[k].anchored
LeavesKept ==
  \/ leaves' = leaves
  \/ \E leaf \in Leaves : leaf \notin Stored /\ leaves' = Append(leaves, leaf)
Grown == RowsKept /\ LeavesKept

-----------------------------------------------------------------------------
(* Reading the current root. *)

LEMMA RootRow ==
  ASSUME NEW hash, NEW count \in Nat, StoreAssumption
  PROVE  /\ DOMAIN Root(hash, count) = {"hash", "count", "anchored", "height"}
         /\ Root(hash, count).hash = hash /\ Root(hash, count).count = count
         /\ Root(hash, count).anchored \in BOOLEAN /\ Root(hash, count).height \in 0..MaxHeight
  BY DEF Root, StoreAssumption

\* current_root adds at most the row of the canonical root.
LEMMA CurrentAdds ==
  ASSUME NEW list, NEW rows
  PROVE  \/ WithCurrent(list, rows) = rows
         \/ WithCurrent(list, rows) = Append(rows, Root(ComputeRoot(list), Len(list)))
  BY DEF WithCurrent

LEMMA TablesLen ==
  ASSUME Tables
  PROVE  /\ Len(leaves) \in Nat /\ DOMAIN leaves = 1..Len(leaves) /\ IsTable(leaves)
         /\ Len(roots) \in Nat /\ DOMAIN roots = 1..Len(roots)
  BY TypedTable, TableIndexes DEF Tables

-----------------------------------------------------------------------------
(* Tables. *)

LEMMA InitTables == Init => Tables /\ Numbers
<1> SUFFICES ASSUME Init PROVE Tables /\ Numbers
  OBVIOUS
<1> USE StoreAssumption DEF StoreAssumption
<1>1. PICK n \in 0..Len(Imported) : \E row \in 0..n, surplus \in 0..n, height \in 0..LegacyMax :
        LegacyStore(n, row, height, surplus)
  BY DEF Init
<1>2. PICK row \in 0..n, surplus \in 0..n, height \in 0..LegacyMax :
        LegacyStore(n, row, height, surplus)
  BY <1>1
<1>3. n \in Nat /\ DOMAIN Imported = 1..Len(Imported) /\ Len(Imported) \in Nat
  BY LenProperties
<1>4. leaves = [k \in 1..n |-> Imported[k]]
  BY <1>2 DEF LegacyStore
<1>5. \A k \in 1..n : k \in DOMAIN Imported /\ Imported[k] \in Leaves
  BY <1>3, ElementOfSeq
<1>6. leaves \in Seq(Leaves) /\ DOMAIN leaves = 1..n /\ Len(leaves) = n
  <2>1. leaves \in [1..n -> Leaves]
    BY <1>4, <1>5
  <2>2. leaves \in Seq(Leaves)
    BY <1>3, <2>1
  <2> QED
    BY <1>3, <2>1, <2>2, LenProperties
<1>7. \A j, k \in DOMAIN leaves : leaves[j] = leaves[k] => j = k
  BY <1>4, <1>5, <1>6
<1> DEFINE old(k) == [hash |-> ComputeLegacyRoot(Prefix(k)),
                      count |-> Min({n, IF k = surplus THEN k + 1 ELSE k}),
                      anchored |-> k = row,
                      height |-> IF k = row THEN height ELSE 0]
<1>8. roots = [k \in 1..n |-> old(k)]
  BY <1>2 DEF LegacyStore
<1>9. \A k \in 1..n : Min({n, IF k = surplus THEN k + 1 ELSE k}) \in Nat
  <2>1. ASSUME NEW a \in Nat, NEW b \in Nat PROVE Min({a, b}) \in Nat
    <3>1. \E x \in {a, b} : \A y \in {a, b} : x <= y
      BY <2>1
    <3>2. Min({a, b}) \in {a, b}
      BY <3>1 DEF Min
    <3> QED
      BY <2>1, <3>2
  <2> QED
    BY <1>3, <2>1
<1>10. \A k \in 1..n : /\ DOMAIN old(k) = {"hash", "count", "anchored", "height"}
                       /\ old(k).count \in Nat /\ old(k).anchored \in BOOLEAN
                       /\ old(k).height \in 0..MaxHeight
  BY <1>9
<1> HIDE DEF old
<1>11. DOMAIN roots = 1..n /\ IsTable(roots) /\ Len(roots) = n
  <2>1. roots \in [1..n -> {old(k) : k \in 1..n}]
    BY <1>8
  <2>2. roots \in Seq({old(k) : k \in 1..n}) /\ Len(roots) = n
    BY <1>3, <2>1, ListIsSequence
  <2> QED
    BY <2>1, <2>2, TypedTable
<1>12. Tables
  BY <1>6, <1>7, <1>8, <1>10, <1>11 DEF Tables, TypedRows
<1>13. ids \in Seq(1..lastId) /\ Len(ids) = n /\ lastId = n
  <2>1. ids = [k \in 1..n |-> k] /\ lastId = n
    BY <1>6 DEF Init
  <2>2. ids \in [1..n -> 1..lastId]
    BY <2>1
  <2> QED
    BY <1>3, <2>1, <2>2, ListIsSequence
<1>14. Numbers
  BY <1>3, <1>6, <1>11, <1>13 DEF Init, Numbers
<1> QED
  BY <1>12, <1>14

\* A table of roots with one more row.
LEMMA OneMoreRoot ==
  ASSUME StoreAssumption, NEW rows, IsTable(rows), NEW hash, NEW count \in Nat,
         TypedRows(rows)
  PROVE  LET new == Append(rows, Root(hash, count)) IN
         /\ IsTable(new)
         /\ Len(new) = Len(rows) + 1
         /\ TypedRows(new)
         /\ \A k \in DOMAIN rows : k \in DOMAIN new /\ new[k] = rows[k]
         /\ \A k \in DOMAIN new : k \in DOMAIN rows \/ new[k] = Root(hash, count)
<1> DEFINE row == Root(hash, count)
           new == Append(rows, row)
<1>1. /\ IsTable(new) /\ Len(new) = Len(rows) + 1 /\ DOMAIN new = 1..Len(rows) + 1
      /\ \A k \in DOMAIN rows : new[k] = rows[k]
      /\ new[Len(rows) + 1] = row
  BY InsertRow
<1>2. Len(rows) \in Nat /\ DOMAIN rows = 1..Len(rows)
  BY TableIndexes
<1>3. /\ DOMAIN row = {"hash", "count", "anchored", "height"}
      /\ row.count \in Nat /\ row.anchored \in BOOLEAN /\ row.height \in 0..MaxHeight
  BY RootRow
<1> HIDE DEF row, new
<1> USE DEF TypedRows
<1>4. \A k \in DOMAIN new : k \in DOMAIN rows \/ new[k] = row
  BY <1>1, <1>2
<1>5. \A k \in DOMAIN rows : k \in DOMAIN new
  BY <1>1, <1>2
<1>6. TypedRows(new)
  BY <1>1, <1>3, <1>4
<1> QED
  BY <1>1, <1>4, <1>5, <1>6 DEF new, row

\* A step that reads the current root of the leaves, after the rows became rows.
LEMMA CurrentRows ==
  ASSUME StoreAssumption, Tables, NEW list, Len(list) \in Nat, NEW rows, IsTable(rows),
         Len(roots) <= Len(rows), \A k \in DOMAIN roots : k \in DOMAIN rows /\ rows[k] = roots[k],
         TypedRows(rows),
         roots' = WithCurrent(list, rows)
  PROVE  /\ RowsKept /\ IsTable(roots')
         /\ TypedRows(roots')
         /\ \A k \in DOMAIN roots' :
              \/ k \in DOMAIN rows /\ roots'[k] = rows[k]
              \/ roots'[k].hash = ComputeRoot(list) /\ roots'[k].count = Len(list)
<1>0. Len(rows) \in Nat /\ Len(roots) \in Nat
  BY TableIndexes DEF Tables
<1>1. CASE roots' = rows
  BY <1>1 DEF RowsKept
<1>2. CASE roots' = Append(rows, Root(ComputeRoot(list), Len(list)))
  <2>1. /\ IsTable(roots')
        /\ Len(roots') = Len(rows) + 1
        /\ TypedRows(roots')
        /\ \A k \in DOMAIN rows : k \in DOMAIN roots' /\ roots'[k] = rows[k]
        /\ \A k \in DOMAIN roots' :
             k \in DOMAIN rows \/ roots'[k] = Root(ComputeRoot(list), Len(list))
    BY <1>2, OneMoreRoot
  <2>2. RowsKept
    BY <1>0, <2>1 DEF RowsKept
  <2>3. /\ Root(ComputeRoot(list), Len(list)).hash = ComputeRoot(list)
        /\ Root(ComputeRoot(list), Len(list)).count = Len(list)
    BY DEF Root
  <2> QED
    BY <2>1, <2>2, <2>3
<1> QED
  BY <1>1, <1>2, CurrentAdds

LEMMA NextTables == Tables /\ [Next]_vars => Tables' /\ Grown
<1> SUFFICES ASSUME Tables, [Next]_vars PROVE Tables' /\ Grown
  OBVIOUS
<1> USE StoreAssumption
<1>0. /\ Len(leaves) \in Nat /\ DOMAIN leaves = 1..Len(leaves)
      /\ Len(roots) \in Nat /\ DOMAIN roots = 1..Len(roots)
  BY TablesLen
<1>7. ASSUME leaves' = leaves, roots' = roots PROVE Tables' /\ Grown
  <2>1. Tables'
    BY <1>7 DEF Tables, TypedRows, IsTable, RowsIn
  <2>2. Len(roots) <= Len(roots')
    BY <1>0, <1>7
  <2>3. RowsKept
    BY <1>7, <2>2 DEF RowsKept
  <2> QED
    BY <1>7, <2>1, <2>3 DEF Grown, LeavesKept
<1>1. ASSUME NEW leaf \in Leaves, InsertLeaf(leaf) PROVE Tables' /\ Grown
  <2>1. CASE \E k \in DOMAIN leaves : leaves[k] = leaf
    <3>1. roots' = WithCurrent(leaves, roots) /\ leaves' = leaves
      BY <1>1, <2>1 DEF InsertLeaf
    <3> QED
      BY <1>0, <3>1, CurrentRows DEF Tables, Grown, LeavesKept
  <2>2. CASE ~\E k \in DOMAIN leaves : leaves[k] = leaf
    <3>1. /\ leaves' = Append(leaves, leaf)
          /\ roots' = WithCurrent(leaves', Append(roots, RootAfter(leaf)))
      BY <1>1, <2>2 DEF InsertLeaf
    <3>2. /\ leaves' \in Seq(Leaves) /\ Len(leaves') = Len(leaves) + 1
          /\ \A k \in DOMAIN leaves : leaves'[k] = leaves[k]
          /\ leaves'[Len(leaves) + 1] = leaf
          /\ DOMAIN leaves' = 1..Len(leaves) + 1
      BY <1>0, <3>1, AppendProperties, LenProperties DEF Tables
    <3>3. \A j, k \in DOMAIN leaves' : leaves'[j] = leaves'[k] => j = k
      BY <1>0, <2>2, <3>2 DEF Tables
    <3> DEFINE rows == Append(roots, RootAfter(leaf))
    <3>4. /\ IsTable(rows) /\ TypedRows(rows) /\ Len(rows) = Len(roots) + 1
          /\ \A k \in DOMAIN roots : k \in DOMAIN rows /\ rows[k] = roots[k]
      BY <1>0, OneMoreRoot DEF RootAfter, Tables
    <3>5. RowsKept /\ IsTable(roots') /\ TypedRows(roots')
      <4> HIDE DEF rows
      <4>1. roots' = WithCurrent(leaves', rows)
        BY <3>1 DEF rows
      <4>2. Len(leaves') \in Nat /\ Len(roots) <= Len(rows)
        BY <1>0, <3>2, <3>4
      <4> QED
        BY <3>4, <4>1, <4>2, CurrentRows
    <3> QED
      BY <2>2, <3>1, <3>2, <3>3, <3>5 DEF Tables, Grown, LeavesKept, Stored
  <2> QED
    BY <2>1, <2>2
<1>2. ASSUME ReadCurrent PROVE Tables' /\ Grown
  <2>1. roots' = WithCurrent(leaves, roots) /\ leaves' = leaves
    BY <1>2 DEF ReadCurrent
  <2> QED
    BY <1>0, <2>1, CurrentRows DEF Tables, Grown, LeavesKept
<1>3. ASSUME NEW k, NEW h \in 0..MaxHeight,
             leaves' = leaves,
             \/ roots' = [roots EXCEPT ![k].anchored = TRUE, ![k].height = h]
             \/ roots' = [roots EXCEPT ![k].height = h]
      PROVE Tables' /\ Grown
  <2> DEFINE mined(row) == [row EXCEPT !.height = h]
             sent(row) == [row EXCEPT !.anchored = TRUE, !.height = h]
  <2>1. CASE k \notin DOMAIN roots
    <3>1. roots \in [DOMAIN roots -> RowsIn(roots)]
      BY LenProperties DEF Tables, IsTable
    <3>2. roots' = roots
      BY <1>3, <2>1, <3>1
    <3>3. leaves' = leaves
      BY <1>3
    <3> QED
      BY <1>7, <3>2, <3>3
  <2>2. ASSUME k \in DOMAIN roots, NEW row, roots' = [roots EXCEPT ![k] = row],
               row \in {mined(roots[k]), sent(roots[k])}
        PROVE  Tables' /\ Grown
    <3>1. /\ DOMAIN row = {"hash", "count", "anchored", "height"}
          /\ row.hash = roots[k].hash /\ row.count = roots[k].count
          /\ row.anchored \in {roots[k].anchored, TRUE}
          /\ row.height = h
      BY <2>2 DEF Tables, TypedRows
    <3>2. IsTable(roots') /\ Len(roots') = Len(roots) /\ DOMAIN roots' = DOMAIN roots
      BY <2>2, UpdateRow DEF Tables
    <3>3. \A j \in DOMAIN roots : roots'[j] = IF j = k THEN row ELSE roots[j]
      BY <2>2
    <3>4. TypedRows(roots')
      BY <3>1, <3>2, <3>3 DEF Tables, TypedRows
    <3>5. RowsKept
      <4>1. Len(roots) <= Len(roots')
        BY <1>0, <3>2
      <4>2. \A j \in DOMAIN roots : roots'[j].hash = roots[j].hash /\ roots'[j].count = roots[j].count
        BY <3>1, <3>3
      <4>3. roots[k].anchored => row.anchored
        BY <3>1
      <4>4. \A j \in DOMAIN roots : roots[j].anchored => roots'[j].anchored
        BY <3>3, <4>3
      <4> QED
        BY <4>1, <4>2, <4>4 DEF RowsKept
    <3> QED
      BY <1>3, <3>2, <3>4, <3>5 DEF Tables, Grown, LeavesKept
  <2>3. CASE k \in DOMAIN roots /\ roots' = [roots EXCEPT ![k].height = h]
    <3>1. roots' = [roots EXCEPT ![k] = mined(roots[k])]
      BY <2>3
    <3> QED
      BY <2>2, <2>3, <3>1
  <2>4. CASE k \in DOMAIN roots /\ roots' = [roots EXCEPT ![k].anchored = TRUE, ![k].height = h]
    <3>1. roots' = [roots EXCEPT ![k] = sent(roots[k])]
      BY <2>4
    <3> QED
      BY <2>2, <2>4, <3>1
  <2> QED
    BY <1>3, <2>1, <2>3, <2>4
<1>4. ASSUME NEW hash \in Hashes, NEW h \in {0} \cup Recent, RecordAnchor(hash, h)
      PROVE Tables' /\ Grown
  <2>1. h \in 0..MaxHeight
    BY DEF Recent, StoreAssumption
  <2>2. /\ leaves' = leaves
        /\ roots' = [roots EXCEPT ![RowOf(hash)].anchored = TRUE, ![RowOf(hash)].height = h]
    BY <1>4 DEF RecordAnchor
  <2> QED
    BY <1>3, <2>1, <2>2
<1>5. ASSUME NEW k \in DOMAIN roots, NEW h \in Recent, RecordHeight(k, h)
      PROVE Tables' /\ Grown
  <2>1. h \in 0..MaxHeight
    BY DEF Recent, StoreAssumption
  <2> QED
    BY <1>3, <1>5, <2>1 DEF RecordHeight
<1>6. CASE UNCHANGED vars
  BY <1>6, <1>7 DEF vars
<1> QED
  BY <1>1, <1>2, <1>4, <1>5, <1>6 DEF Next

LEMMA NextNumbers == Tables /\ Numbers /\ [Next]_vars => Numbers'
<1> SUFFICES ASSUME Tables, Numbers, [Next]_vars PROVE Numbers'
  OBVIOUS
<1>0. /\ Len(leaves) \in Nat /\ Len(roots) \in Nat /\ Len(roots) <= Len(roots')
      /\ Len(roots') \in Nat
  BY TablesLen, NextTables, TableIndexes DEF Grown, RowsKept, Tables
<1>1. ASSUME NEW leaf \in Leaves, InsertLeaf(leaf) PROVE Numbers'
  <2>1. lastId' = lastId + 1 /\ inserts' = inserts + 1 /\ inserts < MaxInserts /\ upgraded' = upgraded
    BY <1>1 DEF InsertLeaf
  <2>2. inserts' \in 0..MaxInserts /\ upgraded' \in 0..Len(roots')
    BY <1>0, <2>1, StoreAssumption DEF Numbers, StoreAssumption
  <2>3. ids \in Seq(1..lastId')
    <3>1. ids \in [1..Len(ids) -> 1..lastId'] /\ Len(ids) \in Nat
      BY <2>1, LenProperties DEF Numbers
    <3> QED
      BY <3>1, ListIsSequence
  <2>4. CASE leaves' = leaves /\ ids' = ids
    BY <2>1, <2>2, <2>3, <2>4 DEF Numbers
  <2>5. CASE leaves' = Append(leaves, leaf) /\ ids' = Append(ids, lastId + 1)
    <3>1. lastId + 1 \in 1..lastId'
      BY <2>1 DEF Numbers
    <3>2. ids' \in Seq(1..lastId') /\ Len(ids') = Len(ids) + 1
      BY <2>3, <2>5, <3>1, AppendProperties
    <3>3. Len(leaves') = Len(leaves) + 1
      BY <2>5, AppendProperties DEF Tables
    <3> QED
      BY <2>1, <2>2, <3>2, <3>3 DEF Numbers
  <2> QED
    BY <1>1, <2>4, <2>5 DEF InsertLeaf
<1>2. ASSUME UNCHANGED <<leaves, ids, lastId, upgraded, inserts>> PROVE Numbers'
  BY <1>0, <1>2 DEF Numbers
<1>3. ASSUME NEW hash, NEW h, RecordAnchor(hash, h) PROVE Numbers'
  BY <1>2, <1>3 DEF RecordAnchor
<1> QED
  BY <1>1, <1>2, <1>3 DEF Next, ReadCurrent, RecordHeight, vars

LEMMA TypesFollow == Tables /\ Numbers => TypeOK
  BY DEF Tables, Numbers, TypedRows, TypeOK

\* The tables keep their types, whatever is inserted, read or recorded (TypeOK).
THEOREM StoreTyped == Spec => []TypeOK
<1>1. (Tables /\ Numbers) /\ [Next]_vars => (Tables /\ Numbers)'
  BY NextTables, NextNumbers
<1> QED
  BY <1>1, InitTables, TypesFollow, PTL DEF Spec

-----------------------------------------------------------------------------
(* Prefixes. *)

\* An insert leaves the leaves before it where they are.
LEMMA PrefixKept ==
  ASSUME Tables, Grown, NEW n \in Nat, n <= Len(leaves)
  PROVE  /\ n <= Len(leaves')
         /\ SubSeq(leaves', 1, n) = SubSeq(leaves, 1, n)
<1>1. CASE leaves' = leaves
  BY <1>1
<1>2. ASSUME NEW leaf \in Leaves, leaves' = Append(leaves, leaf)
      PROVE  n <= Len(leaves') /\ SubSeq(leaves', 1, n) = SubSeq(leaves, 1, n)
  <2>1. IsTable(leaves) /\ Len(leaves) \in Nat /\ DOMAIN leaves = 1..Len(leaves)
    BY TablesLen
  <2>2. /\ IsTable(leaves') /\ Len(leaves') = Len(leaves) + 1
        /\ \A k \in DOMAIN leaves : leaves'[k] = leaves[k]
    BY <1>2, <2>1, InsertRow
  <2>3. /\ SubSeq(leaves', 1, n) = [k \in 1..n |-> leaves'[k]]
        /\ SubSeq(leaves, 1, n) = [k \in 1..n |-> leaves[k]]
    BY <2>1, <2>2, PrefixRows
  <2> QED
    BY <2>1, <2>2, <2>3
<1> QED
  BY <1>1, <1>2 DEF Grown, LeavesKept

LEMMA FitsRoot ==
  ASSUME NEW k
  PROVE  /\ Fits(k, ComputeRoot) <=> /\ roots[k].count <= Len(leaves)
                                     /\ roots[k].hash = ComputeRoot(Prefix(roots[k].count))
         /\ Fits(k, ComputeLegacyRoot) <=>
              /\ roots[k].count <= Len(leaves)
              /\ roots[k].hash = ComputeLegacyRoot(Prefix(roots[k].count))
  BY DEF Fits

\* A row that commits to a prefix always will.
LEMMA FitsKept ==
  ASSUME Tables, Grown, NEW k \in DOMAIN roots
  PROVE  /\ Fits(k, ComputeRoot) => Fits(k, ComputeRoot)'
         /\ Fits(k, ComputeLegacyRoot) => Fits(k, ComputeLegacyRoot)'
<1> DEFINE n == roots[k].count
<1>1. n \in Nat /\ roots'[k].count = n /\ roots'[k].hash = roots[k].hash
  BY DEF Tables, TypedRows, Grown, RowsKept
<1>2. n <= Len(leaves) => n <= Len(leaves') /\ Prefix(n)' = Prefix(n)
  BY <1>1, PrefixKept DEF Prefix
<1> QED
  BY <1>1, <1>2 DEF Fits, Prefix

\* Rows that a step adds are canonical roots of all leaves.
LEMMA NewRows ==
  ASSUME Tables, [Next]_vars, NEW k \in DOMAIN roots', k \notin DOMAIN roots
  PROVE  roots'[k].hash = ComputeRoot(leaves') /\ roots'[k].count = Len(leaves')
<1> USE StoreAssumption
<1>0. /\ Len(leaves) \in Nat /\ Len(roots) \in Nat /\ IsTable(roots) /\ TypedRows(roots)
      /\ \A j \in DOMAIN roots : j \in DOMAIN roots /\ roots[j] = roots[j]
  BY TablesLen DEF Tables
<1>1. ASSUME leaves' = leaves, roots' = WithCurrent(leaves, roots)
      PROVE  roots'[k].hash = ComputeRoot(leaves') /\ roots'[k].count = Len(leaves')
  BY <1>0, <1>1, CurrentRows
<1>2. ASSUME NEW leaf \in Leaves, leaves' = Append(leaves, leaf),
             roots' = WithCurrent(leaves', Append(roots, RootAfter(leaf)))
      PROVE  roots'[k].hash = ComputeRoot(leaves') /\ roots'[k].count = Len(leaves')
  <2> DEFINE rows == Append(roots, RootAfter(leaf))
  <2>1. Len(leaves') = Len(leaves) + 1
    BY <1>2, AppendProperties DEF Tables
  <2>2. RootAfter(leaf) = Root(ComputeRoot(leaves'), Len(leaves'))
    BY <1>2, <2>1 DEF RootAfter
  <2>3. /\ IsTable(rows) /\ TypedRows(rows) /\ Len(rows) = Len(roots) + 1
        /\ \A j \in DOMAIN roots : j \in DOMAIN rows /\ rows[j] = roots[j]
        /\ \A j \in DOMAIN rows : j \in DOMAIN roots \/ rows[j] = RootAfter(leaf)
    BY <1>0, <2>1, <2>2, OneMoreRoot
  <2> HIDE DEF rows
  <2>4. roots' = WithCurrent(leaves', rows) /\ Len(leaves') \in Nat /\ Len(roots) <= Len(rows)
    BY <1>0, <1>2, <2>1, <2>3 DEF rows
  <2>5. \A j \in DOMAIN roots' :
          \/ j \in DOMAIN rows /\ roots'[j] = rows[j]
          \/ roots'[j].hash = ComputeRoot(leaves') /\ roots'[j].count = Len(leaves')
    BY <2>3, <2>4, CurrentRows
  <2>6. /\ RootAfter(leaf).hash = ComputeRoot(leaves')
        /\ RootAfter(leaf).count = Len(leaves')
    BY <2>2 DEF Root
  <2> QED
    BY <2>3, <2>5, <2>6
<1>3. ASSUME DOMAIN roots' = DOMAIN roots PROVE FALSE
  BY <1>3
<1>4. ASSUME NEW leaf \in Leaves, InsertLeaf(leaf)
      PROVE  roots'[k].hash = ComputeRoot(leaves') /\ roots'[k].count = Len(leaves')
  BY <1>1, <1>2, <1>4 DEF InsertLeaf
<1>5. ASSUME NEW hash, NEW h, RecordAnchor(hash, h) PROVE FALSE
  BY <1>3, <1>5 DEF RecordAnchor
<1>6. ASSUME NEW j, NEW h, RecordHeight(j, h) PROVE FALSE
  BY <1>3, <1>6 DEF RecordHeight
<1> QED
  BY <1>1, <1>3, <1>4, <1>5, <1>6 DEF Next, ReadCurrent, vars

LEMMA NextPrefixes ==
  Tables /\ Numbers /\ RootsCommitToPrefixes /\ [Next]_vars => RootsCommitToPrefixes'
<1> SUFFICES ASSUME Tables, Numbers, RootsCommitToPrefixes, [Next]_vars,
                    NEW k \in DOMAIN roots', k > upgraded'
             PROVE  Fits(k, ComputeRoot)'
  BY DEF RootsCommitToPrefixes
<1>1. Tables' /\ Grown
  BY NextTables
<1>2. upgraded' = upgraded
  BY DEF Next, InsertLeaf, ReadCurrent, RecordAnchor, RecordHeight, vars
<1>3. CASE k \in DOMAIN roots
  BY <1>1, <1>2, <1>3, FitsKept DEF RootsCommitToPrefixes
<1>4. CASE k \notin DOMAIN roots
  <2>1. roots'[k].hash = ComputeRoot(leaves') /\ roots'[k].count = Len(leaves')
    BY <1>4, NewRows
  <2>2. IsTable(leaves') /\ Len(leaves') \in Nat
    BY <1>1, TypedTable, LenProperties DEF Tables
  <2>3. SubSeq(leaves', 1, Len(leaves')) = leaves'
    BY <2>2, WholeTable
  <2>4. roots'[k].count <= Len(leaves')
    BY <2>1, <2>2
  <2>5. ComputeRoot(SubSeq(leaves', 1, roots'[k].count)) = ComputeRoot(leaves')
    BY <2>1, <2>3, Zenon
  <2>6. roots'[k].hash = ComputeRoot(SubSeq(leaves', 1, roots'[k].count))
    BY <2>1, <2>5, Zenon
  <2> QED
    BY <2>4, <2>6 DEF Fits, Prefix
<1> QED
  BY <1>3, <1>4

LEMMA InitPrefixes == Init => RootsCommitToPrefixes
<1> SUFFICES ASSUME Init PROVE RootsCommitToPrefixes
  OBVIOUS
<1>1. DOMAIN roots = 1..upgraded
  BY InitTables, TableIndexes DEF Init, Tables
<1>2. upgraded \in Nat
  BY InitTables, TableIndexes DEF Init, Tables
<1> QED
  BY <1>1, <1>2 DEF RootsCommitToPrefixes

\* A root that this release writes commits to the first leaves it counts, and
\* whatever is inserted afterwards it still does (RootsCommitToPrefixes).
THEOREM RootsCommit == Spec => []RootsCommitToPrefixes
<1>1. Init => RootsCommitToPrefixes
  BY InitPrefixes
<1>2. (Tables /\ Numbers /\ RootsCommitToPrefixes) /\ [Next]_vars
        => (Tables /\ Numbers /\ RootsCommitToPrefixes)'
  BY NextTables, NextNumbers, NextPrefixes
<1> QED
  BY <1>1, <1>2, InitTables, PTL DEF Spec

-----------------------------------------------------------------------------
(* Anchored leaves. *)

\* A row is found for a leaf exactly when an anchored one that covers its
\* position commits to a prefix.
LEMMA AnchoredMeans ==
  ASSUME NEW leaf
  PROVE  Anchored(leaf) <=>
           \E k \in DOMAIN roots :
             /\ roots[k].anchored /\ roots[k].count >= Index(leaf)
             /\ Fits(k, ComputeRoot) \/ Fits(k, ComputeLegacyRoot)
  BY DEF Anchored, Selected, Covering

\* A leaf keeps its position.
LEMMA IndexKept ==
  ASSUME Tables, Tables', Grown, NEW leaf \in Stored
  PROVE  Index(leaf)' = Index(leaf)
<1>1. PICK p \in DOMAIN leaves : leaves[p] = leaf
  BY DEF Stored
<1>2. p \in 1..Len(leaves) /\ Len(leaves) \in Nat /\ DOMAIN leaves' = 1..Len(leaves') /\ Len(leaves') \in Nat
  BY TablesLen, LenProperties DEF Tables
<1>3. p \in 1..Len(leaves') /\ leaves'[p] = leaf
  <2>1. CASE leaves' = leaves
    BY <1>1, <1>2, <2>1
  <2>2. ASSUME NEW new \in Leaves, leaves' = Append(leaves, new)
        PROVE p \in 1..Len(leaves') /\ leaves'[p] = leaf
    BY <1>1, <1>2, <2>2, AppendProperties DEF Tables
  <2> QED
    BY <2>1, <2>2 DEF Grown, LeavesKept
<1>4. Index(leaf) = p
  <2>1. \A k \in 1..Len(leaves) : leaves[k] = leaf => k = p
    BY <1>1, <1>2, TablesLen DEF Tables
  <2> QED
    BY <1>1, <1>2, <2>1 DEF Index
<1>5. Index(leaf)' = p
  <2>1. \A k \in 1..Len(leaves') : leaves'[k] = leaf => k = p
    BY <1>2, <1>3 DEF Tables
  <2> QED
    BY <1>3, <2>1 DEF Index
<1> QED
  BY <1>4, <1>5

LEMMA AnchoredKept ==
  ASSUME Tables, [Next]_vars, NEW leaf \in Stored, Anchored(leaf)
  PROVE  Anchored(leaf)'
<1>1. Tables' /\ Grown
  BY NextTables
<1>2. PICK k \in DOMAIN roots :
        /\ roots[k].anchored /\ roots[k].count >= Index(leaf)
        /\ Fits(k, ComputeRoot) \/ Fits(k, ComputeLegacyRoot)
  BY AnchoredMeans
<1>3. Fits(k, ComputeRoot)' \/ Fits(k, ComputeLegacyRoot)'
  BY <1>1, <1>2, FitsKept
<1>4. k \in DOMAIN roots'
  BY <1>1, TableIndexes DEF Tables, Grown, RowsKept
<1>5. roots'[k].anchored /\ roots'[k].count >= Index(leaf)'
  BY <1>1, <1>2, IndexKept DEF Grown, RowsKept
<1> QED
  BY <1>3, <1>4, <1>5 DEF Anchored, Selected, Covering

\* A leaf that is served with an anchored root is so for good, whatever is
\* inserted, read or recorded afterwards (AnchoredStays).
THEOREM AnchorsAreKept == Spec => AnchoredStays
<1>1. Tables /\ [Next]_vars => [\A leaf \in Stored : Anchored(leaf) => Anchored(leaf)']_vars
  BY AnchoredKept
<1>2. (Tables /\ Numbers) /\ [Next]_vars => (Tables /\ Numbers)'
  BY NextTables, NextNumbers
<1> QED
  BY <1>1, <1>2, InitTables, PTL DEF Spec, AnchoredStays

-----------------------------------------------------------------------------
(* The store as a log. *)

\* Rows that publish: anchored ones that commit to a prefix.
Publishing(k) ==
  /\ k \in DOMAIN roots /\ roots[k].anchored
  /\ Fits(k, ComputeRoot) \/ Fits(k, ComputeLegacyRoot)

\* The leaf at position p is published exactly when a publishing row counts it.
LEMMA PublishedMeans ==
  ASSUME Tables, NEW p \in DOMAIN leaves
  PROVE  leaves[p] \in Published <=> \E k : Publishing(k) /\ roots[k].count >= p
<1>1. Index(leaves[p]) = p
  <2>1. p \in 1..Len(leaves) /\ \A k \in 1..Len(leaves) : leaves[k] = leaves[p] => k = p
    BY TablesLen DEF Tables
  <2> QED
    BY <2>1 DEF Index
<1>2. leaves[p] \in Stored
  BY DEF Stored
<1>3. leaves[p] \in Published <=> Anchored(leaves[p])
  BY <1>2 DEF Published
<1>4. Anchored(leaves[p]) <=> \E k : Publishing(k) /\ roots[k].count >= p
  BY <1>1, AnchoredMeans DEF Publishing
<1> QED
  BY <1>3, <1>4

PublishedIsCounted ==
  \A p \in DOMAIN leaves :
    leaves[p] \in Published <=> \E k : Publishing(k) /\ roots[k].count >= p

LEMMA PublishedLeaves == Tables => PublishedIsCounted
  BY PublishedMeans DEF PublishedIsCounted

LEMMA PublishedNext == Tables' => PublishedIsCounted'
  BY PublishedLeaves, PTL

\* A publishing row counts leaves that are there.
LEMMA PublishingCounts ==
  ASSUME Tables, NEW k, Publishing(k)
  PROVE  roots[k].count \in 0..Len(leaves)
<1>1. roots[k].count \in Nat
  BY DEF Publishing, Tables, TypedRows
<1>2. roots[k].count <= Len(leaves)
  BY FitsRoot DEF Publishing
<1> QED
  BY <1>1, <1>2, TablesLen

\* Imported rows: at most one is anchored.
LEMMA InitLog == Init => Log!Init
<1> SUFFICES ASSUME Init PROVE Log!Init
  OBVIOUS
<1>1. Tables
  BY InitTables
<1>2. Len(leaves) \in Nat /\ DOMAIN leaves = 1..Len(leaves)
  BY <1>1, TablesLen
<1>3. \A j, k : Publishing(j) /\ Publishing(k) => j = k
  <2>1. PICK n \in 0..Len(Imported) : \E row \in 0..n, surplus \in 0..n, height \in 0..LegacyMax :
          LegacyStore(n, row, height, surplus)
    BY DEF Init
  <2>2. PICK row \in 0..n, surplus \in 0..n, height \in 0..LegacyMax :
          LegacyStore(n, row, height, surplus)
    BY <2>1
  <2>3. \A k \in DOMAIN roots : roots[k].anchored => k = row
    BY <2>2 DEF LegacyStore
  <2> QED
    BY <2>3 DEF Publishing
<1>4. \E n \in 0..Len(leaves) : Published = Log!FirstPart(n)
  <2>1. CASE \E k : Publishing(k)
    <3>1. PICK k : Publishing(k)
      BY <2>1
    <3>2. roots[k].count \in 0..Len(leaves)
      BY <1>1, <3>1, PublishingCounts
    <3>3. \A p \in DOMAIN leaves : leaves[p] \in Published <=> p <= roots[k].count
      BY <1>1, <1>2, <1>3, <3>1, <3>2, PublishedMeans
    <3>4. Published = {leaves[p] : p \in 1..roots[k].count}
      BY <1>2, <3>2, <3>3 DEF Published, Stored
    <3> QED
      BY <3>2, <3>4 DEF Log!FirstPart
  <2>2. CASE ~\E k : Publishing(k)
    <3>1. \A p \in DOMAIN leaves : leaves[p] \notin Published
      BY <1>1, <2>2, PublishedMeans
    <3>2. Published = {}
      BY <3>1 DEF Published, Stored
    <3>3. Log!FirstPart(0) = {}
      BY DEF Log!FirstPart
    <3> QED
      BY <1>2, <3>2, <3>3
  <2> QED
    BY <2>1, <2>2
<1> QED
  BY <1>1, <1>4 DEF Log!Init, Tables

\* No row counts more leaves than there are.
Counted == \A k \in DOMAIN roots : roots[k].count <= Len(leaves)

LEMMA InitCounted == Init => Counted
<1> SUFFICES ASSUME Init, NEW k \in DOMAIN roots PROVE roots[k].count <= Len(leaves)
  BY DEF Counted
<1>1. PICK n \in 0..Len(Imported) : \E row \in 0..n, surplus \in 0..n, height \in 0..LegacyMax :
        LegacyStore(n, row, height, surplus)
  BY DEF Init
<1>2. PICK row \in 0..n, surplus \in 0..n, height \in 0..LegacyMax :
        LegacyStore(n, row, height, surplus)
  BY <1>1
<1>3. n \in Nat /\ Len(leaves) = n
  <2>1. IsTable(leaves) /\ DOMAIN leaves = 1..n /\ n \in Nat
    BY <1>2, InitTables, TablesLen, LenProperties DEF LegacyStore, StoreAssumption
  <2> QED
    BY <2>1, TableIndexes
<1>4. k \in 1..n
  BY <1>2 DEF LegacyStore
<1> DEFINE claimed == IF k = surplus THEN k + 1 ELSE k
<1>5. roots[k].count = Min({n, claimed})
  BY <1>2, <1>4 DEF LegacyStore
<1>6. ASSUME NEW a \in Nat, NEW b \in Nat PROVE Min({a, b}) <= a
  <2>1. \E x \in {a, b} : \A y \in {a, b} : x <= y
    BY <1>6
  <2>2. Min({a, b}) \in {a, b} /\ \A y \in {a, b} : Min({a, b}) <= y
    BY <2>1 DEF Min
  <2> QED
    BY <2>2
<1>7. claimed \in Nat
  BY <1>3, <1>4
<1> HIDE DEF claimed
<1> QED
  BY <1>3, <1>5, <1>6, <1>7

LEMMA NextCounted == Tables /\ Counted /\ [Next]_vars => Counted'
<1> SUFFICES ASSUME Tables, Counted, [Next]_vars, NEW k \in DOMAIN roots'
             PROVE  roots'[k].count <= Len(leaves')
  BY DEF Counted
<1>1. Tables' /\ Grown
  BY NextTables
<1>2. Len(leaves) \in Nat /\ Len(leaves') \in Nat
  BY <1>1, LenProperties DEF Tables
<1>3. CASE k \in DOMAIN roots
  <2>1. roots'[k].count = roots[k].count /\ roots[k].count \in Nat
    BY <1>1, <1>3 DEF Grown, RowsKept, Tables, TypedRows
  <2>2. Len(leaves) <= Len(leaves')
    BY <1>1, <1>2, PrefixKept
  <2> QED
    BY <1>2, <1>3, <2>1, <2>2 DEF Counted
<1>4. CASE k \notin DOMAIN roots
  BY <1>2, <1>4, NewRows
<1> QED
  BY <1>3, <1>4

\* Completing the current root adds at most a row without an anchor.
LEMMA CurrentPublishesNothing ==
  ASSUME StoreAssumption, NEW rows, IsTable(rows), TypedRows(rows),
         NEW list, Len(list) \in Nat
  PROVE  LET new == WithCurrent(list, rows) IN
         /\ \A k \in DOMAIN rows : k \in DOMAIN new /\ new[k] = rows[k]
         /\ \A k \in DOMAIN new : k \in DOMAIN rows \/ ~new[k].anchored
<1> DEFINE row == Root(ComputeRoot(list), Len(list))
<1>1. CASE WithCurrent(list, rows) = rows
  BY <1>1
<1>2. CASE WithCurrent(list, rows) = Append(rows, row)
  <2>1. /\ \A k \in DOMAIN rows : k \in DOMAIN Append(rows, row) /\ Append(rows, row)[k] = rows[k]
        /\ \A k \in DOMAIN Append(rows, row) : k \in DOMAIN rows \/ Append(rows, row)[k] = row
    BY OneMoreRoot
  <2>2. ~row.anchored
    BY DEF Root
  <2> HIDE DEF row
  <2> QED
    BY <1>2, <2>1, <2>2
<1> QED
  BY <1>1, <1>2, CurrentAdds

\* Neither an insert nor a reader publishes or retracts a row.
LEMMA WritersPublishNothing ==
  ASSUME Tables, Counted, [Next]_vars,
         (\E leaf \in Leaves : InsertLeaf(leaf)) \/ ReadCurrent
  PROVE  \A k : /\ Publishing(k)' <=> Publishing(k)
                /\ Publishing(k) => roots'[k].count = roots[k].count
<1> USE StoreAssumption
<1>1. Tables' /\ Grown /\ Len(leaves) \in Nat /\ IsTable(roots) /\ TypedRows(roots)
  BY NextTables, TablesLen DEF Tables
<1>2. /\ \A k \in DOMAIN roots : k \in DOMAIN roots' /\ roots'[k] = roots[k]
      /\ \A k \in DOMAIN roots' : k \in DOMAIN roots \/ ~roots'[k].anchored
  <2>1. CASE roots' = WithCurrent(leaves, roots)
    BY <1>1, <2>1, CurrentPublishesNothing
  <2>2. ASSUME NEW leaf \in Leaves, leaves' = Append(leaves, leaf),
               roots' = WithCurrent(leaves', Append(roots, RootAfter(leaf)))
        PROVE  /\ \A k \in DOMAIN roots : k \in DOMAIN roots' /\ roots'[k] = roots[k]
               /\ \A k \in DOMAIN roots' : k \in DOMAIN roots \/ ~roots'[k].anchored
    <3> DEFINE rows == Append(roots, RootAfter(leaf))
    <3>1. Len(leaves') \in Nat
      BY <1>1, LenProperties DEF Tables
    <3>2. /\ IsTable(rows) /\ TypedRows(rows)
          /\ \A k \in DOMAIN roots : k \in DOMAIN rows /\ rows[k] = roots[k]
          /\ \A k \in DOMAIN rows : k \in DOMAIN roots \/ rows[k] = RootAfter(leaf)
      BY <1>1, OneMoreRoot DEF RootAfter
    <3>3. ~RootAfter(leaf).anchored
      BY DEF RootAfter, Root
    <3> HIDE DEF rows
    <3>4. roots' = WithCurrent(leaves', rows)
      BY <2>2 DEF rows
    <3>5. /\ \A k \in DOMAIN rows : k \in DOMAIN roots' /\ roots'[k] = rows[k]
          /\ \A k \in DOMAIN roots' : k \in DOMAIN rows \/ ~roots'[k].anchored
      BY <3>1, <3>2, <3>4, CurrentPublishesNothing
    <3> QED
      BY <3>2, <3>3, <3>5
  <2> QED
    BY <2>1, <2>2 DEF InsertLeaf, ReadCurrent
<1>3. ASSUME NEW k \in DOMAIN roots
      PROVE  /\ Fits(k, ComputeRoot)' <=> Fits(k, ComputeRoot)
             /\ Fits(k, ComputeLegacyRoot)' <=> Fits(k, ComputeLegacyRoot)
  <2> DEFINE n == roots[k].count
  <2>1. n \in Nat /\ roots'[k] = roots[k] /\ n <= Len(leaves)
    BY <1>1, <1>2 DEF TypedRows, Counted
  <2>2. n <= Len(leaves') /\ SubSeq(leaves', 1, n) = SubSeq(leaves, 1, n)
    BY <1>1, <2>1, PrefixKept
  <2> QED
    BY <2>1, <2>2 DEF Fits, Prefix
<1>4. ASSUME NEW k PROVE Publishing(k)' <=> Publishing(k)
  BY <1>2, <1>3 DEF Publishing
<1> QED
  BY <1>2, <1>4 DEF Publishing

\* A step that only changes anchors publishes the rows it anchors.
LEMMA SameLeavesPublish ==
  ASSUME Tables, Tables', leaves' = leaves, NEW n \in 0..Len(leaves),
         \A p \in DOMAIN leaves :
           (\E k : Publishing(k)' /\ roots'[k].count >= p) <=>
             (\E k : Publishing(k) /\ roots[k].count >= p) \/ p <= n
  PROVE  Published' = Published \cup Log!FirstPart(n)
<1>1. \A p \in DOMAIN leaves : leaves[p] \in Published' <=> leaves[p] \in Published \/ p <= n
  <2> SUFFICES ASSUME NEW p \in DOMAIN leaves
               PROVE  leaves[p] \in Published' <=> leaves[p] \in Published \/ p <= n
    OBVIOUS
  <2>1. leaves[p] \in Published <=> \E k : Publishing(k) /\ roots[k].count >= p
    BY PublishedMeans
  <2>2. leaves'[p] \in Published' <=> \E k : Publishing(k)' /\ roots'[k].count >= p
    BY PublishedNext DEF PublishedIsCounted
  <2> QED
    BY <2>1, <2>2
<1>2. n \in Nat /\ \A p \in 1..n : p \in DOMAIN leaves
  BY TablesLen
<1>3. DOMAIN leaves = 1..Len(leaves) /\ Len(leaves) \in Nat
  BY TablesLen
<1>4. Published \subseteq Stored /\ Published' \subseteq Stored
  BY DEF Published, Stored
<1>5. Log!FirstPart(n) = {leaves[p] : p \in 1..n}
  BY DEF Log!FirstPart
<1> QED
  BY <1>1, <1>2, <1>3, <1>4, <1>5 DEF Stored

\* Every step is a step of the log, or none.
LEMMA NextLog == Tables /\ Counted /\ [Next]_vars => [Log!Next]_(Log!vars)
<1> SUFFICES ASSUME Tables, Counted, [Next]_vars PROVE [Log!Next]_(Log!vars)
  OBVIOUS
<1>1. /\ Tables' /\ Counted' /\ Grown
      /\ Len(leaves) \in Nat /\ DOMAIN leaves = 1..Len(leaves)
      /\ DOMAIN roots = 1..Len(roots)
  BY NextTables, NextCounted, TablesLen
<1> DEFINE Counts(p) == \E k : Publishing(k) /\ roots[k].count >= p
           CountsNext(p) == \E k : Publishing(k)' /\ roots'[k].count >= p
<1>2. PublishedIsCounted /\ PublishedIsCounted'
  BY <1>1, PublishedLeaves, PublishedNext
<1>3. ASSUME leaves' = leaves, NEW n \in 0..Len(leaves),
             \A p \in DOMAIN leaves : CountsNext(p) <=> Counts(p) \/ p <= n
      PROVE  [Log!Next]_(Log!vars)
  <2>1. Published' = Published \cup Log!FirstPart(n)
    BY <1>1, <1>3, SameLeavesPublish
  <2>2. CASE n = 0
    <3>1. Log!FirstPart(0) = {}
      BY DEF Log!FirstPart
    <3> QED
      BY <1>3, <2>1, <2>2, <3>1 DEF Log!vars
  <2>3. CASE n \in 1..Len(leaves)
    BY <1>3, <2>1, <2>3 DEF Log!Next, Log!Publish
  <2> QED
    BY <1>1, <2>2, <2>3
<1>4. CASE (\E leaf \in Leaves : InsertLeaf(leaf)) \/ ReadCurrent
  <2>1. \A k : /\ Publishing(k)' <=> Publishing(k)
               /\ Publishing(k) => roots'[k].count = roots[k].count
    BY <1>4, WritersPublishNothing
  <2>2. \A p : CountsNext(p) <=> Counts(p)
    BY <2>1
  <2>3. CASE leaves' = leaves
    <3> HIDE DEF Counts, CountsNext
    <3>1. \A p \in DOMAIN leaves : CountsNext(p) <=> Counts(p) \/ p <= 0
      BY <1>1, <2>2
    <3> QED
      BY <1>1, <1>3, <2>3, <3>1
  <2>4. ASSUME NEW leaf \in Leaves, leaf \notin Stored, leaves' = Append(leaves, leaf)
        PROVE  [Log!Next]_(Log!vars)
    <3>1. /\ Len(leaves') = Len(leaves) + 1 /\ DOMAIN leaves' = 1..Len(leaves) + 1
          /\ \A p \in DOMAIN leaves : leaves'[p] = leaves[p]
      BY <1>1, <2>4, AppendProperties, LenProperties DEF Tables
    <3>2. ~CountsNext(Len(leaves) + 1)
      <4>1. \A k : Publishing(k) => roots[k].count \in 0..Len(leaves)
        BY PublishingCounts
      <4> QED
        BY <1>1, <2>1, <4>1
    <3>a. \A p \in DOMAIN leaves : leaves[p] \in Published <=> Counts(p)
      BY <1>2 DEF PublishedIsCounted
    <3>b. \A p \in DOMAIN leaves' : leaves'[p] \in Published' <=> CountsNext(p)
      BY <1>2 DEF PublishedIsCounted
    <3> HIDE DEF Counts, CountsNext
    <3>3. \A p \in DOMAIN leaves : leaves'[p] \in Published' <=> leaves[p] \in Published
      BY <1>1, <2>2, <3>1, <3>a, <3>b
    <3>4. leaves'[Len(leaves) + 1] \notin Published'
      BY <1>1, <3>1, <3>2, <3>b
    <3>5. /\ Published \subseteq Stored /\ Published' \subseteq Stored'
          /\ Stored = {leaves[p] : p \in 1..Len(leaves)}
          /\ Stored' = {leaves'[p] : p \in 1..Len(leaves) + 1}
      BY <1>1, <3>1 DEF Published, Stored
    <3>6. Published' = Published
      BY <1>1, <3>1, <3>3, <3>4, <3>5
    <3> QED
      BY <2>4, <3>6 DEF Log!Next, Log!Add, Log!Entries, Stored
  <2> QED
    BY <1>1, <2>3, <2>4 DEF Grown, LeavesKept
<1>5. ASSUME NEW k \in DOMAIN roots, NEW hash, NEW h, k = RowOf(hash),
             RecordAnchor(hash, h)
      PROVE  [Log!Next]_(Log!vars)
  <2>1. /\ leaves' = leaves /\ DOMAIN roots' = DOMAIN roots
        /\ roots'[k].anchored
        /\ \A j \in DOMAIN roots : /\ roots'[j].hash = roots[j].hash
                                   /\ roots'[j].count = roots[j].count
                                   /\ j # k => roots'[j].anchored = roots[j].anchored
    <3>1. roots' = [roots EXCEPT ![k].anchored = TRUE, ![k].height = h]
      BY <1>5 DEF RecordAnchor
    <3>2. /\ DOMAIN roots[k] = {"hash", "count", "anchored", "height"}
          /\ leaves' = leaves
      BY <1>5 DEF RecordAnchor, Tables, TypedRows
    <3> QED
      BY <1>1, <3>1, <3>2 DEF Grown, RowsKept
  <2>2. ~roots[k].anchored
    BY <1>5 DEF RecordAnchor
  <2>3. \A j \in DOMAIN roots : /\ Fits(j, ComputeRoot)' <=> Fits(j, ComputeRoot)
                                /\ Fits(j, ComputeLegacyRoot)' <=> Fits(j, ComputeLegacyRoot)
    BY <2>1 DEF Fits, Prefix
  <2> DEFINE fits == Fits(k, ComputeRoot) \/ Fits(k, ComputeLegacyRoot)
  <2>4. \A j : Publishing(j)' <=> Publishing(j) \/ (j = k /\ fits)
    BY <2>1, <2>2, <2>3 DEF Publishing
  <2>5. \A j : Publishing(j) => roots'[j].count = roots[j].count
    BY <2>1 DEF Publishing
  <2>6. roots[k].count \in Nat /\ roots'[k].count = roots[k].count
    BY <2>1 DEF Tables, TypedRows
  <2>7. fits => roots[k].count <= Len(leaves)
    BY FitsRoot
  <2> HIDE DEF fits
  <2>8. CASE fits
    <3>1. \A p \in DOMAIN leaves : CountsNext(p) <=> Counts(p) \/ p <= roots[k].count
      BY <1>1, <2>4, <2>5, <2>6, <2>8
    <3>2. roots[k].count \in 0..Len(leaves)
      BY <1>1, <2>6, <2>7, <2>8
    <3> HIDE DEF Counts, CountsNext
    <3> QED
      BY <1>3, <2>1, <3>1, <3>2
  <2>9. CASE ~fits
    <3>1. \A p \in DOMAIN leaves : CountsNext(p) <=> Counts(p) \/ p <= 0
      BY <1>1, <2>4, <2>5, <2>9
    <3> HIDE DEF Counts, CountsNext
    <3> QED
      BY <1>1, <1>3, <2>1, <3>1
  <2> QED
    BY <2>8, <2>9
<1>6. ASSUME leaves' = leaves, DOMAIN roots' = DOMAIN roots,
             \A j \in DOMAIN roots : /\ roots'[j].hash = roots[j].hash
                                     /\ roots'[j].count = roots[j].count
                                     /\ roots'[j].anchored = roots[j].anchored
      PROVE  [Log!Next]_(Log!vars)
  <2>1. \A j : Publishing(j)' <=> Publishing(j)
    BY <1>6 DEF Publishing, Fits, Prefix
  <2>2. \A j : Publishing(j) => roots'[j].count = roots[j].count
    BY <1>6 DEF Publishing
  <2>3. \A p \in DOMAIN leaves : CountsNext(p) <=> Counts(p) \/ p <= 0
    BY <1>1, <2>1, <2>2
  <2> HIDE DEF Counts, CountsNext
  <2> QED
    BY <1>1, <1>3, <1>6, <2>3
<1>7. ASSUME NEW k \in DOMAIN roots, NEW h, RecordHeight(k, h)
      PROVE  [Log!Next]_(Log!vars)
  <2>1. /\ roots' = [roots EXCEPT ![k].height = h] /\ leaves' = leaves
        /\ DOMAIN roots[k] = {"hash", "count", "anchored", "height"}
    BY <1>7 DEF RecordHeight, Tables, TypedRows
  <2> QED
    BY <1>1, <1>6, <2>1
<1>8. CASE UNCHANGED vars
  BY <1>6, <1>8 DEF vars
<1>9. ASSUME NEW hash, NEW h, RecordAnchor(hash, h), RowOf(hash) \notin DOMAIN roots
      PROVE  [Log!Next]_(Log!vars)
  <2>1. roots \in [DOMAIN roots -> RowsIn(roots)]
    BY LenProperties DEF Tables, IsTable
  <2>2. roots' = roots /\ leaves' = leaves
    BY <1>9, <2>1 DEF RecordAnchor
  <2> QED
    BY <1>6, <2>2
<1> QED
  BY <1>4, <1>5, <1>7, <1>8, <1>9 DEF Next

\* The store implements the append-only log with a published first part
\* (LogSpec): no leaf is published by being inserted, none is dropped or
\* repeated, and what an anchor publishes stays so.
THEOREM ImplementsLog == Spec => LogSpec
<1>1. (Tables /\ Counted) /\ [Next]_vars => (Tables /\ Counted)'
  BY NextTables, NextCounted
<1> QED
  BY <1>1, InitTables, InitCounted, InitLog, NextLog, PTL DEF Spec, LogSpec, Log!Spec

-----------------------------------------------------------------------------
(* Served proofs. *)

\* Among some rows there is an oldest one with the smallest count.
LEMMA SmallestRow ==
  ASSUME Tables, NEW rows, rows \subseteq DOMAIN roots, rows # {}
  PROVE  Smallest(rows) \in rows
<1> DEFINE counts == {roots[k].count : k \in rows}
<1>1. counts \subseteq Nat /\ counts # {}
  BY DEF Tables, TypedRows
<1>2. PICK c \in counts : \A d \in counts : c <= d
  BY <1>1, LeastNat
<1> DEFINE equal == {k \in rows : roots[k].count = c}
<1>3. equal \subseteq Nat /\ equal # {}
  BY <1>2, TablesLen
<1>4. PICK k \in equal : \A j \in equal : k <= j
  BY <1>3, LeastNat
<1>5. ASSUME NEW j \in rows
      PROVE  \/ roots[k].count < roots[j].count
             \/ roots[k].count = roots[j].count /\ k <= j
  <2>1. c <= roots[j].count /\ roots[j].count \in Nat /\ c \in Nat
    BY <1>1, <1>2
  <2>2. roots[j].count = c => k <= j
    BY <1>4
  <2> QED
    BY <2>1, <2>2
<1>6. k \in rows
  OBVIOUS
<1> QED
  BY <1>5, <1>6 DEF Smallest

LEMMA OnlyRow ==
  ASSUME NEW k \in Nat
  PROVE  Max({k}) = k
<1>1. \E x \in {k} : \A y \in {k} : x >= y
  OBVIOUS
<1> QED
  BY <1>1 DEF Max

LEMMA StoredLeaf ==
  ASSUME Tables, NEW leaf \in Stored
  PROVE  Index(leaf) \in 1..Len(leaves) /\ leaves[Index(leaf)] = leaf
<1>1. \E p \in 1..Len(leaves) : leaves[p] = leaf
  BY TablesLen DEF Stored
<1> QED
  BY <1>1 DEF Index

LEMMA PrefixList ==
  ASSUME Tables, NEW n \in 0..Len(leaves)
  PROVE  /\ IsTable(Prefix(n)) /\ Len(Prefix(n)) = n
         /\ \A p \in 1..n : Prefix(n)[p] = leaves[p]
<1>1. IsTable(leaves) /\ Len(leaves) \in Nat /\ DOMAIN leaves = 1..Len(leaves)
  BY TablesLen
<1>2. Prefix(n) = [p \in 1..n |-> leaves[p]] /\ n \in Nat
  BY <1>1, PrefixRows DEF Prefix
<1>3. Prefix(n) \in [1..n -> RowsIn(leaves)]
  BY <1>1, <1>2 DEF RowsIn
<1>4. Prefix(n) \in Seq(RowsIn(leaves)) /\ Len(Prefix(n)) = n
  BY <1>2, <1>3, ListIsSequence
<1> QED
  BY <1>2, <1>4, TypedTable

\* The current root is the canonical root of all leaves (current_root).
LEMMA CurrentIsCanonical ==
  ASSUME Tables, leaves # <<>>
  PROVE  LET root == CurrentRoot(leaves, WithCurrent(leaves, roots)) IN
         root.hash = ComputeRoot(leaves) /\ root.count = Len(leaves)
<1> USE StoreAssumption
<1> DEFINE rows == WithCurrent(leaves, roots)
           canonical == ComputeRoot(leaves)
           exact == {k \in DOMAIN rows : rows[k].hash = canonical /\ rows[k].count = Len(leaves)}
<1>1. Len(leaves) \in Nat /\ IsTable(rows) /\ TypedRows(rows)
  <2>1. Len(leaves) \in Nat /\ IsTable(roots) /\ TypedRows(roots)
    BY TablesLen DEF Tables
  <2> QED
    BY <2>1, OneMoreRoot DEF WithCurrent
<1>2. Len(rows) \in Nat /\ DOMAIN rows = 1..Len(rows)
  BY <1>1, TableIndexes
<1>3. CASE exact # {}
  <2>1. exact \subseteq 0..Len(rows)
    BY <1>2
  <2>2. \E x \in exact : \A y \in exact : x >= y
    <3> HIDE DEF exact
    <3> QED
      BY <1>2, <1>3, <2>1, GreatestNat
  <2>3. Max(exact) \in exact
    BY <2>2 DEF Max
  <2>4. CurrentRoot(leaves, rows) = rows[Max(exact)]
    BY <1>3 DEF CurrentRoot
  <2> QED
    BY <2>3, <2>4
<1>4. CASE exact = {}
  <2>1. rows = roots /\ HasCanonical(leaves, roots)
    <3>1. CASE leaves = <<>> \/ HasCanonical(leaves, roots)
      BY <3>1 DEF WithCurrent
    <3>2. CASE ~HasCanonical(leaves, roots)
      <4> DEFINE row == Root(canonical, Len(leaves))
      <4>1. rows = Append(roots, row)
        BY <3>2 DEF WithCurrent
      <4>2. /\ DOMAIN rows = 1..Len(roots) + 1 /\ rows[Len(roots) + 1] = row
            /\ Len(roots) \in Nat
        BY <4>1, InsertRow, TablesLen DEF Tables
      <4>3. row.hash = canonical /\ row.count = Len(leaves)
        BY DEF Root
      <4>4. Len(roots) + 1 \in exact
        BY <4>2, <4>3
      <4> QED
        BY <1>4, <4>4
    <3> QED
      BY <3>1, <3>2
  <2>2. /\ Last(roots).hash = canonical /\ roots # <<>>
        /\ Min({Last(roots).count, Len(leaves)}) = Len(leaves)
    BY <1>4, <2>1 DEF HasCanonical
  <2>3. DOMAIN Last(roots) = {"hash", "count", "anchored", "height"}
    <3>1. Len(roots) \in DOMAIN roots
      BY <2>2, TablesLen, EmptySeq DEF Tables, IsTable
    <3> QED
      BY <3>1 DEF Last, Tables, TypedRows
  <2>4. CurrentRoot(leaves, rows) = [Last(roots) EXCEPT !.count = Min({@, Len(leaves)})]
    BY <1>4, <2>1 DEF CurrentRoot
  <2> QED
    BY <2>2, <2>3, <2>4
<1> QED
  BY <1>3, <1>4

\* The root of a bundle commits to a prefix that holds the leaf; it is a legacy
\* root only if it is not the count-bound root of that prefix as well.
LEMMA ServedRoot ==
  ASSUME Tables, NEW leaf \in Stored
  PROVE  LET root == BundleRoot(leaf) IN
         /\ root.count \in Index(leaf)..Len(leaves)
         /\ \/ root.hash = ComputeRoot(Prefix(root.count))
            \/ /\ root.hash = ComputeLegacyRoot(Prefix(root.count))
               /\ root.hash # ComputeRoot(Prefix(root.count))
<1> DEFINE n == Index(leaf)
           bound == {k \in Covering(n) : Fits(k, ComputeRoot)}
           legacy == {k \in Covering(n) : Fits(k, ComputeLegacyRoot)}
<1>1. n \in 1..Len(leaves) /\ Len(leaves) \in Nat
  BY StoredLeaf, TablesLen
<1>2. /\ bound \subseteq DOMAIN roots /\ legacy \subseteq DOMAIN roots
      /\ DOMAIN roots \subseteq Nat
      /\ \A k \in DOMAIN roots : roots[k].count \in Nat
  BY TablesLen DEF Covering, Tables, TypedRows
<1>3. ASSUME NEW k \in Covering(n), roots[k].count <= Len(leaves)
      PROVE  roots[k].count \in n..Len(leaves)
  BY <1>1, <1>2, <1>3 DEF Covering
<1>4. CASE bound # {}
  <2>1. Smallest(bound) \in bound
    BY <1>2, <1>4, SmallestRow
  <2>2. Selected(n) = {Smallest(bound)}
    BY <1>4 DEF Selected
  <2> DEFINE k == Smallest(bound)
  <2>3. BundleRoot(leaf) = roots[k]
    BY <1>2, <2>1, <2>2, OnlyRow DEF BundleRoot
  <2>4. /\ k \in Covering(n) /\ roots[k].count <= Len(leaves)
        /\ roots[k].hash = ComputeRoot(Prefix(roots[k].count))
    BY <2>1, FitsRoot
  <2> HIDE DEF k
  <2> QED
    BY <1>3, <2>3, <2>4
<1>5. CASE bound = {} /\ legacy # {}
  <2>1. Smallest(legacy) \in legacy
    BY <1>2, <1>5, SmallestRow
  <2>2. Selected(n) = {Smallest(legacy)}
    BY <1>5 DEF Selected
  <2> DEFINE k == Smallest(legacy)
  <2>3. BundleRoot(leaf) = roots[k]
    BY <1>2, <2>1, <2>2, OnlyRow DEF BundleRoot
  <2>4. /\ k \in Covering(n) /\ roots[k].count <= Len(leaves)
        /\ roots[k].hash = ComputeLegacyRoot(Prefix(roots[k].count))
    BY <2>1, FitsRoot
  <2>5. ~Fits(k, ComputeRoot)
    BY <1>5, <2>4
  <2>6. roots[k].hash # ComputeRoot(Prefix(roots[k].count))
    BY <2>4, <2>5, FitsRoot
  <2> HIDE DEF k
  <2> QED
    BY <1>3, <2>3, <2>4, <2>6
<1>6. CASE bound = {} /\ legacy = {}
  <2>1. BundleRoot(leaf) = CurrentRoot(leaves, WithCurrent(leaves, roots))
    BY <1>6 DEF BundleRoot, Selected
  <2>2. leaves # <<>>
    BY <1>1
  <2>3. BundleRoot(leaf).hash = ComputeRoot(leaves) /\ BundleRoot(leaf).count = Len(leaves)
    BY <2>1, <2>2, CurrentIsCanonical
  <2>4. Prefix(Len(leaves)) = leaves
    BY TablesLen, WholeTable DEF Prefix
  <2> QED
    BY <1>1, <2>3, <2>4
<1> QED
  BY <1>4, <1>5, <1>6

\* What is served verifies, under either shape of root.
LEMMA ServedVerifies ==
  ASSUME Tables, NEW leaf \in Stored
  PROVE  LET bundle == Bundle(leaf)
             root == BundleRoot(leaf)
         IN /\ root.count \in 1..Len(leaves)
            /\ \/ VerifyProof(leaf, bundle.proof, root.count, root.hash)
               \/ /\ VerifyLegacyProof(leaf, bundle.proof, root.hash)
                  /\ root.hash = ComputeLegacyRoot(Prefix(root.count))
<1> DEFINE root == BundleRoot(leaf)
           list == Prefix(root.count)
           index == Index(leaf) - 1
           proof == ProofFor(list, index, root)
<1>1. /\ Index(leaf) \in 1..Len(leaves) /\ leaves[Index(leaf)] = leaf
      /\ Len(leaves) \in Nat
  BY StoredLeaf, TablesLen
<1>2. /\ root.count \in Index(leaf)..Len(leaves)
      /\ \/ root.hash = ComputeRoot(list)
         \/ root.hash = ComputeLegacyRoot(list) /\ root.hash # ComputeRoot(list)
  BY ServedRoot
<1>3. Bundle(leaf).proof = proof
  BY DEF Bundle
<1> HIDE DEF root
<1>4. /\ IsTable(list) /\ Len(list) = root.count /\ list[index + 1] = leaf
      /\ index \in 0..Len(list) - 1
  <2>1. root.count \in 0..Len(leaves) /\ Index(leaf) \in 1..root.count
    BY <1>1, <1>2
  <2>2. /\ IsTable(list) /\ Len(list) = root.count
        /\ \A p \in 1..root.count : list[p] = leaves[p]
    BY <2>1, PrefixList
  <2>3. index + 1 = Index(leaf)
    BY <2>1
  <2> HIDE DEF list
  <2> QED
    BY <1>1, <2>1, <2>2, <2>3
<1> HIDE DEF list, index
<1>5. CASE root.hash = ComputeRoot(list)
  <2>1. proof = GenerateProof(list, index)
    BY <1>5 DEF ProofFor
  <2>2. VerifyProof(leaf, proof, root.count, root.hash)
    BY <1>4, <1>5, <2>1, ProofBindsLeaf
  <2> QED
    BY <1>1, <1>2, <1>3, <2>2 DEF root
<1>6. CASE root.hash = ComputeLegacyRoot(list) /\ root.hash # ComputeRoot(list)
  <2>1. proof = GenerateLegacyProof(list, index)
    BY <1>6 DEF ProofFor
  <2>2. VerifyLegacyProof(leaf, proof, root.hash)
    BY <1>4, <1>6, <2>1, LegacyProofBindsLeaf
  <2> QED
    BY <1>1, <1>2, <1>3, <1>6, <2>2 DEF root, list
<1> QED
  BY <1>2, <1>5, <1>6

LEMMA BundlesVerify == Tables => BundleVerifies
<1> SUFFICES ASSUME Tables, NEW leaf \in Stored
             PROVE  \/ BundleValid(leaf)
                    \/ /\ BundleRoot(leaf).hash = ComputeLegacyRoot(Prefix(BundleRoot(leaf).count))
                       /\ BundleRoot(leaf).height \notin 1..LegacyMax
  BY DEF BundleVerifies
<1>1. Bundle(leaf).root = BundleRoot(leaf)
  BY DEF Bundle
<1> QED
  BY <1>1, ServedVerifies DEF BundleValid

\* Whatever proof is served for a leaf, the verifier accepts it, unless it is
\* one under a legacy root whose anchor is not historical; this holds in every
\* store and depends on nothing but the tables (BundleVerifies).
THEOREM ServedProofsVerify == Spec => []BundleVerifies
<1>1. Tables /\ [Next]_vars => Tables'
  BY NextTables
<1> QED
  BY <1>1, InitTables, BundlesVerify, PTL DEF Spec

-----------------------------------------------------------------------------
(* Coverage. *)

\* An id is never smaller than the position: ids are drawn one by one, and the
\* statements that find their leaf stored skip some.
IdsKeepUp ==
  /\ lastId >= Len(leaves)
  /\ \A p \in DOMAIN ids : ids[p] >= p

LEMMA InitIds == Init => IdsKeepUp
<1> SUFFICES ASSUME Init PROVE IdsKeepUp
  OBVIOUS
<1>1. Tables
  BY InitTables
<1>2. Len(leaves) \in Nat /\ DOMAIN leaves = 1..Len(leaves)
  BY <1>1, TablesLen
<1> QED
  BY <1>2 DEF Init, IdsKeepUp

LEMMA NextIds == Tables /\ Numbers /\ IdsKeepUp /\ [Next]_vars => IdsKeepUp'
<1> SUFFICES ASSUME Tables, Numbers, IdsKeepUp, [Next]_vars PROVE IdsKeepUp'
  OBVIOUS
<1>1. /\ Len(leaves) \in Nat /\ lastId \in Nat /\ IsTable(ids) /\ Len(ids) = Len(leaves)
      /\ DOMAIN ids = 1..Len(leaves)
  BY TablesLen, TypedTable, TableIndexes DEF Numbers
<1>2. ASSUME NEW leaf \in Leaves, InsertLeaf(leaf) PROVE IdsKeepUp'
  <2>1. lastId' = lastId + 1
    BY <1>2 DEF InsertLeaf
  <2>2. CASE leaves' = leaves /\ ids' = ids
    BY <1>1, <2>1, <2>2 DEF IdsKeepUp
  <2>3. CASE leaves' = Append(leaves, leaf) /\ ids' = Append(ids, lastId + 1)
    <3>1. Len(leaves') = Len(leaves) + 1
      BY <2>3, InsertRow, TablesLen
    <3>2. /\ DOMAIN ids' = 1..Len(leaves) + 1
          /\ \A p \in DOMAIN ids : ids'[p] = ids[p]
          /\ ids'[Len(leaves) + 1] = lastId + 1
      BY <1>1, <2>3, InsertRow
    <3> QED
      BY <1>1, <2>1, <3>1, <3>2 DEF IdsKeepUp
  <2> QED
    BY <1>2, <2>2, <2>3 DEF InsertLeaf
<1>3. ASSUME UNCHANGED <<leaves, ids, lastId>> PROVE IdsKeepUp'
  BY <1>3 DEF IdsKeepUp
<1> QED
  BY <1>2, <1>3 DEF Next, ReadCurrent, RecordAnchor, RecordHeight, vars

\* The largest count of an anchored row, 0 if there is none.
Anchors == {0} \cup {roots[k].count : k \in Covering(0)}
AllFit == \A k \in Covering(0) : Fits(k, ComputeRoot) \/ Fits(k, ComputeLegacyRoot)

LEMMA LargestCount ==
  ASSUME Tables, AllFit
  PROVE  /\ Max(Anchors) \in 0..Len(leaves)
         /\ Max(Anchors) \in Anchors
         /\ \A c \in Anchors : c <= Max(Anchors)
<1>1. Len(leaves) \in Nat
  BY TablesLen
<1>2. Anchors \subseteq 0..Len(leaves) /\ Anchors # {}
  <2>1. ASSUME NEW k \in Covering(0) PROVE roots[k].count \in 0..Len(leaves)
    <3>1. roots[k].count \in Nat
      BY DEF Covering, Tables, TypedRows
    <3>2. Fits(k, ComputeRoot) \/ Fits(k, ComputeLegacyRoot)
      BY DEF AllFit
    <3>3. roots[k].count <= Len(leaves)
      BY <3>2, FitsRoot
    <3> QED
      BY <1>1, <3>1, <3>3
  <2> QED
    BY <1>1, <2>1 DEF Anchors
<1>3. \E x \in Anchors : \A y \in Anchors : x >= y
  BY <1>1, <1>2, GreatestNat
<1>4. Max(Anchors) \in Anchors /\ \A c \in Anchors : Max(Anchors) >= c
  BY <1>3 DEF Max
<1> QED
  BY <1>2, <1>4

\* If all anchored rows commit to leaves, the anchored leaves are those up to
\* the largest count.
LEMMA AnchoredUpTo ==
  ASSUME Tables, AllFit, NEW p \in DOMAIN leaves
  PROVE  Anchored(leaves[p]) <=> p <= Max(Anchors)
<1>1. p \in 1..Len(leaves) /\ Len(leaves) \in Nat /\ Max(Anchors) \in Nat
  BY TablesLen, LargestCount
<1>2. leaves[p] \in Published <=> Anchored(leaves[p])
  BY DEF Published, Stored
<1>3. \A k : Publishing(k) <=> k \in Covering(0)
  BY DEF Publishing, Covering, AllFit, Tables, TypedRows
<1>4. Anchored(leaves[p]) <=> \E k \in Covering(0) : roots[k].count >= p
  BY <1>2, <1>3, PublishedMeans
<1>5. \A k \in Covering(0) : roots[k].count \in Nat /\ roots[k].count \in Anchors
  BY DEF Covering, Tables, TypedRows, Anchors
<1>6. ASSUME p <= Max(Anchors) PROVE \E k \in Covering(0) : roots[k].count >= p
  <2>1. Max(Anchors) \in Anchors /\ Max(Anchors) # 0
    BY <1>1, <1>6, LargestCount
  <2>2. PICK k \in Covering(0) : roots[k].count = Max(Anchors)
    BY <2>1 DEF Anchors
  <2> QED
    BY <1>6, <2>2
<1>7. ASSUME NEW k \in Covering(0), roots[k].count >= p PROVE p <= Max(Anchors)
  BY <1>1, <1>5, <1>7, LargestCount
<1> QED
  BY <1>4, <1>6, <1>7

LEMMA BacklogIsCounted ==
  ASSUME Tables, AllFit
  PROVE  UnanchoredCount = Cardinality({leaf \in Stored : ~Anchored(leaf)})
<1> DEFINE m == Max(Anchors)
           n == Len(leaves)
           rest == {leaf \in Stored : ~Anchored(leaf)}
           f == [p \in m + 1..n |-> leaves[p]]
<1>1. n \in Nat /\ DOMAIN leaves = 1..n /\ m \in 0..n
  BY TablesLen, LargestCount
<1>2. \A p \in 1..n : Anchored(leaves[p]) <=> p <= m
  BY <1>1, AnchoredUpTo
<1>3. UnanchoredCount = n - m
  <2>1. UnanchoredCount = Max({0, n - m})
    BY DEF UnanchoredCount, Anchors
  <2>2. ASSUME NEW d \in Nat PROVE Max({0, d}) = d
    <3>1. \E x \in {0, d} : \A y \in {0, d} : x >= y
      OBVIOUS
    <3> QED
      BY <3>1 DEF Max
  <2> HIDE DEF m
  <2>3. n - m \in Nat
    BY <1>1
  <2> QED
    BY <2>1, <2>2, <2>3
<1> HIDE DEF m
<1>4. f \in Bijection(m + 1..n, rest)
  <2>1. \A p \in m + 1..n : p \in 1..n /\ ~(p <= m)
    BY <1>1
  <2>2. \A p \in m + 1..n : f[p] = leaves[p] /\ f[p] \in rest
    BY <1>1, <1>2, <2>1 DEF Stored
  <2>3. ASSUME NEW p \in m + 1..n, NEW r \in m + 1..n, f[p] = f[r] PROVE p = r
    BY <1>1, <2>1, <2>3 DEF Tables
  <2>4. ASSUME NEW leaf \in rest PROVE \E p \in m + 1..n : f[p] = leaf
    <3>1. PICK p \in 1..n : leaves[p] = leaf
      BY <1>1 DEF Stored
    <3>2. p \in m + 1..n
      BY <1>1, <1>2, <3>1
    <3> QED
      BY <3>1, <3>2
  <2> HIDE DEF rest
  <2>5. f \in [m + 1..n -> rest]
    BY <2>2
  <2> HIDE DEF f
  <2>6. f \in Injection(m + 1..n, rest)
    BY <2>3, <2>5 DEF Injection, IsInjective
  <2>7. f \in Surjection(m + 1..n, rest)
    BY <2>4, <2>5 DEF Surjection
  <2> QED
    BY <2>6, <2>7 DEF Bijection
<1>5. IsFiniteSet(m + 1..n) /\ Cardinality(m + 1..n) = n - m
  <2>1. m + 1 \in Int /\ n \in Int
    BY <1>1
  <2>2. /\ IsFiniteSet(m + 1..n)
        /\ Cardinality(m + 1..n) = IF m + 1 > n THEN 0 ELSE n - (m + 1) + 1
    BY <2>1, FS_Interval
  <2> QED
    BY <1>1, <2>2
<1>6. Cardinality(rest) = Cardinality(m + 1..n)
  <2> HIDE DEF f, rest, n
  <2>1. ExistsBijection(m + 1..n, rest)
    BY <1>4 DEF ExistsBijection
  <2> QED
    BY <1>5, <2>1, FS_Bijection
<1> QED
  BY <1>3, <1>5, <1>6

LEMMA CoverageFollows == Tables /\ Numbers /\ IdsKeepUp => CoverageIsHonest
<1> SUFFICES ASSUME Tables, Numbers, IdsKeepUp, AllFit
             PROVE  /\ UnanchoredCount = Cardinality({leaf \in Stored : ~Anchored(leaf)})
                    /\ \A leaf \in Stored : TimelineAnchored(leaf) => Anchored(leaf)
  BY DEF CoverageIsHonest, AllFit
<1>1. ASSUME NEW leaf \in Stored, TimelineAnchored(leaf) PROVE Anchored(leaf)
  <2>1. /\ Index(leaf) \in 1..Len(leaves) /\ leaves[Index(leaf)] = leaf
        /\ DOMAIN leaves = 1..Len(leaves)
    BY StoredLeaf, TablesLen
  <2>2. ids[Index(leaf)] \in Nat /\ ids[Index(leaf)] >= Index(leaf)
    <3>1. DOMAIN ids = 1..Len(leaves) /\ Len(leaves) \in Nat
      BY TypedTable, TableIndexes DEF Numbers
    <3>2. ids[Index(leaf)] \in 1..lastId
      BY <2>1, ElementOfSeq DEF Numbers
    <3> QED
      BY <2>1, <3>1, <3>2 DEF IdsKeepUp, Numbers
  <2>3. PICK k \in Covering(ids[Index(leaf)]) : TRUE
    BY <1>1 DEF TimelineAnchored
  <2>4. roots[k].count \in Nat /\ k \in DOMAIN roots
    BY DEF Covering, Tables, TypedRows
  <2>5. k \in Covering(0) /\ roots[k].count >= Index(leaf)
    BY <2>1, <2>2, <2>3, <2>4 DEF Covering
  <2> QED
    BY <2>5, AnchoredMeans DEF AllFit, Covering
<1> QED
  BY <1>1, BacklogIsCounted

\* As long as every anchored root commits to leaves, the backlog is the number
\* of leaves no anchored root covers, and a timeline shows no anchor that the
\* bundle of the leaf lacks (CoverageIsHonest).
THEOREM CoverageHonest == Spec => []CoverageIsHonest
<1>1. (Tables /\ Numbers /\ IdsKeepUp) /\ [Next]_vars => (Tables /\ Numbers /\ IdsKeepUp)'
  BY NextTables, NextNumbers, NextIds
<1> QED
  BY <1>1, InitTables, InitIds, CoverageFollows, PTL DEF Spec

-----------------------------------------------------------------------------
(* Rows chosen from a table. *)

\* The chosen rows, in their order, from the first n rows of a table.
RowsUpTo(table, positions) ==
  CHOOSE upTo : upTo = [n \in 0..Len(table) |->
    IF n = 0 THEN <<>>
    ELSE IF n \in positions THEN Append(upTo[n - 1], table[n])
    ELSE upTo[n - 1]]

LEMMA RowsAtDefined ==
  ASSUME NEW table, Len(table) \in Nat, NEW positions
  PROVE  LET upTo == RowsUpTo(table, positions) IN
         /\ RowsAt(table, positions) = upTo[Len(table)]
         /\ upTo[0] = <<>>
         /\ \A n \in 1..Len(table) :
              upTo[n] = IF n \in positions THEN Append(upTo[n - 1], table[n]) ELSE upTo[n - 1]
<1> DEFINE N == Len(table)
           next(n, rows) == IF n \in positions THEN Append(rows, table[n]) ELSE rows
           On(f, m) == [n \in 0..m |-> IF n = 0 THEN <<>> ELSE next(n, f[n - 1])]
           S == {m \in Nat : \E f : f = On(f, m)}
           upTo == RowsUpTo(table, positions)
<1>1. upTo = CHOOSE f : f = On(f, N)
  BY Zenon DEF RowsUpTo
<1>2. RowsAt(table, positions) = upTo[N]
  BY DEF RowsAt, RowsUpTo
<1> HIDE DEF next, upTo
<1>3. 0 \in S
  <2>1. [n \in 0..0 |-> <<>>] = On([n \in 0..0 |-> <<>>], 0)
    OBVIOUS
  <2> QED
    BY <2>1
<1>4. ASSUME NEW m \in Nat, m \in S PROVE m + 1 \in S
  <2>1. PICK f : f = On(f, m)
    BY <1>4
  <2> DEFINE g == [n \in 0..m + 1 |-> IF n = m + 1 THEN next(m + 1, f[m]) ELSE f[n]]
  <2>2. ASSUME NEW n \in 0..m + 1 PROVE g[n] = On(g, m + 1)[n]
    <3>1. CASE n = 0
      BY <2>1, <3>1
    <3>2. CASE n \in 1..m
      <4>1. g[n] = f[n] /\ g[n - 1] = f[n - 1]
        BY <3>2
      <4>2. f[n] = next(n, f[n - 1])
        BY <2>1, <3>2
      <4>3. On(g, m + 1)[n] = next(n, g[n - 1])
        BY <3>2
      <4> QED
        BY <4>1, <4>2, <4>3
    <3>3. CASE n = m + 1
      <4>1. g[n] = next(m + 1, f[m]) /\ g[n - 1] = f[m]
        BY <3>3
      <4>2. On(g, m + 1)[n] = next(n, g[n - 1])
        BY <3>3
      <4> QED
        BY <3>3, <4>1, <4>2
    <3> QED
      BY <3>1, <3>2, <3>3
  <2>3. g = On(g, m + 1)
    BY <2>2
  <2> HIDE DEF g
  <2> QED
    BY <2>3
<1>5. \E f : f = On(f, N)
  <2>1. N \in S
    <3> HIDE DEF S
    <3> QED
      BY <1>3, <1>4, InductiveSet
  <2> QED
    BY <2>1
<1>6. upTo = On(upTo, N)
  BY <1>1, <1>5
<1>7. upTo[0] = <<>> /\ \A n \in 1..N : upTo[n] = next(n, upTo[n - 1])
  BY <1>6
<1> QED
  BY <1>2, <1>7 DEF next, upTo

\* What is chosen from a table: those rows, the last of them last.
LEMMA ChosenRows ==
  ASSUME NEW table, IsTable(table), NEW positions, positions \subseteq DOMAIN table
  PROVE  LET rows == RowsAt(table, positions) IN
         /\ IsTable(rows)
         /\ RowsIn(rows) = {table[k] : k \in positions}
         /\ \/ positions = {} /\ rows = <<>>
            \/ \E k \in positions : /\ \A j \in positions : j <= k
                                    /\ rows # <<>> /\ Last(rows) = table[k]
<1> DEFINE N == Len(table)
           upTo == RowsUpTo(table, positions)
           some(n) == {k \in positions : k <= n}
           Chosen(rows, n) ==
             /\ IsTable(rows)
             /\ RowsIn(rows) = {table[k] : k \in some(n)}
             /\ \/ some(n) = {} /\ rows = <<>>
                \/ \E k \in some(n) : /\ \A j \in some(n) : j <= k
                                      /\ rows # <<>> /\ rows[Len(rows)] = table[k]
           S == {n \in 0..N : Chosen(upTo[n], n)}
<1>1. N \in Nat /\ positions \subseteq 1..N
  BY TableIndexes
<1>2. /\ RowsAt(table, positions) = upTo[N]
      /\ upTo[0] = <<>>
      /\ \A n \in 1..N :
           upTo[n] = IF n \in positions THEN Append(upTo[n - 1], table[n]) ELSE upTo[n - 1]
  BY <1>1, RowsAtDefined
<1> HIDE DEF upTo
<1>3. 0 \in S
  <2>1. some(0) = {}
    BY <1>1
  <2>2. IsTable(<<>>) /\ RowsIn(<<>>) = {}
    BY EmptySeq DEF IsTable, RowsIn
  <2> QED
    BY <1>1, <1>2, <2>1, <2>2
<1>4. ASSUME NEW n \in 0..N - 1, n \in S PROVE n + 1 \in S
  <2> DEFINE rows == upTo[n]
             new == upTo[n + 1]
  <2>1. n + 1 \in 1..N /\ (n + 1) - 1 = n /\ n + 1 \in 0..N
    BY <1>1
  <2>2. Chosen(rows, n)
    BY <1>4
  <2>3. CASE n + 1 \notin positions
    <3>1. new = rows
      BY <1>2, <2>1, <2>3
    <3>2. some(n + 1) = some(n)
      BY <1>1, <2>1, <2>3
    <3> HIDE DEF some
    <3> QED
      BY <2>1, <2>2, <3>1, <3>2
  <2>4. CASE n + 1 \in positions
    <3>1. new = Append(rows, table[n + 1])
      BY <1>2, <2>1, <2>4
    <3>2. /\ some(n + 1) = some(n) \cup {n + 1}
          /\ \A j \in some(n + 1) : j <= n + 1
      BY <1>1, <2>1, <2>4
    <3> HIDE DEF some
    <3>3. /\ IsTable(new) /\ Len(new) = Len(rows) + 1
          /\ DOMAIN new = 1..Len(rows) + 1
          /\ \A k \in DOMAIN rows : new[k] = rows[k]
          /\ new[Len(rows) + 1] = table[n + 1]
          /\ DOMAIN rows = 1..Len(rows) /\ Len(rows) \in Nat
      <4> HIDE DEF rows, new
      <4> QED
        BY <2>2, <3>1, InsertRow, TableIndexes
    <3> HIDE DEF new, rows
    <3>4. RowsIn(new) = RowsIn(rows) \cup {table[n + 1]}
      <4>1. DOMAIN new = DOMAIN rows \cup {Len(rows) + 1}
        BY <3>3
      <4> QED
        BY <3>3, <4>1 DEF RowsIn
    <3>5. RowsIn(new) = {table[k] : k \in some(n + 1)}
      BY <2>2, <3>2, <3>4
    <3>6. new # <<>> /\ new[Len(new)] = table[n + 1]
      BY <3>3
    <3> QED
      BY <2>1, <3>2, <3>3, <3>5, <3>6 DEF new
  <2> QED
    BY <2>3, <2>4
<1>5. Chosen(upTo[N], N)
  <2> HIDE DEF S
  <2>1. 0..N \subseteq S
    BY <1>1, <1>3, <1>4, InductiveUpTo
  <2>2. N \in S
    BY <1>1, <2>1
  <2> QED
    BY <2>2 DEF S
<1>6. some(N) = positions
  BY <1>1
<1> HIDE DEF some
<1> QED
  BY <1>2, <1>5, <1>6 DEF Last

\* A row added to the table that is not chosen changes nothing.
LEMMA ChosenBefore ==
  ASSUME NEW table, IsTable(table), NEW positions, positions \subseteq DOMAIN table, NEW row
  PROVE  RowsAt(Append(table, row), positions) = RowsAt(table, positions)
<1> DEFINE N == Len(table)
           longer == Append(table, row)
           u == RowsUpTo(table, positions)
           v == RowsUpTo(longer, positions)
           S == {n \in 0..N : u[n] = v[n]}
<1>1. /\ N \in Nat /\ DOMAIN table = 1..N
      /\ Len(longer) = N + 1 /\ \A n \in 1..N : longer[n] = table[n]
  BY TableIndexes, InsertRow
<1> HIDE DEF longer
<1>2. /\ RowsAt(table, positions) = u[N] /\ u[0] = <<>>
      /\ \A n \in 1..N : u[n] = IF n \in positions THEN Append(u[n - 1], table[n]) ELSE u[n - 1]
  BY <1>1, RowsAtDefined
<1>3. /\ RowsAt(longer, positions) = v[N + 1] /\ v[0] = <<>>
      /\ \A n \in 1..N + 1 : v[n] = IF n \in positions THEN Append(v[n - 1], longer[n]) ELSE v[n - 1]
  BY <1>1, RowsAtDefined
<1> HIDE DEF u, v
<1>4. 0 \in S
  BY <1>1, <1>2, <1>3
<1>5. ASSUME NEW n \in 0..N - 1, n \in S PROVE n + 1 \in S
  <2>1. n + 1 \in 1..N /\ n + 1 \in 1..N + 1 /\ n + 1 \in 0..N /\ (n + 1) - 1 = n
    BY <1>1
  <2>2. u[n + 1] = IF n + 1 \in positions THEN Append(u[n], table[n + 1]) ELSE u[n]
    BY <1>2, <2>1
  <2>3. v[n + 1] = IF n + 1 \in positions THEN Append(v[n], longer[n + 1]) ELSE v[n]
    BY <1>3, <2>1
  <2> QED
    BY <1>1, <1>5, <2>1, <2>2, <2>3
<1>6. u[N] = v[N]
  <2> HIDE DEF S
  <2>1. 0..N \subseteq S
    BY <1>1, <1>4, <1>5, InductiveUpTo
  <2>2. N \in S
    BY <1>1, <2>1
  <2> QED
    BY <2>2 DEF S
<1>7. v[N + 1] = v[N]
  <2>1. N + 1 \in 1..N + 1 /\ N + 1 \notin positions /\ (N + 1) - 1 = N
    BY <1>1
  <2> QED
    BY <1>3, <2>1
<1> QED
  BY <1>2, <1>3, <1>6, <1>7 DEF longer

-----------------------------------------------------------------------------
(* The offline auditor. *)

\* One entry of a package as verify_export must find it.
EntryAudits(entry) ==
  /\ Recognized(entry)
  /\ EntryPasses(entry) \/ entry.height \notin 1..LegacyMax
  /\ entry.scheme = CountBound => EntryPasses(entry)

\* What an export holds between two of its requests.
ExportSound ==
  /\ IsTable(queue) /\ RowsIn(queue) \subseteq Stored
  /\ IsTable(proofs)
  /\ \A k \in DOMAIN proofs : EntryAudits(proofs[k])

LEMMA SchemeIs ==
  ASSUME Tables, NEW leaf \in Stored
  PROVE  LET json == ProofJson(leaf) IN
         /\ json.leaf = leaf /\ json.version = "2"
         /\ json.count > 0
         /\ json.height = BundleRoot(leaf).height
         /\ \/ /\ json.scheme = CountBound
               /\ VerifyProof(leaf, json.proof, json.count, json.root)
            \/ /\ json.scheme = Legacy
               /\ ~VerifyProof(leaf, json.proof, json.count, json.root)
               /\ VerifyLegacyProof(leaf, json.proof, json.root)
<1> DEFINE root == BundleRoot(leaf)
           bundle == Bundle(leaf)
           json == ProofJson(leaf)
<1>1. bundle.root = root
  BY DEF Bundle
<1>2. /\ root.count \in 1..Len(leaves) /\ Len(leaves) \in Nat
      /\ \/ VerifyProof(leaf, bundle.proof, root.count, root.hash)
         \/ VerifyLegacyProof(leaf, bundle.proof, root.hash)
  BY ServedVerifies, TablesLen
<1>3. /\ json.leaf = leaf /\ json.version = "2" /\ json.proof = bundle.proof
      /\ json.root = root.hash /\ json.count = root.count /\ json.height = root.height
      /\ json.scheme = Scheme(leaf, bundle)
  <2> HIDE DEF root, bundle
  <2> QED
    BY <1>1 DEF ProofJson, bundle
<1> HIDE DEF root, bundle, json
<1>4. root.count > 0
  BY <1>2
<1> QED
  BY <1>1, <1>2, <1>3, <1>4 DEF Scheme, root, json

\* The two statements of the rules agree on every bundle.
LEMMA AuditorAgrees == Tables => AuditAgrees
<1> SUFFICES ASSUME Tables, NEW leaf \in Stored
             PROVE  AuditAccepts(ProofJson(leaf), {leaf}) <=> BundleValid(leaf)
  BY DEF AuditAgrees
<1> DEFINE root == BundleRoot(leaf)
           bundle == Bundle(leaf)
           json == ProofJson(leaf)
<1>1. /\ json.leaf = leaf /\ json.version = "2" /\ json.count > 0
      /\ json.height = root.height
      /\ \/ /\ json.scheme = CountBound
            /\ VerifyProof(leaf, json.proof, json.count, json.root)
         \/ /\ json.scheme = Legacy
            /\ ~VerifyProof(leaf, json.proof, json.count, json.root)
            /\ VerifyLegacyProof(leaf, json.proof, json.root)
  BY SchemeIs
<1>2. /\ json.proof = bundle.proof /\ json.count = root.count /\ json.root = root.hash
      /\ bundle.root = root
  BY DEF ProofJson, Bundle
<1>3. BundleValid(leaf) <=>
        \/ VerifyProof(leaf, json.proof, json.count, json.root)
        \/ VerifyLegacyProof(leaf, json.proof, json.root) /\ root.height \in 1..LegacyMax
  BY <1>2 DEF BundleValid
<1>4. CountBound # Legacy
  BY DEF CountBound, Legacy
<1> HIDE DEF root, bundle, json
<1>5. AuditAccepts(json, {leaf}) <=>
        \/ VerifyProof(leaf, json.proof, json.count, json.root)
        \/ VerifyLegacyProof(leaf, json.proof, json.root) /\ root.height \in 1..LegacyMax
  BY <1>1, <1>4 DEF AuditAccepts, HistoricalLegacyAllowed
<1> QED
  BY <1>3, <1>5 DEF json

LEMMA ServedEntryAudits ==
  ASSUME Tables, NEW leaf \in Stored
  PROVE  EntryAudits(ProofJson(leaf))
<1> DEFINE json == ProofJson(leaf)
<1>1. CountBound # Legacy
  BY DEF CountBound, Legacy
<1>2. /\ json.leaf = leaf
      /\ \/ /\ json.scheme = CountBound
            /\ VerifyProof(leaf, json.proof, json.count, json.root)
         \/ /\ json.scheme = Legacy
            /\ VerifyLegacyProof(leaf, json.proof, json.root)
  BY SchemeIs
<1> HIDE DEF json
<1>3. EntryAudits(json)
  BY <1>1, <1>2 DEF EntryAudits, Recognized, EntryPasses, HistoricalLegacyAllowed
<1> QED
  BY <1>3 DEF json

\* No leaf is ever dropped.
LEMMA StoredGrows ==
  ASSUME Tables, Grown
  PROVE  Stored \subseteq Stored'
<1>1. CASE leaves' = leaves
  BY <1>1 DEF Stored
<1>2. ASSUME NEW leaf \in Leaves, leaves' = Append(leaves, leaf)
      PROVE  Stored \subseteq Stored'
  <2>1. /\ DOMAIN leaves = 1..Len(leaves) /\ Len(leaves) \in Nat
        /\ DOMAIN Append(leaves, leaf) = 1..Len(leaves) + 1
        /\ \A k \in DOMAIN leaves : Append(leaves, leaf)[k] = leaves[k]
    BY TablesLen, InsertRow
  <2>2. \A k \in DOMAIN leaves : k \in DOMAIN leaves' /\ leaves'[k] = leaves[k]
    BY <1>2, <2>1
  <2> QED
    BY <2>2 DEF Stored
<1> QED
  BY <1>1, <1>2 DEF Grown, LeavesKept

LEMMA TailRows ==
  ASSUME NEW table, IsTable(table), table # <<>>
  PROVE  /\ Head(table) \in RowsIn(table)
         /\ IsTable(Tail(table)) /\ RowsIn(Tail(table)) \subseteq RowsIn(table)
<1>1. /\ Head(table) \in RowsIn(table)
      /\ Tail(table) \in Seq(RowsIn(table))
  BY HeadTailProperties DEF IsTable
<1>2. RowsIn(Tail(table)) \subseteq RowsIn(table)
  <2>1. \A k \in DOMAIN Tail(table) : Tail(table)[k] \in RowsIn(table)
    BY <1>1
  <2> QED
    BY <2>1 DEF RowsIn
<1> QED
  BY <1>1, <1>2, TypedTable

\* Each request of an export is a step of the store, or leaves it alone.
LEMMA AuditSteps ==
  ASSUME ExportSound, AuditNext
  PROVE  [Next]_vars
<1>1. CASE FetchProof
  <2>1. Head(queue) \in RowsIn(queue)
    BY <1>1, TailRows DEF FetchProof, ExportSound
  <2>2. leaves # <<>>
    BY <2>1 DEF ExportSound, Stored
  <2> QED
    BY <1>1, <2>2 DEF FetchProof, Next, ReadCurrent, vars
<1>2. CASE \E p \in DOMAIN ApplyProfile : CollectLeafHashes(p)
  BY <1>2 DEF CollectLeafHashes
<1>3. CASE SkipProof \/ Abort \/ WritePackage
  BY <1>3 DEF SkipProof, Abort, WritePackage
<1> QED
  BY <1>1, <1>2, <1>3 DEF AuditNext

LEMMA AuditKeeps ==
  ASSUME Tables, ExportSound, [AuditNext]_auditVars
  PROVE  Tables' /\ ExportSound'
<1>1. [Next]_vars
  BY AuditSteps DEF auditVars
<1>2. Tables' /\ Grown /\ Stored \subseteq Stored'
  BY <1>1, NextTables, StoredGrows
<1>3. ASSUME IsTable(queue'), RowsIn(queue') \subseteq Stored,
             IsTable(proofs'), \A k \in DOMAIN proofs' : EntryAudits(proofs'[k])
      PROVE  ExportSound'
  BY <1>2, <1>3 DEF ExportSound
<1>4. CASE UNCHANGED <<queue, proofs>>
  BY <1>2, <1>3, <1>4 DEF ExportSound
<1>5. CASE queue # <<>> /\ queue' = Tail(queue) /\ UNCHANGED proofs
  <2>1. IsTable(queue') /\ RowsIn(queue') \subseteq RowsIn(queue)
    BY <1>5, TailRows DEF ExportSound
  <2> QED
    BY <1>2, <1>3, <1>5, <2>1 DEF ExportSound
<1>6. CASE FetchProof
  <2> DEFINE entry == ProofJson(Head(queue))
  <2>1. /\ queue # <<>> /\ queue' = Tail(queue)
        /\ proofs' = Append(proofs, entry)
    BY <1>6 DEF FetchProof
  <2>2. /\ Head(queue) \in Stored
        /\ IsTable(queue') /\ RowsIn(queue') \subseteq Stored
    BY <2>1, TailRows DEF ExportSound
  <2>3. EntryAudits(entry)
    BY <2>2, ServedEntryAudits
  <2> HIDE DEF entry
  <2>4. /\ IsTable(proofs') /\ DOMAIN proofs' = DOMAIN proofs \cup {Len(proofs) + 1}
        /\ \A k \in DOMAIN proofs : proofs'[k] = proofs[k]
        /\ proofs'[Len(proofs) + 1] = entry
    <3>1. /\ IsTable(proofs') /\ DOMAIN proofs' = 1..Len(proofs) + 1
          /\ \A k \in DOMAIN proofs : proofs'[k] = proofs[k]
          /\ proofs'[Len(proofs) + 1] = entry
          /\ DOMAIN proofs = 1..Len(proofs) /\ Len(proofs) \in Nat
      BY <2>1, InsertRow, TableIndexes DEF ExportSound
    <3> QED
      BY <3>1
  <2>5. \A k \in DOMAIN proofs' : EntryAudits(proofs'[k])
    BY <2>3, <2>4 DEF ExportSound
  <2> QED
    BY <1>2, <1>3, <2>2, <2>4, <2>5
<1>7. ASSUME NEW p \in DOMAIN ApplyProfile, CollectLeafHashes(p) PROVE ExportSound'
  <2> DEFINE chosen == {k \in DOMAIN leaves : TypeOf[leaves[k]] \in ApplyProfile[p]}
  <2>1. queue' = RowsAt(leaves, chosen) /\ proofs' = proofs
    BY <1>7 DEF CollectLeafHashes
  <2>2. chosen \subseteq DOMAIN leaves
    OBVIOUS
  <2>3. IsTable(leaves)
    BY TablesLen
  <2> HIDE DEF chosen
  <2>4. IsTable(queue') /\ RowsIn(queue') = {leaves[k] : k \in chosen}
    BY <2>1, <2>2, <2>3, ChosenRows
  <2>5. RowsIn(queue') \subseteq Stored
    BY <2>2, <2>4 DEF Stored
  <2> QED
    BY <1>3, <2>1, <2>4, <2>5 DEF ExportSound
<1> QED
  BY <1>2, <1>4, <1>5, <1>6, <1>7
     DEF AuditNext, auditVars, exportVars, SkipProof, Abort, WritePackage

\* The offline auditor accepts a bundle exactly when the server's check page
\* calls it valid, and every package an export writes while the store grows
\* verifies offline but for roots that were not historical (OfflineAudit).
THEOREM ExportsAudit == AuditSpec => []OfflineAudit
<1>1. AuditInit => Tables /\ ExportSound
  <2> SUFFICES ASSUME AuditInit PROVE Tables /\ ExportSound
    OBVIOUS
  <2>1. Tables
    BY InitTables DEF AuditInit
  <2>2. queue = <<>> /\ proofs = <<>>
    BY DEF AuditInit
  <2>3. IsTable(<<>>) /\ RowsIn(<<>>) = {} /\ DOMAIN <<>> = {}
    BY EmptySeq DEF IsTable, RowsIn
  <2> QED
    BY <2>1, <2>2, <2>3 DEF ExportSound
<1>2. Tables /\ ExportSound /\ [AuditNext]_auditVars => (Tables /\ ExportSound)'
  BY AuditKeeps
<1>3. Tables /\ ExportSound => OfflineAudit
  BY AuditorAgrees DEF ExportSound, EntryAudits, OfflineAudit, PackageAudits
<1> QED
  BY <1>1, <1>2, <1>3, PTL DEF AuditSpec

-----------------------------------------------------------------------------
(* One row for each root. *)

\* Leaf hashes and the roots that commit to a count have personalizations of
\* their own.
LeavesAreNoRoots == \A leaf \in Leaves : \A n, raw : leaf # CommitRoot(n, raw)

\* The roots this release writes have a row each, those of an older release are
\* no count-bound roots, and no root is stored before the first leaf.
RowsDiffer ==
  /\ \A j, k \in DOMAIN roots :
       j > upgraded /\ k > upgraded /\ roots[j].count = roots[k].count => j = k
  /\ \A k \in DOMAIN roots :
       k <= upgraded => \A n, raw : roots[k].hash # CommitRoot(n, raw)
  /\ leaves = <<>> => roots = <<>>

LEMMA LegacyRootIsNoRoot ==
  ASSUME NEW list, IsTable(list), list # <<>>, NEW n, NEW raw,
         \A leaf \in RowsIn(list) : leaf # CommitRoot(n, raw)
  PROVE  ComputeLegacyRoot(list) # CommitRoot(n, raw)
<1> DEFINE N == Len(list) - 1
           level == Levels("legacy", list)
<1>1. Len(list) \in Nat \ {0} /\ N \in 0..N
  BY EmptySeq DEF IsTable
<1>2. IsTable(level[N]) /\ Len(level[N]) = 1
  BY <1>1, LevelsShrink DEF Shapes
<1>3. level[N][1] \in RowsIn(level[N])
  <2>1. DOMAIN level[N] = 1..1
    BY <1>2, TableIndexes
  <2> QED
    BY <2>1 DEF RowsIn
<1>4. level[N][1] \in Nodes("legacy", list)
  BY <1>1, <1>3 DEF Nodes
<1>5. \/ level[N][1] \in RowsIn(list)
      \/ \E left, right : level[N][1] = HashNode(left, right)
  BY <1>4, NodesGrow
<1>6. \A left, right : HashNode(left, right) # CommitRoot(n, raw)
  BY DEF HashNode, CommitRoot
<1>7. ComputeLegacyRoot(list) = level[N][1]
  BY DEF ComputeLegacyRoot, Top
<1> QED
  BY <1>5, <1>6, <1>7

LEMMA InitDiffer == LeavesAreNoRoots /\ Init => RowsDiffer
<1> SUFFICES ASSUME LeavesAreNoRoots, Init PROVE RowsDiffer
  OBVIOUS
<1> USE StoreAssumption
<1>1. PICK n \in 0..Len(Imported) : \E row \in 0..n, surplus \in 0..n, height \in 0..LegacyMax :
        LegacyStore(n, row, height, surplus)
  BY DEF Init
<1>2. PICK row \in 0..n, surplus \in 0..n, height \in 0..LegacyMax :
        LegacyStore(n, row, height, surplus)
  BY <1>1
<1>3. Tables /\ upgraded = Len(roots)
  BY InitTables DEF Init
<1>4. /\ DOMAIN leaves = 1..n /\ DOMAIN roots = 1..n
      /\ \A k \in 1..n : roots[k].hash = ComputeLegacyRoot(Prefix(k))
  BY <1>2 DEF LegacyStore
<1>5. n \in Nat /\ Len(leaves) = n /\ Len(roots) = n
  <2>1. n \in Nat
    BY <1>1, LenProperties DEF StoreAssumption
  <2> QED
    BY <1>3, <1>4, <2>1, TablesLen
<1>6. ASSUME NEW k \in DOMAIN roots, NEW m, NEW raw
      PROVE  roots[k].hash # CommitRoot(m, raw)
  <2>1. k \in 0..Len(leaves) /\ k \in 1..n
    BY <1>4, <1>5
  <2>2. /\ IsTable(Prefix(k)) /\ Len(Prefix(k)) = k
        /\ \A p \in 1..k : Prefix(k)[p] = leaves[p]
    BY <1>3, <2>1, PrefixList
  <2>3. Prefix(k) # <<>>
    BY <2>1, <2>2, EmptySeq
  <2>4. \A leaf \in RowsIn(Prefix(k)) : leaf \in Leaves
    <3>1. DOMAIN Prefix(k) = 1..k
      BY <2>2, TableIndexes
    <3>2. \A p \in 1..k : leaves[p] \in Leaves
      BY <1>3, <1>4, <2>1, <1>5 DEF Tables
    <3> QED
      BY <2>2, <3>1, <3>2 DEF RowsIn
  <2>5. \A leaf \in RowsIn(Prefix(k)) : leaf # CommitRoot(m, raw)
    BY <2>4 DEF LeavesAreNoRoots
  <2>6. ComputeLegacyRoot(Prefix(k)) # CommitRoot(m, raw)
    BY <2>2, <2>3, <2>5, LegacyRootIsNoRoot
  <2> QED
    BY <1>4, <2>1, <2>6
<1>7. leaves = <<>> => roots = <<>>
  BY <1>3, <1>5, EmptySeq DEF Tables, IsTable
<1>8. \A k \in DOMAIN roots : ~(k > upgraded)
  BY <1>3, <1>4, <1>5
<1> QED
  BY <1>6, <1>7, <1>8 DEF RowsDiffer

\* A step adds the row of the current root at most, if it has none.
LEMMA OneNewRow ==
  ASSUME Tables, Counted, [Next]_vars, NEW k \in DOMAIN roots', k \notin DOMAIN roots
  PROVE  /\ \A j \in DOMAIN roots' : j \notin DOMAIN roots => j = k
         /\ \A j \in DOMAIN roots :
              ~(roots[j].hash = ComputeRoot(leaves') /\ roots[j].count = Len(leaves'))
         /\ leaves' # <<>>
<1> USE StoreAssumption
<1>0. /\ Len(leaves) \in Nat /\ Len(roots) \in Nat /\ IsTable(roots)
      /\ DOMAIN roots = 1..Len(roots)
  BY TablesLen DEF Tables
<1> DEFINE Claim == /\ \A j \in DOMAIN roots' : j \notin DOMAIN roots => j = k
                    /\ \A j \in DOMAIN roots :
                         ~(roots[j].hash = ComputeRoot(leaves') /\ roots[j].count = Len(leaves'))
                    /\ leaves' # <<>>
<1>1. ASSUME leaves' = leaves, roots' = WithCurrent(leaves, roots) PROVE Claim
  <2> DEFINE row == Root(ComputeRoot(leaves), Len(leaves))
  <2>1. leaves # <<>> /\ ~HasCanonical(leaves, roots) /\ roots' = Append(roots, row)
    BY <1>1 DEF WithCurrent
  <2>2. DOMAIN roots' = 1..Len(roots) + 1
    <3> HIDE DEF row
    <3> QED
      BY <1>0, <2>1, InsertRow
  <2>3. \A j \in DOMAIN roots :
          ~(roots[j].hash = ComputeRoot(leaves) /\ roots[j].count = Len(leaves))
    BY <2>1 DEF HasCanonical
  <2>4. \A j \in DOMAIN roots' : j \notin DOMAIN roots => j = Len(roots) + 1
    BY <1>0, <2>2
  <2>5. \A j \in DOMAIN roots' : j \notin DOMAIN roots => j = k
    BY <2>4
  <2> QED
    BY <1>1, <2>1, <2>3, <2>5
<1>2. ASSUME NEW leaf \in Leaves, leaves' = Append(leaves, leaf),
             roots' = WithCurrent(leaves', Append(roots, RootAfter(leaf)))
      PROVE  Claim
  <2> DEFINE row == RootAfter(leaf)
             rows == Append(roots, row)
  <2>1. Len(leaves') = Len(leaves) + 1 /\ leaves' # <<>>
    BY <1>2, AppendProperties, EmptySeq DEF Tables
  <2>2. row.hash = ComputeRoot(leaves') /\ row.count = Len(leaves')
    BY <1>2, <2>1 DEF RootAfter, Root
  <2> HIDE DEF row
  <2>3. DOMAIN rows = 1..Len(roots) + 1 /\ rows[Len(roots) + 1] = row
    BY <1>0, InsertRow
  <2>4. Len(roots) + 1 \in DOMAIN rows
    BY <1>0, <2>3
  <2> HIDE DEF rows
  <2>5. HasCanonical(leaves', rows)
    BY <2>2, <2>3, <2>4 DEF HasCanonical
  <2>6. roots' = rows
    BY <1>2, <2>5 DEF WithCurrent, rows, row
  <2>7. \A j \in DOMAIN roots' : j \notin DOMAIN roots => j = Len(roots) + 1
    BY <1>0, <2>3, <2>6
  <2>8. \A j \in DOMAIN roots' : j \notin DOMAIN roots => j = k
    BY <2>7
  <2>9. ASSUME NEW j \in DOMAIN roots, roots[j].count = Len(leaves') PROVE FALSE
    <3>1. roots[j].count <= Len(leaves)
      BY DEF Counted
    <3> QED
      BY <1>0, <2>1, <2>9, <3>1
  <2> QED
    BY <2>1, <2>8, <2>9
<1>3. ASSUME DOMAIN roots' = DOMAIN roots PROVE FALSE
  BY <1>3
<1>4. ASSUME NEW leaf \in Leaves, InsertLeaf(leaf) PROVE Claim
  <2>1. CASE \E j \in DOMAIN leaves : leaves[j] = leaf
    BY <1>1, <1>4, <2>1 DEF InsertLeaf
  <2>2. CASE ~\E j \in DOMAIN leaves : leaves[j] = leaf
    BY <1>2, <1>4, <2>2 DEF InsertLeaf
  <2> QED
    BY <2>1, <2>2
<1>5. ASSUME NEW hash, NEW h, RecordAnchor(hash, h) PROVE FALSE
  BY <1>3, <1>5 DEF RecordAnchor
<1>6. ASSUME NEW j, NEW h, RecordHeight(j, h) PROVE FALSE
  BY <1>3, <1>6 DEF RecordHeight
<1>7. CASE ReadCurrent
  BY <1>1, <1>7 DEF ReadCurrent
<1>8. CASE UNCHANGED vars
  BY <1>3, <1>8 DEF vars
<1>9. CASE \E hash \in Hashes, h \in {0} \cup Recent : RecordAnchor(hash, h)
  BY <1>5, <1>9
<1>10. CASE \E j \in DOMAIN roots, h \in Recent : RecordHeight(j, h)
  BY <1>6, <1>10
<1> QED
  BY <1>4, <1>7, <1>8, <1>9, <1>10 DEF Next

LEMMA NextDiffer ==
  Tables /\ Counted /\ Numbers /\ RootsCommitToPrefixes /\ RowsDiffer /\ [Next]_vars => RowsDiffer'
<1> SUFFICES ASSUME Tables, Counted, Numbers, RootsCommitToPrefixes, RowsDiffer, [Next]_vars
             PROVE  RowsDiffer'
  OBVIOUS
<1>1. /\ Tables' /\ Grown
      /\ Numbers' /\ RootsCommitToPrefixes' /\ Counted'
  BY NextTables, NextNumbers, NextPrefixes, NextCounted
<1>2. upgraded' = upgraded
  BY DEF Next, InsertLeaf, ReadCurrent, RecordAnchor, RecordHeight, vars
<1>3. /\ DOMAIN roots = 1..Len(roots) /\ DOMAIN roots' = 1..Len(roots')
      /\ Len(roots) \in Nat /\ Len(roots') \in Nat /\ Len(roots) <= Len(roots')
      /\ upgraded \in 0..Len(roots)
  BY <1>1, TablesLen, TableIndexes DEF Grown, RowsKept, Numbers, Tables
<1>4. \A k \in DOMAIN roots : roots'[k].hash = roots[k].hash /\ roots'[k].count = roots[k].count
  BY <1>1 DEF Grown, RowsKept
<1>5. ASSUME NEW j \in DOMAIN roots', NEW k \in DOMAIN roots', j > upgraded, k > upgraded,
             roots'[j].count = roots'[k].count, k \notin DOMAIN roots
      PROVE  j = k
  <2>1. /\ \A i \in DOMAIN roots' : i \notin DOMAIN roots => i = k
        /\ \A i \in DOMAIN roots :
             ~(roots[i].hash = ComputeRoot(leaves') /\ roots[i].count = Len(leaves'))
    BY <1>5, OneNewRow
  <2>2. CASE j \in DOMAIN roots
    <3>1. roots'[k].count = Len(leaves')
      BY <1>5, NewRows
    <3>2. roots'[j].count = Len(leaves')
      BY <1>5, <3>1
    <3>3. Fits(j, ComputeRoot)'
      BY <1>1, <1>2, <1>5 DEF RootsCommitToPrefixes
    <3>4. roots'[j].hash = ComputeRoot(SubSeq(leaves', 1, Len(leaves')))
      BY <3>2, <3>3 DEF Fits, Prefix
    <3>5. SubSeq(leaves', 1, Len(leaves')) = leaves'
      <4>1. IsTable(leaves')
        BY <1>1, TypedTable DEF Tables
      <4> QED
        BY <4>1, WholeTable
    <3>6. roots'[j].hash = ComputeRoot(leaves')
      BY <3>4, <3>5, Zenon
    <3> QED
      BY <1>4, <2>1, <2>2, <3>2, <3>6
  <2> QED
    BY <2>1, <2>2
<1>6. ASSUME NEW j \in DOMAIN roots', NEW k \in DOMAIN roots', j > upgraded, k > upgraded,
             roots'[j].count = roots'[k].count
      PROVE  j = k
  <2>1. CASE j \in DOMAIN roots /\ k \in DOMAIN roots
    BY <1>4, <1>6, <2>1 DEF RowsDiffer
  <2> QED
    BY <1>5, <1>6, <2>1
<1>7. ASSUME NEW k \in DOMAIN roots', k <= upgraded, NEW n, NEW raw
      PROVE  roots'[k].hash # CommitRoot(n, raw)
  <2>1. k \in DOMAIN roots
    BY <1>3, <1>7
  <2> QED
    BY <1>4, <1>7, <2>1 DEF RowsDiffer
<1>8. ASSUME leaves' = <<>> PROVE roots' = <<>>
  <2>1. leaves = <<>>
    <3>1. CASE leaves' = leaves
      BY <1>8, <3>1
    <3>2. ASSUME NEW leaf \in Leaves, leaves' = Append(leaves, leaf) PROVE FALSE
      BY <1>8, <3>2, AppendProperties, EmptySeq DEF Tables
    <3> QED
      BY <1>1, <3>1, <3>2 DEF Grown, LeavesKept
  <2>2. roots = <<>>
    BY <2>1 DEF RowsDiffer
  <2>3. ASSUME NEW k \in DOMAIN roots' PROVE k \in DOMAIN roots
    BY <1>8, OneNewRow
  <2>4. DOMAIN roots' = {}
    BY <2>2, <2>3
  <2>5. Len(roots') = 0
    BY <1>3, <2>4
  <2> QED
    BY <1>1, <2>5, EmptySeq DEF Tables, IsTable
<1> QED
  BY <1>2, <1>6, <1>7, <1>8 DEF RowsDiffer

-----------------------------------------------------------------------------
(* The operator's report. *)

\* The current root is the newest row with its hash and its count.
LEMMA CurrentIsRow ==
  ASSUME Tables, Counted, leaves # <<>>
  PROVE  LET rows == WithCurrent(leaves, roots) IN
         \E k \in DOMAIN rows :
           /\ rows[k].hash = ComputeRoot(leaves) /\ rows[k].count = Len(leaves)
           /\ CurrentRoot(leaves, rows) = rows[k]
<1> USE StoreAssumption
<1> DEFINE rows == WithCurrent(leaves, roots)
           canonical == ComputeRoot(leaves)
           exact == {k \in DOMAIN rows : rows[k].hash = canonical /\ rows[k].count = Len(leaves)}
           row == Root(canonical, Len(leaves))
<1>1. /\ Len(leaves) \in Nat /\ IsTable(roots) /\ TypedRows(roots)
      /\ Len(roots) \in Nat /\ DOMAIN roots = 1..Len(roots)
  BY TablesLen DEF Tables
<1>2. exact # {}
  <2>1. CASE ~HasCanonical(leaves, roots)
    <3>1. rows = Append(roots, row)
      BY <2>1 DEF WithCurrent
    <3>2. row.hash = canonical /\ row.count = Len(leaves)
      BY DEF Root
    <3> HIDE DEF row
    <3>3. DOMAIN rows = 1..Len(roots) + 1 /\ rows[Len(roots) + 1] = row
      BY <1>1, <3>1, InsertRow
    <3>4. Len(roots) + 1 \in DOMAIN rows
      BY <1>1, <3>3
    <3> QED
      BY <3>2, <3>3, <3>4
  <2>2. CASE HasCanonical(leaves, roots)
    <3>1. rows = roots
      BY <2>2 DEF WithCurrent
    <3>2. CASE \E k \in DOMAIN roots : roots[k].hash = canonical /\ roots[k].count = Len(leaves)
      BY <3>1, <3>2
    <3>3. CASE /\ roots # <<>> /\ Last(roots).hash = canonical
               /\ Min({Last(roots).count, Len(leaves)}) = Len(leaves)
      <4>1. Len(roots) \in DOMAIN roots /\ Last(roots) = roots[Len(roots)]
        BY <1>1, <3>3, EmptySeq DEF IsTable, Last
      <4> DEFINE c == Last(roots).count
                 n == Len(leaves)
      <4>2. c \in Nat /\ c <= n /\ n \in Nat
        BY <1>1, <4>1 DEF Counted, TypedRows
      <4> HIDE DEF c, n
      <4>3. Min({c, n}) = c
        <5>1. c \in {c, n} /\ \A y \in {c, n} : c <= y
          BY <4>2
        <5>2. Min({c, n}) \in {c, n} /\ \A y \in {c, n} : Min({c, n}) <= y
          BY <5>1 DEF Min
        <5> QED
          BY <4>2, <5>2
      <4>4. c = n
        BY <3>3, <4>3 DEF c, n
      <4> QED
        BY <3>1, <3>3, <4>1, <4>4 DEF c, n
    <3> QED
      BY <2>2, <3>2, <3>3 DEF HasCanonical
  <2> QED
    BY <2>1, <2>2
<1>3. IsTable(rows)
  BY <1>1, OneMoreRoot DEF WithCurrent
<1>4. Len(rows) \in Nat /\ DOMAIN rows = 1..Len(rows)
  BY <1>3, TableIndexes
<1>5. \E x \in exact : \A y \in exact : x >= y
  <2>1. exact \subseteq 0..Len(rows)
    BY <1>4
  <2> HIDE DEF exact
  <2> QED
    BY <1>2, <1>4, <2>1, GreatestNat
<1>6. Max(exact) \in exact
  BY <1>5 DEF Max
<1>7. CurrentRoot(leaves, rows) = rows[Max(exact)]
  BY <1>2 DEF CurrentRoot
<1> QED
  BY <1>6, <1>7

\* If the current root is anchored, so is every leaf.
LEMMA CurrentAnchored ==
  ASSUME Tables, Counted, leaves # <<>>,
         CurrentRoot(leaves, WithCurrent(leaves, roots)).anchored
  PROVE  \A leaf \in Stored : Anchored(leaf)
<1> USE StoreAssumption
<1> DEFINE rows == WithCurrent(leaves, roots)
<1>1. PICK k \in DOMAIN rows :
        /\ rows[k].hash = ComputeRoot(leaves) /\ rows[k].count = Len(leaves)
        /\ CurrentRoot(leaves, rows) = rows[k]
  BY CurrentIsRow
<1>2. k \in DOMAIN roots /\ rows[k] = roots[k]
  <2>1. /\ \A j \in DOMAIN roots : j \in DOMAIN rows /\ rows[j] = roots[j]
        /\ \A j \in DOMAIN rows : j \in DOMAIN roots \/ ~rows[j].anchored
    BY TablesLen, CurrentPublishesNothing DEF Tables
  <2> HIDE DEF rows
  <2> QED
    BY <1>1, <2>1 DEF rows
<1>3. roots[k].anchored /\ roots[k].count = Len(leaves) /\ roots[k].hash = ComputeRoot(leaves)
  BY <1>1, <1>2
<1>4. Prefix(Len(leaves)) = leaves /\ Len(leaves) \in Nat
  BY TablesLen, WholeTable DEF Prefix
<1>5. ComputeRoot(Prefix(roots[k].count)) = ComputeRoot(leaves)
  BY <1>3, <1>4, Zenon
<1>6. roots[k].count <= Len(leaves)
  BY <1>3, <1>4
<1>7. Fits(k, ComputeRoot)
  BY <1>3, <1>5, <1>6, FitsRoot
<1>8. ASSUME NEW leaf \in Stored PROVE roots[k].count >= Index(leaf)
  BY <1>3, <1>4, StoredLeaf
<1> QED
  BY <1>2, <1>3, <1>7, <1>8, AnchoredMeans

\* Reading the current root changes no answer.
LEMMA CurrentAnswersSame ==
  ASSUME Tables, leaves' = leaves, roots' = WithCurrent(leaves, roots)
  PROVE  /\ AnchoredRows' = AnchoredRows
         /\ UnanchoredCount' = UnanchoredCount
         /\ WithCurrent(leaves, roots') = roots'
<1> USE StoreAssumption
<1> DEFINE row == Root(ComputeRoot(leaves), Len(leaves))
<1>1. /\ Len(leaves) \in Nat /\ IsTable(roots)
      /\ Len(roots) \in Nat /\ DOMAIN roots = 1..Len(roots)
  BY TablesLen DEF Tables
<1>2. CASE roots' = roots
  <2>1. Covering(0)' = Covering(0)
    BY <1>2 DEF Covering
  <2>2. AnchoredRows' = AnchoredRows
    BY <1>2, <2>1 DEF AnchoredRows
  <2>3. UnanchoredCount' = UnanchoredCount
    BY <1>2, <2>1 DEF UnanchoredCount
  <2> QED
    BY <1>2, <2>2, <2>3
<1>3. CASE ~HasCanonical(leaves, roots) /\ roots' = Append(roots, row)
  <2>1. ~row.anchored /\ row.hash = ComputeRoot(leaves) /\ row.count = Len(leaves)
    BY DEF Root
  <2> HIDE DEF row
  <2>2. /\ DOMAIN roots' = 1..Len(roots) + 1
        /\ \A k \in DOMAIN roots : roots'[k] = roots[k]
        /\ roots'[Len(roots) + 1] = row
    BY <1>1, <1>3, InsertRow
  <2>3. Covering(0)' = Covering(0)
    <3>1. \A k : k \in DOMAIN roots' <=> k \in DOMAIN roots \/ k = Len(roots) + 1
      BY <1>1, <2>2
    <3>2. \A k : k \in DOMAIN roots' /\ roots'[k].anchored /\ roots'[k].count >= 0
                   <=> k \in DOMAIN roots /\ roots[k].anchored /\ roots[k].count >= 0
      BY <2>1, <2>2, <3>1
    <3> QED
      BY <3>2 DEF Covering
  <2>4. Covering(0) \subseteq DOMAIN roots
    BY DEF Covering
  <2>5. RowsAt(roots', Covering(0)) = RowsAt(roots, Covering(0))
    BY <1>1, <1>3, <2>4, ChosenBefore
  <2>6. AnchoredRows' = AnchoredRows
    BY <2>3, <2>5 DEF AnchoredRows
  <2>7. {roots'[k].count : k \in Covering(0)} = {roots[k].count : k \in Covering(0)}
    BY <2>2, <2>4
  <2>8. UnanchoredCount' = UnanchoredCount
    BY <2>3, <2>7 DEF UnanchoredCount
  <2>9. Len(roots) + 1 \in DOMAIN roots'
    BY <1>1, <2>2
  <2>10. HasCanonical(leaves, roots')
    BY <2>1, <2>2, <2>9 DEF HasCanonical
  <2>11. WithCurrent(leaves, roots') = roots'
    BY <2>10 DEF WithCurrent
  <2> QED
    BY <2>6, <2>8, <2>11
<1> QED
  BY <1>2, <1>3 DEF WithCurrent

\* What the answers so far are worth, and what they are if nothing was written.
Steps == {"health", "stats", "status", "history", "done"}
AnswersSound ==
  /\ step \in Steps
  /\ DOMAIN answers = {"health", "stats", "status", "history"}
  /\ started \in 0..Len(leaves)
  /\ step \in {"history", "done"} /\ ~WorkWaits(answers.status) =>
       \A k \in 1..started : Anchored(leaves[k])
  /\ step = "done" =>
       /\ errors = Errors(answers.health, answers.stats, answers.status, answers.history)
       /\ warnings = Warnings(answers.status, answers.history)
AnswersCurrent ==
  quiet =>
    /\ step \in {"status", "history", "done"} => answers.stats = StatsAnswer
    /\ step \in {"history", "done"} => answers.status = AnchorStatusAnswer
    /\ step = "done" => \E age \in Ages : answers.history = AnchorHistoryAnswer(age)

\* Each request of the tool is a step of the store, or leaves it alone.
LEMMA OpsSteps ==
  ASSUME [OpsNext]_reportVars
  PROVE  [Next]_vars
<1>1. CASE LoadAnchorStatus
  <2>1. CASE leaves = <<>>
    BY <1>1, <2>1 DEF LoadAnchorStatus, WithCurrent, vars
  <2>2. CASE leaves # <<>>
    BY <1>1, <2>2 DEF LoadAnchorStatus, Next, ReadCurrent
  <2> QED
    BY <2>1, <2>2
<1> QED
  BY <1>1 DEF OpsNext, Write, LoadHealth, LoadStats, LoadAnchorHistory, Rerun, reportVars

LEMMA InitAnswers == OpsInit => AnswersSound /\ AnswersCurrent
<1> SUFFICES ASSUME OpsInit PROVE AnswersSound /\ AnswersCurrent
  OBVIOUS
<1>1. Len(leaves) \in Nat
  BY InitTables, TablesLen DEF OpsInit
<1> QED
  BY <1>1 DEF OpsInit, AnswersSound, AnswersCurrent, Steps

\* What was anchored for the report still is.
LEMMA StartedKept ==
  ASSUME Tables, [Next]_vars, NEW n \in 0..Len(leaves)
  PROVE  /\ n \in 0..Len(leaves')
         /\ \A k \in 1..n : Anchored(leaves[k]) => Anchored(leaves[k])' /\ leaves'[k] = leaves[k]
<1>1. Tables' /\ Grown
  BY NextTables
<1>2. /\ Len(leaves) \in Nat /\ DOMAIN leaves = 1..Len(leaves)
      /\ Len(leaves') \in Nat /\ DOMAIN leaves' = 1..Len(leaves')
  BY <1>1, TablesLen, LenProperties DEF Tables
<1>3. Len(leaves) <= Len(leaves') /\ \A k \in 1..Len(leaves) : leaves'[k] = leaves[k]
  <2>1. CASE leaves' = leaves
    BY <1>2, <2>1
  <2>2. ASSUME NEW leaf \in Leaves, leaves' = Append(leaves, leaf)
        PROVE  Len(leaves) <= Len(leaves') /\ \A k \in 1..Len(leaves) : leaves'[k] = leaves[k]
    <3>1. /\ Len(leaves') = Len(leaves) + 1
          /\ \A k \in 1..Len(leaves) : leaves'[k] = leaves[k]
      BY <2>2, AppendProperties DEF Tables
    <3> QED
      BY <1>2, <3>1
  <2> QED
    BY <1>1, <2>1, <2>2 DEF Grown, LeavesKept
<1>4. ASSUME NEW k \in 1..n, Anchored(leaves[k]) PROVE Anchored(leaves[k])'
  <2>1. leaves[k] \in Stored /\ leaves'[k] = leaves[k]
    BY <1>2, <1>3 DEF Stored
  <2> DEFINE leaf == leaves[k]
  <2>2. ASSUME NEW l \in Stored, Anchored(l) PROVE Anchored(l)'
    BY <2>2, AnchoredKept
  <2> QED
    BY <1>4, <2>1, <2>2
<1> QED
  BY <1>2, <1>3, <1>4

LEMMA NextSound ==
  Tables /\ Counted /\ AnswersSound /\ [OpsNext]_reportVars => AnswersSound'
<1> SUFFICES ASSUME Tables, Counted, AnswersSound, [OpsNext]_reportVars
             PROVE  AnswersSound'
  OBVIOUS
<1>0. [Next]_vars
  BY OpsSteps
<1>1. Len(leaves) \in Nat /\ started \in 0..Len(leaves)
  BY TablesLen DEF AnswersSound
<1>2. /\ started \in 0..Len(leaves')
      /\ \A k \in 1..started : Anchored(leaves[k]) => Anchored(leaves[k])'
  BY <1>0, <1>1, StartedKept
<1>3. CASE Write \/ UNCHANGED reportVars
  <2>1. UNCHANGED <<step, answers, errors, warnings, started>>
    BY <1>3 DEF Write, reportVars, opsVars
  <2> QED
    BY <1>2, <2>1 DEF AnswersSound
<1>4. CASE LoadHealth
  <2>1. /\ step' = "stats" /\ DOMAIN answers' = DOMAIN answers
        /\ started' = Len(leaves) /\ leaves' = leaves
    BY <1>4 DEF LoadHealth, Answer, vars
  <2> QED
    BY <1>1, <2>1 DEF AnswersSound, Steps
<1>5. CASE LoadStats
  <2>1. /\ step' = "status" /\ DOMAIN answers' = DOMAIN answers
        /\ started' = started /\ leaves' = leaves
    BY <1>5 DEF LoadStats, Answer, vars
  <2> QED
    BY <1>1, <2>1 DEF AnswersSound, Steps
<1>6. CASE LoadAnchorStatus
  <2>1. /\ step' = "history" /\ answers' = [answers EXCEPT !["status"] = AnchorStatusAnswer]
        /\ started' = started /\ leaves' = leaves
    BY <1>6 DEF LoadAnchorStatus, Answer
  <2>2. DOMAIN answers' = DOMAIN answers /\ answers'.status = AnchorStatusAnswer
    BY <2>1 DEF AnswersSound
  <2>3. ASSUME ~WorkWaits(AnchorStatusAnswer), NEW k \in 1..started
        PROVE  Anchored(leaves[k])
    <3>1. leaves # <<>>
      BY <1>1, <2>3, EmptySeq
    <3> DEFINE root == CurrentRoot(leaves, WithCurrent(leaves, roots))
    <3>2. AnchorStatusAnswer.needs = (~root.anchored \/ UnanchoredCount > 0)
      BY <3>1 DEF AnchorStatusAnswer
    <3>3. root.anchored
      BY <2>3, <3>2 DEF WorkWaits
    <3>4. leaves[k] \in Stored
      BY <1>1, TablesLen DEF Stored
    <3> QED
      BY <3>1, <3>3, <3>4, CurrentAnchored
  <2>4. ~WorkWaits(AnchorStatusAnswer) => \A k \in 1..started : Anchored(leaves[k])'
    BY <1>2, <2>3
  <2> QED
    BY <1>1, <2>1, <2>2, <2>4 DEF AnswersSound, Steps
<1>7. CASE LoadAnchorHistory
  <2>1. PICK age \in Ages :
          LET history == AnchorHistoryAnswer(age) IN
          /\ Answer("history", history, "done")
          /\ errors' = Errors(answers.health, answers.stats, answers.status, history)
          /\ warnings' = Warnings(answers.status, history)
          /\ UNCHANGED <<vars, started, quiet>>
    BY <1>7 DEF LoadAnchorHistory
  <2> DEFINE history == AnchorHistoryAnswer(age)
  <2>2. step = "history" /\ step' = "done" /\ answers' = [answers EXCEPT !["history"] = history]
    BY <2>1 DEF Answer
  <2> HIDE DEF history
  <2>3. /\ DOMAIN answers' = DOMAIN answers /\ answers'.history = history
        /\ answers'.health = answers.health /\ answers'.stats = answers.stats
        /\ answers'.status = answers.status
    BY <2>2 DEF AnswersSound
  <2>4. /\ errors' = Errors(answers'.health, answers'.stats, answers'.status, answers'.history)
        /\ warnings' = Warnings(answers'.status, answers'.history)
    BY <2>1, <2>3 DEF history
  <2>5. started' = started /\ leaves' = leaves
    BY <2>1 DEF vars
  <2>6. ~WorkWaits(answers'.status) => \A k \in 1..started : Anchored(leaves[k])'
    BY <1>2, <2>2, <2>3 DEF AnswersSound
  <2> QED
    BY <1>1, <2>2, <2>3, <2>4, <2>5, <2>6 DEF AnswersSound, Steps
<1>8. CASE Rerun
  <2>1. /\ step' = "health" /\ DOMAIN answers' = DOMAIN answers
        /\ started' = 0 /\ leaves' = leaves
    BY <1>8 DEF Rerun, vars
  <2> QED
    BY <1>1, <2>1 DEF AnswersSound, Steps
<1> QED
  BY <1>3, <1>4, <1>5, <1>6, <1>7, <1>8 DEF OpsNext

LEMMA NextCurrent ==
  Tables /\ AnswersSound /\ AnswersCurrent /\ [OpsNext]_reportVars => AnswersCurrent'
<1> SUFFICES ASSUME Tables, AnswersSound, AnswersCurrent, [OpsNext]_reportVars, quiet'
             PROVE  /\ step' \in {"status", "history", "done"} => answers'.stats = StatsAnswer'
                    /\ step' \in {"history", "done"} => answers'.status = AnchorStatusAnswer'
                    /\ step' = "done" => \E age \in Ages : answers'.history = AnchorHistoryAnswer(age)'
  BY DEF AnswersCurrent
<1> USE DEF AnswersSound
<1>1. ASSUME UNCHANGED vars
      PROVE  /\ StatsAnswer' = StatsAnswer /\ AnchorStatusAnswer' = AnchorStatusAnswer
             /\ \A age \in Ages : AnchorHistoryAnswer(age)' = AnchorHistoryAnswer(age)
  <2>1. leaves' = leaves /\ roots' = roots
    BY <1>1 DEF vars
  <2>2. Covering(0)' = Covering(0)
    BY <2>1 DEF Covering
  <2>3. AnchoredRows' = AnchoredRows /\ UnanchoredCount' = UnanchoredCount
    BY <2>1, <2>2 DEF AnchoredRows, UnanchoredCount
  <2> QED
    BY <2>1, <2>3 DEF StatsAnswer, AnchorStatusAnswer, AnchorHistoryAnswer
<1>2. CASE Write
  BY <1>2 DEF Write
<1>3. CASE UNCHANGED reportVars
  <2>1. UNCHANGED vars /\ UNCHANGED <<step, answers, quiet>>
    BY <1>3 DEF reportVars, opsVars
  <2> QED
    BY <1>1, <2>1 DEF AnswersCurrent
<1>4. CASE LoadHealth
  BY <1>4 DEF LoadHealth, Answer
<1>5. CASE LoadStats
  <2>1. /\ step' = "status" /\ answers' = [answers EXCEPT !["stats"] = StatsAnswer]
        /\ UNCHANGED vars
    BY <1>5 DEF LoadStats, Answer
  <2>2. answers'.stats = StatsAnswer
    BY <2>1
  <2> QED
    BY <1>1, <2>1, <2>2
<1>6. CASE LoadAnchorStatus
  <2>1. /\ step = "status" /\ step' = "history"
        /\ answers' = [answers EXCEPT !["status"] = AnchorStatusAnswer]
        /\ leaves' = leaves /\ roots' = WithCurrent(leaves, roots) /\ quiet
    BY <1>6 DEF LoadAnchorStatus, Answer
  <2>2. answers'.stats = answers.stats /\ answers'.status = AnchorStatusAnswer
    BY <2>1
  <2>3. /\ AnchoredRows' = AnchoredRows /\ UnanchoredCount' = UnanchoredCount
        /\ WithCurrent(leaves, roots') = roots'
    BY <2>1, CurrentAnswersSame
  <2>4. StatsAnswer' = StatsAnswer
    BY <2>1, <2>3 DEF StatsAnswer
  <2>5. AnchorStatusAnswer' = AnchorStatusAnswer
    <3>1. WithCurrent(leaves', roots') = WithCurrent(leaves, roots)
      BY <2>1, <2>3
    <3>2. CurrentRoot(leaves', WithCurrent(leaves', roots'))
            = CurrentRoot(leaves, WithCurrent(leaves, roots))
      BY <2>1, <3>1
    <3> DEFINE root == CurrentRoot(leaves, WithCurrent(leaves, roots))
               status(list, r, unanchored) ==
                 IF list = <<>>
                 THEN [count |-> 0, unanchored |-> 0, txid |-> NoTxid, height |-> 0, needs |-> FALSE]
                 ELSE [count |-> r.count, unanchored |-> unanchored, txid |-> Txid(r),
                       height |-> r.height, needs |-> ~r.anchored \/ unanchored > 0]
    <3>3. AnchorStatusAnswer = status(leaves, root, UnanchoredCount)
      BY Zenon DEF AnchorStatusAnswer
    <3>4. AnchorStatusAnswer' = status(leaves', root', UnanchoredCount')
      BY Zenon DEF AnchorStatusAnswer
    <3>5. root' = root
      BY <3>2
    <3> HIDE DEF root, status
    <3> QED
      BY <2>1, <2>3, <3>3, <3>4, <3>5
  <2> QED
    BY <2>1, <2>2, <2>4, <2>5 DEF AnswersCurrent
<1>7. CASE LoadAnchorHistory
  <2>1. PICK age \in Ages :
          /\ Answer("history", AnchorHistoryAnswer(age), "done")
          /\ UNCHANGED <<vars, started, quiet>>
    BY <1>7 DEF LoadAnchorHistory
  <2> DEFINE history == AnchorHistoryAnswer(age)
  <2>2. step = "history" /\ step' = "done" /\ answers' = [answers EXCEPT !["history"] = history]
        /\ quiet
    BY <2>1 DEF Answer
  <2>3. AnchorHistoryAnswer(age)' = history
    BY <1>1, <2>1
  <2> HIDE DEF history
  <2>4. /\ answers'.history = history
        /\ answers'.stats = answers.stats /\ answers'.status = answers.status
    BY <2>2
  <2> QED
    BY <1>1, <2>1, <2>2, <2>3, <2>4 DEF AnswersCurrent
<1>8. CASE Rerun
  BY <1>8 DEF Rerun
<1> QED
  BY <1>2, <1>3, <1>4, <1>5, <1>6, <1>7, <1>8 DEF OpsNext

LEMMA LargerOfTwo ==
  ASSUME NEW a \in Nat, NEW b \in Nat, b <= a
  PROVE  Max({b, a}) = a
<1>1. \E x \in {b, a} : \A y \in {b, a} : x >= y
  OBVIOUS
<1>2. Max({b, a}) \in {b, a} /\ \A y \in {b, a} : Max({b, a}) >= y
  BY <1>1 DEF Max
<1> QED
  BY <1>2

LEMMA SmallerOfEqual ==
  ASSUME NEW a \in Nat
  PROVE  Min({a, a}) = a
<1>1. \E x \in {a, a} : \A y \in {a, a} : x <= y
  OBVIOUS
<1>2. Min({a, a}) \in {a, a}
  BY <1>1 DEF Min
<1> QED
  BY <1>2

\* The largest of some numbers and 0.
LEMMA LargestHeight ==
  ASSUME NEW N \in Nat, NEW T, T \subseteq 0..N, T # {}
  PROVE  Max({0} \cup T) = Max(T)
<1>1. \E x \in T : \A y \in T : x >= y
  BY GreatestNat
<1>2. Max(T) \in T /\ \A y \in T : Max(T) >= y
  BY <1>1 DEF Max
<1> DEFINE U == {0} \cup T
<1>3. U \subseteq 0..N /\ U # {}
  OBVIOUS
<1>4. \E x \in U : \A y \in U : x >= y
  <2> HIDE DEF U
  <2> QED
    BY <1>3, GreatestNat
<1>5. Max(U) \in U /\ \A y \in U : Max(U) >= y
  BY <1>4 DEF Max
<1>6. Max(T) \in U /\ (Max(U) = 0 \/ Max(U) \in T)
  BY <1>2, <1>5
<1> DEFINE u == Max(U)
           t == Max(T)
<1>7. t \in 0..N /\ u >= t
  BY <1>2, <1>5, <1>6
<1>8. u = 0 \/ (u \in 0..N /\ t >= u)
  BY <1>2, <1>6
<1>9. u = t
  <2> HIDE DEF u, t
  <2> QED
    BY <1>7, <1>8
<1> QED
  BY <1>9

\* The newest anchored row is the last of the history.
LEMMA LastAnchored ==
  ASSUME Tables, AnchoredRows # <<>>
  PROVE  /\ IsTable(AnchoredRows)
         /\ RowsIn(AnchoredRows) = {roots[k] : k \in Covering(0)}
         /\ \E k \in Covering(0) : Last(AnchoredRows) = roots[k]
<1>1. Covering(0) \subseteq DOMAIN roots
  BY DEF Covering
<1>2. /\ IsTable(AnchoredRows)
      /\ RowsIn(AnchoredRows) = {roots[k] : k \in Covering(0)}
      /\ \/ Covering(0) = {} /\ AnchoredRows = <<>>
         \/ \E k \in Covering(0) : /\ \A j \in Covering(0) : j <= k
                                   /\ AnchoredRows # <<>> /\ Last(AnchoredRows) = roots[k]
  BY <1>1, ChosenRows DEF Tables, AnchoredRows
<1> QED
  BY <1>2

\* In a settled store the current root is the newest anchored one.
LEMMA SettledCurrent ==
  ASSUME Tables, Numbers, Counted, RowsDiffer, Settled
  PROVE  LET last == Last(AnchoredRows) IN
         /\ leaves # <<>>
         /\ CurrentRoot(leaves, WithCurrent(leaves, roots)) = last
         /\ last.anchored /\ UnanchoredCount = 0
<1> DEFINE last == Last(AnchoredRows)
           rows == WithCurrent(leaves, roots)
<1>1. PICK k \in Covering(0) : last = roots[k]
  BY LastAnchored DEF Settled
<1>2. /\ k \in DOMAIN roots /\ roots[k].anchored
      /\ roots[k].hash = ComputeRoot(leaves) /\ roots[k].count = Len(leaves)
  BY <1>1 DEF Covering, Settled
<1>3. leaves # <<>>
  <2>1. roots # <<>>
    BY <1>2
  <2> QED
    BY <2>1 DEF RowsDiffer
<1>4. HasCanonical(leaves, roots) /\ rows = roots
  BY <1>2 DEF HasCanonical, WithCurrent
<1>5. PICK m \in DOMAIN roots :
        /\ roots[m].hash = ComputeRoot(leaves) /\ roots[m].count = Len(leaves)
        /\ CurrentRoot(leaves, rows) = roots[m]
  <2>1. \E m \in DOMAIN rows :
          /\ rows[m].hash = ComputeRoot(leaves) /\ rows[m].count = Len(leaves)
          /\ CurrentRoot(leaves, rows) = rows[m]
    BY <1>3, CurrentIsRow
  <2> HIDE DEF rows
  <2> QED
    BY <1>4, <2>1
<1>6. k = m
  <2>1. ComputeRoot(leaves) = CommitRoot(Len(leaves), ComputeRawTreeRoot(leaves))
    BY <1>3 DEF ComputeRoot
  <2>2. DOMAIN roots = 1..Len(roots) /\ Len(roots) \in Nat /\ upgraded \in 0..Len(roots)
    BY TablesLen DEF Numbers
  <2>3. k > upgraded /\ m > upgraded
    BY <1>2, <1>5, <2>1, <2>2 DEF RowsDiffer
  <2> QED
    BY <1>2, <1>5, <2>3 DEF RowsDiffer
<1>7. UnanchoredCount = 0
  <2>1. Len(leaves) \in Nat
    BY TablesLen
  <2>2. Anchors \subseteq 0..Len(leaves) /\ Len(leaves) \in Anchors
    <3>1. \A j \in Covering(0) : roots[j].count \in 0..Len(leaves)
      BY <2>1 DEF Covering, Tables, TypedRows, Counted
    <3> QED
      BY <1>1, <1>2, <2>1, <3>1 DEF Anchors
  <2>3. \E x \in Anchors : \A y \in Anchors : x >= y
    BY <2>1, <2>2, GreatestNat
  <2>4. Max(Anchors) \in Anchors /\ \A y \in Anchors : Max(Anchors) >= y
    BY <2>3 DEF Max
  <2>5. Max(Anchors) = Len(leaves)
    <3>1. Max(Anchors) \in 0..Len(leaves) /\ Max(Anchors) >= Len(leaves)
      BY <2>2, <2>4
    <3> HIDE DEF Anchors
    <3> QED
      BY <2>1, <3>1
  <2>6. UnanchoredCount = Max({0, Len(leaves) - Max(Anchors)})
    BY DEF UnanchoredCount, Anchors
  <2>7. Len(leaves) - Max(Anchors) = 0
    BY <2>1, <2>5
  <2>8. Max({0, 0}) = 0
    BY LargerOfTwo
  <2> QED
    BY <2>6, <2>7, <2>8
<1> QED
  BY <1>1, <1>2, <1>3, <1>5, <1>6, <1>7

\* Nothing to complain about in the answers of a settled store.
LEMMA SettledAnswers ==
  ASSUME Tables, Numbers, Counted, RowsDiffer, Settled, NEW age
  PROVE  LET stats == StatsAnswer
             status == AnchorStatusAnswer
             history == AnchorHistoryAnswer(age)
         IN /\ Mismatches(stats, status, history) = {}
            /\ LastAnchorMismatches(stats, status, history) = {}
            /\ ~WorkWaits(status)
<1> USE StoreAssumption
<1> DEFINE last == Last(AnchoredRows)
           n == Len(leaves)
           stats == StatsAnswer
           status == AnchorStatusAnswer
           history == AnchorHistoryAnswer(age)
<1>1. /\ leaves # <<>> /\ CurrentRoot(leaves, WithCurrent(leaves, roots)) = last
      /\ last.anchored /\ UnanchoredCount = 0
      /\ n \in Nat
  BY SettledCurrent, TablesLen
<1>2. /\ AnchoredRows # <<>>
      /\ last.hash = ComputeRoot(leaves) /\ last.count = n
      /\ last.height = Max({row.height : row \in ToSet(AnchoredRows)})
  BY DEF Settled
<1>3. /\ IsTable(AnchoredRows) /\ Len(AnchoredRows) \in Nat
      /\ DOMAIN AnchoredRows = 1..Len(AnchoredRows)
      /\ Len(AnchoredRows) \in DOMAIN AnchoredRows
      /\ last = AnchoredRows[Len(AnchoredRows)]
  <2>1. /\ IsTable(AnchoredRows) /\ Len(AnchoredRows) \in Nat
        /\ DOMAIN AnchoredRows = 1..Len(AnchoredRows)
    BY <1>2, LastAnchored, TableIndexes
  <2>2. Len(AnchoredRows) # 0
    BY <1>2, <2>1, EmptySeq DEF IsTable
  <2> QED
    BY <2>1, <2>2 DEF Last
<1>4. /\ DOMAIN last = {"hash", "count", "anchored", "height"}
      /\ \A row \in RowsIn(AnchoredRows) : row.height \in 0..MaxHeight
  BY <1>2, LastAnchored DEF Covering, Tables, TypedRows
<1>5. status.count = n /\ status.txid = Txid(last) /\ status.height = last.height
      /\ status.unanchored = 0 /\ ~status.needs
  <2>1. status = [count |-> last.count, unanchored |-> UnanchoredCount,
                  txid |-> Txid(last), height |-> last.height,
                  needs |-> ~last.anchored \/ UnanchoredCount > 0]
    <3> HIDE DEF last
    <3> QED
      BY <1>1, Zenon DEF AnchorStatusAnswer
  <2>2. ~(~last.anchored \/ UnanchoredCount > 0)
    BY <1>1
  <2> HIDE DEF last, status
  <2> QED
    BY <1>1, <1>2, <2>1, <2>2 DEF last
<1>6. stats.totalLeaves = n /\ stats.totalAnchors = Len(AnchoredRows)
      /\ stats.lastBlock = last.height
  <2> DEFINE heights == {row.height : row \in ToSet(AnchoredRows)}
  <2>1. heights \subseteq 0..MaxHeight /\ heights # {}
    BY <1>3, <1>4 DEF ToSet, RowsIn
  <2>2. Max({0} \cup heights) = Max(heights)
    <3> HIDE DEF heights
    <3> QED
      BY <2>1, LargestHeight DEF StoreAssumption
  <2> QED
    BY <1>2, <2>2 DEF StatsAnswer
<1>7. /\ history.total = Len(AnchoredRows) /\ Len(history.anchors) = Len(AnchoredRows)
      /\ history.anchors # <<>>
      /\ Last(history.anchors).height = last.height
      /\ Last(history.anchors).count = n
      /\ Txid(Last(history.anchors)) = Txid(last)
  <2> DEFINE clamped == [k \in DOMAIN AnchoredRows |->
                           [AnchoredRows[k] EXCEPT !.count = Min({@, n})]]
             N == Len(AnchoredRows)
  <2>1. history.anchors = clamped /\ history.total = N
    BY DEF AnchorHistoryAnswer
  <2>2. Len(clamped) = N
    <3> DEFINE S == {clamped[k] : k \in 1..N}
    <3>1. clamped \in [1..N -> S]
      BY <1>3
    <3> HIDE DEF clamped, S
    <3> QED
      BY <1>3, <3>1, ListIsSequence
  <2>3. clamped[N] = [last EXCEPT !.count = Min({@, n})]
    BY <1>3
  <2>4. Min({last.count, n}) = n
    <3>1. Min({n, n}) = n
      BY <1>1, SmallerOfEqual
    <3> QED
      BY <1>2, <3>1
  <2>5. /\ clamped[N].height = last.height /\ clamped[N].count = n
        /\ clamped[N].hash = last.hash /\ clamped[N].anchored = last.anchored
    <3> HIDE DEF clamped, last, n
    <3> QED
      BY <1>4, <2>3, <2>4
  <2>6. clamped # <<>>
    BY <1>3
  <2> HIDE DEF clamped
  <2>7. Last(clamped) = clamped[N]
    BY <2>2 DEF Last
  <2>8. Txid(clamped[N]) = Txid(last)
    BY <2>5 DEF Txid
  <2> HIDE DEF last, history, N, n
  <2>9. /\ Last(history.anchors).height = last.height /\ Last(history.anchors).count = n
        /\ Txid(Last(history.anchors)) = Txid(last)
    BY <2>1, <2>5, <2>7, <2>8
  <2> QED
    BY <2>1, <2>2, <2>6, <2>9 DEF N
<1> HIDE DEF stats, status, history, last, n
<1>8. ~WorkWaits(status)
  BY <1>5 DEF WorkWaits
<1>9. Mismatches(stats, status, history) = {}
  <2>1. /\ history.total = Len(history.anchors) /\ stats.totalAnchors = history.total
        /\ ~(status.count > stats.totalLeaves)
    BY <1>1, <1>5, <1>6, <1>7
  <2> QED
    BY <2>1 DEF Mismatches
<1>10. LastAnchorMismatches(stats, status, history) = {}
  <2> DEFINE newest == Last(history.anchors)
  <2>1. /\ ~(newest.height # status.height) /\ ~(Txid(newest) # status.txid)
        /\ ~(newest.height # stats.lastBlock) /\ ~(newest.count > stats.totalLeaves)
    BY <1>1, <1>5, <1>6, <1>7
  <2> HIDE DEF newest
  <2>2. LastAnchorMismatches(stats, status, history) =
          {e \in {"height", "txid", "block", "anchored leaves"} :
             \/ e = "height" /\ newest.height # status.height
             \/ e = "txid" /\ Txid(newest) # status.txid
             \/ e = "block" /\ newest.height # stats.lastBlock
             \/ e = "anchored leaves" /\ newest.count > stats.totalLeaves}
    <3>1. (history.anchors = <<>>) = FALSE
      BY <1>7
    <3> QED
      BY <3>1, Zenon DEF LastAnchorMismatches, newest
  <2> QED
    BY <2>1, <2>2
<1> QED
  BY <1>8, <1>9, <1>10 DEF stats, status, history

LEMMA ReportFollows ==
  Tables /\ Numbers /\ Counted /\ RowsDiffer /\ AnswersSound /\ AnswersCurrent => ReportIsHonest
<1> SUFFICES ASSUME Tables, Numbers, Counted, RowsDiffer, AnswersSound, AnswersCurrent,
                    step = "done"
             PROVE  /\ quiet /\ Healthy /\ Settled => Status # "critical"
                    /\ Status = "ok" => \A k \in 1..started : Anchored(leaves[k])
  BY DEF ReportIsHonest, SettledIsNotCritical, OkMeansAnchored
<1>1. /\ errors = Errors(answers.health, answers.stats, answers.status, answers.history)
      /\ warnings = Warnings(answers.status, answers.history)
  BY DEF AnswersSound
<1>2. ASSUME Status = "ok" PROVE \A k \in 1..started : Anchored(leaves[k])
  <2>1. warnings = {}
    BY <1>2 DEF Status
  <2>2. ~WorkWaits(answers.status)
    BY <1>1, <2>1 DEF Warnings, WorkWaits
  <2> QED
    BY <2>2 DEF AnswersSound
<1>3. ASSUME quiet, Healthy, Settled PROVE Status # "critical"
  <2>1. PICK age \in Ages : answers.history = AnchorHistoryAnswer(age)
    BY <1>3 DEF AnswersCurrent
  <2>2. answers.stats = StatsAnswer /\ answers.status = AnchorStatusAnswer
    BY <1>3 DEF AnswersCurrent
  <2>3. /\ Mismatches(answers.stats, answers.status, answers.history) = {}
        /\ LastAnchorMismatches(answers.stats, answers.status, answers.history) = {}
        /\ ~WorkWaits(answers.status)
    BY <1>3, <2>1, <2>2, SettledAnswers
  <2>4. HealthErrors(answers.health) = {}
    BY <1>3 DEF Healthy
  <2>5. errors = {}
    BY <1>1, <2>3, <2>4 DEF Errors
  <2> QED
    BY <2>5 DEF Status
<1> QED
  BY <1>2, <1>3

\* Whatever is written between the requests of zap1_ops, its report is no false
\* all-clear; and an idle server whose newest root is anchored and mined is not
\* critical.  The second needs that no leaf hash is the hash of a root, so that
\* every root has one row (evaluate against the handlers; ReportIsHonest).
THEOREM ReportsAreHonest ==
  ASSUME LeavesAreNoRoots
  PROVE  OpsSpec => []ReportIsHonest
<1> DEFINE IInv == /\ Tables /\ Numbers /\ Counted /\ RootsCommitToPrefixes /\ RowsDiffer
                   /\ AnswersSound /\ AnswersCurrent
<1>1. OpsInit => IInv
  <2> SUFFICES ASSUME OpsInit PROVE IInv
    OBVIOUS
  <2>1. Init
    BY DEF OpsInit
  <2>2. Tables /\ Numbers /\ Counted /\ RowsDiffer
    BY <2>1, InitTables, InitCounted, InitDiffer
  <2>3. RootsCommitToPrefixes
    BY <2>1, InitPrefixes
  <2> QED
    BY <2>2, <2>3, InitAnswers
<1>2. IInv /\ [OpsNext]_reportVars => IInv'
  <2> SUFFICES ASSUME IInv, [OpsNext]_reportVars PROVE IInv'
    OBVIOUS
  <2>1. [Next]_vars
    BY OpsSteps
  <2>2. Tables' /\ Numbers' /\ Counted' /\ RootsCommitToPrefixes'
    BY <2>1, NextTables, NextNumbers, NextCounted, NextPrefixes
  <2>3. RowsDiffer'
    BY <2>1, NextDiffer
  <2>4. AnswersSound' /\ AnswersCurrent'
    BY NextSound, NextCurrent
  <2> QED
    BY <2>2, <2>3, <2>4
<1>3. IInv => ReportIsHonest
  BY ReportFollows
<1> QED
  BY <1>1, <1>2, <1>3, PTL DEF OpsSpec
===============================================================================
