----------------------------- MODULE ScannerProofs -----------------------------
(***************************************************************************)
(* The block scanner for every set of invoices, transactions and outputs,  *)
(* every batch and every chain: snapshots, paid heights, lifecycle leaves, *)
(* missed payments, the sums of what was received, and the ledger that the *)
(* scanner implements.                                                     *)
(***************************************************************************)
EXTENDS InvoiceScanner, DataLemmas

\* TypeOK without received, which Counted has.
Typed ==
  /\ status \in [Invoices -> {"none", "pending", "partial", "paid", "expired"}]
  /\ paidTx \in [Invoices -> Txs \cup {None}]
  /\ paidHeight \in [Invoices -> Nat]
  /\ records \in [Invoices -> [Txs -> Nat]]
  /\ bound \in [LeafIds -> Wallets \cup {None}]
  /\ assigned \in [Wallets -> Serials \cup {None}]
  /\ active \subseteq Invoices /\ todo \subseteq Txs /\ matched \subseteq active
  /\ current \in Txs \cup {None}
  /\ minedAt \in [Txs -> 0..tip]
  /\ skipped \subseteq Txs
  /\ tip \in Nat /\ reorgs \in Nat /\ epoch \in Nat

\* Where a round stands: between rounds nothing is left of one, and within one
\* the block at hand is the next to scan and was on the chain.
Round ==
  /\ pc \in {"idle", "plan", "block", "txs", "expire"}
  /\ lastScanned \in 0..tip /\ seen \in 0..tip /\ height \in 0..tip /\ end \in 0..tip
  /\ pc \in {"idle", "plan", "expire"} => active = {}
  /\ pc # "txs" => todo = {} /\ matched = {}
  /\ pc \in {"block", "txs"} => height = lastScanned + 1 /\ height <= end
  /\ matched # {} => current \in Txs /\ matched \subseteq DOMAIN Outputs[current]

LEMMA MinOfTwo ==
  ASSUME NEW a \in Nat, NEW b \in Nat
  PROVE  Min({a, b}) \in {a, b} /\ Min({a, b}) <= a /\ Min({a, b}) <= b
<1>1. \E x \in {a, b} : \A y \in {a, b} : x <= y
  OBVIOUS
<1>2. Min({a, b}) \in {a, b} /\ \A y \in {a, b} : Min({a, b}) <= y
  BY <1>1 DEF Min
<1> QED
  BY <1>2

-----------------------------------------------------------------------------
(* Types. *)

LEMMA InitTyped == Init => Typed /\ Round
  BY ScannerAssumption DEF Init, Typed, Round, ScannerAssumption

LEMMA NextTyped == Typed /\ Round /\ [Next]_vars => Typed'
<1> SUFFICES ASSUME Typed, Round, [Next]_vars PROVE Typed'
  OBVIOUS
<1> USE ScannerAssumption
    DEF ScannerAssumption, Goto, dbVars, scanVars, roundVars, nodeVars, EndRound
<1>1. ASSUME NEW answered \in BOOLEAN, AskTip(answered) \/ FetchBlock(answered) PROVE Typed'
  BY <1>1 DEF Typed, AskTip, FetchBlock
<1>2. ASSUME NothingNew \/ SkipBlocks \/ SealBlock PROVE Typed'
  BY <1>2 DEF Typed, NothingNew, SkipBlocks, SealBlock
<1>3. CASE PlanBlocks
  BY <1>3 DEF Typed, Round, PlanBlocks, Active
<1>4. ASSUME NEW t \in Txs, FetchTx(t) \/ SkipTx(t) PROVE Typed'
  BY <1>4 DEF Typed, FetchTx, SkipTx
<1>5. ASSUME NEW i \in Invoices, RecordPayment(i) PROVE Typed'
  <2>1. /\ current \in Txs /\ height \in Nat
    BY <1>5 DEF RecordPayment, Round
  <2>2. bound' \in [LeafIds -> Wallets \cup {None}]
    BY <1>5 DEF RecordPayment, CreditPayment, Typed
  <2>3. /\ records' = [records EXCEPT ![i][current] = height]
        /\ paidTx' \in [Invoices -> Txs \cup {None}]
        /\ paidHeight' \in [Invoices -> Nat]
        /\ status' \in [Invoices -> {"none", "pending", "partial", "paid", "expired"}]
        /\ assigned' = assigned /\ active' = active /\ todo' = todo /\ current' = current
        /\ matched' = matched \ {i} /\ skipped' = skipped
        /\ minedAt' = minedAt /\ tip' = tip /\ reorgs' = reorgs /\ epoch' = epoch
    BY <1>5, <2>1 DEF RecordPayment, CreditPayment, NewPaidHeight, Typed
  <2>4. records' \in [Invoices -> [Txs -> Nat]]
    BY <2>1, <2>3 DEF Typed
  <2> QED
    BY <2>2, <2>3, <2>4 DEF Typed
<1>6. ASSUME NEW i \in Invoices, RecordFails(i) PROVE Typed'
  BY <1>6 DEF Typed, RecordFails
<1>7. CASE ExpireOld
  BY <1>7 DEF Typed, ExpireOld
<1>8. ASSUME NEW i \in Invoices, CreateInvoice(i) \/ DeadlinePasses(i) PROVE Typed'
  BY <1>8 DEF Typed, CreateInvoice, DeadlinePasses
<1>9. ASSUME NEW w \in Wallets, NEW s \in Serials, AssignMiner(w, s) PROVE Typed'
  BY <1>9 DEF Typed, AssignMiner
<1>10. ASSUME NEW leaf \in LeafIds, NEW w \in Wallets, InsertEvent(leaf, w)
       PROVE Typed'
  BY <1>10 DEF Typed, InsertEvent
<1>11. ASSUME NEW txs \in SUBSET Txs, Mine(txs) PROVE Typed'
  <2>1. minedAt' \in [Txs -> 0..tip'] /\ tip' = tip + 1
    BY <1>11 DEF Typed, Mine
  <2> QED
    BY <1>11, <2>1 DEF Typed, Mine
<1>12. ASSUME NEW h \in 1..MaxTip, NEW where \in [Txs -> Heights], Reorg(h, where) PROVE Typed'
  <2>1. \A t \in Txs : where[t] \in 0..tip
    BY <1>12 DEF Typed, Reorg
  <2>2. minedAt' \in [Txs -> 0..tip']
    BY <1>12, <2>1 DEF Reorg
  <2> QED
    BY <1>12, <2>2 DEF Typed, Reorg
<1>13. CASE Restart
  BY <1>13 DEF Typed, Restart
<1>14. CASE UNCHANGED vars
  BY <1>14 DEF Typed, vars
<1> QED
  BY <1>1, <1>2, <1>3, <1>4, <1>5, <1>6, <1>7, <1>8, <1>9, <1>10, <1>11, <1>12, <1>13, <1>14
  DEF Next, ScanStep, ApiStep, WorldStep

LEMMA NextRound == Typed /\ Round /\ [Next]_vars => Round'
<1> SUFFICES ASSUME Typed, Round, [Next]_vars PROVE Round'
  OBVIOUS
<1> USE ScannerAssumption
    DEF ScannerAssumption, Goto, dbVars, scanVars, roundVars, nodeVars, EndRound
<1>1. ASSUME NEW answered \in BOOLEAN, AskTip(answered) \/ FetchBlock(answered) PROVE Round'
  BY <1>1 DEF Typed, Round, AskTip, FetchBlock
<1>2. CASE NothingNew
  BY <1>2 DEF Round, NothingNew
<1>3. CASE SkipBlocks
  <2>1. SkipTarget \in 0..tip
    <3> DEFINE a == lastScanned + 1 + Batch
    <3>1. a \in Nat /\ seen \in Nat /\ seen <= tip
      BY DEF Typed, Round
    <3> HIDE DEF a
    <3>2. Min({a, seen}) \in {a, seen} /\ Min({a, seen}) <= seen
      BY <3>1, MinOfTwo
    <3>3. Min({a, seen}) \in 0..tip
      BY <3>1, <3>2 DEF Typed
    <3> QED
      BY <3>3 DEF a, SkipTarget
  <2> QED
    BY <1>3, <2>1 DEF Round, SkipBlocks
<1>4. CASE PlanBlocks
  <2>1. lastScanned + 1 <= seen
    BY <1>4 DEF PlanBlocks, UpToDate, Round, Typed
  <2>2. Min({lastScanned + Batch, seen}) \in lastScanned + 1..seen
    <3> DEFINE a == lastScanned + Batch
    <3>1. a \in Nat /\ seen \in Nat /\ lastScanned \in Nat /\ lastScanned + 1 <= a
      BY DEF Typed, Round
    <3> HIDE DEF a
    <3>2. Min({a, seen}) \in {a, seen} /\ Min({a, seen}) <= seen
      BY <3>1, MinOfTwo
    <3>3. Min({a, seen}) \in lastScanned + 1..seen
      BY <2>1, <3>1, <3>2
    <3> QED
      BY <3>3 DEF a
  <2>3. /\ pc' = "block" /\ height' = lastScanned + 1 /\ end' \in lastScanned + 1..seen
        /\ todo' = {} /\ matched' = {} /\ seen' = seen /\ lastScanned' = lastScanned /\ tip' = tip
    BY <1>4, <2>2 DEF PlanBlocks, Round
  <2> QED
    BY <2>1, <2>3 DEF Round, Typed
<1>5. ASSUME NEW t \in Txs, FetchTx(t) \/ SkipTx(t) PROVE Round'
  BY <1>5 DEF Typed, Round, FetchTx, SkipTx
<1>6. ASSUME NEW i \in Invoices, RecordPayment(i) PROVE Round'
  BY <1>6 DEF Typed, Round, RecordPayment, CreditPayment
<1>7. ASSUME NEW i \in Invoices, RecordFails(i) PROVE Round'
  BY <1>7 DEF Round, RecordFails
<1>8. CASE SealBlock
  BY <1>8 DEF Typed, Round, SealBlock
<1>9. CASE ExpireOld
  BY <1>9 DEF Round, ExpireOld
<1>10. ASSUME NEW i \in Invoices, CreateInvoice(i) \/ DeadlinePasses(i) PROVE Round'
  BY <1>10 DEF Round, CreateInvoice, DeadlinePasses
<1>11. ASSUME NEW w \in Wallets, NEW s \in Serials, AssignMiner(w, s) PROVE Round'
  BY <1>11 DEF Round, AssignMiner
<1>12. ASSUME NEW leaf \in LeafIds, NEW w \in Wallets, InsertEvent(leaf, w)
       PROVE Round'
  BY <1>12 DEF Round, InsertEvent
<1>13. ASSUME NEW txs \in SUBSET Txs, Mine(txs) PROVE Round'
  BY <1>13 DEF Typed, Round, Mine
<1>14. ASSUME NEW h, NEW where, Reorg(h, where) PROVE Round'
  BY <1>14 DEF Round, Reorg
<1>15. CASE Restart
  BY <1>15 DEF Typed, Round, Restart
<1>16. CASE UNCHANGED vars
  BY <1>16 DEF Round, vars
<1> QED
  BY <1>1, <1>2, <1>3, <1>4, <1>5, <1>6, <1>7, <1>8, <1>9, <1>10, <1>11, <1>12, <1>13,
     <1>14, <1>15, <1>16
  DEF Next, ScanStep, ApiStep, WorldStep

LEMMA SoundInvariant == Spec => [](Typed /\ Round)
<1>1. (Typed /\ Round) /\ [Next]_vars => (Typed /\ Round)'
  BY NextTyped, NextRound
<1> QED
  BY <1>1, InitTyped, PTL DEF Spec

\* The rows of invoices and payment_records stay.
Unpaid == UNCHANGED <<status, records, paidTx, paidHeight>>

\* Only four operations write them.
LEMMA Payments ==
  ASSUME [Next]_vars
  PROVE  \/ \E i \in Invoices : RecordPayment(i)
         \/ \E i \in Invoices : CreateInvoice(i)
         \/ ExpireOld
         \/ Unpaid
<1> USE DEF Unpaid, dbVars
<1>1. ASSUME NEW answered, AskTip(answered) \/ FetchBlock(answered) PROVE Unpaid
  BY <1>1 DEF AskTip, FetchBlock
<1>2. ASSUME NothingNew \/ SkipBlocks \/ SealBlock \/ PlanBlocks PROVE Unpaid
  BY <1>2 DEF NothingNew, SkipBlocks, SealBlock, PlanBlocks
<1>3. ASSUME NEW t, FetchTx(t) \/ SkipTx(t) PROVE Unpaid
  BY <1>3 DEF FetchTx, SkipTx
<1>4. ASSUME NEW i, RecordFails(i) \/ DeadlinePasses(i) PROVE Unpaid
  BY <1>4 DEF RecordFails, DeadlinePasses
<1>5. ASSUME NEW a, NEW b, AssignMiner(a, b) \/ InsertEvent(a, b) \/ Mine(a) \/ Reorg(a, b)
      PROVE Unpaid
  BY <1>5 DEF AssignMiner, InsertEvent, Mine, Reorg
<1>6. ASSUME Restart \/ UNCHANGED vars PROVE Unpaid
  BY <1>6 DEF Restart, vars
<1> QED
  BY <1>1, <1>2, <1>3, <1>4, <1>5, <1>6 DEF Next, ScanStep, ApiStep, WorldStep

\* What the commit of a payment does to those rows.
LEMMA Recorded ==
  ASSUME Typed, Round, NEW i \in Invoices, RecordPayment(i)
  PROVE  /\ i \in matched /\ current \in Txs /\ i \in DOMAIN Outputs[current]
         /\ pc = "txs" /\ height \in Nat \ {0}
         /\ status[i] \in {"pending", "partial", "paid"}
         /\ status' = [status EXCEPT ![i] = IF PaidBy(i, current) THEN "paid" ELSE "partial"]
         /\ records'[i] = [records[i] EXCEPT ![current] = height]
         /\ \A j \in Invoices \ {i} : records'[j] = records[j]
         /\ paidTx' = [paidTx EXCEPT ![i] = IF status[i] # "paid" /\ PaidBy(i, current)
                                           THEN current ELSE @]
         /\ paidHeight' = [paidHeight EXCEPT ![i] = NewPaidHeight(i, current)]
<1>1. /\ i \in matched /\ Creditable(i, current) /\ CreditPayment(i, current) /\ pc = "txs"
  BY DEF RecordPayment
<1>2. current \in Txs /\ i \in DOMAIN Outputs[current] /\ height \in Nat \ {0}
  BY <1>1 DEF Round, Typed
<1>3. /\ records'[i] = [records[i] EXCEPT ![current] = height]
      /\ \A j \in Invoices \ {i} : records'[j] = records[j]
  BY <1>1 DEF CreditPayment, Typed
<1> QED
  BY <1>1, <1>2, <1>3 DEF Creditable, CreditPayment

-----------------------------------------------------------------------------
(* Snapshots. *)

LEMMA NextSnapshot ==
  Typed /\ Round /\ SnapshotStaysOpen /\ [Next]_vars => SnapshotStaysOpen'
<1> SUFFICES ASSUME Typed, Round, SnapshotStaysOpen, [Next]_vars PROVE SnapshotStaysOpen'
  OBVIOUS
<1> USE DEF dbVars, scanVars, roundVars, EndRound, SnapshotStaysOpen
<1>0. active' \subseteq active \/ PlanBlocks
  BY DEF Next, ScanStep, ApiStep, WorldStep, AskTip, FetchBlock, NothingNew, SkipBlocks,
         FetchTx, SkipTx, RecordPayment, RecordFails, SealBlock, ExpireOld, CreateInvoice,
         DeadlinePasses, AssignMiner, InsertEvent, Mine, Reorg, Restart, vars
<1>1. CASE PlanBlocks
  BY <1>1 DEF PlanBlocks, Active
<1>2. ASSUME active' \subseteq active, NEW i \in Invoices, RecordPayment(i) PROVE SnapshotStaysOpen'
  BY <1>2, Recorded DEF Typed
<1>3. ASSUME active' \subseteq active, NEW i \in Invoices, CreateInvoice(i) PROVE SnapshotStaysOpen'
  BY <1>3 DEF CreateInvoice, Typed
<1>4. CASE ExpireOld
  BY <1>4 DEF ExpireOld, Round
<1>5. CASE Unpaid /\ active' \subseteq active
  BY <1>5 DEF Unpaid
<1> QED
  BY <1>0, <1>1, <1>2, <1>3, <1>4, <1>5, Payments

\* No invoice expires under a round that read it as open, so that a payment is
\* never refused for it (SnapshotStaysOpen).
THEOREM SnapshotsStayOpen == Spec => []SnapshotStaysOpen
<1>1. Init => SnapshotStaysOpen
  BY DEF Init, SnapshotStaysOpen
<1> QED
  BY <1>1, SoundInvariant, NextSnapshot, PTL DEF Spec

-----------------------------------------------------------------------------
(* Paid heights. *)

LEMMA NextPaidHeight ==
  Typed /\ Round /\ PaidHeightIsRecord /\ [Next]_vars => PaidHeightIsRecord'
<1> SUFFICES ASSUME Typed, Round, PaidHeightIsRecord, [Next]_vars, NEW j \in Invoices
             PROVE  IF status'[j] = "paid"
                    THEN /\ paidTx'[j] \in Txs /\ records'[j][paidTx'[j]] > 0
                         /\ paidHeight'[j] = records'[j][paidTx'[j]]
                    ELSE paidTx'[j] = None /\ paidHeight'[j] = 0
  BY DEF PaidHeightIsRecord, Credited
<1>0. IF status[j] = "paid"
      THEN paidTx[j] \in Txs /\ records[j][paidTx[j]] > 0 /\ paidHeight[j] = records[j][paidTx[j]]
      ELSE paidTx[j] = None /\ paidHeight[j] = 0
  BY DEF PaidHeightIsRecord, Credited
<1>1. ASSUME NEW i \in Invoices, RecordPayment(i), j = i
      PROVE  IF status'[j] = "paid"
             THEN /\ paidTx'[j] \in Txs /\ records'[j][paidTx'[j]] > 0
                  /\ paidHeight'[j] = records'[j][paidTx'[j]]
             ELSE paidTx'[j] = None /\ paidHeight'[j] = 0
  <2>1. /\ current \in Txs /\ height \in Nat \ {0}
        /\ status'[j] = (IF PaidBy(j, current) THEN "paid" ELSE "partial")
        /\ paidTx'[j] = (IF status[j] # "paid" /\ PaidBy(j, current) THEN current ELSE paidTx[j])
        /\ paidHeight'[j] = NewPaidHeight(j, current)
        /\ records'[j][current] = height
        /\ \A t \in Txs \ {current} : records'[j][t] = records[j][t]
    <3>1. /\ current \in Txs /\ height \in Nat \ {0}
          /\ status' = [status EXCEPT ![i] = IF PaidBy(i, current) THEN "paid" ELSE "partial"]
          /\ records'[i] = [records[i] EXCEPT ![current] = height]
          /\ paidTx' = [paidTx EXCEPT ![i] = IF status[i] # "paid" /\ PaidBy(i, current)
                                            THEN current ELSE @]
          /\ paidHeight' = [paidHeight EXCEPT ![i] = NewPaidHeight(i, current)]
      BY <1>1, Recorded
    <3>2. records[i] \in [Txs -> Nat]
      BY DEF Typed
    <3> QED
      BY <1>1, <3>1, <3>2 DEF Typed
  <2>2. status[j] = "paid" => PaidBy(j, current)
    BY DEF PaidBy
  <2> QED
    BY <1>0, <2>1, <2>2 DEF NewPaidHeight
<1>2. ASSUME NEW i \in Invoices, RecordPayment(i), j # i
      PROVE  /\ status'[j] = status[j] /\ paidTx'[j] = paidTx[j]
             /\ paidHeight'[j] = paidHeight[j] /\ records'[j] = records[j]
  <2>1. /\ \A k \in Invoices \ {i} : records'[k] = records[k]
        /\ status' = [status EXCEPT ![i] = IF PaidBy(i, current) THEN "paid" ELSE "partial"]
        /\ paidTx' = [paidTx EXCEPT ![i] = IF status[i] # "paid" /\ PaidBy(i, current)
                                          THEN current ELSE @]
        /\ paidHeight' = [paidHeight EXCEPT ![i] = NewPaidHeight(i, current)]
    BY <1>2, Recorded
  <2> QED
    BY <1>2, <2>1 DEF Typed
<1>3. ASSUME (\E i \in Invoices : CreateInvoice(i)) \/ ExpireOld
      PROVE  /\ status'[j] = "paid" <=> status[j] = "paid"
             /\ UNCHANGED <<paidTx, paidHeight, records>>
  BY <1>3 DEF CreateInvoice, ExpireOld, Expirable, Typed
<1> QED
  BY <1>0, <1>1, <1>2, <1>3, Payments DEF Unpaid

\* A paid invoice shows the height of its paying transaction, also after a
\* reorganisation moved that transaction (PaidHeightIsRecord).
THEOREM PaidHeightsAreRecords == Spec => []PaidHeightIsRecord
<1>1. Init => PaidHeightIsRecord
  BY DEF Init, PaidHeightIsRecord
<1> QED
  BY <1>1, SoundInvariant, NextPaidHeight, PTL DEF Spec
-----------------------------------------------------------------------------
(* Lifecycle leaves. *)

\* Bindings and assignments are made once.
LEMMA BindingsKept ==
  ASSUME Typed, Round, [Next]_vars
  PROVE  /\ \A w \in Wallets : assigned[w] # None => assigned'[w] = assigned[w]
         /\ \A leaf \in LeafIds : bound[leaf] # None => bound'[leaf] = bound[leaf]
<1> USE ScannerAssumption DEF ScannerAssumption, dbVars
<1>1. ASSUME NEW w \in Wallets, NEW s \in Serials, AssignMiner(w, s)
      PROVE  /\ \A x \in Wallets : assigned[x] # None => assigned'[x] = assigned[x]
             /\ bound' = bound
  BY <1>1 DEF AssignMiner, Typed
<1>2. ASSUME NEW leaf \in LeafIds, NEW w \in Wallets, InsertEvent(leaf, w)
      PROVE  /\ assigned' = assigned
             /\ \A x \in LeafIds : bound[x] # None => bound'[x] = bound[x]
  BY <1>2 DEF InsertEvent, Typed
<1>3. ASSUME NEW i \in Invoices, RecordPayment(i)
      PROVE  /\ assigned' = assigned
             /\ \A x \in LeafIds : bound[x] # None => bound'[x] = bound[x]
  <2>1. /\ assigned' = assigned
        /\ bound' = (IF PaidBy(i, current) /\ Owner[i] # None
                     THEN [bound EXCEPT ![LeafOf(i)] = Owner[i]] ELSE bound)
        /\ PaidBy(i, current) => Materializable(i)
    BY <1>3 DEF RecordPayment, CreditPayment, Creditable
  <2> QED
    BY <2>1 DEF Materializable, Typed
<1>4. \/ UNCHANGED <<assigned, bound>>
      \/ \E w \in Wallets, s \in Serials : AssignMiner(w, s)
      \/ \E leaf \in LeafIds, w \in Wallets : InsertEvent(leaf, w)
      \/ \E i \in Invoices : RecordPayment(i)
  BY DEF Next, ScanStep, ApiStep, WorldStep, AskTip, FetchBlock, NothingNew, SkipBlocks,
         PlanBlocks, FetchTx, SkipTx, RecordFails, SealBlock, ExpireOld, CreateInvoice,
         DeadlinePasses, Mine, Reorg, Restart, vars
<1> QED
  BY <1>1, <1>2, <1>3, <1>4

LEMMA NextLeaf == Typed /\ Round /\ PaidHasLeaf /\ [Next]_vars => PaidHasLeaf'
<1> SUFFICES ASSUME Typed, Round, PaidHasLeaf, [Next]_vars, NEW j \in Invoices,
                    status'[j] = "paid", Owner[j] # None
             PROVE  LeafOf(j)' # None /\ bound'[LeafOf(j)'] = Owner[j]
  BY DEF PaidHasLeaf
<1> USE ScannerAssumption DEF ScannerAssumption
<1>0. Owner[j] \in Wallets
  OBVIOUS
<1>1. ASSUME LeafOf(j) # None, bound[LeafOf(j)] = Owner[j]
      PROVE  LeafOf(j)' # None /\ bound'[LeafOf(j)'] = Owner[j]
  <2>1. LeafOf(j) \in LeafIds
    BY <1>0, <1>1 DEF LeafOf, LeafIds, Typed
  <2>2. LeafOf(j)' = LeafOf(j)
    BY <1>0, <1>1, BindingsKept DEF LeafOf
  <2>3. bound[LeafOf(j)] # None
    BY <1>0, <1>1
  <2>4. bound'[LeafOf(j)] = bound[LeafOf(j)]
    BY <2>1, <2>3, BindingsKept
  <2> QED
    BY <1>1, <2>2, <2>4
<1>2. CASE status[j] = "paid"
  BY <1>1, <1>2 DEF PaidHasLeaf
<1>3. ASSUME NEW i \in Invoices, RecordPayment(i), status[j] # "paid"
      PROVE  LeafOf(j)' # None /\ bound'[LeafOf(j)'] = Owner[j]
  <2>1. j = i /\ PaidBy(j, current)
    <3>1. status' = [status EXCEPT ![i] = IF PaidBy(i, current) THEN "paid" ELSE "partial"]
      BY <1>3, Recorded
    <3> QED
      BY <1>3, <3>1 DEF Typed
  <2>2. /\ assigned' = assigned
        /\ bound' = [bound EXCEPT ![LeafOf(j)] = Owner[j]]
        /\ LeafOf(j) # None
    BY <1>3, <2>1 DEF RecordPayment, CreditPayment, Creditable, Materializable
  <2>3. LeafOf(j) \in LeafIds
    BY <1>0, <2>2 DEF LeafOf, LeafIds, Typed
  <2>4. LeafOf(j)' = LeafOf(j)
    BY <2>2 DEF LeafOf
  <2> QED
    BY <2>2, <2>3, <2>4 DEF Typed
<1>4. ASSUME (\E i \in Invoices : CreateInvoice(i)) \/ ExpireOld \/ Unpaid
      PROVE  status[j] = "paid"
  BY <1>4 DEF CreateInvoice, ExpireOld, Unpaid, Typed
<1> QED
  BY <1>2, <1>3, <1>4, Payments

\* A paid invoice of a wallet has its lifecycle leaf, bound to that wallet,
\* whoever else inserts leaves and assigns miners (PaidHasLeaf).
THEOREM PaidInvoicesHaveLeaves == Spec => []PaidHasLeaf
<1>1. Init => PaidHasLeaf
  BY DEF Init, PaidHasLeaf
<1> QED
  BY <1>1, SoundInvariant, NextLeaf, PTL DEF Spec

-----------------------------------------------------------------------------
(* Missed payments. *)

Settled(t, i) ==
  \/ records[i][t] = minedAt[t]
  \/ t \in skipped
  \/ status[i] \in {"paid", "expired"}

\* What a transaction in a block pays for exists.
Known == \A t \in Txs : \A i \in DOMAIN Outputs[t] : minedAt[t] > 0 => status[i] # "none"

\* Blocks up to the last scanned one are settled.
DoneBlocks ==
  \A t \in Txs : \A i \in DOMAIN Outputs[t] :
    minedAt[t] \in 1..lastScanned => Settled(t, i)

\* The blocks of a round pay no open invoice that its snapshot lacks.
SnapshotComplete ==
  pc \in {"block", "txs"} =>
    \A t \in Txs : \A i \in DOMAIN Outputs[t] :
      minedAt[t] \in 1..end => i \in active \/ status[i] \in {"paid", "expired"}

\* Of the block at hand every payment is settled, matched or still to fetch.
BlockAtHand ==
  /\ pc = "txs" =>
       \A t \in Txs : \A i \in DOMAIN Outputs[t] :
         minedAt[t] = height => t \in todo \/ Settled(t, i) \/ (t = current /\ i \in matched)
  /\ \A t \in todo : minedAt[t] = height
  /\ matched # {} => minedAt[current] = height

\* So it is on a chain that does not reorganise.
Scanned == reorgs = 0 => DoneBlocks /\ SnapshotComplete /\ BlockAtHand

LEMMA NextKnown == Typed /\ Round /\ Known /\ [Next]_vars => Known'
<1> SUFFICES ASSUME Typed, Round, Known, [Next]_vars, NEW t \in Txs, NEW i \in DOMAIN Outputs[t],
                    minedAt'[t] > 0
             PROVE  status'[i] # "none"
  BY DEF Known
<1> USE ScannerAssumption DEF ScannerAssumption
<1>0. i \in Invoices
  OBVIOUS
<1>1. ASSUME status[i] # "none" PROVE status'[i] # "none"
  <2>1. ASSUME NEW k \in Invoices, RecordPayment(k) PROVE status'[i] # "none"
    <3>1. status' = [status EXCEPT ![k] = IF PaidBy(k, current) THEN "paid" ELSE "partial"]
      BY <2>1, Recorded
    <3> QED
      BY <1>0, <1>1, <3>1 DEF Typed
  <2>2. ASSUME (\E k \in Invoices : CreateInvoice(k)) \/ ExpireOld \/ Unpaid
        PROVE  status'[i] # "none"
    BY <1>0, <1>1, <2>2 DEF CreateInvoice, ExpireOld, Unpaid, Typed
  <2> QED
    BY <2>1, <2>2, Payments
<1>2. ASSUME NEW txs, Mine(txs) PROVE status[i] # "none"
  BY <1>2 DEF Mine, Payable, Known
<1>3. ASSUME NEW h, NEW where, Reorg(h, where) PROVE status[i] # "none"
  BY <1>3 DEF Reorg, Payable, Known
<1>4. ASSUME minedAt' = minedAt PROVE status[i] # "none"
  BY <1>4 DEF Known
<1>5. minedAt' = minedAt \/ (\E txs : Mine(txs)) \/ (\E h, where : Reorg(h, where))
  BY DEF Next, ScanStep, ApiStep, WorldStep, AskTip, FetchBlock, NothingNew, SkipBlocks,
         PlanBlocks, FetchTx, SkipTx, RecordPayment, RecordFails, SealBlock, ExpireOld,
         CreateInvoice, AssignMiner, InsertEvent, DeadlinePasses, Restart, vars, nodeVars
<1> QED
  BY <1>1, <1>2, <1>3, <1>4, <1>5

\* A payment that is settled stays so while its block stays.
LEMMA SettledKept ==
  ASSUME Typed, Round, Scanned, [Next]_vars, reorgs = 0,
         NEW t \in Txs, NEW i \in DOMAIN Outputs[t],
         Settled(t, i), minedAt'[t] = minedAt[t]
  PROVE  Settled(t, i)'
<1> USE ScannerAssumption DEF ScannerAssumption
<1>0. i \in Invoices
  OBVIOUS
<1>1. skipped \subseteq skipped'
  BY DEF Next, ScanStep, ApiStep, WorldStep, AskTip, FetchBlock, NothingNew, SkipBlocks,
         PlanBlocks, FetchTx, SkipTx, RecordPayment, RecordFails, SealBlock, ExpireOld,
         CreateInvoice, AssignMiner, InsertEvent, DeadlinePasses, Mine, Reorg, Restart, vars,
         scanVars
<1>2. ASSUME NEW k \in Invoices, RecordPayment(k) PROVE Settled(t, i)'
  <2>1. /\ k \in matched /\ current \in Txs /\ status[k] \in {"pending", "partial", "paid"}
        /\ status' = [status EXCEPT ![k] = IF PaidBy(k, current) THEN "paid" ELSE "partial"]
        /\ records'[k] = [records[k] EXCEPT ![current] = height]
        /\ \A j \in Invoices \ {k} : records'[j] = records[j]
    BY <1>2, Recorded
  <2>2. minedAt[current] = height
    BY <2>1 DEF Scanned, BlockAtHand
  <2>3. records[i][t] = minedAt[t] => records'[i][t] = minedAt[t]
    BY <1>0, <2>1, <2>2 DEF Typed
  <2>4. status[i] = "paid" => status'[i] = "paid"
    BY <1>0, <2>1 DEF Typed, PaidBy
  <2>5. status[i] = "expired" => status'[i] = "expired"
    BY <1>0, <2>1 DEF Typed
  <2> QED
    BY <1>1, <2>3, <2>4, <2>5 DEF Settled
<1>3. ASSUME (\E k \in Invoices : CreateInvoice(k)) \/ ExpireOld \/ Unpaid
      PROVE  Settled(t, i)'
  <2>1. records' = records
    BY <1>3 DEF CreateInvoice, ExpireOld, Unpaid
  <2>2. status[i] \in {"paid", "expired"} => status'[i] \in {"paid", "expired"}
    BY <1>0, <1>3 DEF CreateInvoice, ExpireOld, Expirable, Unpaid, Typed
  <2> QED
    BY <1>1, <2>1, <2>2 DEF Settled
<1> QED
  BY <1>2, <1>3, Payments

\* Without a reorganisation only a new block's transactions move.
LEMMA MinedKept ==
  ASSUME Typed, Round, [Next]_vars, reorgs' = 0
  PROVE  /\ reorgs = 0
         /\ \A t \in Txs : minedAt'[t] # minedAt[t] => minedAt[t] = 0 /\ minedAt'[t] > tip
<1>1. ASSUME NEW txs, Mine(txs)
      PROVE reorgs = 0 /\ \A t \in Txs : minedAt'[t] # minedAt[t] => minedAt[t] = 0 /\ minedAt'[t] > tip
  BY <1>1 DEF Mine, Typed
<1>2. ASSUME NEW h, NEW where, Reorg(h, where) PROVE FALSE
  BY <1>2 DEF Reorg, Typed
<1>3. ASSUME minedAt' = minedAt, reorgs' = reorgs
      PROVE reorgs = 0 /\ \A t \in Txs : minedAt'[t] # minedAt[t] => minedAt[t] = 0 /\ minedAt'[t] > tip
  BY <1>3
<1>4. \/ minedAt' = minedAt /\ reorgs' = reorgs
      \/ \E txs : Mine(txs)
      \/ \E h, where : Reorg(h, where)
  BY DEF Next, ScanStep, ApiStep, WorldStep, AskTip, FetchBlock, NothingNew, SkipBlocks,
         PlanBlocks, FetchTx, SkipTx, RecordPayment, RecordFails, SealBlock, ExpireOld,
         CreateInvoice, AssignMiner, InsertEvent, DeadlinePasses, Restart, vars, nodeVars
<1> QED
  BY <1>1, <1>2, <1>3, <1>4

LEMMA NextDone ==
  ASSUME Typed, Round, Known, Scanned, [Next]_vars, reorgs' = 0
  PROVE  DoneBlocks'
<1> SUFFICES ASSUME NEW t \in Txs, NEW i \in DOMAIN Outputs[t], minedAt'[t] \in 1..lastScanned'
             PROVE  Settled(t, i)'
  BY DEF DoneBlocks
<1> USE ScannerAssumption DEF ScannerAssumption
<1>0. reorgs = 0 /\ DoneBlocks /\ BlockAtHand /\ i \in Invoices
  BY MinedKept DEF Scanned
<1>1. CASE lastScanned' = lastScanned
  <2>1. minedAt'[t] = minedAt[t]
    BY <1>1, MinedKept DEF Round, Typed
  <2> QED
    BY <1>0, <1>1, <2>1, SettledKept DEF DoneBlocks
<1>2. CASE SkipBlocks
  <2>1. lastScanned' <= tip
    BY <1>2, NextRound DEF Round, SkipBlocks, nodeVars
  <2>2. minedAt'[t] = minedAt[t] /\ minedAt[t] > 0
    BY <2>1, MinedKept, NextRound DEF Round, Typed
  <2>3. status[i] \in {"paid", "expired"}
    <3>1. status[i] \notin {"pending", "partial"}
      BY <1>0, <1>2 DEF SkipBlocks, Active
    <3>2. status[i] # "none"
      BY <2>2 DEF Known
    <3> QED
      BY <1>0, <3>1, <3>2 DEF Typed
  <2> QED
    BY <1>0, <2>2, <2>3, SettledKept DEF Settled
<1>3. CASE SealBlock
  <2>1. /\ lastScanned' = height /\ height = lastScanned + 1 /\ height <= tip
        /\ pc = "txs" /\ todo = {} /\ matched = {}
    BY <1>3 DEF SealBlock, Round
  <2>2. minedAt'[t] = minedAt[t] /\ minedAt[t] \in 1..height
    BY <2>1, MinedKept DEF Round, Typed
  <2>3. Settled(t, i)
    <3>1. CASE minedAt[t] = height
      BY <1>0, <2>1, <3>1 DEF BlockAtHand
    <3>2. CASE minedAt[t] \in 1..lastScanned
      BY <1>0, <3>2 DEF DoneBlocks
    <3> QED
      BY <2>1, <2>2, <3>1, <3>2 DEF Round, Typed
  <2> QED
    BY <1>0, <2>2, <2>3, SettledKept
<1>4. lastScanned' = lastScanned \/ SkipBlocks \/ SealBlock
  BY DEF Next, ScanStep, ApiStep, WorldStep, AskTip, FetchBlock, NothingNew, PlanBlocks,
         FetchTx, SkipTx, RecordPayment, CreditPayment, RecordFails, ExpireOld, CreateInvoice,
         AssignMiner, InsertEvent, DeadlinePasses, Mine, Reorg, Restart, vars, dbVars
<1> QED
  BY <1>1, <1>2, <1>3, <1>4

\* Paid and expired invoices stay what they are.
LEMMA ClosedKept ==
  ASSUME Typed, Round, [Next]_vars, NEW i \in Invoices, status[i] \in {"paid", "expired"}
  PROVE  status'[i] \in {"paid", "expired"}
<1>1. ASSUME NEW k \in Invoices, RecordPayment(k) PROVE status'[i] \in {"paid", "expired"}
  <2>1. /\ status[k] \in {"pending", "partial", "paid"}
        /\ status' = [status EXCEPT ![k] = IF PaidBy(k, current) THEN "paid" ELSE "partial"]
    BY <1>1, Recorded
  <2> QED
    BY <2>1 DEF Typed, PaidBy
<1>2. ASSUME (\E k \in Invoices : CreateInvoice(k)) \/ ExpireOld \/ Unpaid
      PROVE  status'[i] \in {"paid", "expired"}
  BY <1>2 DEF CreateInvoice, ExpireOld, Expirable, Unpaid, Typed
<1> QED
  BY <1>1, <1>2, Payments

LEMMA NextComplete ==
  ASSUME Typed, Round, Known, Scanned, [Next]_vars, reorgs' = 0
  PROVE  SnapshotComplete'
<1> SUFFICES ASSUME pc' \in {"block", "txs"}, NEW t \in Txs, NEW i \in DOMAIN Outputs[t],
                    minedAt'[t] \in 1..end'
             PROVE  i \in active' \/ status'[i] \in {"paid", "expired"}
  BY DEF SnapshotComplete
<1> USE ScannerAssumption DEF ScannerAssumption
<1>0. reorgs = 0 /\ SnapshotComplete /\ i \in Invoices
  BY MinedKept DEF Scanned
<1>1. CASE PlanBlocks
  <2>1. end' <= tip /\ active' = Active /\ status' = status
    BY <1>1, NextRound DEF Round, PlanBlocks, nodeVars, dbVars
  <2>2. minedAt'[t] = minedAt[t] /\ minedAt[t] > 0
    BY <2>1, MinedKept, NextRound DEF Round, Typed
  <2>3. status[i] \in {"pending", "partial", "paid", "expired"}
    BY <1>0, <2>2 DEF Known, Typed
  <2> QED
    BY <1>0, <2>1, <2>3 DEF Active
<1>2. CASE pc \in {"block", "txs"} /\ end' = end /\ active' = active
  <2>1. minedAt'[t] = minedAt[t] /\ minedAt[t] \in 1..end
    BY <1>2, MinedKept DEF Round, Typed
  <2> QED
    BY <1>0, <1>2, <2>1, ClosedKept DEF SnapshotComplete
<1>3. \/ PlanBlocks
      \/ pc \in {"block", "txs"} /\ end' = end /\ active' = active
  BY DEF Next, ScanStep, ApiStep, WorldStep, AskTip, FetchBlock, NothingNew, SkipBlocks,
         FetchTx, SkipTx, RecordPayment, RecordFails, SealBlock, ExpireOld, CreateInvoice,
         AssignMiner, InsertEvent, DeadlinePasses, Mine, Reorg, Restart, vars, scanVars,
         roundVars, EndRound, Goto
<1> QED
  BY <1>1, <1>2, <1>3

LEMMA NextAtHand ==
  ASSUME Typed, Round, Scanned, [Next]_vars, reorgs' = 0
  PROVE  BlockAtHand'
<1> USE ScannerAssumption DEF ScannerAssumption
<1>0. /\ reorgs = 0 /\ SnapshotComplete /\ BlockAtHand
      /\ \A t \in Txs : minedAt'[t] # minedAt[t] => minedAt[t] = 0 /\ minedAt'[t] > tip
  BY MinedKept DEF Scanned
<1>1. \A t \in Txs : \A i \in DOMAIN Outputs[t] :
        minedAt'[t] = minedAt[t] /\ Settled(t, i) => Settled(t, i)'
  BY <1>0, SettledKept
<1>2. ASSUME pc' # "txs", todo' = {}, matched' = {} PROVE BlockAtHand'
  BY <1>2 DEF BlockAtHand
<1>3. CASE UNCHANGED <<pc, height, todo, current, matched>>
  <2>1. pc # "txs" => todo = {} /\ matched = {}
    BY DEF Round
  <2>2. height <= tip /\ height \in Nat /\ tip \in Nat
    BY DEF Round, Typed
  <2>3. \A t \in Txs : minedAt'[t] = height => minedAt[t] = height
    BY <1>0, <2>2 DEF Typed
  <2>4. pc = "txs" => \A t \in Txs : minedAt[t] = height => minedAt'[t] = height
    <3>1. pc = "txs" => height # 0
      BY DEF Round, Typed
    <3> QED
      BY <1>0, <3>1
  <2>5. \A t \in todo' : minedAt'[t] = height'
    BY <1>0, <1>3, <2>1, <2>4 DEF BlockAtHand, Typed
  <2>6. matched' # {} => minedAt'[current'] = height'
    BY <1>0, <1>3, <2>1, <2>4 DEF BlockAtHand, Round
  <2>7. ASSUME pc' = "txs", NEW t \in Txs, NEW i \in DOMAIN Outputs[t], minedAt'[t] = height'
        PROVE  t \in todo' \/ Settled(t, i)' \/ (t = current' /\ i \in matched')
    <3>1. pc = "txs" /\ minedAt[t] = height /\ minedAt'[t] = minedAt[t]
      BY <1>3, <2>3, <2>7
    <3>2. t \in todo \/ Settled(t, i) \/ (t = current /\ i \in matched)
      BY <1>0, <3>1 DEF BlockAtHand
    <3> QED
      BY <1>1, <1>3, <3>1, <3>2
  <2> QED
    BY <2>5, <2>6, <2>7 DEF BlockAtHand
<1>4. CASE FetchBlock(TRUE)
  <2>1. /\ pc = "block" /\ todo' = {t \in Txs : minedAt[t] = height} /\ matched' = {}
        /\ height' = height /\ minedAt' = minedAt
    BY <1>4 DEF FetchBlock, Round, nodeVars
  <2> QED
    BY <2>1 DEF BlockAtHand
<1>5. ASSUME NEW t \in Txs, FetchTx(t) PROVE BlockAtHand'
  <2>1. /\ pc = "txs" /\ matched = {} /\ t \in todo /\ todo' = todo \ {t} /\ current' = t
        /\ matched' = active \cap DOMAIN Outputs[t]
        /\ height' = height /\ minedAt' = minedAt /\ pc' = pc /\ status' = status
    BY <1>5 DEF FetchTx, nodeVars, dbVars
  <2>2. minedAt[t] = height /\ height \in 1..end
    BY <1>0, <2>1 DEF BlockAtHand, Round, Typed
  <2>3. \A i \in DOMAIN Outputs[t] : i \in matched' \/ Settled(t, i)'
    BY <1>0, <2>1, <2>2 DEF SnapshotComplete, Settled
  <2> QED
    BY <1>0, <1>1, <2>1, <2>2, <2>3 DEF BlockAtHand
<1>6. ASSUME NEW t \in Txs, SkipTx(t) PROVE BlockAtHand'
  <2>1. /\ pc = "txs" /\ matched = {} /\ matched' = {} /\ t \in todo /\ todo' = todo \ {t}
        /\ height' = height /\ minedAt' = minedAt /\ t \in skipped'
    BY <1>6 DEF SkipTx, nodeVars
  <2>2. \A i \in DOMAIN Outputs[t] : Settled(t, i)'
    BY <2>1 DEF Settled
  <2> QED
    BY <1>0, <1>1, <2>1, <2>2 DEF BlockAtHand
<1>7. ASSUME NEW i \in Invoices, RecordPayment(i) PROVE BlockAtHand'
  <2>1. /\ pc = "txs" /\ i \in matched /\ matched' = matched \ {i}
        /\ UNCHANGED <<pc, height, todo, current, minedAt>>
    BY <1>7 DEF RecordPayment, nodeVars
  <2>2. current \in Txs /\ i \in DOMAIN Outputs[current] /\ minedAt[current] = height
    BY <1>0, <2>1 DEF Round, BlockAtHand
  <2>3. records'[i][current] = height
    <3>1. records'[i] = [records[i] EXCEPT ![current] = height]
      BY <1>7, Recorded
    <3>2. records[i] \in [Txs -> Nat]
      BY DEF Typed
    <3> QED
      BY <2>2, <3>1, <3>2
  <2>4. Settled(current, i)'
    BY <2>1, <2>2, <2>3 DEF Settled
  <2> QED
    BY <1>0, <1>1, <2>1, <2>2, <2>4 DEF BlockAtHand
<1>8. \/ pc' # "txs" /\ todo' = {} /\ matched' = {}
      \/ UNCHANGED <<pc, height, todo, current, matched>>
      \/ FetchBlock(TRUE)
      \/ \E t \in Txs : FetchTx(t) \/ SkipTx(t)
      \/ \E i \in Invoices : RecordPayment(i)
  BY DEF Next, ScanStep, ApiStep, WorldStep, AskTip, FetchBlock, NothingNew, SkipBlocks,
         PlanBlocks, RecordFails, SealBlock, ExpireOld, CreateInvoice, AssignMiner, InsertEvent,
         DeadlinePasses, Mine, Reorg, Restart, vars, scanVars, roundVars, EndRound, Goto, Round
<1> QED
  BY <1>2, <1>3, <1>4, <1>5, <1>6, <1>7, <1>8

\* On a chain that does not reorganise, every payment in a scanned block is
\* recorded, unless the node did not deliver it or its invoice is closed; also
\* when blocks are skipped, rounds end early and the process restarts
\* (NoMissedPayment).
THEOREM NoPaymentIsMissed == Spec => []NoMissedPayment
<1>1. Init => Known /\ Scanned
  BY DEF Init, Known, Scanned, DoneBlocks, SnapshotComplete, BlockAtHand
<1>2. Typed /\ Round /\ Known /\ Scanned /\ [Next]_vars => Known' /\ Scanned'
  BY NextKnown, NextDone, NextComplete, NextAtHand DEF Scanned
<1>3. Scanned => NoMissedPayment
  BY DEF Scanned, DoneBlocks, Settled, NoMissedPayment
<1> QED
  BY <1>1, <1>2, <1>3, SoundInvariant, PTL DEF Spec

-----------------------------------------------------------------------------
(* Sums of payments. *)

\* The fold of a total is a sum of the values that transactions pay.
LEMMA TotalIsSum ==
  ASSUME NEW i, NEW T \in SUBSET Txs, IsFiniteSet(T)
  PROVE  \E f : Sums(f, [t \in Txs |-> Outputs[t][i]], T) /\ Total(i, T) = f[T]
<1> DEFINE val == [t \in Txs |-> Outputs[t][i]]
           next(f, s) == IF s = {} THEN 0 ELSE val[First(s)] + f[s \ {First(s)}]
           step(f, s) == IF s = {} THEN 0
                         ELSE Outputs[CHOOSE x \in s : TRUE][i] + f[s \ {CHOOSE x \in s : TRUE}]
           f == CHOOSE f : f = [s \in SUBSET T |-> step(f, s)]
<1>1. \A g : \A s \in SUBSET T : step(g, s) = next(g, s)
  <2>1. ASSUME NEW g, NEW s \in SUBSET T, s # {} PROVE step(g, s) = next(g, s)
    BY <2>1, FirstOf DEF First
  <2> QED
    BY <2>1
<1>2. \A g : [s \in SUBSET T |-> step(g, s)] = [s \in SUBSET T |-> next(g, s)]
  <2> HIDE DEF step, next
  <2> QED
    BY <1>1
<1>3. \E g : g = [s \in SUBSET T |-> step(g, s)]
  <2>1. \E g : g = [s \in SUBSET T |-> next(g, s)]
    <3> HIDE DEF val
    <3>1. PICK g : IsSum(g, val, T)
      BY SumsExist
    <3>2. g = [s \in SUBSET T |-> next(g, s)]
      BY <3>1 DEF IsSum
    <3> HIDE DEF next
    <3> QED
      BY <3>2
  <2> HIDE DEF step, next
  <2> QED
    BY <1>2, <2>1
<1>4. f = [s \in SUBSET T |-> step(f, s)]
  <2> HIDE DEF step
  <2> QED
    BY <1>3
<1>5. Sums(f, val, T)
  <2>1. f = [s \in SUBSET T |-> next(f, s)]
    <3> HIDE DEF step, next, f
    <3> QED
      BY <1>2, <1>4
  <2> HIDE DEF f, val
  <2> QED
    BY <2>1 DEF Sums
<1>6. Total(i, T) = f[T]
  BY DEF Total, MapThenSumSet, MapThenFoldSet
<1> QED
  BY <1>5, <1>6

LEMMA LedgerTotal ==
  ASSUME NEW i, NEW T
  PROVE  Ledger!Total(i, T) = Total(i, T)
  BY Zenon DEF Ledger!Total, Total, Ledger!MapThenSumSet, MapThenSumSet, Ledger!MapThenFoldSet,
         MapThenFoldSet

\* Any transaction adds what it pays.
LEMMA TotalAdds ==
  ASSUME NEW i, NEW T \in SUBSET Txs, IsFiniteSet(T), \A t \in T : Outputs[t][i] \in Nat
  PROVE  /\ Total(i, T) \in Nat
         /\ Total(i, {}) = 0
         /\ \A t \in T : Total(i, T) = Total(i, T \ {t}) + Outputs[t][i]
<1> DEFINE val == [t \in Txs |-> Outputs[t][i]]
<1>1. PICK f : Sums(f, val, T) /\ Total(i, T) = f[T]
  BY TotalIsSum
<1>2. \A t \in T : val[t] \in Nat
  OBVIOUS
<1>3. ASSUME NEW u \in SUBSET T PROVE Total(i, u) = f[u]
  <2>1. u \in SUBSET Txs /\ IsFiniteSet(u)
    BY FS_Subset
  <2>2. PICK g : Sums(g, val, u) /\ Total(i, u) = g[u]
    BY <2>1, TotalIsSum
  <2> HIDE DEF val
  <2>3. f[u] = g[u]
    BY <1>1, <2>2, SumsAgree
  <2> QED
    BY <2>2, <2>3
<1>4. f[T] \in Nat
  <2> HIDE DEF val
  <2> QED
    BY <1>1, <1>2, SumsTyped
<1>5. f[{}] = 0
  BY <1>1 DEF Sums
<1>6. ASSUME NEW t \in T PROVE f[T] = f[T \ {t}] + val[t]
  <2> HIDE DEF val
  <2>1. T \in SUBSET T
    OBVIOUS
  <2> QED
    BY <1>1, <1>2, <2>1, SumsAdd
<1>7. Total(i, {}) = 0
  BY <1>3, <1>5
<1>8. ASSUME NEW t \in T PROVE Total(i, T) = Total(i, T \ {t}) + Outputs[t][i]
  BY <1>3, <1>6
<1> QED
  BY <1>1, <1>4, <1>7, <1>8

\* An invoice has collected finitely many transactions, and value from each.
Counted ==
  /\ received \in [Invoices -> Nat]
  /\ \A i \in Invoices :
       /\ IsFiniteSet(Credited(i))
       /\ \A t \in Credited(i) : i \in DOMAIN Outputs[t] /\ Outputs[t][i] > 0

\* The rows of payments that count, after a commit.
LEMMA Collected ==
  ASSUME Typed, Round, NEW i \in Invoices, RecordPayment(i)
  PROVE  /\ Credited(i)' = Credited(i) \cup {current}
         /\ \A j \in Invoices \ {i} : Credited(j)' = Credited(j)
         /\ received' = [received EXCEPT ![i] = Total(i, Credited(i) \cup {current})]
         /\ Outputs[current][i] \in Nat \ {0}
<1>1. /\ current \in Txs /\ i \in DOMAIN Outputs[current] /\ height \in Nat \ {0}
      /\ records'[i] = [records[i] EXCEPT ![current] = height]
      /\ \A j \in Invoices \ {i} : records'[j] = records[j]
  BY Recorded
<1>2. Credited(i)' = Credited(i) \cup {current}
  <2>1. records[i] \in [Txs -> Nat]
    BY DEF Typed
  <2>2. \A t \in Txs : records'[i][t] = IF t = current THEN height ELSE records[i][t]
    BY <1>1, <2>1
  <2> QED
    BY <1>1, <2>2 DEF Credited
<1>3. \A j \in Invoices \ {i} : Credited(j)' = Credited(j)
  BY <1>1 DEF Credited
<1>4. Outputs[current][i] \in Nat \ {0}
  <2>1. Outputs[current] \in [DOMAIN Outputs[current] -> Nat]
    BY <1>1, ScannerAssumption DEF ScannerAssumption
  <2>2. Outputs[current][i] > 0
    BY DEF RecordPayment, Creditable
  <2> QED
    BY <1>1, <2>1, <2>2
<1>5. received' = [received EXCEPT ![i] = Total(i, Credited(i) \cup {current})]
  BY DEF RecordPayment, CreditPayment, NewReceived
<1> QED
  BY <1>2, <1>3, <1>4, <1>5

LEMMA ReceivedKept ==
  ASSUME [Next]_vars
  PROVE  received' = received \/ \E i \in Invoices : RecordPayment(i)
  BY DEF Next, ScanStep, ApiStep, WorldStep, AskTip, FetchBlock, NothingNew, SkipBlocks,
         PlanBlocks, FetchTx, SkipTx, RecordFails, SealBlock, ExpireOld, CreateInvoice,
         AssignMiner, InsertEvent, DeadlinePasses, Mine, Reorg, Restart, vars, dbVars

LEMMA NextCounted == Typed /\ Round /\ Counted /\ [Next]_vars => Counted'
<1> SUFFICES ASSUME Typed, Round, Counted, [Next]_vars PROVE Counted'
  OBVIOUS
<1> USE ScannerAssumption DEF ScannerAssumption
<1>1. ASSUME NEW k \in Invoices, RecordPayment(k) PROVE Counted'
  <2> DEFINE C == Credited(k) \cup {current}
  <2>1. /\ Credited(k)' = C
        /\ \A j \in Invoices \ {k} : Credited(j)' = Credited(j)
        /\ received' = [received EXCEPT ![k] = Total(k, C)]
        /\ Outputs[current][k] \in Nat \ {0}
        /\ current \in Txs /\ k \in DOMAIN Outputs[current]
    BY <1>1, Collected, Recorded
  <2>2. /\ IsFiniteSet(C) /\ C \in SUBSET Txs
        /\ \A t \in C : k \in DOMAIN Outputs[t] /\ Outputs[t][k] > 0
    <3>1. IsFiniteSet(Credited(k)) /\ Credited(k) \subseteq Txs
      BY DEF Counted, Credited
    <3>2. IsFiniteSet(C)
      BY <3>1, FS_AddElement
    <3>3. \A t \in Credited(k) : k \in DOMAIN Outputs[t] /\ Outputs[t][k] > 0
      BY DEF Counted
    <3> QED
      BY <2>1, <3>1, <3>2, <3>3
  <2>3. \A t \in C : Outputs[t][k] \in Nat
    BY <2>2
  <2>4. Total(k, C) \in Nat
    <3> HIDE DEF C
    <3> QED
      BY <2>2, <2>3, TotalAdds
  <2>5. received' \in [Invoices -> Nat]
    BY <2>1, <2>4 DEF Counted
  <2>6. ASSUME NEW i \in Invoices
        PROVE  /\ IsFiniteSet(Credited(i))'
               /\ \A t \in Credited(i)' : i \in DOMAIN Outputs[t] /\ Outputs[t][i] > 0
    <3>1. CASE i = k
      BY <2>1, <2>2, <3>1
    <3>2. CASE i # k
      <4>1. Credited(i)' = Credited(i)
        BY <2>1, <3>2
      <4>2. /\ IsFiniteSet(Credited(i))
            /\ \A t \in Credited(i) : i \in DOMAIN Outputs[t] /\ Outputs[t][i] > 0
        BY DEF Counted
      <4> QED
        BY <4>1, <4>2
    <3> QED
      BY <3>1, <3>2
  <2> QED
    BY <2>5, <2>6 DEF Counted
<1>2. ASSUME records' = records, received' = received PROVE Counted'
  BY <1>2 DEF Counted, Credited
<1> QED
  BY <1>1, <1>2, Payments, ReceivedKept DEF Unpaid, CreateInvoice, ExpireOld

\* What a transaction that pays adds to an invoice's sum.
LEMMA PaymentAdds ==
  ASSUME Typed, Round, Counted, TotalsAgree, NEW k \in Invoices, RecordPayment(k)
  PROVE  LET N == Total(k, Credited(k) \cup {current})
         IN  /\ N \in Nat \ {0}
             /\ received[k] <= N
             /\ current \in Credited(k) => N = received[k]
<1> DEFINE C == Credited(k) \cup {current}
           out == Outputs[current][k]
<1>1. out \in Nat \ {0} /\ current \in Txs
  BY Collected, Recorded
<1>2. /\ IsFiniteSet(C) /\ C \in SUBSET Txs /\ IsFiniteSet(Credited(k))
      /\ Credited(k) \in SUBSET Txs
  <2>1. IsFiniteSet(Credited(k)) /\ Credited(k) \in SUBSET Txs
    BY DEF Counted, Credited
  <2> QED
    BY <1>1, <2>1, FS_AddElement
<1>3. \A t \in C : Outputs[t][k] \in Nat
  <2>1. \A t \in Credited(k) : t \in Txs /\ k \in DOMAIN Outputs[t]
    BY DEF Counted, Credited
  <2>2. \A t \in Credited(k) : Outputs[t][k] \in Nat
    BY <2>1, ScannerAssumption DEF ScannerAssumption
  <2> QED
    BY <1>1, <2>2
<1>4. received[k] = Total(k, Credited(k))
  BY DEF TotalsAgree
<1>5. Total(k, Credited(k)) \in Nat
  <2>1. \A t \in Credited(k) : Outputs[t][k] \in Nat
    BY <1>3
  <2> QED
    BY <1>2, <2>1, TotalAdds
<1>6. Total(k, C) \in Nat /\ \A t \in C : Total(k, C) = Total(k, C \ {t}) + Outputs[t][k]
  <2> HIDE DEF C
  <2> QED
    BY <1>2, <1>3, TotalAdds
<1>7. Total(k, C) = Total(k, C \ {current}) + out
  BY <1>6
<1>8. Total(k, C \ {current}) \in Nat
  <2>1. C \ {current} \in SUBSET Txs /\ IsFiniteSet(C \ {current})
    BY <1>2, FS_Subset
  <2>2. \A t \in C \ {current} : Outputs[t][k] \in Nat
    BY <1>3
  <2> HIDE DEF C
  <2> QED
    BY <2>1, <2>2, TotalAdds
<1>9. Total(k, C) \in Nat \ {0}
  <2> HIDE DEF C, out
  <2> QED
    BY <1>1, <1>7, <1>8
<1>10. current \in Credited(k) => Total(k, C) = received[k]
  <2>1. current \in Credited(k) => C = Credited(k)
    OBVIOUS
  <2> QED
    BY <1>4, <2>1
<1>11. current \notin Credited(k) => received[k] <= Total(k, C)
  <2>1. current \notin Credited(k) => C \ {current} = Credited(k)
    OBVIOUS
  <2>2. current \notin Credited(k) => Total(k, C) = received[k] + out
    BY <1>4, <1>7, <2>1
  <2>3. received[k] \in Nat
    BY <1>4, <1>5
  <2> HIDE DEF C, out
  <2> QED
    BY <1>1, <2>2, <2>3
<1>12. received[k] <= Total(k, C)
  <2>1. received[k] \in Nat
    BY <1>4, <1>5
  <2> HIDE DEF C
  <2> QED
    BY <1>10, <1>11, <2>1
<1> QED
  BY <1>9, <1>10, <1>12

\* What TotalsAgree says of the status of an invoice over a zatoshis that
\* received r in the transactions of C.
Agrees(s, C, r, a) ==
  /\ s = "paid" <=> C # {} /\ r >= a
  /\ s = "partial" <=> C # {} /\ r < a

LEMMA NextTotals ==
  Typed /\ Round /\ Counted /\ TotalsAgree /\ [Next]_vars => TotalsAgree'
<1> SUFFICES ASSUME Typed, Round, Counted, TotalsAgree, [Next]_vars, NEW i \in Invoices
             PROVE  /\ received'[i] = Total(i, Credited(i)')
                    /\ Agrees(status'[i], Credited(i)', received'[i], Amount[i])
  BY DEF TotalsAgree, Agrees
<1>0. /\ received[i] = Total(i, Credited(i))
      /\ Agrees(status[i], Credited(i), received[i], Amount[i])
      /\ Amount[i] \in Nat /\ received[i] \in Nat
  BY ScannerAssumption DEF TotalsAgree, Agrees, Counted, ScannerAssumption
<1>1. ASSUME NEW k \in Invoices, RecordPayment(k), i = k
      PROVE  /\ received'[i] = Total(i, Credited(i)')
             /\ Agrees(status'[i], Credited(i)', received'[i], Amount[i])
  <2> DEFINE N == Total(i, Credited(i) \cup {current})
  <2>1. /\ received'[i] = N
        /\ N = Total(i, Credited(i)')
        /\ Credited(i)' # {}
        /\ status'[i] = (IF status[i] = "paid" \/ N >= Amount[i] THEN "paid" ELSE "partial")
    <3>1. /\ received' = [received EXCEPT ![i] = N]
          /\ Credited(i)' = Credited(i) \cup {current}
      BY <1>1, Collected
    <3>2. status' = [status EXCEPT ![i] = IF PaidBy(i, current) THEN "paid" ELSE "partial"]
      BY <1>1, Recorded
    <3>3. received'[i] = N /\ status'[i] = IF PaidBy(i, current) THEN "paid" ELSE "partial"
      <4> HIDE DEF N
      <4> QED
        BY <3>1, <3>2 DEF Counted, Typed
    <3> QED
      BY <3>1, <3>3 DEF PaidBy
  <2>2. N \in Nat \ {0} /\ received[i] <= N
    BY <1>1, PaymentAdds
  <2> HIDE DEF N
  <2>3. status[i] = "paid" => N >= Amount[i]
    BY <1>0, <2>2 DEF Agrees
  <2>4. Agrees(status'[i], Credited(i)', received'[i], Amount[i])
    BY <1>0, <2>1, <2>2, <2>3 DEF Agrees
  <2> QED
    BY <2>1, <2>4
<1>2. ASSUME NEW k \in Invoices, RecordPayment(k), i # k
      PROVE  /\ received'[i] = Total(i, Credited(i)')
             /\ Agrees(status'[i], Credited(i)', received'[i], Amount[i])
  <2>1. received'[i] = received[i] /\ Credited(i)' = Credited(i)
    <3>1. /\ received' = [received EXCEPT ![k] = Total(k, Credited(k) \cup {current})]
          /\ \A j \in Invoices \ {k} : Credited(j)' = Credited(j)
      BY <1>2, Collected
    <3> QED
      BY <1>2, <3>1 DEF Counted
  <2>2. status'[i] = status[i]
    <3>1. status' = [status EXCEPT ![k] = IF PaidBy(k, current) THEN "paid" ELSE "partial"]
      BY <1>2, Recorded
    <3> QED
      BY <1>2, <3>1 DEF Typed
  <2> QED
    BY <1>0, <2>1, <2>2
<1>3. ASSUME (\E k \in Invoices : CreateInvoice(k)) \/ ExpireOld \/ (Unpaid /\ received' = received)
      PROVE  /\ received'[i] = Total(i, Credited(i)')
             /\ Agrees(status'[i], Credited(i)', received'[i], Amount[i])
  <2>1. /\ received' = received /\ records' = records
        /\ status'[i] = "paid" <=> status[i] = "paid"
        /\ status'[i] = "partial" <=> status[i] = "partial"
    BY <1>3 DEF CreateInvoice, ExpireOld, Expirable, Unpaid, Typed
  <2>2. Credited(i)' = Credited(i)
    BY <2>1 DEF Credited
  <2> QED
    BY <1>0, <2>1, <2>2 DEF Agrees
<1> QED
  BY <1>1, <1>2, <1>3, Payments, ReceivedKept

LEMMA InitTotals == Init => Counted /\ TotalsAgree
<1> SUFFICES ASSUME Init PROVE Counted /\ TotalsAgree
  OBVIOUS
<1>1. \A i \in Invoices : Credited(i) = {} /\ received[i] = 0 /\ status[i] = "none"
  BY DEF Init, Credited
<1>2. ASSUME NEW i \in Invoices PROVE Total(i, {}) = 0
  <2>1. IsFiniteSet({}) /\ {} \in SUBSET Txs
    BY FS_EmptySet
  <2>2. \A t \in {} : Outputs[t][i] \in Nat
    OBVIOUS
  <2> QED
    BY <2>1, <2>2, TotalAdds
<1>3. Counted
  BY <1>1, FS_EmptySet DEF Counted, Init
<1>4. TotalsAgree
  BY <1>1, <1>2 DEF TotalsAgree
<1> QED
  BY <1>3, <1>4

LEMMA TotalsInvariant == Spec => [](Typed /\ Round /\ Counted /\ TotalsAgree)
<1>1. Typed /\ Round /\ Counted /\ TotalsAgree /\ [Next]_vars => Counted' /\ TotalsAgree'
  BY NextCounted, NextTotals
<1> QED
  BY <1>1, SoundInvariant, InitTotals, PTL DEF Spec

\* However often a block is scanned, wherever its transactions are mined again
\* and whenever the process restarts, an invoice's received amount is the sum
\* of the distinct transactions on record, and its status is what that sum
\* makes of the amount due (TotalsAgree).
THEOREM TotalsAlwaysAgree == Spec => []TotalsAgree
  BY TotalsInvariant, PTL

-----------------------------------------------------------------------------
(* The scanner implements the ledger. *)

\* The ledger's variables, as the refinement maps them.
AllCredited == [i \in Invoices |-> Credited(i)]
AllPaidBy == [i \in Invoices |-> {paidTx[i]} \ {None}]

LEMMA InitLedger == Init => Ledger!Init
  BY DEF Init, Ledger!Init, Credited

LEMMA LedgerOpens ==
  ASSUME NEW i \in Invoices, CreateInvoice(i)
  PROVE  Ledger!Next
<1>1. Ledger!Open(i)
  <2>1. AllCredited' = AllCredited /\ AllPaidBy' = AllPaidBy
    BY DEF CreateInvoice, AllCredited, AllPaidBy, Credited
  <2> QED
    BY <2>1 DEF CreateInvoice, Ledger!Open, AllCredited, AllPaidBy
<1> QED
  BY <1>1 DEF Ledger!Next

LEMMA LedgerExpires ==
  ASSUME Typed, Counted, TotalsAgree, ExpireOld
  PROVE  Ledger!Next
<1> DEFINE late == {i \in Invoices : i \in overdue /\ status[i] = "pending"}
<1>1. ASSUME NEW i \in late PROVE Credited(i) = {}
  <2>1. received[i] \in Nat /\ Amount[i] \in Nat
    BY ScannerAssumption DEF Counted, ScannerAssumption
  <2>2. received[i] >= Amount[i] \/ received[i] < Amount[i]
    BY <2>1
  <2> QED
    BY <2>2 DEF TotalsAgree
<1>2. AllCredited' = AllCredited /\ AllPaidBy' = AllPaidBy
  BY DEF ExpireOld, AllCredited, AllPaidBy, Credited
<1>3. status' = [i \in Invoices |-> IF i \in late THEN "expired" ELSE status[i]]
  BY DEF ExpireOld, Expirable
<1>4. Ledger!Expire(late)
  <2>1. \A i \in late : status[i] = "pending" /\ AllCredited[i] = {}
    BY <1>1 DEF AllCredited
  <2> HIDE DEF late
  <2> QED
    BY <1>2, <1>3, <2>1 DEF Ledger!Expire, AllCredited, AllPaidBy
<1>5. late \in SUBSET Invoices
  OBVIOUS
<1> QED
  BY <1>4, <1>5 DEF Ledger!Next

LEMMA LedgerCredits ==
  ASSUME Typed, Round, Counted, TotalsAgree, NEW k \in Invoices, RecordPayment(k)
  PROVE  Ledger!Next \/ UNCHANGED Ledger!vars
<1> USE ScannerAssumption DEF ScannerAssumption
<1> DEFINE C == Credited(k) \cup {current}
           N == Total(k, C)
<1>1. /\ Credited(k)' = C
      /\ \A j \in Invoices \ {k} : Credited(j)' = Credited(j)
      /\ current \in Txs /\ k \in DOMAIN Outputs[current]
      /\ status[k] \in {"pending", "partial", "paid"}
  BY Collected, Recorded
<1>2. AllCredited' = [AllCredited EXCEPT ![k] = C]
  <2>1. \A j \in Invoices : Credited(j)' = IF j = k THEN C ELSE AllCredited[j]
    BY <1>1 DEF AllCredited
  <2> HIDE DEF C
  <2> QED
    BY <2>1 DEF AllCredited
<1>3. /\ status' = [status EXCEPT ![k] = IF status[k] = "paid" \/ N >= Amount[k] THEN "paid" ELSE "partial"]
      /\ paidTx' = [paidTx EXCEPT ![k] = IF status[k] # "paid" /\ N >= Amount[k]
                                         THEN current ELSE @]
  <2>1. /\ status' = [status EXCEPT ![k] = IF PaidBy(k, current) THEN "paid" ELSE "partial"]
        /\ paidTx' = [paidTx EXCEPT ![k] = IF status[k] # "paid" /\ PaidBy(k, current)
                                           THEN current ELSE @]
    BY Recorded
  <2> QED
    BY <2>1 DEF PaidBy
<1>4. AllPaidBy' = [AllPaidBy EXCEPT ![k] = IF status[k] # "paid" /\ N >= Amount[k]
                                           THEN {current} ELSE @]
  <2>1. {current} \ {None} = {current}
    BY <1>1
  <2>2. \A j \in Invoices : paidTx'[j] = IF j = k /\ status[k] # "paid" /\ N >= Amount[k]
                                         THEN current ELSE paidTx[j]
    <3> HIDE DEF N
    <3> QED
      BY <1>3 DEF Typed
  <2> HIDE DEF N
  <2> QED
    BY <2>1, <2>2 DEF AllPaidBy
<1>5. N \in Nat \ {0} /\ (current \in Credited(k) => N = received[k])
  BY PaymentAdds
<1>6. /\ status[k] = "paid" <=> Credited(k) # {} /\ received[k] >= Amount[k]
      /\ status[k] = "partial" <=> Credited(k) # {} /\ received[k] < Amount[k]
      /\ received[k] \in Nat /\ Amount[k] \in Nat
  BY DEF TotalsAgree, Counted
<1>7. CASE current \in Credited(k)
  <2>1. C = Credited(k)
    BY <1>7
  <2>2. status[k] \in {"partial", "paid"} /\ (status[k] # "paid" => ~(N >= Amount[k]))
    <3> HIDE DEF N
    <3> QED
      BY <1>1, <1>5, <1>6, <1>7
  <2>3. status' = status
    <3> HIDE DEF N
    <3> QED
      BY <1>3, <2>2 DEF Typed
  <2>4. AllPaidBy' = AllPaidBy
    <3> HIDE DEF N
    <3> QED
      BY <1>4, <2>2 DEF AllPaidBy
  <2>5. AllCredited' = AllCredited
    BY <1>2, <2>1 DEF AllCredited
  <2> QED
    BY <2>3, <2>4, <2>5 DEF Ledger!vars, AllCredited, AllPaidBy
<1>8. CASE current \notin Credited(k)
  <2>1. Ledger!Total(k, C) = N
    BY LedgerTotal
  <2>2. AllCredited'[k] = C
    BY <1>2 DEF AllCredited
  <2>3. AllCredited' = [AllCredited EXCEPT ![k] = @ \cup {current}]
    BY <1>2 DEF AllCredited
  <2>4. status[k] = "paid" => status' = status /\ AllPaidBy' = AllPaidBy
    <3> HIDE DEF N
    <3> QED
      BY <1>3, <1>4 DEF Typed, AllPaidBy
  <2>5. status[k] # "paid" /\ N >= Amount[k] =>
          /\ status' = [status EXCEPT ![k] = "paid"]
          /\ AllPaidBy' = [AllPaidBy EXCEPT ![k] = {current}]
    <3> HIDE DEF N
    <3> QED
      BY <1>3, <1>4
  <2>6. status[k] # "paid" /\ N < Amount[k] =>
          /\ status' = [status EXCEPT ![k] = "partial"]
          /\ AllPaidBy' = AllPaidBy
    <3>1. AllPaidBy = [AllPaidBy EXCEPT ![k] = @]
      BY DEF AllPaidBy
    <3> HIDE DEF N
    <3>2. N < Amount[k] => ~(N >= Amount[k])
      BY <1>5, <1>6
    <3> QED
      BY <1>3, <1>4, <3>1, <3>2
  <2>7. N >= Amount[k] \/ N < Amount[k]
    <3> HIDE DEF N
    <3> QED
      BY <1>5, <1>6
  <2>8. current \notin AllCredited[k]
    BY <1>8 DEF AllCredited
  <2>9. ASSUME NEW t \in Txs, t = current PROVE Ledger!Credit(k, t)
    <3>1. Ledger!Total(k, AllCredited'[k]) = N
      BY <2>1, <2>2
    <3> HIDE DEF N, C
    <3> QED
      BY <1>1, <2>3, <2>4, <2>5, <2>6, <2>7, <2>8, <2>9, <3>1 DEF Ledger!Credit, AllCredited, AllPaidBy
  <2>10. PICK t \in Txs : t = current
    BY <1>1
  <2>11. Ledger!Credit(k, t) /\ t \in DOMAIN Outputs /\ k \in DOMAIN Outputs[t]
    BY <1>1, <2>9, <2>10
  <2>12. Ledger!Next
    BY <2>11 DEF Ledger!Next
  <2> QED
    BY <2>12
<1> QED
  BY <1>7, <1>8

LEMMA LedgerStep ==
  Typed /\ Round /\ Counted /\ TotalsAgree /\ [Next]_vars => [Ledger!Next]_(Ledger!vars)
<1> SUFFICES ASSUME Typed, Round, Counted, TotalsAgree, [Next]_vars
             PROVE  Ledger!Next \/ UNCHANGED Ledger!vars
  OBVIOUS
<1>1. CASE Unpaid
  BY <1>1 DEF Unpaid, Ledger!vars, Credited
<1> QED
  BY <1>1, Payments, LedgerOpens, LedgerExpires, LedgerCredits

\* The scanner implements the ledger: every step of the scanner, the API and
\* the world is one step of InvoiceLedger or none; an invoice collects distinct
\* transactions, the one that completes its amount is the one it names, and
\* only an invoice that collected nothing expires (LedgerSpec).
THEOREM ScannerImplementsLedger == Spec => LedgerSpec
<1>1. Init => Ledger!Init
  BY InitLedger
<1>2. Typed /\ Round /\ Counted /\ TotalsAgree /\ [Next]_vars => [Ledger!Next]_(Ledger!vars)
  BY LedgerStep
<1> QED
  BY <1>1, <1>2, TotalsInvariant, PTL DEF Spec, LedgerSpec, Ledger!Spec
===============================================================================
