---------------------------- MODULE InvoiceScanner ---------------------------
(***************************************************************************)
(* The block scanner of scanner.rs and the payment tables of db.rs: rounds *)
(* of scan_once with their awaits and early returns, the transaction that  *)
(* credits a payment and materializes its lifecycle leaf, expiry, the API  *)
(* handlers that create invoices, assign miners and insert leaves, a chain *)
(* that grows and reorganises, and process restarts.                       *)
(*                                                                         *)
(* Three things of the code have no state here.  scan_mempool only logs.   *)
(* list_paid_program_invoices_without_entry is empty by PaidHasLeaf.  The  *)
(* wallet fed with each block is AnchorPipeline's.                         *)
(***************************************************************************)
EXTENDS Integers, FiniteSetsExt

CONSTANTS
  Invoices,      \* ids
  Txs,           \* transactions that pay invoices
  Outputs,       \* tx -> (invoices it has outputs to -> their sum)
  Amount,        \* invoice -> zatoshis due, 0 too: auto_invoice does not check it
  Wallets, Serials, None, \* wallet hashes, miner serial numbers, SQL NULL
  Owner,         \* invoice -> wallet hash, None without one
  Hosting,       \* the invoices of type "hosting", all of one month
  Batch,         \* blocks in a round, 500
  MaxTip,        \* bound: blocks ever mined
  MaxReorgs,     \* bound: reorganisations
  MaxRestarts    \* bound: process restarts

ASSUME ScannerAssumption ==
  /\ \A t \in Txs : /\ DOMAIN Outputs[t] \subseteq Invoices
                     /\ Outputs[t] \in [DOMAIN Outputs[t] -> Nat]
  /\ DOMAIN Outputs = Txs
  /\ Amount \in [Invoices -> Nat]
  /\ Wallets \cap Serials = {} /\ None \notin Wallets \cup Serials \cup Txs
  /\ Owner \in [Invoices -> Wallets \cup {None}]
  /\ Hosting \subseteq {i \in Invoices : Owner[i] # None}
  /\ Batch \in Nat \ {0}
  /\ MaxTip \in Nat /\ MaxReorgs \in Nat /\ MaxRestarts \in Nat

\* The leaves that some invoice may need.
LeafIds == Serials \cup ({Owner[i] : i \in Invoices \ Hosting} \ {None})

Heights == 0..MaxTip  \* 0 is SQL NULL, and the last height never scanned

VARIABLES
  \* zap1.db
  status,       \* invoices.status, "none" without a row
  received,     \* invoices.received_zat
  paidTx, paidHeight, \* invoices.paid_txid, paid_height
  records,      \* payment_records.height, by invoice and transaction
  bound,        \* merkle_leaves: the wallet hash a lifecycle leaf is bound to
  assigned,     \* miner_assignments: the first serial of a wallet
  lastScanned,  \* scan_state.last_scanned_height
  \* the scanner task
  pc,           \* where the scanner is
  seen,         \* chain_height
  active,       \* active_invoices, read once per round
  height, end,  \* the loop over blocks
  todo,         \* transactions of the block still to fetch
  current,      \* the transaction fetched last
  matched,      \* matched_payments still to record
  \* the world
  overdue,      \* invoices whose expires_at is past
  minedAt,      \* height of the block that holds a transaction, or 0
  tip,          \* height of the best block
  skipped,      \* history: transactions that could not be fetched
  reorgs, epoch \* reorganisations and restarts so far

dbVars == <<status, received, paidTx, paidHeight, records, bound, assigned,
            lastScanned>>
roundVars == <<seen, active, height, end, todo, current, matched>>
scanVars == <<pc, roundVars, skipped>>
nodeVars == <<minedAt, tip, reorgs>>
vars == <<dbVars, scanVars, overdue, nodeVars, epoch>>

-----------------------------------------------------------------------------
(* The database. *)

Pays(t, i) == i \in DOMAIN Outputs[t]
Total(i, txs) == MapThenSumSet(LAMBDA t : Outputs[t][i], txs)
Credited(i) == {t \in Txs : records[i][t] > 0}

\* get_active_invoices
Active == {i \in Invoices : status[i] \in {"pending", "partial"}}

\* The lifecycle leaf of an invoice: its hash is that of the miner's serial
\* and month for hosting, else of the wallet.
LeafOf(i) == IF i \in Hosting THEN assigned[Owner[i]] ELSE Owner[i]

\* Mutant: a leaf bound to another wallet is good enough.
MaterializableAny(i) == Owner[i] = None \/ LeafOf(i) # None

\* ensure_invoice_lifecycle_leaf succeeds: no wallet, or a leaf that is new or
\* bound to that wallet already.
Materializable(i) ==
  \/ Owner[i] = None
  \/ LeafOf(i) # None /\ bound[LeafOf(i)] \in {None, Owner[i]}

PaidBy(i, t) ==
  \/ status[i] = "paid"
  \/ Total(i, Credited(i) \cup {t}) >= Amount[i]

\* record_confirmed_payment commits: the value is positive, the invoice has
\* not expired and, if it is paid now, its leaf materializes.
Creditable(i, t) ==
  /\ Outputs[t][i] > 0
  /\ status[i] \in {"pending", "partial", "paid"}
  /\ PaidBy(i, t) => Materializable(i)

\* Mutant: a payment seen again is added again.
NewReceivedAdds(i, t) == received[i] + Outputs[t][i]
NewReceived(i, t) == Total(i, Credited(i) \cup {t})

\* Mutant: the height of a promoted payment is not copied to the invoice.
NewPaidHeightKept(i, t) ==
  IF status[i] # "paid" /\ PaidBy(i, t) THEN height ELSE paidHeight[i]
\* Transitioning to paid sets paid_height, and seeing the paying transaction
\* again corrects it.
NewPaidHeight(i, t) ==
  IF (status[i] = "paid" /\ paidTx[i] = t) \/ (status[i] # "paid" /\ PaidBy(i, t))
  THEN height ELSE paidHeight[i]

\* record_confirmed_payment_transaction and apply_confirmed_total
CreditPayment(i, t) ==
  LET pays == PaidBy(i, t)  becomesPaid == status[i] # "paid" /\ pays IN
  /\ records' = [records EXCEPT ![i][t] = height]
  /\ received' = [received EXCEPT ![i] = NewReceived(i, t)]
  /\ status' = [status EXCEPT ![i] = IF pays THEN "paid" ELSE "partial"]
  /\ paidTx' = [paidTx EXCEPT ![i] = IF becomesPaid THEN t ELSE @]
  /\ paidHeight' = [paidHeight EXCEPT ![i] = NewPaidHeight(i, t)]
  /\ bound' = IF pays /\ Owner[i] # None
              THEN [bound EXCEPT ![LeafOf(i)] = Owner[i]]
              ELSE bound
  /\ UNCHANGED <<assigned, lastScanned>>

-----------------------------------------------------------------------------
(* One round of scan_loop. *)

Goto(label) == pc' = label

\* scan_once returns: the rest of the round is dropped.
EndRound ==
  /\ Goto("expire")
  /\ active' = {} /\ todo' = {} /\ matched' = {}
  /\ UNCHANGED <<seen, height, end, current>>

\* scan_once asks for the height of the chain; an error ends the round.
AskTip(answered) ==
  /\ pc = "idle"
  /\ IF answered
     THEN /\ seen' = tip
          /\ Goto("plan")
          /\ UNCHANGED <<active, height, end, todo, current, matched>>
     ELSE EndRound
  /\ UNCHANGED <<dbVars, skipped, overdue, nodeVars, epoch>>

\* Mutant: the newest block waits for its successor.
UpToDateEarly == lastScanned + 1 >= seen
UpToDate == lastScanned + 1 > seen

NothingNew ==
  /\ pc = "plan"
  /\ UpToDate
  /\ EndRound
  /\ UNCHANGED <<dbVars, skipped, overdue, nodeVars, epoch>>

\* Mutant: a full batch, whatever the height of the chain.
SkipTargetFull == lastScanned + 1 + Batch
SkipTarget == Min({lastScanned + 1 + Batch, seen})

\* No invoice is open: the blocks of a batch are not looked at.
SkipBlocks ==
  /\ pc = "plan"
  /\ ~UpToDate
  /\ Active = {}
  /\ lastScanned' = SkipTarget
  /\ EndRound
  /\ UNCHANGED <<status, received, paidTx, paidHeight, records, bound, assigned,
                 skipped, overdue, nodeVars, epoch>>

\* The open invoices are read and the range of blocks fixed.
PlanBlocks ==
  /\ pc = "plan"
  /\ ~UpToDate
  /\ Active # {}
  /\ active' = Active
  /\ height' = lastScanned + 1
  /\ end' = Min({lastScanned + Batch, seen})
  /\ Goto("block")
  /\ UNCHANGED <<dbVars, seen, todo, current, matched, skipped, overdue,
                 nodeVars, epoch>>

\* get_block_txids; an error ends the round.
FetchBlock(answered) ==
  /\ pc = "block"
  /\ IF answered
     THEN /\ todo' = {t \in Txs : minedAt[t] = height}
          /\ Goto("txs")
          /\ UNCHANGED <<seen, active, height, end, current, matched>>
     ELSE EndRound
  /\ UNCHANGED <<dbVars, skipped, overdue, nodeVars, epoch>>

\* get_raw_transaction, then trial decryption against the invoices read at the
\* start of the round.
FetchTx(t) ==
  /\ pc = "txs"
  /\ matched = {}
  /\ t \in todo
  /\ todo' = todo \ {t}
  /\ current' = t
  /\ matched' = active \cap DOMAIN Outputs[t]
  /\ UNCHANGED <<dbVars, pc, seen, active, height, end, skipped, overdue,
                 nodeVars, epoch>>

\* A transaction that cannot be fetched or parsed is left out.
SkipTx(t) ==
  /\ pc = "txs"
  /\ matched = {}
  /\ t \in todo
  /\ todo' = todo \ {t}
  /\ skipped' = skipped \cup {t}
  /\ UNCHANGED <<dbVars, pc, seen, active, height, end, current, matched,
                 overdue, nodeVars, epoch>>

RecordPayment(i) ==
  /\ pc = "txs"
  /\ i \in matched
  /\ Creditable(i, current)
  /\ CreditPayment(i, current)
  /\ matched' = matched \ {i}
  /\ UNCHANGED <<pc, seen, active, height, end, todo, current, skipped, overdue,
                 nodeVars, epoch>>

\* The database refuses: the round ends and the block is scanned again later.
RecordFails(i) ==
  /\ pc = "txs"
  /\ i \in matched
  /\ ~Creditable(i, current)
  /\ EndRound
  /\ UNCHANGED <<dbVars, skipped, overdue, nodeVars, epoch>>

\* Every transaction of the block is done: set_last_scanned_height.
SealBlock ==
  /\ pc = "txs"
  /\ todo = {} /\ matched = {}
  /\ lastScanned' = height
  /\ IF height = end
     THEN EndRound
     ELSE /\ height' = height + 1
          /\ Goto("block")
          /\ UNCHANGED <<seen, active, end, todo, current, matched>>
  /\ UNCHANGED <<status, received, paidTx, paidHeight, records, bound, assigned,
                 skipped, overdue, nodeVars, epoch>>

\* Mutant: invoices with a part of their payment expire, too.
ExpirablePartial == {"pending", "partial"}
Expirable == {"pending"}

\* expire_old_invoices, at the end of each round.
ExpireOld ==
  /\ pc = "expire"
  /\ status' = [i \in Invoices |->
       IF i \in overdue /\ status[i] \in Expirable THEN "expired" ELSE status[i]]
  /\ Goto("idle")
  /\ UNCHANGED <<received, paidTx, paidHeight, records, bound, assigned,
                 lastScanned, roundVars, skipped, overdue, nodeVars, epoch>>

ScanStep ==
  \/ \E answered \in BOOLEAN : AskTip(answered) \/ FetchBlock(answered)
  \/ NothingNew
  \/ SkipBlocks
  \/ PlanBlocks
  \/ \E t \in Txs : FetchTx(t) \/ SkipTx(t)
  \/ \E i \in Invoices : RecordPayment(i) \/ RecordFails(i)
  \/ SealBlock
  \/ ExpireOld

-----------------------------------------------------------------------------
(* The API and the world. *)

\* create_invoice, which refuses an amount of 0, and auto_invoice, which bills
\* whatever the operator's amount comes to.
CreateInvoice(i) ==
  /\ status[i] = "none"
  /\ status' = [status EXCEPT ![i] = "pending"]
  /\ UNCHANGED <<received, paidTx, paidHeight, records, bound, assigned,
                 lastScanned, scanVars, overdue, nodeVars, epoch>>

\* assign_miner adds a row; the first row of a wallet is the one that counts.
AssignMiner(w, s) ==
  /\ assigned[w] = None
  /\ assigned' = [assigned EXCEPT ![w] = s]
  /\ UNCHANGED <<status, received, paidTx, paidHeight, records, bound,
                 lastScanned, scanVars, overdue, nodeVars, epoch>>

\* POST /event binds a hosting leaf to the wallet of the request, a renewal
\* leaf to its own; a leaf that exists is left alone.
InsertEvent(leaf, w) ==
  /\ bound[leaf] = None
  /\ leaf \in Wallets => leaf = w
  /\ bound' = [bound EXCEPT ![leaf] = w]
  /\ UNCHANGED <<status, received, paidTx, paidHeight, records, assigned,
                 lastScanned, scanVars, overdue, nodeVars, epoch>>

DeadlinePasses(i) ==
  /\ status[i] # "none" /\ i \notin overdue
  /\ overdue' = overdue \cup {i}
  /\ UNCHANGED <<dbVars, scanVars, nodeVars, epoch>>

\* An invoice's address is known once it was created.
Payable(t) == \A i \in DOMAIN Outputs[t] : status[i] # "none"

\* A block with the transactions in txs.
Mine(txs) ==
  /\ tip < MaxTip
  /\ \A t \in txs : minedAt[t] = 0 /\ Payable(t)
  /\ tip' = tip + 1
  /\ minedAt' = [t \in Txs |-> IF t \in txs THEN tip + 1 ELSE minedAt[t]]
  /\ UNCHANGED <<dbVars, scanVars, overdue, reorgs, epoch>>

\* The blocks from h on are replaced by as many others.
Reorg(h, where) ==
  /\ reorgs < MaxReorgs
  /\ h \in 1..tip
  /\ \A t \in Txs :
       IF minedAt[t] \in 1..(h - 1) THEN where[t] = minedAt[t]
       ELSE where[t] = 0 \/ (where[t] \in h..tip /\ Payable(t))
  /\ minedAt' = where
  /\ reorgs' = reorgs + 1
  /\ UNCHANGED <<dbVars, scanVars, overdue, tip, epoch>>

Restart ==
  /\ epoch < MaxRestarts
  /\ epoch' = epoch + 1
  /\ Goto("idle")
  /\ seen' = 0 /\ height' = 0 /\ end' = 0 /\ current' = None
  /\ active' = {} /\ todo' = {} /\ matched' = {}
  /\ UNCHANGED <<dbVars, skipped, overdue, nodeVars>>

ApiStep ==
  \/ \E i \in Invoices : CreateInvoice(i)
  \/ \E w \in Wallets, s \in Serials : AssignMiner(w, s)
  \/ \E leaf \in LeafIds, w \in Wallets : InsertEvent(leaf, w)

WorldStep ==
  \/ \E i \in Invoices : DeadlinePasses(i)
  \/ \E txs \in SUBSET Txs : Mine(txs)
  \/ \E h \in 1..MaxTip, where \in [Txs -> Heights] : Reorg(h, where)

Init ==
  /\ status = [i \in Invoices |-> "none"]
  /\ received = [i \in Invoices |-> 0]
  /\ paidTx = [i \in Invoices |-> None]
  /\ paidHeight = [i \in Invoices |-> 0]
  /\ records = [i \in Invoices |-> [t \in Txs |-> 0]]
  /\ bound = [leaf \in LeafIds |-> None]
  /\ assigned = [w \in Wallets |-> None]
  /\ lastScanned = 0
  /\ pc = "idle"
  /\ seen = 0 /\ height = 0 /\ end = 0 /\ current = None
  /\ active = {} /\ todo = {} /\ matched = {}
  /\ overdue = {}
  /\ minedAt = [t \in Txs |-> 0]
  /\ tip = 0
  /\ skipped = {}
  /\ reorgs = 0
  /\ epoch = 0

Next ==
  \/ ScanStep
  \/ ApiStep
  \/ WorldStep
  \/ Restart

Spec == Init /\ [][Next]_vars

-----------------------------------------------------------------------------
(* What must hold. *)

\* Every variable keeps its type, and the scanner stays within the chain.
TypeOK ==
  /\ status \in [Invoices -> {"none", "pending", "partial", "paid", "expired"}]
  /\ received \in [Invoices -> Nat]
  /\ paidTx \in [Invoices -> Txs \cup {None}]
  /\ paidHeight \in [Invoices -> Heights]
  /\ records \in [Invoices -> [Txs -> Heights]]
  /\ bound \in [LeafIds -> Wallets \cup {None}]
  /\ assigned \in [Wallets -> Serials \cup {None}]
  /\ lastScanned \in 0..tip
  /\ pc \in {"idle", "plan", "block", "txs", "expire"}
  /\ seen \in 0..tip /\ height \in 0..tip /\ end \in 0..tip
  /\ active \subseteq Invoices
  /\ todo \subseteq Txs
  /\ current \in Txs \cup {None}
  /\ matched \subseteq active
  /\ overdue \subseteq Invoices
  /\ minedAt \in [Txs -> 0..tip]
  /\ tip \in Heights
  /\ skipped \subseteq Txs
  /\ reorgs \in 0..MaxReorgs
  /\ epoch \in 0..MaxRestarts

\* An invoice's received amount is the sum of distinct recorded transactions,
\* however often a block is scanned.  Its status follows from that sum once a
\* transaction is recorded and not before: an invoice with nothing due is open
\* until somebody pays something (apply_confirmed_total).
TotalsAgree ==
  \A i \in Invoices :
    /\ received[i] = Total(i, Credited(i))
    /\ status[i] = "paid" <=> Credited(i) # {} /\ received[i] >= Amount[i]
    /\ status[i] = "partial" <=> Credited(i) # {} /\ received[i] < Amount[i]

\* A paid invoice of a wallet has its lifecycle leaf, bound to that wallet,
\* whoever else inserted leaves (ensure_invoice_lifecycle_leaf).
PaidHasLeaf ==
  \A i \in Invoices :
    status[i] = "paid" /\ Owner[i] # None =>
      LeafOf(i) # None /\ bound[LeafOf(i)] = Owner[i]

\* The paying transaction is a recorded one at the height the invoice shows,
\* also when it was mined again elsewhere (promotion in
\* record_confirmed_payment_transaction).
PaidHeightIsRecord ==
  \A i \in Invoices :
    IF status[i] = "paid"
    THEN paidTx[i] \in Credited(i) /\ paidHeight[i] = records[i][paidTx[i]]
    ELSE paidTx[i] = None /\ paidHeight[i] = 0

\* On a chain that does not reorganise, a payment at or below the last scanned
\* height is recorded, unless the node did not deliver the transaction or the
\* invoice is paid or expired (scan_once, also when it skips blocks).
NoMissedPayment ==
  reorgs = 0 =>
    \A t \in Txs : \A i \in DOMAIN Outputs[t] :
      minedAt[t] \in 1..lastScanned =>
        \/ records[i][t] = minedAt[t]
        \/ t \in skipped
        \/ status[i] \in {"paid", "expired"}

\* The invoices of a round's snapshot do not expire during the round, so the
\* database never refuses one for having expired (scan_loop expires in
\* between).
SnapshotStaysOpen == \A i \in active : status[i] \in {"pending", "partial", "paid"}

\* The scanner implements the ledger.
Ledger == INSTANCE InvoiceLedger WITH
  credited <- [i \in Invoices |-> Credited(i)],
  paidBy <- [i \in Invoices |-> {paidTx[i]} \ {None}]
LedgerSpec == Ledger!Spec

-----------------------------------------------------------------------------
(* Liveness.  scan_loop runs forever and the node answers now and then.    *)

Fairness ==
  /\ WF_vars(ScanStep)
  /\ SF_vars(AskTip(TRUE))
  /\ SF_vars(FetchBlock(TRUE))

FairSpec == Spec /\ Fairness

\* No payment that the scanner has yet to record would be refused.
Clear ==
  \A t \in Txs : \A i \in DOMAIN Outputs[t] :
    minedAt[t] > lastScanned /\ i \in Active => Creditable(i, t)

\* Every payment in a block is recorded in the end, or its invoice is paid or
\* expires, unless a refused payment stops the scanner for good (RecordFails).
PaymentSettles ==
  <>[]Clear =>
    \A t \in Txs : \A i \in DOMAIN Outputs[t] :
      minedAt[t] > 0 ~> \/ records[i][t] > 0
                        \/ t \in skipped
                        \/ status[i] \in {"paid", "expired"}
=============================================================================
