# Verification of zap1

zap1 is an attestation server: it turns lifecycle events and confirmed
shielded payments into leaves of a BLAKE2b Merkle tree kept in SQLite, and it
anchors the tree's root in Zcash transactions signed by an embedded wallet.
This directory holds TLA+ models of that program, the TLC configurations that
check them and proofs checked by TLAPS. Source paths are relative to the
repository (`src/anchor.rs` is the Rust file of that name).

## 1. Inventory

| Part | State | Operations | Interacts with |
|---|---|---|---|
| anchor loop (`src/anchor.rs`) | failure count and backoff; locals of one run | reconcile due confirmations, decide, build or resume, send, probe, settle, finalize | database (one mutex, one SQLite transaction per call), wallet (in memory), Zebra over JSON-RPC |
| anchor journal and roots (`src/db.rs`, `migrations/004`) | `anchor_broadcasts`, `merkle_roots.anchor_txid/anchor_height` | prepare, pending, finalize, due, retry, confirm, two manual recordings | anchor loop, admin API, `anchor_root` command (a second process) |
| invoices and payments (`src/db.rs`, `migrations/001`) | `invoices`, `payment_records`, `miner_assignments`, `scan_state` | create, record a confirmed payment, expire, assign a miner | scanner, API |
| leaves and proofs (`src/db.rs`, `src/merkle.rs`) | `merkle_leaves`, `merkle_roots` | insert leaf and root in one transaction, current root, covering root, proof | API, scanner, anchor loop |
| API keys (`src/db.rs`) | `api_keys` | create, consume quota | API |
| anchor wallet (`src/wallet.rs`) | notes, note commitment tree, recovery flag; memory only | process block, build transaction, mark spent | scanner, recovery scan, anchor loop |
| block scanner (`src/scanner.rs`) | locals of a round, `last_scanned_height` | scan blocks, credit payments, feed the wallet, expire invoices | node, database, wallet |
| HTTP API (`src/api.rs`) | none of its own | ~50 handlers, most read only | database, node |
| opening the database (`Db::open`, `migrations/`) | the schema and the rows of a file of any release | statements that create, alter, clamp and rewrite, each a transaction | server and `anchor_root`, perhaps at once |
| FROST signer (`src/frost_signer.rs`, `src/config.rs`) | two key shares | load and check, compare with the wallet key, sign | process start, wallet |
| offline tools (`src/bin/zap1_*.rs`) | the answers they fetched | export a package, audit it, report on a server, validate a schema | HTTP API |
| Merkle, memo, TVLV, verification libraries | none | pure functions | everything above |
| `payout.rs`, `agent.rs`, `signal_bot.rs`, `staking.rs`, `near_anchor.rs`, `fees.rs` | | not compiled: `src/lib.rs` declares no such module | nothing |
| `webhook.rs`, `notify.rs`, `foreman.rs`, `keys.rs` | none that is persisted | registered hooks are never called; messages; a read-only client; key derivation | API, scanner |

The tasks (`src/main.rs`) are the HTTP server, the scanner, the recovery scan
and the anchor loop. They share one `Db` behind a mutex and one wallet; every
`.await` lets all the others run. What is hard: crashes between journalling,
sending and recording an anchor; a node whose answer is lost; an operator who
records anchors from the API or from another process at any moment;
reorganisations; a scanner that reads a snapshot and uses it for 500 blocks; a
round that fails half way and is repeated.

## 2. Plan

| Modules | Part | State |
|---|---|---|
| `AnchorRegister`, `AnchorPipeline`, `AnchorInvariant`, `AnchorProofs` | anchor loop, journal, operator, node, restarts (section 3) | checked, proved |
| `InvoiceLedger`, `InvoiceScanner`, `ScannerProofs` | block scanner and crediting of invoices (4) | checked, proved |
| `MerkleTree` | the trees, their proofs and verifiers (5) | checked, proved (in `DataLemmas`) |
| `LeafEncoding` | leaf preimages (5) | checked, proved (in `FormatsProofs`) |
| `AnchoredLog`, `LeafStore`, `LeafStoreProofs` | leaves, roots, covering anchors (5) | checked, proved |
| `BundleAudit`, `OpsReport` (both extend `LeafStore`) | export and audit of a package, report on a server (5) | checked, proved (in `LeafStoreProofs`) |
| `StoreOpening`, `StoreOpeningProofs` | opening a file of any release (6) | checked, proved |
| `EventIntake` | `POST /event`, delegated keys (7) | checked, proved (in `FormatsProofs`) |
| `Invoicing`, `InvoicingProofs` | invoices, monthly billing, assignments (8) | checked, proved |
| `AnchorWallet`, `AnchorWalletProofs` | the wallet's tree under three tasks (9) | checked, proved |
| `MemoCodec` | TVLV container and text memos (10) | checked, proved (in `FormatsProofs`) |
| `FrostSigner` | choice and validity of the signer (11) | checked, proved (in `FormatsProofs`) |
| `Bytes` | integers of a fixed number of bytes, used by `LeafEncoding` and `MemoCodec` | checked, proved |
| `Formats` (extends the four of sections 5, 10 and 11), `FormatsProofs` | their inputs grown one element at a time, and what they promise (5, 10, 11) | checked, proved |
| `DataLemmas` | numbers, loops, tables, hash trees, sums over finite sets and byte strings, used by six proof modules | proved |

Twelve runs answer the questions of this project, eleven that pass and one that
shows a disagreement of the code with its comments:

| Run (configuration) | Module | Question |
|---|---|---|
| `anchor_safety`, `anchor_resume`, `anchor_confirm`, `anchor_reorg` | `MCAnchorPipeline` | section 3 |
| `scanner_safety`, `scanner_liveness` | `MCInvoiceScanner` | section 4 |
| `leaf_store` | `MCLeafStore`: the store with `zap1_export` or `zap1_ops` at work | section 5 |
| `store_opening` | `MCStoreOpening` | section 6 |
| `event_intake` | `MCEventIntake` | section 7 |
| `invoicing` | `MCInvoicing` | section 8 |
| `anchor_wallet` | `MCAnchorWallet` | section 9 |
| `formats` | `MCFormats`: `Formats`, that is, `MerkleTree`, `LeafEncoding`, `MemoCodec` and `FrostSigner` on inputs grown one element at a time | sections 5, 10, 11 |

An `MC` module gives the constants finite values. `MCLeafStore` and `Formats`
also choose in the initial state which of several readers or inputs a behaviour
is about; each of them takes the same steps it would take alone.

Left for later, in this order:

1. A composition of scanner, leaves and anchor pipeline: the leaf of a paid
   invoice is covered by an anchored root in the end. Today `AnchorPipeline`
   counts leaves, `LeafStore` takes the recording of an anchor as one action and
   `InvoiceScanner` stops at the leaf.
2. Invoices of a release that recorded mempool payments.

## 3. The anchor pipeline

`AnchorPipeline` models `anchor_loop` with its callees, `AnchorRegister` is what
it promises: a write-once register per root. The correspondence:

| Code | Model |
|---|---|
| `merkle_leaves` / `merkle_roots`, root of `n` leaves | `leaves`, root `n` in `1..leaves`; `rootTx`, `rootHeight` (0 is NULL) |
| `anchor_broadcasts` row | `journal[t]`: status, root, note, order of `recorded_at`, due and confirmed flags |
| one pass of `anchor_loop` | `pc`: `sleep`, `poll`, `apply`, `check`, `run`, `build`, `prepare`, `send`, `probe`, `settle`, `finalize`; each label ends at an await or a database call |
| locals of `run_anchor` / of the confirmation loop | `job` / `batch`, `polled` |
| `AnchorState.backoff_until` | `backoff` |
| `AnchorWallet.notes` | `wallet[n]`: untracked, unspent, spent |
| `/admin/anchor/record` between its node query and its write | `claim` |
| `anchor_root send` between broadcast and record | `cli` |
| Zebra | `chain`, `minedAt`, `tip`; `delivered` and `reorgs` are history |
| process restart | `Restart`, counted by `epoch` |

Each action is one critical section or one request. A request that is sent may
be answered, refused, or accepted with its answer lost (`SendAccepted(FALSE)`).
Abstracted: hashes and raw transactions (model values), the interval clock
(`elapsed`), retry times (a `due` flag that time sets), fees, notifications and
logging. One transaction per block. `anchor_root record` takes the height from
the operator unverified; the model assumes an operator who reads it from the
chain. SQLite transactions are atomic and durable; a poisoned mutex and disk
errors are not modelled.

### Runs

| Run | Instance | Shows |
|---|---|---|
| `anchor_safety` | 2 embedded and 1 manual transactions, 2 leaves, 1 note, 1 restart, 1 reorganisation, mempool loss and expiry | all invariants below, and `RegisterSpec` |
| `anchor_resume` | 1 note, 1 restart, fair | `PreparedSettles` |
| `anchor_confirm` | 2 notes, fair | `RecordedConfirms`, `BacklogAnchored` |
| `anchor_reorg` | reorganisation and operator, fair | expected violation of `RecordedGetsHeight` |

Two leaves give two roots, so a root can be overtaken while it is being
anchored; two transactions compete for one root or one note; one external
transaction competes with them; one restart and one reorganisation at any steps
are enough to separate any two steps. `Threshold` 1 makes every leaf a backlog.
Symmetry is over each kind of transactions and used in safety runs only. The runs
set `CHECK_DEADLOCK FALSE`: with the bounds on leaves, blocks and restarts used
up and the wallet empty the model may stop.

Properties: `NoDoubleAnchor`, `PreparedCanFinalize` (`finalize_anchor_broadcast`
never meets its conflict error), `RecordedIsAnchored`, `HeightsMatchChain` (in
behaviours without reorganisation), `NoteReuseNeedsRestart`, `RegisterSpec`.
`TypeOK` and `JournalBeforeSend` (what was delivered is in the journal) are proved
and in no configuration.

Fairness: the loop task runs for ever (`tokio::spawn`, `sleep` in each round), so
its steps are weakly fair; time passes; miners mine what is in the mempool; the
scanner finds the wallet's notes. A request repeated for ever is answered now and
then: strong fairness of `Poll(t, TRUE)`, `Build`, `SendAccepted(TRUE)`,
`SendRefused` and `ProbeKnown`. Nothing is assumed of operators, reorganisations
or restarts.

### What the runs show beyond the properties

- `anchor_reorg`: the operator records the height of a recorded transaction, a
  reorganisation moves the transaction to another block, and
  `confirm_anchor_broadcast` refuses the new height. The `?` at
  `src/anchor.rs:429` leaves the loop over the batch; the row stays due and first
  in order, so no later row is ever polled.
- A wallet rebuilt after a restart finds a note unspent whose spend is recorded
  and not mined. The loop may then sign a second transaction with it, for another
  root; when the first is mined the second can never be, stays prepared and stops
  anchoring. It is the `Dead` case of `PreparedSettles` and the reason for the
  restart clause of `NoteReuseNeedsRestart`. An expired prepared transaction has
  the same effect.
- A recorded transaction that the mempool drops is never sent again; only the
  confirmation is polled. `RecordedConfirms` is therefore checked with a mempool
  that keeps what it accepted.

### Proofs

`AnchorProofs` proves for all values of the constants that satisfy
`PipelineAssumption`:
`TypeCorrect`, `SentIsJournalled`, `AnchoredOnce`, `FinalizeNeverConflicts`,
`JournalMatchesRoots`, `HeightsAreReal`, `NotesSpentOnce` (each
`Spec => []P` for the property named in `PROJECT.json`) and `ImplementsRegister`
(`Spec => RegisterSpec`).

None of these is inductive alone. `AnchorInvariant.IInv` strengthens them with
what is true at each label: `JournalInv` (one prepared row at a time, one row per
root, rows name existing roots), `RootInv` (a transaction is mapped to one root,
and an embedded one only to its journalled root), `NodeInv` (what the node holds
was delivered, heights lie below the tip), `LoopInv` (from `send` on, `job` is a
prepared row; after a positive answer its transaction was delivered),
`OperatorInv` (claims in flight name mined transactions and existing roots),
`NoteInv` and `HeightInv`. `TypeOK` is proved first and used in the rest. The
key to `AnchoredOnce` is that `Preparable` refuses a mapped root and every manual
recording refuses a root with another prepared row, so a prepared row's root can
only be mapped to it. The refinement proof maps `Prepare` to `Commit`,
`SendAccepted` to `Send`, the recordings to `Map` and `SetHeight`, and every other
action to a stutter.

TLC evaluates `PipelineAssumption` in every run. Liveness (`PreparedSettles`,
`RecordedConfirms`, `BacklogAnchored`) is model-checked only.

## 4. The scanner and the invoices

`InvoiceScanner` models `scan_loop`, `scan_once` and the payment tables they
write. `InvoiceLedger` is what those tables promise: an invoice collects
distinct confirmed transactions, is paid by the first one that brings their sum
to its amount, stays paid, and expires only when it collected nothing.

| Code | Model |
|---|---|
| `invoices` row | `status` (`none` without a row), `received`, `paidTx`, `paidHeight` |
| `payment_records`, unique by invoice and transaction | `records[i][t]`, the height, 0 without a row |
| `miner_assignments`, first row of a wallet | `assigned` |
| lifecycle leaves | `bound[leaf]`, the wallet hash of the leaf's row |
| `scan_state.last_scanned_height` | `lastScanned` |
| one round of `scan_loop` | `pc`: `idle` (asks for the height), `plan`, `block`, `txs`, `expire` |
| `active_invoices`, read once per round | `active` |
| the loops over blocks, transactions and `matched_payments` | `height`..`end`; `todo`, `current`; `matched` |
| every `?` of `scan_once` | `EndRound`: the round's locals are dropped and `lastScanned` stays |
| `expires_at` against the clock | `overdue` |
| Zebra | `minedAt`, `tip`; `skipped` (a fetch that failed) and `reorgs` are history |
| `create_invoice`, `auto_invoice`, `assign_miner`, `POST /event` | `CreateInvoice`, `AssignMiner`, `InsertEvent`, between any two steps of a round |

`RecordPayment` is the whole SQLite transaction of
`record_confirmed_payment`: the record, the sum of all records, the transition of
the invoice and its leaf. `RecordFails` is its rollback, with the error that ends
the round.

Abstracted:

- A leaf stands for its hash. A hosting leaf hashes serial, month and year: all
  hosting invoices are of one month, so the serial names the leaf. The leaf of any
  other invoice hashes the wallet: one such type and year per wallet.
- Transactions of a block are taken in any order, as are the invoices one
  transaction pays (the code iterates over a `HashMap`).
- An output is paid only to an invoice that exists: its address is derived when
  the invoice is created.
- A reorganisation replaces the blocks from some height on by as many others.
- `scan_from_height` is 1.
- Invoices of a release that recorded mempool payments are left out.
  `scan_mempool` only logs, and `list_paid_program_invoices_without_entry` finds
  nothing when `PaidHasLeaf` holds. The wallet that is fed with each block is a
  part of `AnchorPipeline`.

### Runs

| Run | Instance | Shows |
|---|---|---|
| `scanner_safety` | 2 hosting invoices, one over nothing, of 2 wallets that share a miner, 2 transactions of which one pays both invoices, 2 blocks, rounds of 2 blocks, 1 restart, 1 reorganisation | `PaidHeightIsRecord`, `TotalsAgree`, `PaidHasLeaf`, `NoMissedPayment`, `LedgerSpec` |
| `scanner_liveness` | a hosting invoice, an invoice without a wallet, an output of value zero, rounds of 1 block, 1 restart, fair | `PaymentSettles` |

One transaction pays the first invoice in part and the second, which bills
nothing; the other pays the first in full: together they give partial payment,
completion, overpayment, payment of an invoice over nothing, and a block that fails at its second payment after the first was
written. Two blocks separate the block that is scanned from one that arrives
during the round; rounds of two blocks make one snapshot of invoices serve both,
let a round end between them and let a transaction move under it. The run for
liveness has rounds of one block, so that the next round's snapshot is newer. With one
miner assigned to two wallets each wallet's leaf can be the other's. The runs
set `CHECK_DEADLOCK FALSE` since blocks and restarts are bounded.

Fairness: `scan_loop` never ends (each round is followed by a sleep of fifteen
seconds), so `ScanStep` is weakly fair. The node answers a request that is
repeated for ever: strong fairness of `AskTip(TRUE)` and `FetchBlock(TRUE)`.
Nothing is assumed of the API, of deadlines or of miners.

### What the runs show beyond the properties

- A payment the database refuses ends the round at `src/scanner.rs:162` before the
  block is sealed, and each later round fails at the same place. Three payments
  are refused: one that completes a hosting invoice whose wallet has no miner, one
  whose leaf is bound to another wallet, and an output of value zero to an
  invoice's address. All payments after it wait until it is accepted. Hence the
  premise of `PaymentSettles`, that no payment is refused for good
  (`<>[]Clear`), which the code does not ensure; in the run an assignment cures the
  first kind and expiry of the invoice the others.
- A transaction that cannot be fetched is skipped and its block is sealed
  (`src/scanner.rs:105`). It is never looked at again; `NoMissedPayment` and
  `PaymentSettles` say so with `skipped`.
- An invoice that expires before its block is scanned is not credited, even when
  the payment was mined before the deadline. That is the last case of both
  properties.
- An invoice may be over nothing. `POST /invoice` refuses an amount of 0
  (`src/api.rs:454`), but `auto_invoice` checks only month and year
  (`src/api.rs:2320`): the amount is a product of an unchecked `f64`
  (`src/api.rs:2369`) whose cast makes 0 of what is negative, tiny or not a number,
  and the table has no `CHECK`. Such an invoice is created pending and not paid,
  although it has received what it bills; the first payment pays it, and without
  one it expires. `Amount` is therefore any natural number, and `TotalsAgree` says
  that an invoice is paid exactly if something was recorded and the sum reaches
  the amount.
- Height and transaction of a paid invoice follow a reorganisation only when the
  paying transaction is scanned again (`PaidHeightIsRecord`). Blocks at or below
  `lastScanned` are not scanned again: `NoMissedPayment` is stated for a chain
  that does not reorganise.

### Proofs

`ScannerProofs` proves `SnapshotsStayOpen`, `PaidHeightsAreRecords`,
`PaidInvoicesHaveLeaves`, `NoPaymentIsMissed` and `TotalsAlwaysAgree`, each
`Spec => []P` for the property it is named after, and the refinement
`ScannerImplementsLedger`, for any invoices, transactions, outputs, batches and
chains that satisfy `ScannerAssumption`. The invariants build on each other:

- `Typed` is `TypeOK` without the type of `received`.
- `Round`: where a round stands. Between rounds nothing is left of one; within one
  the block at hand is `lastScanned + 1`. Expiry is the last step of a round and
  the snapshot is dropped before it, hence `SnapshotStaysOpen` (no invoice of the
  snapshot expires during a round), which is proved and in no configuration.
- The four operations that write payments (`Payments`) are compared with each
  property once; a transition to paid and its leaf are one transaction, and a leaf
  is never bound again.
- `Known`: a mined transaction pays only invoices that exist.
- `Scanned`: on a chain that does not reorganise, blocks up to `lastScanned` are
  settled (`DoneBlocks`), the snapshot holds every open invoice that the blocks of
  the round pay (`SnapshotComplete`), and in the block at hand every payment is
  still to come, at hand or settled (`BlockAtHand`). With these `NoMissedPayment`
  is inductive; the second is what a round that begins late, or repeats one that
  ended half way, could break.

- `Counted`: amounts received are numbers, those of the credited transactions. A
  total is a recursive function over a set of transactions that takes them in an
  order nobody chose; `TotalIsSum` says that it is a sum in the sense of
  `DataLemmas`, where sums exist, do not depend on the order and grow by the
  element that is added (`SumsExist`, `SumsAgree`, `SumsAdd`, by induction on
  finite sets). With that, `TotalsAgree` is inductive: by `PaymentAdds` the sum that `RecordPayment` writes
  to `received` never falls, and is the old one if the row was there.
- The refinement maps `credited` to the transactions with a row and `paidBy` to the
  one named as paying. `RecordPayment` is `Credit`, or a stutter if the row was
  there; opening and expiry are those of the ledger; every other step stutters
  (`LedgerStep`). This rests on the invariants above: a repeated payment stutters
  only because the sum stays and `TotalsAgree` has the status follow it, and an
  expiring invoice has collected nothing because `TotalsAgree` makes one that
  collected something partly or fully paid, whatever it bills.

`PaymentSettles` is liveness and stays with TLC.

## 5. Leaves, proofs and what is made of them

| Code | Model |
|---|---|
| `node_hash`, BLAKE2b with a personalisation (`src/merkle.rs`) | the term `HashNode(left, right)`: no two terms are equal by accident |
| `compute_root`, `generate_proof`, `verify_proof` and their legacy forms | `ComputeRoot`, `GenerateProof`, `VerifyProof`, ... of `MerkleTree` |
| levels of a tree, one turn of the loop in `generate_proof`, the fold of `verify_proof` | `Levels` and `PairUp`, `Climb` and `Turn`, `Walk` and `Combine`, recursive functions over a shape, "bound" (roots name their number of leaves) or "legacy" (an odd node is paired with itself) |
| `merkle_leaves` | `leaves` in the order of ids, `ids`, `lastId` (AUTOINCREMENT draws an id even if `INSERT OR IGNORE` adds nothing) |
| `merkle_roots` | `roots`: hash, count, anchored, height |
| `insert_leaf_raw`, one transaction | `InsertLeaf` |
| `current_root`, which completes a missing row | `ReadCurrent` |
| `record_anchor_reference`, confirmation | `RecordAnchor`, `RecordHeight` |
| `select_covering_root`, the proof bundle | `Selected`, `Bundle` |
| `get_root_covering_leaf`, `unanchored_leaf_count` | `TimelineAnchored`, `UnanchoredCount` |
| a store of an older release | `LegacyStore`: leaves `Imported`, roots of the duplicate-odd shape, one of them anchored, a count that is too large |

`Formats` compares the level-by-level tree of the code with the recursive
definition of a tree split at the largest power of two, over every list of up to
seven leaves of two kinds: seven is the first length whose tree has an odd node
on two levels, and two kinds are enough for a list to repeat its last leaf, which
is what legacy roots confuse.

`AnchoredLog` is what the store promises: leaves are appended once, the first
part of the log is published, and what is published stays so. `LeafStore!Log`
maps `published` to the leaves with an anchored covering root. `InsertLeaf` is
`Add` or a stutter, `RecordAnchor` is `Publish` or a stutter.

`BundleAudit` extends `LeafStore` with `zap1_export`, one request after the other
while the store is written, and the rules of `zap1_audit`. `OpsReport` extends it
with the four requests of `zap1_ops` and its verdict. `LeafEncoding` gives the
preimage of each event type three times, as the server (`src/memo.rs`), the
verifier (`zap1-verify`) and `zap1_schema` compute it.

### Runs

`leaf_store` has three kinds of behaviour. Three imported leaves, two legacy roots
of them, one anchored, and a new leaf: the store alone, with every insertion and
recording. A store with none or two leaves and one insertion while `zap1_export`
collects its package. A new store and its first two leaves while `zap1_ops` asks
its four questions, with three lags of the scanner and two ages of the last anchor.

- `RootsCommitToPrefixes`: each root row written by this release is the root of a
  prefix of the leaves, of the length it names.
- `BundleVerifies`: the proof bundle of a leaf verifies, under the root it names.
- `CoverageIsHonest`: the backlog that starts an anchor counts the leaves without
  an anchor, and no leaf is shown as anchored whose bundle is not.
- `OfflineAudit`: `zap1_audit`, whose rules are written a second time, judges each
  bundle as the server does, and accepts the package `zap1_export` wrote while
  leaves were inserted and anchored.
- `ReportIsHonest`: `zap1_ops` reports "ok" only if every leaf that was there when
  it started is anchored, and never reports a settled, healthy server as critical.
  The warning of pending invoices and the check of the protocol's name are left
  out: the model says "ok" more often than the tool.
- `LogSpec`: the store implements `AnchoredLog`.

Three imported leaves and one more give every shape of a legacy tree up to its
second level and a root that is overtaken; `LegacyMax` 1 of `MaxHeight` 2 stands
for the height up to which legacy roots are accepted, so anchors lie on both
sides of it. `CHECK_DEADLOCK FALSE`: insertions are bounded and the tools come to
an end.

`formats` shows for lists of one to seven leaves of two kinds that roots and
proofs bind them and that the level-by-level tree is the textbook one
(`TreesBindLeaves`), and for every event of every type, against every other, over
strings that include the empty one and one that continues another, that preimages
are injective (`PreimageBindsEvent`) and the same in the server, the verifier and
`zap1_schema` (`PreimagesAgree`). `CHECK_DEADLOCK FALSE`: inputs stop growing.

### What modelling showed beyond the properties

Where the code and what is written about it differ, the properties above are
stated for what the code does:

- A leaf that is inserted twice draws an id without adding a row, so later ids are
  larger than positions, and `get_root_covering_leaf` (`src/db.rs:964`) compares an
  id with a count. The lifecycle answer then shows a leaf as not anchored whose
  proof bundle is. Hence the one direction of `CoverageIsHonest`.
- `anchor_status` (`src/api.rs:747`) reports the transaction of the current root,
  null as soon as a leaf is inserted, and `zap1_ops` reports the difference to the
  history as an error; `docs/HEALTH_SCHEMA.md:97` calls pending work a warning.
  `ReportIsHonest` speaks of settled servers.
- `zap1_schema` casts lengths to 16 bits (`src/bin/zap1_schema.rs:167`) and
  validates fields the server refuses (`src/memo.rs:178`). `PreimagesAgree` is
  stated for fields that fit.
- `zap1_export` leaves DEPLOYMENT out of the profile "regulator"
  (`src/bin/zap1_export.rs:125`); `docs/PROOF_BUNDLE_V2.md:99` says "All lifecycle
  events".

### Proofs

`DataLemmas` proves, for trees of any size, what a hash tree is for. Hashes are
terms, so equal hashes have equal inputs, which stands for the collision
resistance of BLAKE2b.

- `RootBindsLeaves`: two lists of leaves with the same root are the same list.
  Levels of equal length with equal levels above are equal (`PairUpBinds`), and
  the root names the length.
- `ProofBindsLeaf`, `LegacyProofBindsLeaf`: the proof for a leaf verifies under
  the root, and with it no other leaf does. The climb keeps the node it stands on
  equal to what the verifier has computed (`ClimbLeads`).
- `OnlyLeavesVerify`: whatever proof and count are presented, what verifies and is
  no inner node is a leaf of the tree, and the count is right (`Nodes`,
  `NodesGrow`: what the verifier computes stays among the nodes of the tree).

`LeafStoreProofs` assumes `StoreAssumption` (the imported leaves are distinct, the
bounds are numbers). `Tables` types the tables and says that no leaf is stored
twice; `Numbers` types ids and counters; they give `StoreTyped`. Every step
satisfies `Grown`: the leaves are a prefix of the leaves after it, and a row of
`roots` keeps its hash and count and never loses its anchor. A prefix of a prefix
is the same prefix, so `RootsCommit` follows; a row that covered a leaf still does,
so `AnchorsAreKept` follows (`AnchoredStays`, that an anchored leaf stays anchored,
is in no configuration since `LogSpec` implies it). Neither property is inductive
alone since both speak of `leaves` and `roots` at once. `ImplementsLog` needs
`Counted` in addition (no row claims more leaves than there are) and the lemma
`PublishedIsCounted`: a leaf is published exactly if an anchored row with a
count of at least its position fits one of the two tree shapes. On these rest

- `ServedProofsVerify`: a served root fits the prefix it counts, so the theorems
  about trees apply to the bundle.
- `CoverageHonest`: from `IdsKeepUp`, an id is never smaller than the position of
  its leaf. Without it `get_root_covering_leaf`, which compares ids with counts,
  could show an anchor that covers nothing of the leaf.
- `ExportsAudit`, of the store with `zap1_export`: an entry is judged by what it
  holds, so each entry collected so far passes or is one the audit may refuse, as
  when it was fetched (`EntryAudits`, `ExportSound`), whatever is written later.
- `ReportsAreHonest`, of the store with `zap1_ops`: `AnswersSound` says that an
  answer without waiting work means that all leaves of the start are anchored,
  `AnswersCurrent` what the answers are as long as nothing is written, and
  `RowsDiffer` that each root this release writes has one row. The last needs the
  hypothesis `LeavesAreNoRoots`, which the code satisfies: leaf hashes and roots
  that name a count are hashed under different personalizations (`src/memo.rs`,
  `src/merkle.rs`). The legacy root of a single leaf is that leaf.

`RawRootIsSplit` proves, for lists of any length, that the tree is the textbook one.
The powers of two and the split tree are recursive functions, whose equations are
proved by building the function up (`PowerNext`, `SplitTreesDefined`). `IsLevel` says
what the loop of `compute_raw_tree_root` keeps: every node of a level is the split
tree of its `2^d` leaves, the last one of those that are left. `PairUp` doubles that
(`LevelDoubles`), since of a node with more than `2^d` and at most `2^(d+1)` leaves
the left part has `2^d` (`LeftSizeType`).

`FormatsProofs` proves the three properties of `formats` that this section is about.
Each grows its input from nothing, so the invariant is that the input is one
(`ListInv`, `EntryInv`) and the rest are lemmas about the algorithms.

- `TreesBind` joins the theorems on trees above.
- `PreimagesBind`, from `EncodingAssumption` (a byte has at least two values, numbers
  fit the smaller integer width, which is not larger than the other). `IsLayout` says
  what the layouts of all types have in common: names differ, and a field without a
  length stands alone (`ServerLayouts`, type by type). Two fields of one slot of which
  one starts like the other are the same (`FieldBinds`, from `BigEndianBinds` for
  lengths and integers), so two events of one type with one preimage agree field by
  field (`FlattenBinds`), and the first byte gives the type.
- `PreimageBuildersAgree`: the three tables of layouts are equal (`LayoutsAgree`),
  and the library's own check of each length refuses what the server's does
  (`LengthsAgree`).
  Which fields each place writes, in which order and width, is what the tables state
  of the code.

## 6. Opening the database

`StoreOpening` models `Db::open`. Its statements that can fail or that change
something stand in `Plan` in the order of the code; each is a transaction of its
own. The server (which `docker-compose.mainnet.yml:10` starts again whenever it
ends) and `anchor_root` may execute theirs at the same time, and either may be
cut off between two.

| Code | Model |
|---|---|
| tables, added columns and the unique index of a file | `schema`, a set of names |
| `anchor_broadcasts`, `merkle_roots`, number of `merkle_leaves` | `journal`, `roots`, `leaves` |
| the statement a process has come to | `pc`; `Serving` after the last |
| `CREATE TABLE / INDEX IF NOT EXISTS` | `CreateTable`, `CreateIndex`, `UniqueAnchors` |
| the probes by `prepare` and the `ALTER`s behind them | `ProbeColumn`, `AddColumn` |
| `UPDATE merkle_roots SET leaf_count` | `ClampCounts` |
| lower-casing of identities and the check of what is left | `CanonicalizeJournal`, `CanonicalizeRoots`, `CheckIdentities` |
| an error of `open` | `Refuse`: the process ends |

Identities are names in lower case, in upper case or not hexadecimal. Tables and
indexes that have had one shape in all releases are left out, as is
`002_spendable_notes.sql`, which no code loads.

`store_opening` takes 35 files of five stages of the schema, sound and unsound
ones, one open by the operator, two crashes and one more leaf. It shows
`ServesWholeSchema`, `ServesSoundRows` and, under weak fairness of the restart and
of each process's statements, `StartsInTheEnd` for files with nothing to refuse.
Two crashes separate any three statements; two processes are all that open the
file. `CHECK_DEADLOCK FALSE`: a server that serves has nothing left to do.

A file whose `invoices` table lacks the newer columns is refused:
`001_init.sql` creates an index on `wallet_hash` before `Db::open` comes to the
`ALTER` that would add it (`src/db.rs:139`, against the comment at line 142). Such
files are among those `StartsInTheEnd` excepts, and the run leaves them out.

`StoreOpeningProofs` proves `OpenedSchemaIsWhole` and `OpenedRowsAreSound` for any
files that satisfy `OpeningAssumption` (rows have their columns), any number of
processes and crashes. Neither property is inductive, since it says nothing of a
process on its way. `Passed` says for each statement what a process that has come
past it found or brought about, and `Kept` that no step of any process undoes it:
the schema only grows, clamping and inserting leave counts that fit, lower-casing
leaves canonical identities alone and is refused where it would make two rows
equal. `StartsInTheEnd` is model-checked only.

## 7. POST /event and the delegated keys

`EventIntake` models `create_lifecycle_event` with its authorisation,
`issue_trial_key`, and the two database calls they make.

| Code | Model |
|---|---|
| `api_keys` | `issued`, `used`, `expires` (0 is NULL, as in keys of the time before the column) |
| `merkle_leaves` as far as it matters here | `leaves`: hash and wallet hash |
| one `UPDATE` that checks expiry and limit and adds one | `Authorise` with `Chargeable` |
| validation of the body and reading of the clock | `Accept`, `Refuse` |
| `insert_leaf_raw` | `Insert`; its error is `InsertFails` |
| fields that each type requires, and those its hash covers | `Required`, `Hashed` |
| `API_KEY`, `TRIAL_KEY_ISSUANCE_ENABLED` | `hasMaster`, `trialKeys`, fixed until `Restart` |

A body is a function of its fields, a field's value is good or `Bad`, and a leaf
hash is the record of the fields it covers. `ticket` and `written` are history:
the count a request was charged with and those whose request added a row.

`event_intake` runs two workers, three requests, a quota of one, one expiry and
one restart over six bodies (two wallets with the same machine, an invalid field,
a type that is stamped by the clock, an agent event that is right and one that is
filed wrongly). A quota of one is at its limit after the first of two overlapping
requests, and one of the two keys has no expiry.
The hash of a hosting payment does not cover the wallet (`src/db.rs:1561`): of two
wallets that report one machine in one month the second is answered 201 and its
event is not listed under it. `AgentSubjectAgrees` says that this does not happen
to agent events.
`CHECK_DEADLOCK FALSE` since requests are bounded.

`FormatsProofs` (from `IntakeAssumption`: the master key and the unknown token
are no delegated keys, bounds are numbers) proves all three and the types:
`IntakeTyped`, `QuotaIsKept`, `AgentsAreListed`, `RetriesAreHarmless`.
`QuotaHolds` becomes inductive with `Accounts`: a request in flight holds a ticket
that `leaves_used` has counted, so whatever it writes is counted already.
`AgentSubjectAgrees` and `RetryAddsNothing` need `Filing`: a worker inserts only a
valid event, an agent's row is filed under its agent, and every answer has its row.

## 8. Invoices, billing, assignments

`Invoicing` models the handlers `create_invoice`, `auto_invoice` and
`assign_miner` as the sequences of database calls they are; between two calls the
mutex is free.

| Code | Model |
|---|---|
| `scan_state.next_diversifier_index` | `next` |
| `invoices`, `miner_assignments` | `invoices`, `miners` (rows by wallet and serial) |
| leaves of `OWNERSHIP_ATTEST` | `ownership` |
| a handler between two calls | `pc`: `wallets`, `allocate`, `create`, `attest`, with `period`, `wallet`, `serial`, `div`, `todo`, `count` |
| an error of any call | `Fail` |

`invoicing` runs 2 workers, 2 wallets, a machine, a month, 4 requests and a
restart, and shows `AddressesDistinct`, `BilledMeansInvoiced` and
`RepeatsBillNothing`. Two workers and two wallets let one request finish a wallet
the other has just looked for; four requests are an assignment and three bills,
one more than can overlap. `CHECK_DEADLOCK FALSE` since requests are bounded.

`RepeatsBillNothing` bounds what overlapping requests can do: a wallet gets no more
invoices for a month than there are requests at the same time, however often the
month is billed again after errors or restarts.

### What modelling showed beyond the properties

Four things do not hold, and the properties do not say them:

- Two overlapping requests for a month can both find no invoice and both create
  one (`src/api.rs:2347`; no constraint covers wallet and month), although
  `ONCHAIN_PROTOCOL.md:381` says "generates one invoice per wallet for the billing
  period". `OneInvoicePerPeriod` is proved for a single worker.
- An assignment that is repeated appends a row (`src/db.rs:389`; the table has no
  unique column for `INSERT OR REPLACE` to replace by), and the next bill counts the
  machine twice; `ONCHAIN_PROTOCOL.md:379` says "machine count per wallet".
- `POST /assign` stores the assignment and its ownership leaf in two transactions
  (`src/api.rs:961`, `src/api.rs:970`). After an error or the end of the process in
  between, the assignment stays without a leaf until it is requested again, which
  appends a row. The note under a wallet's assignments (`src/api.rs:1030`) says that
  each of them is committed to the tree.
- A TRANSFER event changes no assignment (`src/api.rs:1884`), so the old wallet
  keeps the machine and its bills.

### Proofs

`InvoicingProofs` (from `InvoicingAssumption`: no wallet and no month is `None`,
workers are finitely many) proves `AddressesAreDistinct`, `BilledMonthsAreComplete`,
`RepeatsAddNoInvoice` and `OneWorkerBillsOnce` for any workers, wallets, machines
and months. Their invariants:

- `Allocated`: indexes in use or held lie below the counter.
- `Owed`: a wallet with machines is still on the request's list or has its invoice.
- `Unbilled`: between look and insert the wallet has no invoice for the month. It
  holds under `Alone`, a single worker, and not with two.
- `Rooms`: once a wallet has an invoice for a month, these invoices and the workers
  on the way to one (`Billing`) are together no more than all workers. A worker that
  looks later finds the invoice and does not join; one that creates an invoice
  leaves. `RepeatsBillNothing` alone is not inductive: it says nothing of the workers
  that have looked.

## 9. The anchor wallet

`AnchorWallet` models `AnchorWallet` of `src/wallet.rs` under the three tasks that
use it: `wallet_recovery_scan`, `scan_once`, and the anchor loop's
`build_anchor_tx` and `ensure_spent_at_position`. The wallet's three mutexes
(`next_position`, tree, notes) are taken one by one, in the order of the code.

| Code | Model |
|---|---|
| the `ShardTree` | `tree`, a function from positions to commitments; `ckpt`, its newest checkpoint |
| inserting leaves at a position | `Put` |
| note commitments of the chain | `Through(h)`, those up to height `h`; `ChainSize`, `ChainPosition`, `ChainTree` |
| `next_position`, `notes`, `recovery_complete` | `next`, `notes`, `done` |
| critical sections | `holder` |
| a block | a sequence of Orchard actions, ours or not, with the note each spends |
| a task | `pc`, `at`, `upTo`, `scanned`, `choice` |
| requests that fail | `SeedFails`, `FetchFails`, `RoundFails`, bounded by `MaxFaults` |

Where the scanner inserts at positions the tree has already, the library may
replace the leaves or refuse them; both are actions. Witnesses are abstracted to
the leaves under the checkpoint's root; fees and proofs are left out.

`anchor_wallet` runs three chains of five blocks of four kinds (empty, others',
received, spent with change) with both feeders, a build and a failed request. The chain's
tip is close to where scanning starts or far enough for the tree to be seeded,
depending on the blocks mined before recovery starts.

- `SpendIsValid` and `BalanceIsOwned` speak of behaviours in which the tasks
  together fed the blocks after the seed one after the other, which the history
  variable `fed` records.
- `NoCircularWait` and, under fairness, `RecoveryEnds` hold of all.

The restriction to blocks in order is what the code does not ensure. Close to
`scan_from_height` the tree is not seeded (`src/scanner.rs:255`) and positions count
from 0. As soon as an invoice is active, `scan_once` feeds its blocks to the tree
that the recovery scan is filling (`src/scanner.rs:209`): before the seed, out of
order or twice. And a block whose transactions cannot be fetched is left out. In
each case notes get positions that they do not have on chain and spends of them
prove nothing, until the wallet is rebuilt. Blocks in order still reach every step
of both feeders, since either may feed the next block.

In the five blocks a note is received and spent with change, followed by a block
of others, next to a second note, or after an empty block. Fairness: a task goes
on once its lock is free (`WF` of `RecoveryStep`, of each `Feed(p)` and of a
build under way); nothing forces a build, a block or a round. `CHECK_DEADLOCK
FALSE`: with the chain scanned and the builds used up all tasks wait.

### Proofs

`AnchorWalletProofs` proves `NoTasksDeadlock`, `SpendsAreValid` and
`BalanceIsTrue`, the three invariants above, for any chains, batch sizes and
numbers of faults and builds. `WalletAssumption` is what it knows of the chain: a
note is spent in a later block than the one that brought it, which holds of Orchard
because a spend is proved against the root of an earlier block.

- `Sound`: types, the places where a task may stand, and who holds which lock. A
  feeder takes `next_position` before the tree and nobody takes them the other way
  round, which gives `NoTasksDeadlock`.
- `Feeding`: before the seed counts nothing is tracked (`Unfed`); then, as long as
  blocks come in order and no feeder stands between the tree and the notes, the
  tree and its newest checkpoint are those of the chain at the last block fed, and
  while one does they are those with its block (`Grown`). `SpendIsValid` alone is
  not inductive: it says nothing of the tree before a spend is built from it.
- `Noted`: the notes tracked are those that the blocks fed bring to the wallet,
  each once and where the chain has it, marked exactly if a block fed or the
  anchor loop spent it (`NotesSound`); the note selected is one of them
  (`ChoiceSound`), also when the tree grows between selection and witness. A block
  never spends what it brings, so marking before adding is right.

`TreeGrows` and `PositionsDiffer` say that appending a block at `next_position`
gives the tree of the longer chain. `RecoveryEnds` is liveness and stays with TLC.

## 10. Memos

`MemoCodec` has the TVLV encoder and decoder of `src/zip302.rs`, those of
`zcash-memo-decode`, the crate's classification of a memo, and the `ZAP1:` text
memo as `src/memo.rs` writes and reads it and as the crate reads it. The byte has 8
values instead of 256 and the compact size keeps its four forms and their bounds;
limits are 16 and 64 bytes instead of 512 and 16384. `formats` grows inputs one
field at a time: lists of up to three parts, whose values include one that needs a
longer size form, memos of up to seven pieces (sizes in every form that can hold
them, canonical or not, and one that overflows), four arbitrary bytes, and text
memos of up to four fields. `MemosAgree` says that both decoders give back what
either encoder wrote, that they agree on every memo, that a memo that decodes is
the encoding of its parts, that both readers of text memos read what the server
writes, and that the classification is that of the decoder.

A decoder's loop is a recursive function over its turns: `ServerTurn` and
`LibraryTurn` take the position and the parts read so far and give the next ones, a
result, or an error. A part takes three bytes or more, so as many turns as there are
bytes are enough.

### Proofs

`MemosAreRead` of `FormatsProofs` proves `MemosAgree` for bytes of any number of
values, parts of any values, and memos of any bytes and any length, from
`MemoAssumption` (the marks are different bytes, the server's limit fits into 64
bits) and `FormatsAssumption` (a part has a type that is not 0, which is the end
mark, and values that fit into 16 and 8 bits). The inductive invariant is only that
memo and parts are byte strings and parts (`MemoInv`); the argument is in the
algorithms.

- Sizes: `ReadBack` and `ReadExact` say that reading gives a size exactly where its
  encoding stands. The form that may not hold a smaller number is what makes the
  second one true. An integer is read from its highest byte down and written from
  its lowest up (`NumberReadBack`, `NumberWriteBack`).
- The two decoders are one: from any state their turns lead to the same state
  (`TurnsAlike`), although they check for the end and for repeated types in another
  order, and the states of a decoding are determined by the memo (`OneDecoding`).
  `DecodingOver` says that it has ended after as many turns as the memo has bytes.
- What was encoded is decoded: a turn at the bytes of a part reads that part
  (`TurnBack`), after `i` turns the first `i` parts are read or a type has occurred
  twice (`DecodesBack`), and the zeros end it (`EndBack`).
- What is decoded would be encoded: `Explains` says of a decoding that runs that the
  memo begins with the encoding of the parts read, and of one that has ended that
  zeros follow. A turn keeps it (`TurnExplains`) if no size is cut, hence the
  exception in `DecodeIsExact`.

## 11. The signer

`FrostSigner` models which signer a process starts with: the checks of
`src/config.rs`, the loading of two share files and the comparison with the
wallet's key. In the run scalars are `Z_5`; a group element is its discrete logarithm. Files
are dealt by a 2-of-3 ceremony, then damaged or mixed up with another ceremony's.
`formats` takes every configuration and every ceremony with two damages:
whatever the nonces, challenge and randomizer, a signer that was accepted signs
for the wallet's key, FROST never falls back to the single key, and files as dealt
are accepted (`SignerIsSound`). Two damages reach
a pair of files that agree with each other and not with the wallet. Over a field
of five elements Lagrange coefficients differ for each pair of participants.

`SignersAreSound` of `FormatsProofs` proves it for every prime order above 3, every
ceremony, every configuration and any number of damages (`SignerAssumption`). Two
files that pass `load_share`, have the same commitments and the wallet's group key
are the values of one polynomial at two participants. That their signature shares add
up to a signature of the polynomial's constant term (`SharesSign`) is arithmetic
modulo the order: an inverse exists because the order is prime (`InverseExists`, by
the least positive number that is congruent to a multiple), and the two Lagrange
coefficients times the two values give the constant term (`LagrangeSum`). `SignerInv`
adds that files in use are share files, what files look like as long as nobody has
damaged them, and that a process which has come up with a signer passed every check,
on files that have not changed since.

## 12. Not modelled

- `payout.rs`, `agent.rs`, `signal_bot.rs`, `staking.rs`, `near_anchor.rs` and
  `fees.rs` are not compiled. `build_payout_tx` of the wallet has no compiled
  caller, `deliver_leaf_event` and `deliver_anchor_event` of `webhook.rs` have none
  at all: nothing runs that a model could follow.
- `notify.rs`, `foreman.rs`, `keys.rs`, and the tools `keygen`, `memo_scan`,
  `shieldvault` and `zaino_adapter`: I/O, key derivation, printing, no state.
- The HTML pages, badges and feeds of `src/api.rs` render what the modelled
  handlers compute.
- The HTTP client of `src/node.rs` is the environment of the models: requests are
  answered, refused or lost.
- Cryptography: hashes and signatures are terms, except the arithmetic of FROST.
- Invoices of a release that recorded mempool payments.

Every invariant and every action property of the passing runs is a theorem, and so
are the three refinements. Model-checked
on the instances above and not proved is liveness under fairness
(`PreparedSettles`, `RecordedConfirms`, `BacklogAnchored`, `StartsInTheEnd`,
`PaymentSettles`, `RecoveryEnds`), which is beyond the provers. Induction on
numbers and finite sets is done in `DataLemmas` on sets (`LeastNat`, `InductiveSet`,
`SubsetInduction`), since the library's induction theorems take an operator that the
provers cannot instantiate; that a recursive function satisfies its equations is
proved for each by building it up, for loops once (`LoopDefined`).
