--------------------------- MODULE AnchorPipeline ---------------------------
(***************************************************************************)
(* The anchoring of Merkle roots on the chain: the anchor loop of          *)
(* anchor.rs with its awaits, the anchor journal and the root table of     *)
(* db.rs, the notes of the in-memory wallet, the operator's two ways to    *)
(* record a transaction by hand, the Zebra node and process restarts.      *)
(*                                                                         *)
(* One action is one critical section of the database or of the wallet, or *)
(* one request to the node: between two of them every other actor may run. *)
(* A root is named by its leaf count: insert_leaf_raw appends one row per  *)
(* count and the root hash binds the count.                                *)
(***************************************************************************)
EXTENDS Integers, FiniteSets, FiniteSetsExt

CONSTANTS
  EmbeddedTxs,  \* transactions the embedded wallet may sign
  ManualTxs,    \* transactions of the operator's external wallet
  NoTx,         \* SQL NULL, "no transaction"
  Notes,        \* positions of the wallet's notes, spent in this order
  Threshold,    \* ANCHOR_THRESHOLD
  BatchLimit,   \* CONFIRMATION_BATCH_LIMIT
  MaxLeaves,    \* bound: leaves ever inserted
  MaxTip,       \* bound: blocks ever mined
  MaxReorgs,    \* bound: transactions moved back to the mempool by a reorg
  MaxRestarts,  \* bound: process restarts
  MempoolDrops  \* whether the node may forget or expire a transaction

ASSUME PipelineAssumption ==
  /\ EmbeddedTxs \cap ManualTxs = {}
  /\ NoTx \notin EmbeddedTxs \cup ManualTxs
  /\ Notes \subseteq Nat \ {0}
  /\ Threshold \in Nat \ {0}
  /\ BatchLimit \in Nat \ {0}
  /\ MaxLeaves \in Nat
  /\ MaxTip \in Nat
  /\ MaxReorgs \in Nat
  /\ MaxRestarts \in Nat
  /\ MempoolDrops \in BOOLEAN

Txs == EmbeddedTxs \cup ManualTxs
Roots == 1..MaxLeaves
Heights == 0..MaxTip          \* 0 is SQL NULL

VARIABLES
  \* zap1.db
  leaves,      \* rows of merkle_leaves; roots 1..leaves have a row
  rootTx,      \* merkle_roots.anchor_txid
  rootHeight,  \* merkle_roots.anchor_height
  journal,     \* anchor_broadcasts, one row per transaction
  recordings,  \* clock of recorded_at: how many rows were recorded so far
  \* the server process
  pc,          \* where the anchor loop is
  backoff,     \* AnchorState.backoff_until lies in the future
  job,         \* locals of run_anchor
  batch,       \* rows still to poll in reconcile_due_anchor_confirmations
  polled,      \* the row being reconciled and the height the node answered
  wallet,      \* AnchorWallet.notes
  claim,       \* the verified /admin/anchor/record request in flight
  cli,         \* an `anchor_root send` that broadcast and did not record yet
  \* the Zebra node
  chain,       \* where the node has each transaction
  minedAt,     \* height of the block that holds it, 0 when none does
  tip,         \* height of the best block
  delivered,   \* history: transactions the node accepted at some time
  reorgs, epoch \* how often the chain reorganised, how often we restarted

dbVars == <<leaves, rootTx, rootHeight, journal, recordings>>
loopVars == <<pc, backoff, job, batch, polled>>
nodeVars == <<chain, minedAt, tip, delivered, reorgs>>
vars == <<dbVars, loopVars, wallet, claim, cli, nodeVars, epoch>>

-----------------------------------------------------------------------------
(* The database. *)

Row == [ status    : {"absent", "prepared", "recorded"},
         root      : Roots \cup {0},
         note      : Notes \cup {0},
         recordedAt: Nat,
         due       : BOOLEAN,      \* next_confirmation_at is NULL or past
         confirmed : BOOLEAN,      \* confirmed_at is not NULL
         preparedIn: 0..MaxRestarts,  \* history: the process that prepared
         recordedIn: 0..MaxRestarts ] \* and the one that recorded the row

AbsentRow == [ status |-> "absent", root |-> 0, note |-> 0, recordedAt |-> 0,
               due |-> FALSE, confirmed |-> FALSE,
               preparedIn |-> 0, recordedIn |-> 0 ]

\* What the writes to a row leave in it.
PreparedRow(j) ==
  [ status |-> "prepared", root |-> j.root, note |-> j.note,
    recordedAt |-> 0, due |-> FALSE, confirmed |-> FALSE,
    preparedIn |-> epoch, recordedIn |-> 0 ]
RecordedRow(row) ==
  [row EXCEPT !.status = "recorded", !.recordedAt = recordings + 1,
              !.due = ~row.confirmed, !.recordedIn = epoch]
ConfirmedRow(row) == [row EXCEPT !.confirmed = TRUE, !.due = FALSE]
\* Mutant: the retry time of a row that was scheduled once never passes.
ScheduledForever(row, due) == [row EXCEPT !.due = FALSE]
ScheduledRow(row, due) == [row EXCEPT !.due = due]

Prepared == {t \in EmbeddedTxs : journal[t].status = "prepared"}
Recorded == {t \in EmbeddedTxs : journal[t].status = "recorded"}
Journalled == Prepared \cup Recorded
MappedRoots == {r \in Roots : rootTx[r] # NoTx}

\* unanchored_leaf_count
Unanchored == leaves - Max(MappedRoots \cup {0})

\* Mutant: finalizing without a height conflicts with a recorded height.
RecordableWithHeight(r, t, h) ==
  /\ r \in 1..leaves
  /\ \/ rootTx[r] = NoTx /\ \A q \in Roots : rootTx[q] # t
     \/ rootTx[r] = t /\ rootHeight[r] \in {0, h}

\* record_anchor_reference_in_tx accepts transaction t at height h for root r:
\* r has a row, and either nothing is mapped to it (and t to no other root,
\* idx_merkle_roots_anchor_txid), or t is, at no other height.
Recordable(r, t, h) ==
  /\ r \in 1..leaves
  /\ \/ rootTx[r] = NoTx /\ \A q \in Roots : rootTx[q] # t
     \/ rootTx[r] = t /\ (h = 0 \/ rootHeight[r] \in {0, h})

\* What it then writes.
RecordReference(r, t, h) ==
  /\ rootTx' = [rootTx EXCEPT ![r] = t]
  /\ rootHeight' = [rootHeight EXCEPT ![r] = IF h = 0 THEN @ ELSE h]

\* due_anchor_confirmations, ORDER BY recorded_at LIMIT BatchLimit
DueRows ==
  LET due == {t \in Recorded : journal[t].due /\ ~journal[t].confirmed}
      Earlier(t) == {u \in due : journal[u].recordedAt < journal[t].recordedAt}
  IN {t \in due : Cardinality(Earlier(t)) < BatchLimit}

\* A leaf arrives, from the scanner or from an API handler, with its root row.
InsertLeaf ==
  /\ leaves < MaxLeaves
  /\ leaves' = leaves + 1
  /\ UNCHANGED <<rootTx, rootHeight, journal, recordings, loopVars, wallet,
                 claim, cli, nodeVars, epoch>>

-----------------------------------------------------------------------------
(* The node. *)

\* The node's mempool and chain hold t.
Known(t) == chain[t] \in {"mempool", "mined"}

\* Another transaction that the node holds spends the note that t spends.
Conflicted(t) ==
  \E u \in Journalled \ {t} : journal[u].note = journal[t].note /\ Known(u)

Acceptable(t) == chain[t] = "unseen" /\ ~Conflicted(t)

Accept(t) ==
  /\ chain' = [chain EXCEPT ![t] = "mempool"]
  /\ delivered' = delivered \cup {t}
  /\ UNCHANGED <<minedAt, tip, reorgs>>

Mine(t) ==
  /\ chain[t] = "mempool"
  /\ tip < MaxTip
  /\ chain' = [chain EXCEPT ![t] = "mined"]
  /\ tip' = tip + 1
  /\ minedAt' = [minedAt EXCEPT ![t] = tip + 1]
  /\ UNCHANGED <<dbVars, loopVars, wallet, claim, cli, delivered, reorgs, epoch>>

\* A reorganisation returns t to the mempool; it is mined again elsewhere.
Reorg(t) ==
  /\ chain[t] = "mined"
  /\ tip < MaxTip
  /\ reorgs < MaxReorgs
  /\ chain' = [chain EXCEPT ![t] = "mempool"]
  /\ minedAt' = [minedAt EXCEPT ![t] = 0]
  /\ reorgs' = reorgs + 1
  /\ UNCHANGED <<dbVars, loopVars, wallet, claim, cli, tip, delivered, epoch>>

\* The node loses its mempool, or t passes its expiry height.
Forget(t) ==
  /\ MempoolDrops
  /\ \/ chain[t] = "mempool" /\ chain' = [chain EXCEPT ![t] = "unseen"]
     \/ /\ t \in Journalled
        /\ chain[t] \in {"unseen", "mempool"}
        /\ chain' = [chain EXCEPT ![t] = "expired"]
  /\ UNCHANGED <<dbVars, loopVars, wallet, claim, cli, minedAt, tip, delivered,
                 reorgs, epoch>>

-----------------------------------------------------------------------------
(* The wallet.  It lives in memory, so after a restart the scanner and the *)
(* recovery scan find its notes and their nullifiers again, at any time:   *)
(* nothing waits for recovery_done.                                        *)

TrackNote(n) ==
  /\ wallet[n] = "untracked"
  /\ wallet' = [wallet EXCEPT ![n] = "unspent"]
  /\ UNCHANGED <<dbVars, loopVars, claim, cli, nodeVars, epoch>>

ObserveSpend(t) ==
  /\ t \in Journalled
  /\ chain[t] = "mined"
  /\ wallet[journal[t].note] = "unspent"
  /\ wallet' = [wallet EXCEPT ![journal[t].note] = "spent"]
  /\ UNCHANGED <<dbVars, loopVars, claim, cli, nodeVars, epoch>>

Unspent == {n \in Notes : wallet[n] = "unspent"}

-----------------------------------------------------------------------------
(* anchor_loop: one round reconciles confirmations, then maybe anchors.    *)

Jobs == [tx : EmbeddedTxs \cup {NoTx}, root : Roots \cup {0},
         note : Notes \cup {0}]
Polls == [tx : EmbeddedTxs \cup {NoTx}, height : Heights]

NoJob == [tx |-> NoTx, root |-> 0, note |-> 0]
NoPoll == [tx |-> NoTx, height |-> 0]

Goto(label) == pc' = label

\* The start of a round: read the due rows.
Wake ==
  /\ pc = "sleep"
  /\ batch' = DueRows
  /\ Goto("poll")
  /\ UNCHANGED <<dbVars, backoff, job, polled, wallet, claim, cli, nodeVars, epoch>>

\* get_tx_height of the oldest row of the batch: the height of a mined
\* transaction, or an error (0) when it is not mined or the node fails.
Poll(t, answered) ==
  /\ pc = "poll"
  /\ t \in batch
  /\ \A u \in batch : journal[t].recordedAt <= journal[u].recordedAt
  /\ answered => chain[t] = "mined"
  /\ polled' = [tx |-> t, height |-> IF answered THEN minedAt[t] ELSE 0]
  /\ Goto("apply")
  /\ UNCHANGED <<dbVars, backoff, job, batch, wallet, claim, cli, nodeVars, epoch>>

\* confirm_anchor_broadcast
ApplyConfirmation ==
  LET t == polled.tx  h == polled.height  r == journal[t].root IN
  /\ pc = "apply"
  /\ h > 0
  /\ Recordable(r, t, h)
  /\ RecordReference(r, t, h)
  /\ journal' = [journal EXCEPT ![t] = ConfirmedRow(@)]
  /\ batch' = batch \ {t}
  /\ polled' = NoPoll
  /\ Goto("poll")
  /\ UNCHANGED <<leaves, recordings, backoff, job, wallet, claim, cli, nodeVars, epoch>>

\* confirm_anchor_broadcast fails on a different height: the `?` of
\* reconcile_due_anchor_confirmations drops the rest of the batch and leaves
\* the row due.
RejectConfirmation ==
  LET t == polled.tx IN
  /\ pc = "apply"
  /\ polled.height > 0
  /\ ~Recordable(journal[t].root, t, polled.height)
  /\ batch' = {}
  /\ polled' = NoPoll
  /\ Goto("check")
  /\ UNCHANGED <<dbVars, backoff, job, wallet, claim, cli, nodeVars, epoch>>

\* record_anchor_confirmation_retry
RetryConfirmation ==
  /\ pc = "apply"
  /\ polled.height = 0
  /\ journal' = [journal EXCEPT ![polled.tx] = ScheduledRow(@, FALSE)]
  /\ batch' = batch \ {polled.tx}
  /\ polled' = NoPoll
  /\ Goto("poll")
  /\ UNCHANGED <<leaves, rootTx, rootHeight, recordings, backoff, job, wallet,
                 claim, cli, nodeVars, epoch>>

Reconciled ==
  /\ pc = "poll"
  /\ batch = {}
  /\ Goto("check")
  /\ UNCHANGED <<dbVars, backoff, job, batch, polled, wallet, claim, cli,
                 nodeVars, epoch>>

\* The retry time of a row passes.
ConfirmationDue(t) ==
  /\ t \in Recorded
  /\ ~journal[t].confirmed /\ ~journal[t].due
  /\ journal' = [journal EXCEPT ![t] = ScheduledRow(@, TRUE)]
  /\ UNCHANGED <<leaves, rootTx, rootHeight, recordings, loopVars, wallet,
                 claim, cli, nodeVars, epoch>>

BackoffExpires ==
  /\ backoff
  /\ backoff' = FALSE
  /\ UNCHANGED <<dbVars, pc, job, batch, polled, wallet, claim, cli, nodeVars,
                 epoch>>

\* Mutant: a journalled transaction alone does not start a run.
NeedsAnchorBacklogOnly(elapsed) ==
  /\ leaves > 0
  /\ \/ Unanchored >= Threshold
     \/ Unanchored > 0 /\ elapsed

\* maybe_anchor decides.  Time is not modelled: with a leaf unanchored the
\* interval may have elapsed or not.
NeedsAnchor(elapsed) ==
  /\ leaves > 0
  /\ \/ Prepared # {}
     \/ Unanchored >= Threshold
     \/ Unanchored > 0 /\ elapsed

MaybeAnchor(elapsed) ==
  /\ pc = "check"
  /\ Goto(IF ~backoff /\ NeedsAnchor(elapsed) THEN "run" ELSE "sleep")
  /\ UNCHANGED <<dbVars, backoff, job, batch, polled, wallet, claim, cli,
                 nodeVars, epoch>>

\* run_anchor returns an error: maybe_anchor sets the backoff.
FailRun ==
  /\ Goto("sleep")
  /\ backoff' = TRUE
  /\ job' = NoJob
  /\ UNCHANGED <<batch, polled>>

Advance(label) == Goto(label) /\ UNCHANGED <<backoff, job, batch, polled>>

\* run_anchor resumes the journalled transaction, byte for byte ...
ResumePending ==
  /\ pc = "run"
  /\ \E t \in Prepared :
       job' = [tx |-> t, root |-> journal[t].root, note |-> journal[t].note]
  /\ Goto("send")
  /\ UNCHANGED <<dbVars, backoff, batch, polled, wallet, claim, cli, nodeVars,
                 epoch>>

\* ... or takes the current root and asks the node for its height.
ReadRoot ==
  /\ pc = "run"
  /\ Prepared = {}
  /\ job' = [NoJob EXCEPT !.root = leaves]
  /\ Goto("build")
  /\ UNCHANGED <<dbVars, backoff, batch, polled, wallet, claim, cli, nodeVars,
                 epoch>>

\* build_anchor_tx spends the first unspent note in a transaction with a new
\* txid.
Build(t, n) ==
  /\ pc = "build"
  /\ t \notin Journalled
  /\ n \in Unspent
  /\ \A m \in Unspent : n <= m
  /\ job' = [job EXCEPT !.tx = t, !.note = n]
  /\ Goto("prepare")
  /\ UNCHANGED <<dbVars, backoff, batch, polled, wallet, claim, cli, nodeVars,
                 epoch>>

\* The node does not give its height, or no note covers the anchor.
BuildFails ==
  /\ pc = "build"
  /\ FailRun
  /\ UNCHANGED <<dbVars, wallet, claim, cli, nodeVars, epoch>>

\* Mutant: the root may be mapped already.
PreparableMapped(j) ==
  /\ Prepared = {}
  /\ \A t \in Journalled : journal[t].root # j.root

\* prepare_anchor_broadcast accepts: the exact root is unmapped, it has no
\* other journal row and no other row is prepared.
Preparable(j) ==
  /\ rootTx[j.root] = NoTx
  /\ Prepared = {}
  /\ \A t \in Journalled : journal[t].root # j.root

Prepare ==
  /\ pc = "prepare"
  /\ Preparable(job)
  /\ journal' = [journal EXCEPT ![job.tx] = PreparedRow(job)]
  /\ Advance("send")
  /\ UNCHANGED <<leaves, rootTx, rootHeight, recordings, wallet, claim, cli,
                 nodeVars, epoch>>

PrepareFails ==
  /\ pc = "prepare"
  /\ ~Preparable(job)
  /\ FailRun
  /\ UNCHANGED <<dbVars, wallet, claim, cli, nodeVars, epoch>>

\* sendrawtransaction reaches the node and the node accepts; the answer
\* arrives, or the request times out and run_anchor fails.
SendAccepted(answered) ==
  /\ pc = "send"
  /\ Acceptable(job.tx)
  /\ Accept(job.tx)
  /\ IF answered THEN Advance("settle") ELSE FailRun
  /\ UNCHANGED <<dbVars, wallet, claim, cli, epoch>>

\* Mutant: a refusal is taken for "already known".
SendRefusedIsKnown ==
  /\ pc = "send"
  /\ ~Acceptable(job.tx)
  /\ Advance("settle")
  /\ UNCHANGED <<dbVars, wallet, claim, cli, nodeVars, epoch>>

SendRefused ==
  /\ pc = "send"
  /\ ~Acceptable(job.tx)
  /\ Advance("probe")
  /\ UNCHANGED <<dbVars, wallet, claim, cli, nodeVars, epoch>>

SendFails ==
  /\ pc = "send"
  /\ FailRun
  /\ UNCHANGED <<dbVars, wallet, claim, cli, nodeVars, epoch>>

\* transaction_known after a refusal
ProbeKnown ==
  /\ pc = "probe"
  /\ Known(job.tx)
  /\ Advance("settle")
  /\ UNCHANGED <<dbVars, wallet, claim, cli, nodeVars, epoch>>

\* The node does not know it, or does not answer.
ProbeFails ==
  /\ pc = "probe"
  /\ FailRun
  /\ UNCHANGED <<dbVars, wallet, claim, cli, nodeVars, epoch>>

\* Mutant: the wallet keeps the note.
SettleKeepsNote ==
  /\ pc = "settle"
  /\ wallet[job.note] # "untracked"
  /\ Advance("finalize")
  /\ UNCHANGED <<dbVars, wallet, claim, cli, nodeVars, epoch>>

\* ensure_spent_at_position
Settle ==
  /\ pc = "settle"
  /\ wallet[job.note] # "untracked"
  /\ wallet' = [wallet EXCEPT ![job.note] = "spent"]
  /\ Advance("finalize")
  /\ UNCHANGED <<dbVars, claim, cli, nodeVars, epoch>>

SettleFails ==
  /\ pc = "settle"
  /\ wallet[job.note] = "untracked"
  /\ FailRun
  /\ UNCHANGED <<dbVars, wallet, claim, cli, nodeVars, epoch>>

\* finalize_anchor_broadcast.  Its conflict branch has no action: it is taken
\* only when PreparedCanFinalize is false.
Finalize ==
  LET t == job.tx  row == journal[t] IN
  /\ pc = "finalize"
  /\ row.status \in {"prepared", "recorded"}
  /\ Recordable(row.root, t, 0)
  /\ RecordReference(row.root, t, 0)
  /\ recordings' = recordings + 1
  /\ journal' = [journal EXCEPT ![t] = RecordedRow(row)]
  /\ Goto("sleep")
  /\ job' = NoJob
  /\ UNCHANGED <<leaves, backoff, batch, polled, wallet, claim, cli, nodeVars,
                 epoch>>

-----------------------------------------------------------------------------
(* The operator. *)

Claims == [tx : Txs \cup {NoTx}, root : Roots \cup {0}, height : Heights]
NoClaim == [tx |-> NoTx, root |-> 0, height |-> 0]

\* Mutant: the best height instead of the transaction's.
AdminVerifyTip(r, t) ==
  /\ claim = NoClaim
  /\ chain[t] = "mined"
  /\ claim' = [tx |-> t, root |-> r, height |-> tip]
  /\ UNCHANGED <<dbVars, loopVars, wallet, cli, nodeVars, epoch>>

\* admin_anchor_record asks the node for the height of t, any transaction, and
\* compares it with the height of the form.
AdminVerify(r, t) ==
  /\ claim = NoClaim
  /\ chain[t] = "mined"
  /\ claim' = [tx |-> t, root |-> r, height |-> minedAt[t]]
  /\ UNCHANGED <<dbVars, loopVars, wallet, cli, nodeVars, epoch>>

\* record_confirmed_manual_anchor_reference: while a row is prepared, only that
\* exact row may be recorded, and the row stays prepared.
AdminAllowed(c) ==
  /\ \A t \in Prepared : t = c.tx /\ journal[t].root = c.root
  /\ Recordable(c.root, c.tx, c.height)

AdminRecord ==
  /\ claim # NoClaim
  /\ AdminAllowed(claim)
  /\ RecordReference(claim.root, claim.tx, claim.height)
  /\ journal' = [t \in EmbeddedTxs |->
       IF t \in Prepared THEN ConfirmedRow(journal[t]) ELSE journal[t]]
  /\ claim' = NoClaim
  /\ UNCHANGED <<leaves, recordings, loopVars, wallet, cli, nodeVars, epoch>>

AdminRefused ==
  /\ claim # NoClaim
  /\ ~AdminAllowed(claim)
  /\ claim' = NoClaim
  /\ UNCHANGED <<dbVars, loopVars, wallet, cli, nodeVars, epoch>>

\* `anchor_root send` reads the current root and has the external wallet send.
CliSend(t) ==
  /\ cli = NoClaim
  /\ leaves > 0
  /\ chain[t] = "unseen"
  /\ Accept(t)
  /\ cli' = [tx |-> t, root |-> leaves, height |-> 0]
  /\ UNCHANGED <<dbVars, loopVars, wallet, claim, epoch>>

\* Mutant: recording is not blocked by a prepared row.
CliAllowedAlways(r, t, h) == Recordable(r, t, h)

\* record_merkle_anchor refuses while a row is prepared.
CliAllowed(r, t, h) == Prepared = {} /\ Recordable(r, t, h)

\* `anchor_root send` ends by recording without a height; it records nothing
\* when it may not or when the wallet's output names no txid.
CliRecordSent ==
  /\ cli # NoClaim
  /\ \/ /\ CliAllowed(cli.root, cli.tx, 0)
        /\ RecordReference(cli.root, cli.tx, 0)
     \/ UNCHANGED <<rootTx, rootHeight>>
  /\ cli' = NoClaim
  /\ UNCHANGED <<leaves, journal, recordings, loopVars, wallet, claim, nodeVars,
                 epoch>>

\* `anchor_root record`, with the height the operator reads from the chain.
CliRecord(r, t) ==
  /\ chain[t] = "mined"
  /\ CliAllowed(r, t, minedAt[t])
  /\ RecordReference(r, t, minedAt[t])
  /\ UNCHANGED <<leaves, journal, recordings, loopVars, wallet, claim, cli,
                 nodeVars, epoch>>

-----------------------------------------------------------------------------
\* The server stops at any point and starts again: only the database is left.
Restart ==
  /\ epoch < MaxRestarts
  /\ epoch' = epoch + 1
  /\ Goto("sleep")
  /\ backoff' = FALSE
  /\ job' = NoJob
  /\ batch' = {}
  /\ polled' = NoPoll
  /\ wallet' = [n \in Notes |-> "untracked"]
  /\ claim' = NoClaim
  /\ UNCHANGED <<dbVars, cli, nodeVars>>

Init ==
  /\ leaves = 0
  /\ rootTx = [r \in Roots |-> NoTx]
  /\ rootHeight = [r \in Roots |-> 0]
  /\ journal = [t \in EmbeddedTxs |-> AbsentRow]
  /\ recordings = 0
  /\ pc = "sleep"
  /\ backoff = FALSE
  /\ job = NoJob
  /\ batch = {}
  /\ polled = NoPoll
  /\ wallet = [n \in Notes |-> "untracked"]
  /\ claim = NoClaim
  /\ cli = NoClaim
  /\ chain = [t \in Txs |-> "unseen"]
  /\ minedAt = [t \in Txs |-> 0]
  /\ tip = 0
  /\ delivered = {}
  /\ reorgs = 0
  /\ epoch = 0

ReconcileStep ==
  \/ Wake
  \/ \E t \in EmbeddedTxs, answered \in BOOLEAN : Poll(t, answered)
  \/ ApplyConfirmation
  \/ RejectConfirmation
  \/ RetryConfirmation
  \/ Reconciled

RunStep ==
  \/ \E elapsed \in BOOLEAN : MaybeAnchor(elapsed)
  \/ ResumePending
  \/ ReadRoot
  \/ \E t \in EmbeddedTxs, n \in Notes : Build(t, n)
  \/ BuildFails
  \/ Prepare
  \/ PrepareFails
  \/ \E answered \in BOOLEAN : SendAccepted(answered)
  \/ SendRefused
  \/ SendFails
  \/ ProbeKnown
  \/ ProbeFails
  \/ Settle
  \/ SettleFails
  \/ Finalize

TimeStep ==
  \/ BackoffExpires
  \/ \E t \in EmbeddedTxs : ConfirmationDue(t)

WalletStep ==
  \/ \E n \in Notes : TrackNote(n)
  \/ \E t \in EmbeddedTxs : ObserveSpend(t)

OperatorStep ==
  \/ \E r \in Roots, t \in Txs : AdminVerify(r, t) \/ CliRecord(r, t)
  \/ AdminRecord
  \/ AdminRefused
  \/ \E t \in ManualTxs : CliSend(t)
  \/ CliRecordSent

NodeStep == \E t \in Txs : Mine(t) \/ Reorg(t) \/ Forget(t)

Next ==
  \/ InsertLeaf
  \/ ReconcileStep
  \/ RunStep
  \/ TimeStep
  \/ WalletStep
  \/ OperatorStep
  \/ NodeStep
  \/ Restart

Spec == Init /\ [][Next]_vars

-----------------------------------------------------------------------------
(* What must hold. *)

\* Every variable keeps its type.
Labels == {"sleep", "poll", "apply", "check", "run", "build", "prepare",
           "send", "probe", "settle", "finalize"}

TypeOK ==
  /\ leaves \in 0..MaxLeaves
  /\ rootTx \in [Roots -> Txs \cup {NoTx}]
  /\ rootHeight \in [Roots -> Heights]
  /\ journal \in [EmbeddedTxs -> Row]
  /\ recordings \in Nat
  /\ pc \in Labels
  /\ backoff \in BOOLEAN
  /\ job \in Jobs
  /\ batch \subseteq EmbeddedTxs
  /\ polled \in Polls
  /\ wallet \in [Notes -> {"untracked", "unspent", "spent"}]
  /\ claim \in Claims
  /\ cli \in Claims
  /\ chain \in [Txs -> {"unseen", "mempool", "mined", "expired"}]
  /\ minedAt \in [Txs -> Heights]
  /\ tip \in Heights
  /\ delivered \subseteq Txs
  /\ reorgs \in 0..MaxReorgs
  /\ epoch \in 0..MaxRestarts

Sent == delivered \cap EmbeddedTxs

\* The signed bytes are durable before the network can see them, whatever
\* crashes: only journalled transactions were ever accepted by the node
\* (run_anchor calls prepare_anchor_broadcast before sendrawtransaction).
JournalBeforeSend == Sent \subseteq Journalled

\* No root is anchored twice: at most one embedded transaction is sent for a
\* root, and that root is mapped to no other one, in spite of the operator
\* recording roots between the steps of run_anchor.
NoDoubleAnchor ==
  \A t \in Sent :
    LET r == journal[t].root IN
    /\ \A u \in Sent \ {t} : journal[u].root # r
    /\ rootTx[r] \in {NoTx, t}

\* finalize_anchor_broadcast never meets its conflict error: whatever is
\* recorded by hand while a row is prepared leaves its root free for it.
PreparedCanFinalize ==
  \A t \in Prepared : Recordable(journal[t].root, t, 0)

\* A recorded row is one the node accepted, and the root it names is mapped to
\* it; confirmed, with a height (finalize_, confirm_anchor_broadcast).
RecordedIsAnchored ==
  \A t \in Journalled :
    /\ t \in Recorded => t \in delivered /\ rootTx[journal[t].root] = t
    /\ journal[t].confirmed => /\ rootTx[journal[t].root] = t
                               /\ rootHeight[journal[t].root] > 0

\* As long as the chain does not reorganise, a recorded height is the height of
\* the block that holds the transaction (transaction_height_from_zebra,
\* get_tx_height).
HeightsMatchChain ==
  reorgs = 0 =>
    \A r \in Roots : rootHeight[r] > 0 => rootHeight[r] = minedAt[rootTx[r]]

\* Two anchors are signed with the same note only when the process restarted
\* after recording the first: the wallet forgets the spends it has not seen
\* mined (ensure_spent_at_position, AnchorWallet::new).
NoteReuseNeedsRestart ==
  \A t \in Recorded, u \in Journalled :
    /\ t # u
    /\ journal[t].note = journal[u].note
    => journal[t].recordedIn # journal[u].preparedIn

\* The pipeline implements the write-once register per root.
Committed == {<<journal[t].root, t>> : t \in Journalled}

Register == INSTANCE AnchorRegister WITH
  Embedded <- EmbeddedTxs, committed <- Committed, sent <- Sent
RegisterSpec == Register!Spec

-----------------------------------------------------------------------------
(* Liveness.  The loop runs forever, time passes, the scanner finds the    *)
(* wallet's notes, the node mines what it holds and, asked again and again,*)
(* answers now and then.                                                   *)

LoopStep == ReconcileStep \/ RunStep

Fairness ==
  /\ WF_vars(LoopStep)
  /\ WF_vars(BackoffExpires)
  /\ WF_vars(\E t \in EmbeddedTxs : ConfirmationDue(t))
  /\ WF_vars(\E t \in Txs : Mine(t))
  /\ WF_vars(\E n \in Notes : TrackNote(n))
  /\ SF_vars(\E t \in EmbeddedTxs : Poll(t, TRUE))
  /\ SF_vars(\E t \in EmbeddedTxs, n \in Notes : Build(t, n))
  /\ SF_vars(SendAccepted(TRUE))
  /\ SF_vars(SendRefused)
  /\ SF_vars(ProbeKnown)

FairSpec == Spec /\ Fairness

\* The node will never take t again, so nothing can finish it: it expired, or
\* the node holds another spend of its note.
Dead(t) == chain[t] = "expired" \/ Conflicted(t)

\* A prepared transaction is retried until it is recorded; only one the node
\* can no longer take stays prepared (maybe_anchor, run_anchor).
PreparedSettles ==
  \A t \in EmbeddedTxs : (t \in Prepared) ~> (t \in Recorded \/ Dead(t))

\* Each recorded transaction is confirmed in the end (anchor_loop,
\* reconcile_due_anchor_confirmations).
RecordedConfirms ==
  \A t \in EmbeddedTxs : (t \in Recorded) ~> journal[t].confirmed

\* Weaker: each recorded transaction gets a height, from the loop or from the
\* operator.  With a reorganisation it fails: see RejectConfirmation.
RecordedGetsHeight ==
  \A t \in EmbeddedTxs :
    (t \in Recorded) ~> (journal[t].root \in {r \in Roots : rootHeight[r] > 0})

\* A backlog of Threshold leaves is anchored in the end.
BacklogAnchored == (Unanchored >= Threshold) ~> (Unanchored < Threshold)
=============================================================================
