---------------------------- MODULE AnchorProofs ----------------------------
(***************************************************************************)
(* The safety properties of AnchorPipeline, and that it implements         *)
(* AnchorRegister, for every value of the constants.  The parts of IInv    *)
(* are proved preserved one by one, type correctness first; a part's proof *)
(* has one step per action that writes what the part reads.  Two lemmas    *)
(* carry most of the weight: SameRows, which says that a step leaves the   *)
(* identity of every journal row alone, and Reference, which says what     *)
(* every action that records a root writes.                                *)
(***************************************************************************)
EXTENDS AnchorInvariant, TLAPS

-----------------------------------------------------------------------------
(* Journal rows. *)

LEMMA PreparedRowFields ==
  ASSUME NEW j \in Jobs, epoch \in 0..MaxRestarts
  PROVE  /\ PreparedRow(j) \in Row
         /\ PreparedRow(j).status = "prepared"
         /\ PreparedRow(j).root = j.root
         /\ PreparedRow(j).note = j.note
         /\ PreparedRow(j).confirmed = FALSE
         /\ PreparedRow(j).preparedIn = epoch
<1>2. 0 \in 0..MaxRestarts
  BY PipelineAssumption DEF PipelineAssumption
<1>3. j.root \in Roots \cup {0} /\ j.note \in Notes \cup {0}
  BY DEF Jobs
<1> QED
  BY <1>2, <1>3 DEF PreparedRow, Row

LEMMA RecordedRowFields ==
  ASSUME NEW row \in Row, epoch \in 0..MaxRestarts, recordings \in Nat
  PROVE  /\ RecordedRow(row) \in Row
         /\ RecordedRow(row).status = "recorded"
         /\ RecordedRow(row).recordedIn = epoch
         /\ RecordedRow(row).root = row.root
         /\ RecordedRow(row).note = row.note
         /\ RecordedRow(row).confirmed = row.confirmed
         /\ RecordedRow(row).preparedIn = row.preparedIn
<1>1. recordings + 1 \in Nat
  OBVIOUS
<1>2. CASE row.confirmed = TRUE
  BY <1>1, <1>2 DEF RecordedRow, Row
<1>3. CASE row.confirmed = FALSE
  BY <1>1, <1>3 DEF RecordedRow, Row
<1> QED
  BY <1>2, <1>3 DEF Row

LEMMA ConfirmedRowFields ==
  ASSUME NEW row \in Row
  PROVE  /\ ConfirmedRow(row) \in Row
         /\ ConfirmedRow(row).status = row.status
         /\ ConfirmedRow(row).recordedIn = row.recordedIn
         /\ ConfirmedRow(row).root = row.root
         /\ ConfirmedRow(row).note = row.note
         /\ ConfirmedRow(row).confirmed = TRUE
         /\ ConfirmedRow(row).preparedIn = row.preparedIn
  BY DEF ConfirmedRow, Row

LEMMA ScheduledRowFields ==
  ASSUME NEW row \in Row, NEW due \in BOOLEAN
  PROVE  /\ ScheduledRow(row, due) \in Row
         /\ ScheduledRow(row, due).status = row.status
         /\ ScheduledRow(row, due).recordedIn = row.recordedIn
         /\ ScheduledRow(row, due).root = row.root
         /\ ScheduledRow(row, due).note = row.note
         /\ ScheduledRow(row, due).confirmed = row.confirmed
         /\ ScheduledRow(row, due).preparedIn = row.preparedIn
  BY DEF ScheduledRow, Row

LEMMA JournalUpdate ==
  ASSUME journal \in [EmbeddedTxs -> Row],
         NEW t, NEW row, t \in EmbeddedTxs => row \in Row
  PROVE  [journal EXCEPT ![t] = row] \in [EmbeddedTxs -> Row]
  OBVIOUS

LEMMA InitType == Init => TypeOK
<1> SUFFICES ASSUME Init PROVE TypeOK
  OBVIOUS
<1> USE PipelineAssumption DEF Init, PipelineAssumption
<1>1. rootTx \in [Roots -> Txs \cup {NoTx}] OBVIOUS
<1>2. rootHeight \in [Roots -> Heights] BY DEF Heights
<1>3. journal \in [EmbeddedTxs -> Row] BY DEF Row, AbsentRow
<1>4. job \in Jobs /\ polled \in Polls /\ claim \in Claims /\ cli \in Claims
  BY DEF Jobs, Polls, Claims, NoJob, NoPoll, NoClaim, Heights
<1>5. minedAt \in [Txs -> Heights] BY DEF Heights
<1>6. wallet \in [Notes -> {"untracked", "unspent", "spent"}]
  OBVIOUS
<1>7. chain \in [Txs -> {"unseen", "mempool", "mined", "expired"}]
  OBVIOUS
<1>8. /\ leaves \in 0..MaxLeaves /\ recordings \in Nat /\ tip \in Heights
      /\ reorgs \in 0..MaxReorgs /\ epoch \in 0..MaxRestarts
  BY DEF Heights
<1>9. /\ pc \in Labels /\ backoff \in BOOLEAN 
      /\ batch \subseteq EmbeddedTxs /\ delivered \subseteq Txs
  BY DEF Labels
<1> HIDE DEF Init
<1> QED BY <1>1, <1>2, <1>3, <1>4, <1>5, <1>6, <1>7, <1>8, <1>9 DEF TypeOK

LEMMA NextType == TypeOK /\ LoopInv /\ [Next]_vars => TypeOK'
<1> SUFFICES ASSUME TypeOK, LoopInv, [Next]_vars PROVE TypeOK'
  OBVIOUS
<1> USE PipelineAssumption DEF TypeOK, PipelineAssumption, vars, dbVars, loopVars, nodeVars
<1>1. CASE InsertLeaf
  BY <1>1 DEF InsertLeaf
<1>2. CASE Wake
  BY <1>2 DEF Wake, Goto, Labels, DueRows, Recorded
<1>3. ASSUME NEW t \in EmbeddedTxs, NEW answered \in BOOLEAN, Poll(t, answered) PROVE TypeOK'
  <2>1. minedAt[t] \in Heights /\ 0 \in Heights
    BY DEF Txs, Heights
  <2>2. polled' \in Polls
    <3>1. CASE answered = TRUE
      BY <1>3, <2>1, <3>1 DEF Poll, Polls
    <3>2. CASE answered = FALSE
      BY <1>3, <2>1, <3>2 DEF Poll, Polls
    <3> QED BY <3>1, <3>2
  <2> QED BY <1>3, <2>2 DEF Poll, Goto, Labels
<1>4. CASE ApplyConfirmation
  <2>1. journal' \in [EmbeddedTxs -> Row]
    BY <1>4, JournalUpdate, ConfirmedRowFields DEF ApplyConfirmation
  <2>2. polled' \in Polls
    BY <1>4 DEF ApplyConfirmation, NoPoll, Polls, Heights
  <2>3. polled.tx \in Txs \cup {NoTx} /\ polled.height \in Heights
    BY DEF Polls, Txs
  <2>4. rootTx' \in [Roots -> Txs \cup {NoTx}] /\ rootHeight' \in [Roots -> Heights]
    BY <1>4, <2>3 DEF ApplyConfirmation, RecordReference
  <2> QED BY <1>4, <2>1, <2>2, <2>4 DEF ApplyConfirmation, Goto, Labels
<1>5. CASE RejectConfirmation
  BY <1>5 DEF RejectConfirmation, Goto, Labels, NoPoll, Polls, Heights
<1>6. CASE RetryConfirmation
  <2>1. journal' \in [EmbeddedTxs -> Row]
    BY <1>6, JournalUpdate, ScheduledRowFields DEF RetryConfirmation
  <2>2. polled' \in Polls
    BY <1>6 DEF RetryConfirmation, NoPoll, Polls, Heights
  <2> QED BY <1>6, <2>1, <2>2 DEF RetryConfirmation, Goto, Labels
<1>7. CASE Reconciled
  BY <1>7 DEF Reconciled, Goto, Labels
<1>8. ASSUME NEW t \in EmbeddedTxs, ConfirmationDue(t) PROVE TypeOK'
  <2>1. journal' \in [EmbeddedTxs -> Row]
    BY <1>8, JournalUpdate, ScheduledRowFields DEF ConfirmationDue
  <2> QED BY <1>8, <2>1 DEF ConfirmationDue
<1>9. CASE BackoffExpires
  BY <1>9 DEF BackoffExpires
<1>10. ASSUME NEW elapsed \in BOOLEAN, MaybeAnchor(elapsed) PROVE TypeOK'
  BY <1>10 DEF MaybeAnchor, Goto, Labels
<1>11. CASE ResumePending
  BY <1>11 DEF ResumePending, Goto, Labels, Jobs, Row, Prepared
<1>12. CASE ReadRoot
  BY <1>12 DEF ReadRoot, Goto, Labels, Jobs, NoJob, Roots
<1>13. ASSUME NEW t \in EmbeddedTxs, NEW n \in Notes, Build(t, n) PROVE TypeOK'
  BY <1>13 DEF Build, Goto, Labels, Jobs, Unspent
<1>14. CASE BuildFails
  BY <1>14 DEF BuildFails, FailRun, Goto, Labels, NoJob, Jobs
<1>15. CASE Prepare
  <2>1. journal' \in [EmbeddedTxs -> Row]
    BY <1>15, JournalUpdate, PreparedRowFields DEF Prepare
  <2> QED BY <1>15, <2>1 DEF Prepare, Advance, Goto, Labels
<1>16. CASE PrepareFails
  BY <1>16 DEF PrepareFails, FailRun, Goto, Labels, NoJob, Jobs
<1>17. ASSUME NEW answered \in BOOLEAN, SendAccepted(answered) PROVE TypeOK'
  <2>1. delivered' \subseteq Txs
    BY <1>17 DEF SendAccepted, Accept, LoopInv, Prepared, Txs
  <2>2. chain' \in [Txs -> {"unseen", "mempool", "mined", "expired"}]
    BY <1>17 DEF SendAccepted, Accept
  <2>3. NoJob \in Jobs
    BY DEF NoJob, Jobs
  <2>4. Advance("settle") \/ FailRun
    BY <1>17 DEF SendAccepted
  <2>5. CASE Advance("settle")
    BY <1>17, <2>1, <2>2, <2>5 DEF SendAccepted, Accept, Advance, Goto, Labels
  <2>6. CASE FailRun
    BY <1>17, <2>1, <2>2, <2>3, <2>6 DEF SendAccepted, Accept, FailRun, Goto, Labels
  <2> QED BY <2>4, <2>5, <2>6
<1>18. CASE SendRefused
  BY <1>18 DEF SendRefused, Advance, Goto, Labels
<1>19. CASE SendFails
  BY <1>19 DEF SendFails, FailRun, Goto, Labels, NoJob, Jobs
<1>20. CASE ProbeKnown
  BY <1>20 DEF ProbeKnown, Advance, Goto, Labels
<1>21. CASE ProbeFails
  BY <1>21 DEF ProbeFails, FailRun, Goto, Labels, NoJob, Jobs
<1>22. CASE Settle
  BY <1>22 DEF Settle, Advance, Goto, Labels
<1>23. CASE SettleFails
  BY <1>23 DEF SettleFails, FailRun, Goto, Labels, NoJob, Jobs
<1>24. CASE Finalize
  <2>1. journal' \in [EmbeddedTxs -> Row]
    BY <1>24, JournalUpdate, RecordedRowFields DEF Finalize
  <2>2. job.tx \in Txs \cup {NoTx}
    BY DEF Jobs, Txs
  <2>3. rootTx' \in [Roots -> Txs \cup {NoTx}] /\ rootHeight' \in [Roots -> Heights]
    BY <1>24, <2>2 DEF Finalize, RecordReference
  <2>4. job' \in Jobs
    BY <1>24 DEF Finalize, NoJob, Jobs
  <2> QED BY <1>24, <2>1, <2>3, <2>4 DEF Finalize, Goto, Labels
<1>25. ASSUME NEW r \in Roots, NEW t \in Txs, AdminVerify(r, t) PROVE TypeOK'
  BY <1>25 DEF AdminVerify, Claims, Txs
<1>26. CASE AdminRecord
  <2>1. journal' \in [EmbeddedTxs -> Row]
    BY <1>26, ConfirmedRowFields DEF AdminRecord
  <2>2. claim.tx \in Txs \cup {NoTx} /\ claim.height \in Heights
    BY DEF Claims
  <2>3. rootTx' \in [Roots -> Txs \cup {NoTx}] /\ rootHeight' \in [Roots -> Heights]
    BY <1>26, <2>2 DEF AdminRecord, RecordReference
  <2>4. claim' \in Claims
    BY <1>26 DEF AdminRecord, NoClaim, Claims, Heights
  <2> QED BY <1>26, <2>1, <2>3, <2>4 DEF AdminRecord
<1>27. CASE AdminRefused
  BY <1>27 DEF AdminRefused, Claims, NoClaim, Heights
<1>28. ASSUME NEW t \in ManualTxs, CliSend(t) PROVE TypeOK'
  BY <1>28 DEF CliSend, Accept, Claims, Txs, Heights, Roots
<1>29. CASE CliRecordSent
  BY <1>29 DEF CliRecordSent, RecordReference, Claims, NoClaim, Heights, CliAllowed, Recordable
<1>30. ASSUME NEW r \in Roots, NEW t \in Txs, CliRecord(r, t) PROVE TypeOK'
  BY <1>30 DEF CliRecord, RecordReference, CliAllowed, Recordable
<1>31. ASSUME NEW t \in Txs, Mine(t) PROVE TypeOK'
  BY <1>31 DEF Mine, Heights
<1>32. ASSUME NEW t \in Txs, Reorg(t) PROVE TypeOK'
  BY <1>32 DEF Reorg, Heights
<1>33. ASSUME NEW t \in Txs, Forget(t) PROVE TypeOK'
  BY <1>33 DEF Forget
<1>34. ASSUME NEW n \in Notes, TrackNote(n) PROVE TypeOK'
  BY <1>34 DEF TrackNote
<1>35. ASSUME NEW t \in EmbeddedTxs, ObserveSpend(t) PROVE TypeOK'
  BY <1>35 DEF ObserveSpend
<1>36. CASE Restart
  <2>1. job' \in Jobs /\ polled' \in Polls /\ claim' \in Claims
    BY <1>36 DEF Restart, NoJob, Jobs, NoPoll, Polls, NoClaim, Claims, Heights
  <2>2. epoch' \in 0..MaxRestarts /\ wallet' \in [Notes -> {"untracked", "unspent", "spent"}]
    BY <1>36 DEF Restart
  <2>3. batch' \subseteq EmbeddedTxs
    BY <1>36 DEF Restart
  <2>4. pc' \in Labels /\ backoff' \in BOOLEAN
    BY <1>36 DEF Restart, Goto, Labels
  <2> QED BY <1>36, <2>1, <2>2, <2>3, <2>4 DEF Restart
<1>37. CASE UNCHANGED vars
  BY <1>37
<1> HIDE DEF TypeOK, vars
<1> QED
  BY <1>1, <1>2, <1>3, <1>4, <1>5, <1>6, <1>7, <1>8, <1>9, <1>10, <1>11, <1>12, <1>13, <1>14, <1>15, <1>16, <1>17, <1>18, <1>19, <1>20, <1>21, <1>22, <1>23, <1>24, <1>25, <1>26, <1>27, <1>28, <1>29, <1>30, <1>31, <1>32, <1>33, <1>34, <1>35, <1>36, <1>37
  DEF Next, ReconcileStep, RunStep, TimeStep, WalletStep, OperatorStep, NodeStep

-----------------------------------------------------------------------------
(* The journal. *)

\* A step that neither prepares nor finalizes keeps the rows: their status,
\* root, note and history.
SameRows ==
  /\ Prepared' = Prepared
  /\ Recorded' = Recorded
  /\ \A t \in EmbeddedTxs :
       /\ journal[t] = AbsentRow => journal'[t] = AbsentRow
       /\ journal'[t].root = journal[t].root
       /\ journal'[t].note = journal[t].note
       /\ journal'[t].preparedIn = journal[t].preparedIn
       /\ journal'[t].recordedIn = journal[t].recordedIn

LEMMA LoopTx ==
  ASSUME IInv
  PROVE  /\ pc = "apply" => polled.tx \in Recorded
         /\ pc \in {"send", "probe", "settle", "finalize"} => job.tx \in Prepared
         /\ pc = "prepare" => job.tx \in EmbeddedTxs \ Journalled
  BY DEF IInv, LoopInv

LEMMA RootsExist ==
  ASSUME IInv
  PROVE  /\ 1..leaves \subseteq Roots
         /\ \A t \in Journalled : journal[t].root \in Roots /\ t \in EmbeddedTxs
<1>1. 1..leaves \subseteq Roots
  BY PipelineAssumption DEF PipelineAssumption, IInv, TypeOK, Roots
<1>2. \A t \in Journalled : t \in EmbeddedTxs
  BY DEF Journalled, Prepared, Recorded
<1> QED
  BY <1>1, <1>2 DEF IInv, JournalInv

LEMMA OneRow ==
  ASSUME journal \in [EmbeddedTxs -> Row], NEW t \in Journalled, NEW row,
         row.status = journal[t].status, row.root = journal[t].root,
         row.note = journal[t].note,
         row.preparedIn = journal[t].preparedIn,
         row.recordedIn = journal[t].recordedIn,
         journal' = [journal EXCEPT ![t] = row]
  PROVE  SameRows
<1>1. t \in EmbeddedTxs /\ journal[t] # AbsentRow
  BY DEF Journalled, Prepared, Recorded, AbsentRow
<1>2. journal'[t] = row /\ \A u \in EmbeddedTxs \ {t} : journal'[u] = journal[u]
  BY <1>1
<1>3. \A u \in EmbeddedTxs : journal'[u].status = journal[u].status
  BY <1>2
<1>4. Prepared' = Prepared /\ Recorded' = Recorded
  BY <1>3 DEF Prepared, Recorded
<1> QED
  BY <1>1, <1>2, <1>4 DEF SameRows

LEMMA RowsKept ==
  ASSUME IInv, [Next]_vars
  PROVE  Prepare \/ Finalize \/ SameRows
<1>1. journal \in [EmbeddedTxs -> Row]
  BY DEF IInv, TypeOK
<1>2. CASE UNCHANGED journal
  BY <1>2 DEF SameRows, Prepared, Recorded
<1>3. CASE ApplyConfirmation
  <2>1. polled.tx \in Journalled /\ journal[polled.tx] \in Row
    BY <1>1, <1>3, LoopTx DEF ApplyConfirmation, Journalled, Recorded
  <2>2. journal' = [journal EXCEPT ![polled.tx] = ConfirmedRow(journal[polled.tx])]
    BY <1>3 DEF ApplyConfirmation
  <2> QED
    BY <1>1, <2>1, <2>2, OneRow, ConfirmedRowFields
<1>4. CASE RetryConfirmation
  <2>1. polled.tx \in Journalled /\ journal[polled.tx] \in Row
    BY <1>1, <1>4, LoopTx DEF RetryConfirmation, Journalled, Recorded
  <2>2. journal' = [journal EXCEPT ![polled.tx] = ScheduledRow(journal[polled.tx], FALSE)]
    BY <1>4 DEF RetryConfirmation
  <2> QED
    BY <1>1, <2>1, <2>2, OneRow, ScheduledRowFields
<1>5. ASSUME NEW t \in EmbeddedTxs, ConfirmationDue(t) PROVE SameRows
  <2>1. t \in Journalled /\ journal[t] \in Row
    BY <1>1, <1>5 DEF ConfirmationDue, Journalled
  <2>2. journal' = [journal EXCEPT ![t] = ScheduledRow(journal[t], TRUE)]
    BY <1>5 DEF ConfirmationDue
  <2> QED
    BY <1>1, <2>1, <2>2, OneRow, ScheduledRowFields
<1>6. CASE AdminRecord
  <2>1. \A t \in EmbeddedTxs :
          journal'[t] = IF t \in Prepared THEN ConfirmedRow(journal[t]) ELSE journal[t]
    BY <1>6 DEF AdminRecord
  <2>2. \A t \in EmbeddedTxs :
          /\ journal'[t].status = journal[t].status
          /\ journal'[t].root = journal[t].root
          /\ journal'[t].note = journal[t].note
          /\ journal'[t].preparedIn = journal[t].preparedIn
          /\ journal'[t].recordedIn = journal[t].recordedIn
    <3> SUFFICES ASSUME NEW t \in EmbeddedTxs
                 PROVE  /\ journal'[t].status = journal[t].status
                        /\ journal'[t].root = journal[t].root
                        /\ journal'[t].note = journal[t].note
                        /\ journal'[t].preparedIn = journal[t].preparedIn
                        /\ journal'[t].recordedIn = journal[t].recordedIn
      OBVIOUS
    <3>1. CASE t \notin Prepared
      BY <2>1, <3>1
    <3>2. CASE t \in Prepared
      <4>1. journal'[t] = ConfirmedRow(journal[t]) /\ journal[t] \in Row
        BY <1>1, <2>1, <3>2
      <4> QED
        BY <4>1, ConfirmedRowFields
    <3> QED
      BY <3>1, <3>2
  <2>3. Prepared' = Prepared /\ Recorded' = Recorded
    BY <2>2 DEF Prepared, Recorded
  <2>4. \A t \in EmbeddedTxs : journal[t] = AbsentRow => t \notin Prepared
    BY DEF Prepared, AbsentRow
  <2> QED
    BY <2>1, <2>2, <2>3, <2>4 DEF SameRows
<1>7. CASE UNCHANGED vars
  BY <1>2, <1>7 DEF vars, dbVars
<1>8. CASE Next
  <2> HIDE DEF SameRows, Prepared, Recorded
  <2> SUFFICES ASSUME ~Prepare, ~Finalize, ~AdminRecord, ~ApplyConfirmation,
                      ~RetryConfirmation, ~TimeStep
               PROVE  UNCHANGED journal
    BY <1>2, <1>3, <1>4, <1>5, <1>6 DEF TimeStep, BackoffExpires, dbVars
  <2>1. CASE InsertLeaf \/ Restart
    BY <2>1 DEF InsertLeaf, Restart, dbVars
  <2>2. CASE ReconcileStep
    BY <2>2 DEF ReconcileStep, Wake, Poll, RejectConfirmation, Reconciled, dbVars
  <2>3. CASE RunStep
    BY <2>3 DEF RunStep, MaybeAnchor, ResumePending, ReadRoot, Build, BuildFails,
      PrepareFails, SendAccepted, SendRefused, SendFails, ProbeKnown, ProbeFails,
      Settle, SettleFails, dbVars
  <2>4. CASE WalletStep
    BY <2>4 DEF WalletStep, TrackNote, ObserveSpend, dbVars
  <2>5. CASE OperatorStep
    BY <2>5 DEF OperatorStep, AdminVerify, AdminRefused, CliSend, CliRecordSent,
      CliRecord, dbVars
  <2>6. CASE NodeStep
    BY <2>6 DEF NodeStep, Mine, Reorg, Forget, dbVars
  <2> QED
    BY <1>8, <2>1, <2>2, <2>3, <2>4, <2>5, <2>6 DEF Next
<1> QED
  BY <1>7, <1>8

LEMMA LeavesGrow ==
  ASSUME TypeOK, [Next]_vars
  PROVE  leaves' = leaves \/ leaves' = leaves + 1
<1>1. CASE UNCHANGED vars
  BY <1>1 DEF vars, dbVars
<1>2. CASE InsertLeaf
  BY <1>2 DEF InsertLeaf
<1>3. CASE ReconcileStep
  BY <1>3 DEF ReconcileStep, Wake, Poll, ApplyConfirmation, RejectConfirmation,
    RetryConfirmation, Reconciled, dbVars
<1>4. CASE RunStep
  BY <1>4 DEF RunStep, MaybeAnchor, ResumePending, ReadRoot, Build, BuildFails,
    Prepare, PrepareFails, SendAccepted, SendRefused, SendFails, ProbeKnown,
    ProbeFails, Settle, SettleFails, Finalize, dbVars
<1>5. CASE TimeStep \/ WalletStep \/ Restart
  BY <1>5 DEF TimeStep, BackoffExpires, ConfirmationDue, WalletStep, TrackNote,
    ObserveSpend, Restart, dbVars
<1>6. CASE OperatorStep
  BY <1>6 DEF OperatorStep, AdminVerify, AdminRecord, AdminRefused, CliSend,
    CliRecordSent, CliRecord, dbVars
<1>7. CASE NodeStep
  BY <1>7 DEF NodeStep, Mine, Reorg, Forget, dbVars
<1> QED
  BY <1>1, <1>2, <1>3, <1>4, <1>5, <1>6, <1>7 DEF Next

LEMMA PrepareRows ==
  ASSUME IInv, Prepare
  PROVE  /\ Prepared = {} /\ Prepared' = {job.tx}
         /\ Recorded' = Recorded
         /\ job.tx \in EmbeddedTxs \ Journalled
         /\ \A t \in EmbeddedTxs \ {job.tx} : journal'[t] = journal[t]
         /\ journal'[job.tx] = PreparedRow(job)
<1>1. journal \in [EmbeddedTxs -> Row] /\ job \in Jobs /\ epoch \in 0..MaxRestarts
  BY DEF IInv, TypeOK
<1>2. job.tx \in EmbeddedTxs \ Journalled
  BY LoopTx DEF Prepare
<1> QED
  BY <1>1, <1>2, PreparedRowFields
  DEF Prepare, Preparable, Prepared, Recorded, Journalled

LEMMA FinalizeRows ==
  ASSUME IInv, Finalize
  PROVE  /\ job.tx \in Prepared
         /\ Prepared' = {}
         /\ Recorded' = Recorded \cup {job.tx}
         /\ \A t \in EmbeddedTxs \ {job.tx} : journal'[t] = journal[t]
         /\ journal'[job.tx] = RecordedRow(journal[job.tx])
<1>1. /\ journal \in [EmbeddedTxs -> Row]
      /\ epoch \in 0..MaxRestarts /\ recordings \in Nat
  BY DEF IInv, TypeOK
<1>2. job.tx \in Prepared /\ Prepared = {job.tx}
  BY LoopTx DEF Finalize, IInv, JournalInv
<1> QED
  BY <1>1, <1>2, RecordedRowFields DEF Finalize, Prepared, Recorded

LEMMA NextJournal == IInv /\ [Next]_vars => JournalInv'
<1> SUFFICES ASSUME IInv, [Next]_vars PROVE JournalInv'
  OBVIOUS
<1>1. leaves \in Nat /\ 1..leaves \subseteq 1..leaves'
  BY LeavesGrow DEF IInv, TypeOK
<1>2. JournalInv
  BY DEF IInv
<1>3. CASE SameRows
  <2>1. Journalled' = Journalled /\ Journalled \subseteq EmbeddedTxs
    BY <1>3 DEF SameRows, Journalled, Prepared, Recorded
  <2> QED
    BY <1>1, <1>2, <1>3, <2>1 DEF SameRows, JournalInv
<1>4. CASE Prepare
  <2>1. job.root \in 1..leaves /\ job.note \in Notes
    BY <1>4 DEF Prepare, IInv, LoopInv
  <2>2. \A t \in Journalled : journal[t].root # job.root
    BY <1>4 DEF Prepare, Preparable
  <2>3. journal'[job.tx].root = job.root /\ journal'[job.tx].note = job.note
    BY <1>4, PrepareRows, PreparedRowFields DEF IInv, TypeOK
  <2>4. Journalled' = Journalled \cup {job.tx} /\ job.tx \notin Journalled
    BY <1>4, PrepareRows DEF Journalled
  <2>5. \A t \in EmbeddedTxs \ {job.tx} : journal'[t] = journal[t]
    BY <1>4, PrepareRows
  <2>6. \A t, u \in Prepared' : t = u
    BY <1>4, PrepareRows
  <2>7. Journalled' \subseteq EmbeddedTxs
    BY DEF Journalled, Prepared, Recorded
  <2> QED
    BY <1>1, <1>2, <2>1, <2>2, <2>3, <2>4, <2>5, <2>6, <2>7 DEF JournalInv
<1>5. CASE Finalize
  <2>1. /\ journal'[job.tx].root = journal[job.tx].root
        /\ journal'[job.tx].note = journal[job.tx].note
    BY <1>5, FinalizeRows, RecordedRowFields DEF IInv, TypeOK, Prepared
  <2>2. Journalled' = Journalled /\ job.tx \in Journalled
    <3>1. Prepared = {job.tx}
      BY <1>2, <1>5, FinalizeRows DEF JournalInv
    <3> QED
      BY <1>5, <3>1, FinalizeRows DEF Journalled
  <2>3. \A t \in EmbeddedTxs \ {job.tx} : journal'[t] = journal[t]
    BY <1>5, FinalizeRows
  <2>4. Prepared' = {}
    BY <1>5, FinalizeRows
  <2>5. Journalled \subseteq EmbeddedTxs
    BY DEF Journalled, Prepared, Recorded
  <2> QED
    BY <1>1, <1>2, <2>1, <2>2, <2>3, <2>4, <2>5 DEF JournalInv
<1> QED
  BY <1>3, <1>4, <1>5, RowsKept

-----------------------------------------------------------------------------
(* The root table. *)

\* A step writes one reference.
Reference(r, t, h) ==
  /\ r \in 1..leaves /\ r \in Roots /\ t \in Txs /\ h \in Heights
  /\ Recordable(r, t, h)
  /\ RecordReference(r, t, h)
  /\ leaves' = leaves

LEMMA ReferenceTable ==
  ASSUME TypeOK, NEW r, NEW t, NEW h, Reference(r, t, h)
  PROVE  /\ rootTx'[r] = t
         /\ \A q \in Roots \ {r} : rootTx'[q] = rootTx[q]
         /\ \A q \in Roots \ {r} : rootHeight'[q] = rootHeight[q]
         /\ rootHeight'[r] = IF h = 0 THEN rootHeight[r] ELSE h
  BY DEF TypeOK, Reference, RecordReference

LEMMA ReferenceKeeps ==
  ASSUME IInv, NEW r, NEW t, NEW h, Reference(r, t, h),
         t \in EmbeddedTxs => t \in Journalled /\ journal[t].root = r,
         \A p \in Prepared : journal[p].root = r => p = t
  PROVE  /\ \A q \in Roots : rootTx'[q] # NoTx => q \in 1..leaves
         /\ \A q \in Roots : rootTx'[q] = NoTx => rootHeight'[q] = 0
         /\ \A p, q \in Roots : rootTx'[p] = rootTx'[q] /\ rootTx'[p] # NoTx => p = q
         /\ \A q \in Roots : rootTx'[q] \in EmbeddedTxs =>
              rootTx'[q] \in Journalled /\ journal[rootTx'[q]].root = q
         /\ \A u \in Prepared : rootTx'[journal[u].root] \in {NoTx, u}
         /\ \A u \in Recorded : rootTx'[journal[u].root] = u
         /\ \A u \in Journalled : journal[u].confirmed =>
              rootTx'[journal[u].root] = u /\ rootHeight'[journal[u].root] > 0
<1>1. TypeOK /\ JournalInv /\ RootInv
  BY DEF IInv
<1>2. t # NoTx /\ r \in Roots /\ r \in 1..leaves /\ h \in Heights
  BY PipelineAssumption DEF PipelineAssumption, Reference, Txs
<1>3. \A u \in Journalled : journal[u].root \in Roots /\ u # NoTx /\ u \in EmbeddedTxs
  BY <1>1, PipelineAssumption
  DEF PipelineAssumption, JournalInv, TypeOK, Roots, Journalled, Prepared, Recorded
<1>4. \/ rootTx[r] = NoTx /\ \A q \in Roots : rootTx[q] # t
      \/ rootTx[r] = t
  BY DEF Reference, Recordable
<1>5. rootHeight[r] \in Nat /\ h \in Nat
  BY <1>1, <1>2, PipelineAssumption DEF TypeOK, Heights, PipelineAssumption
<1>6. /\ \A q \in Roots : rootTx'[q] # NoTx => q \in 1..leaves
      /\ \A q \in Roots : rootTx'[q] = NoTx => rootHeight'[q] = 0
      /\ \A p, q \in Roots : rootTx'[p] = rootTx'[q] /\ rootTx'[p] # NoTx => p = q
      /\ \A q \in Roots : rootTx'[q] \in EmbeddedTxs =>
           rootTx'[q] \in Journalled /\ journal[rootTx'[q]].root = q
  BY <1>1, <1>2, <1>4, ReferenceTable DEF RootInv
<1>7. \A u \in Journalled : rootTx[journal[u].root] = u =>
        /\ rootTx'[journal[u].root] = u
        /\ rootHeight[journal[u].root] > 0 => rootHeight'[journal[u].root] > 0
  <2> SUFFICES ASSUME NEW u \in Journalled, rootTx[journal[u].root] = u
               PROVE  /\ rootTx'[journal[u].root] = u
                      /\ rootHeight[journal[u].root] > 0 => rootHeight'[journal[u].root] > 0
    OBVIOUS
  <2>1. CASE journal[u].root = r
    BY <1>1, <1>2, <1>3, <1>4, <1>5, <2>1, ReferenceTable
  <2>2. CASE journal[u].root # r
    BY <1>1, <1>3, <2>2, ReferenceTable
  <2> QED
    BY <2>1, <2>2
<1>8. \A u \in Prepared : rootTx'[journal[u].root] \in {NoTx, u}
  BY <1>1, <1>3, ReferenceTable DEF RootInv, Journalled
<1>9. \A u \in Recorded : rootTx'[journal[u].root] = u
  BY <1>1, <1>7 DEF RootInv, Journalled
<1>10. \A u \in Journalled : journal[u].confirmed =>
         rootTx'[journal[u].root] = u /\ rootHeight'[journal[u].root] > 0
  BY <1>1, <1>7 DEF RootInv
<1> QED
  BY <1>6, <1>8, <1>9, <1>10

\* A transaction the operator names is at its own root: one that the node
\* accepted is journalled, and when no row is prepared it is recorded.
LEMMA NamedTx ==
  ASSUME IInv, NEW r \in Roots, NEW t \in EmbeddedTxs, NEW h,
         t \in delivered, Recordable(r, t, h), t \notin Prepared
  PROVE  t \in Journalled /\ journal[t].root = r
<1>1. t \in Recorded /\ t \in Journalled
  BY DEF IInv, NodeInv, Sent, Journalled
<1>2. rootTx[journal[t].root] = t /\ journal[t].root \in Roots /\ t # NoTx
  BY <1>1, PipelineAssumption
  DEF IInv, RootInv, JournalInv, TypeOK, Roots, PipelineAssumption
<1> QED
  BY <1>1, <1>2 DEF Recordable, IInv, RootInv

LEMMA DeliveredGrow ==
  ASSUME [Next]_vars
  PROVE  delivered \subseteq delivered'
<1>1. CASE UNCHANGED vars
  BY <1>1 DEF vars, nodeVars
<1>2. CASE InsertLeaf \/ Restart
  BY <1>2 DEF InsertLeaf, Restart, nodeVars
<1>3. CASE ReconcileStep
  BY <1>3 DEF ReconcileStep, Wake, Poll, ApplyConfirmation, RejectConfirmation,
    RetryConfirmation, Reconciled, nodeVars
<1>4. CASE RunStep
  BY <1>4 DEF RunStep, MaybeAnchor, ResumePending, ReadRoot, Build, BuildFails,
    Prepare, PrepareFails, SendAccepted, Accept, SendRefused, SendFails, ProbeKnown,
    ProbeFails, Settle, SettleFails, Finalize, nodeVars
<1>5. CASE TimeStep \/ WalletStep
  BY <1>5 DEF TimeStep, BackoffExpires, ConfirmationDue, WalletStep, TrackNote,
    ObserveSpend, nodeVars
<1>6. CASE OperatorStep
  BY <1>6 DEF OperatorStep, AdminVerify, AdminRecord, AdminRefused, CliSend,
    Accept, CliRecordSent, CliRecord, nodeVars
<1>7. CASE NodeStep
  BY <1>7 DEF NodeStep, Mine, Reorg, Forget
<1> QED
  BY <1>1, <1>2, <1>3, <1>4, <1>5, <1>6, <1>7 DEF Next

\* The steps that touch the root table or the rows.
LEMMA TableSteps ==
  ASSUME [Next]_vars
  PROVE  \/ UNCHANGED <<rootTx, rootHeight, journal>>
         \/ RetryConfirmation
         \/ \E t \in EmbeddedTxs : ConfirmationDue(t)
         \/ Prepare
         \/ ApplyConfirmation
         \/ Finalize
         \/ AdminRecord
         \/ CliRecordSent
         \/ \E r \in Roots, t \in Txs : CliRecord(r, t)
<1>1. CASE UNCHANGED vars
  BY <1>1 DEF vars, dbVars
<1>2. CASE InsertLeaf \/ Restart
  BY <1>2 DEF InsertLeaf, Restart, dbVars
<1>3. CASE ReconcileStep
  BY <1>3 DEF ReconcileStep, Wake, Poll, RejectConfirmation, Reconciled, dbVars
<1>4. CASE RunStep
  BY <1>4 DEF RunStep, MaybeAnchor, ResumePending, ReadRoot, Build, BuildFails,
    PrepareFails, SendAccepted, SendRefused, SendFails, ProbeKnown,
    ProbeFails, Settle, SettleFails, dbVars
<1>5. CASE TimeStep \/ WalletStep
  BY <1>5 DEF TimeStep, BackoffExpires, WalletStep, TrackNote, ObserveSpend, dbVars
<1>6. CASE OperatorStep
  BY <1>6 DEF OperatorStep, AdminVerify, AdminRefused, CliSend, dbVars
<1>7. CASE NodeStep
  BY <1>7 DEF NodeStep, Mine, Reorg, Forget, dbVars
<1> QED
  BY <1>1, <1>2, <1>3, <1>4, <1>5, <1>6, <1>7 DEF Next

\* The reference each of the writing steps records.
LEMMA ApplyReference ==
  ASSUME IInv, ApplyConfirmation
  PROVE  /\ Reference(journal[polled.tx].root, polled.tx, polled.height)
         /\ polled.tx \in Recorded /\ polled.height > 0
<1>1. polled.tx \in Recorded /\ journal[polled.tx].root \in Roots
  BY LoopTx, RootsExist DEF ApplyConfirmation, Journalled
<1>2. polled.height \in Heights
  BY DEF IInv, TypeOK, Polls
<1> QED
  BY <1>1, <1>2 DEF ApplyConfirmation, Reference, Recordable, Recorded, Txs

LEMMA FinalizeReference ==
  ASSUME IInv, Finalize
  PROVE  Reference(journal[job.tx].root, job.tx, 0)
<1>1. job.tx \in Prepared /\ journal[job.tx].root \in Roots
  BY LoopTx, RootsExist DEF Finalize, Journalled
<1>2. 0 \in Heights
  BY PipelineAssumption DEF PipelineAssumption, Heights
<1> QED
  BY <1>1, <1>2 DEF Finalize, Reference, Recordable, Prepared, Txs

LEMMA AdminReference ==
  ASSUME IInv, AdminRecord
  PROVE  /\ Reference(claim.root, claim.tx, claim.height)
         /\ claim.height > 0
         /\ claim.tx \in EmbeddedTxs =>
              claim.tx \in Journalled /\ journal[claim.tx].root = claim.root
         /\ \A p \in Prepared : p = claim.tx /\ journal[p].root = claim.root
<1>1. claim.tx \in delivered /\ claim.height > 0 /\ claim.tx \in Txs
  BY DEF AdminRecord, IInv, OperatorInv, TypeOK
<1>2. /\ \A p \in Prepared : p = claim.tx /\ journal[p].root = claim.root
      /\ Recordable(claim.root, claim.tx, claim.height)
  BY DEF AdminRecord, AdminAllowed
<1>3. claim.root \in Roots
  BY <1>2, RootsExist DEF Recordable
<1>4. Reference(claim.root, claim.tx, claim.height)
  BY <1>1, <1>2, <1>3 DEF AdminRecord, Reference, Recordable, IInv, TypeOK, Claims
<1>5. ASSUME claim.tx \in EmbeddedTxs
      PROVE  claim.tx \in Journalled /\ journal[claim.tx].root = claim.root
  <2>1. CASE claim.tx \in Prepared
    BY <1>2, <2>1 DEF Journalled
  <2>2. CASE claim.tx \notin Prepared
    BY <1>1, <1>2, <1>3, <1>5, <2>2, NamedTx
  <2> QED
    BY <2>1, <2>2
<1> QED
  BY <1>1, <1>2, <1>4, <1>5

LEMMA CliSentReference ==
  ASSUME IInv, CliRecordSent
  PROVE  /\ cli.tx \in ManualTxs
         /\ \/ UNCHANGED <<rootTx, rootHeight>>
            \/ Prepared = {} /\ Reference(cli.root, cli.tx, 0)
<1>1. cli.tx \in ManualTxs /\ cli.root \in 1..leaves
  BY DEF CliRecordSent, IInv, OperatorInv
<1>2. 0 \in Heights /\ cli.root \in Roots
  BY <1>1, PipelineAssumption DEF PipelineAssumption, Heights, IInv, TypeOK, Roots
<1> QED
  BY <1>1, <1>2 DEF CliRecordSent, CliAllowed, Reference, Txs

LEMMA CliReference ==
  ASSUME IInv, NEW r \in Roots, NEW t \in Txs, CliRecord(r, t)
  PROVE  /\ Reference(r, t, minedAt[t])
         /\ Prepared = {}
         /\ t \in EmbeddedTxs => t \in Journalled /\ journal[t].root = r
<1>1. minedAt[t] \in Heights /\ t \in delivered
  BY DEF CliRecord, IInv, TypeOK, NodeInv, Known
<1>2. Prepared = {} /\ Recordable(r, t, minedAt[t])
  BY DEF CliRecord, CliAllowed
<1>3. Reference(r, t, minedAt[t])
  BY <1>1, <1>2 DEF CliRecord, Reference, Recordable
<1> QED
  BY <1>1, <1>2, <1>3, NamedTx

LEMMA NextRoot == IInv /\ [Next]_vars => RootInv'
<1> SUFFICES ASSUME IInv, [Next]_vars PROVE RootInv'
  OBVIOUS
<1>1. /\ 1..leaves \subseteq 1..leaves'
      /\ delivered \subseteq delivered'
      /\ journal \in [EmbeddedTxs -> Row]
      /\ RootInv /\ JournalInv
  BY LeavesGrow, DeliveredGrow DEF IInv, TypeOK
<1>2. CASE UNCHANGED <<rootTx, rootHeight, journal>>
  BY <1>1, <1>2 DEF RootInv, Prepared, Recorded, Journalled
<1>3. ASSUME SameRows, UNCHANGED <<rootTx, rootHeight>>,
             \A t \in EmbeddedTxs : journal'[t].confirmed = journal[t].confirmed
      PROVE  RootInv'
  BY <1>1, <1>3, RootsExist DEF RootInv, SameRows, Journalled
<1>4. CASE RetryConfirmation
  <2>1. SameRows
    BY <1>4, RowsKept DEF RetryConfirmation, Prepare, Finalize
  <2>2. \A t \in EmbeddedTxs : journal'[t].confirmed = journal[t].confirmed
    <3>1. /\ polled.tx \in EmbeddedTxs
          /\ ScheduledRow(journal[polled.tx], FALSE).confirmed = journal[polled.tx].confirmed
      BY <1>1, <1>4, LoopTx, ScheduledRowFields DEF RetryConfirmation, Recorded
    <3> QED
      BY <1>1, <1>4, <3>1 DEF RetryConfirmation
  <2> QED
    BY <1>3, <1>4, <2>1, <2>2 DEF RetryConfirmation
<1>5. ASSUME NEW u \in EmbeddedTxs, ConfirmationDue(u) PROVE RootInv'
  <2>1. SameRows
    BY <1>1, <1>5, OneRow, ScheduledRowFields DEF ConfirmationDue, Journalled
  <2>2. \A t \in EmbeddedTxs : journal'[t].confirmed = journal[t].confirmed
    <3>1. ScheduledRow(journal[u], TRUE).confirmed = journal[u].confirmed
      BY <1>1, ScheduledRowFields
    <3> QED
      BY <1>1, <1>5, <3>1 DEF ConfirmationDue
  <2> QED
    BY <1>3, <1>5, <2>1, <2>2 DEF ConfirmationDue
<1>6. CASE Prepare
  <2>1. /\ Prepared = {} /\ Prepared' = {job.tx} /\ Recorded' = Recorded
        /\ Journalled' = Journalled \cup {job.tx} /\ job.tx \notin Journalled
        /\ \A t \in Journalled : journal'[t] = journal[t]
    BY <1>6, PrepareRows, RootsExist DEF Journalled
  <2>2. journal'[job.tx].root = job.root /\ journal'[job.tx].confirmed = FALSE
    BY <1>6, PrepareRows, PreparedRowFields DEF IInv, TypeOK
  <2>3. rootTx[job.root] = NoTx /\ UNCHANGED <<rootTx, rootHeight>>
    BY <1>6 DEF Prepare, Preparable
  <2> QED
    BY <1>1, <2>1, <2>2, <2>3 DEF RootInv, Journalled
<1>7. CASE ApplyConfirmation
  <2> DEFINE t == polled.tx
  <2>1. /\ Reference(journal[t].root, t, polled.height)
        /\ t \in Recorded /\ polled.height > 0
    BY <1>7, ApplyReference
  <2>2. SameRows
    BY <1>7, RowsKept DEF ApplyConfirmation, Prepare, Finalize
  <2>3. \A u \in EmbeddedTxs \ {t} : journal'[u].confirmed = journal[u].confirmed
    BY <1>1, <1>7 DEF ApplyConfirmation
  <2>4. \A p \in Prepared : journal[p].root = journal[t].root => p = t
    BY <1>1, <2>1 DEF JournalInv, Journalled
  <2>5. rootTx'[journal[t].root] = t /\ rootHeight'[journal[t].root] > 0
    BY <2>1, ReferenceTable DEF IInv
  <2> QED
    BY <1>1, <2>1, <2>2, <2>3, <2>4, <2>5, ReferenceKeeps, RootsExist
    DEF RootInv, SameRows, Journalled
<1>8. CASE Finalize
  <2> DEFINE t == job.tx
  <2>1. /\ Reference(journal[t].root, t, 0) /\ t \in Prepared /\ t \in delivered
    BY <1>8, FinalizeReference, FinalizeRows DEF Finalize, IInv, LoopInv
  <2>2. /\ Prepared = {t} /\ Prepared' = {} /\ Recorded' = Recorded \cup {t}
        /\ Journalled' = Journalled
    BY <1>1, <1>8, FinalizeRows DEF JournalInv, Journalled
  <2>3. \A u \in Journalled : /\ journal'[u].root = journal[u].root
                              /\ journal'[u].confirmed = journal[u].confirmed
    BY <1>1, <1>8, FinalizeRows, RecordedRowFields, RootsExist DEF IInv, TypeOK
  <2>4. rootTx'[journal[t].root] = t
    BY <2>1, ReferenceTable DEF IInv
  <2>5. \A p \in Prepared : journal[p].root = journal[t].root => p = t
    BY <2>2
  <2> QED
    BY <1>1, <2>1, <2>2, <2>3, <2>4, <2>5, ReferenceKeeps DEF RootInv, Journalled
<1>9. CASE AdminRecord
  <2>1. /\ Reference(claim.root, claim.tx, claim.height)
        /\ claim.height > 0
        /\ claim.tx \in EmbeddedTxs =>
             claim.tx \in Journalled /\ journal[claim.tx].root = claim.root
        /\ \A p \in Prepared : p = claim.tx /\ journal[p].root = claim.root
    BY <1>9, AdminReference
  <2>2. SameRows
    BY <1>9, RowsKept DEF AdminRecord, NoClaim, Prepare, Finalize
  <2>3. \A u \in EmbeddedTxs \ Prepared : journal'[u].confirmed = journal[u].confirmed
    BY <1>1, <1>9 DEF AdminRecord
  <2>4. rootTx'[claim.root] = claim.tx /\ rootHeight'[claim.root] > 0
    BY <2>1, ReferenceTable DEF IInv
  <2> QED
    BY <1>1, <2>1, <2>2, <2>3, <2>4, ReferenceKeeps, RootsExist
    DEF RootInv, SameRows, Journalled
<1>10. CASE CliRecordSent
  <2>1. cli.tx \notin EmbeddedTxs
    BY <1>10, CliSentReference, PipelineAssumption DEF PipelineAssumption
  <2>2. UNCHANGED journal
    BY <1>10 DEF CliRecordSent
  <2> QED
    BY <1>1, <1>2, <1>10, <2>1, <2>2, CliSentReference, ReferenceKeeps
    DEF RootInv, Journalled, Prepared, Recorded
<1>11. ASSUME NEW r \in Roots, NEW t \in Txs, CliRecord(r, t) PROVE RootInv'
  <2>1. UNCHANGED journal
    BY <1>11 DEF CliRecord
  <2> QED
    BY <1>1, <1>11, <2>1, CliReference, ReferenceKeeps
    DEF RootInv, Journalled, Prepared, Recorded
<1> QED
  BY <1>2, <1>4, <1>5, <1>6, <1>7, <1>8, <1>9, <1>10, <1>11, TableSteps

-----------------------------------------------------------------------------
(* The node. *)

LEMMA JournalledGrow ==
  ASSUME IInv, [Next]_vars
  PROVE  Journalled \subseteq Journalled'
<1>1. CASE Prepare
  BY <1>1, PrepareRows DEF Journalled
<1>2. CASE Finalize
  BY <1>2, FinalizeRows DEF Journalled, IInv, JournalInv
<1>3. CASE SameRows
  BY <1>3 DEF SameRows, Journalled
<1> QED
  BY <1>1, <1>2, <1>3, RowsKept

LEMMA NodeSteps ==
  ASSUME [Next]_vars
  PROVE  \/ UNCHANGED <<chain, minedAt, tip, delivered, reorgs>>
         \/ \E answered \in BOOLEAN : SendAccepted(answered)
         \/ \E t \in ManualTxs : CliSend(t)
         \/ NodeStep
<1>1. CASE UNCHANGED vars
  BY <1>1 DEF vars, nodeVars
<1>2. CASE InsertLeaf \/ Restart
  BY <1>2 DEF InsertLeaf, Restart, nodeVars
<1>3. CASE ReconcileStep
  BY <1>3 DEF ReconcileStep, Wake, Poll, ApplyConfirmation, RejectConfirmation,
    RetryConfirmation, Reconciled, nodeVars
<1>4. CASE RunStep
  BY <1>4 DEF RunStep, MaybeAnchor, ResumePending, ReadRoot, Build, BuildFails,
    Prepare, PrepareFails, SendRefused, SendFails, ProbeKnown,
    ProbeFails, Settle, SettleFails, Finalize, nodeVars
<1>5. CASE TimeStep \/ WalletStep
  BY <1>5 DEF TimeStep, BackoffExpires, ConfirmationDue, WalletStep, TrackNote,
    ObserveSpend, nodeVars
<1>6. CASE OperatorStep
  BY <1>6 DEF OperatorStep, AdminVerify, AdminRecord, AdminRefused,
    CliRecordSent, CliRecord, nodeVars
<1> QED
  BY <1>1, <1>2, <1>3, <1>4, <1>5, <1>6 DEF Next

\* The node accepts a transaction: it is then known, and not mined.
LEMMA AcceptKeeps ==
  ASSUME IInv, NEW t \in Txs, chain[t] = "unseen", Accept(t)
  PROVE  /\ \A u \in Txs : Known(u)' => u \in delivered'
         /\ \A u \in Txs : chain'[u] = "mined" <=> minedAt'[u] > 0
<1>1. /\ chain \in [Txs -> {"unseen", "mempool", "mined", "expired"}]
      /\ NodeInv
  BY DEF IInv, TypeOK
<1>2. /\ chain'[t] = "mempool"
      /\ \A u \in Txs \ {t} : chain'[u] = chain[u]
      /\ delivered' = delivered \cup {t}
      /\ minedAt' = minedAt
  BY <1>1 DEF Accept
<1> QED
  BY <1>1, <1>2 DEF NodeInv, Known

LEMMA NextNode == IInv /\ [Next]_vars => NodeInv'
<1> SUFFICES ASSUME IInv, [Next]_vars PROVE NodeInv'
  OBVIOUS
<1>1. /\ chain \in [Txs -> {"unseen", "mempool", "mined", "expired"}]
      /\ minedAt \in [Txs -> Heights] /\ tip \in Nat
      /\ NodeInv /\ Journalled \subseteq Journalled'
  BY JournalledGrow, PipelineAssumption
  DEF IInv, TypeOK, Heights, PipelineAssumption
<1>2. CASE UNCHANGED <<chain, minedAt, tip, delivered, reorgs>>
  BY <1>1, <1>2 DEF NodeInv, Known, Sent
<1>3. ASSUME NEW answered \in BOOLEAN, SendAccepted(answered) PROVE NodeInv'
  <2>1. job.tx \in Prepared /\ job.tx \in Txs /\ job.tx \in Journalled
    BY <1>3, LoopTx DEF SendAccepted, Prepared, Txs, Journalled
  <2>2. delivered' = delivered \cup {job.tx}
    BY <1>3 DEF SendAccepted, Accept
  <2> QED
    BY <1>1, <1>3, <2>1, <2>2, AcceptKeeps DEF SendAccepted, Acceptable, NodeInv, Sent
<1>4. ASSUME NEW t \in ManualTxs, CliSend(t) PROVE NodeInv'
  <2>1. t \in Txs /\ t \notin EmbeddedTxs
    BY PipelineAssumption DEF PipelineAssumption, Txs
  <2>2. delivered' = delivered \cup {t}
    BY <1>4 DEF CliSend, Accept
  <2> QED
    BY <1>1, <1>4, <2>1, <2>2, AcceptKeeps DEF CliSend, NodeInv, Sent
<1>5. ASSUME NEW t \in Txs, Mine(t) PROVE NodeInv'
  <2>1. /\ chain[t] = "mempool" /\ chain'[t] = "mined" /\ minedAt'[t] = tip + 1
        /\ \A u \in Txs \ {t} : chain'[u] = chain[u] /\ minedAt'[u] = minedAt[u]
        /\ delivered' = delivered
    BY <1>1, <1>5 DEF Mine
  <2> QED
    BY <1>1, <2>1 DEF NodeInv, Known, Sent
<1>6. ASSUME NEW t \in Txs, Reorg(t) PROVE NodeInv'
  <2>1. /\ chain[t] = "mined" /\ chain'[t] = "mempool" /\ minedAt'[t] = 0
        /\ \A u \in Txs \ {t} : chain'[u] = chain[u] /\ minedAt'[u] = minedAt[u]
        /\ delivered' = delivered
    BY <1>1, <1>6 DEF Reorg
  <2> QED
    BY <1>1, <2>1 DEF NodeInv, Known, Sent
<1>7. ASSUME NEW t \in Txs, Forget(t) PROVE NodeInv'
  <2>1. /\ chain[t] # "mined" /\ chain'[t] \in {"unseen", "expired"}
        /\ \A u \in Txs \ {t} : chain'[u] = chain[u]
        /\ delivered' = delivered /\ minedAt' = minedAt
    BY <1>1, <1>7 DEF Forget
  <2> QED
    BY <1>1, <2>1 DEF NodeInv, Known, Sent
<1> QED
  BY <1>2, <1>3, <1>4, <1>5, <1>6, <1>7, NodeSteps DEF NodeStep

-----------------------------------------------------------------------------
(* The operator. *)

LEMMA NextOperator == IInv /\ [Next]_vars => OperatorInv'
<1> SUFFICES ASSUME IInv, [Next]_vars PROVE OperatorInv'
  OBVIOUS
<1>1. /\ OperatorInv /\ NodeInv /\ delivered \subseteq delivered'
      /\ leaves \in Nat /\ 1..leaves \subseteq 1..leaves'
  BY LeavesGrow, DeliveredGrow DEF IInv, TypeOK
<1>2. CASE UNCHANGED <<claim, cli>>
  BY <1>1, <1>2 DEF OperatorInv
<1>3. ASSUME NEW r \in Roots, NEW t \in Txs, AdminVerify(r, t) PROVE OperatorInv'
  BY <1>1, <1>3 DEF AdminVerify, OperatorInv, NodeInv, Known
<1>4. CASE AdminRecord \/ AdminRefused \/ Restart
  BY <1>1, <1>4 DEF AdminRecord, AdminRefused, Restart, OperatorInv
<1>5. ASSUME NEW t \in ManualTxs, CliSend(t) PROVE OperatorInv'
  <2>1. cli'.tx = t /\ cli'.root = leaves /\ leaves > 0 /\ claim' = claim
    BY <1>5 DEF CliSend
  <2> QED
    BY <1>1, <2>1 DEF OperatorInv
<1>6. CASE CliRecordSent
  BY <1>1, <1>6 DEF CliRecordSent, OperatorInv
<1>7. CASE UNCHANGED vars
  BY <1>2, <1>7 DEF vars
<1>8. CASE InsertLeaf
  BY <1>2, <1>8 DEF InsertLeaf
<1>9. CASE ReconcileStep
  BY <1>2, <1>9 DEF ReconcileStep, Wake, Poll, ApplyConfirmation, RejectConfirmation,
    RetryConfirmation, Reconciled
<1>10. CASE RunStep
  BY <1>2, <1>10 DEF RunStep, MaybeAnchor, ResumePending, ReadRoot, Build, BuildFails,
    Prepare, PrepareFails, SendAccepted, SendRefused, SendFails, ProbeKnown,
    ProbeFails, Settle, SettleFails, Finalize
<1>11. CASE TimeStep \/ WalletStep
  BY <1>2, <1>11 DEF TimeStep, BackoffExpires, ConfirmationDue, WalletStep, TrackNote,
    ObserveSpend
<1>12. ASSUME NEW r \in Roots, NEW t \in Txs, CliRecord(r, t) PROVE OperatorInv'
  BY <1>2, <1>12 DEF CliRecord
<1>13. CASE NodeStep
  BY <1>2, <1>13 DEF NodeStep, Mine, Reorg, Forget
<1> QED
  BY <1>3, <1>4, <1>5, <1>6, <1>7, <1>8, <1>9, <1>10, <1>11, <1>12, <1>13
  DEF Next, OperatorStep

-----------------------------------------------------------------------------
(* The anchor loop. *)

\* A spent note stays spent until a restart.
SpentStay == \A n \in Notes : wallet[n] = "spent" => wallet'[n] = "spent"

\* A step of another actor.
LEMMA LoopCalm ==
  ASSUME IInv, SameRows, UNCHANGED <<pc, job, batch, polled>>, SpentStay,
         1..leaves \subseteq 1..leaves', leaves' \in Nat,
         delivered \subseteq delivered'
  PROVE  LoopInv'
<1>1. Prepared' = Prepared /\ Recorded' = Recorded /\ Journalled' = Journalled
  BY DEF SameRows, Journalled
<1>2. \A t \in Journalled : /\ journal'[t].root = journal[t].root
                            /\ journal'[t].note = journal[t].note
                            /\ journal[t].note \in Notes
  BY RootsExist DEF SameRows, IInv, JournalInv
<1>3. leaves \in Nat
  BY DEF IInv, TypeOK
<1>4. (leaves > 0) => (leaves' > 0)
  BY <1>3
<1>5. LoopInv
  BY DEF IInv
<1> QED
  BY <1>1, <1>2, <1>4, <1>5 DEF LoopInv, SpentStay, Journalled

\* A step back to the start of a round.
LEMMA LoopIdle ==
  ASSUME IInv, pc' \in {"sleep", "poll", "check"}, batch' \subseteq Recorded'
  PROVE  LoopInv'
  BY DEF LoopInv

\* A step of run_anchor that leaves the journal alone.
LEMMA RunKeeps ==
  ASSUME IInv, UNCHANGED <<leaves, journal>>
  PROVE  /\ Prepared' = Prepared /\ Recorded' = Recorded
         /\ Journalled' = Journalled
  BY DEF Prepared, Recorded, Journalled

LEMMA NextLoop == IInv /\ [Next]_vars => LoopInv'
<1> SUFFICES ASSUME IInv, [Next]_vars PROVE LoopInv'
  OBVIOUS
<1>1. /\ leaves \in Nat /\ leaves' \in Nat /\ 1..leaves \subseteq 1..leaves'
      /\ delivered \subseteq delivered' /\ LoopInv
      /\ wallet \in [Notes -> {"untracked", "unspent", "spent"}]
      /\ journal \in [EmbeddedTxs -> Row]
  BY LeavesGrow, DeliveredGrow DEF IInv, TypeOK
<1>2. ASSUME UNCHANGED <<pc, job, batch, polled, wallet>>, ~Prepare, ~Finalize
      PROVE  LoopInv'
  BY <1>1, <1>2, LoopCalm, RowsKept DEF SpentStay
<1>3. CASE InsertLeaf
  BY <1>2, <1>3 DEF InsertLeaf, Prepare, Finalize, Advance, Goto, loopVars
<1>4. CASE Wake
  BY <1>4, RunKeeps, LoopIdle DEF Wake, Goto, DueRows, dbVars
<1>5. ASSUME NEW t \in EmbeddedTxs, NEW answered \in BOOLEAN, Poll(t, answered)
      PROVE  LoopInv'
  <2>1. pc' = "apply" /\ polled'.tx = t /\ t \in batch' /\ batch' = batch
    BY <1>5 DEF Poll, Goto
  <2>2. Recorded' = Recorded
    BY <1>5, RunKeeps DEF Poll, dbVars
  <2> QED
    BY <1>1, <2>1, <2>2 DEF LoopInv
<1>6. CASE ApplyConfirmation \/ RetryConfirmation
  <2>1. SameRows
    BY <1>6, RowsKept DEF ApplyConfirmation, RetryConfirmation, Prepare, Finalize
  <2>2. pc' = "poll" /\ batch' \subseteq batch
    BY <1>6 DEF ApplyConfirmation, RetryConfirmation, Goto
  <2> QED
    BY <1>1, <2>1, <2>2, LoopIdle DEF SameRows, LoopInv
<1>7. CASE RejectConfirmation \/ Reconciled
  <2>1. pc' = "check" /\ batch' \subseteq batch
    BY <1>7 DEF RejectConfirmation, Reconciled, Goto
  <2>2. Recorded' = Recorded
    BY <1>7, RunKeeps DEF RejectConfirmation, Reconciled, dbVars
  <2> QED
    BY <1>1, <2>1, <2>2, LoopIdle DEF LoopInv
<1>8. CASE TimeStep
  <2>1. ~Prepare /\ ~Finalize
    BY <1>8 DEF TimeStep, BackoffExpires, ConfirmationDue, Prepare, Finalize,
      Advance, Goto, loopVars
  <2> QED
    BY <1>2, <1>8, <2>1 DEF TimeStep, BackoffExpires, ConfirmationDue, loopVars
<1>9. ASSUME NEW elapsed \in BOOLEAN, MaybeAnchor(elapsed) PROVE LoopInv'
  <2>1. /\ pc' \in {"run", "sleep"} /\ (pc' = "run" => leaves > 0)
        /\ batch' = batch /\ leaves' = leaves
    BY <1>9 DEF MaybeAnchor, Goto, NeedsAnchor, dbVars
  <2>2. Recorded' = Recorded
    BY <1>9, RunKeeps DEF MaybeAnchor, dbVars
  <2> QED
    BY <1>1, <2>1, <2>2 DEF LoopInv
<1>10. CASE ResumePending
  <2>1. PICK t \in Prepared :
          job' = [tx |-> t, root |-> journal[t].root, note |-> journal[t].note]
    BY <1>10 DEF ResumePending
  <2>2. pc' = "send" /\ batch' = batch /\ journal' = journal
    BY <1>10 DEF ResumePending, Goto, dbVars
  <2>3. Prepared' = Prepared /\ Recorded' = Recorded
    BY <1>10, RunKeeps DEF ResumePending, dbVars
  <2> QED
    BY <1>1, <2>1, <2>2, <2>3 DEF LoopInv
<1>11. CASE ReadRoot
  <2>1. /\ pc' = "build" /\ batch' = batch /\ leaves' = leaves /\ leaves > 0
        /\ job'.root = leaves
    BY <1>1, <1>11 DEF ReadRoot, Goto, dbVars, NoJob, LoopInv
  <2>2. Recorded' = Recorded
    BY <1>11, RunKeeps DEF ReadRoot, dbVars
  <2> QED
    BY <1>1, <2>1, <2>2 DEF LoopInv
<1>12. ASSUME NEW t \in EmbeddedTxs, NEW n \in Notes, Build(t, n) PROVE LoopInv'
  <2>1. /\ pc = "build" /\ pc' = "prepare" /\ batch' = batch /\ leaves' = leaves
        /\ t \in EmbeddedTxs \ Journalled
    BY <1>12 DEF Build, Goto, dbVars
  <2>2. job'.tx = t /\ job'.note = n /\ job'.root = job.root
    BY <1>12 DEF Build, IInv, TypeOK, Jobs
  <2>3. Recorded' = Recorded /\ Journalled' = Journalled
    BY <1>12, RunKeeps DEF Build, dbVars
  <2> QED
    BY <1>1, <2>1, <2>2, <2>3 DEF LoopInv
<1>13. CASE BuildFails \/ PrepareFails \/ SendFails \/ ProbeFails \/ SettleFails
  <2>1. pc' = "sleep" /\ batch' = batch
    BY <1>13 DEF BuildFails, PrepareFails, SendFails, ProbeFails, SettleFails,
      FailRun, Goto
  <2>2. Recorded' = Recorded
    BY <1>13, RunKeeps DEF BuildFails, PrepareFails, SendFails, ProbeFails,
      SettleFails, dbVars
  <2> QED
    BY <1>1, <2>1, <2>2, LoopIdle DEF LoopInv
<1>14. CASE Prepare
  <2>1. pc' = "send" /\ batch' = batch /\ job' = job
    BY <1>14 DEF Prepare, Advance, Goto
  <2>2. journal'[job.tx].root = job.root /\ journal'[job.tx].note = job.note
    BY <1>14, PrepareRows, PreparedRowFields DEF IInv, TypeOK
  <2>3. job.tx \in Prepared' /\ Recorded' = Recorded
    BY <1>14, PrepareRows
  <2> QED
    BY <1>1, <2>1, <2>2, <2>3 DEF LoopInv
<1>15. ASSUME NEW answered \in BOOLEAN, SendAccepted(answered) PROVE LoopInv'
  <2>1. /\ Prepared' = Prepared /\ Recorded' = Recorded /\ journal' = journal
        /\ job.tx \in delivered' /\ batch' = batch /\ pc = "send"
    BY <1>15, RunKeeps DEF SendAccepted, Accept, FailRun, Advance, dbVars
  <2>2. Advance("settle") \/ FailRun
    BY <1>15 DEF SendAccepted
  <2>3. pc' = "sleep" \/ (pc' = "settle" /\ job' = job)
    BY <2>2 DEF FailRun, Advance, Goto
  <2> QED
    BY <1>1, <2>1, <2>3 DEF LoopInv
<1>16. CASE SendRefused
  <2>1. /\ Prepared' = Prepared /\ Recorded' = Recorded /\ journal' = journal
        /\ batch' = batch /\ pc = "send" /\ pc' = "probe" /\ job' = job
    BY <1>16, RunKeeps DEF SendRefused, Advance, Goto, dbVars
  <2> QED
    BY <1>1, <2>1 DEF LoopInv
<1>17. CASE ProbeKnown
  <2>1. /\ Prepared' = Prepared /\ Recorded' = Recorded /\ journal' = journal
        /\ batch' = batch /\ pc = "probe" /\ pc' = "settle" /\ job' = job
    BY <1>17, RunKeeps DEF ProbeKnown, Advance, Goto, dbVars
  <2>2. job.tx \in delivered
    BY <1>17, LoopTx DEF ProbeKnown, IInv, NodeInv, Prepared, Txs
  <2> QED
    BY <1>1, <2>1, <2>2 DEF LoopInv
<1>18. CASE Settle
  <2>1. /\ Prepared' = Prepared /\ Recorded' = Recorded /\ journal' = journal
        /\ batch' = batch /\ pc = "settle" /\ pc' = "finalize" /\ job' = job
    BY <1>18, RunKeeps DEF Settle, Advance, Goto, dbVars
  <2>2. job.note \in Notes
    BY <1>18, LoopTx, RootsExist DEF Settle, IInv, LoopInv, JournalInv, Journalled
  <2>3. wallet'[job.note] = "spent"
    BY <1>1, <1>18, <2>2 DEF Settle
  <2> QED
    BY <1>1, <2>1, <2>3 DEF LoopInv
<1>19. CASE Finalize
  <2>1. pc' = "sleep" /\ batch' = batch /\ Recorded \subseteq Recorded'
    BY <1>19, FinalizeRows DEF Finalize, Goto
  <2> QED
    BY <1>1, <2>1, LoopIdle DEF LoopInv
<1>20. CASE WalletStep
  <2>1. SpentStay
    BY <1>1, <1>20 DEF WalletStep, TrackNote, ObserveSpend, SpentStay
  <2>2. SameRows /\ UNCHANGED <<pc, job, batch, polled>>
    BY <1>20, RowsKept DEF WalletStep, TrackNote, ObserveSpend, Prepare, Finalize,
      Advance, Goto, loopVars
  <2> QED
    BY <1>1, <2>1, <2>2, LoopCalm
<1>21. CASE OperatorStep \/ NodeStep
  <2>1. UNCHANGED loopVars /\ UNCHANGED wallet
    BY <1>21 DEF OperatorStep, AdminVerify, CliRecord, AdminRecord, AdminRefused,
      CliSend, CliRecordSent, NodeStep, Mine, Reorg, Forget
  <2>2. ~Prepare /\ ~Finalize
    BY <2>1 DEF loopVars, Prepare, Finalize, Advance, Goto
  <2> QED
    BY <1>2, <2>1, <2>2 DEF loopVars
<1>22. CASE Restart
  BY <1>22, LoopIdle DEF Restart, Goto
<1>23. CASE UNCHANGED vars
  <2>1. UNCHANGED loopVars /\ UNCHANGED wallet
    BY <1>23 DEF vars
  <2>2. ~Prepare /\ ~Finalize
    BY <2>1 DEF loopVars, Prepare, Finalize, Advance, Goto
  <2> QED
    BY <1>2, <2>1, <2>2 DEF loopVars
<1> QED
  BY <1>3, <1>4, <1>5, <1>6, <1>7, <1>8, <1>9, <1>10, <1>11, <1>12, <1>13, <1>14,
    <1>15, <1>16, <1>17, <1>18, <1>19, <1>20, <1>21, <1>22, <1>23
  DEF Next, ReconcileStep, RunStep

-----------------------------------------------------------------------------
(* The notes. *)

LEMMA NoteSteps ==
  ASSUME IInv, [Next]_vars
  PROVE  /\ Restart \/ (epoch' = epoch /\ SpentStay)
         /\ pc' = "prepare" =>
              \/ pc = "prepare" /\ job' = job
              \/ wallet[job'.note] # "spent"
<1>1. /\ wallet \in [Notes -> {"untracked", "unspent", "spent"}]
      /\ job \in Jobs
  BY DEF IInv, TypeOK
<1>2. CASE UNCHANGED vars
  BY <1>2 DEF vars, loopVars, SpentStay
<1>3. CASE InsertLeaf
  BY <1>3 DEF InsertLeaf, loopVars, SpentStay
<1>4. CASE Restart
  BY <1>4 DEF Restart, Goto
<1>5. CASE ReconcileStep
  BY <1>5 DEF ReconcileStep, Wake, Poll, ApplyConfirmation, RejectConfirmation,
    RetryConfirmation, Reconciled, Goto, SpentStay
<1>6. ASSUME NEW t \in EmbeddedTxs, NEW n \in Notes, Build(t, n)
      PROVE  epoch' = epoch /\ SpentStay /\ wallet[job'.note] # "spent"
  BY <1>1, <1>6 DEF Build, Unspent, Jobs, SpentStay
<1>7. CASE Settle
  BY <1>1, <1>7 DEF Settle, Advance, Goto, SpentStay
<1>8. CASE RunStep
  BY <1>6, <1>7, <1>8 DEF RunStep, MaybeAnchor, ResumePending, ReadRoot, BuildFails,
    Prepare, PrepareFails, SendAccepted, SendRefused, SendFails, ProbeKnown,
    ProbeFails, SettleFails, Finalize, FailRun, Advance, Goto, SpentStay
<1>9. CASE TimeStep
  BY <1>9 DEF TimeStep, BackoffExpires, ConfirmationDue, loopVars, SpentStay
<1>10. CASE WalletStep
  BY <1>1, <1>10 DEF WalletStep, TrackNote, ObserveSpend, loopVars, SpentStay
<1>11. CASE OperatorStep
  BY <1>11 DEF OperatorStep, AdminVerify, AdminRecord, AdminRefused, CliSend,
    CliRecordSent, CliRecord, loopVars, SpentStay
<1>12. CASE NodeStep
  BY <1>12 DEF NodeStep, Mine, Reorg, Forget, loopVars, SpentStay
<1> QED
  BY <1>2, <1>3, <1>4, <1>5, <1>8, <1>9, <1>10, <1>11, <1>12 DEF Next

LEMMA NextNote == IInv /\ [Next]_vars => NoteInv'
<1> SUFFICES ASSUME IInv, [Next]_vars PROVE NoteInv'
  OBVIOUS
<1>1. /\ NoteInv /\ JournalInv /\ LoopInv
      /\ journal \in [EmbeddedTxs -> Row] /\ epoch \in Nat
  BY PipelineAssumption DEF IInv, TypeOK, PipelineAssumption
<1>2. \A t \in Journalled : /\ journal[t].note \in Notes
                            /\ journal[t].preparedIn \in Nat
                            /\ journal[t].recordedIn \in Nat
  BY <1>1, RootsExist, PipelineAssumption DEF JournalInv, Row, PipelineAssumption
<1>3. CASE Prepare
  <2>1. /\ Prepared = {} /\ Prepared' = {job.tx} /\ Recorded' = Recorded
        /\ Journalled' = Recorded \cup {job.tx} /\ Journalled = Recorded
        /\ job.tx \notin Recorded
        /\ \A t \in Recorded : journal'[t] = journal[t]
    BY <1>3, PrepareRows, RootsExist DEF Journalled
  <2>2. journal'[job.tx].preparedIn = epoch /\ journal'[job.tx].note = job.note
    BY <1>3, PrepareRows, PreparedRowFields DEF IInv, TypeOK
  <2>3. /\ UNCHANGED <<epoch, wallet>> /\ pc = "prepare" /\ pc' = "send"
    BY <1>3 DEF Prepare, Advance, Goto
  <2>4. NoteReuseNeedsRestart'
    BY <1>1, <2>1, <2>2, <2>3 DEF NoteInv, NoteReuseNeedsRestart
  <2> QED
    BY <1>1, <1>2, <2>1, <2>2, <2>3, <2>4 DEF NoteInv
<1>4. CASE Finalize
  <2> DEFINE t == job.tx
  <2>1. /\ Prepared = {t} /\ Prepared' = {} /\ Recorded' = Recorded \cup {t}
        /\ Journalled' = Recorded \cup {t} /\ Journalled = Recorded \cup {t}
        /\ t \notin Recorded
        /\ \A u \in Recorded : journal'[u] = journal[u]
    BY <1>1, <1>4, FinalizeRows, RootsExist
    DEF JournalInv, Journalled, Prepared, Recorded
  <2>2. /\ journal'[t].preparedIn = journal[t].preparedIn
        /\ journal'[t].note = journal[t].note
        /\ journal'[t].recordedIn = epoch
    BY <1>1, <1>4, FinalizeRows, RecordedRowFields, RootsExist DEF IInv, TypeOK, Journalled
  <2>3. /\ UNCHANGED <<epoch, wallet>> /\ pc = "finalize" /\ pc' = "sleep"
    BY <1>4 DEF Finalize, Goto
  <2>4. wallet[journal[t].note] = "spent"
    BY <1>1, <2>3 DEF LoopInv
  <2>5. \A u \in Recorded : journal[u].note = journal[t].note =>
          journal[u].preparedIn # epoch
    BY <1>1, <1>2, <2>1 DEF NoteInv, NoteReuseNeedsRestart
  <2>6. NoteReuseNeedsRestart'
    BY <1>1, <2>1, <2>2, <2>5 DEF NoteInv, NoteReuseNeedsRestart
  <2> QED
    BY <1>1, <1>2, <2>1, <2>2, <2>3, <2>4, <2>6 DEF NoteInv
<1>5. ASSUME SameRows, ~Prepare, ~Finalize PROVE NoteInv'
  <2>1. Prepared' = Prepared /\ Recorded' = Recorded /\ Journalled' = Journalled
    BY <1>5 DEF SameRows, Journalled
  <2>2. \A t \in Journalled : /\ journal'[t].note = journal[t].note
                              /\ journal'[t].preparedIn = journal[t].preparedIn
                              /\ journal'[t].recordedIn = journal[t].recordedIn
    BY <1>5, RootsExist DEF SameRows
  <2>3. NoteReuseNeedsRestart'
    BY <1>1, <2>1, <2>2 DEF NoteInv, NoteReuseNeedsRestart, Journalled
  <2>4. CASE Restart
    <3>1. epoch' = epoch + 1
      BY <2>4 DEF Restart
    <3> QED
      BY <1>1, <1>2, <2>1, <2>2, <2>3, <3>1 DEF NoteInv, Journalled
  <2>5. CASE epoch' = epoch /\ SpentStay
    <3>1. \A t \in Recorded : journal[t].recordedIn = epoch =>
            /\ wallet'[journal[t].note] = "spent"
            /\ pc' = "prepare" => journal[t].note # job'.note
      BY <1>1, <1>2, <2>5, NoteSteps DEF NoteInv, SpentStay, Journalled
    <3> QED
      BY <1>1, <2>1, <2>2, <2>3, <2>5, <3>1 DEF NoteInv, Journalled
  <2> QED
    BY <2>4, <2>5, NoteSteps
<1> QED
  BY <1>3, <1>4, <1>5, RowsKept

-----------------------------------------------------------------------------
(* The heights. *)

LEMMA HeightSteps ==
  ASSUME [Next]_vars
  PROVE  /\ claim' \in {claim, NoClaim} \/ \E r \in Roots, t \in Txs : AdminVerify(r, t)
         /\ pc' = "apply" =>
              \/ UNCHANGED <<pc, polled>>
              \/ \E t \in EmbeddedTxs, answered \in BOOLEAN : Poll(t, answered)
         /\ UNCHANGED <<minedAt, reorgs>> \/ NodeStep
<1>1. CASE UNCHANGED vars
  BY <1>1 DEF vars, loopVars, nodeVars
<1>2. CASE InsertLeaf \/ Restart
  BY <1>2 DEF InsertLeaf, Restart, Goto, loopVars, nodeVars
<1>3. CASE ReconcileStep
  BY <1>3 DEF ReconcileStep, Wake, ApplyConfirmation, RejectConfirmation, Poll,
    RetryConfirmation, Reconciled, Goto, nodeVars
<1>4. CASE \E answered \in BOOLEAN : SendAccepted(answered)
  <2>1. Advance("settle") \/ FailRun
    BY <1>4 DEF SendAccepted
  <2>2. pc' # "apply"
    BY <2>1 DEF Advance, FailRun, Goto
  <2> QED
    BY <1>4, <2>2 DEF SendAccepted, Accept
<1>5. CASE RunStep
  BY <1>4, <1>5 DEF RunStep, MaybeAnchor, ResumePending, ReadRoot, Build, BuildFails,
    Prepare, PrepareFails, SendRefused, SendFails, ProbeKnown,
    ProbeFails, Settle, SettleFails, Finalize, FailRun, Advance, Goto, nodeVars
<1>6. CASE TimeStep \/ WalletStep
  BY <1>6 DEF TimeStep, BackoffExpires, ConfirmationDue, WalletStep, TrackNote,
    ObserveSpend, loopVars, nodeVars
<1>7. CASE OperatorStep
  BY <1>7 DEF OperatorStep, AdminVerify, AdminRecord, AdminRefused, CliSend, Accept,
    CliRecordSent, CliRecord, loopVars, nodeVars
<1>8. CASE NodeStep
  BY <1>8 DEF NodeStep, Mine, Reorg, Forget, loopVars
<1> QED
  BY <1>1, <1>2, <1>3, <1>5, <1>6, <1>7, <1>8 DEF Next

\* A reference at the height of its transaction keeps the table's heights.
LEMMA ReferenceHeight ==
  ASSUME IInv, NEW r, NEW t, NEW h, Reference(r, t, h), UNCHANGED minedAt,
         h = 0 \/ h = minedAt[t],
         \A q \in Roots : rootHeight[q] > 0 => rootHeight[q] = minedAt[rootTx[q]]
  PROVE  \A q \in Roots : rootHeight'[q] > 0 => rootHeight'[q] = minedAt'[rootTx'[q]]
<1>1. CASE h = 0
  <2>1. rootHeight[r] > 0 => rootTx[r] = t
    BY DEF IInv, RootInv, Reference, Recordable
  <2> QED
    BY <1>1, <2>1, ReferenceTable DEF IInv, Reference
<1>2. CASE h # 0
  BY <1>2, ReferenceTable DEF IInv, Reference
<1> QED
  BY <1>1, <1>2

LEMMA NextHeight == IInv /\ [Next]_vars => HeightInv'
<1> SUFFICES ASSUME IInv, [Next]_vars, reorgs' = 0
             PROVE  /\ claim' # NoClaim => claim'.height = minedAt'[claim'.tx]
                    /\ pc' = "apply" /\ polled'.height > 0 =>
                         polled'.height = minedAt'[polled'.tx]
                    /\ HeightsMatchChain'
  BY DEF HeightInv
<1>1. /\ minedAt \in [Txs -> Heights] /\ tip \in Nat /\ reorgs \in Nat
      /\ chain \in [Txs -> {"unseen", "mempool", "mined", "expired"}]
      /\ NodeInv /\ RootInv
      /\ rootHeight \in [Roots -> Nat] /\ rootTx \in [Roots -> Txs \cup {NoTx}]
  BY PipelineAssumption DEF IInv, TypeOK, Heights, PipelineAssumption
<1>2. UNCHANGED <<minedAt, reorgs>> \/ \E t \in Txs : Mine(t)
  BY <1>1, HeightSteps DEF NodeStep, Reorg, Forget
<1>3. reorgs = 0
  BY <1>1, <1>2 DEF Mine
<1>4. /\ claim # NoClaim => claim.height = minedAt[claim.tx] /\ claim.height > 0
      /\ pc = "apply" /\ polled.height > 0 => polled.height = minedAt[polled.tx]
      /\ \A r \in Roots : rootHeight[r] > 0 => rootHeight[r] = minedAt[rootTx[r]]
  BY <1>3 DEF IInv, HeightInv, OperatorInv, HeightsMatchChain
<1>5. CASE \E t \in Txs : Mine(t)
  <2>1. PICK t \in Txs : Mine(t)
    BY <1>5
  <2>2. /\ UNCHANGED <<rootTx, rootHeight, claim, polled, pc>>
        /\ minedAt[t] = 0 /\ \A u \in Txs \ {t} : minedAt'[u] = minedAt[u]
    BY <1>1, <2>1 DEF Mine, dbVars, loopVars, NodeInv, Heights
  <2>3. \A r \in Roots : rootHeight[r] > 0 => rootTx[r] \in Txs \ {t}
    BY <1>1, <1>4, <2>2 DEF RootInv
  <2>4. claim # NoClaim => claim.tx \in Txs \ {t}
    BY <1>4, <2>2 DEF IInv, TypeOK, OperatorInv
  <2>5. (pc = "apply" /\ polled.height > 0) => polled.tx \in Txs \ {t}
    BY <1>4, <2>2, LoopTx DEF Recorded, Txs
  <2>6. HeightsMatchChain'
    BY <1>4, <2>2, <2>3 DEF HeightsMatchChain
  <2> QED
    BY <1>4, <2>2, <2>4, <2>5, <2>6
<1>6. CASE UNCHANGED <<minedAt, reorgs>>
  <2>1. claim' # NoClaim => claim'.height = minedAt'[claim'.tx]
    BY <1>4, <1>6, HeightSteps DEF AdminVerify
  <2>2. (pc' = "apply" /\ polled'.height > 0) => polled'.height = minedAt'[polled'.tx]
    <3>1. ASSUME NEW t \in EmbeddedTxs, NEW answered \in BOOLEAN, Poll(t, answered)
          PROVE  polled'.height > 0 => polled'.height = minedAt'[polled'.tx]
      <4>1. CASE answered = TRUE
        BY <1>6, <3>1, <4>1 DEF Poll
      <4>2. CASE answered = FALSE
        BY <3>1, <4>2 DEF Poll
      <4> QED
        BY <4>1, <4>2
    <3> QED
      BY <1>4, <1>6, <3>1, HeightSteps
  <2>3. CASE UNCHANGED <<rootTx, rootHeight>>
    BY <1>4, <1>6, <2>1, <2>2, <2>3 DEF HeightsMatchChain
  <2>4. ASSUME NEW r, NEW t, NEW h, Reference(r, t, h), h = 0 \/ h = minedAt[t]
        PROVE  HeightsMatchChain'
    BY <1>4, <1>6, <2>4, ReferenceHeight DEF HeightsMatchChain
  <2>5. CASE ApplyConfirmation
    <3>1. polled.height = minedAt[polled.tx]
      BY <1>4, <2>5, ApplyReference DEF ApplyConfirmation
    <3> QED
      BY <2>1, <2>2, <2>4, <2>5, <3>1, ApplyReference
  <2>6. CASE Finalize
    BY <2>1, <2>2, <2>4, <2>6, FinalizeReference
  <2>7. CASE AdminRecord
    BY <1>4, <2>1, <2>2, <2>4, <2>7, AdminReference DEF AdminRecord
  <2>8. CASE CliRecordSent
    BY <2>1, <2>2, <2>3, <2>4, <2>8, CliSentReference
  <2>9. CASE \E r \in Roots, t \in Txs : CliRecord(r, t)
    BY <2>1, <2>2, <2>4, <2>9, CliReference
  <2>10. CASE \/ RetryConfirmation \/ Prepare \/ \E t \in EmbeddedTxs : ConfirmationDue(t)
    BY <2>3, <2>10 DEF RetryConfirmation, Prepare, ConfirmationDue
  <2> QED
    BY <2>3, <2>5, <2>6, <2>7, <2>8, <2>9, <2>10, TableSteps
<1> QED
  BY <1>2, <1>5, <1>6

-----------------------------------------------------------------------------
(* The theorems. *)

LEMMA InitInvariant == Init => IInv
<1> SUFFICES ASSUME Init PROVE IInv
  OBVIOUS
<1>1. Journalled = {} /\ Prepared = {} /\ Recorded = {}
  BY DEF Init, Journalled, Prepared, Recorded, AbsentRow
<1>2. JournalInv
  BY <1>1 DEF Init, JournalInv
<1>3. RootInv
  BY <1>1, PipelineAssumption DEF Init, RootInv, PipelineAssumption, Txs
<1>4. NodeInv
  BY DEF Init, NodeInv, Sent, Known
<1>5. LoopInv /\ OperatorInv
  BY DEF Init, LoopInv, OperatorInv
<1>6. NoteInv
  BY <1>1 DEF NoteInv, NoteReuseNeedsRestart
<1>7. HeightInv
  BY DEF Init, HeightInv, HeightsMatchChain
<1> QED
  BY <1>2, <1>3, <1>4, <1>5, <1>6, <1>7, InitType DEF IInv

LEMMA NextInvariant == IInv /\ [Next]_vars => IInv'
  BY NextType, NextJournal, NextRoot, NextNode, NextLoop, NextOperator, NextNote,
     NextHeight
  DEF IInv

LEMMA Invariant == Spec => []IInv
  BY InitInvariant, NextInvariant, PTL DEF Spec

\* Every variable keeps its type.
THEOREM TypeCorrect == Spec => []TypeOK
<1>1. IInv => TypeOK
  BY DEF IInv
<1> QED
  BY <1>1, Invariant, PTL

\* The network never sees an anchor transaction that the journal does not hold,
\* whatever crashes.
THEOREM SentIsJournalled == Spec => []JournalBeforeSend
<1>1. IInv => JournalBeforeSend
  BY DEF IInv, NodeInv, JournalBeforeSend
<1> QED
  BY <1>1, Invariant, PTL

\* One embedded transaction at most is sent for a root, and nobody maps its root
\* to another one.
THEOREM AnchoredOnce == Spec => []NoDoubleAnchor
<1>1. IInv => NoDoubleAnchor
  BY DEF IInv, JournalInv, RootInv, NodeInv, Journalled, NoDoubleAnchor, Sent
<1> QED
  BY <1>1, Invariant, PTL

\* The conflict branch of finalize_anchor_broadcast is unreachable.
THEOREM FinalizeNeverConflicts == Spec => []PreparedCanFinalize
<1>1. ASSUME IInv PROVE PreparedCanFinalize
  <2> SUFFICES ASSUME NEW t \in Prepared
               PROVE  Recordable(journal[t].root, t, 0)
    BY DEF PreparedCanFinalize
  <2>1. /\ journal[t].root \in 1..leaves /\ t \in EmbeddedTxs /\ t # NoTx
        /\ rootTx[journal[t].root] \in {NoTx, t}
    BY <1>1, PipelineAssumption
    DEF IInv, JournalInv, RootInv, Journalled, Prepared, PipelineAssumption
  <2>2. \A q \in Roots : rootTx[q] = t => q = journal[t].root
    BY <1>1, <2>1 DEF IInv, RootInv
  <2> QED
    BY <1>1, <2>1, <2>2, RootsExist DEF Recordable, Journalled
<1> QED
  BY <1>1, Invariant, PTL

\* The journal and the root table agree.
THEOREM JournalMatchesRoots == Spec => []RecordedIsAnchored
<1>1. IInv => RecordedIsAnchored
  BY DEF IInv, RootInv, RecordedIsAnchored
<1> QED
  BY <1>1, Invariant, PTL

\* Without a reorganisation a recorded height is that of the transaction's block.
THEOREM HeightsAreReal == Spec => []HeightsMatchChain
<1>1. IInv => HeightsMatchChain
  BY DEF IInv, HeightInv, HeightsMatchChain
<1> QED
  BY <1>1, Invariant, PTL

\* Without a restart in between no two anchors spend one note.
THEOREM NotesSpentOnce == Spec => []NoteReuseNeedsRestart
<1>1. IInv => NoteReuseNeedsRestart
  BY DEF IInv, NoteInv
<1> QED
  BY <1>1, Invariant, PTL

-----------------------------------------------------------------------------
(* The pipeline implements the register. *)

LEMMA InitRefines == Init => Register!Init
<1> SUFFICES ASSUME Init PROVE Register!Init
  OBVIOUS
<1>1. Committed = {} /\ Sent = {}
  BY DEF Init, Committed, Journalled, Prepared, Recorded, AbsentRow, Sent
<1> QED
  BY <1>1 DEF Init, Register!Init

\* Recording a reference maps the root, sets its height or changes nothing.
LEMMA ReferenceRefines ==
  ASSUME IInv, NEW r, NEW t, NEW h, Reference(r, t, h),
         t \in EmbeddedTxs => t \in Journalled /\ journal[t].root = r,
         \A p \in Prepared : journal[p].root = r => p = t,
         Committed' = Committed, Sent' = Sent
  PROVE  [Register!Next]_Register!vars
<1>1. /\ t # NoTx /\ r \in Roots /\ t \in Txs /\ h \in Heights /\ RootInv
      /\ rootTx \in [Roots -> Txs \cup {NoTx}] /\ rootHeight \in [Roots -> Heights]
  BY PipelineAssumption DEF PipelineAssumption, Reference, Txs, IInv, TypeOK
<1>2. /\ rootTx' = [rootTx EXCEPT ![r] = t]
      /\ rootHeight' = [rootHeight EXCEPT ![r] = IF h = 0 THEN rootHeight[r] ELSE h]
  BY DEF Reference, RecordReference
<1>3. CASE rootTx[r] = NoTx
  <2>1. rootHeight' = [rootHeight EXCEPT ![r] = h]
    BY <1>1, <1>2, <1>3 DEF RootInv
  <2>2. \A q \in Roots : rootTx[q] # t
    BY <1>1, <1>3 DEF Reference, Recordable
  <2>3. \A u \in Journalled : (journal[u].root = r) <=> (u = t)
    BY <1>1, <1>3, RootsExist, PipelineAssumption
    DEF RootInv, Journalled, PipelineAssumption
  <2>4. \A c \in Committed : (c[1] = r) <=> (c[2] = t)
    BY <2>3 DEF Committed
  <2>5. Register!Map(r, t, h)
    BY <1>2, <1>3, <2>1, <2>2, <2>4 DEF Register!Map
  <2> QED
    BY <1>1, <2>5 DEF Register!Next
<1>4. CASE rootTx[r] = t
  <2>1. rootTx' = rootTx
    BY <1>1, <1>2, <1>4
  <2>2. CASE h = 0 \/ rootHeight[r] = h
    <3>1. rootHeight' = rootHeight
      BY <1>1, <1>2, <2>2
    <3> QED
      BY <2>1, <3>1 DEF Register!vars
  <2>3. CASE h # 0 /\ rootHeight[r] # h
    <3>1. rootHeight[r] = 0
      BY <1>1, <1>4, <2>3 DEF Reference, Recordable
    <3>2. Register!SetHeight(r, h)
      BY <1>1, <1>2, <1>4, <2>1, <2>3, <3>1 DEF Register!SetHeight
    <3> QED
      BY <1>1, <2>3, <3>2 DEF Register!Next
  <2> QED
    BY <2>2, <2>3
<1> QED
  BY <1>3, <1>4 DEF Reference, Recordable

\* Only Prepare commits a root.
LEMMA CommittedSteps ==
  ASSUME IInv, [Next]_vars, ~Prepare
  PROVE  Committed' = Committed
<1>1. CASE SameRows
  <2>1. Journalled' = Journalled
    BY <1>1 DEF SameRows, Journalled
  <2>2. \A t \in Journalled : journal'[t].root = journal[t].root
    BY <1>1, RootsExist DEF SameRows
  <2> QED
    BY <2>1, <2>2 DEF Committed
<1>2. CASE Finalize
  <2>1. Journalled' = Journalled
    BY <1>2, FinalizeRows DEF Journalled, IInv, JournalInv
  <2>2. \A t \in Journalled : journal'[t].root = journal[t].root
    BY <1>2, FinalizeRows, RecordedRowFields, RootsExist DEF IInv, TypeOK
  <2> QED
    BY <2>1, <2>2 DEF Committed
<1> QED
  BY <1>1, <1>2, RowsKept

LEMMA StepRefines == IInv /\ [Next]_vars => [Register!Next]_Register!vars
<1> SUFFICES ASSUME IInv, [Next]_vars PROVE [Register!Next]_Register!vars
  OBVIOUS
<1>1. CASE Prepare
  <2>1. /\ Journalled' = Journalled \cup {job.tx} /\ job.tx \notin Journalled
        /\ job.tx \in EmbeddedTxs
        /\ \A t \in Journalled : journal'[t] = journal[t]
    BY <1>1, PrepareRows, RootsExist DEF Journalled
  <2>2. journal'[job.tx].root = job.root
    BY <1>1, PrepareRows, PreparedRowFields DEF IInv, TypeOK
  <2>3. Committed' = Committed \cup {<<job.root, job.tx>>}
    BY <2>1, <2>2 DEF Committed
  <2>4. \A c \in Committed : c[1] # job.root /\ c[2] # job.tx
    BY <1>1, <2>1 DEF Committed, Prepare, Preparable
  <2>5. rootTx[job.root] = NoTx /\ UNCHANGED <<rootTx, rootHeight, Sent>>
    BY <1>1 DEF Prepare, Preparable, Sent, nodeVars
  <2>6. job.root \in Roots
    BY <1>1, RootsExist DEF Prepare, IInv, LoopInv
  <2>7. Register!Commit(job.root, job.tx)
    BY <2>3, <2>4, <2>5 DEF Register!Commit
  <2> QED
    BY <2>1, <2>6, <2>7 DEF Register!Next
<1>2. ASSUME NEW answered \in BOOLEAN, SendAccepted(answered)
      PROVE  [Register!Next]_Register!vars
  <2> DEFINE t == job.tx  r == journal[job.tx].root
  <2>1. t \in Prepared /\ t \in Journalled /\ t \in EmbeddedTxs /\ r \in Roots
    BY <1>2, LoopTx, RootsExist DEF SendAccepted, Journalled
  <2>2. UNCHANGED <<rootTx, rootHeight, journal>> /\ Sent' = Sent \cup {t}
    BY <1>2, <2>1 DEF SendAccepted, Accept, dbVars, Sent
  <2>3. Committed' = Committed /\ <<r, t>> \in Committed
    BY <2>1, <2>2 DEF Committed, Journalled, Prepared, Recorded
  <2>4. rootTx[r] \in {NoTx, t}
    BY <2>1 DEF IInv, RootInv
  <2>5. Register!Send(r, t)
    BY <2>2, <2>3, <2>4 DEF Register!Send
  <2> QED
    BY <2>1, <2>5 DEF Register!Next
<1>3. ASSUME ~Prepare, UNCHANGED <<rootTx, rootHeight, delivered>>
      PROVE  [Register!Next]_Register!vars
  BY <1>3, CommittedSteps DEF Register!vars, Sent
<1>4. ASSUME NEW t \in ManualTxs, CliSend(t) PROVE [Register!Next]_Register!vars
  <2>1. Sent' = Sent
    BY <1>4, PipelineAssumption DEF CliSend, Accept, Sent, PipelineAssumption
  <2>2. UNCHANGED <<rootTx, rootHeight>> /\ ~Prepare
    BY <1>4 DEF CliSend, Prepare, dbVars, NoClaim
  <2> QED
    BY <2>1, <2>2, CommittedSteps DEF Register!vars
<1>5. CASE NodeStep
  <2>1. UNCHANGED <<rootTx, rootHeight, delivered>> /\ ~Prepare
    BY <1>5 DEF NodeStep, Mine, Reorg, Forget, dbVars, loopVars, Prepare, Advance, Goto
  <2> QED
    BY <1>3, <2>1
<1>6. ASSUME NEW r, NEW t, NEW h, Reference(r, t, h), ~Prepare,
             t \in EmbeddedTxs => t \in Journalled /\ journal[t].root = r,
             \A p \in Prepared : journal[p].root = r => p = t,
             delivered' = delivered
      PROVE  [Register!Next]_Register!vars
  BY <1>6, CommittedSteps, ReferenceRefines DEF Sent
<1>7. CASE UNCHANGED <<chain, minedAt, tip, delivered, reorgs>> /\ ~Prepare
  <2>1. CASE ApplyConfirmation
    <3>1. \A p \in Prepared : journal[p].root = journal[polled.tx].root => p = polled.tx
      BY <2>1, ApplyReference DEF IInv, JournalInv, Journalled
    <3> QED
      BY <1>6, <1>7, <2>1, <3>1, ApplyReference DEF Journalled
  <2>2. CASE Finalize
    <3>1. \A p \in Prepared : p = job.tx
      BY <2>2, FinalizeRows DEF IInv, JournalInv
    <3> QED
      BY <1>6, <1>7, <2>2, <3>1, FinalizeReference, FinalizeRows DEF Journalled
  <2>3. CASE AdminRecord
    BY <1>6, <1>7, <2>3, AdminReference
  <2>4. CASE CliRecordSent
    <3>1. cli.tx \notin EmbeddedTxs
      BY <2>4, CliSentReference, PipelineAssumption DEF PipelineAssumption
    <3> QED
      BY <1>3, <1>6, <1>7, <2>4, <3>1, CliSentReference
  <2>5. CASE \E r \in Roots, t \in Txs : CliRecord(r, t)
    BY <1>6, <1>7, <2>5, CliReference
  <2>6. CASE \/ UNCHANGED <<rootTx, rootHeight, journal>>
             \/ RetryConfirmation
             \/ \E t \in EmbeddedTxs : ConfirmationDue(t)
    BY <1>3, <1>7, <2>6 DEF RetryConfirmation, ConfirmationDue
  <2> QED
    BY <1>7, <2>1, <2>2, <2>3, <2>4, <2>5, <2>6, TableSteps
<1> QED
  BY <1>1, <1>2, <1>4, <1>5, <1>7, NodeSteps

\* The pipeline, with all its interleavings, crashes and operator requests,
\* implements the write-once register.
THEOREM ImplementsRegister == Spec => RegisterSpec
  BY InitRefines, StepRefines, Invariant, PTL DEF Spec, RegisterSpec, Register!Spec
=============================================================================
