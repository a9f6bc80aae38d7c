----------------------------- MODULE AnchorWallet -----------------------------
(***************************************************************************)
(* The anchor wallet's note commitment tree and notes (wallet.rs), fed by  *)
(* two tasks of main.rs, the recovery scan and the block scanner, and used *)
(* by the anchor loop to build spends.  The three mutexes of the wallet    *)
(* are taken one by one, as the code takes them.                           *)
(***************************************************************************)
EXTENDS Integers, Sequences, FiniteSets

CONSTANTS
  Chains,     \* block sequences; a block is a sequence of Orchard actions
  FirstTip,   \* height of the tip when the process starts
  ReseedLag,  \* 1500 blocks
  ScanFrom,   \* config.scan_from_height
  LastScanned, \* scan_state.last_scanned_height at start
  Invoices,   \* what a scan round may find: SUBSET BOOLEAN, TRUE if any is active
  ScanBatch,  \* 500 blocks
  None,
  MaxFaults, MaxBuilds  \* bounds

Recovery == "recovery"
Scanner == "scanner"
Anchor == "anchor"
Feeders == {Recovery, Scanner}
Tasks == Feeders \cup {Anchor}
Locks == {"next", "tree", "notes"}

\* An action reveals the nullifier of the note it spends, None for a note of
\* somebody else, and adds a commitment, which may be a note of this wallet.
Actions == [ours : BOOLEAN, spends : {None} \cup (Nat \X Nat)]

\* A spend is proved against the root of an earlier block.
ASSUME WalletAssumption ==
  /\ Chains \subseteq Seq(Seq(Actions))
  /\ \A c \in Chains :
       /\ \A h \in DOMAIN c : \A i \in DOMAIN c[h] :
            c[h][i].spends # None => c[h][i].spends[1] < h
       /\ FirstTip <= Len(c)
  /\ FirstTip \in Nat /\ ReseedLag \in Nat /\ ScanFrom \in Nat /\ LastScanned \in Nat
  /\ ScanBatch \in Nat \ {0}
  /\ Invoices \subseteq BOOLEAN
  /\ None \notin Tasks /\ None \notin Nat \X Nat /\ None # <<>>

VARIABLES
  \* the chain
  chain, tip,
  \* AnchorWallet
  tree,      \* ShardTree: commitments by position, a commitment is <<height, index>>
  ckpt,      \* its newest checkpoint: height, and number of leaves under it
  next,      \* next_position
  notes,     \* notes: TrackedNote
  done,      \* recovery_complete
  holder,    \* task in each critical section, or None
  \* the tasks
  pc,
  at,        \* height a feeder works on
  upTo,      \* last height of a feeder's range
  scanned,   \* scan_state.last_scanned_height
  choice,    \* note the anchor loop has selected
  \* history
  tx,        \* the last spend built: note, position, leaves under its anchor
  used,      \* notes the anchor loop has marked spent
  fed,       \* heights fed one after the other, from the seed's to the last
  faults, builds

chainVars == <<chain, tip>>
treeVars == <<tree, ckpt, next>>
walletVars == <<treeVars, notes, done, holder>>
taskVars == <<pc, at, upTo, scanned, choice>>
history == <<tx, used, fed, faults, builds>>
vars == <<chainVars, walletVars, taskVars, history>>

-----------------------------------------------------------------------------

\* The commitments on chain up to height h, each <<height, index>>.
Through(h) == UNION {{k} \X (1 .. Len(chain[k])) : k \in 1 .. h}

\* Positions count from 0, in the order of the chain.
ChainSize(h) == Cardinality(Through(h))
ChainPosition(id) == ChainSize(id[1] - 1) + id[2] - 1
ChainTree(h) ==
  [p \in 0 .. ChainSize(h) - 1 |->
     CHOOSE id \in Through(Len(chain)) : ChainPosition(id) = p]

\* The tree with some leaves put where they belong.
Put(leaves) ==
  [q \in DOMAIN leaves \cup DOMAIN tree |->
     IF q \in DOMAIN leaves THEN leaves[q] ELSE tree[q]]

Size(t) == IF DOMAIN t = {} THEN 0
           ELSE 1 + CHOOSE p \in DOMAIN t : \A q \in DOMAIN t : q <= p

\* Notes of this wallet in block h (trial decryption with both viewing keys).
NewNotes(h) ==
  LET found[i \in 0 .. Len(chain[h])] ==
        IF i = 0 THEN <<>>
        ELSE IF chain[h][i].ours
        THEN Append(found[i - 1], [id |-> <<h, i>>, position |-> next + i - 1, spent |-> FALSE])
        ELSE found[i - 1]
  IN found[Len(chain[h])]

\* The first unspent entry of each revealed nullifier is marked.
MarkSpent(h) ==
  [k \in DOMAIN notes |->
     IF /\ \E i \in DOMAIN chain[h] : chain[h][i].spends = notes[k].id
        /\ \A j \in 1 .. k - 1 : notes[j].id = notes[k].id => notes[j].spent
     THEN [notes[k] EXCEPT !.spent = TRUE] ELSE notes[k]]

\* Mutant: a note that arrives is not tracked when a nullifier was seen.
MTracked(h) == IF MarkSpent(h) # notes THEN MarkSpent(h) ELSE notes \o NewNotes(h)

\* The notes after block h.
Tracked(h) == MarkSpent(h) \o NewNotes(h)

\* ShardTree::checkpoint refuses, without an error, a height that is not
\* above its newest checkpoint.
Checkpointed(t, h) ==
  IF h > ckpt.height THEN [height |-> h, size |-> Size(t)] ELSE ckpt

-----------------------------------------------------------------------------

Init ==
  /\ chain \in Chains /\ tip = FirstTip
  /\ tree = <<>> /\ ckpt = [height |-> -1, size |-> 0] /\ next = 0
  /\ notes = <<>> /\ done = FALSE
  /\ holder = [l \in Locks |-> None]
  /\ pc = [p \in Tasks |-> IF p = Recovery THEN "start" ELSE "idle"]
  /\ at = [p \in Feeders |-> 0] /\ upTo = [p \in Feeders |-> 0]
  /\ scanned = LastScanned
  /\ choice = None /\ tx = None /\ used = {} /\ fed = None
  /\ faults = 0 /\ builds = 0

Go(p, label) == pc' = [pc EXCEPT ![p] = label]

Mine ==
  /\ tip < Len(chain)
  /\ tip' = tip + 1
  /\ UNCHANGED <<chain, walletVars, taskVars, history>>

Broken == <<>>  \* of fed: a block was left out, fed twice or not in order

Fault == faults < MaxFaults /\ faults' = faults + 1

\* The feeder is through with its height.  The scanner's last block marks the
\* recovery complete, whatever the recovery scan is doing.
Finished(p) ==
  /\ IF at[p] < upTo[p]
     THEN at' = [at EXCEPT ![p] = @ + 1] /\ Go(p, "fetch") /\ UNCHANGED done
     ELSE /\ Go(p, IF p = Recovery THEN "ended" ELSE "idle")
          /\ done' = TRUE /\ UNCHANGED at
  /\ scanned' = IF p = Scanner THEN at[p] ELSE scanned

-----------------------------------------------------------------------------
(* wallet_recovery_scan up to its loop. *)

Reseed == tip - ReseedLag

RecoveryRange(first) ==
  IF first >= upTo[Recovery]
  THEN Go(Recovery, "ended") /\ done' = TRUE /\ UNCHANGED at
  ELSE Go(Recovery, "fetch") /\ at' = [at EXCEPT ![Recovery] = first] /\ UNCHANGED done

RecoveryReturns ==
  /\ pc[Recovery] = "start" /\ done
  /\ Go(Recovery, "ended")
  /\ UNCHANGED <<chainVars, walletVars, at, upTo, scanned, choice, history>>

\* Get the tip and ask for the tree state below the range.
RecoveryStart ==
  /\ pc[Recovery] = "start" /\ ~done
  /\ Reseed > ScanFrom
  /\ upTo' = [upTo EXCEPT ![Recovery] = tip]
  /\ at' = [at EXCEPT ![Recovery] = Reseed]
  /\ Go(Recovery, "seed")
  /\ UNCHANGED <<chainVars, walletVars, scanned, choice, history>>

\* Close to scan_from_height the tree is not seeded.
RecoveryStartYoung ==
  /\ pc[Recovery] = "start" /\ ~done
  /\ Reseed <= ScanFrom
  /\ upTo' = [upTo EXCEPT ![Recovery] = tip]
  /\ IF ScanFrom >= tip
     THEN Go(Recovery, "ended") /\ done' = TRUE /\ UNCHANGED at
     ELSE /\ Go(Recovery, "fetch") /\ UNCHANGED done
          /\ at' = [at EXCEPT ![Recovery] = ScanFrom]
  /\ UNCHANGED <<chainVars, treeVars, notes, holder, scanned, choice, history>>

\* z_gettreestate fails: the task ends and the process goes on.
SeedFails ==
  /\ pc[Recovery] = "seed" /\ Fault
  /\ Go(Recovery, "ended")
  /\ UNCHANGED <<chainVars, walletVars, at, upTo, scanned, choice, tx, used, fed, builds>>

SeedFrontier ==
  /\ pc[Recovery] = "seed" /\ holder["tree"] = None
  /\ tree' = Put(ChainTree(at[Recovery]))
  /\ ckpt' = Checkpointed(tree', at[Recovery])
  /\ Go(Recovery, "position")
  /\ UNCHANGED <<chainVars, next, notes, done, holder, at, upTo, scanned, choice, history>>

\* Mutant: next_position is the frontier's own position.
MSeedPosition ==
  /\ pc[Recovery] = "position" /\ holder["next"] = None
  /\ next' = ChainSize(at[Recovery]) - 1
  /\ RecoveryRange(at[Recovery] + 1)
  /\ fed' = IF fed = None THEN <<at[Recovery], at[Recovery]>> ELSE Broken
  /\ UNCHANGED <<chainVars, tree, ckpt, notes, holder, upTo, scanned, choice, tx, used,
                 faults, builds>>

\* One past the frontier's last leaf.
SeedPosition ==
  /\ pc[Recovery] = "position" /\ holder["next"] = None
  /\ next' = ChainSize(at[Recovery])
  /\ RecoveryRange(at[Recovery] + 1)
  /\ fed' = IF fed = None THEN <<at[Recovery], at[Recovery]>> ELSE Broken
  /\ UNCHANGED <<chainVars, tree, ckpt, notes, holder, upTo, scanned, choice, tx, used,
                 faults, builds>>

-----------------------------------------------------------------------------
(* The loops over blocks. *)

\* A scan round begins; without an active invoice it passes over the blocks.
ScanRound ==
  LET start == IF scanned = 0 THEN ScanFrom ELSE scanned + 1
      ahead == start + ScanBatch
  IN /\ pc[Scanner] = "idle" /\ start <= tip
     /\ \E active \in Invoices :
          IF active
          THEN /\ at' = [at EXCEPT ![Scanner] = start]
               /\ upTo' = [upTo EXCEPT ![Scanner] = IF ahead - 1 <= tip THEN ahead - 1 ELSE tip]
               /\ Go(Scanner, "fetch") /\ UNCHANGED scanned
          ELSE /\ scanned' = IF ahead <= tip THEN ahead ELSE tip
               /\ UNCHANGED <<pc, at, upTo>>
     /\ UNCHANGED <<chainVars, walletVars, choice, history>>

Fetch(p) ==
  /\ pc[p] = "fetch"
  /\ Go(p, "next")
  /\ UNCHANGED <<chainVars, walletVars, at, upTo, scanned, choice, history>>

\* The transactions of the block are not delivered: nothing is fed.
FetchFails(p) ==
  /\ pc[p] = "fetch" /\ Fault
  /\ Finished(p)
  /\ UNCHANGED <<chainVars, treeVars, notes, holder, upTo, choice, tx, used, fed, builds>>

\* get_block_txids fails in the scanner: the round is over.
RoundFails ==
  /\ pc[Scanner] = "fetch" /\ Fault
  /\ Go(Scanner, "idle")
  /\ UNCHANGED <<chainVars, walletVars, at, upTo, scanned, choice, tx, used, fed, builds>>

-----------------------------------------------------------------------------
(* process_block_commitments. *)

LockNext(p) ==
  /\ pc[p] = "next" /\ holder["next"] = None
  /\ holder' = [holder EXCEPT !["next"] = p]
  /\ Go(p, "tree")
  /\ UNCHANGED <<chainVars, treeVars, notes, done, at, upTo, scanned, choice, history>>

\* History: the block continues the ones fed so far, or it does not.
FedBy(p) ==
  fed' = IF fed \notin {None, Broken} /\ fed[2] + 1 = at[p]
         THEN <<fed[1], at[p]>> ELSE Broken

Release(p) == holder' = [l \in Locks |-> IF holder[l] = p THEN None ELSE holder[l]]

\* No commitment: only a checkpoint.
EmptyBlock(p) ==
  /\ pc[p] = "tree" /\ holder["tree"] = None
  /\ chain[at[p]] = <<>>
  /\ ckpt' = Checkpointed(tree, at[p])
  /\ Release(p) /\ Finished(p) /\ FedBy(p)
  /\ UNCHANGED <<chainVars, tree, next, notes, upTo, choice, tx, used, faults, builds>>

Inserted(h) == [q \in next .. next + Len(chain[h]) - 1 |-> <<h, q - next + 1>>]

\* batch_insert and checkpoint.  Where the tree has leaves already the library
\* may replace them.
InsertBlock(p) ==
  /\ pc[p] = "tree" /\ holder["tree"] = None
  /\ chain[at[p]] # <<>>
  /\ tree' = Put(Inserted(at[p]))
  /\ ckpt' = Checkpointed(tree', at[p])
  /\ holder' = [holder EXCEPT !["tree"] = p]
  /\ Go(p, "notes")
  /\ UNCHANGED <<chainVars, next, notes, done, at, upTo, scanned, choice, history>>

\* Or it may refuse to.
InsertFails(p) ==
  /\ pc[p] = "tree" /\ holder["tree"] = None
  /\ chain[at[p]] # <<>>
  /\ DOMAIN Inserted(at[p]) \cap DOMAIN tree # {}
  /\ Release(p) /\ Finished(p)
  /\ UNCHANGED <<chainVars, treeVars, notes, upTo, choice, history>>

TrackNotes(p) ==
  /\ pc[p] = "notes" /\ holder["notes"] = None
  /\ notes' = Tracked(at[p])
  /\ next' = next + Len(chain[at[p]])
  /\ Release(p) /\ Finished(p) /\ FedBy(p)
  /\ UNCHANGED <<chainVars, tree, ckpt, upTo, choice, tx, used, faults, builds>>

-----------------------------------------------------------------------------
(* build_anchor_tx and ensure_spent_at_position. *)

\* Mutant: the notes stay locked while the tree is used.
MSelect ==
  /\ pc[Anchor] = "idle" /\ holder["notes"] = None /\ builds < MaxBuilds
  /\ \E k \in DOMAIN notes :
       /\ ~notes[k].spent /\ \A j \in 1 .. k - 1 : notes[j].spent
       /\ choice' = notes[k]
  /\ builds' = builds + 1
  /\ holder' = [holder EXCEPT !["notes"] = Anchor]
  /\ Go(Anchor, "witness")
  /\ UNCHANGED <<chainVars, treeVars, notes, done, at, upTo, scanned, tx, used, fed, faults>>

\* The first unspent note; its lock is dropped before the tree's is taken.
Select ==
  /\ pc[Anchor] = "idle" /\ holder["notes"] = None /\ builds < MaxBuilds
  /\ \E k \in DOMAIN notes :
       /\ ~notes[k].spent /\ \A j \in 1 .. k - 1 : notes[j].spent
       /\ choice' = notes[k]
  /\ builds' = builds + 1
  /\ Go(Anchor, "witness")
  /\ UNCHANGED <<chainVars, walletVars, at, upTo, scanned, tx, used, fed, faults>>

\* Witness and root at the newest checkpoint; a note above it has none.
Witness ==
  /\ pc[Anchor] = "witness" /\ holder["tree"] = None
  /\ Release(Anchor)
  /\ IF choice.position < ckpt.size
     THEN /\ Go(Anchor, "sent")
          /\ tx' = [id |-> choice.id, position |-> choice.position,
                    leaves |-> [q \in {q \in DOMAIN tree : q < ckpt.size} |-> tree[q]]]
     ELSE Go(Anchor, "idle") /\ UNCHANGED tx
  /\ UNCHANGED <<chainVars, treeVars, notes, done, at, upTo, scanned, choice,
                 used, fed, faults, builds>>

\* The spend is broadcast and its note marked by position, or the node refuses it.
EnsureSpent ==
  /\ pc[Anchor] = "sent" /\ holder["notes"] = None
  /\ \E k \in DOMAIN notes :
       /\ notes[k].position = choice.position
       /\ \A j \in 1 .. k - 1 : notes[j].position # choice.position
       /\ notes' = [notes EXCEPT ![k].spent = TRUE]
       /\ used' = used \cup {notes[k].id}
  /\ Go(Anchor, "idle")
  /\ UNCHANGED <<chainVars, treeVars, done, holder, at, upTo, scanned, choice,
                 tx, fed, faults, builds>>

NotSent ==
  /\ pc[Anchor] = "sent"
  /\ Go(Anchor, "idle")
  /\ UNCHANGED <<chainVars, walletVars, at, upTo, scanned, choice, history>>

-----------------------------------------------------------------------------

RecoveryStep ==
  \/ RecoveryReturns \/ RecoveryStart \/ RecoveryStartYoung
  \/ SeedFails \/ SeedFrontier \/ SeedPosition

Feed(p) ==
  \/ Fetch(p) \/ FetchFails(p) \/ LockNext(p) \/ EmptyBlock(p)
  \/ InsertBlock(p) \/ InsertFails(p) \/ TrackNotes(p)

AnchorStep == Select \/ Witness \/ EnsureSpent \/ NotSent

Next ==
  \/ Mine
  \/ RecoveryStep \/ ScanRound \/ RoundFails
  \/ \E p \in Feeders : Feed(p)
  \/ AnchorStep

\* Threads make progress once a lock is free; nothing forces a build.
Fairness ==
  /\ WF_vars(RecoveryStep)
  /\ \A p \in Feeders : WF_vars(Feed(p))
  /\ WF_vars(Witness \/ EnsureSpent \/ NotSent)

Spec == Init /\ [][Next]_vars /\ Fairness

-----------------------------------------------------------------------------

InOrder == fed \notin {None, Broken}

\* A spend build_anchor_tx returns proves its note under a root the chain had
\* at the end of a block, at the note's position in that tree, as long as the
\* tasks between them fed the blocks after the seed one after the other.
SpendIsValid ==
  InOrder /\ tx # None =>
    /\ tx.position \in DOMAIN tx.leaves /\ tx.leaves[tx.position] = tx.id
    /\ \E h \in 1 .. tip : tx.leaves = ChainTree(h)

\* The wallet's unspent notes are the notes received in the blocks fed so far
\* that neither those blocks nor the anchor loop has spent, each counted once
\* (process_block_commitments, balance).
BalanceIsOwned ==
  InOrder =>
    LET unspent == {k \in DOMAIN notes : ~notes[k].spent}
        actions == Through(fed[2]) \ Through(fed[1])
        owned == {id \in actions : chain[id[1]][id[2]].ours}
        spent == {chain[id[1]][id[2]].spends : id \in actions}
    IN /\ {notes[k].id : k \in unspent} = owned \ (spent \cup used)
       /\ \A j, k \in unspent : notes[j].id = notes[k].id => j = k

\* The lock a task is waiting for or about to take.
Wanted(p) ==
  CASE pc[p] = "next" -> "next"
    [] pc[p] = "position" -> "next"
    [] pc[p] \in {"tree", "seed", "witness"} -> "tree"
    [] pc[p] \in {"notes", "sent"} -> "notes"
    [] OTHER -> None

\* No set of tasks waits for locks held inside the set (the comment in
\* build_anchor_tx: the notes lock is dropped "to prevent deadlock").
NoCircularWait ==
  \A S \in (SUBSET Tasks) \ {{}} :
    \E p \in S : Wanted(p) = None \/ holder[Wanted(p)] \notin S

\* The recovery scan comes to an end (wallet_recovery_scan).
RecoveryEnds == <>(pc[Recovery] = "ended")

===============================================================================
