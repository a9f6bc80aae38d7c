--------------------------- MODULE AnchorInvariant --------------------------
(***************************************************************************)
(* The inductive invariant of AnchorPipeline: what holds between any two   *)
(* steps, including the locals of the anchor loop and of the operator's    *)
(* requests, so that every safety property follows from it.                *)
(***************************************************************************)
EXTENDS AnchorPipeline

\* A journal row names a root that exists and a note; roots are journalled
\* once, and one row at most is prepared.
JournalInv ==
  /\ \A t \in EmbeddedTxs :
       IF t \in Journalled
       THEN journal[t].root \in 1..leaves /\ journal[t].note \in Notes
       ELSE journal[t] = AbsentRow
  /\ \A t, u \in Journalled : journal[t].root = journal[u].root => t = u
  /\ \A t, u \in Prepared : t = u

\* The root table is injective and agrees with the journal.
RootInv ==
  /\ \A r \in Roots : rootTx[r] # NoTx => r \in 1..leaves
  /\ \A r \in Roots : rootTx[r] = NoTx => rootHeight[r] = 0
  /\ \A q, r \in Roots : rootTx[q] = rootTx[r] /\ rootTx[q] # NoTx => q = r
  /\ \A r \in Roots :
       rootTx[r] \in EmbeddedTxs =>
         rootTx[r] \in Journalled /\ journal[rootTx[r]].root = r
  /\ \A t \in Prepared : rootTx[journal[t].root] \in {NoTx, t}
  /\ \A t \in Recorded : rootTx[journal[t].root] = t /\ t \in delivered
  /\ \A t \in Journalled :
       journal[t].confirmed => /\ rootTx[journal[t].root] = t
                               /\ rootHeight[journal[t].root] > 0

\* What the node holds was accepted, and accepted after it was journalled.
NodeInv ==
  /\ Sent \subseteq Journalled
  /\ \A t \in Txs : Known(t) => t \in delivered
  /\ \A t \in Txs : chain[t] = "mined" <=> minedAt[t] > 0

\* The locals of the anchor loop.
LoopInv ==
  /\ pc = "run" => leaves > 0
  /\ pc \in {"build", "prepare"} => job.root \in 1..leaves
  /\ pc = "prepare" => /\ job.tx \in EmbeddedTxs \ Journalled
                       /\ job.note \in Notes
  /\ pc \in {"send", "probe", "settle", "finalize"} =>
       /\ job.tx \in Prepared
       /\ job.root = journal[job.tx].root
       /\ job.note = journal[job.tx].note
  /\ pc \in {"settle", "finalize"} => job.tx \in delivered
  /\ pc = "finalize" => wallet[job.note] = "spent"
  /\ batch \subseteq Recorded
  /\ pc = "apply" => polled.tx \in batch

\* The operator's requests in flight.
OperatorInv ==
  /\ claim # NoClaim => claim.tx \in delivered /\ claim.height > 0
  /\ cli # NoClaim => cli.tx \in ManualTxs /\ cli.root \in 1..leaves

\* Which process used which note.
NoteInv ==
  /\ \A t \in Journalled : journal[t].preparedIn <= epoch
  /\ \A t \in Recorded : journal[t].preparedIn <= journal[t].recordedIn
  /\ \A t \in Recorded : journal[t].recordedIn <= epoch
  /\ \A t \in Recorded, u \in Prepared :
       journal[t].recordedIn <= journal[u].preparedIn
  /\ \A t \in Recorded :
       journal[t].recordedIn = epoch =>
         /\ wallet[journal[t].note] = "spent"
         /\ pc = "prepare" => journal[t].note # job.note
  /\ NoteReuseNeedsRestart

\* Heights in flight and heights recorded are those of the chain.
HeightInv ==
  reorgs = 0 =>
    /\ claim # NoClaim => claim.height = minedAt[claim.tx]
    /\ pc = "apply" /\ polled.height > 0 => polled.height = minedAt[polled.tx]
    /\ HeightsMatchChain

\* The invariant.
IInv ==
  /\ TypeOK
  /\ JournalInv
  /\ RootInv
  /\ NodeInv
  /\ LoopInv
  /\ OperatorInv
  /\ NoteInv
  /\ HeightInv
=============================================================================
