----------------------------- MODULE StoreOpening -----------------------------
(***************************************************************************)
(* Db::open: the statements that bring a database file of any release up   *)
(* to date.  Each is a transaction of its own, the server and anchor_root  *)
(* may run them at the same time, and either may be cut off between two.   *)
(***************************************************************************)
EXTENDS Integers, Sequences, FiniteSets

CONSTANTS
  Processes,  \* those that open the file
  Server,     \* the one that its supervisor starts again
  Stores,     \* files as earlier releases left them
  NoTx,       \* SQL NULL in merkle_roots.anchor_txid
  MaxOpens, MaxCrashes, MaxLeaves  \* bounds

\* The rows of a file are those of its tables.
ASSUME OpeningAssumption ==
  /\ Server \in Processes
  /\ \A s \in Stores :
       /\ s.leaves \in Nat
       /\ s.roots \in Seq({s.roots[k] : k \in DOMAIN s.roots})
       /\ \A k \in DOMAIN s.roots : /\ DOMAIN s.roots[k] = {"root", "count", "txid"}
                                    /\ s.roots[k].count \in Nat

VARIABLES
  schema,   \* tables, columns and unique indexes of the file
  journal,  \* anchor_broadcasts: transaction id and root
  roots,    \* merkle_roots: hash, leaf_count, anchor_txid
  leaves,   \* number of rows of merkle_leaves
  pc,       \* statement a process has come to; 0 when it does not run
  refusal,  \* error with which the last refused open ended
  opens, crashes  \* opens by the operator and crashes so far

store == <<schema, journal, roots, leaves>>
vars == <<store, pc, refusal, opens, crashes>>

-----------------------------------------------------------------------------

Confirmation == {"confirmation_attempts", "next_confirmation_at",
                 "last_confirmation_at", "confirmed_at"}

\* Columns that were added to a table after its first release.
Columns(table) ==
  CASE table = "invoices" -> {"invoice_type", "wallet_hash"}
    [] table = "api_keys" -> {"expires_at"}
    [] table = "anchor_broadcasts" -> Confirmation
    [] OTHER -> {}

Table(name) == [do |-> "table", name |-> name]
Index(columns) == [do |-> "index", on |-> columns]
Alter(column) == [do |-> "alter", name |-> column]
\* A probe is followed by n ALTERs, which it passes over if its column exists.
Probe(column, n) == [do |-> "probe", name |-> column, skip |-> n + 1]
Rows(what) == [do |-> what]

\* Mutant: one probe stands for the four confirmation columns.
PlanOneProbe ==
  << Table("invoices"), Index({"wallet_hash"}), Table("merkle_roots"),
     Probe("invoice_type", 2), Alter("invoice_type"), Alter("wallet_hash"), Rows("clamp"),
     Table("api_keys"), Probe("expires_at", 1), Alter("expires_at"),
     Table("anchor_broadcasts"), Rows("unique"),
     Probe("confirmation_attempts", 4), Alter("confirmation_attempts"),
     Alter("next_confirmation_at"), Alter("last_confirmation_at"), Alter("confirmed_at"),
     Rows("lower_journal"), Rows("lower_roots"), Rows("check"),
     Index({"confirmed_at", "next_confirmation_at"}) >>

\* Mutant: CREATE TABLE IF NOT EXISTS is taken to bring api_keys up to date.
PlanNoExpiry ==
  << Table("invoices"), Index({"wallet_hash"}), Table("merkle_roots"),
     Probe("invoice_type", 2), Alter("invoice_type"), Alter("wallet_hash"), Rows("clamp"),
     Table("api_keys"), Table("anchor_broadcasts"), Rows("unique"),
     Probe("confirmation_attempts", 1), Alter("confirmation_attempts"),
     Probe("next_confirmation_at", 1), Alter("next_confirmation_at"),
     Probe("last_confirmation_at", 1), Alter("last_confirmation_at"),
     Probe("confirmed_at", 1), Alter("confirmed_at"),
     Rows("lower_journal"), Rows("lower_roots"), Rows("check"),
     Index({"confirmed_at", "next_confirmation_at"}) >>

\* The statements of Db::open that may fail or that change something, in order.
Plan ==
  << Table("invoices"), Index({"wallet_hash"}), Table("merkle_roots"),
     Probe("invoice_type", 2), Alter("invoice_type"), Alter("wallet_hash"), Rows("clamp"),
     Table("api_keys"), Probe("expires_at", 1), Alter("expires_at"),
     Table("anchor_broadcasts"), Rows("unique"),
     Probe("confirmation_attempts", 1), Alter("confirmation_attempts"),
     Probe("next_confirmation_at", 1), Alter("next_confirmation_at"),
     Probe("last_confirmation_at", 1), Alter("last_confirmation_at"),
     Probe("confirmed_at", 1), Alter("confirmed_at"),
     Rows("lower_journal"), Rows("lower_roots"), Rows("check"),
     Index({"confirmed_at", "next_confirmation_at"}) >>

Serving == Len(Plan) + 1

-----------------------------------------------------------------------------
(* Identities: 64 characters, which are hexadecimal in lower case or in      *)
(* upper case, or are not hexadecimal.                                       *)

Lower(id) == IF id # NoTx /\ id.form = "upper" THEN [id EXCEPT !.form = "lower"] ELSE id

\* No two rows of a table have the same value, NULL apart.
Distinct(table, Column(_)) ==
  \A j, k \in DOMAIN table :
    j # k /\ Column(table[j]) # NoTx => Column(table[j]) # Column(table[k])

Txid(row) == row.txid
RootHash(row) == row.root

LowerJournal ==
  [k \in DOMAIN journal |-> [txid |-> Lower(journal[k].txid), root |-> Lower(journal[k].root)]]

LowerRoots ==
  [k \in DOMAIN roots |-> [roots[k] EXCEPT !.root = Lower(@), !.txid = Lower(@)]]

Canonical(id) == id = NoTx \/ id.form = "lower"
AllCanonical ==
  /\ \A k \in DOMAIN journal : Canonical(journal[k].txid) /\ Canonical(journal[k].root)
  /\ \A k \in DOMAIN roots : Canonical(roots[k].txid) /\ Canonical(roots[k].root)

\* Mutant: anchored rows are left as they are.
ClampedUnanchored ==
  [k \in DOMAIN roots |->
     [roots[k] EXCEPT !.count = IF @ > leaves /\ roots[k].txid = NoTx THEN leaves ELSE @]]

\* Root rows that claim more leaves than there are claim all of them.
Clamped ==
  [k \in DOMAIN roots |->
     [roots[k] EXCEPT !.count = IF @ > leaves THEN leaves ELSE @]]

-----------------------------------------------------------------------------

Init ==
  /\ \E s \in Stores : /\ schema = s.schema /\ journal = s.journal
                       /\ roots = s.roots /\ leaves = s.leaves
  /\ pc = [p \in Processes |-> 0]
  /\ refusal = "none" /\ opens = 0 /\ crashes = 0

\* The supervisor starts the server whenever it does not run.
StartServer ==
  /\ pc[Server] = 0
  /\ pc' = [pc EXCEPT ![Server] = 1]
  /\ UNCHANGED <<store, refusal, opens, crashes>>

\* The operator runs anchor_root.
StartTool(p) ==
  /\ p # Server /\ pc[p] = 0 /\ opens < MaxOpens
  /\ opens' = opens + 1
  /\ pc' = [pc EXCEPT ![p] = 1]
  /\ UNCHANGED <<store, refusal, crashes>>

At(p, what) == pc[p] \in DOMAIN Plan /\ Plan[pc[p]].do = what
Statement(p) == Plan[pc[p]]
Advance(p, n) == pc' = [pc EXCEPT ![p] = @ + n]

Refuse(p, why) ==
  /\ pc' = [pc EXCEPT ![p] = 0]
  /\ refusal' = why
  /\ UNCHANGED <<store, opens, crashes>>

\* CREATE TABLE IF NOT EXISTS
CreateTable(p) ==
  /\ At(p, "table")
  /\ LET table == Statement(p).name IN
     schema' = IF table \in schema THEN schema ELSE schema \cup {table} \cup Columns(table)
  /\ Advance(p, 1)
  /\ UNCHANGED <<journal, roots, leaves, refusal, opens, crashes>>

\* CREATE INDEX IF NOT EXISTS on columns that were added later.
CreateIndex(p) ==
  /\ At(p, "index")
  /\ IF Statement(p).on \subseteq schema
     THEN Advance(p, 1) /\ UNCHANGED <<store, refusal, opens, crashes>>
     ELSE Refuse(p, "no_such_column")

\* prepare("SELECT column FROM table LIMIT 0")
ProbeColumn(p) ==
  /\ At(p, "probe")
  /\ Advance(p, IF Statement(p).name \in schema THEN Statement(p).skip ELSE 1)
  /\ UNCHANGED <<store, refusal, opens, crashes>>

\* ALTER TABLE ADD COLUMN; another process may have added it since the probe.
AddColumn(p) ==
  /\ At(p, "alter")
  /\ IF Statement(p).name \notin schema
     THEN /\ schema' = schema \cup {Statement(p).name}
          /\ Advance(p, 1)
          /\ UNCHANGED <<journal, roots, leaves, refusal, opens, crashes>>
     ELSE Refuse(p, "duplicate_column")

ClampCounts(p) ==
  /\ At(p, "clamp")
  /\ roots' = Clamped
  /\ Advance(p, 1)
  /\ UNCHANGED <<schema, journal, leaves, refusal, opens, crashes>>

\* CREATE UNIQUE INDEX IF NOT EXISTS idx_merkle_roots_anchor_txid
UniqueAnchors(p) ==
  /\ At(p, "unique")
  /\ IF "idx_merkle_roots_anchor_txid" \in schema \/ Distinct(roots, Txid)
     THEN /\ schema' = schema \cup {"idx_merkle_roots_anchor_txid"}
          /\ Advance(p, 1)
          /\ UNCHANGED <<journal, roots, leaves, refusal, opens, crashes>>
     ELSE Refuse(p, "not_unique")

CanonicalizeJournal(p) ==
  /\ At(p, "lower_journal")
  /\ IF Distinct(LowerJournal, Txid) /\ Distinct(LowerJournal, RootHash)
     THEN /\ journal' = LowerJournal
          /\ Advance(p, 1)
          /\ UNCHANGED <<schema, roots, leaves, refusal, opens, crashes>>
     ELSE Refuse(p, "not_unique")

CanonicalizeRoots(p) ==
  /\ At(p, "lower_roots")
  /\ IF Distinct(LowerRoots, Txid)
     THEN /\ roots' = LowerRoots
          /\ Advance(p, 1)
          /\ UNCHANGED <<schema, journal, leaves, refusal, opens, crashes>>
     ELSE Refuse(p, "not_unique")

CheckIdentities(p) ==
  /\ At(p, "check")
  /\ IF AllCanonical THEN Advance(p, 1) /\ UNCHANGED <<store, refusal, opens, crashes>>
     ELSE Refuse(p, "not_canonical")

\* The server inserts a leaf with its root.
InsertLeaf ==
  /\ pc[Server] = Serving /\ leaves < MaxLeaves
  /\ leaves' = leaves + 1
  /\ roots' = Append(roots, [root |-> [name |-> leaves + 1, form |-> "lower"],
                             count |-> leaves + 1, txid |-> NoTx])
  /\ UNCHANGED <<schema, journal, pc, refusal, opens, crashes>>

\* The command is done.
Leave(p) ==
  /\ p # Server /\ pc[p] = Serving
  /\ pc' = [pc EXCEPT ![p] = 0]
  /\ UNCHANGED <<store, refusal, opens, crashes>>

\* The process dies, or a statement fails and the error is passed up.
Crash(p) ==
  /\ pc[p] # 0 /\ crashes < MaxCrashes
  /\ crashes' = crashes + 1
  /\ pc' = [pc EXCEPT ![p] = 0]
  /\ UNCHANGED <<store, refusal, opens>>

Execute(p) ==
  \/ CreateTable(p) \/ CreateIndex(p) \/ ProbeColumn(p) \/ AddColumn(p)
  \/ ClampCounts(p) \/ UniqueAnchors(p)
  \/ CanonicalizeJournal(p) \/ CanonicalizeRoots(p) \/ CheckIdentities(p)

Next ==
  \/ StartServer \/ InsertLeaf
  \/ \E p \in Processes : StartTool(p) \/ Execute(p) \/ Leave(p) \/ Crash(p)

\* An open runs to its end, and the server is started again.
Fairness ==
  /\ WF_vars(StartServer)
  /\ \A p \in Processes : WF_vars(Execute(p))

Spec == Init /\ [][Next]_vars /\ Fairness

-----------------------------------------------------------------------------

\* Every variable keeps its type; a root counts at least one leaf.
TypeOK ==
  /\ pc \in [Processes -> 0 .. Serving]
  /\ leaves \in Nat /\ opens \in 0 .. MaxOpens /\ crashes \in 0 .. MaxCrashes
  /\ \A k \in DOMAIN roots : roots[k].count \in Nat \ {0}

Required ==
  {"invoices", "merkle_roots", "api_keys", "anchor_broadcasts", "idx_merkle_roots_anchor_txid"}
    \cup Columns("invoices") \cup Columns("api_keys") \cup Columns("anchor_broadcasts")

\* A process that opened the file finds every table and column its queries
\* name, after whatever was cut off before (Db::open,
\* add_anchor_confirmation_columns).
ServesWholeSchema == \A p \in Processes : pc[p] = Serving => Required \subseteq schema

\* It finds rows as the rest of the program assumes them: identities in lower
\* case, one root for an anchor, and no root with more leaves than there are
\* (Db::open against current_root, record_anchor_reference_in_tx).
ServesSoundRows ==
  \A p \in Processes : pc[p] = Serving =>
    /\ AllCanonical
    /\ Distinct(roots, Txid) /\ Distinct(journal, Txid) /\ Distinct(journal, RootHash)
    /\ \A k \in DOMAIN roots : roots[k].count <= leaves

\* A file with nothing to refuse.
Sound ==
  /\ "invoices" \in schema => Columns("invoices") \subseteq schema
  /\ \A k \in DOMAIN journal : {journal[k].txid.form, journal[k].root.form} \subseteq {"lower", "upper"}
  /\ \A k \in DOMAIN roots : /\ roots[k].root.form # "bad"
                             /\ roots[k].txid # NoTx => roots[k].txid.form # "bad"
  /\ Distinct(LowerRoots, Txid)
  /\ Distinct(LowerJournal, Txid) /\ Distinct(LowerJournal, RootHash)

\* With such a file the server comes up in the end and stays up, whatever was
\* cut off between two statements and whatever anchor_root did meanwhile.
StartsInTheEnd == Sound => <>[](pc[Server] = Serving)

=============================================================================
