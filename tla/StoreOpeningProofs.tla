-------------------------- MODULE StoreOpeningProofs --------------------------
(***************************************************************************)
(* Opening a file, for any files, any number of processes that open it at  *)
(* once and any number of crashes.  A process that has come past a         *)
(* statement knows what the statement did, and nothing that another        *)
(* process executes undoes it (Passed).                                    *)
(***************************************************************************)
EXTENDS StoreOpening, DataLemmas

TypedRows ==
  /\ leaves \in Nat
  /\ IsTable(roots)
  /\ \A k \in DOMAIN roots : /\ DOMAIN roots[k] = {"root", "count", "txid"}
                             /\ roots[k].count \in Nat

Typed == pc \in [Processes -> 0..25] /\ TypedRows

CountsFit == \A k \in DOMAIN roots : roots[k].count <= leaves
JournalDistinct == Distinct(journal, Txid) /\ Distinct(journal, RootHash)
RootsDistinct == Distinct(roots, Txid)

\* What a process that has come to statement n found or brought about.
SchemaPassed(n, present) ==
  /\ n > 1 => "invoices" \in present
  /\ n > 2 => "wallet_hash" \in present
  /\ n > 3 => "merkle_roots" \in present
  /\ n > 5 => "invoice_type" \in present
  /\ n > 8 => "api_keys" \in present
  /\ n > 10 => "expires_at" \in present
  /\ n > 11 => "anchor_broadcasts" \in present
  /\ n > 12 => "idx_merkle_roots_anchor_txid" \in present
  /\ n > 14 => "confirmation_attempts" \in present
  /\ n > 16 => "next_confirmation_at" \in present
  /\ n > 18 => "last_confirmation_at" \in present
  /\ n > 20 => "confirmed_at" \in present

RowsPassed(p) ==
  /\ pc[p] > 7 => CountsFit
  /\ pc[p] > 21 => JournalDistinct
  /\ pc[p] > 22 => RootsDistinct
  /\ pc[p] > 23 => AllCanonical

Passed == \A p \in Processes : SchemaPassed(pc[p], schema) /\ RowsPassed(p)

\* What a step leaves to the processes that do not take it.
Kept ==
  /\ schema \subseteq schema'
  /\ CountsFit => CountsFit'
  /\ JournalDistinct => JournalDistinct'
  /\ RootsDistinct => RootsDistinct'
  /\ AllCanonical => AllCanonical'

\* A step of p.
StepOf(p) ==
  /\ Kept /\ TypedRows'
  /\ pc' = [pc EXCEPT ![p] = pc'[p]] /\ pc'[p] \in 0..25
  /\ SchemaPassed(pc'[p], schema') /\ RowsPassed(p)'

-----------------------------------------------------------------------------
(* The plan. *)

LEMMA PlanLength == Len(Plan) = 24 /\ DOMAIN Plan = 1..24 /\ Serving = 25
  BY DEF Plan, Serving

\* The kinds of the statements.
LEMMA StatementKinds ==
  /\ Plan[1].do = "table"
  /\ Plan[2].do = "index"
  /\ Plan[3].do = "table"
  /\ Plan[4].do = "probe"
  /\ Plan[5].do = "alter"
  /\ Plan[6].do = "alter"
  /\ Plan[7].do = "clamp"
  /\ Plan[8].do = "table"
  /\ Plan[9].do = "probe"
  /\ Plan[10].do = "alter"
  /\ Plan[11].do = "table"
  /\ Plan[12].do = "unique"
  /\ Plan[13].do = "probe"
  /\ Plan[14].do = "alter"
  /\ Plan[15].do = "probe"
  /\ Plan[16].do = "alter"
  /\ Plan[17].do = "probe"
  /\ Plan[18].do = "alter"
  /\ Plan[19].do = "probe"
  /\ Plan[20].do = "alter"
  /\ Plan[21].do = "lower_journal"
  /\ Plan[22].do = "lower_roots"
  /\ Plan[23].do = "check"
  /\ Plan[24].do = "index"
<1>1. Plan[1].do = "table"
  BY DEF Plan, Table
<1>2. Plan[2].do = "index"
  BY DEF Plan, Index
<1>3. Plan[3].do = "table"
  BY DEF Plan, Table
<1>4. Plan[4].do = "probe"
  BY DEF Plan, Probe
<1>5. Plan[5].do = "alter"
  BY DEF Plan, Alter
<1>6. Plan[6].do = "alter"
  BY DEF Plan, Alter
<1>7. Plan[7].do = "clamp"
  BY DEF Plan, Rows
<1>8. Plan[8].do = "table"
  BY DEF Plan, Table
<1>9. Plan[9].do = "probe"
  BY DEF Plan, Probe
<1>10. Plan[10].do = "alter"
  BY DEF Plan, Alter
<1>11. Plan[11].do = "table"
  BY DEF Plan, Table
<1>12. Plan[12].do = "unique"
  BY DEF Plan, Rows
<1>13. Plan[13].do = "probe"
  BY DEF Plan, Probe
<1>14. Plan[14].do = "alter"
  BY DEF Plan, Alter
<1>15. Plan[15].do = "probe"
  BY DEF Plan, Probe
<1>16. Plan[16].do = "alter"
  BY DEF Plan, Alter
<1>17. Plan[17].do = "probe"
  BY DEF Plan, Probe
<1>18. Plan[18].do = "alter"
  BY DEF Plan, Alter
<1>19. Plan[19].do = "probe"
  BY DEF Plan, Probe
<1>20. Plan[20].do = "alter"
  BY DEF Plan, Alter
<1>21. Plan[21].do = "lower_journal"
  BY DEF Plan, Rows
<1>22. Plan[22].do = "lower_roots"
  BY DEF Plan, Rows
<1>23. Plan[23].do = "check"
  BY DEF Plan, Rows
<1>24. Plan[24].do = "index"
  BY DEF Plan, Index
<1> QED
  BY <1>1, <1>2, <1>3, <1>4, <1>5, <1>6, <1>7, <1>8, <1>9, <1>10, <1>11, <1>12, <1>13, <1>14, <1>15, <1>16, <1>17, <1>18, <1>19, <1>20, <1>21, <1>22, <1>23, <1>24

LEMMA StatementNumbers ==
  \A n \in 1..24 :
    \/ n = 1 \/ n = 2 \/ n = 3 \/ n = 4 \/ n = 5 \/ n = 6 \/ n = 7 \/ n = 8
    \/ n = 9 \/ n = 10 \/ n = 11 \/ n = 12 \/ n = 13 \/ n = 14 \/ n = 15 \/ n = 16
    \/ n = 17 \/ n = 18 \/ n = 19 \/ n = 20 \/ n = 21 \/ n = 22 \/ n = 23 \/ n = 24
  OBVIOUS

LEMMA TablesOfPlan ==
  ASSUME NEW n \in 1..24, Plan[n].do = "table"
  PROVE  \/ n = 1 /\ Plan[n].name = "invoices"
         \/ n = 3 /\ Plan[n].name = "merkle_roots"
         \/ n = 8 /\ Plan[n].name = "api_keys"
         \/ n = 11 /\ Plan[n].name = "anchor_broadcasts"
<1>1. \/ n = 1
      \/ n = 3
      \/ n = 8
      \/ n = 11
  BY StatementKinds, StatementNumbers
<1>2. Plan[1].name = "invoices"
  BY DEF Plan, Table
<1>3. Plan[3].name = "merkle_roots"
  BY DEF Plan, Table
<1>4. Plan[8].name = "api_keys"
  BY DEF Plan, Table
<1>5. Plan[11].name = "anchor_broadcasts"
  BY DEF Plan, Table
<1> QED
  BY <1>1, <1>2, <1>3, <1>4, <1>5

LEMMA IndexesOfPlan ==
  ASSUME NEW n \in 1..24, Plan[n].do = "index"
  PROVE  \/ n = 2 /\ Plan[n].on = {"wallet_hash"}
         \/ n = 24
<1>1. \/ n = 2
      \/ n = 24
  BY StatementKinds, StatementNumbers
<1>2. Plan[2].on = {"wallet_hash"}
  BY DEF Plan, Index
<1> QED
  BY <1>1, <1>2

LEMMA ProbesOfPlan ==
  ASSUME NEW n \in 1..24, Plan[n].do = "probe"
  PROVE  \/ n = 4 /\ Plan[n].name = "invoice_type" /\ Plan[n].skip = 3
         \/ n = 9 /\ Plan[n].name = "expires_at" /\ Plan[n].skip = 2
         \/ n = 13 /\ Plan[n].name = "confirmation_attempts" /\ Plan[n].skip = 2
         \/ n = 15 /\ Plan[n].name = "next_confirmation_at" /\ Plan[n].skip = 2
         \/ n = 17 /\ Plan[n].name = "last_confirmation_at" /\ Plan[n].skip = 2
         \/ n = 19 /\ Plan[n].name = "confirmed_at" /\ Plan[n].skip = 2
<1>1. \/ n = 4
      \/ n = 9
      \/ n = 13
      \/ n = 15
      \/ n = 17
      \/ n = 19
  BY StatementKinds, StatementNumbers
<1>2. Plan[4].name = "invoice_type" /\ Plan[4].skip = 3
  <2>1. Plan[4] = Probe("invoice_type", 2)
    BY DEF Plan
  <2> QED
    BY <2>1 DEF Probe
<1>3. Plan[9].name = "expires_at" /\ Plan[9].skip = 2
  <2>1. Plan[9] = Probe("expires_at", 1)
    BY DEF Plan
  <2> QED
    BY <2>1 DEF Probe
<1>4. Plan[13].name = "confirmation_attempts" /\ Plan[13].skip = 2
  <2>1. Plan[13] = Probe("confirmation_attempts", 1)
    BY DEF Plan
  <2> QED
    BY <2>1 DEF Probe
<1>5. Plan[15].name = "next_confirmation_at" /\ Plan[15].skip = 2
  <2>1. Plan[15] = Probe("next_confirmation_at", 1)
    BY DEF Plan
  <2> QED
    BY <2>1 DEF Probe
<1>6. Plan[17].name = "last_confirmation_at" /\ Plan[17].skip = 2
  <2>1. Plan[17] = Probe("last_confirmation_at", 1)
    BY DEF Plan
  <2> QED
    BY <2>1 DEF Probe
<1>7. Plan[19].name = "confirmed_at" /\ Plan[19].skip = 2
  <2>1. Plan[19] = Probe("confirmed_at", 1)
    BY DEF Plan
  <2> QED
    BY <2>1 DEF Probe
<1> QED
  BY <1>1, <1>2, <1>3, <1>4, <1>5, <1>6, <1>7

LEMMA AltersOfPlan ==
  ASSUME NEW n \in 1..24, Plan[n].do = "alter"
  PROVE  \/ n = 5 /\ Plan[n].name = "invoice_type"
         \/ n = 6 /\ Plan[n].name = "wallet_hash"
         \/ n = 10 /\ Plan[n].name = "expires_at"
         \/ n = 14 /\ Plan[n].name = "confirmation_attempts"
         \/ n = 16 /\ Plan[n].name = "next_confirmation_at"
         \/ n = 18 /\ Plan[n].name = "last_confirmation_at"
         \/ n = 20 /\ Plan[n].name = "confirmed_at"
<1>1. \/ n = 5
      \/ n = 6
      \/ n = 10
      \/ n = 14
      \/ n = 16
      \/ n = 18
      \/ n = 20
  BY StatementKinds, StatementNumbers
<1>2. Plan[5].name = "invoice_type"
  BY DEF Plan, Alter
<1>3. Plan[6].name = "wallet_hash"
  BY DEF Plan, Alter
<1>4. Plan[10].name = "expires_at"
  BY DEF Plan, Alter
<1>5. Plan[14].name = "confirmation_attempts"
  BY DEF Plan, Alter
<1>6. Plan[16].name = "next_confirmation_at"
  BY DEF Plan, Alter
<1>7. Plan[18].name = "last_confirmation_at"
  BY DEF Plan, Alter
<1>8. Plan[20].name = "confirmed_at"
  BY DEF Plan, Alter
<1> QED
  BY <1>1, <1>2, <1>3, <1>4, <1>5, <1>6, <1>7, <1>8

LEMMA RowStatementsOfPlan ==
  ASSUME NEW n \in 1..24
  PROVE  /\ Plan[n].do = "clamp" => n = 7
         /\ Plan[n].do = "unique" => n = 12
         /\ Plan[n].do = "lower_journal" => n = 21
         /\ Plan[n].do = "lower_roots" => n = 22
         /\ Plan[n].do = "check" => n = 23
  BY StatementKinds, StatementNumbers

-----------------------------------------------------------------------------
(* Steps. *)

LEMMA SchemaOnlyGrows ==
  ASSUME NEW n \in 0..25, NEW old, NEW new, old \subseteq new, SchemaPassed(n, old)
  PROVE  SchemaPassed(n, new)
  BY DEF SchemaPassed

LEMMA NothingPassed ==
  ASSUME NEW present
  PROVE  SchemaPassed(0, present)
  BY DEF SchemaPassed

LEMMA StepsKeepPassed ==
  ASSUME Typed, Passed, NEW p \in Processes, StepOf(p)
  PROVE  Typed' /\ Passed'
<1>1. Typed'
  BY DEF Typed, StepOf
<1>2. ASSUME NEW q \in Processes
      PROVE  SchemaPassed(pc'[q], schema') /\ RowsPassed(q)'
  <2>1. CASE q = p
    BY <2>1 DEF StepOf
  <2>2. CASE q # p
    <3>1. pc'[q] = pc[q]
      BY <2>2 DEF StepOf, Typed
    <3>2. SchemaPassed(pc[q], schema) /\ RowsPassed(q)
      BY DEF Passed
    <3>3. SchemaPassed(pc'[q], schema')
      <4>1. pc[q] \in 0..25 /\ schema \subseteq schema'
        BY DEF Typed, StepOf, Kept
      <4> QED
        BY <4>1, <3>1, <3>2, SchemaOnlyGrows
    <3>4. RowsPassed(q)'
      BY <3>1, <3>2 DEF StepOf, Kept, RowsPassed
    <3> QED
      BY <3>3, <3>4
  <2> QED
    BY <2>1, <2>2
<1> QED
  BY <1>1, <1>2 DEF Passed

LEMMA StoreUnchanged ==
  ASSUME TypedRows, UNCHANGED <<journal, roots, leaves>>
  PROVE  /\ TypedRows' /\ CountsFit' = CountsFit /\ JournalDistinct' = JournalDistinct
         /\ RootsDistinct' = RootsDistinct /\ AllCanonical' = AllCanonical
  BY DEF TypedRows, CountsFit, JournalDistinct, RootsDistinct, AllCanonical, Distinct,
         Txid, RootHash

\* The process stops: it has passed nothing any more.
LEMMA StopIsStep ==
  ASSUME Typed, NEW p \in Processes, pc' = [pc EXCEPT ![p] = 0], UNCHANGED store
  PROVE  StepOf(p)
<1>1. pc'[p] = 0
  BY DEF Typed
<1>2. UNCHANGED <<schema, journal, roots, leaves>>
  BY DEF store
<1>3. Kept /\ TypedRows'
  <2>1. TypedRows
    BY DEF Typed
  <2> QED
    BY <1>2, <2>1, StoreUnchanged DEF Kept
<1>4. SchemaPassed(pc'[p], schema') /\ RowsPassed(p)'
  BY <1>1, NothingPassed DEF RowsPassed
<1>5. pc'[p] \in 0..25
  BY <1>1
<1>6. pc' = [pc EXCEPT ![p] = pc'[p]]
  BY <1>1, Zenon
<1> QED
  BY <1>3, <1>4, <1>5, <1>6 DEF StepOf

\* A statement that concerns the schema alone.
LEMMA SchemaStep ==
  ASSUME Typed, Passed, NEW p \in Processes, NEW n \in 1..24, NEW m \in 0..25,
         pc[p] = n, pc' = [pc EXCEPT ![p] = m],
         UNCHANGED <<journal, roots, leaves>>, schema \subseteq schema',
         m > 7 => n > 7, m > 21 => n > 21, m > 22 => n > 22, m > 23 => n > 23,
         SchemaPassed(m, schema')
  PROVE  StepOf(p)
<1>1. pc'[p] = m
  BY DEF Typed
<1>2. Kept /\ TypedRows'
  BY StoreUnchanged DEF Typed, Kept
<1>3. RowsPassed(p)
  BY DEF Passed
<1>4. RowsPassed(p)'
  BY <1>1, <1>2, <1>3 DEF RowsPassed, Kept
<1> QED
  BY <1>1, <1>2, <1>4 DEF StepOf

\* A statement that concerns the rows.
LEMMA RowStep ==
  ASSUME Typed, NEW p \in Processes, NEW m \in 0..25, pc' = [pc EXCEPT ![p] = m],
         Kept, TypedRows', SchemaPassed(m, schema'),
         m > 7 => CountsFit', m > 21 => JournalDistinct',
         m > 22 => RootsDistinct', m > 23 => AllCanonical'
  PROVE  StepOf(p)
<1>1. pc'[p] = m
  BY DEF Typed
<1>2. RowsPassed(p)'
  BY <1>1 DEF RowsPassed
<1> QED
  BY <1>1, <1>2 DEF StepOf

\* A process that executes is at a statement of the plan.
LEMMA AtStatement ==
  ASSUME Typed, Passed, NEW p \in Processes, NEW what, At(p, what)
  PROVE  /\ pc[p] \in 1..24 /\ Plan[pc[p]].do = what
         /\ SchemaPassed(pc[p], schema) /\ RowsPassed(p)
  BY PlanLength DEF At, Typed, Passed

LEMMA RefusalIsStep ==
  ASSUME Typed, NEW p \in Processes, NEW why, Refuse(p, why)
  PROVE  StepOf(p)
  BY StopIsStep DEF Refuse

\* What a statement adds to what has been passed.
LEMMA TablePassed ==
  ASSUME NEW present
  PROVE  /\ SchemaPassed(1, present) /\ "invoices" \in present => SchemaPassed(2, present)
         /\ SchemaPassed(3, present) /\ "merkle_roots" \in present => SchemaPassed(4, present)
         /\ SchemaPassed(8, present) /\ "api_keys" \in present => SchemaPassed(9, present)
         /\ SchemaPassed(11, present) /\ "anchor_broadcasts" \in present => SchemaPassed(12, present)
<1>1. SchemaPassed(1, present) /\ "invoices" \in present => SchemaPassed(2, present)
  BY DEF SchemaPassed
<1>2. SchemaPassed(3, present) /\ "merkle_roots" \in present => SchemaPassed(4, present)
  BY DEF SchemaPassed
<1>3. SchemaPassed(8, present) /\ "api_keys" \in present => SchemaPassed(9, present)
  BY DEF SchemaPassed
<1>4. SchemaPassed(11, present) /\ "anchor_broadcasts" \in present => SchemaPassed(12, present)
  BY DEF SchemaPassed
<1> QED
  BY <1>1, <1>2, <1>3, <1>4

LEMMA IndexPassed ==
  ASSUME NEW present
  PROVE  /\ SchemaPassed(2, present) /\ "wallet_hash" \in present => SchemaPassed(3, present)
         /\ SchemaPassed(24, present) => SchemaPassed(25, present)
<1>1. SchemaPassed(2, present) /\ "wallet_hash" \in present => SchemaPassed(3, present)
  BY DEF SchemaPassed
<1>2. SchemaPassed(24, present) => SchemaPassed(25, present)
  BY DEF SchemaPassed
<1> QED
  BY <1>1, <1>2

LEMMA ProbePassed ==
  ASSUME NEW present
  PROVE  /\ SchemaPassed(4, present) => SchemaPassed(5, present)
         /\ SchemaPassed(9, present) => SchemaPassed(10, present)
         /\ SchemaPassed(13, present) => SchemaPassed(14, present)
         /\ SchemaPassed(15, present) => SchemaPassed(16, present)
         /\ SchemaPassed(17, present) => SchemaPassed(18, present)
         /\ SchemaPassed(19, present) => SchemaPassed(20, present)
         /\ SchemaPassed(4, present) /\ "invoice_type" \in present => SchemaPassed(7, present)
         /\ SchemaPassed(9, present) /\ "expires_at" \in present => SchemaPassed(11, present)
         /\ SchemaPassed(13, present) /\ "confirmation_attempts" \in present => SchemaPassed(15, present)
         /\ SchemaPassed(15, present) /\ "next_confirmation_at" \in present => SchemaPassed(17, present)
         /\ SchemaPassed(17, present) /\ "last_confirmation_at" \in present => SchemaPassed(19, present)
         /\ SchemaPassed(19, present) /\ "confirmed_at" \in present => SchemaPassed(21, present)
<1>1. SchemaPassed(4, present) => SchemaPassed(5, present)
  BY DEF SchemaPassed
<1>2. SchemaPassed(9, present) => SchemaPassed(10, present)
  BY DEF SchemaPassed
<1>3. SchemaPassed(13, present) => SchemaPassed(14, present)
  BY DEF SchemaPassed
<1>4. SchemaPassed(15, present) => SchemaPassed(16, present)
  BY DEF SchemaPassed
<1>5. SchemaPassed(17, present) => SchemaPassed(18, present)
  BY DEF SchemaPassed
<1>6. SchemaPassed(19, present) => SchemaPassed(20, present)
  BY DEF SchemaPassed
<1>7. SchemaPassed(4, present) /\ "invoice_type" \in present => SchemaPassed(7, present)
  BY DEF SchemaPassed
<1>8. SchemaPassed(9, present) /\ "expires_at" \in present => SchemaPassed(11, present)
  BY DEF SchemaPassed
<1>9. SchemaPassed(13, present) /\ "confirmation_attempts" \in present => SchemaPassed(15, present)
  BY DEF SchemaPassed
<1>10. SchemaPassed(15, present) /\ "next_confirmation_at" \in present => SchemaPassed(17, present)
  BY DEF SchemaPassed
<1>11. SchemaPassed(17, present) /\ "last_confirmation_at" \in present => SchemaPassed(19, present)
  BY DEF SchemaPassed
<1>12. SchemaPassed(19, present) /\ "confirmed_at" \in present => SchemaPassed(21, present)
  BY DEF SchemaPassed
<1> QED
  BY <1>1, <1>2, <1>3, <1>4, <1>5, <1>6, <1>7, <1>8, <1>9, <1>10, <1>11, <1>12

LEMMA AlterPassed ==
  ASSUME NEW present
  PROVE  /\ SchemaPassed(5, present) /\ "invoice_type" \in present => SchemaPassed(6, present)
         /\ SchemaPassed(6, present) => SchemaPassed(7, present)
         /\ SchemaPassed(10, present) /\ "expires_at" \in present => SchemaPassed(11, present)
         /\ SchemaPassed(14, present) /\ "confirmation_attempts" \in present => SchemaPassed(15, present)
         /\ SchemaPassed(16, present) /\ "next_confirmation_at" \in present => SchemaPassed(17, present)
         /\ SchemaPassed(18, present) /\ "last_confirmation_at" \in present => SchemaPassed(19, present)
         /\ SchemaPassed(20, present) /\ "confirmed_at" \in present => SchemaPassed(21, present)
<1>1. SchemaPassed(5, present) /\ "invoice_type" \in present => SchemaPassed(6, present)
  BY DEF SchemaPassed
<1>2. SchemaPassed(6, present) => SchemaPassed(7, present)
  BY DEF SchemaPassed
<1>3. SchemaPassed(10, present) /\ "expires_at" \in present => SchemaPassed(11, present)
  BY DEF SchemaPassed
<1>4. SchemaPassed(14, present) /\ "confirmation_attempts" \in present => SchemaPassed(15, present)
  BY DEF SchemaPassed
<1>5. SchemaPassed(16, present) /\ "next_confirmation_at" \in present => SchemaPassed(17, present)
  BY DEF SchemaPassed
<1>6. SchemaPassed(18, present) /\ "last_confirmation_at" \in present => SchemaPassed(19, present)
  BY DEF SchemaPassed
<1>7. SchemaPassed(20, present) /\ "confirmed_at" \in present => SchemaPassed(21, present)
  BY DEF SchemaPassed
<1> QED
  BY <1>1, <1>2, <1>3, <1>4, <1>5, <1>6, <1>7

LEMMA RowStatementPassed ==
  ASSUME NEW present
  PROVE  /\ SchemaPassed(7, present) => SchemaPassed(8, present)
         /\ SchemaPassed(12, present) /\ "idx_merkle_roots_anchor_txid" \in present => SchemaPassed(13, present)
         /\ SchemaPassed(21, present) => SchemaPassed(22, present)
         /\ SchemaPassed(22, present) => SchemaPassed(23, present)
         /\ SchemaPassed(23, present) => SchemaPassed(24, present)
<1>1. SchemaPassed(7, present) => SchemaPassed(8, present)
  BY DEF SchemaPassed
<1>2. SchemaPassed(12, present) /\ "idx_merkle_roots_anchor_txid" \in present => SchemaPassed(13, present)
  BY DEF SchemaPassed
<1>3. SchemaPassed(21, present) => SchemaPassed(22, present)
  BY DEF SchemaPassed
<1>4. SchemaPassed(22, present) => SchemaPassed(23, present)
  BY DEF SchemaPassed
<1>5. SchemaPassed(23, present) => SchemaPassed(24, present)
  BY DEF SchemaPassed
<1> QED
  BY <1>1, <1>2, <1>3, <1>4, <1>5

LEMMA CreateTableStep ==
  ASSUME Typed, Passed, NEW p \in Processes, CreateTable(p)
  PROVE  StepOf(p)
<1> DEFINE n == pc[p]
           table == Plan[n].name
<1>1. n \in 1..24 /\ Plan[n].do = "table" /\ SchemaPassed(n, schema)
  BY AtStatement DEF CreateTable
<1>2. schema \subseteq schema' /\ table \in schema'
  BY DEF CreateTable, Statement
<1>3. UNCHANGED <<journal, roots, leaves>> /\ pc' = [pc EXCEPT ![p] = n + 1]
  BY DEF CreateTable, Advance
<1>4. SchemaPassed(n, schema')
  BY <1>1, <1>2, SchemaOnlyGrows
<1>5. \/ n = 1 /\ table = "invoices"
      \/ n = 3 /\ table = "merkle_roots"
      \/ n = 8 /\ table = "api_keys"
      \/ n = 11 /\ table = "anchor_broadcasts"
  BY <1>1, TablesOfPlan
<1>6. SchemaPassed(n + 1, schema')
  BY <1>2, <1>4, <1>5, TablePassed
<1>7. /\ n + 1 > 7 => n > 7
      /\ n + 1 > 21 => n > 21
      /\ n + 1 > 22 => n > 22
      /\ n + 1 > 23 => n > 23
      /\ n + 1 \in 0..25
  BY <1>5
<1> QED
  BY <1>1, <1>2, <1>3, <1>6, <1>7, SchemaStep

LEMMA CreateIndexStep ==
  ASSUME Typed, Passed, NEW p \in Processes, CreateIndex(p)
  PROVE  StepOf(p)
<1> DEFINE n == pc[p]
<1>1. n \in 1..24 /\ Plan[n].do = "index" /\ SchemaPassed(n, schema)
  BY AtStatement DEF CreateIndex
<1>2. CASE Plan[n].on \subseteq schema
  <2>1. UNCHANGED <<journal, roots, leaves>> /\ schema' = schema /\ pc' = [pc EXCEPT ![p] = n + 1]
    BY <1>2 DEF CreateIndex, Statement, Advance, store
  <2>2. \/ n = 2 /\ Plan[n].on = {"wallet_hash"}
        \/ n = 24
    BY <1>1, IndexesOfPlan
  <2>3. SchemaPassed(n + 1, schema')
    BY <1>1, <1>2, <2>1, <2>2, IndexPassed
  <2>4. /\ n + 1 > 7 => n > 7
        /\ n + 1 > 21 => n > 21
        /\ n + 1 > 22 => n > 22
        /\ n + 1 > 23 => n > 23
        /\ n + 1 \in 0..25
    BY <2>2
  <2> QED
    BY <1>1, <2>1, <2>3, <2>4, SchemaStep
<1>3. CASE ~ (Plan[n].on \subseteq schema)
  BY <1>3, RefusalIsStep DEF CreateIndex, Statement
<1> QED
  BY <1>2, <1>3

LEMMA ProbeColumnStep ==
  ASSUME Typed, Passed, NEW p \in Processes, ProbeColumn(p)
  PROVE  StepOf(p)
<1> DEFINE n == pc[p]
           column == Plan[n].name
           m == n + IF column \in schema THEN Plan[n].skip ELSE 1
<1>1. n \in 1..24 /\ Plan[n].do = "probe" /\ SchemaPassed(n, schema)
  BY AtStatement DEF ProbeColumn
<1>2. UNCHANGED <<journal, roots, leaves>> /\ schema' = schema /\ pc' = [pc EXCEPT ![p] = m]
  BY DEF ProbeColumn, Statement, Advance, store
<1>3. \/ n = 4 /\ column = "invoice_type" /\ Plan[n].skip = 3
      \/ n = 9 /\ column = "expires_at" /\ Plan[n].skip = 2
      \/ n = 13 /\ column = "confirmation_attempts" /\ Plan[n].skip = 2
      \/ n = 15 /\ column = "next_confirmation_at" /\ Plan[n].skip = 2
      \/ n = 17 /\ column = "last_confirmation_at" /\ Plan[n].skip = 2
      \/ n = 19 /\ column = "confirmed_at" /\ Plan[n].skip = 2
  BY <1>1, ProbesOfPlan
<1>4. SchemaPassed(m, schema')
  <2>1. CASE column \in schema
    BY <1>1, <1>2, <1>3, <2>1, ProbePassed
  <2>2. CASE column \notin schema
    BY <1>1, <1>2, <1>3, <2>2, ProbePassed
  <2> QED
    BY <2>1, <2>2
<1>5. /\ m > 7 => n > 7
      /\ m > 21 => n > 21
      /\ m > 22 => n > 22
      /\ m > 23 => n > 23
      /\ m \in 0..25
  BY <1>3
<1> QED
  BY <1>1, <1>2, <1>4, <1>5, SchemaStep

LEMMA AddColumnStep ==
  ASSUME Typed, Passed, NEW p \in Processes, AddColumn(p)
  PROVE  StepOf(p)
<1> DEFINE n == pc[p]
           column == Plan[n].name
<1>1. n \in 1..24 /\ Plan[n].do = "alter" /\ SchemaPassed(n, schema)
  BY AtStatement DEF AddColumn
<1>2. CASE column \notin schema
  <2>1. /\ UNCHANGED <<journal, roots, leaves>> /\ pc' = [pc EXCEPT ![p] = n + 1]
        /\ schema \subseteq schema' /\ column \in schema'
    BY <1>2 DEF AddColumn, Statement, Advance
  <2>2. \/ n = 5 /\ column = "invoice_type"
        \/ n = 6
        \/ n = 10 /\ column = "expires_at"
        \/ n = 14 /\ column = "confirmation_attempts"
        \/ n = 16 /\ column = "next_confirmation_at"
        \/ n = 18 /\ column = "last_confirmation_at"
        \/ n = 20 /\ column = "confirmed_at"
    BY <1>1, AltersOfPlan
  <2>3. SchemaPassed(n, schema')
    BY <1>1, <2>1, SchemaOnlyGrows
  <2>4. SchemaPassed(n + 1, schema')
    BY <2>1, <2>2, <2>3, AlterPassed
  <2>5. /\ n + 1 > 7 => n > 7
        /\ n + 1 > 21 => n > 21
        /\ n + 1 > 22 => n > 22
        /\ n + 1 > 23 => n > 23
        /\ n + 1 \in 0..25
    BY <2>2
  <2> QED
    BY <1>1, <2>1, <2>4, <2>5, SchemaStep
<1>3. CASE column \in schema
  BY <1>3, RefusalIsStep DEF AddColumn, Statement
<1> QED
  BY <1>2, <1>3

\* Rows that take the place of the rows of merkle_roots, one for one.
LEMMA RowsReplaced ==
  ASSUME TypedRows, leaves' = leaves, DOMAIN roots' = DOMAIN roots,
         roots' = [k \in DOMAIN roots |-> roots'[k]],
         \A k \in DOMAIN roots : /\ DOMAIN roots'[k] = {"root", "count", "txid"}
                                 /\ roots'[k].count \in Nat
  PROVE  TypedRows'
<1>1. Len(roots) \in Nat /\ DOMAIN roots = 1..Len(roots)
  BY TableIndexes DEF TypedRows
<1>2. roots' \in [1..Len(roots) -> {roots'[k] : k \in DOMAIN roots}]
  BY <1>1
<1>3. IsTable(roots')
  BY <1>1, <1>2, ListIsSequence, TypedTable
<1> QED
  BY <1>3 DEF TypedRows

LEMMA ClampCountsStep ==
  ASSUME Typed, Passed, NEW p \in Processes, ClampCounts(p)
  PROVE  StepOf(p)
<1>1. /\ pc[p] \in 1..24 /\ pc[p] = 7
      /\ SchemaPassed(7, schema) /\ RowsPassed(p)
  BY AtStatement, RowStatementsOfPlan DEF ClampCounts
<1>2. /\ UNCHANGED <<schema, journal, leaves>> /\ roots' = Clamped
      /\ pc' = [pc EXCEPT ![p] = 8]
  BY <1>1 DEF ClampCounts, Advance
<1>3. /\ DOMAIN roots' = DOMAIN roots
      /\ \A k \in DOMAIN roots :
           roots'[k] = [roots[k] EXCEPT !.count = IF roots[k].count > leaves THEN leaves
                                                  ELSE roots[k].count]
  BY <1>2 DEF Clamped
<1>4. \A k \in DOMAIN roots :
        /\ roots'[k].count \in Nat /\ roots'[k].count <= leaves
        /\ roots'[k].txid = roots[k].txid /\ roots'[k].root = roots[k].root
        /\ DOMAIN roots'[k] = {"root", "count", "txid"}
  <2> TAKE k \in DOMAIN roots
  <2>1. /\ DOMAIN roots[k] = {"root", "count", "txid"}
        /\ roots[k].count \in Nat /\ leaves \in Nat
    BY DEF Typed, TypedRows
  <2> QED
    BY <1>3, <2>1
<1>5. roots' = [k \in DOMAIN roots |-> roots'[k]]
  BY <1>2 DEF Clamped
<1>6. TypedRows'
  BY <1>2, <1>3, <1>4, <1>5, RowsReplaced DEF Typed
<1>7. CountsFit'
  BY <1>2, <1>3, <1>4 DEF CountsFit
<1>8. JournalDistinct => JournalDistinct'
  BY <1>2 DEF JournalDistinct, Distinct, Txid, RootHash
<1>9. RootsDistinct => RootsDistinct'
  BY <1>3, <1>4 DEF RootsDistinct, Distinct, Txid
<1>10. AllCanonical => AllCanonical'
  BY <1>2, <1>3, <1>4 DEF AllCanonical
<1>11. Kept
  BY <1>2, <1>7, <1>8, <1>9, <1>10 DEF Kept
<1>12. SchemaPassed(8, schema')
  BY <1>1, <1>2, RowStatementPassed
<1>13. 8 \in 0..25 /\ ~ (8 > 21) /\ ~ (8 > 22) /\ ~ (8 > 23)
  OBVIOUS
<1> QED
  BY <1>2, <1>6, <1>7, <1>11, <1>12, <1>13, RowStep

LEMMA UniqueAnchorsStep ==
  ASSUME Typed, Passed, NEW p \in Processes, UniqueAnchors(p)
  PROVE  StepOf(p)
<1> DEFINE index == "idx_merkle_roots_anchor_txid"
<1>1. pc[p] = 12 /\ SchemaPassed(12, schema)
  BY AtStatement, RowStatementsOfPlan DEF UniqueAnchors
<1>2. CASE index \in schema \/ Distinct(roots, Txid)
  <2>1. /\ UNCHANGED <<journal, roots, leaves>> /\ pc' = [pc EXCEPT ![p] = 13]
        /\ schema \subseteq schema' /\ index \in schema'
    BY <1>1, <1>2 DEF UniqueAnchors, Advance
  <2>2. SchemaPassed(13, schema')
    BY <1>1, <2>1, SchemaOnlyGrows, RowStatementPassed
  <2>3. /\ 13 \in 0..25 /\ 12 \in 1..24
        /\ 13 > 7 => 12 > 7
        /\ 13 > 21 => 12 > 21
        /\ 13 > 22 => 12 > 22
        /\ 13 > 23 => 12 > 23
    OBVIOUS
  <2> QED
    BY <1>1, <2>1, <2>2, <2>3, SchemaStep
<1>3. CASE ~ (index \in schema \/ Distinct(roots, Txid))
  BY <1>3, RefusalIsStep DEF UniqueAnchors
<1> QED
  BY <1>2, <1>3

\* Lower case leaves a canonical identity as it is.
LEMMA LowerKeepsCanonical ==
  ASSUME NEW id, Canonical(id)
  PROVE  Lower(id) = id
<1>1. CASE id = NoTx
  BY <1>1 DEF Lower
<1>2. CASE id # NoTx
  <2>1. id.form = "lower"
    BY <1>2 DEF Canonical
  <2> QED
    BY <2>1 DEF Lower
<1> QED
  BY <1>1, <1>2

LEMMA CanonicalizeJournalStep ==
  ASSUME Typed, Passed, NEW p \in Processes, CanonicalizeJournal(p)
  PROVE  StepOf(p)
<1> DEFINE unique == Distinct(LowerJournal, Txid) /\ Distinct(LowerJournal, RootHash)
<1>1. pc[p] = 21 /\ SchemaPassed(21, schema) /\ RowsPassed(p)
  BY AtStatement, RowStatementsOfPlan DEF CanonicalizeJournal
<1>2. CASE unique
  <2>1. /\ UNCHANGED <<schema, roots, leaves>> /\ journal' = LowerJournal
        /\ pc' = [pc EXCEPT ![p] = 22]
    BY <1>1, <1>2 DEF CanonicalizeJournal, Advance
  <2>2. JournalDistinct'
    BY <1>2, <2>1 DEF JournalDistinct
  <2>3. CountsFit' = CountsFit /\ RootsDistinct' = RootsDistinct /\ TypedRows'
    BY <2>1 DEF CountsFit, RootsDistinct, Distinct, Txid, Typed, TypedRows
  <2>4. ASSUME AllCanonical
        PROVE  AllCanonical'
    <3>1. ASSUME NEW k \in DOMAIN journal
          PROVE  LowerJournal[k].txid = journal[k].txid /\ LowerJournal[k].root = journal[k].root
      <4>1. Canonical(journal[k].txid) /\ Canonical(journal[k].root)
        BY <2>4 DEF AllCanonical
      <4>2. Lower(journal[k].txid) = journal[k].txid /\ Lower(journal[k].root) = journal[k].root
        BY <4>1, LowerKeepsCanonical
      <4> QED
        BY <4>2 DEF LowerJournal
    <3>2. DOMAIN LowerJournal = DOMAIN journal
      BY DEF LowerJournal
    <3> QED
      BY <2>1, <2>4, <3>1, <3>2 DEF AllCanonical
  <2>5. Kept
    BY <2>1, <2>2, <2>3, <2>4 DEF Kept
  <2>6. SchemaPassed(22, schema')
    BY <1>1, <2>1, RowStatementPassed
  <2>7. CountsFit'
    BY <1>1, <2>3 DEF RowsPassed
  <2>8. 22 \in 0..25 /\ ~ (22 > 22) /\ ~ (22 > 23)
    OBVIOUS
  <2> QED
    BY <2>1, <2>2, <2>3, <2>5, <2>6, <2>7, <2>8, RowStep
<1>3. CASE ~ unique
  BY <1>3, RefusalIsStep DEF CanonicalizeJournal
<1> QED
  BY <1>2, <1>3

LEMMA CanonicalizeRootsStep ==
  ASSUME Typed, Passed, NEW p \in Processes, CanonicalizeRoots(p)
  PROVE  StepOf(p)
<1>1. pc[p] = 22 /\ SchemaPassed(22, schema) /\ RowsPassed(p)
  BY AtStatement, RowStatementsOfPlan DEF CanonicalizeRoots
<1>2. CASE Distinct(LowerRoots, Txid)
  <2>1. /\ UNCHANGED <<schema, journal, leaves>> /\ roots' = LowerRoots
        /\ pc' = [pc EXCEPT ![p] = 23]
    BY <1>1, <1>2 DEF CanonicalizeRoots, Advance
  <2>2. /\ DOMAIN roots' = DOMAIN roots
        /\ \A k \in DOMAIN roots :
             roots'[k] = [roots[k] EXCEPT !.root = Lower(roots[k].root),
                                          !.txid = Lower(roots[k].txid)]
    BY <2>1 DEF LowerRoots
  <2>3. \A k \in DOMAIN roots :
          /\ roots'[k].count = roots[k].count /\ roots'[k].count \in Nat
          /\ roots'[k].txid = Lower(roots[k].txid) /\ roots'[k].root = Lower(roots[k].root)
          /\ DOMAIN roots'[k] = {"root", "count", "txid"}
    <3> TAKE k \in DOMAIN roots
    <3>1. DOMAIN roots[k] = {"root", "count", "txid"} /\ roots[k].count \in Nat
      BY DEF Typed, TypedRows
    <3> QED
      BY <2>2, <3>1
  <2>4. roots' = [k \in DOMAIN roots |-> roots'[k]]
    BY <2>1 DEF LowerRoots
  <2>5. TypedRows'
    BY <2>1, <2>2, <2>3, <2>4, RowsReplaced DEF Typed
  <2>6. RootsDistinct'
    BY <1>2, <2>1 DEF RootsDistinct
  <2>7. JournalDistinct' = JournalDistinct /\ (CountsFit => CountsFit')
    <3>1. JournalDistinct' = JournalDistinct
      BY <2>1 DEF JournalDistinct, Distinct, Txid, RootHash
    <3>2. CountsFit => CountsFit'
      BY <2>1, <2>2, <2>3 DEF CountsFit
    <3> QED
      BY <3>1, <3>2
  <2>8. ASSUME AllCanonical
        PROVE  AllCanonical'
    <3>1. ASSUME NEW k \in DOMAIN roots
          PROVE  roots'[k].txid = roots[k].txid /\ roots'[k].root = roots[k].root
      <4>1. Canonical(roots[k].txid) /\ Canonical(roots[k].root)
        BY <2>8 DEF AllCanonical
      <4> QED
        BY <2>3, <4>1, LowerKeepsCanonical
    <3> QED
      BY <2>1, <2>2, <2>8, <3>1 DEF AllCanonical
  <2>9. Kept
    BY <2>1, <2>6, <2>7, <2>8 DEF Kept
  <2>10. SchemaPassed(23, schema')
    BY <1>1, <2>1, RowStatementPassed
  <2>11. CountsFit' /\ JournalDistinct'
    BY <1>1, <2>7 DEF RowsPassed
  <2>12. 23 \in 0..25 /\ ~ (23 > 23)
    OBVIOUS
  <2> QED
    BY <2>1, <2>5, <2>6, <2>9, <2>10, <2>11, <2>12, RowStep
<1>3. CASE ~ Distinct(LowerRoots, Txid)
  BY <1>3, RefusalIsStep DEF CanonicalizeRoots
<1> QED
  BY <1>2, <1>3

LEMMA CheckIdentitiesStep ==
  ASSUME Typed, Passed, NEW p \in Processes, CheckIdentities(p)
  PROVE  StepOf(p)
<1>1. pc[p] = 23 /\ SchemaPassed(23, schema) /\ RowsPassed(p)
  BY AtStatement, RowStatementsOfPlan DEF CheckIdentities
<1>2. CASE AllCanonical
  <2>1. UNCHANGED <<schema, journal, roots, leaves>> /\ pc' = [pc EXCEPT ![p] = 24]
    BY <1>1, <1>2 DEF CheckIdentities, Advance, store
  <2>2. TypedRows' /\ Kept
    BY <2>1, StoreUnchanged DEF Typed, Kept
  <2>3. CountsFit' /\ JournalDistinct' /\ RootsDistinct'
    BY <1>1, <2>2 DEF RowsPassed, Kept
  <2>4. SchemaPassed(24, schema') /\ AllCanonical'
    BY <1>1, <1>2, <2>1, <2>2, RowStatementPassed DEF Kept
  <2>5. 24 \in 0..25
    OBVIOUS
  <2> QED
    BY <2>1, <2>2, <2>3, <2>4, <2>5, RowStep
<1>3. CASE ~ AllCanonical
  BY <1>3, RefusalIsStep DEF CheckIdentities
<1> QED
  BY <1>2, <1>3

LEMMA InsertLeafStep ==
  ASSUME Typed, Passed, OpeningAssumption, InsertLeaf
  PROVE  StepOf(Server)
<1> DEFINE row == [root |-> [name |-> leaves + 1, form |-> "lower"],
                   count |-> leaves + 1, txid |-> NoTx]
<1>1. /\ Server \in Processes /\ pc[Server] = 25
      /\ UNCHANGED <<schema, journal, pc>> /\ leaves' = leaves + 1
      /\ roots' = Append(roots, row)
  BY PlanLength DEF InsertLeaf, OpeningAssumption
<1>2. SchemaPassed(25, schema) /\ RowsPassed(Server)
  BY <1>1 DEF Passed
<1>3. pc' = [pc EXCEPT ![Server] = 25]
  BY <1>1 DEF Typed
<1>4. /\ leaves \in Nat /\ Len(roots) \in Nat /\ DOMAIN roots = 1..Len(roots)
      /\ IsTable(roots') /\ DOMAIN roots' = 1..Len(roots) + 1
      /\ \A k \in DOMAIN roots : roots'[k] = roots[k]
      /\ roots'[Len(roots) + 1] = row
  BY <1>1, InsertRow, TableIndexes DEF Typed, TypedRows
<1>5. \A k \in DOMAIN roots' : k \in DOMAIN roots \/ k = Len(roots) + 1
  BY <1>4
<1>6. row.count = leaves + 1 /\ DOMAIN row = {"root", "count", "txid"}
  OBVIOUS
<1>7. TypedRows'
  BY <1>1, <1>4, <1>5, <1>6 DEF Typed, TypedRows
<1>8. CountsFit => CountsFit'
  <2> SUFFICES ASSUME CountsFit, NEW k \in DOMAIN roots'
               PROVE  roots'[k].count <= leaves'
    BY DEF CountsFit
  <2>1. CASE k \in DOMAIN roots
    <3>1. roots[k].count \in Nat /\ roots[k].count <= leaves
      BY <2>1 DEF CountsFit, Typed, TypedRows
    <3> QED
      BY <1>1, <1>4, <2>1, <3>1
  <2>2. CASE k = Len(roots) + 1
    BY <1>1, <1>4, <1>6, <2>2
  <2> QED
    BY <1>5, <2>1, <2>2
<1>9. JournalDistinct => JournalDistinct'
  BY <1>1 DEF JournalDistinct, Distinct, Txid, RootHash
<1>10. RootsDistinct => RootsDistinct'
  <2>1. row.txid = NoTx
    OBVIOUS
  <2> SUFFICES ASSUME RootsDistinct, NEW j \in DOMAIN roots', NEW k \in DOMAIN roots',
                      j # k, roots'[j].txid # NoTx
               PROVE  roots'[j].txid # roots'[k].txid
    BY DEF RootsDistinct, Distinct, Txid
  <2>2. j \in DOMAIN roots /\ roots'[j] = roots[j]
    BY <1>4, <1>5, <2>1
  <2>3. CASE k \in DOMAIN roots
    BY <1>4, <2>2, <2>3 DEF RootsDistinct, Distinct, Txid
  <2>4. CASE k = Len(roots) + 1
    BY <1>4, <2>1, <2>4
  <2> QED
    BY <1>5, <2>3, <2>4
<1>11. AllCanonical => AllCanonical'
  <2>1. Canonical(row.root) /\ Canonical(row.txid)
    BY DEF Canonical
  <2> QED
    BY <1>1, <1>4, <1>5, <2>1 DEF AllCanonical
<1>12. Kept
  BY <1>1, <1>8, <1>9, <1>10, <1>11 DEF Kept
<1>13. CountsFit' /\ JournalDistinct' /\ RootsDistinct' /\ AllCanonical'
  BY <1>1, <1>2, <1>8, <1>9, <1>10, <1>11 DEF RowsPassed
<1>14. SchemaPassed(25, schema') /\ 25 \in 0..25
  BY <1>1, <1>2
<1> QED
  BY <1>1, <1>3, <1>7, <1>12, <1>13, <1>14, RowStep

\* A process begins at the first statement.
LEMMA StartIsStep ==
  ASSUME Typed, NEW p \in Processes, pc' = [pc EXCEPT ![p] = 1], UNCHANGED store
  PROVE  StepOf(p)
<1>1. UNCHANGED <<schema, journal, roots, leaves>>
  BY DEF store
<1>2. TypedRows' /\ Kept
  BY <1>1, StoreUnchanged DEF Typed, Kept
<1>3. SchemaPassed(1, schema')
  BY DEF SchemaPassed
<1>4. 1 \in 0..25 /\ ~ (1 > 7) /\ ~ (1 > 21) /\ ~ (1 > 22) /\ ~ (1 > 23)
  OBVIOUS
<1> QED
  BY <1>2, <1>3, <1>4, RowStep

-----------------------------------------------------------------------------
(* Theorems. *)

LEMMA FilesAreSound ==
  ASSUME OpeningAssumption, Init
  PROVE  Typed /\ Passed
<1>1. TypedRows
  <2>1. PICK s \in Stores : roots = s.roots /\ leaves = s.leaves
    BY DEF Init
  <2> QED
    BY <2>1 DEF OpeningAssumption, TypedRows, IsTable, RowsIn
<1>2. \A p \in Processes : pc[p] = 0
  BY DEF Init
<1>3. Passed
  BY <1>2, NothingPassed DEF Passed, RowsPassed
<1>4. pc \in [Processes -> 0..25]
  BY DEF Init
<1> QED
  BY <1>1, <1>3, <1>4 DEF Typed

LEMMA NextKeepsPassed ==
  ASSUME OpeningAssumption, Typed, Passed, [Next]_vars
  PROVE  Typed' /\ Passed'
<1>1. CASE StartServer
  BY <1>1, StartIsStep, StepsKeepPassed DEF StartServer, OpeningAssumption
<1>2. CASE InsertLeaf
  BY <1>2, InsertLeafStep, StepsKeepPassed DEF OpeningAssumption
<1>3. ASSUME NEW p \in Processes, StartTool(p) \/ Execute(p) \/ Leave(p) \/ Crash(p)
      PROVE  Typed' /\ Passed'
  <2>1. CASE StartTool(p)
    BY <2>1, StartIsStep, StepsKeepPassed DEF StartTool
  <2>2. CASE Execute(p)
    <3>1. StepOf(p)
      BY <2>2, CreateTableStep, CreateIndexStep, ProbeColumnStep, AddColumnStep,
         ClampCountsStep, UniqueAnchorsStep, CanonicalizeJournalStep,
         CanonicalizeRootsStep, CheckIdentitiesStep DEF Execute
    <3> QED
      BY <3>1, StepsKeepPassed
  <2>3. CASE Leave(p)
    BY <2>3, StopIsStep, StepsKeepPassed DEF Leave
  <2>4. CASE Crash(p)
    BY <2>4, StopIsStep, StepsKeepPassed DEF Crash
  <2> QED
    BY <1>3, <2>1, <2>2, <2>3, <2>4
<1>4. CASE UNCHANGED vars
  <2>1. UNCHANGED <<schema, journal, roots, leaves, pc>>
    BY <1>4 DEF vars, store
  <2>2. Typed'
    BY <2>1, StoreUnchanged DEF Typed
  <2>3. Passed'
    BY <2>1, StoreUnchanged DEF Typed, Passed, RowsPassed
  <2> QED
    BY <2>2, <2>3
<1> QED
  BY <1>1, <1>2, <1>3, <1>4 DEF Next

LEMMA AlwaysPassed == Spec => [](Typed /\ Passed)
  BY OpeningAssumption, FilesAreSound, NextKeepsPassed, PTL DEF Spec

\* Whoever has opened the file, of whatever release and after whatever crashes
\* and concurrent opens, finds every table, column and index it uses.
THEOREM OpenedSchemaIsWhole == Spec => []ServesWholeSchema
<1>1. Typed /\ Passed => ServesWholeSchema
  <2> SUFFICES ASSUME Passed, NEW p \in Processes, pc[p] = Serving
               PROVE  Required \subseteq schema
    BY DEF ServesWholeSchema
  <2>1. SchemaPassed(25, schema)
    BY PlanLength DEF Passed
  <2>2. /\ "invoices" \in schema /\ "wallet_hash" \in schema /\ "merkle_roots" \in schema
        /\ "invoice_type" \in schema /\ "api_keys" \in schema /\ "expires_at" \in schema
        /\ "anchor_broadcasts" \in schema /\ "idx_merkle_roots_anchor_txid" \in schema
        /\ "confirmation_attempts" \in schema /\ "next_confirmation_at" \in schema
        /\ "last_confirmation_at" \in schema /\ "confirmed_at" \in schema
    BY <2>1 DEF SchemaPassed
  <2> QED
    BY <2>2 DEF Required, Columns, Confirmation
<1> QED
  BY <1>1, AlwaysPassed, PTL

\* Whoever has opened the file finds canonical identities, one root for an
\* anchor and no root with more leaves than there are, and so it stays.
THEOREM OpenedRowsAreSound == Spec => []ServesSoundRows
<1>1. Typed /\ Passed => ServesSoundRows
  <2> SUFFICES ASSUME Passed, NEW p \in Processes, pc[p] = Serving
               PROVE  /\ AllCanonical
                      /\ Distinct(roots, Txid)
                      /\ Distinct(journal, Txid) /\ Distinct(journal, RootHash)
                      /\ \A k \in DOMAIN roots : roots[k].count <= leaves
    BY DEF ServesSoundRows
  <2>1. CountsFit /\ JournalDistinct /\ RootsDistinct /\ AllCanonical
    BY PlanLength DEF Passed, RowsPassed
  <2> QED
    BY <2>1 DEF CountsFit, JournalDistinct, RootsDistinct
<1> QED
  BY <1>1, AlwaysPassed, PTL
===============================================================================
