----------------------------- MODULE MCLeafStore -----------------------------
(***************************************************************************)
(* The leaf store with one of its two remote readers at work: an operator  *)
(* runs zap1_export or zap1_ops while the server writes.                   *)
(***************************************************************************)
EXTENDS BundleAudit, OpsReport

CONSTANTS l1, l2, l3, l4

MCTypeOf ==
  [leaf \in Leaves |->
     IF leaf = l1 THEN "PROGRAM_ENTRY"
     ELSE IF leaf = l2 THEN "DEPLOYMENT" ELSE "EXIT"]
Symmetry == Permutations({l3, l4})

\* An empty store, or the first leaves of a longer one.
MCImported == <<l1, l2, l3>>

CONSTANT MaxExportInserts  \* bound: inserts during an export

VARIABLE tool   \* the tool the operator runs

ToolsInit ==
  /\ AuditInit /\ OpsInit
  /\ \/ tool = "none" /\ Len(leaves) = 3
     \/ tool = "zap1_export" /\ Len(leaves) \in {0, 2}
     \/ tool = "zap1_ops" /\ leaves = <<>>

ToolsNext ==
  \/ tool = "none" /\ Next /\ UNCHANGED <<exportVars, opsVars, tool>>
  \/ /\ tool = "zap1_export" /\ AuditNext /\ UNCHANGED <<opsVars, tool>>
     /\ inserts' <= MaxExportInserts
  \/ tool = "zap1_ops" /\ OpsNext /\ UNCHANGED <<exportVars, tool>>

ToolsSpec == ToolsInit /\ [][ToolsNext]_<<vars, exportVars, opsVars, tool>>
=============================================================================
