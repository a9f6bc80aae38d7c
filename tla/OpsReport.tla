------------------------------ MODULE OpsReport ------------------------------
(***************************************************************************)
(* The zap1_ops tool: it asks the server for its health, its statistics,   *)
(* its anchor status and its anchor history, one request after the other   *)
(* while the store is written, and rolls the answers up into one verdict.  *)
(***************************************************************************)
EXTENDS LeafStore

CONSTANTS
  Lags,          \* scan lags the health answer may report
  MaxSyncLag,    \* --max-sync-lag
  HealthMaxLag,  \* DEFAULT_HEALTH_MAX_SYNC_LAG_BLOCKS
  Ages,          \* ages of the last anchored root, in hours
  MaxAnchorAge   \* --max-anchor-age-hours

VARIABLES
  step,      \* the answer the tool waits for, or "done"
  answers,   \* the answers so far
  errors, warnings,   \* of the report
  started,   \* history: the number of leaves when the tool started
  quiet      \* history: nothing was written since it started

opsVars == <<step, answers, errors, warnings, started, quiet>>
reportVars == <<vars, opsVars>>

AnchoredRows == RowsAt(roots, Covering(0))

\* The transaction of a row is named by the root it anchors.
NoTxid == <<>>
Txid(row) == IF row.anchored THEN row.hash ELSE NoTxid

-----------------------------------------------------------------------------
(* Answers.  A height of 0 stands for null. *)

\* health: an unreachable node reports tip 0, hence lag 0, not operational.
HealthAnswers ==
  {[reachable |-> FALSE, lag |-> 0, operational |-> FALSE]} \cup
  {[reachable |-> TRUE, lag |-> lag, operational |-> lag <= HealthMaxLag] :
     lag \in Lags}

\* Mutant: anchors are counted when they have a height.
StatsAnswerMined ==
  [totalLeaves |-> Len(leaves),
   totalAnchors |-> Len(SelectSeq(AnchoredRows, LAMBDA row : row.height > 0)),
   lastBlock |-> Max({0} \cup {row.height : row \in ToSet(AnchoredRows)})]
\* stats, get_stats
StatsAnswer ==
  [totalLeaves |-> Len(leaves),
   totalAnchors |-> Len(AnchoredRows),
   lastBlock |-> Max({0} \cup {row.height : row \in ToSet(AnchoredRows)})]

\* anchor_status: the anchor it names is the one of the current root.
AnchorStatusAnswer ==
  IF leaves = <<>>
  THEN [count |-> 0, unanchored |-> 0, txid |-> NoTxid, height |-> 0,
        needs |-> FALSE]
  ELSE LET root == CurrentRoot(leaves, WithCurrent(leaves, roots)) IN
       [count |-> root.count, unanchored |-> UnanchoredCount,
        txid |-> Txid(root), height |-> root.height,
        needs |-> ~root.anchored \/ UnanchoredCount > 0]

\* anchor_history, all_anchored_roots; -1 hours when there is no anchor.
AnchorHistoryAnswer(age) ==
  [anchors |-> [k \in DOMAIN AnchoredRows |->
     [AnchoredRows[k] EXCEPT !.count = Min({@, Len(leaves)})]],
   total |-> Len(AnchoredRows),
   age |-> IF AnchoredRows = <<>> THEN -1 ELSE age]

-----------------------------------------------------------------------------
(* evaluate *)

HealthErrors(health) ==
  {e \in {"unreachable", "not operational", "lag"} :
     \/ e = "unreachable" /\ ~health.reachable
     \/ e = "not operational" /\ ~health.operational
     \/ e = "lag" /\ health.lag > MaxSyncLag}

Mismatches(stats, status, history) ==
  {e \in {"history count", "anchor total", "leaf count"} :
     \/ e = "history count" /\ history.total # Len(history.anchors)
     \/ e = "anchor total" /\ stats.totalAnchors # history.total
     \/ e = "leaf count" /\ status.count > stats.totalLeaves}

LastAnchorMismatches(stats, status, history) ==
  IF history.anchors = <<>> THEN {}
  ELSE LET last == Last(history.anchors) IN
    {e \in {"height", "txid", "block", "anchored leaves"} :
       \/ e = "height" /\ last.height # status.height
       \/ e = "txid" /\ Txid(last) # status.txid
       \/ e = "block" /\ last.height # stats.lastBlock
       \/ e = "anchored leaves" /\ last.count > stats.totalLeaves}

WorkWaits(status) == status.needs \/ status.unanchored > 0

Errors(health, stats, status, history) ==
  HealthErrors(health)
    \cup Mismatches(stats, status, history)
    \cup LastAnchorMismatches(stats, status, history)
    \cup (IF history.age > MaxAnchorAge /\ WorkWaits(status) THEN {"age"} ELSE {})

\* Pending invoices are left out, as is the check of the protocol's name: with
\* them "ok" is rarer still.
Warnings(status, history) ==
  {w \in {"age", "age unknown", "unanchored", "needs anchor"} :
     \/ w = "age" /\ history.age > MaxAnchorAge /\ ~WorkWaits(status)
     \/ w = "age unknown" /\ history.age = -1
     \/ w = "unanchored" /\ status.unanchored > 0
     \/ w = "needs anchor" /\ status.needs}

Status ==
  IF errors # {} THEN "critical" ELSE IF warnings # {} THEN "warn" ELSE "ok"

-----------------------------------------------------------------------------
(* Steps. *)

Write ==
  /\ Next
  /\ quiet' = FALSE
  /\ UNCHANGED <<step, answers, errors, warnings, started>>

Answer(name, value, next) ==
  /\ step = name
  /\ answers' = [answers EXCEPT ![name] = value]
  /\ step' = next

LoadHealth ==
  /\ \E health \in HealthAnswers : Answer("health", health, "stats")
  /\ started' = Len(leaves)
  /\ quiet' = TRUE
  /\ UNCHANGED <<vars, errors, warnings>>

LoadStats ==
  /\ Answer("stats", StatsAnswer, "status")
  /\ UNCHANGED <<vars, errors, warnings, started, quiet>>

\* Reading the status may write the current root.
LoadAnchorStatus ==
  /\ Answer("status", AnchorStatusAnswer, "history")
  /\ roots' = WithCurrent(leaves, roots)
  /\ UNCHANGED <<leaves, ids, lastId, upgraded, inserts>>
  /\ UNCHANGED <<errors, warnings, started, quiet>>

LoadAnchorHistory ==
  \E age \in Ages :
    LET history == AnchorHistoryAnswer(age) IN
    /\ Answer("history", history, "done")
    /\ errors' = Errors(answers.health, answers.stats, answers.status, history)
    /\ warnings' = Warnings(answers.status, history)
    /\ UNCHANGED <<vars, started, quiet>>

\* The tool ends, with a report or because an answer did not come; it is run
\* again later.
Rerun ==
  /\ step # "health"
  /\ step' = "health"
  /\ answers' = [name \in DOMAIN answers |-> "none"]
  /\ errors' = {} /\ warnings' = {}
  /\ started' = 0 /\ quiet' = FALSE
  /\ UNCHANGED vars

OpsInit ==
  /\ Init
  /\ step = "health"
  /\ answers = [name \in {"health", "stats", "status", "history"} |-> "none"]
  /\ errors = {} /\ warnings = {}
  /\ started = 0 /\ quiet = FALSE

OpsNext ==
  Write \/ LoadHealth \/ LoadStats \/ LoadAnchorStatus \/ LoadAnchorHistory \/ Rerun

OpsSpec == OpsInit /\ [][OpsNext]_reportVars

-----------------------------------------------------------------------------
(* What must hold. *)

Healthy == HealthErrors(answers.health) = {}

\* The current root is anchored, mined, and the newest of the anchored rows.
Settled ==
  /\ AnchoredRows # <<>>
  /\ LET last == Last(AnchoredRows) IN
       /\ last.hash = ComputeRoot(leaves) /\ last.count = Len(leaves)
       /\ last.height = Max({row.height : row \in ToSet(AnchoredRows)})
       /\ last.height > 0

\* An idle server whose newest root is anchored and mined is never reported as
\* critical while its node is healthy (evaluate against the four handlers).
SettledIsNotCritical ==
  step = "done" /\ quiet /\ Healthy /\ Settled => Status # "critical"

\* "ok" is never a false all-clear: each leaf that was stored when the tool
\* started has an anchored root, whatever was written between its requests.
OkMeansAnchored ==
  step = "done" /\ Status = "ok" => \A k \in 1..started : Anchored(leaves[k])

\* Both hold of any report, whatever was written between its requests.
ReportIsHonest == SettledIsNotCritical /\ OkMeansAnchored
=============================================================================
