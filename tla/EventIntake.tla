------------------------------ MODULE EventIntake -----------------------------
(***************************************************************************)
(* POST /event and the delegated keys of api.rs and db.rs: several workers *)
(* authorise a request (one UPDATE that spends quota), validate its body   *)
(* and read the clock, and insert the leaf (one transaction).  Requests    *)
(* are repeated, the process restarts between steps, keys expire, and      *)
(* callers that hold the master key spend no quota.                        *)
(***************************************************************************)
EXTENDS Integers, FiniteSets

CONSTANTS
  Workers,    \* requests handled at the same time
  Keys,       \* delegated keys, by the hash of their secret
  Master,     \* API_KEY
  Unknown,    \* any other bearer token
  Events,     \* request bodies: [type, body], body a function of its fields
  Bad,        \* a field's value that its validation refuses
  Quota,      \* leaves_limit of a trial key, 5
  Lifetime,   \* validity of a trial key, 30 days
  Legacy,     \* keys of the time before expires_at
  MaxTime, MaxCalls, MaxRestarts  \* bounds: clock, requests, restarts

Credentials == Keys \cup {Master, Unknown}

ASSUME IntakeAssumption ==
  /\ Master \notin Keys /\ Unknown \notin Keys /\ Master # Unknown
  /\ Quota \in Int /\ Lifetime \in Nat
  /\ Legacy \subseteq Keys
  /\ Events # {}
  /\ MaxTime \in Nat /\ MaxCalls \in Nat /\ MaxRestarts \in Nat

VARIABLES
  \* zap1.db
  issued,   \* the keys that have a row in api_keys
  used,     \* api_keys.leaves_used
  expires,  \* api_keys.expires_at, 0 for NULL
  leaves,   \* merkle_leaves: rows [hash, wallet]
  \* configuration
  hasMaster, trialKeys,  \* API_KEY is set; TRIAL_KEY_ISSUANCE_ENABLED
  \* the workers
  pc,       \* "idle", "validate" or "insert"
  caller, event, \* credential and body of the request at hand
  ticket,   \* history: the value of leaves_used the request was charged
  stamp,    \* now_ts
  \* the world
  now,      \* clock
  calls, restarts, \* requests and restarts so far
  written,  \* history: the tickets whose request inserted a row, by key
  answers   \* history: the answers 201: [event, hash]

keyVars == <<issued, used, expires>>
configVars == <<hasMaster, trialKeys>>
workVars == <<pc, caller, event, ticket, stamp>>
vars == <<keyVars, leaves, configVars, workVars, now, calls, restarts, written,
          answers>>

-----------------------------------------------------------------------------
(* Event types: the fields that the handler requires.                       *)

MachineFields ==
  [CONTRACT_ANCHOR |-> {"serial_number", "contract_sha256"},
   DEPLOYMENT |-> {"serial_number", "facility_id"},
   HOSTING_PAYMENT |-> {"serial_number", "month", "year"},
   SHIELD_RENEWAL |-> {"year"},
   TRANSFER |-> {"new_wallet_hash", "serial_number"},
   EXIT |-> {"serial_number"}]

StakingFields ==
  [STAKING_DEPOSIT |-> {"amount_zat", "validator_id"},
   STAKING_WITHDRAW |-> {"amount_zat", "validator_id"},
   STAKING_REWARD |-> {"amount_zat", "epoch"}]

GovernanceFields ==
  [GOVERNANCE_PROPOSAL |-> {"proposal_id", "proposal_hash"},
   GOVERNANCE_VOTE |-> {"proposal_id", "vote_commitment"},
   GOVERNANCE_RESULT |-> {"proposal_id", "result_hash"}]

AgentFields ==
  [AGENT_REGISTER |-> {"agent_id", "pubkey_hash", "model_hash", "policy_hash"},
   AGENT_POLICY |-> {"agent_id", "policy_version", "rules_hash"},
   AGENT_ACTION |-> {"agent_id", "action_type", "input_hash", "output_hash"}]

Supported == DOMAIN MachineFields \cup DOMAIN StakingFields
             \cup DOMAIN GovernanceFields \cup DOMAIN AgentFields

Required(type) ==
  CASE type \in DOMAIN MachineFields -> MachineFields[type]
    [] type \in DOMAIN StakingFields -> StakingFields[type]
    [] type \in DOMAIN GovernanceFields -> GovernanceFields[type]
    [] type \in DOMAIN AgentFields -> AgentFields[type]

-----------------------------------------------------------------------------
(* Their leaves: the fields that the hash covers and the one whose value the *)
(* row is filed under.                                                       *)

\* The server's clock, now_ts, is a field of the hash and not of the request.
Clock == "now_ts"

\* Machine leaves do not always name the wallet.
HashedMachine(type) ==
  CASE type \in {"CONTRACT_ANCHOR", "HOSTING_PAYMENT"} -> MachineFields[type]
    [] type = "DEPLOYMENT" -> MachineFields[type] \cup {Clock}
    [] type \in {"SHIELD_RENEWAL", "TRANSFER"} -> MachineFields[type] \cup {"wallet_hash"}
    [] type = "EXIT" -> MachineFields[type] \cup {"wallet_hash", Clock}

HashedStaking(type) == StakingFields[type] \cup {"wallet_hash"}
HashedGovernance(type) == GovernanceFields[type] \cup {"wallet_hash"}
HashedAgent(type) == AgentFields[type]

Hashed(type) ==
  CASE type \in DOMAIN MachineFields -> HashedMachine(type)
    [] type \in DOMAIN StakingFields -> HashedStaking(type)
    [] type \in DOMAIN GovernanceFields -> HashedGovernance(type)
    [] type \in DOMAIN AgentFields -> HashedAgent(type)

Subject(type) == IF type \in DOMAIN AgentFields THEN "agent_id" ELSE "wallet_hash"

-----------------------------------------------------------------------------
(* Validation. *)

\* Fields whose range only the handler of a type that requires them checks.
Ranged == {"month", "year", "amount_zat", "policy_version"}
\* A 32-bit number that may have any value.
Unchecked == {"epoch"}

\* validate_identifier, validate_bounded_text, validate_hex_digest: every field
\* of the body, the ones its type has no use for included.
BodyValid(e) ==
  \A f \in DOMAIN e.body \ (Ranged \cup Unchecked) : e.body[f] # Bad

\* Mutant: agents may file under any wallet hash.
SubjectValidAny(e) == TRUE
\* An agent event is filed under its agent_id, which its wallet_hash repeats.
SubjectValid(e) ==
  e.type \in DOMAIN AgentFields =>
    "agent_id" \in DOMAIN e.body /\ e.body["agent_id"] = e.body["wallet_hash"]

FieldsValid(e) ==
  /\ e.type \in Supported
  /\ Required(e.type) \subseteq DOMAIN e.body
  /\ \A f \in Required(e.type) \cap Ranged : e.body[f] # Bad

Valid(e) == BodyValid(e) /\ SubjectValid(e) /\ FieldsValid(e)

\* Mutant: the clock is a field of every hash.
LeafHashStamped(e, time) ==
  [type |-> e.type,
   fields |-> [f \in Hashed(e.type) \cup {Clock} |->
                 IF f = Clock THEN time ELSE e.body[f]]]
\* The leaf hash, injective by PreimageBindsEvent of Formats.
LeafHash(e, time) ==
  [type |-> e.type,
   fields |-> [f \in Hashed(e.type) |-> IF f = Clock THEN time ELSE e.body[f]]]

-----------------------------------------------------------------------------
(* Keys. *)

\* Mutant: the last leaf of a quota can be spent once more.
HasQuotaInclusive(k) == Quota < 0 \/ used[k] <= Quota
HasQuota(k) == Quota < 0 \/ used[k] < Quota

\* A key without an expiry has ended.
Unexpired(k) == expires[k] # 0 /\ expires[k] > now

\* consume_api_key_quota changes a row.
Chargeable(k) == k \in issued /\ HasQuota(k) /\ Unexpired(k)

\* create_trial_key
IssueKey(k, cred) ==
  /\ trialKeys
  /\ hasMaster /\ cred = Master
  /\ k \notin issued
  /\ issued' = issued \cup {k}
  /\ expires' = [expires EXCEPT ![k] = now + Lifetime]
  /\ UNCHANGED <<used, leaves, configVars, workVars, now, calls, restarts, written,
                 answers>>

-----------------------------------------------------------------------------
(* POST /event. *)

Answer(w) ==
  /\ pc' = [pc EXCEPT ![w] = "idle"]
  /\ UNCHANGED <<caller, event, ticket, stamp>>

\* check_api_key_with_db lets the request pass.  A delegated key pays first.
Authorise(w, cred, e) ==
  /\ pc[w] = "idle"
  /\ calls < MaxCalls
  /\ hasMaster
  /\ \/ /\ cred = Master
        /\ UNCHANGED <<used, ticket>>
     \/ /\ cred \in Keys /\ Chargeable(cred)
        /\ used' = [used EXCEPT ![cred] = @ + 1]
        /\ ticket' = [ticket EXCEPT ![w] = used[cred] + 1]
  /\ pc' = [pc EXCEPT ![w] = "validate"]
  /\ caller' = [caller EXCEPT ![w] = cred]
  /\ event' = [event EXCEPT ![w] = e]
  /\ calls' = calls + 1
  /\ UNCHANGED <<issued, expires, leaves, configVars, stamp, now, restarts, written,
                 answers>>

\* The body is fine and now_ts is read.
Accept(w) ==
  /\ pc[w] = "validate"
  /\ Valid(event[w])
  /\ pc' = [pc EXCEPT ![w] = "insert"]
  /\ stamp' = [stamp EXCEPT ![w] = now]
  /\ UNCHANGED <<keyVars, leaves, configVars, caller, event, ticket, now, calls,
                 restarts, written, answers>>

\* 400: nothing is refunded.
Refuse(w) ==
  /\ pc[w] = "validate"
  /\ ~Valid(event[w])
  /\ Answer(w)
  /\ UNCHANGED <<keyVars, leaves, configVars, now, calls, restarts, written, answers>>

Row(hash, wallet) == [hash |-> hash, wallet |-> wallet]
Stored(hash) == \E row \in leaves : row.hash = hash

\* INSERT OR IGNORE: a row with that hash stays, whoever it is filed under.
AddRow(hash, wallet) ==
  IF Stored(hash) THEN leaves ELSE leaves \cup {Row(hash, wallet)}

\* insert_leaf_raw commits, and the request is answered 201.
Insert(w) ==
  LET e == event[w]  hash == LeafHash(e, stamp[w])
      added == AddRow(hash, e.body[Subject(e.type)])
  IN
  /\ pc[w] = "insert"
  /\ leaves' = added
  /\ written' = IF added # leaves /\ caller[w] \in Keys
                THEN [written EXCEPT ![caller[w]] = @ \cup {ticket[w]}]
                ELSE written
  /\ answers' = answers \cup {[event |-> e, hash |-> hash]}
  /\ Answer(w)
  /\ UNCHANGED <<keyVars, configVars, now, calls, restarts>>

\* insert_leaf_raw rolls back, 500.
InsertFails(w) ==
  /\ pc[w] = "insert"
  /\ Answer(w)
  /\ UNCHANGED <<keyVars, leaves, configVars, now, calls, restarts, written, answers>>

-----------------------------------------------------------------------------

Tick ==
  /\ now < MaxTime
  /\ now' = now + 1
  /\ UNCHANGED <<keyVars, leaves, configVars, workVars, calls, restarts, written,
                 answers>>

\* The process is started again, maybe with another configuration.
Restart(api, trial) ==
  /\ restarts < MaxRestarts
  /\ restarts' = restarts + 1
  /\ hasMaster' = api /\ trialKeys' = trial
  /\ pc' = [w \in Workers |-> "idle"]
  /\ UNCHANGED <<keyVars, leaves, caller, event, ticket, stamp, now, calls, written,
                 answers>>

Init ==
  /\ issued = Legacy
  /\ used = [k \in Keys |-> 0]
  /\ expires = [k \in Keys |-> 0]
  /\ leaves = {}
  /\ hasMaster \in BOOLEAN /\ trialKeys \in BOOLEAN
  /\ pc = [w \in Workers |-> "idle"]
  /\ caller = [w \in Workers |-> Unknown]
  /\ event = [w \in Workers |-> CHOOSE e \in Events : TRUE]
  /\ ticket = [w \in Workers |-> 0]
  /\ stamp = [w \in Workers |-> 0]
  /\ now = 0 /\ calls = 0 /\ restarts = 0
  /\ written = [k \in Keys |-> {}]
  /\ answers = {}

WorkerStep(w) ==
  \/ \E cred \in Credentials, e \in Events : Authorise(w, cred, e)
  \/ Accept(w)
  \/ Refuse(w)
  \/ Insert(w)
  \/ InsertFails(w)

Next ==
  \/ \E k \in Keys, cred \in Credentials : IssueKey(k, cred)
  \/ \E w \in Workers : WorkerStep(w)
  \/ Tick
  \/ \E api \in BOOLEAN, trial \in BOOLEAN : Restart(api, trial)

Spec == Init /\ [][Next]_vars

-----------------------------------------------------------------------------
(* What must hold. *)

\* Every variable keeps its type; a busy worker has a caller that may write.
TypeOK ==
  /\ issued \subseteq Keys
  /\ used \in [Keys -> Nat]
  /\ expires \in [Keys -> Nat]
  /\ \A row \in leaves : DOMAIN row = {"hash", "wallet"}
  /\ hasMaster \in BOOLEAN /\ trialKeys \in BOOLEAN
  /\ pc \in [Workers -> {"idle", "validate", "insert"}]
  /\ caller \in [Workers -> Credentials]
  /\ \A w \in Workers : pc[w] # "idle" => caller[w] \in issued \cup {Master}
  /\ event \in [Workers -> Events]
  /\ ticket \in [Workers -> Nat]
  /\ stamp \in [Workers -> Nat]
  /\ now \in Nat /\ calls \in Nat /\ restarts \in Nat
  /\ written \in [Keys -> SUBSET Nat]

\* However requests of one key overlap, it adds at most its quota of leaves
\* (consume_api_key_quota and insert_leaf_raw are separate statements).
QuotaHolds == Quota >= 0 =>
  \A k \in Keys : written[k] \subseteq 1..used[k] /\ Cardinality(written[k]) <= Quota

\* An agent event that was answered 201 is filed under the wallet hash and the
\* agent id of its request (create_lifecycle_event, "so the stored and returned
\* subject cannot diverge").
AgentSubjectAgrees ==
  \A a \in answers : a.event.type \in DOMAIN AgentFields =>
    /\ Row(a.hash, a.event.body["agent_id"]) \in leaves
    /\ a.event.body["agent_id"] = a.event.body["wallet_hash"]

\* Requests that are repeated add no leaf, unless the server's clock is part of
\* the hash and moved (INSERT OR IGNORE).
RetryAddsNothing ==
  [][\A w \in Workers :
       /\ pc[w] = "insert" /\ \E a \in answers : a.event = event[w]
       /\ Clock \notin Hashed(event[w].type)
       => UNCHANGED leaves \/ pc'[w] = "insert"]_vars

=============================================================================
