----------------------------- MODULE LeafEncoding ----------------------------
(***************************************************************************)
(* What is hashed for an event: the preimages of memo.rs, of zap1-verify   *)
(* and of the zap1_schema tool.  A preimage is the type byte followed by   *)
(* the fields in the order of a layout; a byte is one of Base values.      *)
(***************************************************************************)
EXTENDS Bytes, SequencesExt

CONSTANTS
  Base,       \* values of a byte; a length prefix has two bytes
  U32, U64,   \* bytes of the integers
  Strings,    \* field values, byte strings
  Numbers     \* field values, integers

ASSUME EncodingAssumption ==
  /\ Base \in Nat \ {0, 1}
  /\ U32 \in Nat \ {0} /\ U64 \in Nat /\ U32 <= U64
  /\ Strings \subseteq Seq(0..Base - 1)
  /\ \A n \in Numbers : n \in Nat /\ Shifted(n, U32, Base) = 0

\* MemoType and EventType, without MERKLE_ROOT: its leaf is the root itself.
TypeByte ==
  [PROGRAM_ENTRY |-> 1, OWNERSHIP_ATTEST |-> 2, CONTRACT_ANCHOR |-> 3,
   DEPLOYMENT |-> 4, HOSTING_PAYMENT |-> 5, SHIELD_RENEWAL |-> 6,
   TRANSFER |-> 7, EXIT |-> 8, STAKING_DEPOSIT |-> 10,
   STAKING_WITHDRAW |-> 11, STAKING_REWARD |-> 12,
   GOVERNANCE_PROPOSAL |-> 13, GOVERNANCE_VOTE |-> 14,
   GOVERNANCE_RESULT |-> 15, AGENT_REGISTER |-> 64, AGENT_POLICY |-> 65,
   AGENT_ACTION |-> 66]
Types == DOMAIN TypeByte

-----------------------------------------------------------------------------
(* Layouts: field names in the order they are written, with their kinds. *)

\* One table of two.
Joined(f, g) ==
  [x \in DOMAIN f \cup DOMAIN g |-> IF x \in DOMAIN f THEN f[x] ELSE g[x]]

Raw(name) == [name |-> name, kind |-> "raw"]
Str(name) == [name |-> name, kind |-> "str"]
Int32(name) == [name |-> name, kind |-> "u32"]
Int64(name) == [name |-> name, kind |-> "u64"]

\* hash_program_entry .. hash_exit
HashLifecycle ==
  [PROGRAM_ENTRY |-> <<Raw("wallet_hash")>>,
   OWNERSHIP_ATTEST |-> <<Str("wallet_hash"), Str("serial_number")>>,
   CONTRACT_ANCHOR |-> <<Str("serial_number"), Str("contract_sha256")>>,
   DEPLOYMENT |-> <<Str("serial_number"), Str("facility_id"), Int64("timestamp")>>,
   HOSTING_PAYMENT |-> <<Str("serial_number"), Int32("month"), Int32("year")>>,
   SHIELD_RENEWAL |-> <<Str("wallet_hash"), Int32("year")>>,
   TRANSFER |-> <<Str("old_wallet_hash"), Str("new_wallet_hash"),
                  Str("serial_number")>>,
   EXIT |-> <<Str("wallet_hash"), Str("serial_number"), Int64("timestamp")>>]

\* hash_staking_deposit .. hash_governance_result
HashStaking ==
  [STAKING_DEPOSIT |-> <<Str("wallet_hash"), Int64("amount_zat"), Str("validator_id")>>,
   STAKING_WITHDRAW |-> <<Str("wallet_hash"), Int64("amount_zat"), Str("validator_id")>>,
   STAKING_REWARD |-> <<Str("wallet_hash"), Int64("amount_zat"), Int32("epoch")>>]
HashGovernance ==
  [GOVERNANCE_PROPOSAL |-> <<Str("wallet_hash"), Str("proposal_id"), Str("proposal_hash")>>,
   GOVERNANCE_VOTE |-> <<Str("wallet_hash"), Str("proposal_id"), Str("vote_commitment")>>,
   GOVERNANCE_RESULT |-> <<Str("wallet_hash"), Str("proposal_id"), Str("result_hash")>>]

\* hash_agent_register .. hash_agent_action
HashAgent ==
  [AGENT_REGISTER |-> <<Str("agent_id"), Str("pubkey_hash"), Str("model_hash"),
                        Str("policy_hash")>>,
   AGENT_POLICY |-> <<Str("agent_id"), Int32("policy_version"), Str("rules_hash")>>,
   AGENT_ACTION |-> <<Str("agent_id"), Str("action_type"), Str("input_hash"),
                      Str("output_hash")>>]

ServerLayout ==
  Joined(Joined(HashLifecycle, HashStaking), Joined(HashGovernance, HashAgent))

\* Mutant: the wallets of a transfer in the other order.
LeafHashLifecycleSwapped ==
  [HashLifecycle EXCEPT !.TRANSFER =
     <<Str("new_wallet_hash"), Str("old_wallet_hash"), Str("serial_number")>>]
\* compute_leaf_hash_with_personalization of zap1-verify, in three groups.
LeafHashLifecycle ==
  [PROGRAM_ENTRY |-> <<Raw("wallet_hash")>>,
   OWNERSHIP_ATTEST |-> <<Str("wallet_hash"), Str("serial_number")>>,
   CONTRACT_ANCHOR |-> <<Str("serial_number"), Str("contract_sha256")>>,
   DEPLOYMENT |-> <<Str("serial_number"), Str("facility_id"), Int64("timestamp")>>,
   HOSTING_PAYMENT |-> <<Str("serial_number"), Int32("month"), Int32("year")>>,
   SHIELD_RENEWAL |-> <<Str("wallet_hash"), Int32("year")>>,
   TRANSFER |-> <<Str("old_wallet_hash"), Str("new_wallet_hash"),
                  Str("serial_number")>>,
   EXIT |-> <<Str("wallet_hash"), Str("serial_number"), Int64("timestamp")>>]
LeafHashStakingGovernance ==
  [STAKING_DEPOSIT |-> <<Str("wallet_hash"), Int64("amount_zat"), Str("validator_id")>>,
   STAKING_WITHDRAW |-> <<Str("wallet_hash"), Int64("amount_zat"), Str("validator_id")>>,
   STAKING_REWARD |-> <<Str("wallet_hash"), Int64("amount_zat"), Int32("epoch")>>,
   GOVERNANCE_PROPOSAL |-> <<Str("wallet_hash"), Str("proposal_id"), Str("proposal_hash")>>,
   GOVERNANCE_VOTE |-> <<Str("wallet_hash"), Str("proposal_id"), Str("vote_commitment")>>,
   GOVERNANCE_RESULT |-> <<Str("wallet_hash"), Str("proposal_id"), Str("result_hash")>>]
LeafHashAgent ==
  [AGENT_REGISTER |-> <<Str("agent_id"), Str("pubkey_hash"), Str("model_hash"),
                        Str("policy_hash")>>,
   AGENT_POLICY |-> <<Str("agent_id"), Int32("policy_version"), Str("rules_hash")>>,
   AGENT_ACTION |-> <<Str("agent_id"), Str("action_type"), Str("input_hash"),
                      Str("output_hash")>>]

VerifierLayout ==
  Joined(Joined(LeafHashLifecycle, LeafHashStakingGovernance), LeafHashAgent)

\* validate_event of zap1_schema, in two groups; it knows no agent events.
ValidateLifecycle ==
  [PROGRAM_ENTRY |-> <<Raw("wallet_hash")>>,
   OWNERSHIP_ATTEST |-> <<Str("wallet_hash"), Str("serial_number")>>,
   CONTRACT_ANCHOR |-> <<Str("serial_number"), Str("contract_sha256")>>,
   DEPLOYMENT |-> <<Str("serial_number"), Str("facility_id"), Int64("timestamp")>>,
   HOSTING_PAYMENT |-> <<Str("serial_number"), Int32("month"), Int32("year")>>,
   SHIELD_RENEWAL |-> <<Str("wallet_hash"), Int32("year")>>,
   TRANSFER |-> <<Str("old_wallet_hash"), Str("new_wallet_hash"),
                  Str("serial_number")>>,
   EXIT |-> <<Str("wallet_hash"), Str("serial_number"), Int64("timestamp")>>]
ValidateStakingGovernance ==
  [STAKING_DEPOSIT |-> <<Str("wallet_hash"), Int64("amount_zat"), Str("validator_id")>>,
   STAKING_WITHDRAW |-> <<Str("wallet_hash"), Int64("amount_zat"), Str("validator_id")>>,
   STAKING_REWARD |-> <<Str("wallet_hash"), Int64("amount_zat"), Int32("epoch")>>,
   GOVERNANCE_PROPOSAL |-> <<Str("wallet_hash"), Str("proposal_id"), Str("proposal_hash")>>,
   GOVERNANCE_VOTE |-> <<Str("wallet_hash"), Str("proposal_id"), Str("vote_commitment")>>,
   GOVERNANCE_RESULT |-> <<Str("wallet_hash"), Str("proposal_id"), Str("result_hash")>>]

SchemaLayout == Joined(ValidateLifecycle, ValidateStakingGovernance)

-----------------------------------------------------------------------------
(* Encoding. *)

\* Mutant: strings are written without their length.
LengthPrefixNone(field) == <<>>
LengthPrefix(field) == BigEndian(Len(field), 2, Base)

\* length_prefix: a longer field is refused, with a panic.
Fits(field) == Len(field) < Base * Base

FieldBytes(slot, value) ==
  CASE slot.kind = "raw" -> value
    [] slot.kind = "str" -> LengthPrefix(value) \o value
    [] slot.kind = "u32" -> BigEndian(value[1], U32, Base)
    [] slot.kind = "u64" -> BigEndian(value[1], U64, Base)

Preimage(layout, event) ==
  <<TypeByte[event.type]>> \o
  FlattenSeq([k \in DOMAIN layout |->
                FieldBytes(layout[k], event.fields[layout[k].name])])

Slots(type) == {ServerLayout[type][k] : k \in DOMAIN ServerLayout[type]}

\* No length-prefixed field is too long.
Encodable(event) ==
  \A slot \in Slots(event.type) : slot.kind = "str" => Fits(event.fields[slot.name])

Rejected == <<>>

\* hash_payload after any of the hash_ functions; Rejected when one panics.
ServerPreimage(event) ==
  IF Encodable(event) THEN Preimage(ServerLayout[event.type], event) ELSE Rejected

\* The library's lengths, each checked where its field is pushed.
VerifierEncodable(event) ==
  \A k \in DOMAIN VerifierLayout[event.type] :
    LET slot == VerifierLayout[event.type][k] IN
    slot.kind = "str" => Len(event.fields[slot.name]) <= Base * Base - 1

VerifierPreimage(event) ==
  IF VerifierEncodable(event)
  THEN Preimage(VerifierLayout[event.type], event) ELSE Rejected

\* validate_event on a witness that gives some of the fields: lengths are cast
\* to u16, so nothing is too long.
SchemaPreimage(event, given) ==
  IF /\ event.type \in DOMAIN SchemaLayout
     /\ \A k \in DOMAIN SchemaLayout[event.type] :
          SchemaLayout[event.type][k].name \in given
  THEN Preimage(SchemaLayout[event.type], event)
  ELSE Rejected

-----------------------------------------------------------------------------
(* Events. *)

Seq1(set) == {<<x>> : x \in set}

\* The values of a field; those of an integer field are one-element sequences.
Values(slot) == IF slot.kind \in {"raw", "str"} THEN Strings ELSE Seq1(Numbers)

Names(type) == {slot.name : slot \in Slots(type)}

EventsOf(type) ==
  {[type |-> type, fields |-> f] :
     f \in {g \in [Names(type) -> Strings \cup Seq1(Numbers)] :
              \A slot \in Slots(type) : g[slot.name] \in Values(slot)}}
=============================================================================
