-------------------------------- MODULE Formats -------------------------------
(***************************************************************************)
(* What is hashed, encoded and signed, on inputs that are grown one        *)
(* element at a time: lists of leaves, events, lists of memo parts, memos, *)
(* text memos, and the shares a process signs with.  The properties relate *)
(* the algorithms of MerkleTree, LeafEncoding, MemoCodec and FrostSigner   *)
(* to each other and to the definitions they are meant to meet.            *)
(***************************************************************************)
EXTENDS MerkleTree, LeafEncoding, MemoCodec, FrostSigner

CONSTANTS
  Leaves, MaxLeaves,   \* leaf hashes, and bound: leaves of a list
  Parts, MaxParts,     \* parts of a structured memo, and bound: parts of a list
  Pieces,              \* what a structured memo is extended by, byte strings
  MaxBytes, MaxFields, \* bounds: length of a memo before another byte or piece
  TypeFields, PayloadFields \* fields of a text memo

ASSUME FormatsAssumption ==
  /\ MaxLeaves \in Nat
  /\ <<>> \in Strings /\ 0 \in Numbers
  /\ \A part \in Parts :
       /\ part = [type |-> part.type, version |-> part.version, value |-> part.value]
       /\ part.type \in 1..Max16 - 1 /\ part.version \in 0..Byte - 1
       /\ part.value \in Seq(0..Byte - 1)
  /\ Pieces \subseteq Seq(0..Byte - 1)

VARIABLES
  kind,     \* which of the inputs grows
  list, entry, parts, memo, text

inputs == <<list, entry, parts, memo, text>>

-----------------------------------------------------------------------------
(* Leaves: lists with repetitions, against the definition of a tree that   *)
(* is split at the largest power of two.                                   *)

AddLeaf ==
  /\ kind = "leaves" /\ Len(list) < MaxLeaves
  /\ \E leaf \in Leaves : list' = Append(list, leaf)
  /\ UNCHANGED <<entry, parts, memo, text>>

Lists == UNION {[1..n -> Leaves] : n \in 1..MaxLeaves}

\* Carrying the odd node up level by level (compute_raw_tree_root) builds the
\* tree in which each node's left half is the largest full tree.
RawRootIsSplitTree ==
  list # <<>> => ComputeRawTreeRoot(list) = SplitTree(list)

\* No two lists share a root (compute_root), in particular not one that
\* repeats its last leaf, as legacy roots allow.
RootsBind ==
  \A other \in Lists : ComputeRoot(other) = ComputeRoot(list) => other = list

\* The proof of each leaf (generate_proof) is accepted for that leaf, that
\* count and that root, and for no other leaf or count (verify_proof).
ProofsBind ==
  \A index \in 0..Len(list) - 1, leaf \in Leaves, count \in 0..MaxLeaves :
    VerifyProof(leaf, GenerateProof(list, index), count, ComputeRoot(list))
      <=> leaf = list[index + 1] /\ count = Len(list)

\* Proofs of the historical shape (generate_legacy_proof) are accepted under
\* legacy roots, for the leaf they were made for only.
LegacyProofsBind ==
  \A index \in 0..Len(list) - 1, leaf \in Leaves :
    VerifyLegacyProof(leaf, GenerateLegacyProof(list, index),
                      ComputeLegacyRoot(list))
      <=> leaf = list[index + 1]

\* Trees of every size commit to their leaves, and so do proofs: server,
\* verifier and the textbook definition agree (merkle.rs, zap1-verify).
TreesBindLeaves ==
  kind = "leaves" =>
    RawRootIsSplitTree /\ RootsBind /\ ProofsBind /\ LegacyProofsBind

-----------------------------------------------------------------------------
(* Events: every event over the strings and numbers, against all others.   *)

EmptyEvent(type) ==
  [type |-> type,
   fields |-> [name \in Names(type) |->
     IF \E slot \in Slots(type) : slot.name = name /\ slot.kind \in {"u32", "u64"}
     THEN <<0>> ELSE <<>>]]

SetField ==
  /\ kind = "event"
  /\ \E slot \in Slots(entry.type) : \E value \in Values(slot) :
       entry' = [entry EXCEPT !.fields[slot.name] = value]
  /\ UNCHANGED <<list, parts, memo, text>>

AllEvents == UNION {EventsOf(type) : type \in Types}

\* The preimage determines the event: no two events of any types share one
\* (the length prefixes of memo.rs; hash_program_entry has none).
PreimageBindsEvent ==
  kind = "event" /\ Encodable(entry) =>
    \A other \in AllEvents :
      ServerPreimage(other) = ServerPreimage(entry) => other = entry

\* zap1-verify recomputes the server's preimage from the same fields, and
\* refuses exactly the fields the server refuses.
VerifierAgrees == VerifierPreimage(entry) = ServerPreimage(entry)

\* Whatever fields a witness gives, zap1_schema validates nothing but the
\* server's own preimage, as long as no field is too long.
SchemaAgrees ==
  \A given \in SUBSET Names(entry.type) :
    SchemaPreimage(entry, given) # Rejected /\ Encodable(entry) =>
      SchemaPreimage(entry, given) = ServerPreimage(entry)

\* The three places that build preimages build the same one.
PreimagesAgree == kind = "event" => VerifierAgrees /\ SchemaAgrees

-----------------------------------------------------------------------------
(* Memos.                                                                  *)

AddPart ==
  /\ kind = "parts" /\ Len(parts) < MaxParts
  /\ \E part \in Parts : parts' = Append(parts, part)
  /\ UNCHANGED <<list, entry, memo, text>>

Structured == memo # <<>> /\ Head(memo) = Tvlv

AddByte ==
  /\ kind = "memo" /\ Len(memo) < MaxBytes /\ ~Structured
  /\ \E b \in 0..Byte - 1 : memo' = Append(memo, b)
  /\ UNCHANGED <<list, entry, parts, text>>

AddPiece ==
  /\ kind = "memo" /\ Len(memo) < MaxFields /\ Structured
  /\ \E piece \in Pieces : memo' = memo \o piece
  /\ UNCHANGED <<list, entry, parts, text>>

AddField ==
  /\ kind = "text" /\ Len(text) < 4
  /\ \E field \in CASE Len(text) = 0 -> {"ZAP1", "NSM1", "ZAP2"}
                    [] Len(text) = 1 -> TypeFields
                    [] OTHER -> PayloadFields :
       text' = Append(text, field)
  /\ UNCHANGED <<list, entry, parts, memo>>

Repeated == \E i, j \in DOMAIN parts : i # j /\ parts[i].type = parts[j].type

\* Each decoder gives back the parts that either encoder was given, padded or
\* not, and refuses a part type that occurs twice.  The server's refuses what
\* is larger than it accepts.
RoundTrip ==
  LET result == IF Repeated THEN Err("duplicate") ELSE Ok(parts) IN
  \A m \in {LibraryEncode(parts), ServerEncode(parts)} : Len(m) < Max64 =>
    /\ LibraryDecode(m) = result
    /\ ServerDecode(m) = IF Len(m) > Long THEN Err("large") ELSE result

\* The two decoders give the same parts or the same error for every memo that
\* is not larger than the server accepts.
DecodersAgree ==
  Len(memo) <= Long => LibraryDecode(memo) = ServerDecode(memo)

\* A memo that decodes is the encoding of its parts followed by zeros: two
\* memos with the same parts differ in padding only.  The types and versions
\* that are cut to 16 and 8 bits are the exception.
DecodeIsExact ==
  LET r == LibraryDecode(memo)
      canonical == LibraryEncode(r.ok)
      cut == \E p \in DOMAIN memo : \E w \in {2, 4, 8} :
               memo[p] = Tag(w) /\ p + w <= Len(memo) /\ Number(memo, p + 1, w) >= Byte
  IN ~Failed(r) /\ ~cut =>
       /\ Len(canonical) <= Len(memo)
       /\ SubSeq(memo, 1, Len(canonical)) = canonical
       /\ Zeros(From(memo, Len(canonical) + 1))

\* What the server writes both readers read, and what memo.rs reads the crate
\* shows as the same event; it may show more (types unknown to the server).
ReadersAgree ==
  /\ StrictRead(text) # None => LenientRead(text) = StrictRead(text)
  /\ \A type \in KnownTypes :
       LET written == TextMemo(type, "p")
       IN StrictRead(written) = [type |-> type, payload |-> "p"]
          /\ LenientRead(written) = StrictRead(written)

\* The crate calls a memo structured exactly if it can be decoded into parts,
\* and empty exactly if no byte of it carries anything.
FormatIsHonest ==
  /\ Classify(memo) = "zip302" <=> "ok" \in DOMAIN LibraryDecode(memo)
  /\ Classify(memo) = "empty" <=>
       memo = <<>> \/ Zeros(memo) \/ (memo[1] = EmptyMark /\ Zeros(From(memo, 2)))

\* Both codecs are inverse to their decoders and read every memo alike.
MemosAgree ==
  /\ kind = "parts" => RoundTrip
  /\ kind = "memo" => DecodersAgree /\ DecodeIsExact /\ FormatIsHonest
  /\ kind = "text" => ReadersAgree

-----------------------------------------------------------------------------

FormatsInit ==
  /\ kind \in {"leaves", "event", "parts", "memo", "text", "signer"}
  /\ list = <<>> /\ parts = <<>> /\ memo = <<>> /\ text = <<>>
  /\ IF kind = "event" THEN entry \in {EmptyEvent(type) : type \in Types}
     ELSE entry = EmptyEvent("EXIT")
  /\ SignerInit
  /\ kind # "signer" => config = FrostConfig /\ share = <<Share(1, 1, 1), Share(1, 1, 2)>>

Grow == AddLeaf \/ SetField \/ AddPart \/ AddByte \/ AddPiece \/ AddField

FormatsNext ==
  \/ Grow /\ UNCHANGED <<kind, signerVars>>
  \/ kind = "signer" /\ SignerNext /\ UNCHANGED <<kind, inputs>>

formatsVars == <<kind, inputs, signerVars>>

FormatsSpec == FormatsInit /\ [][FormatsNext]_formatsVars
===============================================================================
