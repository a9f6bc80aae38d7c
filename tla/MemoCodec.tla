------------------------------- MODULE MemoCodec ------------------------------
(***************************************************************************)
(* Memo formats: the ZIP 302 TVLV container, encoded and decoded twice, in *)
(* src/zip302.rs and in the zcash-memo-decode crate, the crate's           *)
(* classification of a memo, and the ZAP1 text memo, written and read by   *)
(* memo.rs and read by the crate.  Bytes are 0 .. Byte - 1 for a small     *)
(* Byte; the compact size forms keep their widths of 1, 2, 4 and 8 bytes.  *)
(***************************************************************************)
EXTENDS Bytes, FiniteSets

CONSTANTS
  Byte,      \* 256
  Short,     \* MAX_MEMO_PRE231, 512
  Long,      \* MAX_MEMO_POST231, 16384
  Tvlv, EmptyMark, BinaryMark, \* 0xF7, 0xF6, 0xFF
  Reserved,  \* 0xF5 and 0xF8..=0xFE
  KnownTypes, \* the values of MemoType
  None

\* One more than the largest integer of 16, 32 and 64 bits.
Max16 == Byte * Byte
Max32 == Max16 * Max16
Max64 == Max32 * Max32

\* Marks are bytes that differ from each other and from 0, sizes of memos fit
\* into 64 bits, and no text type is None.
ASSUME MemoAssumption ==
  /\ Byte \in Nat /\ Byte > 4
  /\ Tvlv \in 1..Byte - 1 /\ EmptyMark \in 1..Byte - 1
  /\ BinaryMark \in Nat \ {0} /\ BinaryMark \notin Reserved /\ Reserved \subseteq Nat \ {0}
  /\ EmptyMark # Tvlv
  /\ {BinaryMark} \cup Reserved \subseteq Nat \ {Tvlv, EmptyMark}
  /\ Short \in Nat /\ Long \in Nat /\ Short <= Long /\ Long < Max64
  /\ None \notin KnownTypes

Widest == Byte - 4  \* 252, the largest one-byte size
Tag(w) == CASE w = 2 -> Byte - 3 [] w = 4 -> Byte - 2 [] w = 8 -> Byte - 1

\* The smallest size a form may hold.
Least(w) == CASE w = 2 -> Widest + 1 [] w = 4 -> Max16 [] w = 8 -> Max32

Err(kind) == [err |-> kind]
Ok(parts) == [ok |-> parts]
From(m, p) == SubSeq(m, p, Len(m))
Zeros(m) == \A i \in DOMAIN m : m[i] = 0

Number(m, p, w) == NumberAt(m, p, w, Byte)

Form(n, w) == IF w = 1 THEN <<n>> ELSE <<Tag(w)>> \o LittleEndian(n, w, Byte)

\* encode_compact_size: the narrowest form.
Width(n) == IF n <= Widest THEN 1 ELSE IF n < Max16 THEN 2 ELSE IF n < Max32 THEN 4 ELSE 8
Compact(n) == Form(n, Width(n))

\* Mutant: the smallest value of a form is not checked.
MReadCompact(m, p) ==
  IF p > Len(m) THEN Err("truncated")
  ELSE IF m[p] <= Widest THEN [n |-> m[p], next |-> p + 1]
  ELSE LET w == CHOOSE w \in {2, 4, 8} : Tag(w) = m[p]
       IN IF p + w > Len(m) THEN Err("truncated")
          ELSE [n |-> Number(m, p + 1, w), next |-> p + w + 1]

\* decode_compact_size at position p.
ReadCompact(m, p) ==
  IF p > Len(m) THEN Err("truncated")
  ELSE IF m[p] <= Widest THEN [n |-> m[p], next |-> p + 1]
  ELSE LET w == CHOOSE w \in {2, 4, 8} : Tag(w) = m[p]
       IN IF p + w > Len(m) THEN Err("truncated")
          ELSE IF Number(m, p + 1, w) < Least(w) THEN Err("compactSize")
          ELSE [n |-> Number(m, p + 1, w), next |-> p + w + 1]

\* tvlv.rs has its own copies of the two compact size functions.
LibraryCompact(n) == Compact(n)
LibraryReadCompact(m, p) == ReadCompact(m, p)

Failed(r) == "err" \in DOMAIN r

\* The value of length n at p; the sum of the two is a usize.
ReadValue(m, p, n) ==
  IF p - 1 + n >= Max64 THEN Err("panic")
  ELSE IF p - 1 + n > Len(m) THEN Err("truncated")
  ELSE [value |-> SubSeq(m, p, p + n - 1), next |-> p + n]

AsU16(n) == n % Max16
AsU8(n) == n % Byte

-----------------------------------------------------------------------------
(* Encoders.  A part is a type, a version and a value. *)

EncodedPart(part) ==
  LibraryCompact(part.type) \o LibraryCompact(part.version)
    \o LibraryCompact(Len(part.value)) \o part.value

EncodedParts(parts) ==
  LET all[i \in 0 .. Len(parts)] ==
        IF i = 0 THEN <<>> ELSE all[i - 1] \o EncodedPart(parts[i])
  IN all[Len(parts)]

LibraryEncode(parts) == <<Tvlv>> \o EncodedParts(parts) \o <<0>>

\* encode_tvlv pads up to 512 bytes.
ServerEncode(parts) ==
  LET all[i \in 0 .. Len(parts)] ==
        IF i = 0 THEN <<Tvlv>>
        ELSE all[i - 1] \o Compact(parts[i].type) \o Compact(parts[i].version)
             \o Compact(Len(parts[i].value)) \o parts[i].value
      out == Append(all[Len(parts)], 0)
  IN out \o [i \in 1 .. (IF Len(out) < Short THEN Short - Len(out) ELSE 0) |-> 0]

-----------------------------------------------------------------------------
(* Decoders.  A turn of the loop reads the part at position next and adds  *)
(* it to the parts, or it ends with them or with an error; what it ended   *)
(* with stays.  Every part takes bytes, so Len(m) turns are enough.        *)

TypesOf(parts) == {parts[i].type : i \in DOMAIN parts}
Unread == [next |-> 2, parts |-> <<>>]
Ended(at) == "next" \notin DOMAIN at

ServerTurn(m, at) ==
  IF Ended(at) THEN at
  ELSE IF at.next > Len(m) THEN Err("truncated")
  ELSE LET type == ReadCompact(m, at.next) IN
    IF Failed(type) THEN type
    ELSE IF type.n = 0
    THEN IF Zeros(From(m, type.next)) THEN Ok(at.parts) ELSE Err("padding")
    ELSE IF AsU16(type.n) \in TypesOf(at.parts) THEN Err("duplicate")
    ELSE LET version == ReadCompact(m, type.next) IN
      IF Failed(version) THEN version
      ELSE LET length == ReadCompact(m, version.next) IN
        IF Failed(length) THEN length
        ELSE LET data == ReadValue(m, length.next, length.n) IN
          IF Failed(data) THEN data
          ELSE [next |-> data.next,
                parts |-> Append(at.parts,
                            [type |-> AsU16(type.n), version |-> AsU8(version.n),
                             value |-> data.value])]

ServerTurns(m) ==
  LET at[n \in 0..Len(m)] == IF n = 0 THEN Unread ELSE ServerTurn(m, at[n - 1])
  IN at

\* zip302.rs decode_tvlv.
ServerDecode(m) ==
  IF m = <<>> \/ m[1] # Tvlv THEN Err("marker")
  ELSE IF Len(m) > Long THEN Err("large")
  ELSE ServerTurns(m)[Len(m)]

\* tvlv.rs keeps a table of seen types and checks for the end before each field.
LibraryTurn(m, at) ==
  LET field(p) == IF p > Len(m) THEN Err("truncated") ELSE LibraryReadCompact(m, p)
      type == field(at.next)
      seen == \E i \in DOMAIN at.parts : at.parts[i].type = AsU16(type.n)
      version == field(type.next)
      length == field(version.next)
      data == ReadValue(m, length.next, length.n)
  IN CASE Ended(at) -> at
       [] ~Ended(at) /\ Failed(type) -> type
       [] ~Ended(at) /\ ~Failed(type) /\ type.n = 0 ->
            IF \E i \in type.next .. Len(m) : m[i] # 0 THEN Err("padding") ELSE Ok(at.parts)
       [] OTHER ->
            CASE seen -> Err("duplicate")
              [] ~seen /\ Failed(version) -> version
              [] OTHER ->
                   IF Failed(length) THEN length
                   ELSE IF Failed(data) THEN data
                   ELSE [next |-> data.next,
                         parts |-> Append(at.parts,
                                     [type |-> AsU16(type.n), version |-> AsU8(version.n),
                                      value |-> data.value])]

LibraryTurns(m) ==
  LET at[n \in 0..Len(m)] == IF n = 0 THEN Unread ELSE LibraryTurn(m, at[n - 1])
  IN at

LibraryDecode(m) ==
  IF m = <<>> \/ m[1] # Tvlv THEN Err("marker") ELSE LibraryTurns(m)[Len(m)]

-----------------------------------------------------------------------------
(* Text memos: a text is a sequence of fields, separated by colons.  The   *)
(* kinds of a type field and of a payload field are those the two readers  *)
(* tell apart.                                                             *)

\* u8::from_str_radix(_, 16) takes a sign and one digit; hex::decode neither.
TypeNumber(field) ==
  IF field.kind \in {"two digits", "one digit", "signed"} THEN field.value ELSE None

HexDecodes(field) == field.kind = "hex"
SignedPairs(field) == field.kind \in {"hex", "signed pairs"}
Bytes32(field) == field.length = 64

\* StructuredMemo::encode.
TextMemo(type, payload) ==
  <<"ZAP1", [kind |-> "two digits", value |-> type],
    [kind |-> "hex", length |-> 64, value |-> payload]>>

\* StructuredMemo::decode: type and payload, or None.
StrictRead(text) ==
  IF /\ Len(text) = 3 /\ text[1] \in {"ZAP1", "NSM1"}
     /\ TypeNumber(text[2]) \in KnownTypes
     /\ HexDecodes(text[3]) /\ Bytes32(text[3])
  THEN [type |-> text[2].value, payload |-> text[3].value]
  ELSE None

\* try_parse_attestation, after ZAP1 and after NSM1: any type byte.
LenientRead(text) ==
  IF /\ Len(text) = 3 /\ text[1] \in {"ZAP1", "NSM1"}
     /\ TypeNumber(text[2]) # None
     /\ Bytes32(text[3]) /\ SignedPairs(text[3])
  THEN [type |-> text[2].value, payload |-> text[3].value]
  ELSE None

\* The crate's decode; a text that is not UTF-8 is not told apart here.
Classify(m) ==
  CASE m = <<>> \/ Zeros(m) -> "empty"
    [] m # <<>> /\ m[1] = EmptyMark -> IF Zeros(From(m, 2)) THEN "empty" ELSE "unknown"
    [] m # <<>> /\ m[1] = Tvlv -> IF Failed(LibraryDecode(m)) THEN "unknown" ELSE "zip302"
    [] m # <<>> /\ m[1] = BinaryMark -> "binary"
    [] m # <<>> /\ m[1] \in Reserved -> "unknown"
    [] OTHER -> "text"

===============================================================================
