----------------------------- MODULE FormatsProofs -----------------------------
(***************************************************************************)
(* What Formats and EventIntake promise, for every value of their          *)
(* constants.  First the formats: trees bind their leaves, preimages their *)
(* events, the decoders of memos undo what the encoders do, and two shares *)
(* of a ceremony sign for its key.  Each grows its input from nothing, so  *)
(* the invariant is that the input is one: the rest are lemmas about the   *)
(* algorithms.  Then the endpoint that takes events in and answers with    *)
(* hashes of such preimages: types; the accounts of the keys, where a      *)
(* ticket in flight is one of the numbers its key was charged; and the     *)
(* filing of the leaves, where every answer has its leaf and an agent's    *)
(* leaf its agent.                                                         *)
(***************************************************************************)
EXTENDS EventIntake, Formats, DataLemmas, FiniteSetTheorems, TLAPS

-----------------------------------------------------------------------------
(* Trees. *)

\* The list that grows is a list of leaves.
ListInv == list \in Seq(Leaves)

\* Every step keeps it one.
LEMMA ListSteps == (FormatsInit => ListInv) /\ (ListInv /\ [FormatsNext]_formatsVars => ListInv')
<1>1. FormatsInit => ListInv
  BY EmptySeq DEF FormatsInit, ListInv
<1>2. ASSUME ListInv, [FormatsNext]_formatsVars PROVE ListInv'
  <2>1. CASE list' = list
    BY <1>2, <2>1 DEF ListInv
  <2>2. CASE AddLeaf
    BY <1>2, <2>2, AppendProperties DEF ListInv, AddLeaf
  <2> QED
    BY <1>2, <2>1, <2>2 DEF FormatsNext, formatsVars, inputs, Grow, SetField, AddPart, AddByte,
                            AddPiece, AddField
<1> QED
  BY <1>1, <1>2

\* Whatever the leaves: trees of every size commit to their leaves in order
\* and number, proofs to one of them, and the level by level tree is the one
\* that is split at the largest power of two (merkle.rs, zap1-verify).
THEOREM TreesBind == FormatsSpec => []TreesBindLeaves
<1>1. ListInv => TreesBindLeaves
  <2> SUFFICES ASSUME ListInv
               PROVE  RawRootIsSplitTree /\ RootsBind /\ ProofsBind /\ LegacyProofsBind
    BY DEF TreesBindLeaves
  <2>1. IsTable(list)
    BY TypedTable DEF ListInv
  <2>2. RawRootIsSplitTree
    BY <2>1, RawRootIsSplit DEF RawRootIsSplitTree
  <2>3. RootsBind
    <3> SUFFICES ASSUME NEW other \in Lists, ComputeRoot(other) = ComputeRoot(list)
                 PROVE  other = list
      BY DEF RootsBind
    <3>1. PICK n \in 1..MaxLeaves : other \in [1..n -> Leaves]
      BY DEF Lists
    <3>2. n \in Nat
      BY FormatsAssumption
    <3>3. IsTable(other)
      BY <3>1, <3>2, ListIsSequence, TypedTable
    <3> QED
      BY <2>1, <3>3, RootBindsLeaves
  <2>4. ProofsBind
    BY <2>1, ProofBindsLeaf DEF ProofsBind
  <2>5. LegacyProofsBind
    BY <2>1, LegacyProofBindsLeaf DEF LegacyProofsBind
  <2> QED
    BY <2>2, <2>3, <2>4, <2>5
<1> QED
  BY <1>1, ListSteps, PTL DEF FormatsSpec

-----------------------------------------------------------------------------
(* Layouts: the fields of every type of event. *)

\* A layout as every table has them: fields of the four kinds, no name twice,
\* and a field without a length only alone.
IsLayout(layout) ==
  /\ IsTable(layout) /\ layout # <<>>
  /\ \A k \in DOMAIN layout : /\ layout[k].kind \in {"raw", "str", "u32", "u64"}
                              /\ layout[k].kind = "raw" => Len(layout) = 1
  /\ \A k, l \in DOMAIN layout : layout[k].name = layout[l].name => k = l

\* A field whose bytes say where they end.
IsSlot(slot, name) == slot.name = name /\ slot.kind \in {"str", "u32", "u64"}

\* The three kinds of such fields.
LEMMA SlotsOfTables ==
  ASSUME NEW name
  PROVE  IsSlot(Str(name), name) /\ IsSlot(Int32(name), name) /\ IsSlot(Int64(name), name)
  BY DEF IsSlot, Str, Int32, Int64

\* A field alone is a layout,
LEMMA LayoutOfOne ==
  ASSUME NEW name
  PROVE  IsLayout(<<Raw(name)>>)
<1> DEFINE s == <<Raw(name)>>
<1>1. IsTable(s) /\ s # <<>> /\ Len(s) = 1 /\ DOMAIN s = {1} /\ s[1].kind = "raw"
  BY DEF IsTable, RowsIn, Raw
<1> HIDE DEF s
<1>2. IsLayout(s)
  BY <1>1, Zenon DEF IsLayout
<1> QED
  BY <1>2 DEF s

\* and so are two fields of different names,
LEMMA LayoutOfTwo ==
  ASSUME NEW a, NEW b, NEW x, NEW y, IsSlot(a, x), IsSlot(b, y), x # y
  PROVE  IsLayout(<<a, b>>)
<1> DEFINE s == <<a, b>>
<1>1. /\ IsTable(s) /\ s # <<>> /\ DOMAIN s = {1, 2}
      /\ s[1] = a /\ s[2] = b
  BY DEF IsTable, RowsIn
<1> HIDE DEF s
<1>2. \A k \in DOMAIN s : s[k].kind \in {"str", "u32", "u64"}
  BY <1>1 DEF IsSlot
<1>3. \A k, l \in DOMAIN s : s[k].name = s[l].name => k = l
  BY <1>1 DEF IsSlot
<1>4. IsLayout(s)
  BY <1>1, <1>2, <1>3 DEF IsLayout
<1> QED
  BY <1>4 DEF s

\* three,
LEMMA LayoutOfThree ==
  ASSUME NEW a, NEW b, NEW c, NEW x, NEW y, NEW z,
         IsSlot(a, x), IsSlot(b, y), IsSlot(c, z), x # y, x # z, y # z
  PROVE  IsLayout(<<a, b, c>>)
<1> DEFINE s == <<a, b, c>>
<1>1. /\ IsTable(s) /\ s # <<>> /\ DOMAIN s = {1, 2, 3}
      /\ s[1] = a /\ s[2] = b /\ s[3] = c
  BY DEF IsTable, RowsIn
<1> HIDE DEF s
<1>2. \A k \in DOMAIN s : s[k].kind \in {"str", "u32", "u64"}
  BY <1>1 DEF IsSlot
<1>3. \A k, l \in DOMAIN s : s[k].name = s[l].name => k = l
  BY <1>1 DEF IsSlot
<1>4. IsLayout(s)
  BY <1>1, <1>2, <1>3 DEF IsLayout
<1> QED
  BY <1>4 DEF s

\* and four.
LEMMA LayoutOfFour ==
  ASSUME NEW a, NEW b, NEW c, NEW d, NEW x, NEW y, NEW z, NEW w,
         IsSlot(a, x), IsSlot(b, y), IsSlot(c, z), IsSlot(d, w),
         x # y, x # z, x # w, y # z, y # w, z # w
  PROVE  IsLayout(<<a, b, c, d>>)
<1> DEFINE s == <<a, b, c, d>>
<1>1. /\ IsTable(s) /\ s # <<>> /\ DOMAIN s = {1, 2, 3, 4}
      /\ s[1] = a /\ s[2] = b /\ s[3] = c /\ s[4] = d
  BY DEF IsTable, RowsIn
<1> HIDE DEF s
<1>2. \A k \in DOMAIN s : s[k].kind \in {"str", "u32", "u64"}
  BY <1>1 DEF IsSlot
<1>3. \A k, l \in DOMAIN s : s[k].name = s[l].name => k = l
  BY <1>1 DEF IsSlot
<1>4. IsLayout(s)
  BY <1>1, <1>2, <1>3 DEF IsLayout
<1> QED
  BY <1>4 DEF s

\* The lifecycle types have layouts (hash_program_entry and the rest),
LEMMA LifecycleLayouts ==
  ASSUME NEW type \in DOMAIN HashLifecycle
  PROVE  IsLayout(HashLifecycle[type])
<1>1. /\ IsLayout(HashLifecycle.PROGRAM_ENTRY)
      /\ IsLayout(HashLifecycle.OWNERSHIP_ATTEST)
      /\ IsLayout(HashLifecycle.CONTRACT_ANCHOR)
      /\ IsLayout(HashLifecycle.SHIELD_RENEWAL)
  BY SlotsOfTables, LayoutOfOne, LayoutOfTwo DEF HashLifecycle
<1>2. /\ IsLayout(HashLifecycle.DEPLOYMENT)
      /\ IsLayout(HashLifecycle.HOSTING_PAYMENT)
      /\ IsLayout(HashLifecycle.TRANSFER)
      /\ IsLayout(HashLifecycle.EXIT)
  BY SlotsOfTables, LayoutOfThree DEF HashLifecycle
<1>3. DOMAIN HashLifecycle =
        {"PROGRAM_ENTRY", "OWNERSHIP_ATTEST", "CONTRACT_ANCHOR", "DEPLOYMENT",
         "HOSTING_PAYMENT", "SHIELD_RENEWAL", "TRANSFER", "EXIT"}
  BY DEF HashLifecycle
<1> QED
  BY <1>1, <1>2, <1>3, Zenon

\* and the staking types,
LEMMA StakingLayouts ==
  ASSUME NEW type \in DOMAIN HashStaking
  PROVE  IsLayout(HashStaking[type])
<1>1. /\ IsLayout(HashStaking.STAKING_DEPOSIT)
      /\ IsLayout(HashStaking.STAKING_WITHDRAW)
      /\ IsLayout(HashStaking.STAKING_REWARD)
  BY SlotsOfTables, LayoutOfThree DEF HashStaking
<1>2. DOMAIN HashStaking = {"STAKING_DEPOSIT", "STAKING_WITHDRAW", "STAKING_REWARD"}
  BY DEF HashStaking
<1> QED
  BY <1>1, <1>2, Zenon

\* and the governance types,
LEMMA GovernanceLayouts ==
  ASSUME NEW type \in DOMAIN HashGovernance
  PROVE  IsLayout(HashGovernance[type])
<1>1. /\ IsLayout(HashGovernance.GOVERNANCE_PROPOSAL)
      /\ IsLayout(HashGovernance.GOVERNANCE_VOTE)
      /\ IsLayout(HashGovernance.GOVERNANCE_RESULT)
  BY SlotsOfTables, LayoutOfThree DEF HashGovernance
<1>2. DOMAIN HashGovernance =
        {"GOVERNANCE_PROPOSAL", "GOVERNANCE_VOTE", "GOVERNANCE_RESULT"}
  BY DEF HashGovernance
<1> QED
  BY <1>1, <1>2, Zenon

\* and the agent types.
LEMMA AgentLayouts ==
  ASSUME NEW type \in DOMAIN HashAgent
  PROVE  IsLayout(HashAgent[type])
<1>1. /\ IsLayout(HashAgent.AGENT_REGISTER)
      /\ IsLayout(HashAgent.AGENT_POLICY)
      /\ IsLayout(HashAgent.AGENT_ACTION)
  BY SlotsOfTables, LayoutOfThree, LayoutOfFour DEF HashAgent
<1>2. DOMAIN HashAgent = {"AGENT_REGISTER", "AGENT_POLICY", "AGENT_ACTION"}
  BY DEF HashAgent
<1> QED
  BY <1>1, <1>2, Zenon

\* Every type of the server has a layout.
LEMMA ServerLayouts ==
  /\ DOMAIN ServerLayout = Types
  /\ \A type \in Types : IsLayout(ServerLayout[type])
<1>1. Types = (DOMAIN HashLifecycle \cup DOMAIN HashStaking)
              \cup (DOMAIN HashGovernance \cup DOMAIN HashAgent)
  BY DEF Types, TypeByte, HashLifecycle, HashStaking, HashGovernance, HashAgent
<1>2. ASSUME NEW type \in Types
      PROVE  ServerLayout[type] \in
               {HashLifecycle[type], HashStaking[type], HashGovernance[type], HashAgent[type]}
             /\ IsLayout(ServerLayout[type])
  BY <1>1, <1>2, LifecycleLayouts, StakingLayouts, GovernanceLayouts, AgentLayouts
     DEF ServerLayout, Joined
<1> QED
  BY <1>1, <1>2 DEF ServerLayout, Joined

\* No two types have one type byte.
LEMMA TypeBytesDiffer ==
  ASSUME NEW s \in Types, NEW t \in Types, TypeByte[s] = TypeByte[t]
  PROVE  s = t
  BY DEF Types, TypeByte

-----------------------------------------------------------------------------
(* Fields. *)

\* What a byte of an event may hold.
Bits == 0..Base - 1

\* Bytes have values, and the wider integers are wider.
LEMMA BaseType ==
  /\ Base \in Nat \ {0} /\ Base \in Nat
  /\ U32 \in Nat /\ U64 \in Nat /\ U32 <= U64
  /\ 2 \in Nat
  BY EncodingAssumption

\* to_be_bytes gives bytes, as many as its type has.
LEMMA BigEndianTyped ==
  ASSUME NEW n \in Nat, NEW w \in Nat
  PROVE  BigEndian(n, w, Base) \in Seq(Bits) /\ Len(BigEndian(n, w, Base)) = w
<1>1. ASSUME NEW k \in 1..w PROVE Shifted(n, w - k, Base) % Base \in Bits
  <2>1. w - k \in Nat
    OBVIOUS
  <2>2. Shifted(n, w - k, Base) \in Int
    BY <2>1, BaseType, ShiftedType
  <2> QED
    BY <2>2, BaseType, DivMod DEF Bits
<1>2. BigEndian(n, w, Base) \in [1..w -> Bits]
  BY <1>1 DEF BigEndian
<1> QED
  BY <1>2, LenProperties

\* What a field of a slot may hold.
Holds(slot, value) ==
  /\ slot.kind \in {"raw", "str"} => value \in Seq(Bits)
  /\ slot.kind \in {"u32", "u64"} =>
       \E n \in Nat : value = <<n>> /\ Shifted(n, U32, Base) = 0

\* A field is written as bytes.
LEMMA FieldTyped ==
  ASSUME NEW slot, NEW value, slot.kind \in {"raw", "str", "u32", "u64"}, Holds(slot, value)
  PROVE  FieldBytes(slot, value) \in Seq(Bits)
<1>1. CASE slot.kind = "raw"
  BY <1>1 DEF FieldBytes, Holds
<1>2. CASE slot.kind = "str"
  <2>1. value \in Seq(Bits) /\ Len(value) \in Nat
    BY <1>2, LenProperties DEF Holds
  <2>2. LengthPrefix(value) \in Seq(Bits)
    BY <2>1, BaseType, BigEndianTyped DEF LengthPrefix
  <2>3. FieldBytes(slot, value) = LengthPrefix(value) \o value
    BY <1>2 DEF FieldBytes
  <2> QED
    BY <2>1, <2>2, <2>3, ConcatProperties
<1>3. CASE slot.kind \in {"u32", "u64"}
  <2>1. PICK n \in Nat : value = <<n>>
    BY <1>3 DEF Holds
  <2>2. FieldBytes(slot, value) \in {BigEndian(n, U32, Base), BigEndian(n, U64, Base)}
    BY <1>3, <2>1 DEF FieldBytes
  <2> QED
    BY <2>2, BaseType, BigEndianTyped
<1> QED
  BY <1>1, <1>2, <1>3

\* Integers that fit and are written alike are equal.
LEMMA NumbersAgree ==
  ASSUME NEW x \in Nat, NEW y \in Nat, NEW w \in Nat,
         Shifted(x, w, Base) = 0, Shifted(y, w, Base) = 0,
         Agree(BigEndian(x, w, Base), BigEndian(y, w, Base))
  PROVE  x = y
<1>1. Len(BigEndian(x, w, Base)) = w /\ Len(BigEndian(y, w, Base)) = w
  BY BigEndianTyped
<1>2. \A k \in 1..w : BigEndian(x, w, Base)[k] = BigEndian(y, w, Base)[k]
  BY <1>1 DEF Agree
<1> QED
  BY <1>2, BaseType, BigEndianBinds

\* A field behind a length, or of a fixed length, tells where it ends.
LEMMA FieldBinds ==
  ASSUME NEW slot, slot.kind \in {"str", "u32", "u64"},
         NEW x, NEW y, Holds(slot, x), Holds(slot, y),
         slot.kind = "str" => Fits(x) /\ Fits(y),
         Agree(FieldBytes(slot, x), FieldBytes(slot, y))
  PROVE  x = y
<1>1. CASE slot.kind = "str"
  <2>1. x \in Seq(Bits) /\ y \in Seq(Bits) /\ Len(x) \in Nat /\ Len(y) \in Nat
    BY <1>1, LenProperties DEF Holds
  <2> DEFINE p == LengthPrefix(x)
             q == LengthPrefix(y)
  <2>2. p \in Seq(Bits) /\ q \in Seq(Bits) /\ Len(p) = 2 /\ Len(q) = 2
    BY <2>1, BaseType, BigEndianTyped DEF LengthPrefix
  <2>3. FieldBytes(slot, x) = p \o x /\ FieldBytes(slot, y) = q \o y
    BY <1>1 DEF FieldBytes
  <2>4. Shifted(Len(x), 2, Base) = 0 /\ Shifted(Len(y), 2, Base) = 0
    BY <1>1, <2>1, BaseType, TwoBytes DEF Fits
  <2> HIDE DEF p, q
  <2>5. /\ Len(p \o x) = 2 + Len(x) /\ Len(q \o y) = 2 + Len(y)
        /\ \A i \in 1..2 + Len(x) : (p \o x)[i] = IF i <= 2 THEN p[i] ELSE x[i - 2]
        /\ \A i \in 1..2 + Len(y) : (q \o y)[i] = IF i <= 2 THEN q[i] ELSE y[i - 2]
    <3>1. ASSUME NEW u \in Seq(Bits), Len(u) = 2, NEW v \in Seq(Bits), Len(v) \in Nat
          PROVE  /\ Len(u \o v) = 2 + Len(v)
                 /\ \A i \in 1..2 + Len(v) : (u \o v)[i] = IF i <= 2 THEN u[i] ELSE v[i - 2]
      <4>1. /\ Len(u \o v) = Len(u) + Len(v)
            /\ \A i \in 1..Len(u) + Len(v) : (u \o v)[i] = IF i <= Len(u) THEN u[i] ELSE v[i - Len(u)]
        BY ConcatProperties
      <4> QED
        BY <3>1, <4>1
    <3> QED
      BY <2>1, <2>2, <3>1
  <2>6. ASSUME NEW i \in 1..2 + Len(x), i <= 2 + Len(y)
        PROVE  (p \o x)[i] = (q \o y)[i]
    BY <2>3, <2>5, <2>6 DEF Agree
  <2>7. Agree(p, q)
    <3>1. ASSUME NEW i \in 1..2 PROVE p[i] = q[i]
      <4>1. i \in 1..2 + Len(x) /\ i \in 1..2 + Len(y) /\ i <= 2 /\ i <= 2 + Len(y)
        BY <2>1
      <4> QED
        BY <2>5, <2>6, <4>1
    <3> QED
      BY <2>2, <3>1 DEF Agree
  <2>8. Len(x) = Len(y)
    BY <2>1, <2>4, <2>7, BaseType, NumbersAgree DEF p, q, LengthPrefix
  <2>9. ASSUME NEW i \in 1..Len(x) PROVE x[i] = y[i]
    <3>1. /\ 2 + i \in 1..2 + Len(x) /\ 2 + i \in 1..2 + Len(y) /\ ~(2 + i <= 2)
          /\ 2 + i <= 2 + Len(y) /\ (2 + i) - 2 = i
      BY <2>1, <2>8
    <3> QED
      BY <2>5, <2>6, <3>1
  <2> QED
    BY <2>1, <2>8, <2>9, SeqEqual
<1>2. CASE slot.kind \in {"u32", "u64"}
  <2>1. PICK n \in Nat : x = <<n>> /\ Shifted(n, U32, Base) = 0
    BY <1>2 DEF Holds
  <2>2. PICK m \in Nat : y = <<m>> /\ Shifted(m, U32, Base) = 0
    BY <1>2 DEF Holds
  <2>3. Shifted(n, U64, Base) = 0 /\ Shifted(m, U64, Base) = 0
    BY <2>1, <2>2, BaseType, WiderFits
  <2>4. CASE slot.kind = "u32"
    <3>1. FieldBytes(slot, x) = BigEndian(n, U32, Base) /\ FieldBytes(slot, y) = BigEndian(m, U32, Base)
      BY <2>1, <2>2, <2>4 DEF FieldBytes
    <3>2. n = m
      BY <2>1, <2>2, <3>1, BaseType, NumbersAgree
    <3> QED
      BY <2>1, <2>2, <3>2
  <2>5. CASE slot.kind = "u64"
    <3>1. FieldBytes(slot, x) = BigEndian(n, U64, Base) /\ FieldBytes(slot, y) = BigEndian(m, U64, Base)
      BY <2>1, <2>2, <2>5 DEF FieldBytes
    <3>2. n = m
      BY <2>3, <3>1, BaseType, NumbersAgree
    <3> QED
      BY <2>1, <2>2, <3>2
  <2> QED
    BY <1>2, <2>4, <2>5
<1> QED
  BY <1>1, <1>2

-----------------------------------------------------------------------------
(* Preimages: the bytes of the fields give back the event. *)

\* An event of a type, and the bytes of its fields.
FieldsOf(e) ==
  [k \in DOMAIN ServerLayout[e.type] |->
     FieldBytes(ServerLayout[e.type][k], e.fields[ServerLayout[e.type][k].name])]

\* An event's fields hold what their slots allow.
LEMMA EventHolds ==
  ASSUME NEW type \in Types, NEW e \in EventsOf(type)
  PROVE  /\ e.type = type
         /\ e = [type |-> type, fields |-> e.fields]
         /\ e.fields = [name \in Names(type) |-> e.fields[name]]
         /\ \A slot \in Slots(type) : Holds(slot, e.fields[slot.name])
<1>1. PICK f \in [Names(type) -> Strings \cup Seq1(Numbers)] :
        /\ e = [type |-> type, fields |-> f]
        /\ \A slot \in Slots(type) : f[slot.name] \in Values(slot)
  BY DEF EventsOf
<1>2. e.fields = f /\ e.type = type
  BY <1>1
<1>3. f = [name \in Names(type) |-> f[name]]
  OBVIOUS
<1>4. ASSUME NEW slot \in Slots(type)
      PROVE  Holds(slot, f[slot.name])
  <2>1. CASE slot.kind \in {"raw", "str"}
    <3>1. f[slot.name] \in Strings
      BY <1>1, <2>1 DEF Values
    <3> QED
      BY <2>1, <3>1, EncodingAssumption DEF Holds, Bits
  <2>2. CASE slot.kind \notin {"raw", "str"}
    <3>1. f[slot.name] \in Seq1(Numbers)
      BY <1>1, <2>2 DEF Values
    <3>2. PICK n \in Numbers : f[slot.name] = <<n>>
      BY <3>1 DEF Seq1
    <3> QED
      BY <2>2, <3>2, EncodingAssumption DEF Holds
  <2> QED
    BY <2>1, <2>2
<1> QED
  BY <1>1, <1>2, <1>3, <1>4

\* The slots of a layout.
LEMMA LayoutType ==
  ASSUME NEW type \in Types
  PROVE  /\ Len(ServerLayout[type]) \in Nat \ {0}
         /\ DOMAIN ServerLayout[type] = 1..Len(ServerLayout[type])
         /\ \A k \in 1..Len(ServerLayout[type]) :
              /\ ServerLayout[type][k] \in Slots(type)
              /\ ServerLayout[type][k].kind \in {"raw", "str", "u32", "u64"}
              /\ ServerLayout[type][k].kind = "raw" => Len(ServerLayout[type]) = 1
<1>1. IsLayout(ServerLayout[type])
  BY ServerLayouts
<1> DEFINE layout == ServerLayout[type]
<1>2. layout \in Seq(RowsIn(layout)) /\ layout # <<>>
  BY <1>1 DEF IsLayout, IsTable
<1>3. Len(layout) \in Nat /\ DOMAIN layout = 1..Len(layout) /\ Len(layout) # 0
  BY <1>2, LenProperties, EmptySeq
<1>4. \A k \in DOMAIN layout : layout[k] \in Slots(type)
  BY DEF Slots
<1> QED
  BY <1>1, <1>3, <1>4 DEF IsLayout

\* One sequence in a sequence of one.
LEMMA FlattenOne ==
  ASSUME NEW V, NEW s \in Seq(Seq(V)), Len(s) = 1
  PROVE  FlattenSeq(s) = s[1]
<1>1. s # <<>> /\ s[1] \in Seq(V)
  BY EmptySeq, ElementOfSeq
<1>2. PICK g : /\ g[0] = <<>>
               /\ \A k \in 0..Len(s) - 1 : g[k + 1] = g[k] \o s[k + 1]
               /\ g[Len(s)] = FlattenSeq(s)
  BY <1>1, FlattenSteps, Zenon
<1>3. g[1] = <<>> \o s[1]
  <2>1. 0 \in 0..Len(s) - 1 /\ 0 + 1 = 1
    OBVIOUS
  <2> QED
    BY <1>2, <2>1
<1> QED
  BY <1>1, <1>2, <1>3, ConcatEmptySeq

\* The bytes of the fields, one by one and joined.
LEMMA FieldsTyped ==
  ASSUME NEW type \in Types, NEW e \in EventsOf(type)
  PROVE  /\ FieldsOf(e) \in Seq(Seq(Bits))
         /\ Len(FieldsOf(e)) = Len(ServerLayout[type])
         /\ \A k \in 1..Len(ServerLayout[type]) :
              FieldsOf(e)[k] =
                FieldBytes(ServerLayout[type][k], e.fields[ServerLayout[type][k].name])
         /\ FieldsOf(e) # <<>>
         /\ FlattenSeq(FieldsOf(e)) \in Seq(Bits)
<1> DEFINE layout == ServerLayout[type]
<1>1. e.type = type
  BY EventHolds
<1>2. Len(layout) \in Nat \ {0} /\ DOMAIN layout = 1..Len(layout)
  BY LayoutType
<1>3. ASSUME NEW k \in 1..Len(layout)
      PROVE  FieldBytes(layout[k], e.fields[layout[k].name]) \in Seq(Bits)
  <2>1. layout[k] \in Slots(type) /\ layout[k].kind \in {"raw", "str", "u32", "u64"}
    BY LayoutType
  <2> HIDE DEF layout
  <2>2. Holds(layout[k], e.fields[layout[k].name])
    BY <2>1, EventHolds
  <2> QED
    BY <2>1, <2>2, FieldTyped
<1>4. FieldsOf(e) = [k \in 1..Len(layout) |-> FieldBytes(layout[k], e.fields[layout[k].name])]
  BY <1>1, <1>2 DEF FieldsOf
<1> HIDE DEF layout
<1>5. FieldsOf(e) \in [1..Len(layout) -> Seq(Bits)]
  BY <1>3, <1>4
<1>6. FieldsOf(e) \in Seq(Seq(Bits)) /\ Len(FieldsOf(e)) = Len(layout)
  BY <1>2, <1>5, ListIsSequence
<1>7. FieldsOf(e) # <<>>
  BY <1>2, <1>6, EmptySeq
<1>8. FlattenSeq(FieldsOf(e)) \in Seq(Bits)
  <2>1. PICK g : /\ \A k \in 0..Len(FieldsOf(e)) : g[k] \in Seq(Bits)
                 /\ g[Len(FieldsOf(e))] = FlattenSeq(FieldsOf(e))
    BY <1>6, <1>7, FlattenSteps, Zenon
  <2>2. Len(FieldsOf(e)) \in 0..Len(FieldsOf(e))
    BY <1>2, <1>6
  <2> QED
    BY <2>1, <2>2
<1> QED
  BY <1>4, <1>6, <1>7, <1>8 DEF layout

\* Events of one type with the same bytes after the type byte have the same
\* fields.
LEMMA FieldsBind ==
  ASSUME NEW type \in Types, NEW x \in EventsOf(type), NEW y \in EventsOf(type),
         Encodable(x), Encodable(y), FlattenSeq(FieldsOf(x)) = FlattenSeq(FieldsOf(y))
  PROVE  x = y
<1> DEFINE layout == ServerLayout[type]
           s == FieldsOf(x)
           t == FieldsOf(y)
           fx(k) == x.fields[layout[k].name]
           fy(k) == y.fields[layout[k].name]
<1>1. /\ s \in Seq(Seq(Bits)) /\ t \in Seq(Seq(Bits)) /\ s # <<>>
      /\ Len(s) = Len(layout) /\ Len(t) = Len(layout)
      /\ \A k \in 1..Len(layout) : /\ s[k] = FieldBytes(layout[k], fx(k))
                                   /\ t[k] = FieldBytes(layout[k], fy(k))
  BY FieldsTyped
<1>2. /\ Len(layout) \in Nat \ {0} /\ DOMAIN layout = 1..Len(layout)
      /\ \A k \in 1..Len(layout) :
              /\ layout[k] \in Slots(type)
              /\ layout[k].kind \in {"raw", "str", "u32", "u64"}
              /\ layout[k].kind = "raw" => Len(layout) = 1
  BY LayoutType
<1>3. \A k \in 1..Len(layout) : /\ Holds(layout[k], fx(k)) /\ Holds(layout[k], fy(k))
                                /\ layout[k].kind = "str" => Fits(fx(k)) /\ Fits(fy(k))
  BY <1>2, EventHolds DEF Encodable
<1>4. \A k \in 1..Len(layout) : fx(k) = fy(k)
  <2>1. CASE \E k \in 1..Len(layout) : layout[k].kind = "raw"
    <3>1. Len(layout) = 1 /\ layout[1].kind = "raw"
      BY <1>2, <2>1
    <3>2. s[1] = t[1]
      BY <1>1, <3>1, FlattenOne
    <3> HIDE DEF s, t, fx, fy, layout
    <3>3. s[1] = fx(1) /\ t[1] = fy(1)
      <4>1. s[1] = FieldBytes(layout[1], fx(1)) /\ t[1] = FieldBytes(layout[1], fy(1))
        BY <1>1, <3>1
      <4> QED
        BY <3>1, <4>1 DEF FieldBytes
    <3>4. \A k \in 1..Len(layout) : k = 1
      BY <3>1
    <3> QED
      BY <3>2, <3>3, <3>4
  <2>2. CASE \A k \in 1..Len(layout) : layout[k].kind \in {"str", "u32", "u64"}
    <3> HIDE DEF s, t, fx, fy, layout
    <3>1. ASSUME NEW k \in 1..Len(layout), Agree(s[k], t[k])
          PROVE  fx(k) = fy(k)
      <4>1. s[k] = FieldBytes(layout[k], fx(k)) /\ t[k] = FieldBytes(layout[k], fy(k))
        BY <1>1
      <4>2. Agree(FieldBytes(layout[k], fx(k)), FieldBytes(layout[k], fy(k)))
        BY <3>1, <4>1
      <4>3. /\ Holds(layout[k], fx(k)) /\ Holds(layout[k], fy(k))
            /\ layout[k].kind = "str" => Fits(fx(k)) /\ Fits(fy(k))
        BY <1>3
      <4> QED
        BY <2>2, <4>2, <4>3, FieldBinds
    <3>2. \A k \in 1..Len(s) : Agree(s[k], t[k]) => s[k] = t[k]
      BY <1>1, <3>1
    <3>3. FlattenSeq(s) = FlattenSeq(t)
      BY DEF s, t
    <3>4. s = t
      BY <1>1, <3>2, <3>3, FlattenBinds
    <3>5. \A k \in 1..Len(layout) : Agree(s[k], t[k])
      BY <3>4 DEF Agree
    <3> QED
      BY <3>1, <3>5
  <2> QED
    BY <1>2, <2>1, <2>2
<1>5. \A name \in Names(type) : x.fields[name] = y.fields[name]
  <2>1. ASSUME NEW name \in Names(type) PROVE x.fields[name] = y.fields[name]
    <3>1. PICK k \in 1..Len(layout) : name = layout[k].name
      BY <1>2 DEF Names, Slots
    <3> QED
      BY <1>4, <3>1
  <2> QED
    BY <2>1
<1>6. x.fields = y.fields
  <2>1. /\ x.fields = [name \in Names(type) |-> x.fields[name]]
        /\ y.fields = [name \in Names(type) |-> y.fields[name]]
    BY EventHolds
  <2>2. [name \in Names(type) |-> x.fields[name]] = [name \in Names(type) |-> y.fields[name]]
    BY <1>5
  <2> QED
    BY <2>1, <2>2, Zenon
<1>7. x = [type |-> type, fields |-> x.fields] /\ y = [type |-> type, fields |-> y.fields]
  BY EventHolds
<1> QED
  BY <1>6, <1>7, Zenon

\* The event is determined by its preimage.
LEMMA PreimageBinds ==
  ASSUME NEW x \in AllEvents, NEW y \in AllEvents, Encodable(x),
         ServerPreimage(y) = ServerPreimage(x)
  PROVE  x = y
<1>1. PICK s \in Types : x \in EventsOf(s)
  BY DEF AllEvents
<1>2. PICK t \in Types : y \in EventsOf(t)
  BY DEF AllEvents
<1>3. x.type = s /\ y.type = t
  BY <1>1, <1>2, EventHolds
<1> DEFINE p == FlattenSeq(FieldsOf(x))
           q == FlattenSeq(FieldsOf(y))
<1>4. p \in Seq(Bits) /\ q \in Seq(Bits)
  BY <1>1, <1>2, FieldsTyped
<1>5. ServerPreimage(x) = <<TypeByte[s]>> \o p
  BY <1>3 DEF ServerPreimage, Preimage, FieldsOf
<1>6. Encodable(y) => ServerPreimage(y) = <<TypeByte[t]>> \o q
  BY <1>3 DEF ServerPreimage, Preimage, FieldsOf
<1> HIDE DEF p, q
<1>7. ASSUME NEW b, NEW v \in Seq(Bits)
      PROVE  /\ Len(<<b>> \o v) = Len(v) + 1 /\ Len(v) \in Nat
             /\ (<<b>> \o v)[1] = b
             /\ \A i \in 1..Len(v) : (<<b>> \o v)[i + 1] = v[i]
  <2>1. <<b>> \in Seq({b} \cup Bits) /\ v \in Seq({b} \cup Bits) /\ Len(<<b>>) = 1 /\ Len(v) \in Nat
    <3>1. v \in [1..Len(v) -> {b} \cup Bits] /\ Len(v) \in Nat
      BY LenProperties
    <3>2. <<b>> \in [1..1 -> {b} \cup Bits]
      OBVIOUS
    <3> QED
      BY <3>1, <3>2, ListIsSequence
  <2>2. /\ Len(<<b>> \o v) = 1 + Len(v)
        /\ \A i \in 1..1 + Len(v) : (<<b>> \o v)[i] = IF i <= 1 THEN <<b>>[i] ELSE v[i - 1]
    BY <2>1, ConcatProperties
  <2>3. 1 \in 1..1 + Len(v) /\ \A i \in 1..Len(v) : i + 1 \in 1..1 + Len(v) /\ (i + 1) - 1 = i /\ ~(i + 1 <= 1)
    BY <2>1
  <2> HIDE DEF Bits
  <2> QED
    BY <2>1, <2>2, <2>3
<1>8. Encodable(y)
  <2>1. ASSUME ~Encodable(y) PROVE FALSE
    <3>1. ServerPreimage(y) = <<>>
      BY <2>1 DEF ServerPreimage, Rejected
    <3>2. Len(<<TypeByte[s]>> \o p) = Len(p) + 1 /\ Len(p) \in Nat
      BY <1>4, <1>7
    <3>3. Len(<<>>) = 0
      BY EmptySeq
    <3> QED
      BY <1>5, <3>1, <3>2, <3>3
  <2> QED
    BY <2>1
<1>9. <<TypeByte[s]>> \o p = <<TypeByte[t]>> \o q
  BY <1>5, <1>6, <1>8
<1>10. TypeByte[s] = TypeByte[t] /\ Len(p) = Len(q) /\ Len(p) \in Nat
       /\ \A i \in 1..Len(p) : p[i] = q[i]
  <2>1. /\ Len(<<TypeByte[s]>> \o p) = Len(p) + 1 /\ Len(p) \in Nat
        /\ (<<TypeByte[s]>> \o p)[1] = TypeByte[s]
        /\ \A i \in 1..Len(p) : (<<TypeByte[s]>> \o p)[i + 1] = p[i]
    BY <1>4, <1>7
  <2>2. /\ Len(<<TypeByte[t]>> \o q) = Len(q) + 1 /\ Len(q) \in Nat
        /\ (<<TypeByte[t]>> \o q)[1] = TypeByte[t]
        /\ \A i \in 1..Len(q) : (<<TypeByte[t]>> \o q)[i + 1] = q[i]
    BY <1>4, <1>7
  <2>3. Len(p) + 1 = Len(q) + 1
    BY <1>9, <2>1, <2>2
  <2> QED
    BY <1>9, <2>1, <2>2, <2>3
<1>11. s = t
  BY <1>10, TypeBytesDiffer
<1>12. p = q
  BY <1>4, <1>10, SeqEqual
<1> QED
  BY <1>1, <1>2, <1>8, <1>11, <1>12, FieldsBind DEF p, q

\* The verification library and zap1_schema have the server's layouts.
LEMMA LayoutsAgree ==
  /\ \A type \in Types : VerifierLayout[type] = ServerLayout[type]
  /\ \A type \in DOMAIN SchemaLayout : type \in Types /\ SchemaLayout[type] = ServerLayout[type]
<1>1. /\ LeafHashLifecycle = HashLifecycle /\ ValidateLifecycle = HashLifecycle
      /\ LeafHashAgent = HashAgent
      /\ LeafHashStakingGovernance = ValidateStakingGovernance
  BY DEF LeafHashLifecycle, ValidateLifecycle, HashLifecycle, LeafHashAgent, HashAgent,
         LeafHashStakingGovernance, ValidateStakingGovernance
<1>2. /\ DOMAIN HashLifecycle = {"PROGRAM_ENTRY", "OWNERSHIP_ATTEST", "CONTRACT_ANCHOR",
                                 "DEPLOYMENT", "HOSTING_PAYMENT", "SHIELD_RENEWAL", "TRANSFER",
                                 "EXIT"}
      /\ DOMAIN HashStaking = {"STAKING_DEPOSIT", "STAKING_WITHDRAW", "STAKING_REWARD"}
      /\ DOMAIN HashGovernance = {"GOVERNANCE_PROPOSAL", "GOVERNANCE_VOTE", "GOVERNANCE_RESULT"}
      /\ DOMAIN HashAgent = {"AGENT_REGISTER", "AGENT_POLICY", "AGENT_ACTION"}
  BY DEF HashLifecycle, HashStaking, HashGovernance, HashAgent
<1>3. /\ DOMAIN ValidateStakingGovernance = DOMAIN HashStaking \cup DOMAIN HashGovernance
      /\ \A type \in DOMAIN HashStaking : ValidateStakingGovernance[type] = HashStaking[type]
      /\ \A type \in DOMAIN HashGovernance : ValidateStakingGovernance[type] = HashGovernance[type]
  <2>1. DOMAIN ValidateStakingGovernance =
          {"STAKING_DEPOSIT", "STAKING_WITHDRAW", "STAKING_REWARD",
           "GOVERNANCE_PROPOSAL", "GOVERNANCE_VOTE", "GOVERNANCE_RESULT"}
    BY DEF ValidateStakingGovernance
  <2>2. /\ ValidateStakingGovernance.STAKING_DEPOSIT = HashStaking.STAKING_DEPOSIT
        /\ ValidateStakingGovernance.STAKING_WITHDRAW = HashStaking.STAKING_WITHDRAW
        /\ ValidateStakingGovernance.STAKING_REWARD = HashStaking.STAKING_REWARD
    BY DEF ValidateStakingGovernance, HashStaking
  <2>3. /\ ValidateStakingGovernance.GOVERNANCE_PROPOSAL = HashGovernance.GOVERNANCE_PROPOSAL
        /\ ValidateStakingGovernance.GOVERNANCE_VOTE = HashGovernance.GOVERNANCE_VOTE
        /\ ValidateStakingGovernance.GOVERNANCE_RESULT = HashGovernance.GOVERNANCE_RESULT
    BY DEF ValidateStakingGovernance, HashGovernance
  <2> QED
    BY <1>2, <2>1, <2>2, <2>3, Zenon
<1>4. Types = (DOMAIN HashLifecycle \cup DOMAIN HashStaking)
              \cup (DOMAIN HashGovernance \cup DOMAIN HashAgent)
  BY <1>2 DEF Types, TypeByte
<1>5. ASSUME NEW type \in Types PROVE VerifierLayout[type] = ServerLayout[type]
  BY <1>1, <1>2, <1>3, <1>4 DEF VerifierLayout, ServerLayout, Joined
<1>6. ASSUME NEW type \in DOMAIN SchemaLayout
      PROVE  type \in Types /\ SchemaLayout[type] = ServerLayout[type]
  BY <1>1, <1>2, <1>3, <1>4 DEF SchemaLayout, ServerLayout, Joined
<1> QED
  BY <1>5, <1>6

\* The event that grows is one of the events.
EntryInv == kind = "event" => entry \in AllEvents

\* A name has one slot.
LEMMA SlotsDiffer ==
  ASSUME NEW type \in Types, NEW a \in Slots(type), NEW b \in Slots(type), a.name = b.name
  PROVE  a = b
  BY ServerLayouts DEF Slots, IsLayout

\* An event without content is an event,
LEMMA EmptyEventIsEvent ==
  ASSUME NEW type \in Types
  PROVE  EmptyEvent(type) \in EventsOf(type)
<1> DEFINE f == [name \in Names(type) |->
     IF \E slot \in Slots(type) : slot.name = name /\ slot.kind \in {"u32", "u64"}
     THEN <<0>> ELSE <<>>]
<1>1. <<0>> \in Seq1(Numbers) /\ <<>> \in Strings
  BY FormatsAssumption DEF Seq1
<1>2. f \in [Names(type) -> Strings \cup Seq1(Numbers)]
  BY <1>1
<1>3. ASSUME NEW slot \in Slots(type) PROVE f[slot.name] \in Values(slot)
  <2>1. slot.name \in Names(type)
    BY DEF Names
  <2>2. slot.kind \in {"raw", "str", "u32", "u64"}
    BY LayoutType DEF Slots
  <2>3. f[slot.name] = IF slot.kind \in {"u32", "u64"} THEN <<0>> ELSE <<>>
    BY <2>1, SlotsDiffer
  <2> HIDE DEF f
  <2> QED
    BY <1>1, <2>2, <2>3 DEF Values
<1> QED
  BY <1>2, <1>3 DEF EventsOf, EmptyEvent

\* and stays one when a field is set.
LEMMA SetFieldKeeps ==
  ASSUME NEW type \in Types, NEW e \in EventsOf(type),
         NEW slot \in Slots(type), NEW value \in Values(slot)
  PROVE  [e EXCEPT !.fields[slot.name] = value] \in EventsOf(type)
<1>1. PICK f \in [Names(type) -> Strings \cup Seq1(Numbers)] :
        /\ e = [type |-> type, fields |-> f]
        /\ \A s \in Slots(type) : f[s.name] \in Values(s)
  BY DEF EventsOf
<1> DEFINE g == [f EXCEPT ![slot.name] = value]
<1>2. [e EXCEPT !.fields[slot.name] = value] = [type |-> type, fields |-> g]
  BY <1>1
<1>3. slot.name \in Names(type) /\ value \in Strings \cup Seq1(Numbers)
  BY DEF Names, Values
<1>4. g \in [Names(type) -> Strings \cup Seq1(Numbers)]
  BY <1>3
<1>5. ASSUME NEW s \in Slots(type) PROVE g[s.name] \in Values(s)
  <2>1. s.name \in Names(type)
    BY DEF Names
  <2>2. CASE s.name = slot.name
    <3>1. s = slot
      BY <2>2, SlotsDiffer
    <3> QED
      BY <2>1, <2>2, <3>1
  <2>3. CASE s.name # slot.name
    BY <1>1, <2>1, <2>3
  <2> QED
    BY <2>2, <2>3
<1> HIDE DEF g
<1> QED
  BY <1>2, <1>4, <1>5 DEF EventsOf

\* So the event that grows starts as one,
LEMMA EntryStarts == FormatsInit => EntryInv
<1> SUFFICES ASSUME FormatsInit, kind = "event" PROVE entry \in AllEvents
  BY DEF EntryInv
<1>1. PICK type \in Types : entry = EmptyEvent(type)
  BY DEF FormatsInit
<1> QED
  BY <1>1, EmptyEventIsEvent DEF AllEvents

\* and stays one.
LEMMA EntrySteps == EntryInv /\ [FormatsNext]_formatsVars => EntryInv'
<1> SUFFICES ASSUME EntryInv, [FormatsNext]_formatsVars, kind' = "event" PROVE entry' \in AllEvents
  BY DEF EntryInv
<1>1. kind = "event" /\ entry \in AllEvents
  BY DEF EntryInv, FormatsNext, formatsVars
<1>2. CASE entry' = entry
  BY <1>1, <1>2
<1>3. CASE SetField
  <2>1. PICK type \in Types : entry \in EventsOf(type)
    BY <1>1 DEF AllEvents
  <2>2. entry.type = type
    BY <2>1, EventHolds
  <2>3. PICK slot \in Slots(type) : \E value \in Values(slot) :
          entry' = [entry EXCEPT !.fields[slot.name] = value]
    BY <1>3, <2>2 DEF SetField
  <2> QED
    BY <2>1, <2>3, SetFieldKeeps DEF AllEvents
<1> QED
  BY <1>2, <1>3 DEF FormatsNext, formatsVars, inputs, Grow, AddLeaf, AddPart, AddByte, AddPiece, AddField

\* Whatever the strings and the integers: no two events of any types have the
\* same preimage, and none has the preimage of one that is refused (memo.rs).
THEOREM PreimagesBind == FormatsSpec => []PreimageBindsEvent
<1>1. EntryInv => PreimageBindsEvent
  <2> SUFFICES ASSUME EntryInv, kind = "event", Encodable(entry), NEW other \in AllEvents,
                      ServerPreimage(other) = ServerPreimage(entry)
               PROVE  other = entry
    BY DEF PreimageBindsEvent
  <2>1. entry \in AllEvents
    BY DEF EntryInv
  <2> QED
    BY <2>1, PreimageBinds
<1> QED
  BY <1>1, EntryStarts, EntrySteps, PTL DEF FormatsSpec

\* The library refuses the fields that the server refuses.
LEMMA LengthsAgree ==
  ASSUME NEW e \in AllEvents
  PROVE  VerifierEncodable(e) <=> Encodable(e)
<1>1. PICK type \in Types : e \in EventsOf(type)
  BY DEF AllEvents
<1>2. e.type = type /\ \A slot \in Slots(type) : Holds(slot, e.fields[slot.name])
  BY <1>1, EventHolds
<1>3. VerifierLayout[type] = ServerLayout[type]
  BY LayoutsAgree
<1>4. ASSUME NEW slot \in Slots(type), slot.kind = "str"
      PROVE  Fits(e.fields[slot.name]) <=> Len(e.fields[slot.name]) <= Base * Base - 1
  <2>1. e.fields[slot.name] \in Seq(Bits)
    BY <1>2, <1>4 DEF Holds
  <2>2. Len(e.fields[slot.name]) \in Nat
    BY <2>1, LenProperties
  <2>3. Base * Base \in Nat
    BY EncodingAssumption DEF EncodingAssumption
  <2> QED
    BY <2>2, <2>3 DEF Fits
<1> QED
  BY <1>2, <1>3, <1>4 DEF VerifierEncodable, Encodable, Slots

\* Whatever the strings and the integers: zap1-verify and zap1_schema build
\* the server's preimage or none (compute_leaf_hash, validate_event).
THEOREM PreimageBuildersAgree == FormatsSpec => []PreimagesAgree
<1>1. EntryInv => PreimagesAgree
  <2> SUFFICES ASSUME EntryInv, kind = "event" PROVE VerifierAgrees /\ SchemaAgrees
    BY DEF PreimagesAgree
  <2>1. entry.type \in Types
    BY EventHolds DEF EntryInv, AllEvents
  <2>2. VerifierAgrees
    BY <2>1, LayoutsAgree, LengthsAgree
    DEF EntryInv, VerifierAgrees, VerifierPreimage, ServerPreimage
  <2>3. SchemaAgrees
    BY LayoutsAgree DEF SchemaAgrees, SchemaPreimage, ServerPreimage
  <2> QED
    BY <2>2, <2>3
<1> QED
  BY <1>1, EntryStarts, EntrySteps, PTL DEF FormatsSpec

-----------------------------------------------------------------------------
(* Compact sizes. *)

\* The byte and the integers of two, four and eight bytes.
LEMMA ByteType ==
  /\ Byte \in Nat \ {0} /\ Byte > 4
  /\ Max16 \in Nat \ {0} /\ Max32 \in Nat \ {0} /\ Max64 \in Nat \ {0}
  /\ Byte < Max16 /\ Max16 <= Max32 /\ Max32 <= Max64
<1>1. ASSUME NEW b \in Nat, b > 4 PROVE b * b \in Nat /\ b * b > 4 /\ b < b * b
  <2>1. b * b >= 5 * b
    BY <1>1
  <2> QED
    BY <1>1, <2>1
<1>2. Byte \in Nat /\ Byte > 4
  BY MemoAssumption
<1>3. Max16 \in Nat /\ Max16 > 4 /\ Byte < Max16
  BY <1>1, <1>2 DEF Max16
<1>4. Max32 \in Nat /\ Max32 > 4 /\ Max16 < Max32
  BY <1>1, <1>3 DEF Max32
<1>5. Max64 \in Nat /\ Max64 > 4 /\ Max32 < Max64
  BY <1>1, <1>4 DEF Max64
<1> QED
  BY <1>2, <1>3, <1>4, <1>5

\* What fits into two, four and eight bytes.
LEMMA ShiftedWords ==
  ASSUME NEW n \in Nat
  PROVE  /\ n < Max16 <=> Shifted(n, 2, Byte) = 0
         /\ n < Max32 <=> Shifted(n, 4, Byte) = 0
         /\ n < Max64 <=> Shifted(n, 8, Byte) = 0
<1>1. ASSUME NEW k \in Nat
      PROVE  Shifted(n, k, Byte) \in Nat /\ Shifted(n, k + 2, Byte) = Shifted(n, k, Byte) \div Max16
  <2>1. Shifted(n, k, Byte) \in Nat
    BY ByteType, ShiftedType
  <2>2. Shifted(n, k + 1, Byte) = Shifted(n, k, Byte) \div Byte
    BY ShiftedNext
  <2>3. Shifted(n, (k + 1) + 1, Byte) = Shifted(n, k + 1, Byte) \div Byte /\ (k + 1) + 1 = k + 2
    <3>1. k + 1 \in Nat /\ (k + 1) + 1 = k + 2
      OBVIOUS
    <3> QED
      BY <3>1, ShiftedNext
  <2> QED
    BY <2>1, <2>2, <2>3, ByteType, DivTwice DEF Max16
<1>2. Shifted(n, 0, Byte) = n /\ 0 \in Nat /\ 2 \in Nat /\ 4 \in Nat /\ 6 \in Nat
      /\ 0 + 2 = 2 /\ 2 + 2 = 4 /\ 4 + 2 = 6 /\ 6 + 2 = 8
  BY ShiftedNext
<1>3. Shifted(n, 2, Byte) = n \div Max16 /\ Shifted(n, 2, Byte) \in Nat
  BY <1>1, <1>2
<1>4. ASSUME NEW x \in Nat
      PROVE  /\ (x \div Max16) \div Max16 = x \div Max32
             /\ (x \div Max32) \div Max32 = x \div Max64
             /\ x \div Max32 \in Nat
  <2>1. (x \div Max16) \div Max16 = x \div Max32
    BY ByteType, DivTwice DEF Max32
  <2>2. (x \div Max32) \div Max32 = x \div Max64
    <3>1. Max32 \in Nat \ {0}
      BY ByteType
    <3>2. (x \div Max32) \div Max32 = x \div (Max32 * Max32)
      BY <3>1, DivTwice
    <3> QED
      BY <3>2 DEF Max64
  <2>3. x \div Max32 \in Nat
    BY ByteType
  <2> QED
    BY <2>1, <2>2, <2>3
<1>5. /\ Shifted(n, 4, Byte) = n \div Max32
      /\ Shifted(n, 8, Byte) = n \div Max64
  <2>1. Shifted(n, 4, Byte) = n \div Max32
    BY <1>1, <1>2, <1>3, <1>4
  <2>2. Shifted(n, 8, Byte) = ((n \div Max32) \div Max16) \div Max16
    BY <1>1, <1>2, <2>1
  <2> QED
    BY <1>4, <2>1, <2>2
<1>6. ASSUME NEW q \in Nat \ {0} PROVE n < q <=> n \div q = 0
  OBVIOUS
<1> QED
  BY <1>3, <1>5, <1>6, ByteType

\* What a byte of a memo may hold.
Octets == 0..Byte - 1

\* Each form has a tag of its own.
LEMMA TagType ==
  /\ Widest \in Octets /\ Widest + 1 < Max16
  /\ \A w \in {2, 4, 8} : /\ Tag(w) \in Octets /\ Tag(w) > Widest /\ w \in Nat
                          /\ Least(w) \in Nat /\ Least(w) > Widest
                          /\ (CHOOSE v \in {2, 4, 8} : Tag(v) = Tag(w)) = w
  /\ \A b \in Octets : b > Widest => \E w \in {2, 4, 8} : b = Tag(w)
<1>1. Tag(2) = Byte - 3 /\ Tag(4) = Byte - 2 /\ Tag(8) = Byte - 1
  BY DEF Tag
<1>2. Least(2) = Widest + 1 /\ Least(4) = Max16 /\ Least(8) = Max32
  BY DEF Least
<1>3. Byte \in Nat /\ Byte > 4
  BY ByteType
<1>4. ASSUME NEW w \in {2, 4, 8} PROVE (CHOOSE v \in {2, 4, 8} : Tag(v) = Tag(w)) = w
  BY <1>1, <1>3
<1> QED
  BY <1>1, <1>2, <1>3, <1>4, ByteType DEF Octets, Widest

\* to_le_bytes gives bytes, as many as its type has.
LEMMA WordTyped ==
  ASSUME NEW n \in Nat, NEW w \in Nat
  PROVE  LittleEndian(n, w, Byte) \in Seq(Octets) /\ Len(LittleEndian(n, w, Byte)) = w
<1>1. ASSUME NEW k \in 1..w PROVE Shifted(n, k - 1, Byte) % Byte \in Octets
  <2>1. k - 1 \in Nat
    OBVIOUS
  <2>2. Shifted(n, k - 1, Byte) \in Int
    BY <2>1, ByteType, ShiftedType
  <2> QED
    BY <2>2, ByteType, DivMod DEF Octets
<1>2. LittleEndian(n, w, Byte) \in [1..w -> Octets]
  BY <1>1 DEF LittleEndian
<1> QED
  BY <1>2, LenProperties

\* The four forms.
LEMMA FormOfOne ==
  ASSUME NEW n \in Nat, n <= Widest
  PROVE  Compact(n) = <<n>> /\ n \in Octets
<1>1. n \in Octets
  BY ByteType DEF Octets, Widest
<1>2. Compact(n) = Form(n, 1)
  <2>1. Width(n) = 1
    BY DEF Width
  <2> QED
    BY <2>1 DEF Compact
<1>3. Form(n, 1) = <<n>>
  BY DEF Form
<1> QED
  BY <1>1, <1>2, <1>3

\* A size is written in the width it needs,
LEMMA FormOfWord ==
  ASSUME NEW n \in Nat, NEW w \in {2, 4, 8}, Least(w) <= n, Shifted(n, w, Byte) = 0
  PROVE  Compact(n) = <<Tag(w)>> \o LittleEndian(n, w, Byte)
<1>1. n > Widest /\ Widest \in Int
  BY TagType DEF Octets
<1>2. CASE w = 2
  <2>1. n < Max16
    BY <1>2, ShiftedWords
  <2>2. ~(n <= Widest)
    BY <1>1
  <2>3. Compact(n) = Form(n, 2)
    <3>1. Width(n) = 2
      BY <2>1, <2>2 DEF Width
    <3> QED
      BY <3>1 DEF Compact
  <2> QED
    BY <1>2, <2>3 DEF Form
<1>3. CASE w = 4
  <2>1. n < Max32 /\ ~(n < Max16)
    BY <1>3, ShiftedWords, ByteType DEF Least
  <2> QED
    BY <1>1, <1>3, <2>1 DEF Compact, Width, Form
<1>4. CASE w = 8
  <2>1. ~(n < Max32) /\ ~(n < Max16)
    BY <1>4, ByteType DEF Least
  <2> QED
    BY <1>1, <1>4, <2>1 DEF Compact, Width, Form
<1> QED
  BY <1>2, <1>3, <1>4

\* and every size but the small ones needs one of three widths.
LEMMA WordOf ==
  ASSUME NEW n \in Nat, n > Widest, n < Max64
  PROVE  \E w \in {2, 4, 8} : Least(w) <= n /\ Shifted(n, w, Byte) = 0
<1>1. Least(2) = Widest + 1 /\ Least(4) = Max16 /\ Least(8) = Max32
  BY DEF Least
<1>2. n >= Widest + 1
  BY TagType DEF Octets
<1>3. CASE n < Max16
  BY <1>1, <1>2, <1>3, ShiftedWords
<1>4. CASE n >= Max16 /\ n < Max32
  BY <1>1, <1>4, ShiftedWords
<1>5. CASE n >= Max32
  BY <1>1, <1>5, ShiftedWords
<1> QED
  BY <1>3, <1>4, <1>5, ByteType

\* A size is written in one to nine bytes.
LEMMA CompactTyped ==
  ASSUME NEW n \in Nat
  PROVE  Compact(n) \in Seq(Octets) /\ Len(Compact(n)) \in 1..9
<1>1. CASE n <= Widest
  <2>1. Compact(n) = <<n>> /\ n \in Octets
    BY <1>1, FormOfOne
  <2>2. <<n>> \in [1..1 -> Octets]
    BY <2>1
  <2> QED
    BY <2>1, <2>2, ListIsSequence
<1>2. CASE ~(n <= Widest)
  <2>1. PICK w \in {2, 4, 8} : Width(n) = w
    BY <1>2 DEF Width
  <2> DEFINE word == LittleEndian(n, w, Byte)
  <2>2. Compact(n) = <<Tag(w)>> \o word
    <3>1. Compact(n) = Form(n, w) /\ w # 1
      BY <2>1 DEF Compact
    <3> QED
      BY <3>1 DEF Form
  <2>3. word \in Seq(Octets) /\ Len(word) = w
    BY TagType, WordTyped
  <2>4. <<Tag(w)>> \in Seq(Octets) /\ Len(<<Tag(w)>>) = 1
    <3>1. <<Tag(w)>> \in [1..1 -> Octets]
      BY TagType
    <3> QED
      BY <3>1, ListIsSequence
  <2> HIDE DEF word
  <2> QED
    BY <2>2, <2>3, <2>4, ConcatProperties
<1> QED
  BY <1>1, <1>2

\* What reading a size returns: the size and the position behind it.
Got(n, next) == [n |-> n, next |-> next]

\* A size of several bytes that stands somewhere: its tag and what is read of it.
LEMMA WordBack ==
  ASSUME NEW m, NEW p \in Nat \ {0}, NEW n \in Nat, n < Max64, n > Widest, Len(m) \in Nat,
         Occurs(m, p, Compact(n))
  PROVE  \E w \in {2, 4, 8} :
           /\ p \in 1..Len(m) /\ m[p] = Tag(w) /\ p + w \in 1..Len(m)
           /\ Number(m, p + 1, w) = n /\ Least(w) <= n /\ Len(Compact(n)) = 1 + w
<1>1. PICK w \in {2, 4, 8} : Least(w) <= n /\ Shifted(n, w, Byte) = 0
  BY WordOf
<1> DEFINE word == LittleEndian(n, w, Byte)
<1>2. Compact(n) = <<Tag(w)>> \o word
  BY <1>1, FormOfWord
<1>3. word \in Seq(Octets) /\ Len(word) = w /\ w \in Nat
  BY TagType, WordTyped
<1>4. <<Tag(w)>> \in Seq(Octets) /\ Len(<<Tag(w)>>) = 1
  <2>1. <<Tag(w)>> \in [1..1 -> Octets]
    BY TagType
  <2> QED
    BY <2>1, ListIsSequence
<1> HIDE DEF word
<1>5. Occurs(m, p, <<Tag(w)>>) /\ Occurs(m, p + 1, word) /\ Len(Compact(n)) = 1 + w
  <2>1. p \in Nat
    OBVIOUS
  <2>2. /\ Len(<<Tag(w)>> \o word) = Len(<<Tag(w)>>) + Len(word)
        /\ Occurs(m, p, <<Tag(w)>> \o word)
             <=> Occurs(m, p, <<Tag(w)>>) /\ Occurs(m, p + Len(<<Tag(w)>>), word)
    BY <1>3, <1>4, <2>1, OccursBoth, Zenon
  <2> QED
    BY <1>2, <1>3, <1>4, <2>2, Zenon
<1>6. p \in 1..Len(m) /\ m[p] = Tag(w)
  BY <1>5, OccursOne
<1>7. p + w \in 1..Len(m)
  <2>1. w \in 1..Len(word) /\ (p + 1) - 1 + w = p + w
    BY <1>3
  <2> QED
    BY <1>5, <2>1 DEF Occurs
<1>8. Number(m, p + 1, w) = n
  <2>0. PICK q \in Nat : q = p + 1
    OBVIOUS
  <2>1. IsWritten(m, q, n, w, Byte)
    BY <1>3, <1>5, <2>0 DEF Occurs, IsWritten, word
  <2>2. Byte \in Nat \ {0}
    BY ByteType
  <2>3. NumberAt(m, q, w, Byte) = n
    BY <1>1, <1>3, <2>1, <2>2, NumberReadBack
  <2> QED
    BY <2>0, <2>3 DEF Number
<1> QED
  BY <1>1, <1>5, <1>6, <1>7, <1>8

\* A size that was written is read back.
LEMMA ReadBack ==
  ASSUME NEW m, NEW p \in Nat \ {0}, NEW n \in Nat, n < Max64, Len(m) \in Nat,
         Occurs(m, p, Compact(n))
  PROVE  ReadCompact(m, p) = Got(n, p + Len(Compact(n)))
<1>1. CASE n <= Widest
  <2>1. Compact(n) = <<n>>
    BY <1>1, FormOfOne
  <2>2. p \in 1..Len(m) /\ m[p] = n /\ Len(<<n>>) = 1
    BY <2>1, OccursOne
  <2>3. ~(p > Len(m))
    BY <2>2
  <2> QED
    BY <1>1, <2>1, <2>2, <2>3 DEF ReadCompact, Got
<1>2. CASE ~(n <= Widest)
  <2>0. n > Widest
    BY <1>2, TagType DEF Octets
  <2>1. PICK w \in {2, 4, 8} :
           /\ p \in 1..Len(m) /\ m[p] = Tag(w) /\ p + w \in 1..Len(m)
           /\ Number(m, p + 1, w) = n /\ Least(w) <= n /\ Len(Compact(n)) = 1 + w
    BY <2>0, WordBack
  <2>2. ~(p > Len(m)) /\ ~(m[p] <= Widest) /\ (CHOOSE v \in {2, 4, 8} : Tag(v) = m[p]) = w
    BY <2>1, TagType DEF Octets
  <2>3. ~(p + w > Len(m)) /\ ~(Number(m, p + 1, w) < Least(w))
    BY <2>1, TagType
  <2>4. ReadCompact(m, p) = [n |-> Number(m, p + 1, w), next |-> p + w + 1]
    BY <2>2, <2>3 DEF ReadCompact
  <2>5. w \in Nat /\ p + w + 1 = p + (1 + w)
    BY TagType
  <2> QED
    BY <2>1, <2>4, <2>5 DEF Got
<1> QED
  BY <1>1, <1>2

\* The errors of the decoders.
Errs == {Err("truncated"), Err("compactSize"), Err("panic"), Err("padding"), Err("duplicate")}

\* A size that is read was written in the narrowest form.
LEMMA ReadExact ==
  ASSUME NEW m \in Seq(Octets), NEW p \in Nat \ {0}, ReadCompact(m, p) \notin Errs
  PROVE  \E n \in Nat : /\ n < Max64
                        /\ ReadCompact(m, p) = Got(n, p + Len(Compact(n)))
                        /\ Occurs(m, p, Compact(n))
<1>0. Len(m) \in Nat /\ \A i \in 1..Len(m) : m[i] \in Octets
  BY LenProperties, ElementOfSeq
<1>1. p \in 1..Len(m) /\ ~(p > Len(m))
  <2>1. ~(p > Len(m))
    BY DEF ReadCompact, Errs
  <2> QED
    BY <1>0, <2>1
<1>2. CASE m[p] <= Widest
  <2>1. ReadCompact(m, p) = Got(m[p], p + 1)
    BY <1>1, <1>2 DEF ReadCompact, Got
  <2>2. m[p] \in Nat /\ m[p] < Max64
    BY <1>0, <1>1, ByteType DEF Octets
  <2>3. Compact(m[p]) = <<m[p]>> /\ Len(<<m[p]>>) = 1
    BY <1>2, <2>2, FormOfOne
  <2>4. Occurs(m, p, <<m[p]>>)
    BY <1>1, OccursOne
  <2> QED
    BY <2>1, <2>2, <2>3, <2>4
<1>3. CASE ~(m[p] <= Widest)
  <2>1. PICK w \in {2, 4, 8} : m[p] = Tag(w)
    <3>1. m[p] \in Octets /\ m[p] > Widest
      BY <1>0, <1>1, <1>3, TagType DEF Octets
    <3> QED
      BY <3>1, TagType
  <2> DEFINE n == Number(m, p + 1, w)
  <2>2. (CHOOSE v \in {2, 4, 8} : Tag(v) = m[p]) = w /\ w \in Nat
    BY <2>1, TagType
  <2>3. ReadCompact(m, p) =
          IF p + w > Len(m) THEN Err("truncated")
          ELSE IF n < Least(w) THEN Err("compactSize")
          ELSE [n |-> n, next |-> p + w + 1]
    BY <1>1, <1>3, <2>2 DEF ReadCompact
  <2>4. ~(p + w > Len(m)) /\ ~(n < Least(w)) /\ ReadCompact(m, p) = Got(n, p + (1 + w))
    <3>1. p + w + 1 = p + (1 + w)
      BY <2>2
    <3> HIDE DEF n
    <3> QED
      BY <2>3, <3>1 DEF Errs, Got
  <2>5. AreBytes(m, p + 1, w, Byte)
    <3>1. \A i \in p + 1..(p + 1) + w - 1 : i \in 1..Len(m)
      BY <1>0, <1>1, <2>2, <2>4
    <3> QED
      BY <1>0, <3>1 DEF AreBytes, Octets
  <2>6. /\ n \in Nat /\ Shifted(n, w, Byte) = 0
        /\ \A k \in 1..w : LittleEndian(n, w, Byte)[k] = m[(p + 1) - 1 + k]
    BY <2>2, <2>5, ByteType, NumberWriteBack DEF Number
  <2> HIDE DEF n
  <2>7. n < Max64
    <3>1. Shifted(n, 8, Byte) = 0
      <4>1. w <= 8
        OBVIOUS
      <4> QED
        BY <2>2, <2>6, <4>1, ByteType, WiderFits
    <3> QED
      BY <2>6, <3>1, ShiftedWords
  <2> DEFINE word == LittleEndian(n, w, Byte)
  <2>0. p \in Nat /\ Least(w) <= n
    <3>1. Least(w) \in Nat
      BY TagType
    <3> QED
      BY <2>4, <2>6, <3>1
  <2>8. Compact(n) = <<Tag(w)>> \o word
    BY <2>0, <2>6, FormOfWord
  <2>9. word \in Seq(Octets) /\ Len(word) = w
    BY <2>2, <2>6, WordTyped
  <2>10. <<Tag(w)>> \in Seq(Octets) /\ Len(<<Tag(w)>>) = 1
    <3>1. <<Tag(w)>> \in [1..1 -> Octets]
      BY TagType
    <3> QED
      BY <3>1, ListIsSequence
  <2>11. Occurs(m, p + 1, word)
    <3> SUFFICES ASSUME NEW k \in 1..w
                 PROVE  (p + 1) - 1 + k \in 1..Len(m) /\ m[(p + 1) - 1 + k] = word[k]
      BY <2>9 DEF Occurs
    <3> QED
      BY <1>0, <1>1, <2>2, <2>4, <2>6
  <2> HIDE DEF word
  <2>12. Occurs(m, p, <<Tag(w)>>)
    BY <1>1, <2>1, OccursOne
  <2>13. Occurs(m, p, Compact(n)) /\ Len(Compact(n)) = 1 + w
    <3>1. /\ Len(<<Tag(w)>> \o word) = Len(<<Tag(w)>>) + Len(word)
          /\ Occurs(m, p, <<Tag(w)>> \o word)
               <=> Occurs(m, p, <<Tag(w)>>) /\ Occurs(m, p + Len(<<Tag(w)>>), word)
      BY <2>0, <2>9, <2>10, OccursBoth, Zenon
    <3> QED
      BY <2>8, <2>9, <2>10, <2>11, <2>12, <3>1, Zenon
  <2> QED
    BY <2>4, <2>6, <2>7, <2>13
<1> QED
  BY <1>2, <1>3

-----------------------------------------------------------------------------
(* A turn of the decoders. *)

\* The parts read so far, and the states of a decoding: it runs, has failed
\* or has ended.
PartsRead == [type : Nat, version : Nat, value : Seq(Octets)]

Running(next, read) == [next |-> next, parts |-> read]

Turns ==
  Errs \cup {Ok(read) : read \in Seq(PartsRead)}
       \cup {Running(p, read) : p \in Nat \ {0}, read \in Seq(PartsRead)}

\* An error has failed and ended,
LEMMA ErrFails == ASSUME NEW r \in Errs PROVE Failed(r) /\ Ended(r) /\ ~("ok" \in DOMAIN r)
  BY DEF Errs, Err, Failed, Ended

\* a result has ended without failing,
LEMMA OkEnds == ASSUME NEW read PROVE ~Failed(Ok(read)) /\ Ended(Ok(read)) /\ Ok(read).ok = read
                                      /\ "ok" \in DOMAIN Ok(read)
  BY DEF Ok, Failed, Ended

\* a decoding that runs has done neither,
LEMMA RunningRuns ==
  ASSUME NEW p, NEW read
  PROVE  LET at == Running(p, read)
         IN ~Failed(at) /\ ~Ended(at) /\ at.next = p /\ at.parts = read /\ ~("ok" \in DOMAIN at)
  BY DEF Running, Failed, Ended

\* and reading a size may work.
LEMMA GotWorks ==
  ASSUME NEW n, NEW p PROVE ~Failed(Got(n, p)) /\ Got(n, p).n = n /\ Got(n, p).next = p
  BY DEF Got, Failed

\* Reading a size fails, or there is a size and it stands there in full.
LEMMA ReadKinds ==
  ASSUME NEW m \in Seq(Octets), NEW p \in Nat \ {0}
  PROVE  LET r == ReadCompact(m, p) IN
         \/ r \in Errs /\ Failed(r)
         \/ /\ ~Failed(r)
            /\ r.n \in Nat /\ r.n < Max64 /\ Compact(r.n) \in Seq(Octets)
            /\ r.next \in Nat \ {0} /\ r.next > p /\ r.next = p + Len(Compact(r.n))
            /\ Occurs(m, p, Compact(r.n))
<1> DEFINE r == ReadCompact(m, p)
<1>1. CASE r \in Errs
  BY <1>1, ErrFails
<1>2. CASE r \notin Errs
  <2>1. PICK n \in Nat : /\ n < Max64
                         /\ r = Got(n, p + Len(Compact(n)))
                         /\ Occurs(m, p, Compact(n))
    BY <1>2, ReadExact
  <2>2. Compact(n) \in Seq(Octets) /\ Len(Compact(n)) \in 1..9
    BY <2>1, CompactTyped
  <2>3. p + Len(Compact(n)) \in Nat \ {0} /\ p + Len(Compact(n)) > p
    <3>1. PICK k \in 1..9 : k = Len(Compact(n))
      BY <2>2
    <3>2. p + k \in Nat \ {0} /\ p + k > p
      OBVIOUS
    <3> QED
      BY <3>1, <3>2
  <2> HIDE DEF r
  <2>4. ~Failed(r) /\ r.n = n /\ r.next = p + Len(Compact(n))
    BY <2>1, GotWorks
  <2> QED
    BY <2>1, <2>2, <2>3, <2>4 DEF r
<1> QED
  BY <1>1, <1>2

\* Reading a value fails, or the value stands there in full.
LEMMA ValueKinds ==
  ASSUME NEW m \in Seq(Octets), NEW p \in Nat \ {0}, NEW n \in Nat
  PROVE  LET r == ReadValue(m, p, n) IN
         \/ r \in Errs /\ Failed(r)
         \/ /\ ~Failed(r)
            /\ r.value \in Seq(Octets) /\ Len(r.value) = n /\ r.next = p + n
            /\ Occurs(m, p, r.value) /\ p + n <= Len(m) + 1
<1> DEFINE r == ReadValue(m, p, n)
           s == SubSeq(m, p, p + n - 1)
<1>0. Len(m) \in Nat /\ \A i \in 1..Len(m) : m[i] \in Octets
  BY LenProperties, ElementOfSeq
<1>1. CASE p - 1 + n >= Max64
  <2>1. r = Err("panic")
    BY <1>1 DEF ReadValue
  <2> QED
    BY <2>1, ErrFails DEF Errs
<1>2. CASE ~(p - 1 + n >= Max64) /\ p - 1 + n > Len(m)
  <2>1. r = Err("truncated")
    BY <1>2 DEF ReadValue
  <2> QED
    BY <2>1, ErrFails DEF Errs
<1>3. CASE ~(p - 1 + n >= Max64) /\ ~(p - 1 + n > Len(m))
  <2>1. r = [value |-> s, next |-> p + n]
    BY <1>3 DEF ReadValue
  <2>2. ~Failed(r) /\ r.value = s /\ r.next = p + n
    <3> HIDE DEF s, r
    <3> QED
      BY <2>1 DEF Failed
  <2>3. \A i \in p..p + n - 1 : i \in 1..Len(m) /\ m[i] \in Octets
    BY <1>0, <1>3
  <2>4. p \in Int /\ p + n - 1 \in Int
    OBVIOUS
  <2>5. /\ s \in Seq(Octets)
        /\ Len(s) = IF p <= p + n - 1 THEN (p + n - 1) - p + 1 ELSE 0
        /\ \A i \in 1..(p + n - 1) - p + 1 : s[i] = m[p + i - 1]
    <3>1. PICK last \in Int : last = p + n - 1
      BY <2>4
    <3>2. \A i \in p..last : m[i] \in Octets
      BY <2>3, <3>1
    <3>3. /\ SubSeq(m, p, last) \in Seq(Octets)
          /\ Len(SubSeq(m, p, last)) = IF p <= last THEN last - p + 1 ELSE 0
          /\ \A i \in 1..last - p + 1 : SubSeq(m, p, last)[i] = m[p + i - 1]
      BY <2>4, <3>2, SubSeqProperties
    <3> QED
      BY <3>1, <3>3
  <2> HIDE DEF s, r
  <2>6. Len(s) = n /\ \A i \in 1..n : s[i] = m[p + i - 1]
    BY <2>5
  <2>7. Occurs(m, p, s)
    <3> SUFFICES ASSUME NEW k \in 1..n PROVE p - 1 + k \in 1..Len(m) /\ m[p - 1 + k] = s[k]
      BY <2>6 DEF Occurs
    <3>1. p - 1 + k \in p..p + n - 1 /\ p + k - 1 = p - 1 + k
      OBVIOUS
    <3> QED
      BY <2>3, <2>6, <3>1
  <2> QED
    BY <1>0, <1>3, <2>2, <2>5, <2>6, <2>7 DEF r
<1> QED
  BY <1>1, <1>2, <1>3

\* The rest of a memo is padding when its bytes are zero.
LEMMA RestIsZero ==
  ASSUME NEW m \in Seq(Octets), NEW p \in Nat \ {0}
  PROVE  Zeros(From(m, p)) <=> \A i \in p..Len(m) : m[i] = 0
<1>0. Len(m) \in Nat /\ \A i \in 1..Len(m) : m[i] \in Octets
  BY LenProperties, ElementOfSeq
<1> DEFINE s == SubSeq(m, p, Len(m))
<1>1. /\ s \in Seq(Octets)
      /\ Len(s) = IF p <= Len(m) THEN Len(m) - p + 1 ELSE 0
      /\ \A i \in 1..Len(m) - p + 1 : s[i] = m[p + i - 1]
  <2>1. p \in Int /\ Len(m) \in Int /\ \A i \in p..Len(m) : m[i] \in Octets
    BY <1>0
  <2> QED
    BY <2>1, SubSeqProperties
<1> HIDE DEF s
<1>2. DOMAIN s = 1..Len(s)
  BY <1>1, LenProperties
<1>3. Zeros(s) <=> \A i \in p..Len(m) : m[i] = 0
  <2>1. ASSUME Zeros(s), NEW i \in p..Len(m) PROVE m[i] = 0
    <3>1. i - p + 1 \in 1..Len(s) /\ p + (i - p + 1) - 1 = i /\ i - p + 1 \in 1..Len(m) - p + 1
      BY <1>0, <1>1
    <3> QED
      BY <1>1, <1>2, <2>1, <3>1 DEF Zeros
  <2>2. ASSUME \A i \in p..Len(m) : m[i] = 0 PROVE Zeros(s)
    <3> SUFFICES ASSUME NEW i \in 1..Len(s) PROVE s[i] = 0
      BY <1>2 DEF Zeros
    <3>1. p + i - 1 \in p..Len(m) /\ i \in 1..Len(m) - p + 1
      BY <1>0, <1>1
    <3> QED
      BY <1>1, <2>2, <3>1
  <2> QED
    BY <2>1, <2>2
<1> QED
  BY <1>3 DEF s, From

\* Integers cut to 16 and 8 bits are numbers.
LEMMA CutTyped == ASSUME NEW n \in Nat PROVE AsU16(n) \in Nat /\ AsU8(n) \in Nat
<1>1. n % Max16 \in Nat /\ n % Byte \in Nat
  BY ByteType
<1> QED
  BY <1>1 DEF AsU16, AsU8

\* The part that a turn reads from type, version and value.
PartOf(type, version, value) ==
  [type |-> AsU16(type), version |-> AsU8(version), value |-> value]

\* The bytes of such a part.
Layout(type, version, value) ==
  Compact(type) \o Compact(version) \o Compact(Len(value)) \o value

\* It is a part.
LEMMA PartOfTyped ==
  ASSUME NEW type \in Nat, NEW version \in Nat, NEW value \in Seq(Octets)
  PROVE  PartOf(type, version, value) \in PartsRead
  BY CutTyped DEF PartOf, PartsRead

\* A decoding has failed, ended or runs.
LEMMA TurnsCases ==
  ASSUME NEW at \in Turns
  PROVE  \/ at \in Errs
         \/ \E read \in Seq(PartsRead) : at = Ok(read)
         \/ \E p \in Nat \ {0}, read \in Seq(PartsRead) : at = Running(p, read)
  BY DEF Turns

\* The next turn after Running(p, read).
LEMMA ServerTurnCases ==
  ASSUME NEW m \in Seq(Octets), NEW p \in Nat \ {0}, NEW read \in Seq(PartsRead)
  PROVE  LET next == ServerTurn(m, Running(p, read)) IN
         \/ next \in Errs
         \/ /\ next = Ok(read)
            /\ Occurs(m, p, Compact(0)) /\ \A i \in p + Len(Compact(0))..Len(m) : m[i] = 0
         \/ \E type \in Nat \ {0}, version \in Nat, value \in Seq(Octets) :
              /\ type < Max64 /\ version < Max64 /\ Len(value) < Max64
              /\ Occurs(m, p, Layout(type, version, value))
              /\ Len(Layout(type, version, value)) \in Nat
              /\ next = Running(p + Len(Layout(type, version, value)),
                                Append(read, PartOf(type, version, value)))
              /\ p + 3 <= p + Len(Layout(type, version, value))
              /\ p + Len(Layout(type, version, value)) <= Len(m) + 1
<1> DEFINE at == Running(p, read)
           next == ServerTurn(m, at)
           type == ReadCompact(m, p)
           version == ReadCompact(m, type.next)
           length == ReadCompact(m, version.next)
           data == ReadValue(m, length.next, length.n)
<1>1. ~Ended(at) /\ at.next = p /\ at.parts = read
  BY RunningRuns
<1>2. CASE p > Len(m)
  BY <1>1, <1>2 DEF ServerTurn, Errs
<1>3. CASE ~(p > Len(m))
  <2>1. next = IF Failed(type) THEN type
          ELSE IF type.n = 0
          THEN IF Zeros(From(m, type.next)) THEN Ok(read) ELSE Err("padding")
          ELSE IF AsU16(type.n) \in TypesOf(read) THEN Err("duplicate")
          ELSE IF Failed(version) THEN version
          ELSE IF Failed(length) THEN length
          ELSE IF Failed(data) THEN data
          ELSE Running(data.next, Append(read, PartOf(type.n, version.n, data.value)))
    <3> HIDE DEF at, type
    <3> QED
      BY <1>1, <1>3 DEF ServerTurn, Running, PartOf, type
  <2>2. \/ type \in Errs /\ Failed(type)
        \/ /\ ~Failed(type)
           /\ type.n \in Nat /\ type.n < Max64 /\ Compact(type.n) \in Seq(Octets)
           /\ type.next \in Nat \ {0} /\ type.next > p /\ type.next = p + Len(Compact(type.n))
           /\ Occurs(m, p, Compact(type.n))
    BY ReadKinds
  <2> HIDE DEF type
  <2>3. CASE Failed(type)
    <3> HIDE DEF next, version, length, data
    <3> QED
      BY <2>1, <2>2, <2>3 DEF next
  <2>4. CASE ~Failed(type) /\ type.n = 0
    <3>1. next \in {Ok(read), Err("padding")} /\ (next = Ok(read) => Zeros(From(m, type.next)))
      <4>1. Ok(read) # Err("padding")
        BY DEF Ok, Err
      <4> HIDE DEF next, version, length, data
      <4> QED
        BY <2>1, <2>4, <4>1
    <3>2. Zeros(From(m, type.next)) => \A i \in type.next..Len(m) : m[i] = 0
      BY <2>2, <2>4, RestIsZero
    <3> HIDE DEF next
    <3> QED
      BY <2>2, <2>4, <3>1, <3>2 DEF Errs, next
  <2>5. CASE ~Failed(type) /\ type.n # 0
    <3>1. \/ version \in Errs /\ Failed(version)
          \/ /\ ~Failed(version)
             /\ version.n \in Nat /\ version.n < Max64 /\ Compact(version.n) \in Seq(Octets)
             /\ version.next \in Nat \ {0} /\ version.next > type.next
             /\ version.next = type.next + Len(Compact(version.n))
             /\ Occurs(m, type.next, Compact(version.n))
      BY <2>2, <2>5, ReadKinds
    <3> HIDE DEF version
    <3>2. \/ Failed(version)
          \/ length \in Errs /\ Failed(length)
          \/ /\ ~Failed(length)
             /\ length.n \in Nat /\ length.n < Max64 /\ Compact(length.n) \in Seq(Octets)
             /\ length.next \in Nat \ {0} /\ length.next > version.next
             /\ length.next = version.next + Len(Compact(length.n))
             /\ Occurs(m, version.next, Compact(length.n))
      BY <3>1, ReadKinds
    <3> HIDE DEF length
    <3>3. \/ Failed(version) \/ Failed(length)
          \/ data \in Errs /\ Failed(data)
          \/ /\ ~Failed(data)
             /\ data.value \in Seq(Octets) /\ Len(data.value) = length.n
             /\ data.next = length.next + length.n
             /\ Occurs(m, length.next, data.value) /\ length.next + length.n <= Len(m) + 1
      BY <3>1, <3>2, ValueKinds
    <3> HIDE DEF data, next
    <3>4. CASE Failed(version) \/ Failed(length) \/ Failed(data)
      <4>1. next \in Errs \cup {Err("duplicate")}
        BY <2>1, <2>5, <3>1, <3>2, <3>3, <3>4
      <4> QED
        BY <4>1 DEF Errs, next
    <3>5. CASE AsU16(type.n) \in TypesOf(read)
      <4>1. next = Err("duplicate")
        BY <2>1, <2>5, <3>5
      <4> QED
        BY <4>1 DEF Errs, next
    <3>6. CASE ~(Failed(version) \/ Failed(length) \/ Failed(data)) /\ AsU16(type.n) \notin TypesOf(read)
      <4> DEFINE t == type.n
                 v == version.n
                 value == data.value
                 a == Compact(t)
                 b == Compact(v)
                 c == Compact(Len(value))
      <4>1. next = Running(data.next, Append(read, PartOf(t, v, value)))
        BY <2>1, <2>5, <3>6
      <4>2. /\ a \in Seq(Octets) /\ b \in Seq(Octets) /\ c \in Seq(Octets) /\ value \in Seq(Octets)
            /\ t \in Nat \ {0} /\ t < Max64 /\ v \in Nat /\ v < Max64 /\ Len(value) < Max64
        BY <2>2, <2>5, <3>1, <3>2, <3>3, <3>6
      <4>3. /\ Len(a) \in 1..9 /\ Len(b) \in 1..9 /\ Len(c) \in 1..9
        BY <2>2, <2>5, <3>1, <3>2, <3>3, <3>6, CompactTyped
      <4>4. /\ type.next = p + Len(a) /\ version.next = type.next + Len(b)
            /\ length.next = version.next + Len(c) /\ data.next = length.next + Len(value)
            /\ Occurs(m, p, a) /\ Occurs(m, p + Len(a), b)
            /\ Occurs(m, p + Len(a) + Len(b), c) /\ Occurs(m, p + Len(a) + Len(b) + Len(c), value)
            /\ data.next <= Len(m) + 1
        BY <2>2, <2>5, <3>1, <3>2, <3>3, <3>6
      <4>5. Layout(t, v, value) = a \o b \o c \o value
        BY DEF Layout
      <4>6. Len(value) \in Nat
        BY <4>2, LenProperties
      <4> HIDE DEF t, v, value, a, b, c
      <4>7. /\ Occurs(m, p, a \o b) /\ Len(a \o b) = Len(a) + Len(b) /\ a \o b \in Seq(Octets)
        BY <4>2, <4>4, OccursBoth, ConcatProperties
      <4>8. p + Len(a \o b) = p + Len(a) + Len(b)
        BY <4>3, <4>7
      <4>9. /\ Occurs(m, p, (a \o b) \o c) /\ Len((a \o b) \o c) = Len(a \o b) + Len(c)
            /\ (a \o b) \o c \in Seq(Octets)
        BY <4>2, <4>4, <4>7, <4>8, OccursBoth, ConcatProperties
      <4>10. p + Len((a \o b) \o c) = p + Len(a) + Len(b) + Len(c)
        BY <4>3, <4>7, <4>9
      <4>11. /\ Occurs(m, p, ((a \o b) \o c) \o value)
             /\ Len(((a \o b) \o c) \o value) = Len((a \o b) \o c) + Len(value)
        BY <4>2, <4>4, <4>9, <4>10, OccursBoth
      <4>12. /\ Occurs(m, p, Layout(t, v, value)) /\ Len(Layout(t, v, value)) \in Nat
             /\ data.next = p + Len(Layout(t, v, value)) /\ Len(Layout(t, v, value)) >= 3
        <5>1. Len(Layout(t, v, value)) = Len(a) + Len(b) + Len(c) + Len(value)
              /\ Occurs(m, p, Layout(t, v, value))
          BY <4>5, <4>7, <4>9, <4>11, Zenon
        <5>2. /\ Len(a) + Len(b) + Len(c) + Len(value) \in Nat
              /\ data.next = p + (Len(a) + Len(b) + Len(c) + Len(value))
              /\ Len(a) + Len(b) + Len(c) + Len(value) >= 3
          <6>1. ASSUME NEW i \in 1..9, NEW j \in 1..9, NEW k \in 1..9, NEW l \in Nat
                PROVE  i + j + k + l \in Nat /\ i + j + k + l >= 3
                       /\ p + i + j + k + l = p + (i + j + k + l)
            OBVIOUS
          <6>2. data.next = p + Len(a) + Len(b) + Len(c) + Len(value)
            BY <4>4
          <6>3. PICK i \in 1..9, j \in 1..9, k \in 1..9, l \in Nat :
                  i = Len(a) /\ j = Len(b) /\ k = Len(c) /\ l = Len(value)
            BY <4>3, <4>6
          <6>4. i + j + k + l \in Nat /\ i + j + k + l >= 3
                /\ p + i + j + k + l = p + (i + j + k + l)
            BY <6>1
          <6> QED
            BY <6>2, <6>3, <6>4, Zenon
        <5> QED
          BY <5>1, <5>2
      <4>13. p + 3 <= p + Len(Layout(t, v, value))
        BY <4>12
      <4> QED
        BY <4>1, <4>2, <4>4, <4>12, <4>13 DEF next
    <3> QED
      BY <3>4, <3>5, <3>6
  <2> QED
    BY <2>3, <2>4, <2>5
<1> QED
  BY <1>2, <1>3

\* Where a running decoding is and what it has read are its own.
LEMMA RunningSame ==
  ASSUME NEW p, NEW read, NEW q, NEW r, Running(p, read) = Running(q, r)
  PROVE  p = q /\ read = r
<1>1. Running(p, read).next = p /\ Running(p, read).parts = read
      /\ Running(q, r).next = q /\ Running(q, r).parts = r
  BY DEF Running
<1> QED
  BY <1>1

\* A position and the parts read are such a state.
LEMMA RunningTyped ==
  ASSUME NEW p \in Nat \ {0}, NEW read \in Seq(PartsRead) PROVE Running(p, read) \in Turns
  BY DEF Turns

\* A turn of the server's decoder leads to such a state.
LEMMA ServerTurnTyped ==
  ASSUME NEW m \in Seq(Octets), NEW at \in Turns
  PROVE  ServerTurn(m, at) \in Turns
<1> DEFINE next == ServerTurn(m, at)
<1>1. CASE Ended(at)
  BY <1>1 DEF ServerTurn
<1>2. ASSUME NEW p \in Nat \ {0}, NEW read \in Seq(PartsRead), at = Running(p, read)
      PROVE  next \in Turns
  <2>1. \/ next \in Errs
        \/ next = Ok(read)
        \/ \E type \in Nat \ {0}, version \in Nat, value \in Seq(Octets) :
             /\ Len(Layout(type, version, value)) \in Nat
             /\ next = Running(p + Len(Layout(type, version, value)),
                               Append(read, PartOf(type, version, value)))
    BY <1>2, ServerTurnCases
  <2> HIDE DEF next
  <2>2. ASSUME NEW type \in Nat \ {0}, NEW version \in Nat, NEW value \in Seq(Octets),
               Len(Layout(type, version, value)) \in Nat,
               next = Running(p + Len(Layout(type, version, value)),
                              Append(read, PartOf(type, version, value)))
        PROVE  next \in Turns
    <3>1. Append(read, PartOf(type, version, value)) \in Seq(PartsRead)
      BY PartOfTyped, AppendProperties
    <3>2. p + Len(Layout(type, version, value)) \in Nat \ {0}
      <4>1. PICK k \in Nat : k = Len(Layout(type, version, value))
        BY <2>2
      <4>2. p + k \in Nat \ {0}
        OBVIOUS
      <4> QED
        BY <4>1, <4>2
    <3> QED
      BY <2>2, <3>1, <3>2, RunningTyped
  <2> QED
    BY <2>1, <2>2 DEF Turns
<1> QED
  BY <1>1, <1>2, TurnsCases, ErrFails, OkEnds DEF Turns

\* The two decoders take the same turns.
LEMMA TurnsAlike ==
  ASSUME NEW m \in Seq(Octets), NEW at \in Turns
  PROVE  LibraryTurn(m, at) = ServerTurn(m, at)
<1>1. CASE Ended(at)
  BY <1>1 DEF LibraryTurn, ServerTurn
<1>2. CASE ~Ended(at)
  <2>1. PICK p \in Nat \ {0}, read \in Seq(PartsRead) : at = Running(p, read)
    BY <1>2, TurnsCases, ErrFails, OkEnds
  <2>2. at.next = p /\ at.parts = read
    BY <2>1, RunningRuns
  <2> DEFINE field(q) == IF q > Len(m) THEN Err("truncated") ELSE LibraryReadCompact(m, q)
             type == ReadCompact(m, p)
             version == ReadCompact(m, type.next)
             length == ReadCompact(m, version.next)
             data == ReadValue(m, length.next, length.n)
             seen == \E i \in DOMAIN read : read[i].type = AsU16(type.n)
             part == [next |-> data.next,
                      parts |-> Append(read, [type |-> AsU16(type.n), version |-> AsU8(version.n),
                                              value |-> data.value])]
  <2>3. ASSUME NEW q PROVE field(q) = ReadCompact(m, q)
    BY DEF LibraryReadCompact, ReadCompact
  <2>4. seen <=> AsU16(type.n) \in TypesOf(read)
    BY DEF TypesOf
  <2>5. ~Failed(type) => (Zeros(From(m, type.next)) <=> ~(\E i \in type.next..Len(m) : m[i] # 0))
    <3>1. ~Failed(type) => type.next \in Nat \ {0}
      BY ReadKinds
    <3> HIDE DEF type
    <3> QED
      BY <3>1, RestIsZero
  <2>6. ServerTurn(m, at) =
          IF p > Len(m) THEN Err("truncated")
          ELSE IF Failed(type) THEN type
          ELSE IF type.n = 0
          THEN IF Zeros(From(m, type.next)) THEN Ok(read) ELSE Err("padding")
          ELSE IF seen THEN Err("duplicate")
          ELSE IF Failed(version) THEN version
          ELSE IF Failed(length) THEN length
          ELSE IF Failed(data) THEN data ELSE part
    BY <1>2, <2>2, <2>4, Zenon DEF ServerTurn
  <2>7. p > Len(m) => Failed(type) /\ type = Err("truncated")
    BY DEF ReadCompact, Err, Failed
  <2>8. LibraryTurn(m, at) =
          CASE Ended(at) -> at
            [] ~Ended(at) /\ Failed(type) -> type
            [] ~Ended(at) /\ ~Failed(type) /\ type.n = 0 ->
                 IF \E i \in type.next .. Len(m) : m[i] # 0 THEN Err("padding") ELSE Ok(read)
            [] OTHER ->
                 CASE seen -> Err("duplicate")
                   [] ~seen /\ Failed(version) -> version
                   [] OTHER ->
                        IF Failed(length) THEN length ELSE IF Failed(data) THEN data ELSE part
    <3> HIDE DEF field
    <3>1. LibraryTurn(m, at) =
          CASE Ended(at) -> at
            [] ~Ended(at) /\ Failed(field(at.next)) -> field(at.next)
            [] ~Ended(at) /\ ~Failed(field(at.next)) /\ field(at.next).n = 0 ->
                 IF \E i \in field(at.next).next .. Len(m) : m[i] # 0 THEN Err("padding") ELSE Ok(at.parts)
            [] OTHER ->
                 CASE \E i \in DOMAIN at.parts : at.parts[i].type = AsU16(field(at.next).n) -> Err("duplicate")
                   [] ~(\E i \in DOMAIN at.parts : at.parts[i].type = AsU16(field(at.next).n))
                        /\ Failed(field(field(at.next).next)) -> field(field(at.next).next)
                   [] OTHER ->
                        LET l == field(field(field(at.next).next).next)
                            d == ReadValue(m, l.next, l.n) IN
                        IF Failed(l) THEN l ELSE IF Failed(d) THEN d
                        ELSE [next |-> d.next,
                              parts |-> Append(at.parts,
                                     [type |-> AsU16(field(at.next).n),
                                      version |-> AsU8(field(field(at.next).next).n),
                                      value |-> d.value])]
      BY DEF LibraryTurn, field
    <3>2. field(at.next) = type /\ field(type.next) = version /\ field(version.next) = length
      BY <2>2, <2>3
    <3> QED
      BY <2>2, <3>1, <3>2, Zenon
  <2> HIDE DEF field, type, version, length, data, seen, part
  <2> QED
    BY <1>2, <2>5, <2>6, <2>7, <2>8
<1> QED
  BY <1>1, <1>2

-----------------------------------------------------------------------------
(* The loops of the two decoders: they agree, and they end. *)

\* f holds the states of a decoding after each turn.
IsDecoding(f, m) == 
  /\ f \in [0..Len(m) -> Turns]
  /\ f[0] = Unread /\ \A i \in 1..Len(m) : f[i] = ServerTurn(m, f[i - 1])

\* Before the first turn nothing is read.
LEMMA UnreadTyped == Unread \in Turns /\ Unread = Running(2, <<>>)
<1>1. <<>> \in Seq(PartsRead) /\ Unread = Running(2, <<>>) /\ 2 \in Nat \ {0}
  BY EmptySeq DEF Unread, Running
<1> QED
  BY <1>1, RunningTyped

\* A decoding of every memo exists,
LEMMA DecodingEnds ==
  ASSUME NEW m \in Seq(Octets)
  PROVE  \E f : IsDecoding(f, m)
<1> DEFINE step == [i \in 1..Len(m) |-> [at \in Turns |-> ServerTurn(m, at)]]
<1>1. Len(m) \in Nat
  BY LenProperties
<1>2. step \in [1..Len(m) -> [Turns -> Turns]]
  BY ServerTurnTyped
<1>3. \A i \in 1..Len(m) : \A at \in Turns : step[i][at] = ServerTurn(m, at)
  OBVIOUS
<1> HIDE DEF step
<1>4. PICK f : IsLoop(f, Turns, Unread, Len(m), step)
  BY <1>1, <1>2, UnreadTyped, LoopDefined
<1>5. f \in [0..Len(m) -> Turns] /\ f[0] = Unread /\ \A i \in 1..Len(m) : f[i] = step[i][f[i - 1]]
  BY <1>4 DEF IsLoop
<1>6. ASSUME NEW i \in 1..Len(m) PROVE f[i] = ServerTurn(m, f[i - 1])
  <2>1. i - 1 \in 0..Len(m)
    BY <1>1
  <2> QED
    BY <1>3, <1>5, <2>1
<1> QED
  BY <1>5, <1>6 DEF IsDecoding

\* and what satisfies the loop's equations is one.
LEMMA DecodingFound ==
  ASSUME NEW m \in Seq(Octets), NEW R, R = [n \in 0..Len(m) |-> R[n]], R[0] = Unread,
         \A i \in 1..Len(m) : R[i - 1] \in Turns => R[i] = ServerTurn(m, R[i - 1])
  PROVE  IsDecoding(R, m)
<1> DEFINE N == Len(m)
           T == {n \in 0..N : R[n] \in Turns}
<1>1. N \in Nat /\ 0 \in 0..N
  BY LenProperties
<1>2. 0 \in T
  BY <1>1, UnreadTyped
<1>3. ASSUME NEW n \in 0..N - 1, n \in T PROVE n + 1 \in T
  <2>1. n + 1 \in 1..N /\ n + 1 \in 0..N /\ (n + 1) - 1 = n
    BY <1>1
  <2>2. R[n + 1] = ServerTurn(m, R[n])
    BY <1>3, <2>1
  <2> QED
    BY <1>3, <2>1, <2>2, ServerTurnTyped
<1> HIDE DEF T
<1>4. 0..N \subseteq T
  BY <1>1, <1>2, <1>3, InductiveUpTo
<1>5. \A n \in 0..N : R[n] \in Turns
  BY <1>4 DEF T
<1>6. R \in [0..N -> Turns]
  BY <1>5
<1>7. \A i \in 1..N : i - 1 \in 0..N
  BY <1>1
<1> QED
  BY <1>5, <1>6, <1>7 DEF IsDecoding

\* The server's loop is a decoding,
LEMMA ServerDecoding == ASSUME NEW m \in Seq(Octets) PROVE IsDecoding(ServerTurns(m), m)
<1> DEFINE N == Len(m)
           Over(f) == [n \in 0..N |-> IF n = 0 THEN Unread ELSE ServerTurn(m, f[n - 1])]
           R == CHOOSE f : f = Over(f)
<1>1. N \in Nat
  BY LenProperties
<1>2. R = ServerTurns(m)
  BY DEF ServerTurns
<1>3. PICK f : IsDecoding(f, m)
  BY DecodingEnds
<1> HIDE DEF R, N
<1>4. f \in [0..N -> Turns] /\ f[0] = Unread /\ \A i \in 1..N : f[i] = ServerTurn(m, f[i - 1])
  BY <1>3 DEF IsDecoding, N
<1>5. f = Over(f)
  <2>1. \A n \in 0..N : f[n] = IF n = 0 THEN Unread ELSE ServerTurn(m, f[n - 1])
    BY <1>1, <1>4
  <2>2. f = [n \in 0..N |-> f[n]]
    BY <1>4
  <2> QED
    BY <2>1, <2>2
<1>6. R = Over(R)
  <2> HIDE DEF Over
  <2> QED
    BY <1>5, Zenon DEF R
<1>7. 0 \in 0..N /\ \A i \in 1..N : i \in 0..N /\ i # 0
  BY <1>1
<1>8. R[0] = Unread /\ \A i \in 1..N : R[i] = ServerTurn(m, R[i - 1])
  BY <1>6, <1>7
<1>9. R = [n \in 0..N |-> R[n]]
  BY <1>6 DEF Over
<1>10. IsDecoding(R, m)
  BY <1>8, <1>9, DecodingFound DEF N
<1> QED
  BY <1>2, <1>10

\* the library's loop is one too,
LEMMA LibraryDecoding == ASSUME NEW m \in Seq(Octets) PROVE IsDecoding(LibraryTurns(m), m)
<1> DEFINE N == Len(m)
           Over(f) == [n \in 0..N |-> IF n = 0 THEN Unread ELSE LibraryTurn(m, f[n - 1])]
           R == CHOOSE f : f = Over(f)
<1>1. N \in Nat
  BY LenProperties
<1>2. R = LibraryTurns(m)
  BY DEF LibraryTurns
<1>3. PICK f : IsDecoding(f, m)
  BY DecodingEnds
<1> HIDE DEF R, N
<1>4. f \in [0..N -> Turns] /\ f[0] = Unread /\ \A i \in 1..N : f[i] = ServerTurn(m, f[i - 1])
  BY <1>3 DEF IsDecoding, N
<1>5. f = Over(f)
  <2>1. \A n \in 0..N : n # 0 => n \in 1..N /\ n - 1 \in 0..N
    BY <1>1
  <2>2. \A n \in 0..N : f[n] = IF n = 0 THEN Unread ELSE LibraryTurn(m, f[n - 1])
    BY <1>4, <2>1, TurnsAlike
  <2>3. f = [n \in 0..N |-> f[n]]
    BY <1>4
  <2> QED
    BY <2>2, <2>3
<1>6. R = Over(R)
  <2> HIDE DEF Over
  <2> QED
    BY <1>5, Zenon DEF R
<1>7. 0 \in 0..N /\ \A i \in 1..N : i \in 0..N /\ i # 0
  BY <1>1
<1>8. R[0] = Unread /\ \A i \in 1..N : R[i] = LibraryTurn(m, R[i - 1])
  BY <1>6, <1>7
<1>9. \A i \in 1..N : R[i - 1] \in Turns => R[i] = ServerTurn(m, R[i - 1])
  BY <1>8, TurnsAlike
<1>10. R = [n \in 0..N |-> R[n]]
  BY <1>6 DEF Over
<1>11. IsDecoding(R, m)
  BY <1>8, <1>9, <1>10, DecodingFound DEF N
<1> QED
  BY <1>2, <1>11

\* and there is only one.
LEMMA OneDecoding ==
  ASSUME NEW m \in Seq(Octets), NEW f, NEW g, IsDecoding(f, m), IsDecoding(g, m)
  PROVE  f = g
<1> DEFINE N == Len(m)
           T == {n \in 0..N : f[n] = g[n]}
<1>1. N \in Nat /\ 0 \in 0..N
  BY LenProperties
<1>2. /\ f \in [0..N -> Turns] /\ f[0] = Unread /\ \A i \in 1..N : f[i] = ServerTurn(m, f[i - 1])
      /\ g \in [0..N -> Turns] /\ g[0] = Unread /\ \A i \in 1..N : g[i] = ServerTurn(m, g[i - 1])
  BY DEF IsDecoding
<1>3. 0 \in T
  BY <1>1, <1>2
<1>4. ASSUME NEW n \in 0..N - 1, n \in T PROVE n + 1 \in T
  <2>1. n + 1 \in 1..N /\ n + 1 \in 0..N /\ (n + 1) - 1 = n
    BY <1>1
  <2>2. f[n + 1] = ServerTurn(m, f[n]) /\ g[n + 1] = ServerTurn(m, g[n])
    BY <1>2, <2>1
  <2> QED
    BY <1>4, <2>1, <2>2
<1> HIDE DEF T
<1>5. 0..N \subseteq T
  BY <1>1, <1>3, <1>4, InductiveUpTo
<1>6. \A n \in 0..N : f[n] = g[n]
  BY <1>5 DEF T
<1> QED
  BY <1>2, <1>6

\* So the two decoders go through the same states.
LEMMA DecodingsAgree ==
  ASSUME NEW m \in Seq(Octets) PROVE LibraryTurns(m) = ServerTurns(m)
  BY ServerDecoding, LibraryDecoding, OneDecoding

\* A decoder that still runs after n turns has read n bytes.
LEMMA DecodingProgress ==
  ASSUME NEW m \in Seq(Octets), NEW n \in 0..Len(m), NEW p, NEW read,
         ServerTurns(m)[n] = Running(p, read)
  PROVE  p \in Nat /\ p >= n + 2 /\ (n > 0 => p <= Len(m) + 1)
<1> DEFINE f == ServerTurns(m)
           N == Len(m)
           T == {k \in 0..N : \A q : \A r : f[k] = Running(q, r) =>
                            q \in Nat /\ q >= k + 2 /\ (k > 0 => q <= N + 1)}
<1>1. N \in Nat /\ 0 \in 0..N
  BY LenProperties
<1>2. f \in [0..N -> Turns] /\ f[0] = Unread /\ \A i \in 1..N : f[i] = ServerTurn(m, f[i - 1])
  BY ServerDecoding DEF IsDecoding
<1> HIDE DEF f
<1>3. 0 \in T
  <2>1. ASSUME NEW q, NEW r, f[0] = Running(q, r) 
        PROVE  q \in Nat /\ q >= 0 + 2
    <3>1. q = 2
      <4>1. Running(q, r) = Running(2, <<>>)
        BY <1>2, <2>1, UnreadTyped
      <4> QED
        BY <4>1, RunningSame
    <3> QED
      BY <3>1
  <2> QED
    BY <1>1, <2>1
<1>4. ASSUME NEW k \in 0..N - 1, k \in T PROVE k + 1 \in T
  <2>1. k + 1 \in 1..N /\ k + 1 \in 0..N /\ (k + 1) - 1 = k /\ k \in 0..N
    BY <1>1
  <2>2. f[k + 1] = ServerTurn(m, f[k]) /\ f[k] \in Turns
    BY <1>2, <2>1
  <2>3. ASSUME NEW q, NEW r, f[k + 1] = Running(q, r) 
        PROVE  q \in Nat /\ q >= (k + 1) + 2 /\ q <= N + 1
    <3>1. ~Ended(f[k])
      BY <2>2, <2>3, RunningRuns DEF ServerTurn
    <3>2. PICK p0 \in Nat \ {0}, r0 \in Seq(PartsRead) : f[k] = Running(p0, r0)
      BY <2>2, <3>1, TurnsCases, ErrFails, OkEnds
    <3>3. p0 >= k + 2
      BY <1>4, <3>2
    <3>4. /\ Running(q, r) \notin Errs
          /\ Running(q, r) # Ok(r0)
      BY RunningRuns, ErrFails, OkEnds
    <3>8. LET next == ServerTurn(m, Running(p0, r0)) IN
          \/ next \in Errs
          \/ next = Ok(r0)
          \/ \E type \in Nat \ {0}, version \in Nat, value \in Seq(Octets) :
               /\ Len(Layout(type, version, value)) \in Nat
               /\ next = Running(p0 + Len(Layout(type, version, value)),
                                 Append(r0, PartOf(type, version, value)))
               /\ p0 + 3 <= p0 + Len(Layout(type, version, value))
               /\ p0 + Len(Layout(type, version, value)) <= N + 1
      BY ServerTurnCases
    <3>5. \E type \in Nat \ {0}, version \in Nat, value \in Seq(Octets) :
            /\ Len(Layout(type, version, value)) \in Nat
            /\ Running(q, r) = Running(p0 + Len(Layout(type, version, value)),
                                       Append(r0, PartOf(type, version, value)))
            /\ p0 + 3 <= p0 + Len(Layout(type, version, value))
            /\ p0 + Len(Layout(type, version, value)) <= N + 1
      BY <2>2, <2>3, <3>2, <3>4, <3>8
    <3>6. PICK k0 \in Nat : q = p0 + k0 /\ p0 + 3 <= p0 + k0 /\ p0 + k0 <= N + 1
      BY <3>5, RunningSame
    <3> QED
      BY <1>1, <3>3, <3>6
  <2> QED
    BY <2>1, <2>3
<1> HIDE DEF T
<1>5. 0..N \subseteq T
  BY <1>1, <1>3, <1>4, InductiveUpTo
<1> QED
  BY <1>5 DEF T, f

\* Len(m) turns are enough.
LEMMA DecodingOver ==
  ASSUME NEW m \in Seq(Octets), m # <<>>
  PROVE  LET r == ServerTurns(m)[Len(m)]
         IN r \in Errs \/ \E read \in Seq(PartsRead) : r = Ok(read)
<1> DEFINE f == ServerTurns(m)
           N == Len(m)
<1>1. N \in Nat \ {0}
  <2>1. N \in Nat
    BY LenProperties
  <2>2. N # 0
    BY EmptySeq, Zenon
  <2> QED
    BY <2>1, <2>2
<1>2. f[N] \in Turns
  <2>1. f \in [0..N -> Turns] /\ N \in 0..N
    BY <1>1, ServerDecoding DEF IsDecoding
  <2> QED
    BY <2>1
<1>3. ASSUME NEW p, NEW read, f[N] = Running(p, read) PROVE FALSE
  <2>1. N \in 0..N /\ N > 0
    BY <1>1
  <2>2. p \in Nat /\ p >= N + 2 /\ p <= N + 1
    BY <1>3, <2>1, DecodingProgress
  <2> QED
    BY <1>1, <2>2
<1> QED
  BY <1>2, <1>3, TurnsCases

\* The server's limit is a size, and the mark of a structured memo a byte.
LEMMA LongFits == Long \in Nat /\ Long < Max64 /\ Tvlv \in Octets /\ Tvlv # 0 /\ 0 \in Octets
<1>1. /\ Tvlv \in 1..Byte - 1 /\ Long \in Nat /\ Long < Max64 /\ Byte \in Nat
  BY MemoAssumption
<1> QED
  BY <1>1 DEF Octets

\* What the crate makes of a memo.
LEMMA DecodedKinds ==
  ASSUME NEW m \in Seq(Octets)
  PROVE  LET r == LibraryDecode(m) IN
         \/ Failed(r) /\ ~("ok" \in DOMAIN r)
         \/ /\ ~Failed(r) /\ "ok" \in DOMAIN r
            /\ m # <<>> /\ m[1] = Tvlv /\ r = ServerTurns(m)[Len(m)]
            /\ r.ok \in Seq(PartsRead) /\ r = Ok(r.ok)
<1>1. CASE m = <<>> \/ m[1] # Tvlv
  <2>1. LibraryDecode(m) = Err("marker")
    BY <1>1 DEF LibraryDecode
  <2>2. Failed(Err("marker")) /\ ~("ok" \in DOMAIN Err("marker"))
    BY DEF Err, Failed
  <2> QED
    BY <2>1, <2>2
<1>2. CASE m # <<>> /\ m[1] = Tvlv
  <2>1. LibraryDecode(m) = ServerTurns(m)[Len(m)]
    BY <1>2, DecodingsAgree DEF LibraryDecode
  <2>2. CASE ServerTurns(m)[Len(m)] \in Errs
    BY <2>1, <2>2, ErrFails
  <2>3. ASSUME NEW read \in Seq(PartsRead), ServerTurns(m)[Len(m)] = Ok(read)
        PROVE  LET r == LibraryDecode(m) IN
               /\ ~Failed(r) /\ "ok" \in DOMAIN r /\ r.ok \in Seq(PartsRead) /\ r = Ok(r.ok)
    BY <2>1, <2>3, OkEnds
  <2> QED
    BY <1>2, <2>1, <2>2, <2>3, DecodingOver
<1> QED
  BY <1>1, <1>2

\* DecodersAgree, whatever the memo (decode of zip302.rs, TvlvPart of the crate).
LEMMA DecodersAlike == memo \in Seq(Octets) => DecodersAgree
<1> SUFFICES ASSUME memo \in Seq(Octets), Len(memo) <= Long
             PROVE  LibraryDecode(memo) = ServerDecode(memo)
  BY DEF DecodersAgree
<1>1. Len(memo) \in Nat
  BY LenProperties
<1>2. ~(Len(memo) > Long)
  BY <1>1, LongFits
<1>3. LibraryTurns(memo) = ServerTurns(memo)
  BY DecodingsAgree
<1> QED
  BY <1>2, <1>3 DEF LibraryDecode, ServerDecode

\* FormatIsHonest, whatever the memo (MemoFormat::classify of the crate).
LEMMA ClassesAreHonest == memo \in Seq(Octets) => FormatIsHonest
<1> SUFFICES ASSUME memo \in Seq(Octets) PROVE FormatIsHonest
  OBVIOUS
<1>1. /\ EmptyMark # 0 /\ Tvlv # 0 /\ BinaryMark # 0 /\ EmptyMark # Tvlv /\ BinaryMark \notin Reserved
      /\ BinaryMark # Tvlv /\ BinaryMark # EmptyMark /\ Tvlv \notin Reserved /\ EmptyMark \notin Reserved
      /\ 0 \notin Reserved
  BY MemoAssumption
<1>2. /\ Len(memo) \in Nat /\ DOMAIN memo = 1..Len(memo)
      /\ memo # <<>> => 1 \in DOMAIN memo
  BY LenProperties, EmptySeq
<1>3. memo # <<>> /\ Zeros(memo) => memo[1] = 0
  BY <1>2 DEF Zeros
<1>4. memo = <<>> \/ memo[1] # Tvlv => ~("ok" \in DOMAIN LibraryDecode(memo))
  BY DecodedKinds
<1>5. Failed(LibraryDecode(memo)) <=> ~("ok" \in DOMAIN LibraryDecode(memo))
  BY DecodedKinds
<1> DEFINE blank == memo = <<>> \/ Zeros(memo)
           rest == Zeros(From(memo, 2))
           decodes == "ok" \in DOMAIN LibraryDecode(memo)
           first == memo[1]
<1>6. Classify(memo) =
        CASE blank -> "empty"
          [] memo # <<>> /\ first = EmptyMark -> IF rest THEN "empty" ELSE "unknown"
          [] memo # <<>> /\ first = Tvlv -> IF ~decodes THEN "unknown" ELSE "zip302"
          [] memo # <<>> /\ first = BinaryMark -> "binary"
          [] memo # <<>> /\ first \in Reserved -> "unknown"
          [] OTHER -> "text"
  BY <1>5 DEF Classify
<1>7. FormatIsHonest <=>
        /\ Classify(memo) = "zip302" <=> decodes
        /\ Classify(memo) = "empty" <=> blank \/ (first = EmptyMark /\ rest)
  BY DEF FormatIsHonest
<1>8. /\ memo # <<>> /\ blank => first = 0
      /\ memo = <<>> => blank
      /\ memo = <<>> \/ first # Tvlv => ~decodes
  BY <1>3, <1>4
<1> HIDE DEF blank, rest, decodes, first
<1> QED
  BY <1>1, <1>6, <1>7, <1>8

\* ReadersAgree, whatever the text (MemoFields of memo.rs, the crate's parser).
LEMMA ReadersAlike == ReadersAgree
<1>0. None \notin KnownTypes
  BY MemoAssumption
<1>1. StrictRead(text) # None => LenientRead(text) = StrictRead(text)
  BY <1>0 DEF StrictRead, LenientRead, HexDecodes, SignedPairs
<1>2. ASSUME NEW type \in KnownTypes
      PROVE  /\ StrictRead(TextMemo(type, "p")) = [type |-> type, payload |-> "p"]
             /\ LenientRead(TextMemo(type, "p")) = StrictRead(TextMemo(type, "p"))
  <2> DEFINE t == [kind |-> "two digits", value |-> type]
             v == [kind |-> "hex", length |-> 64, value |-> "p"]
             w == <<"ZAP1", t, v>>
  <2>1. w = TextMemo(type, "p")
    BY DEF TextMemo
  <2>2. Len(w) = 3 /\ w[1] = "ZAP1" /\ w[2] = t /\ w[3] = v
    OBVIOUS
  <2>3. t.kind = "two digits" /\ t.value = type /\ v.kind = "hex" /\ v.length = 64 /\ v.value = "p"
    OBVIOUS
  <2> HIDE DEF t, v, w
  <2>4. TypeNumber(t) = type /\ type # None
    BY <1>0, <2>3 DEF TypeNumber
  <2>5. HexDecodes(v) /\ SignedPairs(v) /\ Bytes32(v)
    BY <2>3 DEF HexDecodes, SignedPairs, Bytes32
  <2>6. StrictRead(w) = [type |-> type, payload |-> "p"]
    BY <2>2, <2>3, <2>4, <2>5 DEF StrictRead
  <2>7. LenientRead(w) = [type |-> type, payload |-> "p"]
    BY <2>2, <2>3, <2>4, <2>5 DEF LenientRead
  <2> QED
    BY <2>1, <2>6, <2>7
<1> QED
  BY <1>1, <1>2 DEF ReadersAgree

-----------------------------------------------------------------------------
(* The encoders write the parts and then zeros. *)

\* A part takes three bytes or more.
LEMMA LayoutTyped ==
  ASSUME NEW type \in Nat, NEW version \in Nat, NEW value \in Seq(Octets)
  PROVE  /\ Layout(type, version, value) \in Seq(Octets)
         /\ Len(Layout(type, version, value)) \in Nat /\ Len(Layout(type, version, value)) >= 3
<1> DEFINE a == Compact(type)
           b == Compact(version)
           c == Compact(Len(value))
<1>1. a \in Seq(Octets) /\ Len(a) \in 1..9 /\ b \in Seq(Octets) /\ Len(b) \in 1..9
  BY CompactTyped
<1>2. Len(value) \in Nat
  BY LenProperties
<1>3. c \in Seq(Octets) /\ Len(c) \in 1..9
  BY <1>2, CompactTyped
<1>4. Layout(type, version, value) = ((a \o b) \o c) \o value
  BY DEF Layout
<1> HIDE DEF a, b, c
<1>5. a \o b \in Seq(Octets) /\ Len(a \o b) = Len(a) + Len(b)
  BY <1>1, ConcatProperties
<1>6. (a \o b) \o c \in Seq(Octets) /\ Len((a \o b) \o c) = Len(a \o b) + Len(c)
  BY <1>3, <1>5, ConcatProperties
<1>7. /\ ((a \o b) \o c) \o value \in Seq(Octets)
      /\ Len(((a \o b) \o c) \o value) = Len((a \o b) \o c) + Len(value)
  BY <1>6, ConcatProperties
<1>8. PICK i \in 1..9, j \in 1..9, k \in 1..9, l \in Nat :
        i = Len(a) /\ j = Len(b) /\ k = Len(c) /\ l = Len(value)
  BY <1>1, <1>2, <1>3
<1>9. Len(((a \o b) \o c) \o value) = i + j + k + l
  BY <1>5, <1>6, <1>7, <1>8, Zenon
<1>10. i + j + k + l \in Nat /\ i + j + k + l >= 3
  OBVIOUS
<1> QED
  BY <1>4, <1>7, <1>9, <1>10, Zenon

\* f holds what an encoder has written after each part.
Writes(f, first, ps) ==
  /\ f \in [0..Len(ps) -> Seq(Octets)]
  /\ f[0] = first /\ \A i \in 1..Len(ps) : f[i] = f[i - 1] \o EncodedPart(ps[i])

\* An encoder writes a part in the layout that a turn reads.
LEMMA EncodedPartIs ==
  ASSUME NEW part \in PartsRead
  PROVE  /\ EncodedPart(part) = Layout(part.type, part.version, part.value)
         /\ part.type \in Nat /\ part.version \in Nat /\ part.value \in Seq(Octets)
         /\ EncodedPart(part) \in Seq(Octets)
         /\ Len(EncodedPart(part)) \in Nat /\ Len(EncodedPart(part)) >= 3
<1>1. part.type \in Nat /\ part.version \in Nat /\ part.value \in Seq(Octets)
  BY DEF PartsRead
<1>2. EncodedPart(part) = Layout(part.type, part.version, part.value)
  BY DEF EncodedPart, Layout, LibraryCompact
<1> QED
  BY <1>1, <1>2, LayoutTyped

\* The encoders' loop has a result,
LEMMA WritesDefined ==
  ASSUME NEW ps \in Seq(PartsRead), NEW first \in Seq(Octets)
  PROVE  \E f : Writes(f, first, ps)
<1> DEFINE N == Len(ps)
           step == [i \in 1..N |-> [x \in Seq(Octets) |-> x \o EncodedPart(ps[i])]]
<1>1. N \in Nat /\ \A i \in 1..N : EncodedPart(ps[i]) \in Seq(Octets)
  BY LenProperties, ElementOfSeq, EncodedPartIs
<1>2. step \in [1..N -> [Seq(Octets) -> Seq(Octets)]]
  <2>1. ASSUME NEW i \in 1..N, NEW x \in Seq(Octets) PROVE x \o EncodedPart(ps[i]) \in Seq(Octets)
    BY <1>1, ConcatProperties
  <2> QED
    BY <2>1
<1>3. \A i \in 1..N : \A x \in Seq(Octets) : step[i][x] = x \o EncodedPart(ps[i])
  OBVIOUS
<1> HIDE DEF step
<1>4. PICK f : IsLoop(f, Seq(Octets), first, N, step)
  BY <1>1, <1>2, LoopDefined
<1>5. f \in [0..N -> Seq(Octets)] /\ f[0] = first /\ \A i \in 1..N : f[i] = step[i][f[i - 1]]
  BY <1>4 DEF IsLoop
<1>6. ASSUME NEW i \in 1..N PROVE f[i] = f[i - 1] \o EncodedPart(ps[i])
  <2>1. i - 1 \in 0..N
    BY <1>1
  <2> QED
    BY <1>3, <1>5, <2>1
<1> QED
  BY <1>5, <1>6 DEF Writes

\* What a loop has written of the first n parts.
LEMMA WritesAlike ==
  ASSUME NEW ps, NEW qs, NEW first, NEW f, NEW g, Writes(f, first, ps), Writes(g, first, qs),
         NEW n \in Nat, Len(ps) \in Nat, Len(qs) \in Nat, n <= Len(ps), n <= Len(qs),
         \A i \in 1..n : ps[i] = qs[i]
  PROVE  f[n] = g[n]
<1> DEFINE T == {i \in 0..n : f[i] = g[i]}
<1>1. 0 \in T
  BY DEF Writes
<1>2. ASSUME NEW i \in 0..n - 1, i \in T PROVE i + 1 \in T
  <2>1. i + 1 \in 1..n /\ i + 1 \in 0..n /\ (i + 1) - 1 = i /\ i + 1 \in 1..Len(ps) /\ i + 1 \in 1..Len(qs)
    OBVIOUS
  <2>2. f[i + 1] = f[i] \o EncodedPart(ps[i + 1]) /\ g[i + 1] = g[i] \o EncodedPart(qs[i + 1])
    BY <2>1 DEF Writes
  <2> QED
    BY <1>2, <2>1, <2>2
<1> HIDE DEF T
<1>3. 0..n \subseteq T
  BY <1>1, <1>2, InductiveUpTo
<1> QED
  BY <1>3 DEF T

\* A function that meets the equations of a loop is the loop.
LEMMA WritesFound ==
  ASSUME NEW ps \in Seq(PartsRead), NEW first \in Seq(Octets), NEW R,
         R = [i \in 0..Len(ps) |-> R[i]], R[0] = first,
         \A i \in 1..Len(ps) :
           R[i - 1] \in Seq(Octets) => R[i] = R[i - 1] \o EncodedPart(ps[i])
  PROVE  Writes(R, first, ps)
<1> DEFINE N == Len(ps)
           T == {i \in 0..N : R[i] \in Seq(Octets)}
<1>1. N \in Nat /\ 0 \in 0..N /\ \A i \in 1..N : EncodedPart(ps[i]) \in Seq(Octets)
  BY LenProperties, ElementOfSeq, EncodedPartIs
<1>2. 0 \in T
  BY <1>1
<1>3. ASSUME NEW i \in 0..N - 1, i \in T PROVE i + 1 \in T
  <2>1. i + 1 \in 1..N /\ i + 1 \in 0..N /\ (i + 1) - 1 = i
    BY <1>1
  <2>2. R[i + 1] = R[i] \o EncodedPart(ps[i + 1])
    BY <1>3, <2>1
  <2> QED
    BY <1>1, <1>3, <2>1, <2>2, ConcatProperties
<1> HIDE DEF T
<1>4. 0..N \subseteq T
  BY <1>1, <1>2, <1>3, InductiveUpTo
<1>5. \A i \in 0..N : R[i] \in Seq(Octets)
  BY <1>4 DEF T
<1>6. R \in [0..N -> Seq(Octets)]
  BY <1>5
<1>7. \A i \in 1..N : i - 1 \in 0..N
  BY <1>1
<1> QED
  BY <1>5, <1>6, <1>7 DEF Writes

\* the parts one behind the other,
LEMMA EncodedPartsWritten ==
  ASSUME NEW ps \in Seq(PartsRead)
  PROVE  \E f : Writes(f, <<>>, ps) /\ f[Len(ps)] = EncodedParts(ps)
<1> DEFINE N == Len(ps)
           Over(f) == [i \in 0..N |-> IF i = 0 THEN <<>> ELSE f[i - 1] \o EncodedPart(ps[i])]
           R == CHOOSE f : f = Over(f)
<1>1. N \in Nat /\ <<>> \in Seq(Octets)
  BY LenProperties, EmptySeq
<1>2. R[N] = EncodedParts(ps)
  BY DEF EncodedParts
<1>3. PICK f : Writes(f, <<>>, ps)
  BY <1>1, WritesDefined
<1> HIDE DEF R, N
<1>4. /\ f \in [0..N -> Seq(Octets)]
      /\ f[0] = <<>> /\ \A i \in 1..N : f[i] = f[i - 1] \o EncodedPart(ps[i])
  BY <1>3 DEF Writes, N
<1>5. f = Over(f)
  <2>1. \A n \in 0..N : f[n] = IF n = 0 THEN <<>> ELSE f[n - 1] \o EncodedPart(ps[n])
    <3>1. \A n \in 0..N : n # 0 => n \in 1..N
      BY <1>1
    <3> QED
      BY <1>4, <3>1, Zenon
  <2>2. f = [n \in 0..N |-> f[n]]
    BY <1>4
  <2> QED
    BY <2>1, <2>2
<1>6. R = Over(R)
  <2> HIDE DEF Over
  <2> QED
    BY <1>5, Zenon DEF R
<1>7. 0 \in 0..N /\ \A i \in 1..N : i \in 0..N /\ i # 0
  BY <1>1
<1>8. R[0] = <<>> /\ \A i \in 1..N : R[i] = R[i - 1] \o EncodedPart(ps[i])
  BY <1>6, <1>7
<1>9. R = [n \in 0..N |-> R[n]]
  BY <1>6 DEF Over
<1>10. Writes(R, <<>>, ps)
  BY <1>1, <1>8, <1>9, WritesFound DEF N
<1> QED
  BY <1>2, <1>10 DEF N

\* which are bytes,
LEMMA EncodedPartsTyped ==
  ASSUME NEW ps \in Seq(PartsRead) PROVE EncodedParts(ps) \in Seq(Octets)
<1>1. PICK f : Writes(f, <<>>, ps) /\ f[Len(ps)] = EncodedParts(ps)
  BY EncodedPartsWritten
<1>2. Len(ps) \in 0..Len(ps)
  BY LenProperties
<1> QED
  BY <1>1, <1>2 DEF Writes

\* none without parts,
LEMMA EncodedPartsNone == EncodedParts(<<>>) = <<>>
<1>1. <<>> \in Seq(PartsRead) /\ Len(<<>>) = 0
  BY EmptySeq
<1>2. PICK f : Writes(f, <<>>, <<>>) /\ f[Len(<<>>)] = EncodedParts(<<>>)
  BY <1>1, EncodedPartsWritten
<1> QED
  BY <1>1, <1>2 DEF Writes

\* and with one more part its bytes more.
LEMMA EncodedPartsMore ==
  ASSUME NEW ps \in Seq(PartsRead), NEW part \in PartsRead
  PROVE  EncodedParts(Append(ps, part)) = EncodedParts(ps) \o EncodedPart(part)
<1> DEFINE qs == Append(ps, part)
           n == Len(ps)
<1>1. /\ qs \in Seq(PartsRead) /\ n \in Nat /\ Len(qs) = n + 1
      /\ \A i \in 1..n : qs[i] = ps[i]
      /\ qs[n + 1] = part
  BY LenProperties, AppendProperties
<1> HIDE DEF qs
<1>2. PICK f : Writes(f, <<>>, ps) /\ f[n] = EncodedParts(ps)
  BY EncodedPartsWritten
<1>3. PICK g : Writes(g, <<>>, qs) /\ g[Len(qs)] = EncodedParts(qs)
  BY <1>1, EncodedPartsWritten
<1>4. f[n] = g[n]
  <2>1. n <= Len(ps) /\ n <= Len(qs) /\ \A i \in 1..n : ps[i] = qs[i] /\ Len(qs) \in Nat
    BY <1>1
  <2> QED
    BY <1>1, <1>2, <1>3, <2>1, WritesAlike
<1>5. g[n + 1] = g[n] \o EncodedPart(qs[n + 1])
  <2>1. n + 1 \in 1..Len(qs) /\ (n + 1) - 1 = n
    BY <1>1
  <2> QED
    BY <1>3, <2>1 DEF Writes
<1> QED
  BY <1>1, <1>2, <1>3, <1>4, <1>5 DEF qs

\* A structured memo without its padding.
Marked(ps) == <<Tvlv>> \o EncodedParts(ps)

\* m is s followed by zeros, at least one.
IsPadded(m, s) ==
  /\ m \in Seq(Octets) /\ Len(s) \in Nat /\ Len(s) < Len(m) /\ Occurs(m, 1, s)
  /\ \A i \in Len(s) + 1..Len(m) : m[i] = 0

\* The mark is one byte.
LEMMA TvlvTyped == <<Tvlv>> \in Seq(Octets) /\ Len(<<Tvlv>>) = 1
<1>1. <<Tvlv>> \in [1..1 -> Octets]
  BY LongFits
<1> QED
  BY <1>1, ListIsSequence

\* A structured memo is bytes, one more than its parts,
LEMMA MarkedTyped ==
  ASSUME NEW ps \in Seq(PartsRead)
  PROVE  Marked(ps) \in Seq(Octets) /\ Len(Marked(ps)) = 1 + Len(EncodedParts(ps))
  BY TvlvTyped, EncodedPartsTyped, ConcatProperties DEF Marked

\* with one more part its bytes more,
LEMMA MarkedMore ==
  ASSUME NEW ps \in Seq(PartsRead), NEW part \in PartsRead
  PROVE  Marked(Append(ps, part)) = Marked(ps) \o EncodedPart(part)
<1> DEFINE a == <<Tvlv>>
           b == EncodedParts(ps)
           c == EncodedPart(part)
<1>1. a \in Seq(Octets) /\ b \in Seq(Octets) /\ c \in Seq(Octets)
  BY TvlvTyped, EncodedPartsTyped, EncodedPartIs
<1>2. Marked(ps) = a \o b /\ Marked(Append(ps, part)) = a \o (b \o c)
  BY EncodedPartsMore DEF Marked
<1> HIDE DEF a, b, c
<1>3. (a \o b) \o c = a \o (b \o c)
  BY <1>1, ConcatAssociative
<1> QED
  BY <1>2, <1>3 DEF c

\* and it is what an encoder that begins with the mark writes.
LEMMA MarkedWritten ==
  ASSUME NEW ps \in Seq(PartsRead), NEW g, Writes(g, <<Tvlv>>, ps)
  PROVE  g[Len(ps)] = Marked(ps)
<1> DEFINE N == Len(ps)
<1>1. N \in Nat /\ 0 \in 0..N /\ \A i \in 1..N : EncodedPart(ps[i]) \in Seq(Octets)
  BY LenProperties, ElementOfSeq, EncodedPartIs
<1>2. PICK f : Writes(f, <<>>, ps) /\ f[N] = EncodedParts(ps)
  BY EncodedPartsWritten
<1>3. /\ f \in [0..N -> Seq(Octets)] /\ f[0] = <<>>
      /\ \A i \in 1..N : f[i] = f[i - 1] \o EncodedPart(ps[i])
  BY <1>2 DEF Writes
<1>4. g[0] = <<Tvlv>> /\ \A i \in 1..N : g[i] = g[i - 1] \o EncodedPart(ps[i])
  BY DEF Writes
<1> DEFINE T == {i \in 0..N : g[i] = <<Tvlv>> \o f[i]}
<1>5. 0 \in T
  <2>1. <<Tvlv>> \o <<>> = <<Tvlv>>
    BY TvlvTyped, ConcatEmptySeq
  <2> QED
    BY <1>1, <1>3, <1>4, <2>1
<1>6. ASSUME NEW i \in 0..N - 1, i \in T PROVE i + 1 \in T
  <2>1. i + 1 \in 1..N /\ i + 1 \in 0..N /\ (i + 1) - 1 = i /\ i \in 0..N
    BY <1>1
  <2> DEFINE part == EncodedPart(ps[i + 1])
  <2>2. f[i + 1] = f[i] \o part /\ g[i + 1] = g[i] \o part /\ f[i] \in Seq(Octets) /\ part \in Seq(Octets)
    BY <1>1, <1>3, <1>4, <2>1
  <2> HIDE DEF part
  <2>3. (<<Tvlv>> \o f[i]) \o part = <<Tvlv>> \o (f[i] \o part)
    <3> DEFINE a == <<Tvlv>>
               b == f[i]
    <3>1. a \in Seq(Octets) /\ b \in Seq(Octets)
      BY <2>2, TvlvTyped
    <3> HIDE DEF a, b
    <3>2. Joint(Joint(a, b), part) = Joint(a, Joint(b, part))
      BY <2>2, <3>1, JointAssociative
    <3> QED
      BY <3>2, Zenon DEF Joint, a, b
  <2>4. g[i + 1] = <<Tvlv>> \o f[i + 1]
    BY <1>6, <2>2, <2>3, Zenon
  <2> QED
    BY <2>1, <2>4
<1> HIDE DEF T
<1>7. 0..N \subseteq T /\ N \in 0..N
  <2>1. 0..N \subseteq T
    BY <1>1, <1>5, <1>6, InductiveUpTo
  <2> QED
    BY <1>1, <2>1
<1>8. g[N] = <<Tvlv>> \o f[N]
  BY <1>7 DEF T
<1> QED
  BY <1>2, <1>8 DEF Marked

\* Appending zeros.
LEMMA PaddedBy ==
  ASSUME NEW s \in Seq(Octets), NEW n \in Nat, NEW pad, pad = [i \in 1..n |-> 0]
  PROVE  IsPadded(Append(s, 0) \o pad, s)
<1>1. /\ Append(s, 0) \in Seq(Octets) /\ Len(Append(s, 0)) = Len(s) + 1 /\ Len(s) \in Nat
      /\ \A i \in 1..Len(s) : Append(s, 0)[i] = s[i]
      /\ Append(s, 0)[Len(s) + 1] = 0
  BY LenProperties, AppendProperties, LongFits
<1>2. pad \in Seq(Octets) /\ Len(pad) = n /\ \A i \in 1..n : pad[i] = 0
  <2>1. pad \in [1..n -> Octets]
    BY LongFits
  <2> QED
    BY <2>1, ListIsSequence
<1> DEFINE out == Append(s, 0)
           m == out \o pad
<1> HIDE DEF out
<1>3. /\ out \in Seq(Octets) /\ Len(out) = Len(s) + 1
      /\ \A i \in 1..Len(s) : out[i] = s[i]
      /\ out[Len(s) + 1] = 0
  BY <1>1 DEF out
<1>4. /\ m \in Seq(Octets) /\ Len(m) = Len(out) + Len(pad)
      /\ \A i \in 1..Len(out) + Len(pad) : m[i] = IF i <= Len(out) THEN out[i] ELSE pad[i - Len(out)]
  BY <1>2, <1>3, ConcatProperties
<1> HIDE DEF m
<1>5. \A i \in 1..Len(m) : m[i] = IF i <= Len(s) THEN s[i] ELSE 0
  <2> SUFFICES ASSUME NEW i \in 1..Len(m) PROVE m[i] = IF i <= Len(s) THEN s[i] ELSE 0
    OBVIOUS
  <2>1. i \in 1..Len(out) + Len(pad) /\ Len(out) = Len(s) + 1 /\ Len(pad) = n
    BY <1>2, <1>3, <1>4
  <2>2. CASE i <= Len(s)
    <3>1. i \in 1..Len(s) /\ i <= Len(out)
      BY <1>1, <2>1, <2>2
    <3> QED
      BY <1>3, <1>4, <2>1, <2>2, <3>1
  <2>3. CASE i = Len(s) + 1
    <3>1. i <= Len(out) /\ ~(i <= Len(s))
      BY <1>1, <2>1, <2>3
    <3> QED
      BY <1>3, <1>4, <2>1, <2>3, <3>1
  <2>4. CASE i > Len(s) + 1
    <3>1. ~(i <= Len(out)) /\ ~(i <= Len(s)) /\ i - Len(out) \in 1..n
      BY <1>1, <2>1, <2>4
    <3> QED
      BY <1>2, <1>4, <2>1, <3>1
  <2> QED
    BY <1>1, <2>1, <2>2, <2>3, <2>4
<1>6. Len(m) = Len(s) + 1 + n
  BY <1>2, <1>3, <1>4
<1>7. Occurs(m, 1, s)
  <2> SUFFICES ASSUME NEW k \in 1..Len(s) PROVE 1 - 1 + k \in 1..Len(m) /\ m[1 - 1 + k] = s[k]
    BY DEF Occurs
  <2>1. 1 - 1 + k = k /\ k \in 1..Len(m) /\ k <= Len(s)
    BY <1>1, <1>6
  <2> QED
    BY <1>5, <2>1
<1>8. \A i \in Len(s) + 1..Len(m) : i \in 1..Len(m) /\ ~(i <= Len(s))
  BY <1>1, <1>6
<1>9. IsPadded(m, s)
  BY <1>1, <1>4, <1>5, <1>6, <1>7, <1>8 DEF IsPadded
<1> QED
  BY <1>9 DEF m, out

\* The library's encoder writes a structured memo and pads it,
LEMMA LibraryWrites ==
  ASSUME NEW ps \in Seq(PartsRead) PROVE IsPadded(LibraryEncode(ps), Marked(ps))
<1> DEFINE s == Marked(ps)
           pad == [i \in 1..0 |-> 0]
<1>1. s \in Seq(Octets)
  BY MarkedTyped
<1>2. LibraryEncode(ps) = s \o <<0>>
  BY DEF LibraryEncode, Marked
<1>3. s \o <<0>> = Append(s, 0) /\ Append(s, 0) \in Seq(Octets)
  <2> HIDE DEF s
  <2> QED
    BY <1>1, LongFits, AppendIsConcat, AppendProperties
<1>4. pad = <<>>
  OBVIOUS
<1>5. Append(s, 0) \o <<>> = Append(s, 0)
  BY <1>3, ConcatEmptySeq
<1> HIDE DEF s, pad
<1>6. IsPadded(Append(s, 0) \o pad, s)
  BY <1>1, PaddedBy DEF pad
<1> QED
  BY <1>2, <1>3, <1>4, <1>5, <1>6 DEF s

\* and so does the server's.
LEMMA ServerWrites ==
  ASSUME NEW ps \in Seq(PartsRead) PROVE IsPadded(ServerEncode(ps), Marked(ps))
<1> DEFINE N == Len(ps)
           Over(f) == [i \in 0..N |-> IF i = 0 THEN <<Tvlv>>
                        ELSE f[i - 1] \o Compact(ps[i].type) \o Compact(ps[i].version)
                             \o Compact(Len(ps[i].value)) \o ps[i].value]
           R == CHOOSE f : f = Over(f)
           out == Append(R[N], 0)
           n == IF Len(out) < Short THEN Short - Len(out) ELSE 0
<1>1. N \in Nat
  BY LenProperties
<1>2. ServerEncode(ps) = out \o [i \in 1..n |-> 0]
  BY DEF ServerEncode
<1>3. ASSUME NEW i \in 1..N, NEW x \in Seq(Octets)
      PROVE  x \o Compact(ps[i].type) \o Compact(ps[i].version) \o Compact(Len(ps[i].value)) \o ps[i].value
               = x \o EncodedPart(ps[i])
  <2> DEFINE a == Compact(ps[i].type)
             b == Compact(ps[i].version)
             c == Compact(Len(ps[i].value))
             v == ps[i].value
  <2>1. ps[i] \in PartsRead
    BY ElementOfSeq
  <2>2. ps[i].type \in Nat /\ ps[i].version \in Nat /\ v \in Seq(Octets)
    BY <2>1, EncodedPartIs
  <2>3. Len(v) \in Nat
    BY <2>2, LenProperties
  <2>4. a \in Seq(Octets) /\ b \in Seq(Octets) /\ c \in Seq(Octets)
    BY <2>2, <2>3, CompactTyped
  <2>5. EncodedPart(ps[i]) = a \o b \o c \o v
    BY DEF EncodedPart, LibraryCompact
  <2> HIDE DEF a, b, c, v
  <2>6. x \o a \o b \o c \o v = x \o (a \o b \o c \o v)
    <3>1. v \in Seq(Octets)
      BY <2>2
    <3> QED
      <4>1. Joint(Joint(Joint(Joint(x, a), b), c), v)
              = Joint(x, Joint(Joint(Joint(a, b), c), v))
        BY <2>4, <3>1, Regroup
      <4> QED
        BY <4>1 DEF Joint
  <2> QED
    BY <2>5, <2>6 DEF a, b, c, v
<1> HIDE DEF R, N
<1>4. PICK f : Writes(f, <<Tvlv>>, ps)
  BY TvlvTyped, WritesDefined
<1>5. /\ f \in [0..N -> Seq(Octets)]
      /\ f[0] = <<Tvlv>> /\ \A i \in 1..N : f[i] = f[i - 1] \o EncodedPart(ps[i])
  BY <1>4 DEF Writes, N
<1>6. f = Over(f)
  <2>1. \A i \in 0..N : f[i] = IF i = 0 THEN <<Tvlv>>
                        ELSE f[i - 1] \o Compact(ps[i].type) \o Compact(ps[i].version)
                             \o Compact(Len(ps[i].value)) \o ps[i].value
    <3>1. \A i \in 0..N : i # 0 => i \in 1..N /\ i - 1 \in 0..N
      BY <1>1
    <3>2. \A i \in 1..N : i # 0
      BY <1>1
    <3> QED
      BY <1>3, <1>5, <3>1, <3>2, Zenon
  <2>2. f = [i \in 0..N |-> f[i]]
    BY <1>5
  <2> QED
    BY <2>1, <2>2, Zenon
<1>7. R = Over(R)
  <2> HIDE DEF Over
  <2> QED
    BY <1>6, Zenon DEF R
<1>8. 0 \in 0..N /\ \A i \in 1..N : i \in 0..N /\ i # 0
  BY <1>1
<1>9. /\ R[0] = <<Tvlv>>
      /\ \A i \in 1..N : R[i] = R[i - 1] \o Compact(ps[i].type) \o Compact(ps[i].version)
                                  \o Compact(Len(ps[i].value)) \o ps[i].value
  BY <1>7, <1>8
<1>10. R = [i \in 0..N |-> R[i]]
  BY <1>7 DEF Over
<1> HIDE DEF Over, n
<1>11. \A i \in 1..N : R[i - 1] \in Seq(Octets) => R[i] = R[i - 1] \o EncodedPart(ps[i])
  BY <1>3, <1>9, Zenon
<1>12. Writes(R, <<Tvlv>>, ps)
  BY <1>9, <1>10, <1>11, TvlvTyped, WritesFound DEF N
<1>13. R[N] = Marked(ps)
  BY <1>12, MarkedWritten DEF N
<1>14. Marked(ps) \in Seq(Octets)
  BY MarkedTyped
<1>15. n \in Nat
  <2>1. Short \in Nat /\ Len(out) \in Nat
    <3>1. out \in Seq(Octets)
      BY <1>13, <1>14, LongFits, AppendProperties
    <3> QED
      BY <3>1, LenProperties, MemoAssumption
  <2> HIDE DEF out
  <2> QED
    BY <2>1 DEF n
<1>16. IsPadded(Append(Marked(ps), 0) \o [i \in 1..n |-> 0], Marked(ps))
  BY <1>14, <1>15, PaddedBy
<1> QED
  BY <1>2, <1>13, <1>16

-----------------------------------------------------------------------------
(* What was encoded is decoded. *)

\* A turn reads the part that stands there, and refuses a second of its type.
LEMMA TurnBack ==
  ASSUME NEW m \in Seq(Octets), NEW p \in Nat \ {0}, NEW read \in Seq(PartsRead),
         Len(m) < Max64,
         NEW type \in Nat \ {0}, type < Max64, NEW version \in Nat, version < Max64,
         NEW value \in Seq(Octets), Occurs(m, p, Layout(type, version, value))
  PROVE  ServerTurn(m, Running(p, read)) =
           IF AsU16(type) \in TypesOf(read) THEN Err("duplicate")
           ELSE Running(p + Len(Layout(type, version, value)),
                        Append(read, PartOf(type, version, value)))
<1> DEFINE a == Compact(type)
           b == Compact(version)
           c == Compact(Len(value))
<1>1. a \in Seq(Octets) /\ Len(a) \in 1..9 /\ b \in Seq(Octets) /\ Len(b) \in 1..9
  BY CompactTyped
<1>2. Len(value) \in Nat /\ Len(m) \in Nat
  BY LenProperties
<1>3. c \in Seq(Octets) /\ Len(c) \in 1..9
  BY <1>2, CompactTyped
<1>4. Layout(type, version, value) = ((a \o b) \o c) \o value
  BY DEF Layout
<1> HIDE DEF a, b, c
<1>5. a \o b \in Seq(Octets) /\ Len(a \o b) = Len(a) + Len(b)
  BY <1>1, ConcatProperties
<1>6. (a \o b) \o c \in Seq(Octets) /\ Len((a \o b) \o c) = Len(a \o b) + Len(c)
  BY <1>3, <1>5, ConcatProperties
<1>7. /\ Occurs(m, p, (a \o b) \o c) /\ Occurs(m, p + Len((a \o b) \o c), value)
      /\ Len(((a \o b) \o c) \o value) = Len((a \o b) \o c) + Len(value)
  <2>1. Occurs(m, p, ((a \o b) \o c) \o value)
    BY <1>4
  <2> DEFINE s == (a \o b) \o c
  <2>2. s \in Seq(Octets)
    BY <1>6
  <2> HIDE DEF s
  <2>3. /\ Len(s \o value) = Len(s) + Len(value)
        /\ Occurs(m, p, s \o value) <=> Occurs(m, p, s) /\ Occurs(m, p + Len(s), value)
    BY <2>2, OccursBoth
  <2> QED
    BY <2>1, <2>3 DEF s
<1>8. Occurs(m, p, a \o b) /\ Occurs(m, p + Len(a \o b), c)
  BY <1>3, <1>5, <1>7, OccursBoth
<1>9. Occurs(m, p, a) /\ Occurs(m, p + Len(a), b)
  BY <1>1, <1>8, OccursBoth
<1>10. PICK i \in 1..9, j \in 1..9, k \in 1..9, l \in Nat :
         i = Len(a) /\ j = Len(b) /\ k = Len(c) /\ l = Len(value)
  BY <1>1, <1>2, <1>3
<1>11. /\ Occurs(m, p + i, b) /\ Occurs(m, p + (i + j), c) /\ Occurs(m, p + (i + j + k), value)
       /\ Len(Layout(type, version, value)) = i + j + k + l
  BY <1>4, <1>5, <1>6, <1>7, <1>8, <1>9, <1>10, Zenon
<1>12. l < Max64 /\ ~(p + (i + j + k) - 1 + l >= Max64) /\ ~(p + (i + j + k) - 1 + l > Len(m))
  <2>1. p + (i + j + k) - 1 <= Len(m)
    <3>1. k \in 1..Len(c) /\ p + (i + j) - 1 + k = p + (i + j + k) - 1
      BY <1>10
    <3>2. p + (i + j) - 1 + k \in 1..Len(m)
      BY <1>11, <3>1 DEF Occurs
    <3> QED
      BY <1>2, <3>1, <3>2
  <2>2. l > 0 => p + (i + j + k) - 1 + l <= Len(m)
    <3>1. l > 0 => l \in 1..Len(value)
      BY <1>10
    <3>2. l > 0 => p + (i + j + k) - 1 + l \in 1..Len(m)
      BY <1>11, <3>1 DEF Occurs
    <3> QED
      BY <1>2, <3>2
  <2> QED
    BY <1>2, <2>1, <2>2, ByteType
<1>13. ReadCompact(m, p) = Got(type, p + i)
  BY <1>2, <1>9, <1>10, ReadBack DEF a
<1>14. ReadCompact(m, p + i) = Got(version, p + (i + j))
  <2>1. p + i \in Nat \ {0} /\ p + i + j = p + (i + j)
    OBVIOUS
  <2>2. ReadCompact(m, p + i) = Got(version, p + i + Len(Compact(version)))
    BY <1>2, <1>11, <2>1, ReadBack DEF b
  <2> QED
    BY <1>10, <2>1, <2>2 DEF b
<1>15. ReadCompact(m, p + (i + j)) = Got(l, p + (i + j + k))
  <2>1. p + (i + j) \in Nat \ {0} /\ p + (i + j) + k = p + (i + j + k)
    OBVIOUS
  <2>2. ReadCompact(m, p + (i + j)) = Got(Len(value), p + (i + j) + Len(Compact(Len(value))))
    BY <1>2, <1>10, <1>11, <1>12, <2>1, ReadBack DEF c
  <2> QED
    BY <1>10, <2>1, <2>2 DEF c
<1> DEFINE q == p + (i + j + k)
<1>16. /\ ReadValue(m, q, l) = [value |-> SubSeq(m, q, q + l - 1), next |-> q + l]
       /\ SubSeq(m, q, q + l - 1) = value
  <2>0. q \in Nat \ {0} /\ ~(q - 1 + l >= Max64) /\ ~(q - 1 + l > Len(m)) /\ Occurs(m, q, value)
    BY <1>11, <1>12
  <2> HIDE DEF q
  <2>1. ReadValue(m, q, l) = [value |-> SubSeq(m, q, q + l - 1), next |-> q + l]
    BY <2>0 DEF ReadValue
  <2> DEFINE s == SubSeq(m, q, q + l - 1)
  <2>2. ~Failed(ReadValue(m, q, l)) /\ ReadValue(m, q, l).value = s
    <3>1. ReadValue(m, q, l) = [value |-> s, next |-> q + l]
      BY <2>1
    <3> HIDE DEF s
    <3> QED
      BY <3>1 DEF Failed
  <2>3. s \in Seq(Octets) /\ Len(s) = l /\ Occurs(m, q, s)
    <3>1. \/ ReadValue(m, q, l) \in Errs /\ Failed(ReadValue(m, q, l))
          \/ /\ ReadValue(m, q, l).value \in Seq(Octets) /\ Len(ReadValue(m, q, l).value) = l
             /\ Occurs(m, q, ReadValue(m, q, l).value)
      BY <2>0, ValueKinds
    <3> HIDE DEF s
    <3> QED
      BY <2>2, <3>1, Zenon
  <2> HIDE DEF s
  <2>4. \A x \in 1..l : s[x] = value[x]
    BY <1>10, <2>0, <2>3 DEF Occurs
  <2>5. s \in [1..l -> Octets] /\ value \in [1..l -> Octets]
    BY <1>10, <2>3, LenProperties
  <2>6. s = value
    BY <2>4, <2>5
  <2> QED
    BY <2>1, <2>6 DEF s
<1>17. q + l = p + Len(Layout(type, version, value))
  BY <1>11
<1> HIDE DEF q
<1> DEFINE at == Running(p, read)
           data == ReadValue(m, q, l)
<1>18. ~Ended(at) /\ at.next = p /\ at.parts = read
  BY RunningRuns
<1>19. ~(p > Len(m))
  <2>1. 1 \in 1..Len(a) /\ p - 1 + 1 = p
    <3>1. 1 \in 1..i /\ p - 1 + 1 = p
      OBVIOUS
    <3> QED
      BY <1>10, <3>1
  <2>2. p - 1 + 1 \in 1..Len(m)
    BY <1>9, <2>1 DEF Occurs
  <2> QED
    BY <1>2, <2>1, <2>2
<1>20. ~Failed(data) /\ data.value = value /\ data.next = p + Len(Layout(type, version, value))
  <2> DEFINE v == SubSeq(m, q, q + l - 1)
             n == q + l
  <2>1. data = [value |-> v, next |-> n] /\ v = value /\ n = p + Len(Layout(type, version, value))
    BY <1>16, <1>17
  <2> HIDE DEF data, v, n
  <2> QED
    BY <2>1 DEF Failed
<1> HIDE DEF at, data
<1> DEFINE type0 == ReadCompact(m, at.next)
           version0 == ReadCompact(m, type0.next)
           length0 == ReadCompact(m, version0.next)
           data0 == ReadValue(m, length0.next, length0.n)
<1>21. /\ ~Failed(type0) /\ type0.n = type
       /\ ~Failed(version0) /\ version0.n = version
       /\ ~Failed(length0) /\ data0 = data
  <2>1. type0 = Got(type, p + i)
    BY <1>13, <1>18
  <2>2. version0 = Got(version, p + (i + j))
    BY <1>14, <2>1, GotWorks
  <2> HIDE DEF type0
  <2>3. length0 = Got(l, p + (i + j + k))
    BY <1>15, <2>2, GotWorks
  <2> HIDE DEF version0
  <2>4. data0 = data
    BY <2>3, GotWorks DEF q, data
  <2> QED
    BY <2>1, <2>2, <2>3, <2>4, GotWorks
<1>22. ServerTurn(m, at) =
         IF Ended(at) THEN at
         ELSE IF at.next > Len(m) THEN Err("truncated")
         ELSE IF Failed(type0) THEN type0
         ELSE IF type0.n = 0
         THEN IF Zeros(From(m, type0.next)) THEN Ok(at.parts) ELSE Err("padding")
         ELSE IF AsU16(type0.n) \in TypesOf(at.parts) THEN Err("duplicate")
         ELSE IF Failed(version0) THEN version0
         ELSE IF Failed(length0) THEN length0
         ELSE IF Failed(data0) THEN data0
         ELSE [next |-> data0.next,
               parts |-> Append(at.parts, PartOf(type0.n, version0.n, data0.value))]
  BY Zenon DEF ServerTurn, PartOf
<1> HIDE DEF type0, version0, length0, data0
<1>23. ServerTurn(m, at) =
         IF AsU16(type) \in TypesOf(read) THEN Err("duplicate")
         ELSE [next |-> data.next, parts |-> Append(read, PartOf(type, version, data.value))]
  BY <1>18, <1>19, <1>20, <1>21, <1>22
<1> QED
  BY <1>20, <1>23 DEF at, Running

\* A type of zero ends the parts, and only zeros may follow.
LEMMA EndBack ==
  ASSUME NEW m \in Seq(Octets), NEW p \in 1..Len(m), NEW read \in Seq(PartsRead),
         \A i \in p..Len(m) : m[i] = 0
  PROVE  ServerTurn(m, Running(p, read)) = Ok(read)
<1>1. Len(m) \in Nat /\ p \in Nat \ {0} /\ p + 1 \in Nat \ {0} /\ m[p] = 0
  BY LenProperties
<1>2. ReadCompact(m, p) = Got(0, p + 1)
  <2>1. ~(p > Len(m)) /\ m[p] <= Widest
    BY <1>1, TagType DEF Octets
  <2> QED
    BY <1>1, <2>1 DEF ReadCompact, Got
<1>3. Zeros(From(m, p + 1))
  BY <1>1, RestIsZero
<1> DEFINE at == Running(p, read)
<1>4. ~Ended(at) /\ at.next = p /\ at.parts = read /\ ~(p > Len(m))
  BY <1>1, RunningRuns
<1>5. LET type == ReadCompact(m, p) IN ~Failed(type) /\ type.n = 0 /\ type.next = p + 1
  BY <1>2, GotWorks
<1> HIDE DEF at
<1>6. ServerTurn(m, at) = Ok(read)
  BY <1>3, <1>4, <1>5, Zenon DEF ServerTurn
<1> QED
  BY <1>6 DEF at

\* The types of the first parts.
LEMMA PreTypes ==
  ASSUME NEW V, NEW ps \in Seq(V), NEW i \in 0..Len(ps)
  PROVE  TypesOf(Pre(ps, i)) = {ps[k].type : k \in 1..i}
<1> DEFINE a == Pre(ps, i)
<1>1. a \in Seq(V) /\ Len(a) = i /\ \A k \in 1..i : a[k] = ps[k]
  BY PreTyped
<1> HIDE DEF a
<1>2. DOMAIN a = 1..i
  BY <1>1, LenProperties
<1>3. TypesOf(a) = {ps[k].type : k \in 1..i}
  BY <1>1, <1>2 DEF TypesOf
<1> QED
  BY <1>3 DEF a

\* A part whose type and version are not cut when it is read.
IsPart(part) ==
  part \in PartsRead /\ part.type \in 1..Max16 - 1 /\ part.version \in 0..Byte - 1

\* Such a part comes back from a turn unchanged.
LEMMA PartIsRead ==
  ASSUME NEW part, IsPart(part)
  PROVE  /\ PartOf(part.type, part.version, part.value) = part
         /\ part.type \in Nat \ {0} /\ part.type < Max64 /\ AsU16(part.type) = part.type
         /\ part.version \in Nat /\ part.version < Max64 /\ part.value \in Seq(Octets)
<1>1. /\ part \in PartsRead /\ part.type \in Nat \ {0} /\ part.type < Max16
      /\ part.version \in Nat /\ part.version < Byte /\ part.value \in Seq(Octets)
  BY ByteType DEF IsPart, PartsRead
<1>2. ASSUME NEW n \in Nat, NEW q \in Nat \ {0}, n < q PROVE n % q = n
  <2>1. n = q * 0 + n /\ n \in 0..q - 1
    BY <1>2
  <2> QED
    BY <2>1, DivModUnique
<1>3. AsU16(part.type) = part.type /\ AsU8(part.version) = part.version
  BY <1>1, <1>2, ByteType DEF AsU16, AsU8
<1>4. part = [type |-> part.type, version |-> part.version, value |-> part.value]
  BY <1>1 DEF PartsRead
<1>5. part.type < Max64 /\ part.version < Max64
  BY <1>1, ByteType
<1> QED
  BY <1>1, <1>3, <1>4, <1>5, Zenon DEF PartOf

\* The memo of one part more has its bytes behind it.
LEMMA MarkedPre ==
  ASSUME NEW ps \in Seq(PartsRead), NEW i \in 0..Len(ps)
  PROVE  /\ Marked(Pre(ps, i)) \in Seq(Octets) /\ Len(Marked(Pre(ps, i))) \in Nat
         /\ i < Len(ps) => Marked(Pre(ps, i + 1)) = Marked(Pre(ps, i)) \o EncodedPart(ps[i + 1])
<1>1. Len(ps) \in Nat /\ Pre(ps, i) \in Seq(PartsRead)
  BY PreTyped
<1>2. Marked(Pre(ps, i)) \in Seq(Octets)
  BY <1>1, MarkedTyped
<1>3. ASSUME i < Len(ps)
      PROVE  Marked(Pre(ps, i + 1)) = Marked(Pre(ps, i)) \o EncodedPart(ps[i + 1])
  <2>1. i \in 0..Len(ps) - 1
    BY <1>1, <1>3
  <2>2. ps[i + 1] \in PartsRead /\ Pre(ps, i + 1) = Append(Pre(ps, i), ps[i + 1])
    BY <2>1, PreMore
  <2> QED
    BY <1>1, <2>2, MarkedMore
<1> QED
  BY <1>2, <1>3, LenProperties

\* Where the parts stand.
LEMMA PartsOccur ==
  ASSUME NEW m \in Seq(Octets), NEW ps \in Seq(PartsRead), Occurs(m, 1, Marked(ps)),
         NEW i \in 0..Len(ps)
  PROVE  /\ Occurs(m, 1, Marked(Pre(ps, i)))
         /\ i < Len(ps) => Occurs(m, 1 + Len(Marked(Pre(ps, i))), EncodedPart(ps[i + 1]))
<1> DEFINE N == Len(ps)
           T == {k \in 0..N : Occurs(m, 1, Marked(Pre(ps, N - k)))}
<1>1. N \in Nat /\ 0 \in 0..N
  BY LenProperties
<1>2. ASSUME NEW j \in 0..N, j < N
      PROVE  Occurs(m, 1, Marked(Pre(ps, j + 1))) <=>
               /\ Occurs(m, 1, Marked(Pre(ps, j)))
               /\ Occurs(m, 1 + Len(Marked(Pre(ps, j))), EncodedPart(ps[j + 1]))
  <2> DEFINE s == Marked(Pre(ps, j))
             t == EncodedPart(ps[j + 1])
  <2>1. s \in Seq(Octets) /\ Marked(Pre(ps, j + 1)) = s \o t
    BY <1>2, MarkedPre
  <2>2. t \in Seq(Octets)
    <3>1. j + 1 \in 1..N
      BY <1>1, <1>2
    <3>2. ps[j + 1] \in PartsRead
      BY <3>1, ElementOfSeq
    <3> QED
      BY <3>2, EncodedPartIs
  <2> HIDE DEF s, t
  <2>3. 1 \in Nat
    OBVIOUS
  <2>4. Occurs(m, 1, s \o t) <=> Occurs(m, 1, s) /\ Occurs(m, 1 + Len(s), t)
    BY <2>1, <2>2, <2>3, OccursBoth
  <2> QED
    BY <2>1, <2>4 DEF s, t
<1>3. 0 \in T
  <2>1. N - 0 = N /\ Pre(ps, N) = ps
    BY <1>1, PreAll
  <2> QED
    BY <1>1, <2>1
<1>4. ASSUME NEW k \in 0..N - 1, k \in T PROVE k + 1 \in T
  <2>1. k + 1 \in 0..N /\ N - (k + 1) \in 0..N /\ N - (k + 1) < N /\ (N - (k + 1)) + 1 = N - k
    BY <1>1
  <2> QED
    BY <1>2, <1>4, <2>1
<1> HIDE DEF T
<1>5. 0..N \subseteq T
  BY <1>1, <1>3, <1>4, InductiveUpTo
<1>6. ASSUME NEW j \in 0..N PROVE Occurs(m, 1, Marked(Pre(ps, j)))
  <2>1. N - j \in 0..N /\ N - (N - j) = j
    BY <1>1
  <2>2. N - j \in T
    BY <1>5, <2>1
  <2> QED
    BY <2>1, <2>2 DEF T
<1>7. i < N => Occurs(m, 1 + Len(Marked(Pre(ps, i))), EncodedPart(ps[i + 1]))
  <2>1. i < N => i + 1 \in 0..N
    BY <1>1
  <2> QED
    BY <1>2, <1>6, <2>1
<1> QED
  BY <1>6, <1>7

\* A type occurs twice among the first n parts.
Twice(ps, n) == \E i, j \in 1..n : i # j /\ ps[i].type = ps[j].type

\* It does with one more part if it did or if that part's type has occurred.
LEMMA TwiceMore ==
  ASSUME NEW ps, NEW i \in Nat
  PROVE  /\ ~Twice(ps, 0)
         /\ Twice(ps, i) => Twice(ps, i + 1)
         /\ ~Twice(ps, i) =>
              (Twice(ps, i + 1) <=> ps[i + 1].type \in {ps[k].type : k \in 1..i})
<1>1. \A k \in 1..i + 1 : k \in 1..i \/ k = i + 1
  OBVIOUS
<1>2. 1..i \subseteq 1..i + 1 /\ i + 1 \in 1..i + 1 /\ i + 1 \notin 1..i /\ ~(\E k \in 1..0 : TRUE)
  OBVIOUS
<1>3. ~Twice(ps, 0) /\ (Twice(ps, i) => Twice(ps, i + 1))
  BY <1>2 DEF Twice
<1>4. ASSUME ~Twice(ps, i), NEW j \in 1..i + 1, NEW k \in 1..i + 1, j # k, ps[j].type = ps[k].type
      PROVE  ps[i + 1].type \in {ps[x].type : x \in 1..i}
  <2>1. CASE j \in 1..i /\ k \in 1..i
    BY <1>4, <2>1 DEF Twice
  <2>2. CASE j = i + 1
    BY <1>1, <1>4, <2>2
  <2>3. CASE k = i + 1
    BY <1>1, <1>4, <2>3
  <2> QED
    BY <1>1, <2>1, <2>2, <2>3
<1>5. ASSUME NEW x \in 1..i, ps[i + 1].type = ps[x].type PROVE Twice(ps, i + 1)
  BY <1>2, <1>5 DEF Twice
<1> QED
  BY <1>3, <1>4, <1>5 DEF Twice

\* A padded memo decodes to its parts, unless a type occurs twice.
LEMMA DecodesBack ==
  ASSUME NEW m, NEW ps \in Seq(PartsRead), \A i \in 1..Len(ps) : IsPart(ps[i]),
         IsPadded(m, Marked(ps)), Len(m) < Max64
  PROVE  /\ m # <<>> /\ m[1] = Tvlv
         /\ ServerTurns(m)[Len(m)] =
              IF Twice(ps, Len(ps)) THEN Err("duplicate") ELSE Ok(ps)
<1> DEFINE f == ServerTurns(m)
           N == Len(ps)
           M == Len(m)
           L(i) == Len(Marked(Pre(ps, i)))
           result == IF Twice(ps, N) THEN Err("duplicate") ELSE Ok(ps)
<1>1. /\ m \in Seq(Octets) /\ M \in Nat /\ N \in Nat /\ M < Max64
      /\ Len(Marked(ps)) \in Nat /\ Len(Marked(ps)) < M /\ Occurs(m, 1, Marked(ps))
      /\ \A i \in Len(Marked(ps)) + 1..M : m[i] = 0
  BY LenProperties DEF IsPadded
<1>2. f \in [0..M -> Turns] /\ f[0] = Unread /\ \A i \in 1..M : f[i] = ServerTurn(m, f[i - 1])
  BY <1>1, ServerDecoding DEF IsDecoding
<1>3. Pre(ps, 0) = <<>> /\ Pre(ps, N) = ps
  BY PreAll
<1>4. Marked(<<>>) = <<Tvlv>>
  BY EncodedPartsNone, TvlvTyped, ConcatEmptySeq DEF Marked
<1>5. L(0) = 1 /\ L(N) = Len(Marked(ps))
  BY <1>3, <1>4, TvlvTyped
<1>6. \A i \in 0..N : L(i) \in Nat
  BY MarkedPre
<1>7. ASSUME NEW i \in 0..N, i < N
      PROVE  /\ ps[i + 1] \in PartsRead /\ IsPart(ps[i + 1])
             /\ EncodedPart(ps[i + 1]) = Layout(ps[i + 1].type, ps[i + 1].version, ps[i + 1].value)
             /\ L(i + 1) = L(i) + Len(EncodedPart(ps[i + 1])) /\ L(i + 1) >= L(i) + 3
             /\ Occurs(m, 1 + L(i), EncodedPart(ps[i + 1]))
  <2>1. i + 1 \in 1..N
    BY <1>1, <1>7
  <2>2. ps[i + 1] \in PartsRead /\ IsPart(ps[i + 1])
    BY <2>1, ElementOfSeq
  <2> DEFINE s == Marked(Pre(ps, i))
             t == EncodedPart(ps[i + 1])
  <2>3. /\ t \in Seq(Octets) /\ Len(t) \in Nat /\ Len(t) >= 3
        /\ t = Layout(ps[i + 1].type, ps[i + 1].version, ps[i + 1].value)
    BY <2>2, EncodedPartIs
  <2>4. s \in Seq(Octets) /\ Len(s) \in Nat /\ Marked(Pre(ps, i + 1)) = s \o t
    BY <1>7, MarkedPre
  <2>5. Occurs(m, 1 + Len(s), t)
    BY <1>1, <1>7, PartsOccur
  <2> HIDE DEF s, t
  <2>6. Len(s \o t) = Len(s) + Len(t)
    BY <2>3, <2>4, ConcatProperties
  <2>7. Len(s) + Len(t) >= Len(s) + 3
    BY <2>3, <2>4
  <2> QED
    BY <2>2, <2>3, <2>4, <2>5, <2>6, <2>7 DEF s, t
<1> HIDE DEF L
<1>8. M >= N + 1
  <2> DEFINE T == {i \in 0..N : L(i) >= i + 1}
  <2>1. 0 \in T
    BY <1>1, <1>5
  <2>2. ASSUME NEW i \in 0..N - 1, i \in T PROVE i + 1 \in T
    <3>1. i \in 0..N /\ i < N /\ i + 1 \in 0..N
      BY <1>1
    <3>2. L(i + 1) >= L(i) + 3 /\ L(i) \in Nat /\ L(i + 1) \in Nat /\ L(i) >= i + 1
      BY <1>6, <1>7, <2>2, <3>1
    <3> QED
      BY <3>1, <3>2
  <2> HIDE DEF T
  <2>3. 0..N \subseteq T
    BY <1>1, <2>1, <2>2, InductiveUpTo
  <2>4. L(N) >= N + 1
    BY <1>1, <2>3 DEF T
  <2> QED
    BY <1>1, <1>5, <2>4
<1> DEFINE T == {i \in 0..N : f[i] = IF Twice(ps, i) THEN Err("duplicate")
                                     ELSE Running(1 + L(i), Pre(ps, i))}
<1>9. 0 \in T
  <2>1. ~Twice(ps, 0) /\ 1 + L(0) = 2 /\ 0 \in 0..N
    <3>1. ~Twice(ps, 0)
      BY DEF Twice
    <3> QED
      BY <1>1, <1>5, <3>1
  <2>2. f[0] = Running(2, <<>>)
    BY <1>2, UnreadTyped
  <2> HIDE DEF f
  <2> QED
    BY <1>3, <2>1, <2>2
<1> HIDE DEF f
<1>10. ASSUME NEW i \in 0..N - 1, i \in T PROVE i + 1 \in T
  <2>1. i \in 0..N /\ i < N /\ i + 1 \in 0..N /\ i + 1 \in 1..M /\ (i + 1) - 1 = i /\ i \in Nat
    BY <1>1, <1>8
  <2>2. f[i + 1] = ServerTurn(m, f[i])
    BY <1>2, <2>1
  <2>3. CASE Twice(ps, i)
    <3>1. Twice(ps, i + 1) /\ f[i] = Err("duplicate")
      BY <1>10, <2>1, <2>3, TwiceMore
    <3>2. ServerTurn(m, f[i]) = f[i]
      BY <3>1, ErrFails DEF ServerTurn, Errs
    <3> QED
      BY <2>1, <2>2, <3>1, <3>2
  <2>4. CASE ~Twice(ps, i)
    <3> DEFINE part == ps[i + 1]
               p == 1 + L(i)
               read == Pre(ps, i)
    <3>1. f[i] = Running(p, read)
      BY <1>10, <2>4
    <3>2. /\ part \in PartsRead /\ IsPart(part)
          /\ EncodedPart(part) = Layout(part.type, part.version, part.value)
          /\ L(i + 1) = L(i) + Len(EncodedPart(part))
          /\ Occurs(m, p, EncodedPart(part))
      BY <1>7, <2>1
    <3>3. p \in Nat \ {0}
      BY <1>6, <2>1
    <3>4. read \in Seq(PartsRead) /\ TypesOf(read) = {ps[k].type : k \in 1..i}
          /\ Append(read, part) = Pre(ps, i + 1)
      BY <2>1, PreTyped, PreTypes, PreMore
    <3>5. Twice(ps, i + 1) <=> part.type \in TypesOf(read)
      BY <2>1, <2>4, <3>4, TwiceMore
    <3> HIDE DEF part, p, read
    <3>6. /\ PartOf(part.type, part.version, part.value) = part
          /\ part.type \in Nat \ {0} /\ part.type < Max64 /\ AsU16(part.type) = part.type
          /\ part.version \in Nat /\ part.version < Max64 /\ part.value \in Seq(Octets)
      BY <3>2, PartIsRead
    <3> DEFINE e == EncodedPart(part)
    <3>7. ServerTurn(m, Running(p, read)) =
            IF AsU16(part.type) \in TypesOf(read) THEN Err("duplicate")
            ELSE Running(p + Len(e), Append(read, PartOf(part.type, part.version, part.value)))
      <4>1. Occurs(m, p, Layout(part.type, part.version, part.value))
        BY <3>2
      <4>2. ServerTurn(m, Running(p, read)) =
              IF AsU16(part.type) \in TypesOf(read) THEN Err("duplicate")
              ELSE Running(p + Len(Layout(part.type, part.version, part.value)),
                           Append(read, PartOf(part.type, part.version, part.value)))
        <5> DEFINE type == part.type
                   version == part.version
                   value == part.value
        <5>1. /\ type \in Nat \ {0} /\ type < Max64 /\ version \in Nat /\ version < Max64
              /\ value \in Seq(Octets) /\ Occurs(m, p, Layout(type, version, value))
              /\ m \in Seq(Octets) /\ Len(m) < Max64 /\ p \in Nat \ {0} /\ read \in Seq(PartsRead)
          BY <1>1, <3>3, <3>4, <3>6, <4>1
        <5> HIDE DEF type, version, value
        <5>2. ServerTurn(m, Running(p, read)) =
                IF AsU16(type) \in TypesOf(read) THEN Err("duplicate")
                ELSE Running(p + Len(Layout(type, version, value)),
                             Append(read, PartOf(type, version, value)))
          BY <5>1, TurnBack
        <5> QED
          BY <5>2 DEF type, version, value
      <4> QED
        BY <3>2, <4>2, Zenon
    <3>8. p + Len(e) = 1 + L(i + 1)
      <4>1. L(i) \in Nat /\ L(i + 1) \in Nat /\ Len(e) \in Nat
        BY <1>6, <2>1, <3>2, EncodedPartIs
      <4> HIDE DEF e
      <4>2. L(i + 1) = L(i) + Len(e)
        BY <3>2 DEF e
      <4> QED
        BY <4>1, <4>2 DEF p
    <3> HIDE DEF e
    <3>9. f[i + 1] = IF Twice(ps, i + 1) THEN Err("duplicate") ELSE Running(1 + L(i + 1), Pre(ps, i + 1))
      BY <2>2, <3>1, <3>4, <3>5, <3>6, <3>7, <3>8, Zenon
    <3> QED
      BY <2>1, <3>9
  <2> QED
    BY <2>3, <2>4
<1> HIDE DEF T
<1>11. 0..N \subseteq T
  BY <1>1, <1>9, <1>10, InductiveUpTo
<1>12. f[N] = IF Twice(ps, N) THEN Err("duplicate") ELSE Running(1 + L(N), ps)
  <2>1. N \in T
    BY <1>1, <1>11
  <2> QED
    BY <1>3, <2>1, Zenon DEF T
<1>13. Ended(result) /\ result \in Turns
  <2>1. Err("duplicate") \in Errs
    BY DEF Errs
  <2> QED
    BY <2>1, ErrFails, OkEnds DEF Turns
<1>14. f[N + 1] = result
  <2>1. f[N + 1] = ServerTurn(m, f[N])
    <3>1. N + 1 \in 1..M /\ (N + 1) - 1 = N
      BY <1>1, <1>8
    <3> QED
      BY <1>2, <3>1
  <2>2. CASE Twice(ps, N)
    <3>1. ServerTurn(m, f[N]) = f[N]
      BY <1>12, <2>2, ErrFails DEF ServerTurn, Errs
    <3> QED
      BY <1>12, <2>1, <2>2, <3>1
  <2>3. CASE ~Twice(ps, N)
    <3>1. 1 + L(N) \in 1..M /\ \A i \in 1 + L(N)..M : m[i] = 0
      <4>1. 1 + L(N) = Len(Marked(ps)) + 1 /\ 1 + L(N) \in 1..M
        BY <1>1, <1>5
      <4> QED
        BY <1>1, <4>1
    <3>2. ServerTurn(m, Running(1 + L(N), ps)) = Ok(ps)
      BY <1>1, <3>1, EndBack
    <3> QED
      BY <1>12, <2>1, <2>3, <3>2
  <2> QED
    BY <2>2, <2>3
<1> DEFINE K == M - (N + 1)
           T2 == {k \in 0..K : f[N + 1 + k] = result}
<1>15. K \in Nat /\ N + 1 + K = M
  BY <1>1, <1>8
<1> HIDE DEF result
<1>16. 0 \in T2
  <2>1. N + 1 + 0 = N + 1 /\ 0 \in 0..K
    BY <1>1, <1>15
  <2> QED
    BY <1>14, <2>1
<1>17. ASSUME NEW k \in 0..K - 1, k \in T2 PROVE k + 1 \in T2
  <2>1. N + 1 + (k + 1) \in 1..M /\ (N + 1 + (k + 1)) - 1 = N + 1 + k /\ k + 1 \in 0..K
    BY <1>1, <1>8, <1>15
  <2>2. f[N + 1 + (k + 1)] = ServerTurn(m, f[N + 1 + k])
    BY <1>2, <2>1
  <2>3. f[N + 1 + k] = result
    BY <1>17
  <2>4. ServerTurn(m, result) = result
    BY <1>13 DEF ServerTurn
  <2> QED
    BY <2>1, <2>2, <2>3, <2>4
<1> HIDE DEF T2, K
<1>18. 0..K \subseteq T2
  BY <1>15, <1>16, <1>17, InductiveUpTo
<1>19. f[M] = result
  <2>1. K \in T2
    BY <1>15, <1>18
  <2> QED
    BY <1>15, <2>1 DEF T2
<1>20. m # <<>> /\ m[1] = Tvlv
  <2>1. M # 0
    BY <1>1, <1>8
  <2>2. m # <<>>
    BY <2>1, EmptySeq
  <2>3. Occurs(m, 1, <<Tvlv>>)
    <3>1. 0 \in 0..N
      BY <1>1
    <3> QED
      BY <1>1, <1>3, <1>4, <3>1, PartsOccur
  <2>4. 1 \in Nat
    OBVIOUS
  <2>5. m[1] = Tvlv
    BY <2>3, <2>4, OccursOne
  <2> QED
    BY <2>2, <2>5
<1> QED
  BY <1>19, <1>20 DEF f, result, L

\* The parts of the model are such parts.
LEMMA PartsAreParts ==
  ASSUME NEW part \in Parts PROVE part \in PartsRead /\ IsPart(part)
<1>1. /\ part = [type |-> part.type, version |-> part.version, value |-> part.value]
      /\ part.type \in 1..Max16 - 1 /\ part.version \in 0..Byte - 1
      /\ part.value \in Seq(Octets)
  BY FormatsAssumption DEF Octets
<1>2. part.type \in Nat /\ part.version \in Nat
  BY <1>1, ByteType
<1>3. part \in PartsRead
  BY <1>1, <1>2 DEF PartsRead
<1> QED
  BY <1>1, <1>3 DEF IsPart

\* Both decoders read back what either encoder wrote.
LEMMA EncodersInverted == parts \in Seq(Parts) => RoundTrip
<1> SUFFICES ASSUME parts \in Seq(Parts) PROVE RoundTrip
  OBVIOUS
<1>1. parts \in [1..Len(parts) -> Parts] /\ Len(parts) \in Nat /\ DOMAIN parts = 1..Len(parts)
  BY LenProperties
<1>2. parts \in Seq(PartsRead) /\ \A i \in 1..Len(parts) : IsPart(parts[i])
  <2>1. parts \in [1..Len(parts) -> PartsRead] /\ \A i \in 1..Len(parts) : IsPart(parts[i])
    BY <1>1, PartsAreParts
  <2> QED
    BY <1>1, <2>1, ListIsSequence
<1>3. Repeated <=> Twice(parts, Len(parts))
  BY <1>1 DEF Repeated, Twice
<1> DEFINE result == IF Repeated THEN Err("duplicate") ELSE Ok(parts)
<1>4. ASSUME NEW m, IsPadded(m, Marked(parts)), Len(m) < Max64
      PROVE  /\ LibraryDecode(m) = result
             /\ ServerDecode(m) = IF Len(m) > Long THEN Err("large") ELSE result
  <2>1. m # <<>> /\ m[1] = Tvlv /\ ServerTurns(m)[Len(m)] = result
    BY <1>2, <1>3, <1>4, DecodesBack
  <2>2. LibraryTurns(m) = ServerTurns(m)
    BY <1>4, DecodingsAgree DEF IsPadded
  <2> HIDE DEF result
  <2> QED
    BY <2>1, <2>2 DEF LibraryDecode, ServerDecode
<1>5. \A m \in {LibraryEncode(parts), ServerEncode(parts)} : IsPadded(m, Marked(parts))
  BY <1>2, LibraryWrites, ServerWrites
<1> QED
  BY <1>4, <1>5 DEF RoundTrip

-----------------------------------------------------------------------------
(* What is decoded is what would be encoded. *)

\* A size of two, four or eight bytes that does not fit into one may stand in m.
Cut(m) ==
  \E p \in DOMAIN m : \E w \in {2, 4, 8} :
    m[p] = Tag(w) /\ p + w <= Len(m) /\ Number(m, p + 1, w) >= Byte

\* Otherwise every size that stands there fits into a byte.
LEMMA UncutSize ==
  ASSUME NEW m \in Seq(Octets), ~Cut(m), NEW p \in Nat \ {0}, NEW n \in Nat, n < Max64,
         Occurs(m, p, Compact(n))
  PROVE  n < Byte
<1>1. DOMAIN m = 1..Len(m) /\ Len(m) \in Nat
  BY LenProperties
<1>2. CASE n <= Widest
  BY <1>2, ByteType DEF Widest
<1>3. CASE ~(n <= Widest)
  <2>1. n > Widest
    BY <1>3, TagType DEF Octets
  <2>2. PICK w \in {2, 4, 8} :
           /\ p \in 1..Len(m) /\ m[p] = Tag(w) /\ p + w \in 1..Len(m)
           /\ Number(m, p + 1, w) = n
    BY <1>1, <2>1, WordBack
  <2>3. p + w <= Len(m)
    BY <1>1, <2>2
  <2>4. ~(n >= Byte)
    BY <1>1, <2>2, <2>3 DEF Cut
  <2> QED
    BY <2>4, ByteType
<1> QED
  BY <1>2, <1>3

\* The sizes that a part begins with.
LEMMA LayoutOccurs ==
  ASSUME NEW m, NEW p \in Nat \ {0}, NEW type \in Nat, NEW version \in Nat, NEW value \in Seq(Octets),
         Occurs(m, p, Layout(type, version, value))
  PROVE  /\ Occurs(m, p, Compact(type)) /\ p + Len(Compact(type)) \in Nat \ {0}
         /\ Occurs(m, p + Len(Compact(type)), Compact(version))
<1> DEFINE a == Compact(type)
           b == Compact(version)
           c == Compact(Len(value))
<1>1. a \in Seq(Octets) /\ Len(a) \in 1..9 /\ b \in Seq(Octets)
  BY CompactTyped
<1>2. Len(value) \in Nat
  BY LenProperties
<1>3. c \in Seq(Octets)
  BY <1>2, CompactTyped
<1>4. Layout(type, version, value) = ((a \o b) \o c) \o value /\ p \in Nat
  BY DEF Layout
<1> HIDE DEF a, b, c
<1>5. a \o b \in Seq(Octets)
  BY <1>1, ConcatProperties
<1>6. (a \o b) \o c \in Seq(Octets)
  BY <1>3, <1>5, ConcatProperties
<1> DEFINE s == (a \o b) \o c
<1>7. s \in Seq(Octets) /\ Occurs(m, p, s \o value)
  BY <1>4, <1>6
<1> HIDE DEF s
<1>8. Occurs(m, p, s)
  BY <1>4, <1>7, OccursBoth
<1> DEFINE t == a \o b
<1>9. t \in Seq(Octets) /\ Occurs(m, p, t \o c)
  BY <1>5, <1>8 DEF s
<1> HIDE DEF t
<1>10. Occurs(m, p, t)
  BY <1>3, <1>4, <1>9, OccursBoth
<1>11. Occurs(m, p, a \o b)
  BY <1>10 DEF t
<1>12. Occurs(m, p, a) /\ Occurs(m, p + Len(a), b)
  BY <1>1, <1>4, <1>11, OccursBoth
<1>13. p + Len(a) \in Nat \ {0}
  <2>1. PICK k \in 1..9 : k = Len(a)
    BY <1>1
  <2>2. p + k \in Nat \ {0}
    OBVIOUS
  <2> QED
    BY <2>1, <2>2
<1> QED
  BY <1>12, <1>13 DEF a, b

\* A part whose sizes are not cut is the part that was laid out.
LEMMA PartIsLaidOut ==
  ASSUME NEW type \in Nat, type < Byte, NEW version \in Nat, version < Byte, NEW value \in Seq(Octets)
  PROVE  /\ PartOf(type, version, value) \in PartsRead
         /\ EncodedPart(PartOf(type, version, value)) = Layout(type, version, value)
<1>1. ASSUME NEW n \in Nat, NEW q \in Nat \ {0}, n < q PROVE n % q = n
  <2>1. n = q * 0 + n /\ n \in 0..q - 1
    BY <1>1
  <2> QED
    BY <2>1, DivModUnique
<1>2. AsU16(type) = type /\ AsU8(version) = version
  BY <1>1, ByteType DEF AsU16, AsU8
<1> DEFINE part == PartOf(type, version, value)
<1>3. part \in PartsRead
  BY PartOfTyped
<1>4. part.type = type /\ part.version = version /\ part.value = value
  BY <1>2 DEF PartOf
<1> HIDE DEF part
<1>5. EncodedPart(part) = Layout(type, version, value)
  BY <1>3, <1>4, EncodedPartIs
<1> QED
  BY <1>3, <1>5 DEF part

\* What a decoder has read by then: m begins with the parts, and once they
\* are complete zeros follow.
Explains(m, at) ==
  /\ \A p : \A read : at = Running(p, read) =>
       read \in Seq(PartsRead) /\ Occurs(m, 1, Marked(read)) /\ p = 1 + Len(Marked(read))
  /\ \A read : at = Ok(read) => IsPadded(m, Marked(read))

\* The states of a decoding differ.
LEMMA KindsDiffer ==
  ASSUME NEW p, NEW read, NEW q, NEW r
  PROVE  /\ Running(p, read) # Ok(r)
         /\ Running(p, read) \notin Errs /\ Ok(r) \notin Errs
  BY RunningRuns, ErrFails, OkEnds

\* Nothing is said of a failed decoding.
LEMMA ExplainsErr == ASSUME NEW m, NEW at \in Errs PROVE Explains(m, at)
  BY KindsDiffer DEF Explains

\* The parts of a result are its own.
LEMMA OkSame == ASSUME NEW read, NEW r, Ok(read) = Ok(r) PROVE read = r
  BY OkEnds

\* What is said of a decoding that runs,
LEMMA ExplainsRunning ==
  ASSUME NEW m, NEW p, NEW read
  PROVE  Explains(m, Running(p, read)) <=>
           read \in Seq(PartsRead) /\ Occurs(m, 1, Marked(read)) /\ p = 1 + Len(Marked(read))
<1>1. ASSUME NEW q, NEW r, Running(p, read) = Running(q, r) PROVE p = q /\ read = r
  BY <1>1, RunningSame
<1>2. \A r : Running(p, read) # Ok(r)
  BY KindsDiffer
<1> QED
  BY <1>1, <1>2, Zenon DEF Explains

\* and of one that has ended.
LEMMA ExplainsOk ==
  ASSUME NEW m, NEW read PROVE Explains(m, Ok(read)) <=> IsPadded(m, Marked(read))
<1>1. \A r : Ok(read) = Ok(r) => read = r
  BY OkSame
<1>2. \A p : \A r : Ok(read) # Running(p, r)
  BY KindsDiffer
<1> QED
  BY <1>1, <1>2, Zenon DEF Explains

\* A turn keeps it.
LEMMA TurnExplains ==
  ASSUME NEW m \in Seq(Octets), ~Cut(m), NEW at \in Turns, Explains(m, at)
  PROVE  Explains(m, ServerTurn(m, at))
<1> DEFINE next == ServerTurn(m, at)
<1>0. Len(m) \in Nat
  BY LenProperties
<1>1. CASE Ended(at)
  BY <1>1 DEF ServerTurn
<1>2. CASE ~Ended(at)
  <2>1. PICK p \in Nat \ {0}, read \in Seq(PartsRead) : at = Running(p, read)
    BY <1>2, TurnsCases, ErrFails, OkEnds
  <2>2. Occurs(m, 1, Marked(read)) /\ p = 1 + Len(Marked(read))
    BY <2>1, ExplainsRunning
  <2>3. Marked(read) \in Seq(Octets) /\ Len(Marked(read)) \in Nat
    BY MarkedTyped, LenProperties
  <2>4. \/ next \in Errs
        \/ /\ next = Ok(read)
           /\ Occurs(m, p, Compact(0)) /\ \A i \in p + Len(Compact(0))..Len(m) : m[i] = 0
        \/ \E type \in Nat \ {0}, version \in Nat, value \in Seq(Octets) :
             /\ type < Max64 /\ version < Max64
             /\ Occurs(m, p, Layout(type, version, value))
             /\ next = Running(p + Len(Layout(type, version, value)),
                               Append(read, PartOf(type, version, value)))
    BY <2>1, ServerTurnCases
  <2> HIDE DEF next
  <2>5. CASE next \in Errs
    BY <2>5, ExplainsErr DEF next
  <2>6. ASSUME next = Ok(read), Occurs(m, p, Compact(0)),
               \A i \in p + Len(Compact(0))..Len(m) : m[i] = 0
        PROVE  Explains(m, next)
    <3>1. Compact(0) = <<0>> /\ Len(<<0>>) = 1
      <4>1. 0 \in Nat /\ 0 <= Widest
        BY TagType DEF Octets
      <4> QED
        BY <4>1, FormOfOne
    <3>2. p \in 1..Len(m) /\ m[p] = 0
      BY <2>6, <3>1, OccursOne
    <3>3. \A i \in Len(Marked(read)) + 1..Len(m) : i = p \/ i \in p + 1..Len(m)
      BY <1>0, <2>2, <2>3
    <3>4. \A i \in Len(Marked(read)) + 1..Len(m) : m[i] = 0
      BY <2>6, <3>1, <3>2, <3>3
    <3>5. Len(Marked(read)) < Len(m)
      BY <1>0, <2>2, <2>3, <3>2
    <3>6. IsPadded(m, Marked(read))
      BY <2>2, <2>3, <3>4, <3>5 DEF IsPadded
    <3> QED
      BY <2>6, <3>6, ExplainsOk
  <2>7. ASSUME NEW type \in Nat \ {0}, NEW version \in Nat, NEW value \in Seq(Octets),
               type < Max64, version < Max64, Occurs(m, p, Layout(type, version, value)),
               next = Running(p + Len(Layout(type, version, value)),
                              Append(read, PartOf(type, version, value)))
        PROVE  Explains(m, next)
    <3>1. /\ Occurs(m, p, Compact(type)) /\ p + Len(Compact(type)) \in Nat \ {0}
          /\ Occurs(m, p + Len(Compact(type)), Compact(version))
      BY <2>7, LayoutOccurs
    <3>2. type < Byte /\ version < Byte
      BY <2>7, <3>1, UncutSize
    <3> DEFINE part == PartOf(type, version, value)
               e == Layout(type, version, value)
               s == Marked(read)
               more == Append(read, part)
    <3>3. part \in PartsRead /\ EncodedPart(part) = e /\ e \in Seq(Octets) /\ Len(e) \in Nat
      BY <3>2, PartIsLaidOut, LayoutTyped
    <3>4. more \in Seq(PartsRead) /\ Marked(more) = s \o e
      <4> HIDE DEF part, e
      <4> QED
        BY <3>3, MarkedMore, AppendProperties
    <3>5. /\ s \in Seq(Octets) /\ Len(s) \in Nat /\ Occurs(m, 1, s) /\ Occurs(m, 1 + Len(s), e)
          /\ next = Running(p + Len(e), more) /\ p = 1 + Len(s)
      BY <2>2, <2>3, <2>7
    <3> HIDE DEF part, e, s, more
    <3>6. Len(s \o e) = Len(s) + Len(e) /\ Occurs(m, 1, s \o e)
      <4>1. 1 \in Nat
        OBVIOUS
      <4>2. /\ Len(s \o e) = Len(s) + Len(e)
            /\ Occurs(m, 1, s \o e) <=> Occurs(m, 1, s) /\ Occurs(m, 1 + Len(s), e)
        BY <3>3, <3>5, <4>1, OccursBoth
      <4> QED
        BY <3>5, <4>2
    <3>7. p + Len(e) = 1 + (Len(s) + Len(e))
      BY <3>3, <3>5
    <3>8. Occurs(m, 1, Marked(more)) /\ p + Len(e) = 1 + Len(Marked(more))
      BY <3>4, <3>6, <3>7, Zenon
    <3> QED
      BY <3>4, <3>5, <3>8, ExplainsRunning
  <2> QED
    BY <2>4, <2>5, <2>6, <2>7 DEF next
<1> QED
  BY <1>1, <1>2

\* So it holds after every turn.
LEMMA DecodingExplains ==
  ASSUME NEW m \in Seq(Octets), ~Cut(m), m # <<>>, m[1] = Tvlv, NEW n \in 0..Len(m)
  PROVE  Explains(m, ServerTurns(m)[n])
<1> DEFINE f == ServerTurns(m)
           N == Len(m)
           T == {k \in 0..N : Explains(m, f[k])}
<1>1. N \in Nat /\ 0 \in 0..N /\ N # 0
  BY LenProperties, EmptySeq
<1>2. f \in [0..N -> Turns] /\ f[0] = Unread /\ \A i \in 1..N : f[i] = ServerTurn(m, f[i - 1])
  BY ServerDecoding DEF IsDecoding
<1> HIDE DEF f
<1>3. 0 \in T
  <2>1. <<>> \in Seq(PartsRead) /\ Marked(<<>>) = <<Tvlv>>
    BY EmptySeq, EncodedPartsNone, TvlvTyped, ConcatEmptySeq DEF Marked
  <2>2. Occurs(m, 1, <<Tvlv>>)
    <3>1. 1 \in Nat /\ 1 \in 1..N
      BY <1>1
    <3> QED
      BY <3>1, OccursOne
  <2>3. 2 = 1 + Len(<<Tvlv>>)
    BY TvlvTyped
  <2>4. Explains(m, Running(2, <<>>))
    BY <2>1, <2>2, <2>3, ExplainsRunning
  <2> QED
    BY <1>1, <1>2, <2>4, UnreadTyped
<1>4. ASSUME NEW k \in 0..N - 1, k \in T PROVE k + 1 \in T
  <2>1. k + 1 \in 1..N /\ k + 1 \in 0..N /\ (k + 1) - 1 = k /\ k \in 0..N
    BY <1>1
  <2>2. f[k + 1] = ServerTurn(m, f[k]) /\ f[k] \in Turns
    BY <1>2, <2>1
  <2> QED
    BY <1>4, <2>1, <2>2, TurnExplains
<1> HIDE DEF T
<1>5. 0..N \subseteq T
  BY <1>1, <1>3, <1>4, InductiveUpTo
<1> QED
  BY <1>5 DEF T, f

\* What decodes begins with the encoding of its parts, and zeros follow.
LEMMA DecodedIsEncoded == memo \in Seq(Octets) => DecodeIsExact
<1> SUFFICES ASSUME memo \in Seq(Octets), ~Failed(LibraryDecode(memo)), ~Cut(memo)
             PROVE  LET canonical == LibraryEncode(LibraryDecode(memo).ok) IN
                    /\ Len(canonical) <= Len(memo)
                    /\ SubSeq(memo, 1, Len(canonical)) = canonical
                    /\ Zeros(From(memo, Len(canonical) + 1))
  BY DEF DecodeIsExact, Cut
<1> DEFINE r == LibraryDecode(memo)
           N == Len(memo)
<1>1. N \in Nat /\ N \in 0..N /\ \A i \in 1..N : memo[i] \in Octets
  BY LenProperties, ElementOfSeq
<1>2. /\ memo # <<>> /\ memo[1] = Tvlv /\ r = ServerTurns(memo)[N]
      /\ r.ok \in Seq(PartsRead) /\ r = Ok(r.ok)
  BY DecodedKinds
<1> HIDE DEF r
<1> DEFINE ps == r.ok
           s == Marked(ps)
           canonical == LibraryEncode(ps)
<1>3. Explains(memo, ServerTurns(memo)[N])
  BY <1>1, <1>2, DecodingExplains
<1>4. IsPadded(memo, s)
  <2>1. Explains(memo, Ok(ps))
    BY <1>2, <1>3
  <2> QED
    BY <2>1, ExplainsOk
<1>5. IsPadded(canonical, s)
  BY <1>2, LibraryWrites
<1>6. Len(canonical) = Len(s) + 1
  <2>1. s \in Seq(Octets) /\ canonical = s \o <<0>>
    BY <1>2, MarkedTyped DEF LibraryEncode, Marked
  <2>2. <<0>> \in Seq(Octets) /\ Len(<<0>>) = 1
    <3>1. <<0>> \in [1..1 -> Octets]
      BY LongFits
    <3> QED
      BY <3>1, ListIsSequence
  <2> HIDE DEF s, canonical
  <2> QED
    BY <2>1, <2>2, ConcatProperties
<1> HIDE DEF s, canonical, ps
<1>7. /\ Len(s) \in Nat /\ Len(s) < N
      /\ \A i \in 1..Len(s) : memo[i] = s[i]
      /\ \A i \in Len(s) + 1..N : memo[i] = 0
  <2>1. \A k \in 1..Len(s) : 1 - 1 + k = k
    BY <1>4 DEF IsPadded
  <2> QED
    BY <1>4, <2>1 DEF IsPadded, Occurs
<1>8. /\ canonical \in Seq(Octets)
      /\ \A i \in 1..Len(s) : canonical[i] = s[i]
      /\ \A i \in Len(s) + 1..Len(s) + 1 : canonical[i] = 0
  <2>1. \A k \in 1..Len(s) : 1 - 1 + k = k
    BY <1>4 DEF IsPadded
  <2> QED
    BY <1>5, <1>6, <2>1 DEF IsPadded, Occurs
<1>9. Len(canonical) <= N /\ Len(canonical) \in Nat
  BY <1>1, <1>6, <1>7
<1> DEFINE c == Len(canonical)
           head == SubSeq(memo, 1, c)
<1>10. \A i \in 1..c : memo[i] = canonical[i]
  <2>1. \A i \in 1..c : i \in 1..Len(s) \/ i = Len(s) + 1
    BY <1>6, <1>7
  <2>2. memo[Len(s) + 1] = 0 /\ canonical[Len(s) + 1] = 0
    BY <1>1, <1>7, <1>8
  <2> QED
    BY <1>7, <1>8, <2>1, <2>2
<1>11. head = canonical
  <2>1. /\ Pre(memo, c) \in Seq(Octets) /\ Len(Pre(memo, c)) = c
        /\ \A k \in 1..c : Pre(memo, c)[k] = memo[k]
    <3>1. c \in 0..Len(memo)
      BY <1>1, <1>9
    <3> HIDE DEF c
    <3> QED
      BY <3>1, PreTyped
  <2>2. Pre(memo, c) = head
    BY DEF Pre
  <2> HIDE DEF head
  <2>3. head \in [1..c -> Octets] /\ canonical \in [1..c -> Octets]
    BY <1>8, <2>1, <2>2, LenProperties
  <2>4. \A k \in 1..c : head[k] = canonical[k]
    BY <1>10, <2>1, <2>2
  <2> QED
    BY <2>3, <2>4
<1>12. Zeros(From(memo, c + 1))
  <2>1. c + 1 \in Nat \ {0} /\ \A i \in c + 1..N : i \in Len(s) + 1..N
    BY <1>1, <1>6, <1>7
  <2>2. \A i \in c + 1..N : memo[i] = 0
    BY <1>7, <2>1
  <2> QED
    BY <2>1, <2>2, RestIsZero
<1> QED
  BY <1>9, <1>11, <1>12 DEF canonical, ps, r

\* The memo that grows is bytes, and the parts are parts.
MemoInv == memo \in Seq(Octets) /\ parts \in Seq(Parts)

\* Every step keeps them so.
LEMMA MemoSteps ==
  /\ FormatsInit => MemoInv
  /\ MemoInv /\ [FormatsNext]_formatsVars => MemoInv'
<1>1. FormatsInit => MemoInv
  BY EmptySeq DEF FormatsInit, MemoInv
<1>2. ASSUME MemoInv, [FormatsNext]_formatsVars PROVE MemoInv'
  <2>1. CASE UNCHANGED <<parts, memo>>
    BY <1>2, <2>1 DEF MemoInv
  <2>2. CASE AddPart
    BY <1>2, <2>2, AppendProperties DEF MemoInv, AddPart
  <2>3. CASE AddByte
    BY <1>2, <2>3, AppendProperties DEF MemoInv, AddByte, Octets
  <2>4. CASE AddPiece
    <3>1. PICK piece \in Pieces : memo' = memo \o piece /\ UNCHANGED parts
      BY <2>4 DEF AddPiece
    <3>2. piece \in Seq(Octets)
      BY FormatsAssumption DEF Octets
    <3> QED
      BY <1>2, <3>1, <3>2, ConcatProperties DEF MemoInv
  <2> QED
    BY <1>2, <2>1, <2>2, <2>3, <2>4 DEF FormatsNext, formatsVars, inputs, Grow, SetField, AddLeaf, AddField
<1> QED
  BY <1>1, <1>2

\* Whatever the bytes: both decoders read back what either encoder wrote and
\* agree on every memo the server accepts, a memo that decodes is the encoding
\* of its parts and padding, and the classes of the crate and the two readers
\* of text memos are what they say (zip302.rs, tvlv.rs, memo.rs).
THEOREM MemosAreRead == FormatsSpec => []MemosAgree
<1>1. MemoInv => MemosAgree
  BY EncodersInverted, DecodersAlike, DecodedIsEncoded, ClassesAreHonest, ReadersAlike
  DEF MemoInv, MemosAgree
<1> QED
  BY <1>1, MemoSteps, PTL DEF FormatsSpec

-----------------------------------------------------------------------------
(* Signatures: two shares of one ceremony make one. *)

\* The group's order, its scalars, and the ids of participants.
LEMMA OrderType ==
  /\ Order \in Nat \ {0} /\ Order \in Nat /\ Order > 3
  /\ Scalars \subseteq Int /\ Participants \subseteq Scalars \ {0}
  BY SignerAssumption DEF Scalars, Participants

\* The field has an inverse of what is not a multiple of its order.
LEMMA InverseOf ==
  ASSUME NEW x \in Int, x % Order # 0
  PROVE  /\ ModInverse(x % Order) \in Scalars
         /\ Congruent(x * ModInverse(x % Order), 1, Order)
<1> DEFINE r == x % Order
           u == ModInverse(r)
<1>1. r \in 1..Order - 1
  BY OrderType, DivMod
<1> HIDE DEF r
<1>2. \E y \in 0..Order - 1 : (r * y) % Order = 1
  <2>1. Order \in Nat /\ Order > 1 /\ \A d \in 2..Order - 1 : Order % d # 0
    BY SignerAssumption
  <2> QED
    BY <1>1, <2>1, InverseExists
<1>3. u \in Scalars /\ (r * u) % Order = 1
  BY <1>2, Zenon DEF ModInverse, Scalars
<1> HIDE DEF u
<1>4. u \in Int /\ r \in Int /\ 1 \in Int
  BY <1>1, <1>3, OrderType
<1>5. r * u \in Int /\ x * u \in Int
  BY <1>4
<1>6. Congruent(1, r * u, Order)
  BY <1>3, <1>5, OrderType, CongruentMod
<1>7. Congruent(r, x, Order)
  BY OrderType, CongruentMod DEF r
<1>8. Congruent(u, u, Order)
  <2>1. u = u + 0 * Order /\ 0 \in Int
    BY <1>4, OrderType
  <2> QED
    BY <2>1, Zenon DEF Congruent
<1>9. Congruent(r * u, x * u, Order)
  BY <1>4, <1>7, <1>8, OrderType, CongruentProducts
<1>10. Congruent(1, x * u, Order)
  BY <1>4, <1>5, <1>6, <1>9, OrderType, CongruentChain
<1>11. Congruent(x * u, 1, Order)
  BY <1>4, <1>5, <1>10, OrderType, CongruentTurned
<1> QED
  BY <1>3, <1>11 DEF r, u

\* Two scalars differ modulo the order.
LEMMA DifferentScalars ==
  ASSUME NEW i \in Scalars, NEW j \in Scalars, i # j
  PROVE  (j - i) % Order # 0
<1> SUFFICES ASSUME (j - i) % Order = 0 PROVE FALSE
  OBVIOUS
<1> DEFINE k == (j - i) \div Order
<1>1. i \in 0..Order - 1 /\ j \in 0..Order - 1 /\ j - i \in Int
  BY OrderType DEF Scalars
<1>2. k \in Int /\ j - i = Order * k
  BY <1>1, OrderType, DivMod
<1> HIDE DEF k
<1>3. CASE k > 0
  <2>1. Order * k >= Order
    BY <1>2, <1>3, OrderType
  <2> QED
    BY <1>1, <1>2, <2>1, OrderType
<1>4. CASE k < 0
  <2>1. Order * k <= -Order
    BY <1>2, <1>4, OrderType
  <2> QED
    BY <1>1, <1>2, <2>1, OrderType
<1>5. CASE k = 0
  BY <1>1, <1>2, <1>5, OrderType
<1> QED
  BY <1>2, <1>3, <1>4, <1>5

\* The Lagrange coefficients of two participants put the polynomial's constant
\* term together from its values.
LEMMA LagrangeSum ==
  ASSUME NEW i \in Scalars, NEW j \in Scalars, i # j, NEW a \in Int, NEW b \in Int,
         NEW s \in Int, NEW t \in Int,
         Congruent(s, a + b * i, Order), Congruent(t, a + b * j, Order)
  PROVE  /\ Coefficient(i, j) \in Int /\ Coefficient(j, i) \in Int
         /\ Congruent(Coefficient(i, j) * s + Coefficient(j, i) * t, a, Order)
<1> DEFINE u == ModInverse((j - i) % Order)
           v == ModInverse((i - j) % Order)
<1>1. i \in Int /\ j \in Int /\ j - i \in Int /\ i - j \in Int
  BY OrderType
<1>2. u \in Int /\ Congruent((j - i) * u, 1, Order)
  BY <1>1, OrderType, DifferentScalars, InverseOf
<1>3. v \in Int /\ Congruent((i - j) * v, 1, Order)
  BY <1>1, OrderType, DifferentScalars, InverseOf
<1> HIDE DEF u, v
<1>4. PICK k \in Int : (j - i) * u = 1 + k * Order
  BY <1>2 DEF Congruent
<1>5. PICK l \in Int : (i - j) * v = 1 + l * Order
  BY <1>3 DEF Congruent
<1> DEFINE p == Order
<1>6. p \in Int
  BY OrderType
<1> HIDE DEF p
<1>7. PICK d \in Int : v = -u + d * p
  <2>1. v * ((j - i) * u) = v + (v * k) * p
    <3>1. v * (1 + k * p) = v + (v * k) * p
      BY <1>3, <1>4, <1>6
    <3> QED
      BY <1>4, <3>1 DEF p
  <2>2. u * ((i - j) * v) = u + (u * l) * p
    <3>1. u * (1 + l * p) = u + (u * l) * p
      BY <1>2, <1>5, <1>6
    <3> QED
      BY <1>5, <3>1 DEF p
  <2>3. v * ((j - i) * u) = -(u * ((i - j) * v))
    BY <1>1, <1>2, <1>3
  <2>4. v * k \in Int /\ u * l \in Int
    BY <1>2, <1>3, <1>4, <1>5
  <2>5. v = -u + (-(u * l) - (v * k)) * p
    <3> DEFINE x == v * k
               y == u * l
    <3>1. v + x * p = -(u + y * p) /\ x \in Int /\ y \in Int
      BY <2>1, <2>2, <2>3, <2>4
    <3> HIDE DEF x, y
    <3>2. v = -u + (-y - x) * p
      BY <1>2, <1>3, <1>6, <3>1
    <3> QED
      BY <3>2 DEF x, y
  <2>6. -(u * l) - (v * k) \in Int
    BY <2>4
  <2> QED
    BY <2>5, <2>6
<1>8. Coefficient(i, j) \in Int /\ Coefficient(j, i) \in Int
  <2>1. j * u \in Int /\ i * v \in Int
    BY <1>1, <1>2, <1>3
  <2>2. (j * u) % Order \in 0..Order - 1 /\ (i * v) % Order \in 0..Order - 1
    BY <2>1, OrderType, DivMod
  <2>3. 0..Order - 1 \subseteq Int
    BY OrderType
  <2> QED
    BY <2>2, <2>3 DEF Coefficient, u, v
<1>9. Congruent(Coefficient(i, j) * s, (j * u) * (a + b * i), Order)
  <2>1. j * u \in Int /\ a + b * i \in Int
    BY <1>1, <1>2
  <2>2. Congruent(Coefficient(i, j), j * u, Order)
    BY <2>1, OrderType, CongruentMod DEF Coefficient, u
  <2> QED
    BY <1>8, <2>1, <2>2, OrderType, CongruentProducts
<1>10. Congruent(Coefficient(j, i) * t, (i * v) * (a + b * j), Order)
  <2>1. i * v \in Int /\ a + b * j \in Int
    BY <1>1, <1>3
  <2>2. Congruent(Coefficient(j, i), i * v, Order)
    BY <2>1, OrderType, CongruentMod DEF Coefficient, v
  <2> QED
    BY <1>8, <2>1, <2>2, OrderType, CongruentProducts
<1> DEFINE S == Coefficient(i, j) * s + Coefficient(j, i) * t
           M == (j * u) * (a + b * i) + (i * v) * (a + b * j)
<1>11. Congruent(S, M, Order)
  <2>1. /\ Coefficient(i, j) * s \in Int /\ Coefficient(j, i) * t \in Int
        /\ (j * u) * (a + b * i) \in Int /\ (i * v) * (a + b * j) \in Int
    BY <1>1, <1>2, <1>3, <1>8
  <2> QED
    BY <1>9, <1>10, <2>1, OrderType, CongruentSum
<1>12. Congruent(M, a, Order)
  <2>1. (i * v) * (a + b * j) = (i * (-u)) * (a + b * j) + (d * (i * (a + b * j))) * p
    <3> DEFINE w == a + b * j
    <3>1. w \in Int
      BY <1>1
    <3> HIDE DEF w
    <3>2. (i * (-u + d * p)) * w = (i * (-u)) * w + (d * (i * w)) * p
      BY <1>1, <1>2, <1>6, <3>1
    <3> QED
      BY <1>7, <3>2 DEF w
  <2>2. (j * u) * (a + b * i) + (i * (-u)) * (a + b * j) = ((j - i) * u) * a
    BY <1>1, <1>2
  <2>3. (1 + k * p) * a = a + (k * a) * p
    BY <1>4, <1>6
  <2>4. ((j - i) * u) * a = a + (k * a) * p
    BY <1>4, <2>3 DEF p
  <2> DEFINE e == k * a
             f == d * (i * (a + b * j))
  <2>5. e \in Int /\ f \in Int
    BY <1>1
  <2>6. M = a + (e + f) * p
    <3> DEFINE x == (j * u) * (a + b * i)
               y == (i * v) * (a + b * j)
               z == (i * (-u)) * (a + b * j)
    <3>1. x \in Int /\ y \in Int /\ z \in Int
      BY <1>1, <1>2, <1>3
    <3>2. y = z + f * p /\ x + z = a + e * p
      BY <2>1, <2>2, <2>4
    <3>3. M = x + y
      OBVIOUS
    <3> HIDE DEF M, x, y, z, e, f
    <3>4. x + y = a + (e + f) * p
      BY <1>6, <2>5, <3>1, <3>2
    <3> QED
      BY <3>3, <3>4
  <2>7. e + f \in Int
    BY <2>5
  <2> HIDE DEF M, e, f
  <2> QED
    BY <2>6, <2>7, Zenon DEF Congruent, p
<1>13. S \in Int /\ M \in Int
  BY <1>1, <1>2, <1>3, <1>8
<1> HIDE DEF S, M
<1>14. Congruent(S, a, Order)
  BY <1>11, <1>12, <1>13, OrderType, CongruentChain
<1> QED
  BY <1>8, <1>14 DEF S

\* Two shares of one polynomial whose constant term is the wallet's key sign
\* for that key.
LEMMA SharesSign ==
  ASSUME Content(1).id \in Scalars, Content(2).id \in Scalars,
         Content(1).id # Content(2).id,
         NEW a \in Scalars, NEW b \in Scalars,
         Content(1).secret = (a + b * Content(1).id) % Order,
         Content(2).secret = (a + b * Content(2).id) % Order,
         ak = a,
         NEW k1 \in Scalars, NEW k2 \in Scalars, NEW c \in Scalars, NEW alpha \in Scalars
  PROVE  Verifies(Signature(k1, k2, c, alpha), c, alpha)
<1> DEFINE i == Content(1).id
           j == Content(2).id
           s == Content(1).secret
           t == Content(2).secret
           l == Coefficient(i, j)
           m == Coefficient(j, i)
           n == (k1 + k2) % Order
           x == (k1 + c * l * s) % Order
           y == (k2 + c * m * t) % Order
<1>1. a \in Int /\ b \in Int /\ k1 \in Int /\ k2 \in Int /\ c \in Int /\ alpha \in Int
      /\ i \in Int /\ j \in Int
  BY OrderType
<1>2. s \in Int /\ Congruent(s, a + b * i, Order)
  <2>1. a + b * i \in Int
    BY <1>1
  <2>2. (a + b * i) % Order \in 0..Order - 1 /\ Congruent((a + b * i) % Order, a + b * i, Order)
    BY <2>1, OrderType, DivMod, CongruentMod
  <2>3. 0..Order - 1 \subseteq Int
    BY OrderType
  <2> QED
    BY <2>2, <2>3
<1>3. t \in Int /\ Congruent(t, a + b * j, Order)
  <2>1. a + b * j \in Int
    BY <1>1
  <2>2. (a + b * j) % Order \in 0..Order - 1 /\ Congruent((a + b * j) % Order, a + b * j, Order)
    BY <2>1, OrderType, DivMod, CongruentMod
  <2>3. 0..Order - 1 \subseteq Int
    BY OrderType
  <2> QED
    BY <2>2, <2>3
<1>4. l \in Int /\ m \in Int /\ Congruent(l * s + m * t, a, Order)
  BY <1>1, <1>2, <1>3, LagrangeSum
<1>5. /\ Verifies(Signature(k1, k2, c, alpha), c, alpha)
         <=> (x + y + c * alpha) % Order = (n + c * (ak + alpha)) % Order
  BY Zenon DEF Verifies, Signature, SignatureShare
<1> HIDE DEF i, j, s, t, l, m
<1>6. x \in Int /\ Congruent(x, k1 + c * l * s, Order)
  <2>1. k1 + c * l * s \in Int
    BY <1>1, <1>2, <1>4
  <2>2. (k1 + c * l * s) % Order \in 0..Order - 1
    BY <2>1, OrderType, DivMod
  <2>3. 0..Order - 1 \subseteq Int
    BY OrderType
  <2> QED
    BY <2>1, <2>2, <2>3, OrderType, CongruentMod
<1>7. y \in Int /\ Congruent(y, k2 + c * m * t, Order)
  <2>1. k2 + c * m * t \in Int
    BY <1>1, <1>3, <1>4
  <2>2. (k2 + c * m * t) % Order \in 0..Order - 1
    BY <2>1, OrderType, DivMod
  <2>3. 0..Order - 1 \subseteq Int
    BY OrderType
  <2> QED
    BY <2>1, <2>2, <2>3, OrderType, CongruentMod
<1>8. n \in Int /\ Congruent(n, k1 + k2, Order)
  <2>1. k1 + k2 \in Int
    BY <1>1
  <2>2. (k1 + k2) % Order \in 0..Order - 1
    BY <2>1, OrderType, DivMod
  <2>3. 0..Order - 1 \subseteq Int
    BY OrderType
  <2> QED
    BY <2>1, <2>2, <2>3, OrderType, CongruentMod
<1> HIDE DEF x, y, n
<1>9. PICK d \in Int : x = (k1 + c * l * s) + d * Order
  BY <1>6 DEF Congruent
<1>10. PICK e \in Int : y = (k2 + c * m * t) + e * Order
  BY <1>7 DEF Congruent
<1>11. PICK f \in Int : n = (k1 + k2) + f * Order
  BY <1>8 DEF Congruent
<1>12. PICK g \in Int : l * s + m * t = a + g * Order
  BY <1>4 DEF Congruent
<1> DEFINE p == Order
<1>13. p \in Int
  BY OrderType
<1> HIDE DEF p
<1>14. c * l * s + c * m * t = c * a + (c * g) * p
  <2>1. c * l * s + c * m * t = c * (l * s + m * t)
    BY <1>1, <1>2, <1>3, <1>4
  <2>2. c * (a + g * p) = c * a + (c * g) * p
    BY <1>1, <1>12, <1>13
  <2> QED
    BY <1>12, <2>1, <2>2 DEF p
<1>15. x + y + c * alpha = (n + c * (ak + alpha)) + (d + e + (c * g) - f) * p
  <2> DEFINE h == c * g
             w == c * a
             z == c * alpha
             x1 == c * l * s
             y1 == c * m * t
  <2>1. h \in Int /\ w \in Int /\ z \in Int /\ x1 \in Int /\ y1 \in Int
    BY <1>1, <1>2, <1>3, <1>4
  <2>2. x = (k1 + x1) + d * p /\ y = (k2 + y1) + e * p /\ n = (k1 + k2) + f * p
    BY <1>9, <1>10, <1>11 DEF p
  <2>3. x1 + y1 = w + h * p
    BY <1>14
  <2>4. c * (ak + alpha) = w + z
    BY <1>1
  <2> HIDE DEF h, w, z, x1, y1
  <2>5. x + y + z = (n + (w + z)) + (d + e + h - f) * p
    BY <1>1, <1>13, <2>1, <2>2, <2>3
  <2> QED
    BY <2>4, <2>5 DEF h, z
<1>16. d + e + (c * g) - f \in Int /\ x + y + c * alpha \in Int /\ n + c * (ak + alpha) \in Int
  BY <1>1, <1>6, <1>7, <1>8
<1>17. Congruent(x + y + c * alpha, n + c * (ak + alpha), Order)
  BY <1>15, <1>16, Zenon DEF Congruent, p
<1> QED
  BY <1>5, <1>16, <1>17, OrderType, CongruentEqual

\* The share files a process may read.
ShareFiles ==
  [meta : {"2-of-3", "other"}, id : Scalars, secret : Scalars, verifying : Scalars,
   group : Scalars, commitment : [1..2 -> Scalars]]

\* The files as one ceremony dealt them, for one participant or for two.
Dealt(a, b, i, j) ==
  /\ file = IF i = j THEN <<1, 1>> ELSE <<1, 2>>
  /\ share = <<Share(a, b, i), Share(a, b, j)>>

\* What a process that broadcasts needs.
CanSign == config.seed = "good" /\ (config.mode = "frost" => SharesAccepted /\ KeyMatches)

\* A process that runs has what its signer needs, and one that was refused
\* lacks something; neither's files change.
SignerInv ==
  /\ share \in [1..2 -> ShareFiles]
  /\ file \in {<<1, 1>>, <<1, 2>>}
  /\ dealt => \E a, b \in Scalars \ {0}, i, j \in Participants : Dealt(a, b, i, j)
  /\ stage = "up" /\ config.enabled => signer = config.mode
  /\ signer = "frost" => config.mode = "frost" /\ CanSign
  /\ stage = "refused" => ~ConfigValid \/ (config.enabled /\ ~CanSign)

\* What a ceremony deals is a share file.
LEMMA ShareTyped ==
  ASSUME NEW a \in Scalars, NEW b \in Scalars, NEW i \in Participants
  PROVE  Share(a, b, i) \in ShareFiles
<1>1. a \in Int /\ b \in Int /\ i \in Int /\ i \in Scalars
  BY OrderType
<1>2. a + b * i \in Int
  BY <1>1
<1>3. (a + b * i) % Order \in Scalars
  BY <1>2, OrderType, DivMod DEF Scalars
<1>4. <<a, b>> \in [1..2 -> Scalars]
  OBVIOUS
<1> QED
  BY <1>1, <1>3, <1>4 DEF Share, ShareFiles

\* The invariant holds before the process starts.
LEMMA SignerStarts ==
  ASSUME SignerInit
  PROVE  SignerInv
<1>1. PICK s \in Setups : /\ config = s.config /\ ak = s.ak
                          /\ file = IF s.i = s.j THEN <<1, 1>> ELSE <<1, 2>>
                          /\ share = <<Share(s.a, s.b, s.i), Share(s.a, s.b, s.j)>>
  BY DEF SignerInit
<1>2. /\ s.a \in Scalars \ {0} /\ s.b \in Scalars \ {0}
      /\ s.i \in Participants /\ s.j \in Participants
  BY SignerAssumption
<1>3. Share(s.a, s.b, s.i) \in ShareFiles /\ Share(s.a, s.b, s.j) \in ShareFiles
  BY <1>2, ShareTyped
<1>4. share \in [1..2 -> ShareFiles]
  BY <1>1, <1>3
<1>5. file \in {<<1, 1>>, <<1, 2>>}
  BY <1>1
<1>6. Dealt(s.a, s.b, s.i, s.j)
  BY <1>1 DEF Dealt
<1>7. stage = "down" /\ signer = "none"
  BY DEF SignerInit
<1> QED
  BY <1>2, <1>4, <1>5, <1>6, <1>7 DEF SignerInv

\* Files change only while the process is down and has no signer.
LEMMA FilesChange ==
  ASSUME SignerInv, Edit \/ Mix, stage = "down" => signer # "frost"
  PROVE  SignerInv'
<1>1. share' \in [1..2 -> ShareFiles]
  <2>1. ASSUME Edit PROVE share' \in [1..2 -> ShareFiles]
    <3>1. PICK f \in {1, 2} :
            \/ \E v \in Scalars :
                 \/ share' = [share EXCEPT ![f].secret = v]
                 \/ share' = [share EXCEPT ![f].verifying = v]
                 \/ share' = [share EXCEPT ![f].group = v]
                 \/ \E k \in {1, 2} : share' = [share EXCEPT ![f].commitment[k] = v]
                 \/ share' = [share EXCEPT ![f].id = v]
            \/ share' = [share EXCEPT ![f].meta = "other"]
      BY <2>1 DEF Edit
    <3>2. share[f] \in ShareFiles
      BY DEF SignerInv
    <3>3. ASSUME NEW s \in ShareFiles PROVE [share EXCEPT ![f] = s] \in [1..2 -> ShareFiles]
      BY DEF SignerInv
    <3>4. ASSUME NEW v \in Scalars
          PROVE  /\ [share[f] EXCEPT !.secret = v] \in ShareFiles
                 /\ [share[f] EXCEPT !.verifying = v] \in ShareFiles
                 /\ [share[f] EXCEPT !.group = v] \in ShareFiles
                 /\ [share[f] EXCEPT !.id = v] \in ShareFiles
      BY <3>2 DEF ShareFiles
    <3>5. ASSUME NEW v \in Scalars, NEW k \in {1, 2}
          PROVE  [share[f] EXCEPT !.commitment[k] = v] \in ShareFiles
      BY <3>2 DEF ShareFiles
    <3>6. [share[f] EXCEPT !.meta = "other"] \in ShareFiles
      BY <3>2 DEF ShareFiles
    <3> QED
      BY <3>1, <3>3, <3>4, <3>5, <3>6
  <2>2. ASSUME Mix PROVE share' \in [1..2 -> ShareFiles]
    <3>1. PICK f \in {1, 2}, a \in Scalars \ {0}, b \in Scalars \ {0}, i \in Participants :
            share' = [share EXCEPT ![f] = Share(a, b, i)]
      BY <2>2 DEF Mix
    <3>2. Share(a, b, i) \in ShareFiles
      BY ShareTyped
    <3> QED
      BY <3>1, <3>2 DEF SignerInv
  <2> QED
    BY <2>1, <2>2
<1>2. /\ stage = "down" /\ stage' = stage /\ signer' = signer /\ ~dealt'
      /\ file' = file
  BY DEF Edit, Mix
<1> QED
  BY <1>1, <1>2 DEF SignerInv

\* The decision at the start, and that nothing happens after it.
LEMMA SignerSteps ==
  ASSUME SignerInv, stage = "down" => signer # "frost", SignerNext
  PROVE  SignerInv' /\ (stage' = "down" => signer' # "frost")
<1>1. CASE Edit \/ Mix
  <2>1. stage' = stage /\ signer' = signer
    BY <1>1 DEF Edit, Mix
  <2> QED
    BY <1>1, <2>1, FilesChange
<1>2. ASSUME UNCHANGED <<config, ak, file, share, dealt>>
      PROVE  /\ CanSign' <=> CanSign
             /\ ConfigValid' <=> ConfigValid
             /\ \A a, b, i, j : Dealt(a, b, i, j)' <=> Dealt(a, b, i, j)
             /\ share' = share /\ file' = file /\ dealt' = dealt /\ config' = config
  BY <1>2 DEF CanSign, SharesAccepted, KeyMatches, Content, ConfigValid, Dealt
<1>3. CASE StartBadConfig
  BY <1>2, <1>3 DEF StartBadConfig, RefuseStart, SignerInv
<1>4. CASE StartBadWallet
  <2>1. ~CanSign /\ config.enabled
    BY <1>4 DEF StartBadWallet, CanSign
  <2>2. stage = "down" /\ stage' = "refused" /\ signer' = signer
    BY <1>4 DEF StartBadWallet, RefuseStart
  <2>3. UNCHANGED <<config, ak, file, share, dealt>>
    BY <1>4 DEF StartBadWallet, RefuseStart
  <2> QED
    BY <1>2, <2>1, <2>2, <2>3 DEF SignerInv
<1>5. CASE Start
  <2>1. config.enabled => CanSign
    BY <1>5 DEF Start, CanSign
  <2>2. stage' = "up" /\ signer' = IF config.enabled THEN config.mode ELSE "none"
    BY <1>5 DEF Start
  <2>3. UNCHANGED <<config, ak, file, share, dealt>>
    BY <1>5 DEF Start
  <2> QED
    BY <1>2, <2>1, <2>2, <2>3 DEF SignerInv
<1> QED
  BY <1>1, <1>3, <1>4, <1>5 DEF SignerNext

\* What the invariant says of a process that runs or was refused.
LEMMA SignerSound ==
  ASSUME SignerInv
  PROVE  SignerIsSound
<1>1. SignaturesVerify
  <2> SUFFICES ASSUME signer = "frost",
                      NEW k1 \in Scalars, NEW k2 \in Scalars, NEW c \in Scalars,
                      NEW alpha \in Scalars
               PROVE  Verifies(Signature(k1, k2, c, alpha), c, alpha)
    BY DEF SignaturesVerify
  <2>1. SharesAccepted /\ KeyMatches
    BY DEF SignerInv, CanSign
  <2>2. Content(1) \in ShareFiles /\ Content(2) \in ShareFiles
    BY DEF SignerInv, Content
  <2>3. /\ Content(1).id \in Scalars /\ Content(2).id \in Scalars
        /\ Content(1).commitment[1] \in Scalars /\ Content(1).commitment[2] \in Scalars
    BY <2>2 DEF ShareFiles
  <2> DEFINE a == Content(1).commitment[1]
             b == Content(1).commitment[2]
  <2>4. /\ Content(1).id # Content(2).id
        /\ Content(1).secret = (a + b * Content(1).id) % Order
        /\ Content(2).secret = (a + b * Content(2).id) % Order
        /\ ak = a
    BY <2>1 DEF SharesAccepted, ShareValid, KeyMatches
  <2> HIDE DEF a, b
  <2>5. a \in Scalars /\ b \in Scalars
    BY <2>3 DEF a, b
  <2> QED
    BY <2>3, <2>4, <2>5, SharesSign
<1>2. NoFallback
  BY DEF SignerInv, NoFallback
<1>3. DealtSharesStart
  <2> SUFFICES ASSUME dealt, config = FrostConfig, ak = share[1].group, file[1] # file[2],
                      share[1].secret # 0, share[2].secret # 0, stage = "refused"
               PROVE  FALSE
    BY DEF DealtSharesStart
  <2>1. ConfigValid /\ config.seed = "good" /\ config.optIn
    BY DEF FrostConfig, ConfigValid
  <2>2. ~(SharesAccepted /\ KeyMatches)
    BY <2>1 DEF SignerInv, CanSign
  <2>3. PICK a \in Scalars \ {0}, b \in Scalars \ {0}, i \in Participants, j \in Participants :
          Dealt(a, b, i, j)
    BY DEF SignerInv
  <2>4. i # j /\ file = <<1, 2>> /\ share = <<Share(a, b, i), Share(a, b, j)>>
    BY <2>3 DEF Dealt
  <2>5. Content(1) = Share(a, b, i) /\ Content(2) = Share(a, b, j)
    BY <2>4 DEF Content
  <2>6. share[1] = Share(a, b, i) /\ share[2] = Share(a, b, j)
    BY <2>4
  <2>7. ASSUME NEW k \in Participants, Share(a, b, k).secret # 0
        PROVE  ShareValid(Share(a, b, k)) /\ Share(a, b, k).id = k
               /\ Share(a, b, k).group = a /\ Share(a, b, k).commitment = <<a, b>>
    <3>1. k # 0
      BY OrderType
    <3> QED
      BY <2>7, <3>1 DEF ShareValid, Share
  <2>8. KeyMatches
    BY <2>5, <2>6 DEF KeyMatches
  <2>9. SharesAccepted
    BY <2>1, <2>4, <2>5, <2>6, <2>7 DEF SharesAccepted
  <2> QED
    BY <2>2, <2>8, <2>9
<1> QED
  BY <1>1, <1>2, <1>3 DEF SignerIsSound

\* For every prime order, every configuration and every set of ceremonies,
\* damaged or mixed up: the process starts with a signer exactly when it can
\* sign with it (from_files, set_frost_signer, sign).
THEOREM SignersAreSound == FormatsSpec => []SignerIsSound
<1> DEFINE Inv == SignerInv /\ (stage = "down" => signer # "frost")
<1>1. FormatsInit => Inv
  BY SignerStarts DEF FormatsInit, SignerInit
<1>2. Inv /\ [FormatsNext]_formatsVars => Inv'
  <2> SUFFICES ASSUME Inv, [FormatsNext]_formatsVars PROVE Inv'
    OBVIOUS
  <2>1. CASE UNCHANGED signerVars
    BY <2>1 DEF signerVars, SignerInv, Dealt, CanSign, SharesAccepted, KeyMatches, Content,
                ConfigValid
  <2>2. CASE SignerNext
    BY <2>2, SignerSteps
  <2> QED
    BY <2>1, <2>2 DEF FormatsNext, formatsVars
<1>3. Inv => SignerIsSound
  BY SignerSound
<1> HIDE DEF Inv
<1> QED
  BY <1>1, <1>2, <1>3, PTL DEF FormatsSpec

-----------------------------------------------------------------------------
(* The endpoint that takes events in: what holds of its keys and leaves. *)

\* A key's inserted rows and the requests in flight hold numbers that
\* leaves_used has counted, and it never counts past the limit.
Accounts ==
  /\ \A k \in Keys : written[k] \subseteq 1..used[k]
  /\ \A w \in Workers : pc[w] # "idle" /\ caller[w] \in Keys => ticket[w] \in 1..used[caller[w]]
  /\ Quota >= 0 => \A k \in Keys : used[k] <= Quota

\* Requests at the insertion are valid, agent leaves are filed under their
\* agent, and every answer is the hash of its event and of a stored row.
Filing ==
  /\ \A w \in Workers : pc[w] = "insert" => Valid(event[w])
  /\ \A row \in leaves :
       /\ row = Row(row.hash, row.wallet)
       /\ row.hash.type \in DOMAIN AgentFields => row.wallet = row.hash.fields["agent_id"]
  /\ \A a \in answers : /\ Stored(a.hash)
                        /\ \E time \in Nat : a.hash = LeafHash(a.event, time)
                        /\ Valid(a.event)

-----------------------------------------------------------------------------
(* Leaf hashes. *)

\* An agent's leaf hash covers the fields of its type, agent_id among them.
LEMMA AgentHashed ==
  ASSUME NEW type \in DOMAIN AgentFields
  PROVE  Hashed(type) = AgentFields[type] /\ "agent_id" \in Hashed(type)
<1>1. type \in {"AGENT_REGISTER", "AGENT_POLICY", "AGENT_ACTION"}
  BY DEF AgentFields
<1>2. /\ type \notin DOMAIN MachineFields
      /\ type \notin DOMAIN StakingFields
      /\ type \notin DOMAIN GovernanceFields
  BY <1>1 DEF MachineFields, StakingFields, GovernanceFields
<1>3. Hashed(type) = AgentFields[type]
  BY <1>2, Zenon DEF Hashed, HashedAgent
<1>4. "agent_id" \in AgentFields[type]
  BY <1>1 DEF AgentFields
<1> QED
  BY <1>3, <1>4

\* The type and the agent of an event can be read off its leaf hash.
LEMMA AgentOfHash ==
  ASSUME NEW e, NEW time
  PROVE  /\ LeafHash(e, time).type = e.type
         /\ e.type \in DOMAIN AgentFields =>
              LeafHash(e, time).fields["agent_id"] = e.body["agent_id"]
<1>1. LeafHash(e, time).type = e.type
  BY DEF LeafHash
<1>2. ASSUME e.type \in DOMAIN AgentFields
      PROVE  LeafHash(e, time).fields["agent_id"] = e.body["agent_id"]
  <2>1. "agent_id" \in Hashed(e.type)
    BY <1>2, AgentHashed
  <2>2. "agent_id" # Clock
    BY DEF Clock
  <2> QED
    BY <2>1, <2>2 DEF LeafHash
<1> QED
  BY <1>1, <1>2

\* A hash without the clock does not depend on the time.
LEMMA HashWithoutClock ==
  ASSUME NEW e, NEW s, NEW t, Clock \notin Hashed(e.type)
  PROVE  LeafHash(e, s) = LeafHash(e, t)
<1>1. \A f \in Hashed(e.type) : f # Clock
  OBVIOUS
<1> QED
  BY <1>1 DEF LeafHash

\* The insertion of a row keeps the rows, and its hash is stored afterwards.
LEMMA RowAdded ==
  ASSUME NEW hash, NEW wallet
  PROVE  /\ leaves \subseteq AddRow(hash, wallet)
         /\ \E row \in AddRow(hash, wallet) : row.hash = hash
         /\ \A row \in AddRow(hash, wallet) : row \in leaves \/ row = Row(hash, wallet)
         /\ Stored(hash) => AddRow(hash, wallet) = leaves
<1>1. Row(hash, wallet).hash = hash
  BY DEF Row
<1> QED
  BY <1>1 DEF AddRow, Stored

-----------------------------------------------------------------------------
(* Types. *)

LEMMA InitTypeOK == Init => TypeOK
<1> SUFFICES ASSUME Init PROVE TypeOK
  OBVIOUS
<1>1. (CHOOSE e \in Events : TRUE) \in Events
  BY IntakeAssumption DEF IntakeAssumption
<1> QED
  BY <1>1, IntakeAssumption DEF Init, TypeOK, IntakeAssumption, Credentials

LEMMA NextTypeOK == TypeOK /\ [Next]_vars => TypeOK'
<1> SUFFICES ASSUME TypeOK, [Next]_vars PROVE TypeOK'
  OBVIOUS
<1> USE IntakeAssumption DEF IntakeAssumption
<1>1. ASSUME NEW k \in Keys, NEW cred \in Credentials, IssueKey(k, cred) PROVE TypeOK'
  BY <1>1 DEF TypeOK, IssueKey, configVars, workVars, Credentials
<1>2. ASSUME NEW w \in Workers, NEW cred \in Credentials, NEW e \in Events,
             Authorise(w, cred, e)
      PROVE TypeOK'
  <2>1. cred \in issued \cup {Master}
    BY <1>2 DEF Authorise, Chargeable
  <2>2. used' \in [Keys -> Nat] /\ ticket' \in [Workers -> Nat]
    BY <1>2 DEF Authorise, TypeOK
  <2>3. /\ pc' = [pc EXCEPT ![w] = "validate"]
        /\ caller' = [caller EXCEPT ![w] = cred]
        /\ event' = [event EXCEPT ![w] = e]
        /\ calls' = calls + 1
        /\ UNCHANGED <<issued, expires, leaves, hasMaster, trialKeys, stamp, now, restarts,
                       written>>
    BY <1>2 DEF Authorise, configVars
  <2>4. \A v \in Workers : pc'[v] # "idle" => caller'[v] \in issued \cup {Master}
    BY <2>1, <2>3 DEF TypeOK
  <2>5. /\ pc' \in [Workers -> {"idle", "validate", "insert"}]
        /\ caller' \in [Workers -> Credentials]
        /\ event' \in [Workers -> Events]
    BY <2>3 DEF TypeOK
  <2> QED
    BY <2>2, <2>3, <2>4, <2>5 DEF TypeOK
<1>3. ASSUME NEW w \in Workers, Accept(w) PROVE TypeOK'
  BY <1>3 DEF TypeOK, Accept, keyVars, configVars
<1>4. ASSUME NEW w \in Workers, Refuse(w) PROVE TypeOK'
  BY <1>4 DEF TypeOK, Refuse, Answer, keyVars, configVars
<1>5. ASSUME NEW w \in Workers, Insert(w) PROVE TypeOK'
  <2>1. PICK hash, wallet : leaves' = AddRow(hash, wallet)
    BY <1>5 DEF Insert
  <2>2. \A row \in leaves' : DOMAIN row = {"hash", "wallet"}
    BY <2>1, RowAdded DEF TypeOK, Row
  <2>3. written' \in [Keys -> SUBSET Nat]
    BY <1>5 DEF Insert, TypeOK
  <2> QED
    BY <1>5, <2>2, <2>3 DEF TypeOK, Insert, Answer, keyVars, configVars
<1>6. ASSUME NEW w \in Workers, InsertFails(w) PROVE TypeOK'
  BY <1>6 DEF TypeOK, InsertFails, Answer, keyVars, configVars
<1>7. CASE Tick
  BY <1>7 DEF TypeOK, Tick, keyVars, configVars, workVars
<1>8. ASSUME NEW api \in BOOLEAN, NEW trial \in BOOLEAN, Restart(api, trial) PROVE TypeOK'
  BY <1>8 DEF TypeOK, Restart, keyVars
<1>9. CASE UNCHANGED vars
  BY <1>9 DEF TypeOK, vars, keyVars, configVars, workVars
<1> QED
  BY <1>1, <1>2, <1>3, <1>4, <1>5, <1>6, <1>7, <1>8, <1>9 DEF Next, WorkerStep

\* Every variable of the intake keeps its type, and no worker is busy for a
\* caller without a key (TypeOK).
THEOREM IntakeTyped == Spec => []TypeOK
  BY InitTypeOK, NextTypeOK, PTL DEF Spec

-----------------------------------------------------------------------------
(* Accounts. *)

LEMMA InitAccounts == Init => Accounts
  BY DEF Init, Accounts

LEMMA NextAccounts == TypeOK /\ Accounts /\ [Next]_vars => Accounts'
<1> SUFFICES ASSUME TypeOK, Accounts, [Next]_vars PROVE Accounts'
  OBVIOUS
<1> USE IntakeAssumption DEF IntakeAssumption
<1>1. ASSUME NEW k \in Keys, NEW cred \in Credentials, IssueKey(k, cred) PROVE Accounts'
  BY <1>1 DEF Accounts, IssueKey, workVars
<1>2. ASSUME NEW w \in Workers, NEW cred \in Credentials, NEW e \in Events,
             Authorise(w, cred, e)
      PROVE Accounts'
  <2>1. CASE cred = Master /\ UNCHANGED <<used, ticket>>
    BY <1>2, <2>1 DEF Authorise, Accounts, TypeOK
  <2>2. CASE /\ cred \in Keys /\ Chargeable(cred)
             /\ used' = [used EXCEPT ![cred] = @ + 1]
             /\ ticket' = [ticket EXCEPT ![w] = used[cred] + 1]
    <3>1. \A k \in Keys : used'[k] \in Nat /\ used[k] <= used'[k]
      BY <2>2 DEF TypeOK
    <3>2. \A k \in Keys : written'[k] \subseteq 1..used'[k]
      BY <1>2, <3>1 DEF Authorise, Accounts, TypeOK
    <3>3. ticket'[w] \in 1..used'[cred] /\ caller'[w] = cred
      BY <1>2, <2>2 DEF Authorise, TypeOK
    <3>4. \A v \in Workers \ {w} : pc'[v] = pc[v] /\ caller'[v] = caller[v] /\ ticket'[v] = ticket[v]
      BY <1>2, <2>2 DEF Authorise, TypeOK
    <3>5. \A v \in Workers : pc'[v] # "idle" /\ caller'[v] \in Keys => ticket'[v] \in 1..used'[caller'[v]]
      BY <3>1, <3>3, <3>4 DEF Accounts, TypeOK
    <3>6. Quota >= 0 => used[cred] < Quota
      BY <2>2 DEF Chargeable, HasQuota
    <3>7. Quota >= 0 => \A k \in Keys : used'[k] <= Quota
      BY <2>2, <3>6 DEF Accounts, TypeOK
    <3> QED
      BY <3>2, <3>5, <3>7 DEF Accounts
  <2> QED
    BY <1>2, <2>1, <2>2 DEF Authorise
<1>3. ASSUME NEW w \in Workers, Accept(w) PROVE Accounts'
  BY <1>3 DEF Accounts, Accept, keyVars, TypeOK
<1>4. ASSUME NEW w \in Workers, Refuse(w) PROVE Accounts'
  BY <1>4 DEF Accounts, Refuse, Answer, keyVars, TypeOK
<1>5. ASSUME NEW w \in Workers, Insert(w) PROVE Accounts'
  <2>1. pc[w] = "insert" /\ UNCHANGED <<used, caller, ticket>>
    BY <1>5 DEF Insert, Answer, keyVars
  <2>2. \A v \in Workers : pc'[v] # "idle" => pc'[v] = pc[v]
    BY <1>5 DEF Insert, Answer, TypeOK
  <2>3. written' = written \/ (/\ caller[w] \in Keys
                               /\ written' = [written EXCEPT ![caller[w]] = @ \cup {ticket[w]}])
    BY <1>5 DEF Insert
  <2>4. caller[w] \in Keys => ticket[w] \in 1..used[caller[w]]
    BY <2>1 DEF Accounts
  <2>5. \A k \in Keys : written'[k] \subseteq 1..used[k]
    BY <2>3, <2>4 DEF Accounts, TypeOK
  <2> QED
    BY <2>1, <2>2, <2>5 DEF Accounts
<1>6. ASSUME NEW w \in Workers, InsertFails(w) PROVE Accounts'
  BY <1>6 DEF Accounts, InsertFails, Answer, keyVars, TypeOK
<1>7. CASE Tick
  BY <1>7 DEF Accounts, Tick, keyVars, workVars
<1>8. ASSUME NEW api \in BOOLEAN, NEW trial \in BOOLEAN, Restart(api, trial) PROVE Accounts'
  BY <1>8 DEF Accounts, Restart, keyVars
<1>9. CASE UNCHANGED vars
  BY <1>9 DEF Accounts, vars, keyVars, workVars
<1> QED
  BY <1>1, <1>2, <1>3, <1>4, <1>5, <1>6, <1>7, <1>8, <1>9 DEF Next, WorkerStep

LEMMA AccountsQuota == TypeOK /\ Accounts => QuotaHolds
<1> SUFFICES ASSUME TypeOK, Accounts, Quota >= 0, NEW k \in Keys
             PROVE  written[k] \subseteq 1..used[k] /\ Cardinality(written[k]) <= Quota
  BY DEF QuotaHolds
<1>1. written[k] \subseteq 1..used[k] /\ used[k] \in Nat /\ used[k] <= Quota
  BY DEF Accounts, TypeOK
<1>2. IsFiniteSet(1..used[k]) /\ Cardinality(1..used[k]) = used[k]
  <2>1. 1 \in Int /\ used[k] \in Int
    BY <1>1
  <2>2. /\ IsFiniteSet(1..used[k])
        /\ Cardinality(1..used[k]) = IF 1 > used[k] THEN 0 ELSE used[k] - 1 + 1
    BY <2>1, FS_Interval
  <2> QED
    BY <1>1, <2>2
<1>3. IsFiniteSet(written[k]) /\ Cardinality(written[k]) <= Cardinality(1..used[k])
  BY <1>1, <1>2, FS_Subset
<1>4. Cardinality(written[k]) \in Nat
  BY <1>3, FS_CardinalityType
<1> QED
  BY <1>1, <1>2, <1>3, <1>4, IntakeAssumption DEF IntakeAssumption

\* However its requests overlap, fail, are refused or cut off by a restart, a
\* delegated key adds no more leaves than its limit (QuotaHolds).
THEOREM QuotaIsKept == Spec => []QuotaHolds
<1>1. Init => TypeOK /\ Accounts
  BY InitTypeOK, InitAccounts
<1>2. (TypeOK /\ Accounts) /\ [Next]_vars => (TypeOK /\ Accounts)'
  BY NextTypeOK, NextAccounts
<1> QED
  BY <1>1, <1>2, AccountsQuota, PTL DEF Spec

-----------------------------------------------------------------------------
(* Filing. *)

LEMMA InitFiling == Init => Filing
  BY DEF Init, Filing

\* A step that adds neither leaf nor answer has only its insertions to show.
LEMMA SameFiling ==
  ASSUME Filing, UNCHANGED <<leaves, answers>>,
         \A w \in Workers : pc'[w] = "insert" => Valid(event'[w])
  PROVE  Filing'
  BY DEF Filing, Stored, Valid, BodyValid, SubjectValid, FieldsValid

LEMMA NextFiling == TypeOK /\ Filing /\ [Next]_vars => Filing'
<1> SUFFICES ASSUME TypeOK, Filing, [Next]_vars PROVE Filing'
  OBVIOUS
<1>0. ASSUME UNCHANGED <<leaves, answers>>,
             \A w \in Workers : pc'[w] = "insert" => pc[w] = "insert" /\ event'[w] = event[w]
      PROVE Filing'
  BY <1>0, SameFiling DEF Filing
<1>1. ASSUME NEW k \in Keys, NEW cred \in Credentials, IssueKey(k, cred) PROVE Filing'
  BY <1>0, <1>1 DEF IssueKey, workVars
<1>2. ASSUME NEW w \in Workers, NEW cred \in Credentials, NEW e \in Events,
             Authorise(w, cred, e)
      PROVE Filing'
  BY <1>0, <1>2 DEF Authorise, TypeOK
<1>3. ASSUME NEW w \in Workers, Accept(w) PROVE Filing'
  <2>1. Valid(event[w]) /\ event' = event /\ UNCHANGED <<leaves, answers>>
    BY <1>3 DEF Accept
  <2>2. \A v \in Workers : pc'[v] = "insert" => Valid(event'[v])
    BY <1>3, <2>1 DEF Accept, Filing, TypeOK
  <2> QED
    BY <2>1, <2>2, SameFiling
<1>4. ASSUME NEW w \in Workers, Refuse(w) PROVE Filing'
  BY <1>0, <1>4 DEF Refuse, Answer, TypeOK
<1>5. ASSUME NEW w \in Workers, Insert(w) PROVE Filing'
  <2> DEFINE e == event[w]
             hash == LeafHash(e, stamp[w])
             wallet == e.body[Subject(e.type)]
  <2>1. /\ pc[w] = "insert"
        /\ leaves' = AddRow(hash, wallet)
        /\ answers' = answers \cup {[event |-> e, hash |-> hash]}
        /\ pc' = [pc EXCEPT ![w] = "idle"] /\ event' = event
    BY <1>5 DEF Insert, Answer
  <2>2. Valid(e) /\ stamp[w] \in Nat
    BY <2>1 DEF Filing, TypeOK
  <2> HIDE DEF e, hash, wallet
  <2>3. \A v \in Workers : pc'[v] = "insert" => Valid(event'[v])
    BY <2>1 DEF Filing, TypeOK
  <2>4. hash.type \in DOMAIN AgentFields => wallet = hash.fields["agent_id"]
    BY AgentOfHash DEF hash, wallet, Subject
  <2>5. \A row \in leaves' :
          /\ row = Row(row.hash, row.wallet)
          /\ row.hash.type \in DOMAIN AgentFields => row.wallet = row.hash.fields["agent_id"]
    BY <2>1, <2>4, RowAdded DEF Filing, Row
  <2>6. \A a \in answers' : \E row \in leaves' : row.hash = a.hash
    BY <2>1, RowAdded DEF Filing, Stored
  <2>7. \A a \in answers' : (\E time \in Nat : a.hash = LeafHash(a.event, time)) /\ Valid(a.event)
    BY <2>1, <2>2 DEF Filing, hash
  <2> QED
    BY <2>3, <2>5, <2>6, <2>7 DEF Filing, Stored, Valid, BodyValid, SubjectValid, FieldsValid
<1>6. ASSUME NEW w \in Workers, InsertFails(w) PROVE Filing'
  BY <1>0, <1>6 DEF InsertFails, Answer, TypeOK
<1>7. CASE Tick
  BY <1>0, <1>7 DEF Tick, workVars
<1>8. ASSUME NEW api \in BOOLEAN, NEW trial \in BOOLEAN, Restart(api, trial) PROVE Filing'
  BY <1>0, <1>8 DEF Restart
<1>9. CASE UNCHANGED vars
  BY <1>0, <1>9 DEF vars, workVars
<1> QED
  BY <1>1, <1>2, <1>3, <1>4, <1>5, <1>6, <1>7, <1>8, <1>9 DEF Next, WorkerStep

LEMMA FilingInvariant == Spec => [](TypeOK /\ Filing)
<1>1. Init => TypeOK /\ Filing
  BY InitTypeOK, InitFiling
<1>2. (TypeOK /\ Filing) /\ [Next]_vars => (TypeOK /\ Filing)'
  BY NextTypeOK, NextFiling
<1> QED
  BY <1>1, <1>2, PTL DEF Spec

LEMMA FilingAgrees == Filing => AgentSubjectAgrees
<1> SUFFICES ASSUME Filing, NEW a \in answers, a.event.type \in DOMAIN AgentFields
             PROVE  /\ Row(a.hash, a.event.body["agent_id"]) \in leaves
                    /\ a.event.body["agent_id"] = a.event.body["wallet_hash"]
  BY DEF AgentSubjectAgrees
<1>1. PICK row \in leaves : row.hash = a.hash
  BY DEF Filing, Stored
<1>2. PICK time \in Nat : a.hash = LeafHash(a.event, time)
  BY DEF Filing
<1>3. row.wallet = a.event.body["agent_id"]
  BY <1>1, <1>2, AgentOfHash DEF Filing
<1>4. Row(a.hash, a.event.body["agent_id"]) \in leaves
  BY <1>1, <1>3 DEF Filing
<1> QED
  BY <1>4 DEF Filing, Valid, SubjectValid

\* Whoever filed the row first, an agent event that was answered 201 is in the
\* history of its agent (AgentSubjectAgrees).
THEOREM AgentsAreListed == Spec => []AgentSubjectAgrees
  BY FilingInvariant, FilingAgrees, PTL

LEMMA RepeatAddsNothing ==
  ASSUME TypeOK, Filing, [Next]_vars, NEW w \in Workers,
         pc[w] = "insert", NEW a \in answers, a.event = event[w],
         Clock \notin Hashed(event[w].type), pc'[w] # "insert"
  PROVE  UNCHANGED leaves
<1>1. ASSUME NEW v \in Workers, Insert(v), v # w PROVE pc'[w] = "insert"
  BY <1>1 DEF Insert, Answer, TypeOK
<1>2. ASSUME Insert(w) PROVE UNCHANGED leaves
  <2>1. PICK time \in Nat : a.hash = LeafHash(event[w], time)
    BY DEF Filing
  <2>2. a.hash = LeafHash(event[w], stamp[w])
    BY <2>1, HashWithoutClock
  <2>3. Stored(LeafHash(event[w], stamp[w]))
    BY <2>2 DEF Filing
  <2> QED
    BY <1>2, <2>3, RowAdded DEF Insert
<1>3. UNCHANGED leaves \/ \E v \in Workers : Insert(v)
  BY DEF Next, WorkerStep, IssueKey, Authorise, Accept, Refuse, InsertFails, Answer, Tick,
         Restart, vars
<1> QED
  BY <1>1, <1>2, <1>3

\* A request repeated after its answer was lost adds no second leaf
\* (RetryAddsNothing).
THEOREM RetriesAreHarmless == Spec => RetryAddsNothing
<1>1. (TypeOK /\ Filing) /\ [Next]_vars =>
        [\A w \in Workers :
           /\ pc[w] = "insert" /\ \E a \in answers : a.event = event[w]
           /\ Clock \notin Hashed(event[w].type)
           => UNCHANGED leaves \/ pc'[w] = "insert"]_vars
  BY RepeatAddsNothing
<1> QED
  BY <1>1, FilingInvariant, PTL DEF Spec, RetryAddsNothing
===============================================================================
