---------------------------- MODULE MCAnchorWallet ----------------------------
(* Chains and bounds for AnchorWallet. *)
EXTENDS AnchorWallet

\* Kinds of block: without Orchard actions, somebody else's, one of ours among
\* them, and a spend of our oldest unspent note that returns change.
Kinds == {"empty", "other", "receive", "spend"}

Plain == [ours |-> FALSE, spends |-> None]

\* Our notes in the first blocks of c that no block of c spends.
Unspent(c) ==
  LET ids == {id \in (1 .. Len(c)) \X (1 .. 2) : id[2] \in DOMAIN c[id[1]]}
      spent == {c[id[1]][id[2]].spends : id \in ids}
  IN {id \in ids : c[id[1]][id[2]].ours /\ id \notin spent}

Block(kind, c) ==
  CASE kind = "empty" -> <<>>
    [] kind = "other" -> <<Plain>>
    [] kind = "receive" -> <<Plain, [ours |-> TRUE, spends |-> None]>>
    [] kind = "spend" ->
         LET oldest == CHOOSE id \in Unspent(c) : \A o \in Unspent(c) : id[1] <= o[1]
         IN <<[ours |-> TRUE, spends |-> IF Unspent(c) = {} THEN None ELSE oldest]>>

RECURSIVE Build(_)
Build(kinds) ==
  IF kinds = <<>> THEN <<>>
  ELSE LET c == Build(SubSeq(kinds, 1, Len(kinds) - 1))
       IN Append(c, Block(kinds[Len(kinds)], c))

\* Two blocks to seed from, then payments and spends.
MCChains ==
  {Build(<<"other", "empty">> \o k) : k \in
     {<<"receive", "spend", "other">>, <<"receive", "receive", "spend">>,
      <<"receive", "empty", "spend">>}}

===============================================================================
