------------------------------ MODULE MCFormats -------------------------------
(***************************************************************************)
(* Values for checking Formats: few leaves, short strings, sizes on both   *)
(* sides of every boundary, and the ceremonies of a group of order five.   *)
(***************************************************************************)
EXTENDS Formats

MCLeaves == {<<"leaf", 1>>, <<"leaf", 2>>}

\* The last one does not fit behind a length prefix of two bytes of two values.
MCStrings == {<<>>, <<0>>, <<0, 1>>, <<1, 0, 0, 1>>}

PartTypes == {1, Widest + 1, Max16 - 1}
PartValues == {<<>>, <<0>>, <<Tvlv, 1>>, [i \in 1..Widest + 1 |-> 1]}
AllParts == [type : PartTypes, version : {0, Byte - 1}, value : PartValues]

\* Single bytes, and sizes in each form that can hold them.
AllPieces ==
  {<<b>> : b \in 0..Byte - 1}
  \cup {Form(n, 4) : n \in {1, Widest + 1, Max16 + 1}}
  \cup {Form(n, 2) : n \in {1, Byte + 1}}
  \cup {Form(Max32, 8), Form(Max64 - 1, 8)}

AllTypeFields ==
  [kind : {"two digits", "one digit", "signed", "no digits"}, value : KnownTypes \cup {0}]
AllPayloadFields ==
  [kind : {"hex", "signed pairs", "no hex"}, length : {62, 64}, value : {"p", "q"}]

\* Every configuration with one ceremony, every ceremony with FROST configured.
Configs ==
  [mode : {"single_key", "frost", "FROST"}, optIn : BOOLEAN, testnet : BOOLEAN,
   seed : {"good", "bad", "absent"}, paths : {"none", "one", "both"}, enabled : BOOLEAN]

AllSetups ==
  {[config |-> c, ak |-> 1, a |-> 1, b |-> 2, i |-> 2, j |-> 3] : c \in Configs}
  \cup {[config |-> FrostConfig, ak |-> 1, a |-> a, b |-> b, i |-> p[1], j |-> p[2]] :
          a \in {1, 2}, b \in 1..Order - 1, p \in {<<1, 2>>, <<2, 3>>, <<3, 1>>, <<2, 2>>}}
===============================================================================
