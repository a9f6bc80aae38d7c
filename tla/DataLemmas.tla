------------------------------ MODULE DataLemmas ------------------------------
(***************************************************************************)
(* What the other proof modules need to know of numbers, loops, tables,    *)
(* hash trees, sums and byte strings.  A set of numbers has a least one,   *)
(* so a statement about numbers can be proved by induction on a set; a     *)
(* table whose rows are read in the order of their ids is a sequence; a    *)
(* tree of merkle.rs binds its leaves, and the proof it gives for a leaf   *)
(* leads to its root; a sum over a finite set does not depend on the order *)
(* in which it is taken; an integer that fits into so many bytes can be    *)
(* read back from them, and so can the fields that are written one behind  *)
(* the other.                                                              *)
(***************************************************************************)
EXTENDS MerkleTree, Bytes, SequenceTheorems, FiniteSetTheorems, WellFoundedInduction, TLAPS

-----------------------------------------------------------------------------
(* Numbers. *)

LEMMA LeastNat ==
  ASSUME NEW T, T \subseteq Nat, T # {}
  PROVE  \E x \in T : \A y \in T : x <= y
<1>1. \E R : /\ \E x \in T : \A y \in T : ~ (<<y, x>> \in R)
             /\ \A x, y \in Nat : <<y, x>> \in R <=> y < x
  <2>1. \E x \in T : \A y \in T : ~ (<<y, x>> \in OpToRel(<, Nat))
    BY NatLessThanWellFounded, WFMin
  <2>2. \A x, y \in Nat : <<y, x>> \in OpToRel(<, Nat) <=> y < x
    BY DEF OpToRel
  <2> WITNESS OpToRel(<, Nat)
  <2> QED
    BY <2>1, <2>2, Zenon
<1>2. PICK R : /\ \E x \in T : \A y \in T : ~ (<<y, x>> \in R)
               /\ \A x, y \in Nat : <<y, x>> \in R <=> y < x
  BY <1>1
<1>3. PICK x \in T : \A y \in T : ~ (<<y, x>> \in R)
  BY <1>2
<1>4. ASSUME NEW y \in T PROVE x <= y
  <2>1. x \in Nat /\ y \in Nat
    OBVIOUS
  <2>2. ~(y < x)
    BY <1>2, <1>3, <2>1
  <2> QED
    BY <2>1, <2>2
<1> QED
  BY <1>3, <1>4

\* Induction: a set that starts at 0 and has no last number is all of them.
LEMMA InductiveSet ==
  ASSUME NEW S, 0 \in S, \A n \in Nat : n \in S => n + 1 \in S
  PROVE  Nat \subseteq S
<1> SUFFICES ASSUME ~(Nat \subseteq S) PROVE FALSE
  OBVIOUS
<1> DEFINE T == {n \in Nat : n \notin S}
<1>1. T \subseteq Nat /\ T # {}
  OBVIOUS
<1>2. PICK x \in T : \A y \in T : x <= y
  BY <1>1, LeastNat
<1>3. x \in Nat /\ x # 0 /\ x \notin S
  OBVIOUS
<1>4. x - 1 \in Nat /\ x - 1 \notin T
  BY <1>2, <1>3
<1>5. (x - 1) + 1 \in S
  BY <1>4
<1> QED
  BY <1>3, <1>5

\* The same up to a bound.
LEMMA InductiveUpTo ==
  ASSUME NEW N \in Nat, NEW S, 0 \in S, \A n \in 0..N - 1 : n \in S => n + 1 \in S
  PROVE  0..N \subseteq S
<1> DEFINE U == {n \in Nat : n <= N => n \in S}
<1>1. 0 \in U
  OBVIOUS
<1>2. ASSUME NEW n \in Nat, n \in U PROVE n + 1 \in U
  BY <1>2
<1>3. Nat \subseteq U
  <2> HIDE DEF U
  <2> QED
    BY <1>1, <1>2, InductiveSet
<1> QED
  BY <1>3

\* A bounded set of numbers has a greatest one.
LEMMA GreatestNat ==
  ASSUME NEW N \in Nat, NEW T, T \subseteq 0..N, T # {}
  PROVE  \E x \in T : \A y \in T : x >= y
<1> DEFINE U == {N - x : x \in T}
<1>1. U \subseteq Nat /\ U # {}
  <2>1. \A x \in T : N - x \in Nat
    OBVIOUS
  <2>2. PICK x : x \in T
    OBVIOUS
  <2>3. N - x \in U
    BY <2>2
  <2> QED
    BY <2>1, <2>3
<1>2. PICK u \in U : \A v \in U : u <= v
  BY <1>1, LeastNat
<1>3. PICK x \in T : u = N - x
  BY <1>2
<1>4. ASSUME NEW y \in T PROVE x >= y
  <2>1. N - y \in U
    OBVIOUS
  <2>2. N - x <= N - y /\ x \in 0..N /\ y \in 0..N
    BY <1>2, <1>3, <2>1
  <2> QED
    BY <2>2
<1> QED
  BY <1>4

\* Division with remainder.
LEMMA DivMod ==
  ASSUME NEW x \in Int, NEW q \in Nat \ {0}
  PROVE  x \div q \in Int /\ x % q \in 0..q - 1 /\ x = q * (x \div q) + (x % q)
  OBVIOUS

\* Quotient and remainder are the only ones.
LEMMA DivModUnique ==
  ASSUME NEW x \in Int, NEW q \in Nat \ {0}, NEW k \in Int, NEW r \in 0..q - 1, x = q * k + r
  PROVE  x \div q = k /\ x % q = r
  OBVIOUS

\* Dividing twice is dividing by the product.
LEMMA DivTwice ==
  ASSUME NEW n \in Nat, NEW a \in Nat \ {0}, NEW b \in Nat \ {0}
  PROVE  a * b \in Nat \ {0} /\ (n \div a) \div b = n \div (a * b)
<1> DEFINE q == n \div a
           r == n % a
           s == q \div b
           t == q % b
<1>1. q \in Int /\ r \in 0..a - 1 /\ n = a * q + r
  BY DivMod
<1> HIDE DEF q, r
<1>2. s \in Int /\ t \in 0..b - 1 /\ q = b * s + t
  BY <1>1, DivMod
<1> HIDE DEF s, t
<1>3. a * b \in Nat \ {0}
  OBVIOUS
<1>4. a * t + r \in 0..a * b - 1
  <2>1. a * t >= 0 /\ a * t \in Int
    BY <1>2
  <2>2. a * t <= a * (b - 1)
    <3>1. t <= b - 1 /\ t \in Nat /\ b - 1 \in Nat
      BY <1>2
    <3>2. t * a <= (b - 1) * a
      BY <3>1
    <3> QED
      BY <3>1, <3>2
  <2>3. a * (b - 1) = a * b - a
    OBVIOUS
  <2> QED
    BY <1>1, <1>3, <2>1, <2>2, <2>3
<1>5. n = (a * b) * s + (a * t + r)
  <2>1. a * q = a * (b * s + t)
    BY <1>2
  <2>2. a * (b * s + t) = (a * b) * s + a * t
    BY <1>2
  <2> QED
    BY <1>1, <1>2, <2>1, <2>2
<1>6. n \div (a * b) = s
  <2> DEFINE x == a * t + r
             y == a * b
  <2>1. x \in 0..y - 1 /\ y \in Nat \ {0} /\ n = y * s + x
    BY <1>3, <1>4, <1>5
  <2> HIDE DEF x, y
  <2>2. n \div y = s
    BY <1>2, <2>1, DivModUnique
  <2> QED
    BY <2>2 DEF y
<1> QED
  BY <1>3, <1>6 DEF s, q

\* f holds the values of a loop of n turns, from the first one on.
IsLoop(f, X, first, n, step) ==
  /\ f \in [0..n -> X]
  /\ f[0] = first /\ \A i \in 1..n : f[i] = step[i][f[i - 1]]

\* A loop whose turns stay in a set has a result: the function that a
\* recursive definition asks for exists.
LEMMA LoopDefined ==
  ASSUME NEW X, NEW first \in X, NEW n \in Nat,
         NEW step \in [1..n -> [X -> X]]
  PROVE  \E f : IsLoop(f, X, first, n, step)
<1> DEFINE Runs(f, m) == /\ f \in [0..m -> X] /\ f[0] = first
                         /\ \A i \in 1..m : f[i] = step[i][f[i - 1]]
           S == {m \in 0..n : \E f : Runs(f, m)}
<1>1. 0 \in S
  <2>1. Runs([i \in 0..0 |-> first], 0)
    OBVIOUS
  <2>2. 0 \in 0..n
    OBVIOUS
  <2> HIDE DEF Runs
  <2> QED
    BY <2>1, <2>2
<1>2. ASSUME NEW m \in 0..n - 1, m \in S PROVE m + 1 \in S
  <2>1. PICK f : Runs(f, m)
    BY <1>2
  <2> DEFINE last == step[m + 1][f[m]]
  <2>2. last \in X
    <3>1. m \in 0..m /\ m + 1 \in 1..n
      OBVIOUS
    <3>2. f[m] \in X
      BY <2>1, <3>1
    <3> QED
      BY <3>1, <3>2
  <2>3. last = step[m + 1][f[m]]
    OBVIOUS
  <2> HIDE DEF last
  <2> DEFINE g == [i \in 0..m + 1 |-> IF i = m + 1 THEN last ELSE f[i]]
  <2>4. g \in [0..m + 1 -> X] /\ g[0] = first
    BY <2>1, <2>2
  <2>5. ASSUME NEW i \in 1..m + 1 PROVE g[i] = step[i][g[i - 1]]
    <3>1. CASE i = m + 1
      <4>1. g[i] = last /\ g[i - 1] = f[m] /\ i = m + 1
        BY <3>1
      <4> HIDE DEF g
      <4> QED
        BY <2>3, <4>1
    <3>2. CASE i # m + 1
      <4>1. g[i] = f[i] /\ g[i - 1] = f[i - 1] /\ i \in 1..m
        BY <3>2
      <4> HIDE DEF g
      <4> QED
        BY <2>1, <4>1
    <3> QED
      BY <3>1, <3>2
  <2> HIDE DEF g
  <2>6. Runs(g, m + 1)
    BY <2>4, <2>5
  <2>7. m + 1 \in 0..n
    OBVIOUS
  <2> QED
    BY <2>6, <2>7
<1> HIDE DEF S
<1>3. 0..n \subseteq S
  BY <1>1, <1>2, InductiveUpTo
<1>4. n \in S
  BY <1>3
<1> QED
  BY <1>4 DEF S, IsLoop

-----------------------------------------------------------------------------
(* Tables. *)

RowsIn(table) == {table[k] : k \in DOMAIN table}

\* A sequence, whatever its rows are.
IsTable(table) == table \in Seq(RowsIn(table))

LEMMA ListIsSequence ==
  ASSUME NEW S, NEW n \in Nat, NEW list \in [1..n -> S]
  PROVE  list \in Seq(S) /\ Len(list) = n
<1>1. list \in Seq(S)
  OBVIOUS
<1> QED
  BY <1>1, LenProperties

LEMMA TableIndexes ==
  ASSUME NEW table, IsTable(table)
  PROVE  Len(table) \in Nat /\ DOMAIN table = 1..Len(table)
  BY LenProperties DEF IsTable

LEMMA TypedTable ==
  ASSUME NEW S, NEW table \in Seq(S)
  PROVE  IsTable(table)
<1>1. Len(table) \in Nat /\ table \in [1..Len(table) -> S]
  BY LenProperties
<1>2. table \in [1..Len(table) -> RowsIn(table)]
  BY <1>1 DEF RowsIn
<1> QED
  BY <1>1, <1>2 DEF IsTable

\* INSERT: a new last row.
LEMMA InsertRow ==
  ASSUME NEW table, IsTable(table), NEW row
  PROVE  /\ IsTable(Append(table, row))
         /\ Len(Append(table, row)) = Len(table) + 1
         /\ DOMAIN Append(table, row) = 1..Len(table) + 1
         /\ \A k \in DOMAIN table : Append(table, row)[k] = table[k]
         /\ Append(table, row)[Len(table) + 1] = row
<1> DEFINE S == RowsIn(table) \cup {row}
<1>1. table \in Seq(S)
  <2>1. Len(table) \in Nat /\ table \in [1..Len(table) -> RowsIn(table)]
    BY LenProperties DEF IsTable
  <2>2. table \in [1..Len(table) -> S]
    BY <2>1
  <2> QED
    BY <2>1, <2>2
<1>2. Append(table, row) \in Seq(S)
  BY <1>1, AppendProperties
<1>3. IsTable(Append(table, row))
  BY <1>2, TypedTable
<1>4. /\ Len(Append(table, row)) = Len(table) + 1
      /\ \A k \in 1..Len(table) : Append(table, row)[k] = table[k]
      /\ Append(table, row)[Len(table) + 1] = row
  BY <1>1, AppendProperties
<1> QED
  BY <1>3, <1>4, TableIndexes

\* UPDATE: the row at k becomes row; there may be none at k.
LEMMA UpdateRow ==
  ASSUME NEW table, IsTable(table), NEW k, NEW row
  PROVE  /\ IsTable([table EXCEPT ![k] = row])
         /\ Len([table EXCEPT ![k] = row]) = Len(table)
         /\ DOMAIN [table EXCEPT ![k] = row] = DOMAIN table
<1> DEFINE S == RowsIn(table) \cup {row}
           new == [table EXCEPT ![k] = row]
<1>1. Len(table) \in Nat /\ table \in [1..Len(table) -> RowsIn(table)]
  BY LenProperties DEF IsTable
<1>2. new \in [1..Len(table) -> S]
  BY <1>1
<1>3. new \in Seq(S)
  BY <1>1, <1>2
<1>4. Len(new) = Len(table)
  BY <1>1, <1>2, <1>3, LenProperties
<1> QED
  BY <1>3, <1>4, TypedTable, TableIndexes

\* The first n rows.
LEMMA PrefixRows ==
  ASSUME NEW table, IsTable(table), NEW n \in 0..Len(table)
  PROVE  SubSeq(table, 1, n) = [k \in 1..n |-> table[k]]
<1>1. SubSeq(table, 1, n) = Restrict(table, 1..n)
  BY SubSeqRestrict DEF IsTable
<1> QED
  BY <1>1 DEF Restrict

LEMMA WholeTable ==
  ASSUME NEW table, IsTable(table)
  PROVE  SubSeq(table, 1, Len(table)) = table
  BY SubSeqFull DEF IsTable
-----------------------------------------------------------------------------
(* Trees.  The recursive functions of MerkleTree exist, that is, the loops *)
(* they stand for end and give one result.                                 *)

Shapes == {"bound", "legacy"}

LEMMA LevelsDefined ==
  ASSUME NEW shape, NEW leaves, Len(leaves) \in Nat \ {0}
  PROVE  LET level == Levels(shape, leaves) IN
         /\ level[0] = leaves
         /\ \A n \in 1..Len(leaves) - 1 : level[n] = PairUp(shape, level[n - 1])
<1> DEFINE N == Len(leaves) - 1
           Up(f, m) == [n \in 0..m |-> IF n = 0 THEN leaves ELSE PairUp(shape, f[n - 1])]
           S == {m \in Nat : \E f : f = Up(f, m)}
<1>1. 0 \in S
  <2>1. [n \in 0..0 |-> leaves] = Up([n \in 0..0 |-> leaves], 0)
    OBVIOUS
  <2> QED
    BY <2>1
<1>2. ASSUME NEW m \in Nat, m \in S PROVE m + 1 \in S
  <2>1. PICK f : f = Up(f, m)
    BY <1>2
  <2> DEFINE g == [n \in 0..m + 1 |-> IF n = m + 1 THEN PairUp(shape, f[m]) ELSE f[n]]
  <2>2. ASSUME NEW n \in 0..m + 1 PROVE g[n] = Up(g, m + 1)[n]
    <3>1. CASE n = 0
      BY <2>1, <3>1
    <3>2. CASE n \in 1..m
      <4>1. g[n] = f[n] /\ g[n - 1] = f[n - 1]
        BY <3>2
      <4>2. f[n] = PairUp(shape, f[n - 1])
        BY <2>1, <3>2
      <4>3. Up(g, m + 1)[n] = PairUp(shape, g[n - 1])
        BY <3>2
      <4> QED
        BY <4>1, <4>2, <4>3
    <3>3. CASE n = m + 1
      <4>1. g[n] = PairUp(shape, f[m]) /\ g[n - 1] = f[m]
        BY <3>3
      <4>2. Up(g, m + 1)[n] = PairUp(shape, g[n - 1])
        BY <3>3
      <4> QED
        BY <4>1, <4>2
    <3> QED
      BY <3>1, <3>2, <3>3
  <2>3. g = Up(g, m + 1)
    BY <2>2
  <2> HIDE DEF g
  <2> QED
    BY <2>3
<1>3. \E f : f = Up(f, N)
  <2>1. N \in Nat
    OBVIOUS
  <2>2. N \in S
    <3> HIDE DEF S
    <3> QED
      BY <1>1, <1>2, <2>1, InductiveSet
  <2> QED
    BY <2>2
<1>4. Levels(shape, leaves) = Up(Levels(shape, leaves), N)
  BY <1>3 DEF Levels
<1> QED
  BY <1>4

\* The level above a level with more than one node.
LEMMA LevelAbove ==
  ASSUME NEW shape, NEW level, IsTable(level), Len(level) > 1
  PROVE  LET up == PairUp(shape, level) IN
         /\ IsTable(up) /\ Len(up) = (Len(level) + 1) \div 2
         /\ Len(up) \in 1..Len(level) - 1
         /\ \A k \in 1..Len(up) :
              up[k] = IF 2*k <= Len(level) THEN HashNode(level[2*k - 1], level[2*k])
                      ELSE IF shape = "legacy" THEN HashNode(level[2*k - 1], level[2*k - 1])
                      ELSE level[2*k - 1]
<1> DEFINE half == (Len(level) + 1) \div 2
           node(k) == IF 2*k <= Len(level) THEN HashNode(level[2*k - 1], level[2*k])
                      ELSE IF shape = "legacy" THEN HashNode(level[2*k - 1], level[2*k - 1])
                      ELSE level[2*k - 1]
           up == PairUp(shape, level)
<1>1. Len(level) \in Nat /\ half \in 1..Len(level) - 1
  BY TableIndexes
<1>2. up = [k \in 1..half |-> node(k)]
  BY <1>1 DEF PairUp
<1> DEFINE nodes == {node(k) : k \in 1..half}
<1> HIDE DEF node, half
<1>3. up \in [1..half -> nodes] /\ half \in Nat
  BY <1>1, <1>2
<1>4. up \in Seq(nodes) /\ Len(up) = half
  <2> HIDE DEF nodes, up
  <2> QED
    BY <1>3, ListIsSequence
<1>5. IsTable(up)
  BY <1>4, TypedTable
<1>6. \A k \in 1..Len(up) : up[k] = node(k)
  BY <1>2, <1>4
<1> HIDE DEF up
<1> QED
  BY <1>1, <1>4, <1>5, <1>6 DEF half, node, up

\* The levels shrink to a root.
LEMMA LevelsShrink ==
  ASSUME NEW shape, NEW leaves, IsTable(leaves), leaves # <<>>
  PROVE  LET level == Levels(shape, leaves) IN
         /\ \A n \in 0..Len(leaves) - 1 :
              IsTable(level[n]) /\ Len(level[n]) \in 1..Len(leaves) - n
         /\ Len(level[Len(leaves) - 1]) = 1
<1> DEFINE N == Len(leaves) - 1
           level == Levels(shape, leaves)
           S == {n \in 0..N : IsTable(level[n]) /\ Len(level[n]) \in 1..Len(leaves) - n}
<1>1. Len(leaves) \in Nat \ {0}
  BY EmptySeq DEF IsTable
<1>2. level[0] = leaves /\ \A n \in 1..N : level[n] = PairUp(shape, level[n - 1])
  BY <1>1, LevelsDefined
<1> HIDE DEF level
<1>3. 0 \in S
  BY <1>1, <1>2
<1>4. ASSUME NEW n \in 0..N - 1, n \in S PROVE n + 1 \in S
  <2>1. level[n + 1] = PairUp(shape, level[n])
    BY <1>1, <1>2
  <2>2. CASE Len(level[n]) <= 1
    BY <1>1, <1>4, <2>1, <2>2 DEF PairUp
  <2>3. CASE Len(level[n]) > 1
    BY <1>1, <1>4, <2>1, <2>3, LevelAbove
  <2> QED
    BY <1>4, <2>2, <2>3
<1>5. 0..N \subseteq S
  <2> HIDE DEF S
  <2>1. N \in Nat
    BY <1>1
  <2> QED
    BY <1>3, <1>4, <2>1, InductiveUpTo
<1>6. Len(level[N]) = 1
  <2>1. N \in 0..N /\ Len(leaves) - N = 1
    BY <1>1
  <2>2. Len(level[N]) \in 1..Len(leaves) - N
    BY <1>5, <2>1
  <2> QED
    BY <2>1, <2>2
<1> QED
  BY <1>5, <1>6 DEF level

LEMMA SameNode ==
  ASSUME NEW a, NEW b, NEW c, NEW d
  PROVE  HashNode(a, b) = HashNode(c, d) <=> a = c /\ b = d
  BY DEF HashNode

\* Levels of the same length that pair up to the same level are the same: it
\* is known from the length which nodes are carried.
LEMMA PairUpBinds ==
  ASSUME NEW shape, NEW x, NEW y, IsTable(x), IsTable(y), Len(x) = Len(y),
         PairUp(shape, x) = PairUp(shape, y)
  PROVE  x = y
<1>1. /\ Len(x) \in Nat /\ DOMAIN x = 1..Len(x) /\ DOMAIN y = 1..Len(x)
      /\ x \in [1..Len(x) -> RowsIn(x)] /\ y \in [1..Len(x) -> RowsIn(y)]
  BY LenProperties, TableIndexes DEF IsTable
<1>2. CASE Len(x) <= 1
  BY <1>1, <1>2 DEF PairUp
<1>3. CASE Len(x) > 1
  <2> DEFINE up == PairUp(shape, x)
  <2>1. /\ Len(up) = (Len(x) + 1) \div 2
        /\ \A k \in 1..Len(up) :
             /\ 2*k <= Len(x) =>
                  up[k] = HashNode(x[2*k - 1], x[2*k]) /\ up[k] = HashNode(y[2*k - 1], y[2*k])
             /\ ~(2*k <= Len(x)) /\ shape = "legacy" =>
                  up[k] = HashNode(x[2*k - 1], x[2*k - 1]) /\ up[k] = HashNode(y[2*k - 1], y[2*k - 1])
             /\ ~(2*k <= Len(x)) /\ shape # "legacy" =>
                  up[k] = x[2*k - 1] /\ up[k] = y[2*k - 1]
    BY <1>3, LevelAbove
  <2> HIDE DEF up
  <2>2. ASSUME NEW i \in 1..Len(x) PROVE x[i] = y[i]
    <3> DEFINE k == (i + 1) \div 2
    <3>1. k \in 1..Len(up) /\ (i = 2*k \/ i = 2*k - 1) /\ k \in Nat
      BY <1>1, <2>1
    <3> HIDE DEF k
    <3>2. CASE 2*k <= Len(x)
      <4>1. x[2*k - 1] = y[2*k - 1] /\ x[2*k] = y[2*k]
        BY <2>1, <3>1, <3>2, SameNode
      <4> QED
        BY <3>1, <4>1
    <3>3. CASE ~(2*k <= Len(x))
      <4>1. x[2*k - 1] = y[2*k - 1]
        BY <2>1, <3>1, <3>3, SameNode
      <4>2. i = 2*k - 1
        BY <1>1, <3>1, <3>3
      <4> QED
        BY <4>1, <4>2
    <3> QED
      BY <3>2, <3>3
  <2> QED
    BY <1>1, <2>2
<1> QED
  BY <1>1, <1>2, <1>3

\* Two lists of the same length with the same tree are the same list.
LEMMA TopBinds ==
  ASSUME NEW shape, NEW a, NEW b, IsTable(a), IsTable(b), a # <<>>, Len(a) = Len(b),
         Top(shape, a) = Top(shape, b)
  PROVE  a = b
<1> DEFINE N == Len(a) - 1
           A == Levels(shape, a)
           B == Levels(shape, b)
<1>1. Len(a) \in Nat \ {0} /\ b # <<>> /\ N \in Nat
  BY EmptySeq DEF IsTable
<1>2. /\ A[0] = a /\ \A n \in 1..N : A[n] = PairUp(shape, A[n - 1])
      /\ B[0] = b /\ \A n \in 1..N : B[n] = PairUp(shape, B[n - 1])
  BY <1>1, LevelsDefined
<1>3. /\ \A n \in 0..N : IsTable(A[n]) /\ IsTable(B[n])
      /\ Len(A[N]) = 1 /\ Len(B[N]) = 1
  BY <1>1, LevelsShrink
<1>4. A[N][1] = B[N][1]
  BY <1>1 DEF Top
<1> HIDE DEF A, B
<1>5. \A n \in 0..N : Len(A[n]) = Len(B[n])
  <2> DEFINE S == {n \in 0..N : Len(A[n]) = Len(B[n])}
  <2>1. 0 \in S
    BY <1>1, <1>2
  <2>2. ASSUME NEW n \in 0..N - 1, n \in S PROVE n + 1 \in S
    <3>1. A[n + 1] = PairUp(shape, A[n]) /\ B[n + 1] = PairUp(shape, B[n])
      BY <1>1, <1>2
    <3>2. CASE Len(A[n]) <= 1
      BY <1>1, <2>2, <3>1, <3>2 DEF PairUp
    <3>3. CASE ~(Len(A[n]) <= 1)
      <4>1. Len(A[n]) \in Nat /\ n \in 0..N
        BY <1>1, <1>3, TableIndexes
      <4>2. Len(A[n]) > 1 /\ Len(B[n]) > 1
        BY <2>2, <3>3, <4>1
      <4>3. IsTable(A[n]) /\ IsTable(B[n])
        BY <1>3, <4>1
      <4>4. ASSUME NEW list, IsTable(list), Len(list) > 1
            PROVE  Len(PairUp(shape, list)) = (Len(list) + 1) \div 2
        BY <4>4, LevelAbove
      <4>5. /\ Len(A[n + 1]) = (Len(A[n]) + 1) \div 2
            /\ Len(B[n + 1]) = (Len(B[n]) + 1) \div 2
        BY <3>1, <4>2, <4>3, <4>4
      <4>6. Len(A[n]) = Len(B[n]) /\ n + 1 \in 0..N
        BY <1>1, <2>2
      <4> QED
        BY <4>5, <4>6
    <3> QED
      BY <3>2, <3>3
  <2> HIDE DEF S
  <2>3. 0..N \subseteq S
    BY <1>1, <2>1, <2>2, InductiveUpTo
  <2> QED
    BY <2>3 DEF S
<1>6. A[N] = B[N]
  <2>1. ASSUME NEW list, IsTable(list), Len(list) = 1 PROVE list \in [1..1 -> RowsIn(list)]
    BY <2>1, LenProperties DEF IsTable
  <2>2. N \in 0..N
    BY <1>1
  <2>3. A[N] \in [1..1 -> RowsIn(A[N])] /\ B[N] \in [1..1 -> RowsIn(B[N])]
    BY <1>3, <2>1, <2>2
  <2> QED
    BY <1>4, <2>3
<1>7. \A n \in 0..N : A[N - n] = B[N - n]
  <2> DEFINE S == {n \in 0..N : A[N - n] = B[N - n]}
  <2>1. 0 \in S
    BY <1>1, <1>6
  <2>2. ASSUME NEW n \in 0..N - 1, n \in S PROVE n + 1 \in S
    <3> DEFINE m == N - (n + 1)
    <3>1. m \in 0..N /\ m + 1 \in 1..N /\ m + 1 = N - n
      BY <1>1
    <3>2. A[m + 1] = PairUp(shape, A[m]) /\ B[m + 1] = PairUp(shape, B[m])
      <4>1. (m + 1) - 1 = m
        BY <3>1
      <4> QED
        BY <1>2, <3>1, <4>1
    <3>3. A[m] = B[m]
      BY <1>3, <1>5, <2>2, <3>1, <3>2, PairUpBinds
    <3> QED
      BY <3>1, <3>3
  <2> HIDE DEF S
  <2>3. 0..N \subseteq S
    BY <1>1, <2>1, <2>2, InductiveUpTo
  <2> QED
    BY <2>3 DEF S
<1>8. A[0] = B[0]
  <2>1. N \in 0..N /\ N - N = 0
    BY <1>1
  <2>2. A[N - N] = B[N - N]
    BY <1>7, <2>1
  <2> QED
    BY <2>1, <2>2
<1> QED
  BY <1>2, <1>8

\* No two lists of leaves have the same count-bound root, not even if one is
\* the other with leaves repeated, and none has the root of the empty list
\* (compute_root, commit_root).
THEOREM RootBindsLeaves ==
  ASSUME NEW a, NEW b, IsTable(a), IsTable(b), ComputeRoot(a) = ComputeRoot(b)
  PROVE  a = b
<1>1. \A n, raw : CommitRoot(n, raw) # ZeroHash
  BY DEF CommitRoot, ZeroHash
<1>2. CASE a = <<>> \/ b = <<>>
  BY <1>1, <1>2 DEF ComputeRoot
<1>3. CASE a # <<>> /\ b # <<>>
  <2>1. Len(a) = Len(b) /\ Top("bound", a) = Top("bound", b)
    BY <1>3 DEF ComputeRoot, CommitRoot, ComputeRawTreeRoot
  <2> QED
    BY <1>3, <2>1, TopBinds
<1> QED
  BY <1>2, <1>3

-----------------------------------------------------------------------------
(* The tree over a range of leaves, split at the largest power of two. *)

\* Powers of two double,
LEMMA PowerNext ==
  ASSUME NEW d \in Nat
  PROVE  Power(0) = 1 /\ Power(d + 1) = 2 * Power(d) /\ Power(d) \in Nat \ {0}
<1> DEFINE Over(f, m) == [i \in 0..m |-> IF i = 0 THEN 1 ELSE 2 * f[i - 1]]
           R(m) == CHOOSE f : f = Over(f, m)
<1>1. ASSUME NEW m \in Nat
      PROVE  R(m)[0] = 1 /\ \A i \in 1..m : R(m)[i] = 2 * R(m)[i - 1]
  <2>1. PICK X : X = Nat
    OBVIOUS
  <2> DEFINE step == [i \in 1..m |-> [x \in X |-> 2 * x]]
  <2>2. step \in [1..m -> [X -> X]] /\ 1 \in X
    BY <2>1
  <2>3. \A i \in 1..m : \A x \in X : step[i][x] = 2 * x
    OBVIOUS
  <2> HIDE DEF step, R, Over
  <2>0. PICK f : IsLoop(f, X, 1, m, step)
    BY <2>2, LoopDefined
  <2>4. f \in [0..m -> X] /\ f[0] = 1 /\ \A i \in 1..m : f[i] = step[i][f[i - 1]]
    BY <2>0 DEF IsLoop
  <2>5. ASSUME NEW i \in 0..m PROVE f[i] = IF i = 0 THEN 1 ELSE 2 * f[i - 1]
    <3>1. i # 0 => i \in 1..m /\ f[i - 1] \in X
      BY <2>4
    <3> QED
      BY <2>3, <2>4, <3>1
  <2>6. f = [i \in 0..m |-> f[i]]
    BY <2>4
  <2>7. f = Over(f, m)
    BY <2>5, <2>6 DEF Over
  <2>8. R(m) = Over(R(m), m)
    BY <2>7, Zenon DEF R
  <2>9. 0 \in 0..m /\ \A i \in 1..m : i \in 0..m /\ i # 0
    OBVIOUS
  <2> QED
    BY <2>8, <2>9 DEF Over
<1>2. ASSUME NEW m \in Nat PROVE Power(m) = R(m)[m]
  BY DEF Power
<1> HIDE DEF R
<1>3. ASSUME NEW k \in Nat PROVE Power(k + 1) = 2 * Power(k)
  <2> DEFINE T == {i \in 0..k : R(k + 1)[i] = R(k)[i]}
  <2>1. 0 \in T
    BY <1>1
  <2>2. ASSUME NEW i \in 0..k - 1, i \in T PROVE i + 1 \in T
    <3>1. i + 1 \in 1..k /\ i + 1 \in 1..k + 1 /\ (i + 1) - 1 = i /\ k + 1 \in Nat
      OBVIOUS
    <3>2. R(k)[i + 1] = 2 * R(k)[i] /\ R(k + 1)[i + 1] = 2 * R(k + 1)[i]
      BY <1>1, <3>1
    <3> QED
      BY <2>2, <3>1, <3>2
  <2> HIDE DEF T
  <2>3. 0..k \subseteq T
    BY <2>1, <2>2, InductiveUpTo
  <2>4. k \in 0..k /\ k + 1 \in 1..k + 1 /\ (k + 1) - 1 = k /\ k + 1 \in Nat
    OBVIOUS
  <2>5. R(k + 1)[k] = R(k)[k]
    BY <2>3, <2>4 DEF T
  <2>6. R(k + 1)[k + 1] = 2 * R(k + 1)[k]
    BY <1>1, <2>4
  <2> QED
    BY <1>2, <2>4, <2>5, <2>6
<1>4. Power(0) = 1
  <2>1. 0 \in Nat
    OBVIOUS
  <2> QED
    BY <1>1, <1>2, <2>1
<1>5. Power(d) \in Nat \ {0}
  <2> DEFINE T == {k \in Nat : Power(k) \in Nat \ {0}}
  <2>1. 0 \in T
    BY <1>4
  <2>2. ASSUME NEW k \in Nat, k \in T PROVE k + 1 \in T
    BY <1>3, <2>2
  <2> HIDE DEF T
  <2>3. Nat \subseteq T
    BY <2>1, <2>2, InductiveSet
  <2> QED
    BY <2>3 DEF T
<1> QED
  BY <1>3, <1>4, <1>5

\* and grow.
LEMMA PowersGrow ==
  ASSUME NEW d \in Nat, NEW k \in Nat
  PROVE  Power(d) <= Power(d + k) /\ d < Power(d)
<1>1. Power(d) <= Power(d + k)
  <2> DEFINE T == {j \in Nat : Power(d) <= Power(d + j)}
  <2>1. 0 \in T
    <3>1. Power(d) \in Nat /\ d + 0 = d
      BY PowerNext
    <3> QED
      BY <3>1
  <2>2. ASSUME NEW j \in Nat, j \in T PROVE j + 1 \in T
    <3>1. d + j \in Nat /\ d + (j + 1) = (d + j) + 1
      OBVIOUS
    <3>2. Power(d + (j + 1)) = 2 * Power(d + j) /\ Power(d + j) \in Nat /\ Power(d) \in Nat
      BY <3>1, PowerNext
    <3> QED
      BY <2>2, <3>2
  <2> HIDE DEF T
  <2>3. Nat \subseteq T
    BY <2>1, <2>2, InductiveSet
  <2> QED
    BY <2>3 DEF T
<1>2. d < Power(d)
  <2> DEFINE T == {j \in Nat : j < Power(j)}
  <2>1. 0 \in T
    BY PowerNext
  <2>2. ASSUME NEW j \in Nat, j \in T PROVE j + 1 \in T
    <3>1. Power(j + 1) = 2 * Power(j) /\ Power(j) \in Nat
      BY PowerNext
    <3> QED
      BY <2>2, <3>1
  <2> HIDE DEF T
  <2>3. Nat \subseteq T
    BY <2>1, <2>2, InductiveSet
  <2> QED
    BY <2>3 DEF T
<1> QED
  BY <1>1, <1>2

\* A tree of two leaves or more has a left part, as large as the power of
\* two below its size.
LEMMA LeftSizeType ==
  ASSUME NEW n \in Nat, n > 1
  PROVE  /\ LeftSize(n) \in 1..n - 1
         /\ \A d \in Nat : Power(d) < n /\ n <= 2 * Power(d) => LeftSize(n) = Power(d)
<1> DEFINE S == {Power(d) : d \in 0..n} \cap 1..n - 1
<1>1. 1 \in S
  <2>1. 0 \in 0..n /\ Power(0) = 1
    BY PowerNext
  <2> QED
    BY <2>1
<1>2. S \subseteq 0..n /\ S # {}
  BY <1>1
<1>3. LeftSize(n) = CHOOSE x \in S : \A y \in S : x >= y
  BY DEF LeftSize, Max
<1> HIDE DEF S
<1>4. \E x \in S : \A y \in S : x >= y
  BY <1>2, GreatestNat
<1>5. LeftSize(n) \in S /\ \A y \in S : LeftSize(n) >= y
  BY <1>3, <1>4, Zenon
<1>6. LeftSize(n) \in 1..n - 1
  BY <1>5 DEF S
<1>7. ASSUME NEW d \in Nat, Power(d) < n, n <= 2 * Power(d) PROVE LeftSize(n) = Power(d)
  <2>1. Power(d) \in Nat \ {0} /\ d < Power(d)
    BY PowerNext, PowersGrow
  <2>2. Power(d) \in S
    BY <1>7, <2>1 DEF S
  <2>3. PICK e \in 0..n : LeftSize(n) = Power(e)
    BY <1>5 DEF S
  <2>4. e <= d
    <3>1. ASSUME e > d PROVE FALSE
      <4>1. e - (d + 1) \in Nat /\ (d + 1) + (e - (d + 1)) = e /\ d + 1 \in Nat
        BY <3>1
      <4>2. Power(d + 1) <= Power((d + 1) + (e - (d + 1)))
        BY <4>1, PowersGrow
      <4>3. Power(d + 1) = 2 * Power(d)
        BY PowerNext
      <4> QED
        BY <1>6, <1>7, <2>1, <2>3, <4>1, <4>2, <4>3
    <3> QED
      BY <3>1
  <2>5. Power(e) <= Power(d)
    <3>1. d - e \in Nat /\ e + (d - e) = d /\ e \in Nat
      BY <2>4
    <3>2. Power(e) <= Power(e + (d - e))
      BY <3>1, PowersGrow
    <3> QED
      BY <3>1, <3>2
  <2> QED
    BY <1>5, <1>6, <2>1, <2>2, <2>3, <2>5
<1> QED
  BY <1>6, <1>7

\* The trees over all ranges of a list, from the smallest.
LEMMA SplitTreesDefined ==
  ASSUME NEW leaves, Len(leaves) \in Nat
  PROVE  LET tree == SplitTrees(leaves) IN
         \A size \in 1..Len(leaves) : \A first \in 1..Len(leaves) - size + 1 :
           tree[size][first] =
             IF size = 1 THEN leaves[first]
             ELSE HashNode(tree[LeftSize(size)][first],
                           tree[size - LeftSize(size)][first + LeftSize(size)])
<1> DEFINE N == Len(leaves)
           Row(f, size) == [first \in 1..N - size + 1 |->
             IF size = 1 THEN leaves[first]
             ELSE HashNode(f[LeftSize(size)][first],
                           f[size - LeftSize(size)][first + LeftSize(size)])]
           Over(f, m) == [size \in 1..m |-> Row(f, size)]
           S == {m \in Nat : \E f : f = Over(f, m)}
           R == CHOOSE f : f = Over(f, N)
<1>1. ASSUME NEW f, NEW g, NEW size \in Nat \ {0},
             \A s \in 1..size - 1 : f[s] = g[s]
      PROVE  Row(f, size) = Row(g, size)
  <2>1. CASE size = 1
    BY <2>1
  <2>2. CASE size > 1
    <3>1. LeftSize(size) \in 1..size - 1
      BY <2>2, LeftSizeType
    <3>2. LeftSize(size) \in 1..size - 1 /\ size - LeftSize(size) \in 1..size - 1
      BY <3>1
    <3> QED
      BY <1>1, <3>2
  <2> QED
    BY <2>1, <2>2
<1>2. 0 \in S
  <2>1. [size \in 1..0 |-> <<>>] = Over([size \in 1..0 |-> <<>>], 0)
    OBVIOUS
  <2>2. \E f : f = Over(f, 0)
    <3> HIDE DEF Over
    <3> QED
      BY <2>1
  <2> QED
    BY <2>2
<1>3. ASSUME NEW m \in Nat, m \in S PROVE m + 1 \in S
  <2>1. PICK f : f = Over(f, m)
    BY <1>3
  <2> DEFINE last == Row(f, m + 1)
             g == [size \in 1..m + 1 |-> IF size = m + 1 THEN last ELSE f[size]]
  <2> HIDE DEF Row, last
  <2>2. \A size \in 1..m : f[size] = Row(f, size)
    BY <2>1
  <2>3. ASSUME NEW size \in 1..m + 1 PROVE g[size] = Row(g, size)
    <3>1. /\ size = m + 1 => g[size] = last
          /\ size # m + 1 => g[size] = f[size] /\ size \in 1..m
          /\ \A s \in 1..size - 1 : f[s] = g[s]
          /\ size \in Nat \ {0}
      OBVIOUS
    <3> HIDE DEF g
    <3>2. Row(f, size) = Row(g, size)
      BY <1>1, <3>1
    <3>3. g[size] = Row(f, size)
      BY <2>2, <3>1 DEF last
    <3> QED
      BY <3>2, <3>3
  <2>4. g = Over(g, m + 1)
    <3>1. g = [size \in 1..m + 1 |-> g[size]]
      OBVIOUS
    <3> HIDE DEF g
    <3>2. [size \in 1..m + 1 |-> g[size]] = [size \in 1..m + 1 |-> Row(g, size)]
      BY <2>3
    <3> QED
      BY <3>1, <3>2
  <2>5. \E h : h = Over(h, m + 1)
    <3> HIDE DEF g, Over
    <3> QED
      BY <2>4
  <2>6. m + 1 \in Nat
    OBVIOUS
  <2> QED
    BY <2>5, <2>6
<1>4. R = Over(R, N)
  <2>1. N \in S
    <3> HIDE DEF S
    <3>1. Nat \subseteq S
      BY <1>2, <1>3, InductiveSet
    <3> QED
      BY <3>1
  <2>2. \E f : f = Over(f, N)
    BY <2>1
  <2> HIDE DEF Over
  <2> QED
    BY <2>2, Zenon
<1>5. SplitTrees(leaves) = R
  BY DEF SplitTrees
<1> HIDE DEF R
<1>6. \A size \in 1..N : R[size] = Row(R, size)
  <2> HIDE DEF Row
  <2> QED
    BY <1>4
<1>7. ASSUME NEW size \in 1..N, NEW first \in 1..N - size + 1
      PROVE  R[size][first] =
               IF size = 1 THEN leaves[first]
               ELSE HashNode(R[LeftSize(size)][first],
                             R[size - LeftSize(size)][first + LeftSize(size)])
  <2>1. R[size] = Row(R, size)
    BY <1>6
  <2>2. Row(R, size)[first] =
               IF size = 1 THEN leaves[first]
               ELSE HashNode(R[LeftSize(size)][first],
                             R[size - LeftSize(size)][first + LeftSize(size)])
    OBVIOUS
  <2> HIDE DEF Row
  <2> QED
    BY <2>1, <2>2
<1> QED
  BY <1>5, <1>7

\* Larger numbers, larger products.
LEMMA ProductGrows ==
  ASSUME NEW a \in Int, NEW b \in Int, NEW p \in Nat, a <= b
  PROVE  a * p <= b * p /\ a * p \in Int /\ b * p \in Int
<1>1. (b - a) * p >= 0
  OBVIOUS
<1>2. (b - a) * p = b * p - a * p
  OBVIOUS
<1> QED
  BY <1>1, <1>2

\* How many leaves node k of a level has below it whose full nodes have p.
Below(n, p, k) == IF k * p <= n THEN p ELSE n - (k - 1) * p

\* The nodes of a level are trees of p leaves, the last one of the rest.
IsLevel(level, leaves, p) ==
  /\ (Len(level) - 1) * p < Len(leaves) /\ Len(leaves) <= Len(level) * p
  /\ \A k \in 1..Len(level) :
       level[k] = SplitTrees(leaves)[Below(Len(leaves), p, k)][(k - 1) * p + 1]

\* Pairing up a level of trees gives a level of trees twice as large.
LEMMA LevelDoubles ==
  ASSUME NEW leaves, Len(leaves) \in Nat, NEW level, IsTable(level), Len(level) > 1,
         NEW d \in Nat, IsLevel(level, leaves, Power(d))
  PROVE  IsLevel(PairUp("bound", level), leaves, Power(d + 1))
<1> DEFINE n == Len(leaves)
           m == Len(level)
           p == Power(d)
           up == PairUp("bound", level)
           M == Len(up)
           tree == SplitTrees(leaves)
<1>1. n \in Nat /\ m \in Nat /\ m > 1 /\ p \in Nat /\ p > 0 /\ Power(d + 1) = 2 * p
  BY TableIndexes, PowerNext
<1>2. /\ M = (m + 1) \div 2
      /\ \A k \in 1..M : up[k] = IF 2*k <= m THEN HashNode(level[2*k - 1], level[2*k])
                                 ELSE level[2*k - 1]
  BY LevelAbove
<1>3. /\ (m - 1) * p < n /\ n <= m * p
      /\ \A k \in 1..m : level[k] = tree[Below(n, p, k)][(k - 1) * p + 1]
  BY DEF IsLevel
<1>4. \A size \in 2..n : \A first \in 1..n - size + 1 :
        tree[size][first] = HashNode(tree[LeftSize(size)][first],
                                     tree[size - LeftSize(size)][first + LeftSize(size)])
  <2>1. \A size \in 2..n : size \in 1..n /\ size # 1
    BY <1>1
  <2> QED
    BY <1>1, <2>1, SplitTreesDefined
<1>5. \A s \in Nat : p < s /\ s <= 2 * p => LeftSize(s) = p /\ s > 1
  <2>1. ASSUME NEW s \in Nat, Power(d) < s, s <= 2 * Power(d) PROVE LeftSize(s) = Power(d) /\ s > 1
    BY <1>1, <2>1, LeftSizeType
  <2> QED
    BY <2>1
<1> HIDE DEF n, m, p, up, M, tree
<1>6. M \in Nat /\ 2 * M >= m /\ 2 * (M - 1) <= m - 1 /\ M - 1 \in Int
  BY <1>1, <1>2
<1>7. (M - 1) * (2 * p) < n /\ n <= M * (2 * p)
  <2>1. (2 * (M - 1)) * p <= (m - 1) * p /\ (2 * (M - 1)) * p \in Int /\ (m - 1) * p \in Int
    BY <1>1, <1>6, ProductGrows
  <2>2. m * p <= (2 * M) * p /\ m * p \in Int /\ (2 * M) * p \in Int
    BY <1>1, <1>6, ProductGrows
  <2>3. (M - 1) * (2 * p) = (2 * (M - 1)) * p /\ M * (2 * p) = (2 * M) * p
    BY <1>1, <1>6
  <2> QED
    BY <1>1, <1>3, <2>1, <2>2, <2>3
<1>8. ASSUME NEW k \in 1..M
      PROVE  up[k] = tree[Below(n, 2 * p, k)][(k - 1) * (2 * p) + 1]
  <2> DEFINE c == (k - 1) * (2 * p)
  <2>1. /\ c \in Nat
        /\ (2*k - 2) * p = c /\ (2*k - 1) * p = c + p /\ (2*k) * p = c + p + p
        /\ k * (2 * p) = c + p + p /\ ((2*k - 1) - 1) * p = c
    <3>1. k - 1 \in Nat /\ 2 * p \in Nat
      BY <1>1, <1>6
    <3>2. c \in Nat
      BY <3>1
    <3>3. c = 2 * (k * p) - 2 * p /\ k * p \in Int
      BY <1>1, <1>6
    <3>4. /\ (2*k - 2) * p = 2 * (k * p) - 2 * p
          /\ (2*k - 1) * p = 2 * (k * p) - p
          /\ (2*k) * p = 2 * (k * p)
          /\ k * (2 * p) = 2 * (k * p)
          /\ ((2*k - 1) - 1) * p = 2 * (k * p) - 2 * p
      BY <1>1, <1>6
    <3> HIDE DEF c
    <3> QED
      BY <1>1, <3>2, <3>3, <3>4
  <2> HIDE DEF c
  <2>2. CASE 2*k <= m
    <3> DEFINE r == Below(n, p, 2*k)
    <3>1. 2*k - 1 \in 1..m /\ 2*k \in 1..m /\ 2*k - 1 <= m - 1 /\ 2*k - 1 \in Int /\ m - 1 \in Int
      BY <1>1, <1>6, <2>2
    <3>2. (2*k - 1) * p <= (m - 1) * p /\ (m - 1) * p \in Int
      BY <1>1, <3>1, ProductGrows
    <3>3. c + p < n
      <4> DEFINE a == (m - 1) * p
                 b == (2*k - 1) * p
      <4>1. a \in Int /\ b <= a /\ a < n /\ b = c + p
        BY <1>3, <2>1, <3>2
      <4> HIDE DEF a, b
      <4> QED
        BY <1>1, <2>1, <4>1
    <3>4. Below(n, p, 2*k - 1) = p
      BY <1>1, <2>1, <3>3 DEF Below
    <3>5. r = IF c + p + p <= n THEN p ELSE n - (c + p)
      BY <2>1 DEF Below
    <3>6. r \in 1..p /\ p + r = Below(n, 2 * p, k) /\ c + (p + r) <= n
      <4>1. Below(n, 2 * p, k) = IF c + p + p <= n THEN 2 * p ELSE n - c
        BY <2>1 DEF Below, c
      <4> HIDE DEF r
      <4> QED
        BY <1>1, <2>1, <3>3, <3>5, <4>1
    <3> HIDE DEF r
    <3>7. level[2*k - 1] = tree[p][c + 1]
      BY <1>3, <2>1, <3>1, <3>4
    <3>8. level[2*k] = tree[r][(c + 1) + p]
      <4>1. level[2*k] = tree[r][(2*k - 1) * p + 1]
        BY <1>3, <3>1 DEF r
      <4>2. (2*k - 1) * p + 1 = (c + 1) + p
        BY <1>1, <2>1
      <4> QED
        BY <4>1, <4>2
    <3>9. tree[p + r][c + 1] = HashNode(tree[p][c + 1], tree[r][(c + 1) + p])
      <4>1. p + r \in Nat /\ p < p + r /\ p + r <= 2 * p
        BY <1>1, <3>6
      <4>2. LeftSize(p + r) = p
        BY <1>5, <4>1
      <4>3. p + r \in 2..n /\ c + 1 \in 1..n - (p + r) + 1 /\ (p + r) - p = r
        BY <1>1, <2>1, <3>6
      <4> QED
        BY <1>4, <4>2, <4>3
    <3>10. up[k] = HashNode(level[2*k - 1], level[2*k])
      BY <1>2, <2>2
    <3> QED
      BY <3>6, <3>7, <3>8, <3>9, <3>10 DEF c
  <2>3. CASE ~(2*k <= m)
    <3>1. 2*k - 1 = m /\ m \in 1..m
      BY <1>1, <1>2, <1>6, <2>3
    <3>2. up[k] = level[m]
      BY <1>2, <2>3, <3>1
    <3>3. level[m] = tree[Below(n, p, m)][c + 1]
      <4>1. (m - 1) * p = c
        BY <2>1, <3>1
      <4> QED
        BY <1>3, <3>1, <4>1
    <3>4. Below(n, p, m) = n - c
      <4>1. m * p = c + p /\ (m - 1) * p = c
        BY <2>1, <3>1
      <4> QED
        BY <1>1, <1>3, <2>1, <4>1 DEF Below
    <3>5. Below(n, 2 * p, k) = n - c
      <4>1. m * p = c + p
        BY <2>1, <3>1
      <4>2. n <= c + p /\ k * (2 * p) = c + p + p /\ (k - 1) * (2 * p) = c
        BY <1>3, <2>1, <4>1 DEF c
      <4>3. ~(c + p + p <= n)
        BY <1>1, <2>1, <4>2
      <4> QED
        BY <4>2, <4>3 DEF Below
    <3> QED
      BY <3>2, <3>3, <3>4, <3>5 DEF c
  <2> QED
    BY <2>2, <2>3
<1> QED
  BY <1>1, <1>7, <1>8 DEF IsLevel, n, M, up, tree

\* The root of a list is the tree that is split at the largest power of two.
THEOREM RawRootIsSplit ==
  ASSUME NEW leaves, IsTable(leaves), leaves # <<>>
  PROVE  ComputeRawTreeRoot(leaves) = SplitTree(leaves)
<1> DEFINE N == Len(leaves) - 1
           level == Levels("bound", leaves)
           S == {i \in 0..N : \E d \in Nat : IsLevel(level[i], leaves, Power(d))}
<1>1. Len(leaves) \in Nat \ {0} /\ N \in Nat
  BY EmptySeq DEF IsTable
<1>2. level[0] = leaves /\ \A i \in 1..N : level[i] = PairUp("bound", level[i - 1])
  BY <1>1, LevelsDefined
<1>3. /\ \A i \in 0..N : IsTable(level[i])
      /\ Len(level[N]) = 1
  BY LevelsShrink
<1> HIDE DEF level
<1>4. 0 \in S
  <2>1. Power(0) = 1 /\ 0 \in Nat
    BY PowerNext
  <2>2. ASSUME NEW k \in 1..Len(leaves)
        PROVE  leaves[k] = SplitTrees(leaves)[Below(Len(leaves), 1, k)][(k - 1) * 1 + 1]
    <3>1. Below(Len(leaves), 1, k) = 1 /\ (k - 1) * 1 + 1 = k
      BY <1>1 DEF Below
    <3>2. 1 \in 1..Len(leaves) /\ k \in 1..Len(leaves) - 1 + 1
      BY <1>1
    <3>3. SplitTrees(leaves)[1][k] = leaves[k]
      BY <1>1, <3>2, SplitTreesDefined
    <3> QED
      BY <3>1, <3>3
  <2>3. IsLevel(leaves, leaves, 1)
    BY <1>1, <2>2 DEF IsLevel
  <2> QED
    BY <1>1, <1>2, <2>1, <2>3
<1>5. ASSUME NEW i \in 0..N - 1, i \in S PROVE i + 1 \in S
  <2>1. i + 1 \in 1..N /\ (i + 1) - 1 = i /\ i \in 0..N /\ i + 1 \in 0..N
    BY <1>1
  <2>2. level[i + 1] = PairUp("bound", level[i])
    BY <1>2, <2>1
  <2>3. PICK d \in Nat : IsLevel(level[i], leaves, Power(d))
    BY <1>5
  <2>4. CASE Len(level[i]) <= 1
    BY <2>1, <2>2, <2>3, <2>4 DEF PairUp
  <2>5. CASE ~(Len(level[i]) <= 1)
    <3>1. IsTable(level[i]) /\ Len(level[i]) > 1
      BY <1>3, <2>1, <2>5, TableIndexes
    <3>2. IsLevel(level[i + 1], leaves, Power(d + 1)) /\ d + 1 \in Nat
      BY <1>1, <2>2, <2>3, <3>1, LevelDoubles
    <3> QED
      BY <2>1, <3>2
  <2> QED
    BY <2>4, <2>5
<1> HIDE DEF S
<1>6. 0..N \subseteq S
  BY <1>1, <1>4, <1>5, InductiveUpTo
<1>7. N \in S
  BY <1>1, <1>6
<1>8. PICK d \in Nat : IsLevel(level[N], leaves, Power(d))
  BY <1>7 DEF S
<1>9. level[N][1] = SplitTrees(leaves)[Len(leaves)][1]
  <2> DEFINE p == Power(d)
  <2>1. p \in Nat
    BY PowerNext
  <2> HIDE DEF p
  <2>2. /\ Len(leaves) <= 1 * p
        /\ level[N][1] = SplitTrees(leaves)[Below(Len(leaves), p, 1)][(1 - 1) * p + 1]
    BY <1>3, <1>8 DEF IsLevel, p
  <2>3. Below(Len(leaves), p, 1) = Len(leaves) /\ (1 - 1) * p + 1 = 1
    BY <1>1, <2>1, <2>2 DEF Below
  <2> QED
    BY <2>2, <2>3
<1> QED
  BY <1>9 DEF ComputeRawTreeRoot, Top, SplitTree, level

-----------------------------------------------------------------------------
(* Inclusion proofs. *)

LEMMA WalkDefined ==
  ASSUME NEW leaf, NEW proof, Len(proof) \in Nat
  PROVE  LET current == Walk(leaf, proof) IN
         /\ current[0] = leaf
         /\ \A n \in 1..Len(proof) : current[n] = Combine(current[n - 1], proof[n])
<1> DEFINE N == Len(proof)
           On(f, m) == [n \in 0..m |-> IF n = 0 THEN leaf ELSE Combine(f[n - 1], proof[n])]
           S == {m \in Nat : \E f : f = On(f, m)}
<1>1. 0 \in S
  <2>1. [n \in 0..0 |-> leaf] = On([n \in 0..0 |-> leaf], 0)
    OBVIOUS
  <2> QED
    BY <2>1
<1>2. ASSUME NEW m \in Nat, m \in S PROVE m + 1 \in S
  <2>1. PICK f : f = On(f, m)
    BY <1>2
  <2> DEFINE g == [n \in 0..m + 1 |-> IF n = m + 1 THEN Combine(f[m], proof[m + 1]) ELSE f[n]]
  <2>2. ASSUME NEW n \in 0..m + 1 PROVE g[n] = On(g, m + 1)[n]
    <3>1. CASE n = 0
      BY <2>1, <3>1
    <3>2. CASE n \in 1..m
      <4>1. g[n] = f[n] /\ g[n - 1] = f[n - 1]
        BY <3>2
      <4>2. f[n] = Combine(f[n - 1], proof[n])
        BY <2>1, <3>2
      <4>3. On(g, m + 1)[n] = Combine(g[n - 1], proof[n])
        BY <3>2
      <4> QED
        BY <4>1, <4>2, <4>3
    <3>3. CASE n = m + 1
      <4>1. g[n] = Combine(f[m], proof[m + 1]) /\ g[n - 1] = f[m]
        BY <3>3
      <4>2. On(g, m + 1)[n] = Combine(g[n - 1], proof[n])
        BY <3>3
      <4> QED
        BY <3>3, <4>1, <4>2
    <3> QED
      BY <3>1, <3>2, <3>3
  <2>3. g = On(g, m + 1)
    BY <2>2
  <2> HIDE DEF g
  <2> QED
    BY <2>3
<1>3. \E f : f = On(f, N)
  <2>1. N \in S
    <3> HIDE DEF S
    <3> QED
      BY <1>1, <1>2, InductiveSet
  <2> QED
    BY <2>1
<1>4. Walk(leaf, proof) = On(Walk(leaf, proof), N)
  BY <1>3 DEF Walk
<1> QED
  BY <1>4

LEMMA WalkNothing ==
  ASSUME NEW leaf
  PROVE  WalkRawProof(leaf, <<>>) = leaf
<1>1. Len(<<>>) = 0
  OBVIOUS
<1> QED
  BY <1>1, WalkDefined DEF WalkRawProof

\* A proof with one more step is walked one step further.
LEMMA WalkFurther ==
  ASSUME NEW leaf, NEW proof, IsTable(proof), NEW step
  PROVE  /\ IsTable(proof \o <<step>>)
         /\ WalkRawProof(leaf, proof \o <<step>>) = Combine(WalkRawProof(leaf, proof), step)
<1> DEFINE S == RowsIn(proof) \cup {step}
           N == Len(proof)
           longer == proof \o <<step>>
<1>1. N \in Nat /\ proof \in Seq(S)
  <2>1. N \in Nat /\ proof \in [1..N -> RowsIn(proof)]
    BY LenProperties DEF IsTable
  <2>2. proof \in [1..N -> S]
    BY <2>1
  <2> QED
    BY <2>1, <2>2
<1>2. <<step>> \in Seq(S) /\ Len(<<step>>) = 1
  OBVIOUS
<1>3. /\ longer \in Seq(S) /\ Len(longer) = N + 1
      /\ \A n \in 1..N : longer[n] = proof[n]
      /\ longer[N + 1] = step
  <2>1. /\ longer \in Seq(S)
        /\ Len(longer) = N + 1
        /\ \A n \in 1..N + 1 : longer[n] = IF n <= N THEN proof[n] ELSE <<step>>[n - N]
    BY <1>1, <1>2, ConcatProperties
  <2>2. (N + 1) - N = 1 /\ ~(N + 1 <= N) /\ N + 1 \in 1..N + 1
    BY <1>1
  <2>3. longer[N + 1] = <<step>>[1]
    BY <2>1, <2>2
  <2>4. ASSUME NEW n \in 1..N PROVE longer[n] = proof[n]
    <3>1. n \in 1..N + 1 /\ n <= N
      BY <1>1
    <3> QED
      BY <2>1, <3>1
  <2> QED
    BY <2>1, <2>3, <2>4
<1> HIDE DEF longer
<1> DEFINE c == Walk(leaf, proof)
           d == Walk(leaf, longer)
<1>4. /\ c[0] = leaf /\ \A n \in 1..N : c[n] = Combine(c[n - 1], proof[n])
      /\ d[0] = leaf /\ \A n \in 1..N + 1 : d[n] = Combine(d[n - 1], longer[n])
  BY <1>1, <1>3, WalkDefined
<1> HIDE DEF c, d
<1>5. d[N] = c[N]
  <2> DEFINE T == {n \in 0..N : d[n] = c[n]}
  <2>1. 0 \in T
    BY <1>1, <1>4
  <2>2. ASSUME NEW n \in 0..N - 1, n \in T PROVE n + 1 \in T
    <3>1. n + 1 \in 1..N /\ n + 1 \in 1..N + 1 /\ (n + 1) - 1 = n /\ n + 1 \in 0..N
      BY <1>1
    <3>2. d[n + 1] = Combine(d[n], longer[n + 1]) /\ c[n + 1] = Combine(c[n], proof[n + 1])
      BY <1>4, <3>1
    <3> QED
      BY <1>3, <2>2, <3>1, <3>2
  <2> HIDE DEF T
  <2>3. 0..N \subseteq T
    BY <1>1, <2>1, <2>2, InductiveUpTo
  <2>4. N \in T
    BY <1>1, <2>3
  <2> QED
    BY <2>4 DEF T
<1>6. d[N + 1] = Combine(c[N], step)
  <2>1. N + 1 \in 1..N + 1 /\ (N + 1) - 1 = N
    BY <1>1
  <2> QED
    BY <1>3, <1>4, <1>5, <2>1
<1>7. IsTable(longer)
  BY <1>3, TypedTable
<1> QED
  BY <1>3, <1>6, <1>7 DEF WalkRawProof, c, d, longer

\* A proof leads no two leaves to the same node.
LEMMA WalkBinds ==
  ASSUME NEW x, NEW y, NEW proof, Len(proof) \in Nat,
         WalkRawProof(x, proof) = WalkRawProof(y, proof)
  PROVE  x = y
<1> DEFINE N == Len(proof)
           c == Walk(x, proof)
           d == Walk(y, proof)
           S == {n \in 0..N : c[N - n] = d[N - n]}
<1>1. /\ c[0] = x /\ \A n \in 1..N : c[n] = Combine(c[n - 1], proof[n])
      /\ d[0] = y /\ \A n \in 1..N : d[n] = Combine(d[n - 1], proof[n])
  BY WalkDefined
<1>2. c[N] = d[N]
  BY DEF WalkRawProof
<1> HIDE DEF c, d
<1>3. 0 \in S
  BY <1>2
<1>4. ASSUME NEW n \in 0..N - 1, n \in S PROVE n + 1 \in S
  <2>1. N - n \in 1..N /\ (N - n) - 1 = N - (n + 1) /\ n + 1 \in 0..N
    OBVIOUS
  <2>2. /\ c[N - n] = Combine(c[N - (n + 1)], proof[N - n])
        /\ d[N - n] = Combine(d[N - (n + 1)], proof[N - n])
    BY <1>1, <2>1
  <2>3. c[N - (n + 1)] = d[N - (n + 1)]
    BY <1>4, <2>2, SameNode DEF Combine
  <2> QED
    BY <2>1, <2>3
<1>5. N \in S
  <2> HIDE DEF S
  <2>1. 0..N \subseteq S
    BY <1>3, <1>4, InductiveUpTo
  <2> QED
    BY <2>1
<1>6. N - N = 0
  OBVIOUS
<1> QED
  BY <1>1, <1>5, <1>6

\* The step beside a node leads to the node above it.
LEMMA SiblingLeads ==
  ASSUME NEW shape, NEW level, IsTable(level), Len(level) > 1, NEW k \in 0..Len(level) - 1
  PROVE  LET up == PairUp(shape, level)
             beside == Sibling(shape, level, k)
         IN /\ k \div 2 \in 0..Len(up) - 1
            /\ \/ beside = <<>> /\ up[k \div 2 + 1] = level[k + 1]
               \/ \E step : /\ beside = <<step>>
                            /\ up[k \div 2 + 1] = Combine(level[k + 1], step)
<1> DEFINE up == PairUp(shape, level)
           p == k \div 2 + 1
<1>1. /\ Len(level) \in Nat /\ Len(up) = (Len(level) + 1) \div 2
      /\ \A n \in 1..Len(up) :
           up[n] = IF 2*n <= Len(level) THEN HashNode(level[2*n - 1], level[2*n])
                   ELSE IF shape = "legacy" THEN HashNode(level[2*n - 1], level[2*n - 1])
                   ELSE level[2*n - 1]
  BY LevelAbove, TableIndexes
<1> HIDE DEF up
<1>2. /\ k \div 2 \in 0..Len(up) - 1 /\ p \in 1..Len(up)
      /\ k % 2 = 1 => k + 1 = 2*p /\ k = 2*p - 1
      /\ k % 2 # 1 => k + 1 = 2*p - 1 /\ k + 2 = 2*p
  BY <1>1
<1> HIDE DEF p
<1>3. up[p] = IF 2*p <= Len(level) THEN HashNode(level[2*p - 1], level[2*p])
              ELSE IF shape = "legacy" THEN HashNode(level[2*p - 1], level[2*p - 1])
              ELSE level[2*p - 1]
  BY <1>1, <1>2
<1>4. \A hash : /\ Step(hash, "left").hash = hash /\ Step(hash, "left").position = "left"
                /\ Step(hash, "right").hash = hash /\ Step(hash, "right").position = "right"
  BY DEF Step
<1>5. \A other, hash : /\ Combine(other, Step(hash, "left")) = HashNode(hash, other)
                       /\ Combine(other, Step(hash, "right")) = HashNode(other, hash)
  BY <1>4 DEF Combine
<1> DEFINE beside == Sibling(shape, level, k)
           leads == \/ beside = <<>> /\ up[p] = level[k + 1]
                    \/ \E step : beside = <<step>> /\ up[p] = Combine(level[k + 1], step)
<1>6. CASE k % 2 = 1
  <2>1. beside = <<Step(level[k], "left")>>
    BY <1>6 DEF Sibling
  <2>2. 2*p <= Len(level) /\ up[p] = HashNode(level[k], level[k + 1])
    BY <1>1, <1>2, <1>3, <1>6
  <2> HIDE DEF beside
  <2> QED
    BY <1>2, <1>5, <2>1, <2>2 DEF up, p, beside
<1>7. CASE k % 2 # 1 /\ k + 1 < Len(level)
  <2>1. beside = <<Step(level[k + 2], "right")>>
    BY <1>7 DEF Sibling
  <2>2. 2*p <= Len(level) /\ up[p] = HashNode(level[k + 1], level[k + 2])
    BY <1>1, <1>2, <1>3, <1>7
  <2> HIDE DEF beside
  <2> QED
    BY <1>2, <1>5, <2>1, <2>2 DEF up, p, beside
<1>8. CASE k % 2 # 1 /\ ~(k + 1 < Len(level)) /\ shape = "legacy"
  <2>1. beside = <<Step(level[k + 1], "right")>>
    BY <1>8 DEF Sibling
  <2>2. ~(2*p <= Len(level)) /\ up[p] = HashNode(level[k + 1], level[k + 1])
    BY <1>1, <1>2, <1>3, <1>8
  <2> HIDE DEF beside
  <2> QED
    BY <1>2, <1>5, <2>1, <2>2 DEF up, p, beside
<1>9. CASE k % 2 # 1 /\ ~(k + 1 < Len(level)) /\ shape # "legacy"
  <2>1. beside = <<>>
    BY <1>9 DEF Sibling
  <2>2. ~(2*p <= Len(level)) /\ up[p] = level[k + 1]
    BY <1>1, <1>2, <1>3, <1>9
  <2> HIDE DEF beside
  <2> QED
    BY <1>2, <2>1, <2>2 DEF up, p, beside
<1> QED
  BY <1>6, <1>7, <1>8, <1>9

LEMMA ClimbDefined ==
  ASSUME NEW shape, NEW leaves, NEW index, Len(leaves) \in Nat \ {0}
  PROVE  LET at == Climb(shape, leaves, index) IN
         /\ at[0] = [level |-> leaves, index |-> index, proof |-> <<>>]
         /\ \A n \in 1..Len(leaves) - 1 : at[n] = Turn(shape, at[n - 1])
<1> DEFINE N == Len(leaves) - 1
           first == [level |-> leaves, index |-> index, proof |-> <<>>]
           Up(f, m) == [n \in 0..m |-> IF n = 0 THEN first ELSE Turn(shape, f[n - 1])]
           S == {m \in Nat : \E f : f = Up(f, m)}
<1>1. Climb(shape, leaves, index) = CHOOSE f : f = Up(f, N)
  BY DEF Climb
<1> HIDE DEF first
<1>2. 0 \in S
  <2>1. [n \in 0..0 |-> first] = Up([n \in 0..0 |-> first], 0)
    OBVIOUS
  <2> QED
    BY <2>1
<1>3. ASSUME NEW m \in Nat, m \in S PROVE m + 1 \in S
  <2>1. PICK f : f = Up(f, m)
    BY <1>3
  <2> DEFINE g == [n \in 0..m + 1 |-> IF n = m + 1 THEN Turn(shape, f[m]) ELSE f[n]]
  <2>2. ASSUME NEW n \in 0..m + 1 PROVE g[n] = Up(g, m + 1)[n]
    <3>1. CASE n = 0
      BY <2>1, <3>1
    <3>2. CASE n \in 1..m
      <4>1. g[n] = f[n] /\ g[n - 1] = f[n - 1]
        BY <3>2
      <4>2. f[n] = Turn(shape, f[n - 1])
        BY <2>1, <3>2
      <4>3. Up(g, m + 1)[n] = Turn(shape, g[n - 1])
        BY <3>2
      <4> QED
        BY <4>1, <4>2, <4>3
    <3>3. CASE n = m + 1
      <4>1. g[n] = Turn(shape, f[m]) /\ g[n - 1] = f[m]
        BY <3>3
      <4>2. Up(g, m + 1)[n] = Turn(shape, g[n - 1])
        BY <3>3
      <4> QED
        BY <4>1, <4>2
    <3> QED
      BY <3>1, <3>2, <3>3
  <2>3. g = Up(g, m + 1)
    BY <2>2
  <2> HIDE DEF g
  <2> QED
    BY <2>3
<1>4. \E f : f = Up(f, N)
  <2>1. N \in Nat
    OBVIOUS
  <2>2. N \in S
    <3> HIDE DEF S
    <3> QED
      BY <1>2, <1>3, <2>1, InductiveSet
  <2> QED
    BY <2>2
<1> DEFINE at == Climb(shape, leaves, index)
<1>5. at = Up(at, N)
  BY <1>1, <1>4
<1> HIDE DEF at
<1>6. at[0] = first /\ \A n \in 1..N : at[n] = Turn(shape, at[n - 1])
  BY <1>5
<1> QED
  BY <1>6 DEF at, first

\* Each turn of the loops stays on the way from the leaf to the root.
LEMMA ClimbLeads ==
  ASSUME NEW shape, NEW leaves, IsTable(leaves), NEW index \in 0..Len(leaves) - 1
  PROVE  LET proof == Climb(shape, leaves, index)[Len(leaves) - 1].proof IN
         /\ IsTable(proof)
         /\ WalkRawProof(leaves[index + 1], proof) = Top(shape, leaves)
<1> DEFINE N == Len(leaves) - 1
           at == Climb(shape, leaves, index)
           level == Levels(shape, leaves)
           leaf == leaves[index + 1]
<1>1. Len(leaves) \in Nat \ {0} /\ leaves # <<>> /\ N \in Nat
  BY TableIndexes, EmptySeq DEF IsTable
<1>2. /\ at[0] = [level |-> leaves, index |-> index, proof |-> <<>>]
      /\ \A n \in 1..N : at[n] = Turn(shape, at[n - 1])
  BY <1>1, ClimbDefined
<1>3. level[0] = leaves /\ \A n \in 1..N : level[n] = PairUp(shape, level[n - 1])
  BY <1>1, LevelsDefined
<1>4. /\ \A n \in 0..N : IsTable(level[n])
      /\ Len(level[N]) = 1
  BY <1>1, LevelsShrink
<1>5. Top(shape, leaves) = level[N][1]
  BY <1>1 DEF Top
<1> HIDE DEF at, level
<1> DEFINE OnTheWay(a, up) == /\ a.level = up
                              /\ a.index \in 0..Len(up) - 1
                              /\ IsTable(a.proof)
                              /\ WalkRawProof(leaf, a.proof) = up[a.index + 1]
<1>6. OnTheWay(at[0], level[0])
  <2>1. at[0].level = leaves /\ at[0].index = index /\ at[0].proof = <<>>
    BY <1>2
  <2>2. IsTable(<<>>)
    BY EmptySeq DEF IsTable
  <2> QED
    BY <1>3, <2>1, <2>2, WalkNothing
<1>7. ASSUME NEW a, NEW up, IsTable(up), OnTheWay(a, up)
      PROVE  OnTheWay(Turn(shape, a), PairUp(shape, up))
  <2>1. Len(up) \in Nat
    BY <1>7, TableIndexes
  <2>2. CASE Len(up) <= 1
    BY <1>7, <2>2 DEF Turn, PairUp
  <2>3. CASE Len(up) > 1
    <3> DEFINE beside == Sibling(shape, up, a.index)
               next == Turn(shape, a)
               p == a.index \div 2
    <3>1. /\ next.level = PairUp(shape, up) /\ next.index = p
          /\ next.proof = a.proof \o beside
      <4>1. a.level = up /\ ~(Len(up) <= 1)
        BY <1>7, <2>1, <2>3
      <4>2. next = [level |-> PairUp(shape, up), index |-> p, proof |-> a.proof \o beside]
        BY <4>1 DEF Turn
      <4> HIDE DEF beside, next, p
      <4> QED
        BY <4>2
    <3>2. /\ p \in 0..Len(PairUp(shape, up)) - 1
          /\ \/ beside = <<>> /\ PairUp(shape, up)[p + 1] = up[a.index + 1]
             \/ \E step : /\ beside = <<step>>
                          /\ PairUp(shape, up)[p + 1] = Combine(up[a.index + 1], step)
      BY <1>7, <2>3, SiblingLeads
    <3> HIDE DEF beside, next, p
    <3>3. CASE beside = <<>> /\ PairUp(shape, up)[p + 1] = up[a.index + 1]
      <4>1. next.proof = a.proof
        BY <1>7, <3>1, <3>3, ConcatEmptySeq DEF IsTable
      <4> QED
        BY <1>7, <3>1, <3>2, <3>3, <4>1 DEF next
    <3>4. ASSUME NEW step, beside = <<step>>,
                 PairUp(shape, up)[p + 1] = Combine(up[a.index + 1], step)
          PROVE  OnTheWay(next, PairUp(shape, up))
      <4>1. /\ IsTable(next.proof)
            /\ WalkRawProof(leaf, next.proof) = Combine(WalkRawProof(leaf, a.proof), step)
        BY <1>7, <3>1, <3>4, WalkFurther
      <4> QED
        BY <1>7, <3>1, <3>2, <3>4, <4>1
    <3> QED
      BY <3>2, <3>3, <3>4 DEF next
  <2> QED
    BY <2>1, <2>2, <2>3
<1> DEFINE S == {n \in 0..N : OnTheWay(at[n], level[n])}
<1>8. 0 \in S
  BY <1>1, <1>6
<1>9. ASSUME NEW n \in 0..N - 1, n \in S PROVE n + 1 \in S
  <2>1. n + 1 \in 1..N /\ (n + 1) - 1 = n /\ n \in 0..N /\ n + 1 \in 0..N
    BY <1>1
  <2>2. at[n + 1] = Turn(shape, at[n]) /\ level[n + 1] = PairUp(shape, level[n])
    BY <1>2, <1>3, <2>1
  <2> HIDE DEF OnTheWay
  <2>3. OnTheWay(at[n + 1], level[n + 1])
    BY <1>4, <1>7, <1>9, <2>1, <2>2
  <2> QED
    BY <2>1, <2>3
<1>10. OnTheWay(at[N], level[N])
  <2> HIDE DEF S
  <2>1. 0..N \subseteq S
    BY <1>1, <1>8, <1>9, InductiveUpTo
  <2>2. N \in S
    BY <1>1, <2>1
  <2> QED
    BY <2>2 DEF S
<1>11. at[N].index + 1 = 1
  BY <1>4, <1>10
<1> QED
  BY <1>5, <1>10, <1>11 DEF at

LEMMA PathLeads ==
  ASSUME NEW shape, NEW leaves, IsTable(leaves), NEW index \in 0..Len(leaves) - 1
  PROVE  /\ Len(Path(shape, leaves, index)) \in Nat
         /\ WalkRawProof(leaves[index + 1], Path(shape, leaves, index)) = Top(shape, leaves)
<1>1. Len(leaves) \in Nat /\ ~(index >= Len(leaves))
  BY TableIndexes
<1>2. Path(shape, leaves, index) = Climb(shape, leaves, index)[Len(leaves) - 1].proof
  BY <1>1 DEF Path
<1> QED
  BY <1>2, ClimbLeads, TableIndexes

\* The proof that generate_proof gives for a leaf is accepted for that leaf and
\* that number of leaves under their root, and for no other leaf or number
\* (generate_proof, compute_root against verify_proof).
THEOREM ProofBindsLeaf ==
  ASSUME NEW leaves, IsTable(leaves), NEW index \in 0..Len(leaves) - 1, NEW leaf, NEW count
  PROVE  VerifyProof(leaf, GenerateProof(leaves, index), count, ComputeRoot(leaves))
           <=> leaf = leaves[index + 1] /\ count = Len(leaves)
<1> DEFINE proof == GenerateProof(leaves, index)
           raw == Top("bound", leaves)
<1>1. Len(proof) \in Nat /\ WalkRawProof(leaves[index + 1], proof) = raw
  BY PathLeads DEF GenerateProof
<1>2. Len(leaves) \in Nat /\ Len(leaves) # 0 /\ leaves # <<>>
  BY TableIndexes, EmptySeq
<1>3. ComputeRoot(leaves) = CommitRoot(Len(leaves), raw)
  BY <1>2 DEF ComputeRoot, ComputeRawTreeRoot
<1> HIDE DEF proof, raw
<1>4. \A m, n, x, y : CommitRoot(m, x) = CommitRoot(n, y) <=> m = n /\ x = y
  BY DEF CommitRoot
<1>5. WalkRawProof(leaf, proof) = raw <=> leaf = leaves[index + 1]
  BY <1>1, WalkBinds
<1> QED
  BY <1>2, <1>3, <1>4, <1>5 DEF VerifyProof, proof

\* Under a legacy root the proofs of the historical shape are accepted, for the
\* leaf they were made for only (generate_legacy_proof, compute_legacy_root
\* against verify_legacy_proof).
THEOREM LegacyProofBindsLeaf ==
  ASSUME NEW leaves, IsTable(leaves), NEW index \in 0..Len(leaves) - 1, NEW leaf
  PROVE  VerifyLegacyProof(leaf, GenerateLegacyProof(leaves, index), ComputeLegacyRoot(leaves))
           <=> leaf = leaves[index + 1]
<1> DEFINE proof == GenerateLegacyProof(leaves, index)
<1>1. /\ Len(proof) \in Nat
      /\ WalkRawProof(leaves[index + 1], proof) = ComputeLegacyRoot(leaves)
  BY PathLeads DEF GenerateLegacyProof, ComputeLegacyRoot
<1> HIDE DEF proof
<1> QED
  BY <1>1, WalkBinds DEF VerifyLegacyProof, proof

\* A leaf hash has its own personalization.
IsNode(hash) == \E left, right : hash = HashNode(left, right)

\* All nodes of the levels of a tree.
Nodes(shape, leaves) ==
  UNION {RowsIn(Levels(shape, leaves)[n]) : n \in 0..Len(leaves) - 1}

\* Every node is a leaf or was hashed from two nodes.
LEMMA NodesGrow ==
  ASSUME NEW shape, NEW leaves, IsTable(leaves), leaves # <<>>,
         NEW node \in Nodes(shape, leaves)
  PROVE  \/ node \in RowsIn(leaves)
         \/ \E left, right \in Nodes(shape, leaves) : node = HashNode(left, right)
<1> DEFINE N == Len(leaves) - 1
           level == Levels(shape, leaves)
           Made(x) == \/ x \in RowsIn(leaves)
                      \/ \E left, right \in Nodes(shape, leaves) : x = HashNode(left, right)
           S == {n \in 0..N : \A x \in RowsIn(level[n]) : Made(x)}
<1>1. Len(leaves) \in Nat \ {0} /\ N \in Nat
  BY EmptySeq DEF IsTable
<1>2. level[0] = leaves /\ \A n \in 1..N : level[n] = PairUp(shape, level[n - 1])
  BY <1>1, LevelsDefined
<1>3. \A n \in 0..N : IsTable(level[n])
  BY LevelsShrink
<1>4. \A n \in 0..N : RowsIn(level[n]) \subseteq Nodes(shape, leaves)
  BY DEF Nodes
<1> HIDE DEF level
<1>5. 0 \in S
  BY <1>1, <1>2
<1>6. ASSUME NEW n \in 0..N - 1, n \in S PROVE n + 1 \in S
  <2> DEFINE low == level[n]
             up == level[n + 1]
  <2>1. n \in 0..N /\ n + 1 \in 0..N /\ up = PairUp(shape, low)
    BY <1>1, <1>2
  <2>2. IsTable(low) /\ RowsIn(low) \subseteq Nodes(shape, leaves) /\ Len(low) \in Nat
        /\ DOMAIN low = 1..Len(low)
    BY <1>3, <1>4, <2>1, TableIndexes
  <2>3. \A x \in RowsIn(low) : Made(x)
    BY <1>6
  <2> HIDE DEF low, up, Made
  <2>4. CASE Len(low) <= 1
    BY <2>1, <2>3, <2>4 DEF PairUp, low, up
  <2>5. CASE Len(low) > 1
    <3>1. /\ IsTable(up) /\ Len(up) = (Len(low) + 1) \div 2
          /\ \A k \in 1..Len(up) :
               up[k] = IF 2*k <= Len(low) THEN HashNode(low[2*k - 1], low[2*k])
                       ELSE IF shape = "legacy" THEN HashNode(low[2*k - 1], low[2*k - 1])
                       ELSE low[2*k - 1]
      BY <2>1, <2>2, <2>5, LevelAbove
    <3>2. ASSUME NEW x \in RowsIn(up) PROVE Made(x)
      <4>1. PICK k \in 1..Len(up) : x = up[k]
        BY <3>1, TableIndexes DEF RowsIn
      <4>2. 2*k - 1 \in 1..Len(low) /\ (2*k <= Len(low) => 2*k \in 1..Len(low))
        BY <2>2, <3>1
      <4>3. low[2*k - 1] \in RowsIn(low) /\ (2*k <= Len(low) => low[2*k] \in RowsIn(low))
        BY <2>2, <4>2 DEF RowsIn
      <4>4. \A l, r \in RowsIn(low) : Made(HashNode(l, r))
        BY <2>2 DEF Made
      <4> QED
        BY <2>3, <3>1, <4>1, <4>3, <4>4
    <3> QED
      BY <2>1, <3>2 DEF up, Made
  <2> QED
    BY <2>2, <2>4, <2>5
<1>7. PICK n \in 0..N : node \in RowsIn(level[n])
  BY DEF Nodes, level
<1>8. n \in S
  <2> HIDE DEF S
  <2>1. 0..N \subseteq S
    BY <1>1, <1>5, <1>6, InductiveUpTo
  <2> QED
    BY <2>1
<1> QED
  BY <1>7, <1>8

\* No proof whatsoever, made by the server or not, is accepted for a leaf that
\* is not in the tree, or for another number of leaves (verify_proof).
THEOREM OnlyLeavesVerify ==
  ASSUME NEW leaves, IsTable(leaves), leaves # <<>>,
         \A k \in DOMAIN leaves : ~IsNode(leaves[k]),
         NEW leaf, ~IsNode(leaf), NEW proof, Len(proof) \in Nat, NEW count,
         VerifyProof(leaf, proof, count, ComputeRoot(leaves))
  PROVE  leaf \in RowsIn(leaves) /\ count = Len(leaves)
<1> DEFINE N == Len(leaves) - 1
           level == Levels("bound", leaves)
           tree == Nodes("bound", leaves)
           M == Len(proof)
           c == Walk(leaf, proof)
           S == {n \in 0..M : c[M - n] \in tree}
<1>1. Len(leaves) \in Nat \ {0} /\ N \in 0..N
  BY EmptySeq DEF IsTable
<1>2. IsTable(level[N]) /\ Len(level[N]) = 1
  BY <1>1, LevelsShrink
<1>3. count = Len(leaves) /\ c[M] = level[N][1]
  <2>1. CommitRoot(count, c[M]) = CommitRoot(Len(leaves), level[N][1])
    BY DEF VerifyProof, WalkRawProof, ComputeRoot, ComputeRawTreeRoot, Top
  <2> QED
    BY <2>1 DEF CommitRoot
<1>4. c[0] = leaf /\ \A n \in 1..M : c[n] = Combine(c[n - 1], proof[n])
  BY WalkDefined
<1>5. level[N][1] \in tree
  <2>1. level[N][1] \in RowsIn(level[N])
    BY <1>2, TableIndexes DEF RowsIn
  <2> QED
    BY <1>1, <2>1 DEF Nodes
<1>6. ASSUME NEW left, NEW right, HashNode(left, right) \in tree
      PROVE  left \in tree /\ right \in tree
  <2>1. HashNode(left, right) \notin RowsIn(leaves)
    BY DEF RowsIn, IsNode
  <2>2. PICK l \in tree, r \in tree : HashNode(left, right) = HashNode(l, r)
    BY <1>6, <2>1, NodesGrow
  <2> QED
    BY <2>2, SameNode
<1> HIDE DEF level, tree, c
<1>7. 0 \in S
  BY <1>3, <1>5
<1>8. ASSUME NEW n \in 0..M - 1, n \in S PROVE n + 1 \in S
  <2>1. M - n \in 1..M /\ (M - n) - 1 = M - (n + 1) /\ n + 1 \in 0..M
    OBVIOUS
  <2>2. Combine(c[M - (n + 1)], proof[M - n]) \in tree
    BY <1>4, <1>8, <2>1
  <2>3. c[M - (n + 1)] \in tree
    BY <1>6, <2>2 DEF Combine
  <2> QED
    BY <2>1, <2>3
<1>9. c[0] \in tree
  <2> HIDE DEF S
  <2>1. 0..M \subseteq S
    BY <1>7, <1>8, InductiveUpTo
  <2>2. M \in S /\ M - M = 0
    BY <2>1
  <2> QED
    BY <2>2 DEF S
<1>10. leaf \in RowsIn(leaves)
  <2>1. leaf \in tree
    BY <1>4, <1>9
  <2> QED
    BY <2>1, NodesGrow DEF tree, IsNode
<1> QED
  BY <1>3, <1>10

-----------------------------------------------------------------------------
(* Sums over finite sets, as the community modules fold them: one element  *)
(* after the other, in an order that CHOOSE picks.                         *)

First(s) == CHOOSE x \in s : TRUE

\* The fold over the subsets of S.
IsSum(f, val, S) ==
  f = [s \in SUBSET S |-> IF s = {} THEN 0 ELSE val[First(s)] + f[s \ {First(s)}]]

\* f[s] is the sum of val over s, for the subsets s of S.
Sums(f, val, S) ==
  \A s \in SUBSET S : f[s] = IF s = {} THEN 0 ELSE val[First(s)] + f[s \ {First(s)}]

LEMMA FirstOf ==
  ASSUME NEW s, s # {}
  PROVE  First(s) \in s
  BY DEF First

\* A set without its first element is finite and smaller.
LEMMA WithoutFirst ==
  ASSUME NEW S, IsFiniteSet(S), NEW s \in SUBSET S, s # {}
  PROVE  /\ First(s) \in s /\ s \ {First(s)} \in SUBSET S
         /\ IsFiniteSet(s) /\ Cardinality(s) \in Nat \ {0}
         /\ Cardinality(s \ {First(s)}) = Cardinality(s) - 1
<1>1. First(s) \in s
  BY FirstOf
<1>2. IsFiniteSet(s)
  BY FS_Subset
<1>3. Cardinality(s) \in Nat /\ Cardinality(s) # 0
  BY <1>2, FS_CardinalityType, FS_EmptySet
<1>4. Cardinality(s \ {First(s)}) = Cardinality(s) - 1
  BY <1>1, <1>2, FS_RemoveElement
<1> QED
  BY <1>1, <1>2, <1>3, <1>4

LEMMA SumsExist ==
  ASSUME NEW S, IsFiniteSet(S), NEW val
  PROVE  \E f : IsSum(f, val, S)
<1> DEFINE next(f, s) == IF s = {} THEN 0 ELSE val[First(s)] + f[s \ {First(s)}]
           D(n) == {s \in SUBSET S : Cardinality(s) <= n}
           On(f, n) == [s \in D(n) |-> next(f, s)]
           K == {n \in Nat : \E f : f = On(f, n)}
<1>0. /\ Cardinality(S) \in Nat
      /\ \A s \in SUBSET S : Cardinality(s) \in Nat /\ Cardinality(s) <= Cardinality(S)
  BY FS_CardinalityType, FS_Subset
<1>1. 0 \in K
  <2> DEFINE f == [s \in D(0) |-> 0]
  <2>1. \A s \in D(0) : s = {}
    BY <1>0, FS_EmptySet, FS_Subset
  <2>2. f = On(f, 0)
    BY <2>1
  <2> QED
    BY <2>2
<1>2. ASSUME NEW n \in Nat, n \in K PROVE n + 1 \in K
  <2>1. PICK f : f = On(f, n)
    BY <1>2
  <2> DEFINE g == [s \in D(n + 1) |-> next(f, s)]
  <2>2. ASSUME NEW s \in D(n + 1), s # {} PROVE s \ {First(s)} \in D(n)
    <3>1. /\ s \ {First(s)} \in SUBSET S
          /\ Cardinality(s \ {First(s)}) = Cardinality(s) - 1
      BY <2>2, WithoutFirst
    <3> QED
      BY <1>0, <3>1
  <2>3. ASSUME NEW s \in D(n) PROVE s \in D(n + 1) /\ g[s] = f[s]
    <3>1. s \in D(n + 1)
      BY <1>0
    <3>2. f[s] = next(f, s)
      BY <2>1
    <3> QED
      BY <3>1, <3>2
  <2>4. ASSUME NEW s \in D(n + 1) PROVE g[s] = next(g, s)
    <3>1. g[s] = next(f, s)
      OBVIOUS
    <3>2. s # {} => g[s \ {First(s)}] = f[s \ {First(s)}]
      BY <2>2, <2>3
    <3> HIDE DEF g
    <3> QED
      BY <3>1, <3>2
  <2>5. g = On(g, n + 1)
    <3>1. g = [s \in D(n + 1) |-> g[s]]
      OBVIOUS
    <3> HIDE DEF g, D, next
    <3> QED
      BY <2>4, <3>1
  <2> HIDE DEF g, On
  <2> QED
    BY <2>5
<1>3. Cardinality(S) \in K
  <2> HIDE DEF K
  <2>1. Nat \subseteq K
    BY <1>1, <1>2, InductiveSet
  <2> QED
    BY <1>0, <2>1
<1>4. D(Cardinality(S)) = SUBSET S
  BY <1>0
<1>5. PICK f : f = On(f, Cardinality(S))
  BY <1>3
<1> QED
  BY <1>4, <1>5 DEF IsSum

\* What holds of the empty set and of every set whose remainder has it holds of
\* all subsets.
LEMMA SubsetInduction ==
  ASSUME NEW S, IsFiniteSet(S), NEW Good, {} \in Good,
         ASSUME NEW s \in SUBSET S, s # {},
                \A u \in SUBSET S : Cardinality(u) < Cardinality(s) => u \in Good
         PROVE  s \in Good
  PROVE  SUBSET S \subseteq Good
<1> DEFINE K == {n \in Nat : \A s \in SUBSET S : Cardinality(s) <= n => s \in Good}
<1>0. /\ Cardinality(S) \in Nat
      /\ \A s \in SUBSET S : Cardinality(s) \in Nat /\ Cardinality(s) <= Cardinality(S)
      /\ \A s \in SUBSET S : Cardinality(s) = 0 => s = {}
  BY FS_CardinalityType, FS_Subset, FS_EmptySet
<1>1. 0 \in K
  BY <1>0
<1>2. ASSUME NEW n \in Nat, n \in K PROVE n + 1 \in K
  <2>1. ASSUME NEW s \in SUBSET S, Cardinality(s) <= n + 1 PROVE s \in Good
    <3>1. \A u \in SUBSET S : Cardinality(u) < Cardinality(s) => u \in Good
      BY <1>0, <1>2, <2>1
    <3>2. CASE s = {}
      BY <3>2
    <3>3. CASE s # {}
      BY <3>1, <3>3
    <3> QED
      BY <3>2, <3>3
  <2> QED
    BY <2>1
<1>3. Cardinality(S) \in K
  <2> HIDE DEF K
  <2>1. Nat \subseteq K
    BY <1>1, <1>2, InductiveSet
  <2> QED
    BY <1>0, <2>1
<1> QED
  BY <1>0, <1>3

\* There is one sum.
LEMMA SumsAgree ==
  ASSUME NEW S, IsFiniteSet(S), NEW val, NEW f, NEW g, NEW T \in SUBSET S,
         Sums(f, val, S), Sums(g, val, T)
  PROVE  \A s \in SUBSET T : f[s] = g[s]
<1> DEFINE Good == {s \in SUBSET T : f[s] = g[s]}
<1>0. IsFiniteSet(T)
  BY FS_Subset
<1>1. {} \in Good
  BY DEF Sums
<1>2. ASSUME NEW s \in SUBSET T, s # {},
             \A u \in SUBSET T : Cardinality(u) < Cardinality(s) => u \in Good
      PROVE  s \in Good
  <2> DEFINE u == s \ {First(s)}
  <2>1. u \in SUBSET T /\ Cardinality(u) < Cardinality(s)
    BY <1>0, <1>2, WithoutFirst
  <2>2. f[s] = val[First(s)] + f[u] /\ g[s] = val[First(s)] + g[u]
    BY <1>2 DEF Sums
  <2>3. f[u] = g[u]
    BY <1>2, <2>1
  <2> QED
    BY <2>2, <2>3
<1>3. SUBSET T \subseteq Good
  <2> HIDE DEF Good
  <2> QED
    BY <1>0, <1>1, <1>2, SubsetInduction
<1> QED
  BY <1>3

LEMMA SumsTyped ==
  ASSUME NEW S, IsFiniteSet(S), NEW val, \A x \in S : val[x] \in Nat,
         NEW f, Sums(f, val, S)
  PROVE  \A s \in SUBSET S : f[s] \in Nat
<1> DEFINE Good == {s \in SUBSET S : f[s] \in Nat}
<1>1. {} \in Good
  <2>1. {} \in SUBSET S
    OBVIOUS
  <2>2. f[{}] = 0
    BY <2>1 DEF Sums
  <2> QED
    BY <2>1, <2>2
<1>2. ASSUME NEW s \in SUBSET S, s # {},
             \A u \in SUBSET S : Cardinality(u) < Cardinality(s) => u \in Good
      PROVE  s \in Good
  <2> DEFINE u == s \ {First(s)}
  <2>1. u \in SUBSET S /\ Cardinality(u) < Cardinality(s) /\ First(s) \in S
    BY <1>2, WithoutFirst
  <2>2. f[s] = val[First(s)] + f[u]
    BY <1>2 DEF Sums
  <2>3. f[u] \in Nat
    BY <1>2, <2>1
  <2> QED
    BY <2>1, <2>2, <2>3
<1>3. SUBSET S \subseteq Good
  <2> HIDE DEF Good
  <2> QED
    BY <1>1, <1>2, SubsetInduction
<1> QED
  BY <1>3

\* A sum is that of the other elements and any one of them.
LEMMA SumsAdd ==
  ASSUME NEW S, IsFiniteSet(S), NEW val, \A x \in S : val[x] \in Nat,
         NEW f, Sums(f, val, S)
  PROVE  \A s \in SUBSET S : \A t \in s : f[s] = f[s \ {t}] + val[t]
<1> DEFINE Good == {s \in SUBSET S : \A t \in s : f[s] = f[s \ {t}] + val[t]}
<1>1. {} \in Good
  OBVIOUS
<1>2. ASSUME NEW s \in SUBSET S, s # {},
             \A u \in SUBSET S : Cardinality(u) < Cardinality(s) => u \in Good
      PROVE  s \in Good
  <2> SUFFICES ASSUME NEW t \in s PROVE f[s] = f[s \ {t}] + val[t]
    BY <1>2
  <2> DEFINE x == First(s)
             u == s \ {x}
             v == s \ {t}
             w == (s \ {x}) \ {t}
  <2>1. /\ x \in s /\ u \in SUBSET S /\ IsFiniteSet(s) /\ Cardinality(s) \in Nat \ {0}
        /\ Cardinality(u) = Cardinality(s) - 1
    BY <1>2, WithoutFirst
  <2>2. Cardinality(v) = Cardinality(s) - 1
    BY <2>1, FS_RemoveElement
  <2>3. f[s] = f[u] + val[x] /\ \A y \in s : val[y] \in Nat
    <3>1. f[s] = val[x] + f[u]
      BY <1>2 DEF Sums
    <3>2. f[u] \in Nat
      BY <2>1, SumsTyped
    <3> QED
      BY <2>1, <3>1, <3>2
  <2>4. CASE t = x
    BY <2>3, <2>4
  <2>5. CASE t # x
    <3>0. /\ v \in SUBSET S
          /\ Cardinality(u) < Cardinality(s) /\ Cardinality(v) < Cardinality(s)
      <4>1. v \in SUBSET S
        OBVIOUS
      <4>2. \A n \in Nat \ {0} : n - 1 < n
        OBVIOUS
      <4> HIDE DEF u, v
      <4> QED
        BY <2>1, <2>2, <4>1, <4>2
    <3>1. u \in Good /\ v \in Good
      <4> HIDE DEF u, v, Good
      <4> QED
        BY <1>2, <2>1, <3>0
    <3>2. f[u] = f[w] + val[t]
      BY <2>5, <3>1
    <3>3. f[v] = f[v \ {x}] + val[x]
      BY <2>1, <2>5, <3>1
    <3>4. v \ {x} = w
      OBVIOUS
    <3>5. f[w] \in Nat
      <4>1. w \in SUBSET S
        OBVIOUS
      <4> QED
        BY <4>1, SumsTyped
    <3>6. val[t] \in Nat /\ val[x] \in Nat
      BY <2>1, <2>3
    <3> HIDE DEF u, v, w, x
    <3>7. f[s] = (f[w] + val[t]) + val[x] /\ f[v] = f[w] + val[x]
      BY <2>3, <3>2, <3>3, <3>4
    <3>8. f[s] = f[v] + val[t]
      BY <3>5, <3>6, <3>7
    <3> QED
      BY <3>8 DEF v
  <2> QED
    BY <2>4, <2>5
<1>3. SUBSET S \subseteq Good
  <2> HIDE DEF Good
  <2> QED
    BY <1>1, <1>2, SubsetInduction
<1> QED
  BY <1>3

-----------------------------------------------------------------------------
(* Numbers modulo q. *)

\* x and y leave the same remainder.
Congruent(x, y, q) == \E k \in Int : x = y + k * q

\* A remainder is congruent to its number.
LEMMA CongruentMod ==
  ASSUME NEW x \in Int, NEW q \in Nat \ {0}
  PROVE  Congruent(x % q, x, q)
<1> DEFINE k == x \div q
<1>1. k \in Int /\ x % q \in Int /\ x = q * k + (x % q)
  BY DivMod
<1> HIDE DEF k
<1>2. -k \in Int /\ x % q = x + (-k) * q
  BY <1>1
<1> QED
  BY <1>2 DEF Congruent

\* Congruent numbers have one remainder.
LEMMA CongruentEqual ==
  ASSUME NEW x \in Int, NEW y \in Int, NEW q \in Nat \ {0}, Congruent(x, y, q)
  PROVE  x % q = y % q
<1>1. PICK k \in Int : x = y + k * q
  BY DEF Congruent
<1> DEFINE d == y \div q
           r == y % q
<1>2. d \in Int /\ r \in 0..q - 1 /\ y = q * d + r
  BY DivMod
<1> HIDE DEF d, r
<1>3. x = q * (d + k) + r /\ d + k \in Int
  BY <1>1, <1>2
<1>4. x % q = r
  BY <1>2, <1>3, DivModUnique
<1> QED
  BY <1>4 DEF r

\* Congruence is symmetric,
LEMMA CongruentTurned ==
  ASSUME NEW x \in Int, NEW y \in Int, NEW q \in Nat \ {0}, Congruent(x, y, q)
  PROVE  Congruent(y, x, q)
<1>1. PICK k \in Int : x = y + k * q
  BY DEF Congruent
<1>2. -k \in Int /\ y = x + (-k) * q
  BY <1>1
<1> QED
  BY <1>2 DEF Congruent

\* and transitive,
LEMMA CongruentChain ==
  ASSUME NEW x \in Int, NEW y \in Int, NEW z \in Int, NEW q \in Nat \ {0},
         Congruent(x, y, q), Congruent(y, z, q)
  PROVE  Congruent(x, z, q)
<1>1. PICK k \in Int : x = y + k * q
  BY DEF Congruent
<1>2. PICK l \in Int : y = z + l * q
  BY DEF Congruent
<1>3. k + l \in Int /\ x = z + (k + l) * q
  BY <1>1, <1>2
<1> QED
  BY <1>3 DEF Congruent

\* and kept by sums,
LEMMA CongruentSum ==
  ASSUME NEW x \in Int, NEW y \in Int, NEW a \in Int, NEW b \in Int, NEW q \in Nat \ {0},
         Congruent(x, y, q), Congruent(a, b, q)
  PROVE  Congruent(x + a, y + b, q)
<1>1. PICK k \in Int : x = y + k * q
  BY DEF Congruent
<1>2. PICK l \in Int : a = b + l * q
  BY DEF Congruent
<1>3. k + l \in Int /\ x + a = (y + b) + (k + l) * q
  BY <1>1, <1>2
<1> QED
  BY <1>3 DEF Congruent

\* and by a factor,
LEMMA CongruentProduct ==
  ASSUME NEW x \in Int, NEW y \in Int, NEW c \in Int, NEW q \in Nat \ {0},
         Congruent(x, y, q)
  PROVE  Congruent(c * x, c * y, q)
<1>1. PICK k \in Int : x = y + k * q
  BY DEF Congruent
<1>2. c * k \in Int
  OBVIOUS
<1>3. c * (k * q) = (c * k) * q
  OBVIOUS
<1>4. c * (y + k * q) = c * y + c * (k * q)
  OBVIOUS
<1> QED
  BY <1>1, <1>2, <1>3, <1>4 DEF Congruent

\* and by products.
LEMMA CongruentProducts ==
  ASSUME NEW x \in Int, NEW y \in Int, NEW a \in Int, NEW b \in Int, NEW q \in Nat \ {0},
         Congruent(x, y, q), Congruent(a, b, q)
  PROVE  Congruent(x * a, y * b, q)
<1>1. Congruent(x * a, x * b, q)
  BY CongruentProduct
<1>2. Congruent(b * x, b * y, q)
  BY CongruentProduct
<1>3. b * x = x * b /\ b * y = y * b /\ x * a \in Int /\ x * b \in Int /\ y * b \in Int
  OBVIOUS
<1> QED
  BY <1>1, <1>2, <1>3, CongruentChain

\* Every number but 0 has an inverse modulo a prime.
LEMMA InverseExists ==
  ASSUME NEW q \in Nat, q > 1, \A d \in 2..q - 1 : q % d # 0, NEW x \in 1..q - 1
  PROVE  \E y \in 0..q - 1 : (x * y) % q = 1
<1> DEFINE T == {d \in 1..q - 1 : \E y \in Int : Congruent(d, x * y, q)}
<1>0. q \in Nat \ {0}
  OBVIOUS
<1>1. x \in T
  <2>1. x = x * 1 + 0 * q /\ 0 \in Int /\ 1 \in Int
    OBVIOUS
  <2>2. Congruent(x, x * 1, q)
    BY <2>1, Zenon DEF Congruent
  <2>3. x \in 1..q - 1
    OBVIOUS
  <2> QED
    BY <2>1, <2>2, <2>3, Zenon
<1>2. PICK d \in T : \A e \in T : d <= e
  <2>1. 1..q - 1 \subseteq Nat
    OBVIOUS
  <2>2. T \subseteq Nat /\ T # {}
    BY <1>1, <2>1, Zenon
  <2> HIDE DEF T
  <2> QED
    BY <2>2, LeastNat
<1>3. d \in 1..q - 1
  OBVIOUS
<1>4. PICK y \in Int : Congruent(d, x * y, q)
  OBVIOUS
<1>5. PICK k \in Int : d = x * y + k * q
  BY <1>4 DEF Congruent
<1> DEFINE m == q \div d
           r == q % d
<1>6. m \in Int /\ r \in 0..d - 1 /\ q = d * m + r
  BY <1>3, DivMod
<1> HIDE DEF m, r
<1>7. r = 0
  <2>1. r = q - d * m
    BY <1>3, <1>6
  <2>2. d * m = (x * y + k * q) * m
    BY <1>5
  <2>3. (x * y + k * q) * m = x * (y * m) + (k * m) * q
    BY <1>6
  <2>4. r = x * (-(y * m)) + (1 - k * m) * q
    BY <1>6, <2>1, <2>2, <2>3
  <2>5. -(y * m) \in Int /\ 1 - k * m \in Int
    BY <1>6
  <2>6. Congruent(r, x * (-(y * m)), q)
    BY <2>4, <2>5 DEF Congruent
  <2>7. ASSUME r # 0 PROVE r \in T
    <3>1. r \in 1..q - 1
      BY <1>3, <1>6, <2>7
    <3> QED
      BY <2>5, <2>6, <3>1
  <2> QED
    BY <1>2, <1>3, <1>6, <2>7
<1>8. d = 1
  BY <1>3, <1>7 DEF r
<1>9. (x * y) % q = 1
  <2>1. x * y \in Int
    OBVIOUS
  <2>2. Congruent(1, x * y, q)
    BY <1>4, <1>8
  <2>3. 1 % q = (x * y) % q
    <3>1. 1 \in Int /\ q \in Nat \ {0}
      OBVIOUS
    <3> QED
      BY <2>1, <2>2, <3>1, CongruentEqual
  <2>4. 1 = q * 0 + 1 /\ 1 \in 0..q - 1 /\ 1 \in Int /\ 0 \in Int /\ q \in Nat \ {0}
    OBVIOUS
  <2>5. 1 % q = 1
    BY <2>4, DivModUnique
  <2> QED
    BY <2>3, <2>5
<1>10. y % q \in 0..q - 1 /\ (x * (y % q)) % q = 1
  <2>1. y % q \in 0..q - 1
    BY <1>0, DivMod
  <2>2. Congruent(x * (y % q), x * y, q)
    <3>1. y % q \in Int /\ x \in Int
      BY <2>1
    <3>2. Congruent(y % q, y, q)
      BY <1>0, CongruentMod
    <3> QED
      BY <1>0, <3>1, <3>2, CongruentProduct
  <2>3. x * (y % q) \in Int /\ x * y \in Int
    BY <2>1
  <2> QED
    BY <1>0, <1>9, <2>1, <2>2, <2>3, CongruentEqual
<1> QED
  BY <1>10

-----------------------------------------------------------------------------
(* Integers of several bytes: a number is its lowest byte and the rest. *)

\* Shifting drops one byte after the other.
LEMMA ShiftedNext ==
  ASSUME NEW n, NEW base, NEW k \in Nat
  PROVE  /\ Shifted(n, 0, base) = n
         /\ Shifted(n, k + 1, base) = Shifted(n, k, base) \div base
<1> DEFINE Over(f, m) == [i \in 0..m |-> IF i = 0 THEN n ELSE f[i - 1] \div base]
           S == {m \in Nat : \E f : f = Over(f, m)}
           R(m) == CHOOSE f : f = Over(f, m)
<1>1. 0 \in S
  <2>1. [i \in 0..0 |-> n] = Over([i \in 0..0 |-> n], 0)
    OBVIOUS
  <2> QED
    BY <2>1
<1>2. ASSUME NEW m \in Nat, m \in S PROVE m + 1 \in S
  <2>1. PICK f : f = Over(f, m)
    BY <1>2
  <2> DEFINE g == [i \in 0..m + 1 |-> IF i = m + 1 THEN f[m] \div base ELSE f[i]]
  <2>2. ASSUME NEW i \in 0..m + 1 PROVE g[i] = Over(g, m + 1)[i]
    <3>1. CASE i = 0
      BY <2>1, <3>1
    <3>2. CASE i \in 1..m
      <4>1. g[i] = f[i] /\ g[i - 1] = f[i - 1]
        BY <3>2
      <4>2. f[i] = f[i - 1] \div base
        BY <2>1, <3>2
      <4>3. Over(g, m + 1)[i] = g[i - 1] \div base
        BY <3>2
      <4> QED
        BY <4>1, <4>2, <4>3
    <3>3. CASE i = m + 1
      <4>1. g[i] = f[m] \div base /\ g[i - 1] = f[m]
        BY <3>3
      <4>2. Over(g, m + 1)[i] = g[i - 1] \div base
        BY <3>3
      <4> QED
        BY <4>1, <4>2
    <3> QED
      BY <3>1, <3>2, <3>3
  <2>3. g = Over(g, m + 1)
    BY <2>2
  <2> HIDE DEF g
  <2> QED
    BY <2>3
<1>3. Nat \subseteq S
  <2> HIDE DEF S
  <2> QED
    BY <1>1, <1>2, InductiveSet
<1>4. ASSUME NEW m \in Nat PROVE R(m) = Over(R(m), m)
  <2>1. \E f : f = Over(f, m)
    BY <1>3
  <2> QED
    BY <2>1, Zenon
<1>5. ASSUME NEW m \in Nat PROVE Shifted(n, m, base) = R(m)[m]
  BY DEF Shifted
<1> HIDE DEF R, S
<1>6. ASSUME NEW m \in Nat PROVE R(m)[0] = n /\ \A i \in 1..m : R(m)[i] = R(m)[i - 1] \div base
  <2>1. 0 \in 0..m /\ \A i \in 1..m : i \in 0..m /\ i # 0
    OBVIOUS
  <2> QED
    BY <1>4, <2>1
<1>7. R(k + 1)[k] = R(k)[k]
  <2> DEFINE T == {i \in 0..k : R(k + 1)[i] = R(k)[i]}
  <2>1. 0 \in T
    BY <1>6
  <2>2. ASSUME NEW i \in 0..k - 1, i \in T PROVE i + 1 \in T
    <3>1. i + 1 \in 1..k /\ i + 1 \in 1..k + 1 /\ (i + 1) - 1 = i /\ k + 1 \in Nat
      OBVIOUS
    <3>2. R(k)[i + 1] = R(k)[i] \div base /\ R(k + 1)[i + 1] = R(k + 1)[i] \div base
      BY <1>6, <3>1
    <3> QED
      BY <2>2, <3>1, <3>2
  <2> HIDE DEF T
  <2>3. 0..k \subseteq T
    BY <2>1, <2>2, InductiveUpTo
  <2> QED
    BY <2>3 DEF T
<1>8. R(k + 1)[k + 1] = R(k + 1)[k] \div base
  <2>1. k + 1 \in 1..k + 1 /\ (k + 1) - 1 = k /\ k + 1 \in Nat
    OBVIOUS
  <2> QED
    BY <1>6, <2>1
<1>9. k + 1 \in Nat /\ 0 \in Nat
  OBVIOUS
<1> QED
  BY <1>5, <1>6, <1>7, <1>8, <1>9

\* What is left is a number.
LEMMA ShiftedType ==
  ASSUME NEW n \in Nat, NEW base \in Nat \ {0}, NEW k \in Nat
  PROVE  Shifted(n, k, base) \in Nat
<1> DEFINE S == {j \in Nat : Shifted(n, j, base) \in Nat}
<1>1. 0 \in S
  BY ShiftedNext
<1>2. ASSUME NEW j \in Nat, j \in S PROVE j + 1 \in S
  <2>1. Shifted(n, j + 1, base) = Shifted(n, j, base) \div base
    BY ShiftedNext
  <2>2. \A x \in Nat : x \div base \in Nat
    OBVIOUS
  <2> QED
    BY <1>2, <2>1, <2>2
<1> HIDE DEF S
<1>3. Nat \subseteq S
  BY <1>1, <1>2, InductiveSet
<1> QED
  BY <1>3 DEF S

\* A number is its lowest byte and the rest.
LEMMA LowestByte ==
  ASSUME NEW n \in Nat, NEW base \in Nat \ {0}, NEW k \in Nat
  PROVE  Shifted(n, k, base) = base * Shifted(n, k + 1, base) + (Shifted(n, k, base) % base)
<1>1. Shifted(n, k, base) \in Int /\ Shifted(n, k + 1, base) = Shifted(n, k, base) \div base
  BY ShiftedType, ShiftedNext
<1> QED
  BY <1>1, DivMod

\* What a width holds a wider one holds too.
LEMMA WiderFits ==
  ASSUME NEW n \in Nat, NEW base \in Nat \ {0}, NEW v \in Nat, NEW w \in Nat, v <= w,
         Shifted(n, v, base) = 0
  PROVE  Shifted(n, w, base) = 0
<1> DEFINE S == {j \in Nat : Shifted(n, v + j, base) = 0}
<1>1. 0 \in S
  OBVIOUS
<1>2. ASSUME NEW j \in Nat, j \in S PROVE j + 1 \in S
  <2>1. Shifted(n, (v + j) + 1, base) = Shifted(n, v + j, base) \div base
    BY ShiftedNext
  <2>2. 0 \div base = 0 /\ (v + j) + 1 = v + (j + 1)
    OBVIOUS
  <2> QED
    BY <1>2, <2>1, <2>2
<1> HIDE DEF S
<1>3. Nat \subseteq S
  BY <1>1, <1>2, InductiveSet
<1>4. w - v \in S
  BY <1>3
<1>5. v + (w - v) = w
  OBVIOUS
<1> QED
  BY <1>4, <1>5 DEF S

\* Less than the square of the base fits into two bytes.
LEMMA TwoBytes ==
  ASSUME NEW base \in Nat \ {0}, NEW n \in Nat
  PROVE  n < base * base <=> Shifted(n, 2, base) = 0
<1>1. Shifted(n, 1, base) = n \div base
  <2>1. 0 \in Nat /\ 0 + 1 = 1
    OBVIOUS
  <2> QED
    BY <2>1, ShiftedNext
<1>2. Shifted(n, 2, base) = (n \div base) \div base
  <2>1. 1 \in Nat /\ 1 + 1 = 2
    OBVIOUS
  <2> QED
    BY <1>1, <2>1, ShiftedNext
<1> DEFINE d == n \div base
<1>3. d \in Nat /\ n % base \in 0..base - 1 /\ n = base * d + (n % base)
  OBVIOUS
<1> HIDE DEF d
<1>4. n < base * base <=> d < base
  <2>1. CASE d < base
    <3>1. d + 1 <= base
      BY <1>3, <2>1
    <3>2. base * (d + 1) <= base * base
      BY <1>3, <3>1
    <3> QED
      BY <1>3, <2>1, <3>2
  <2>2. CASE d >= base
    <3>1. base * d >= base * base
      BY <1>3, <2>2
    <3> QED
      BY <1>3, <2>2, <3>1
  <2> QED
    BY <1>3, <2>1, <2>2
<1>5. d \div base = 0 <=> d < base
  BY <1>3
<1> QED
  BY <1>2, <1>4, <1>5 DEF d

\* An integer that fits is determined by its bytes.
LEMMA BigEndianBinds ==
  ASSUME NEW base \in Nat \ {0}, NEW w \in Nat, NEW x \in Nat, NEW y \in Nat,
         Shifted(x, w, base) = 0, Shifted(y, w, base) = 0,
         \A k \in 1..w : BigEndian(x, w, base)[k] = BigEndian(y, w, base)[k]
  PROVE  x = y
<1> DEFINE T == {i \in 0..w : Shifted(x, w - i, base) = Shifted(y, w - i, base)}
<1>1. 0 \in T
  OBVIOUS
<1>2. ASSUME NEW i \in 0..w - 1, i \in T PROVE i + 1 \in T
  <2> DEFINE k == w - (i + 1)
  <2>1. k \in Nat /\ k + 1 = w - i /\ i + 1 \in 1..w /\ w - (i + 1) = k
    OBVIOUS
  <2> HIDE DEF k
  <2>2. Shifted(x, k, base) % base = Shifted(y, k, base) % base
    BY <2>1 DEF BigEndian
  <2>3. /\ Shifted(x, k, base) = base * Shifted(x, k + 1, base) + (Shifted(x, k, base) % base)
        /\ Shifted(y, k, base) = base * Shifted(y, k + 1, base) + (Shifted(y, k, base) % base)
    BY <2>1, LowestByte
  <2>4. Shifted(x, k + 1, base) = Shifted(y, k + 1, base)
    BY <1>2, <2>1
  <2>5. Shifted(x, k, base) = Shifted(y, k, base)
    BY <2>2, <2>3, <2>4
  <2> QED
    BY <2>1, <2>5
<1> HIDE DEF T
<1>3. 0..w \subseteq T
  BY <1>1, <1>2, InductiveUpTo
<1>4. Shifted(x, w - w, base) = Shifted(y, w - w, base)
  BY <1>3 DEF T
<1>5. w - w = 0 /\ 0 \in Nat
  OBVIOUS
<1> QED
  BY <1>4, <1>5, ShiftedNext

\* Bytes at w positions, and what is read of an integer after i of them.
AreBytes(m, p, w, base) == \A i \in p..p + w - 1 : m[i] \in 0..base - 1

IsWritten(m, p, n, w, base) == \A k \in 1..w : m[p - 1 + k] = LittleEndian(n, w, base)[k]

Reads(f, m, p, w, base) ==
  /\ f \in [0..w -> Nat]
  /\ f[0] = 0 /\ f[w] = NumberAt(m, p, w, base)
  /\ \A i \in 1..w : f[i] = f[i - 1] * base + m[p + w - i]

\* The integer is read byte by byte.
LEMMA NumberAtSteps ==
  ASSUME NEW m, NEW p \in Nat, NEW w \in Nat, NEW base \in Nat \ {0}, AreBytes(m, p, w, base)
  PROVE  \E f : Reads(f, m, p, w, base)
<1> DEFINE Over(f) == [i \in 0..w |-> IF i = 0 THEN 0 ELSE f[i - 1] * base + m[p + w - i]]
           R == CHOOSE f : f = Over(f)
<1>1. PICK X : X = Nat
  OBVIOUS
<1> DEFINE step == [i \in 1..w |-> [x \in X |-> x * base + m[p + w - i]]]
<1>2. \A i \in 1..w : p + w - i \in p..p + w - 1 /\ m[p + w - i] \in 0..base - 1
  <2>1. \A i \in 1..w : p + w - i \in p..p + w - 1
    OBVIOUS
  <2> QED
    BY <2>1 DEF AreBytes
<1>3. step \in [1..w -> [X -> X]] /\ 0 \in X
  <2>1. ASSUME NEW i \in 1..w, NEW x \in Nat PROVE x * base + m[p + w - i] \in Nat
    <3>1. m[p + w - i] \in Nat /\ x * base \in Nat
      BY <1>2
    <3> QED
      BY <3>1
  <2> QED
    BY <1>1, <2>1
<1>4. \A i \in 1..w : \A x \in X : step[i][x] = x * base + m[p + w - i]
  OBVIOUS
<1> HIDE DEF step, R, Over
<1>0. PICK f : IsLoop(f, X, 0, w, step)
  BY <1>3, LoopDefined
<1>5. f \in [0..w -> X] /\ f[0] = 0 /\ \A i \in 1..w : f[i] = step[i][f[i - 1]]
  BY <1>0 DEF IsLoop
<1>6. ASSUME NEW i \in 0..w PROVE f[i] = IF i = 0 THEN 0 ELSE f[i - 1] * base + m[p + w - i]
  <2>1. i # 0 => i \in 1..w /\ f[i - 1] \in X
    BY <1>5
  <2> QED
    BY <1>4, <1>5, <2>1
<1>7. f = [i \in 0..w |-> f[i]]
  BY <1>5
<1>8. f = Over(f)
  BY <1>6, <1>7 DEF Over
<1>9. R = Over(R)
  BY <1>8, Zenon DEF R
<1>10. NumberAt(m, p, w, base) = R[w]
  BY DEF NumberAt, R, Over
<1>11. R[0] = 0 /\ \A i \in 1..w : R[i] = R[i - 1] * base + m[p + w - i]
  <2>1. 0 \in 0..w /\ \A i \in 1..w : i \in 0..w /\ i # 0
    OBVIOUS
  <2> QED
    BY <1>9, <2>1 DEF Over
<1>12. \A i \in 0..w : R[i] \in Nat
  <2> DEFINE T == {i \in 0..w : R[i] \in Nat}
  <2>1. 0 \in T
    BY <1>11
  <2>2. ASSUME NEW i \in 0..w - 1, i \in T PROVE i + 1 \in T
    <3>1. i + 1 \in 1..w /\ (i + 1) - 1 = i
      OBVIOUS
    <3>2. R[i + 1] = R[i] * base + m[p + w - (i + 1)]
      BY <1>11, <3>1
    <3>3. m[p + w - (i + 1)] \in Nat /\ R[i] * base \in Nat
      BY <1>2, <2>2, <3>1
    <3> QED
      BY <3>1, <3>2, <3>3
  <2> HIDE DEF T
  <2>3. 0..w \subseteq T
    BY <2>1, <2>2, InductiveUpTo
  <2> QED
    BY <2>3 DEF T
<1>13. R \in [0..w -> Nat]
  <2>1. R = [i \in 0..w |-> R[i]]
    BY <1>9 DEF Over
  <2> QED
    BY <1>12, <2>1
<1> QED
  BY <1>10, <1>11, <1>13 DEF Reads

\* An integer that was written is read back.
LEMMA NumberReadBack ==
  ASSUME NEW m, NEW p \in Nat, NEW w \in Nat, NEW base \in Nat \ {0}, NEW n \in Nat,
         Shifted(n, w, base) = 0,
         IsWritten(m, p, n, w, base)
  PROVE  NumberAt(m, p, w, base) = n
<1>1. ASSUME NEW k \in 1..w
      PROVE  m[p - 1 + k] = Shifted(n, k - 1, base) % base /\ m[p - 1 + k] \in 0..base - 1
  <2>1. m[p - 1 + k] = Shifted(n, k - 1, base) % base
    BY DEF LittleEndian, IsWritten
  <2>2. k - 1 \in Nat
    OBVIOUS
  <2>3. Shifted(n, k - 1, base) \in Int
    BY <2>2, ShiftedType
  <2> QED
    BY <2>1, <2>3, DivMod
<1>2. AreBytes(m, p, w, base)
  <2> SUFFICES ASSUME NEW i \in p..p + w - 1 PROVE m[i] \in 0..base - 1
    BY DEF AreBytes
  <2>1. i - p + 1 \in 1..w /\ p - 1 + (i - p + 1) = i
    OBVIOUS
  <2> QED
    BY <1>1, <2>1
<1>3. \E f : Reads(f, m, p, w, base)
  BY <1>2, NumberAtSteps
<1>9. PICK f : /\ f \in [0..w -> Nat]
               /\ f[0] = 0 /\ f[w] = NumberAt(m, p, w, base)
               /\ \A i \in 1..w : f[i] = f[i - 1] * base + m[p + w - i]
  BY <1>3, Zenon DEF Reads
<1> DEFINE T == {i \in 0..w : f[i] = Shifted(n, w - i, base)}
<1>4. 0 \in T
  BY <1>9
<1>5. ASSUME NEW i \in 0..w - 1, i \in T PROVE i + 1 \in T
  <2> DEFINE k == w - (i + 1)
  <2>1. k \in Nat /\ k + 1 \in Nat /\ k + 1 = w - i /\ k + 1 \in 1..w /\ p - 1 + (k + 1) = p + w - (i + 1)
        /\ (k + 1) - 1 = k /\ i + 1 \in 1..w /\ (i + 1) - 1 = i /\ w - (i + 1) = k
    OBVIOUS
  <2> HIDE DEF k
  <2>2. f[i + 1] = f[i] * base + m[p - 1 + (k + 1)]
    BY <1>9, <2>1
  <2>3. m[p - 1 + (k + 1)] = Shifted(n, k, base) % base
    BY <1>1, <2>1
  <2>4. Shifted(n, k, base) = base * Shifted(n, k + 1, base) + (Shifted(n, k, base) % base)
    BY <2>1, LowestByte
  <2>5. f[i] = Shifted(n, k + 1, base)
    BY <1>5, <2>1
  <2>6. Shifted(n, k + 1, base) \in Nat
    BY <2>1, ShiftedType
  <2>7. f[i + 1] = Shifted(n, k, base)
    BY <2>2, <2>3, <2>4, <2>5, <2>6
  <2> QED
    BY <2>1, <2>7
<1> HIDE DEF T
<1>6. 0..w \subseteq T
  BY <1>4, <1>5, InductiveUpTo
<1>7. f[w] = Shifted(n, w - w, base)
  BY <1>6 DEF T
<1>8. w - w = 0
  OBVIOUS
<1> QED
  BY <1>9, <1>7, <1>8, ShiftedNext

\* An integer that is read fits, and would be written as it was.
LEMMA NumberWriteBack ==
  ASSUME NEW m, NEW p \in Nat, NEW w \in Nat, NEW base \in Nat \ {0}, AreBytes(m, p, w, base)
  PROVE  LET n == NumberAt(m, p, w, base) IN
         /\ n \in Nat /\ Shifted(n, w, base) = 0
         /\ \A k \in 1..w : LittleEndian(n, w, base)[k] = m[p - 1 + k]
<1> DEFINE n == NumberAt(m, p, w, base)
<1>9. \E f : Reads(f, m, p, w, base)
  BY NumberAtSteps
<1>1. PICK f : /\ f \in [0..w -> Nat]
               /\ f[0] = 0 /\ f[w] = n
               /\ \A i \in 1..w : f[i] = f[i - 1] * base + m[p + w - i]
  BY <1>9, Zenon DEF Reads
<1> HIDE DEF n
<1>2. n \in Nat
  BY <1>1
<1>0. ASSUME NEW x \in Int, NEW d \in Int, NEW r \in 0..base - 1, x = base * d + r
      PROVE  x \div base = d /\ x % base = r
  BY <1>0, DivModUnique
<1>3. ASSUME NEW i \in 1..w
      PROVE  f[i] \div base = f[i - 1] /\ f[i] % base = m[p + w - i]
  <2>1. f[i] \in Int /\ f[i - 1] \in Int /\ p + w - i \in p..p + w - 1
    BY <1>1
  <2>2. m[p + w - i] \in 0..base - 1
    BY <2>1 DEF AreBytes
  <2>3. f[i] = base * f[i - 1] + m[p + w - i]
    BY <1>1, <2>1, <2>2
  <2> QED
    BY <1>0, <2>1, <2>2, <2>3
<1> DEFINE T == {k \in 0..w : Shifted(n, k, base) = f[w - k]}
<1>4. 0 \in T
  <2>1. w - 0 = w
    OBVIOUS
  <2> QED
    BY <1>1, <2>1, ShiftedNext
<1>5. ASSUME NEW k \in 0..w - 1, k \in T PROVE k + 1 \in T
  <2>1. w - k \in 1..w /\ (w - k) - 1 = w - (k + 1) /\ k \in Nat /\ k + 1 \in 0..w
    OBVIOUS
  <2>2. Shifted(n, k + 1, base) = Shifted(n, k, base) \div base
    BY <2>1, ShiftedNext
  <2> QED
    BY <1>3, <1>5, <2>1, <2>2
<1> HIDE DEF T
<1>6. 0..w \subseteq T
  BY <1>4, <1>5, InductiveUpTo
<1>7. Shifted(n, w, base) = 0
  <2>1. Shifted(n, w, base) = f[w - w] /\ w - w = 0
    BY <1>6 DEF T
  <2> QED
    BY <1>1, <2>1
<1>8. ASSUME NEW k \in 1..w PROVE LittleEndian(n, w, base)[k] = m[p - 1 + k]
  <2>1. k - 1 \in 0..w /\ w - (k - 1) \in 1..w /\ p + w - (w - (k - 1)) = p - 1 + k
    OBVIOUS
  <2>2. Shifted(n, k - 1, base) = f[w - (k - 1)]
    BY <1>6, <2>1 DEF T
  <2>3. Shifted(n, k - 1, base) % base = m[p - 1 + k]
    BY <1>3, <2>1, <2>2
  <2> QED
    BY <2>3 DEF LittleEndian
<1> QED
  BY <1>2, <1>7, <1>8 DEF n

-----------------------------------------------------------------------------
(* Byte strings: one behind the other, at a position, and cut short. *)

\* FlattenSeq appends one sequence after the other.
LEMMA FlattenSteps ==
  ASSUME NEW V, NEW s \in Seq(Seq(V)), s # <<>>
  PROVE  \E g : /\ g[0] = <<>>
                /\ \A k \in 0..Len(s) - 1 : g[k + 1] = g[k] \o s[k + 1]
                /\ \A k \in 0..Len(s) : g[k] \in Seq(V)
                /\ g[Len(s)] = FlattenSeq(s)
<1> DEFINE N == Len(s)
           Over(f, m) == [i \in 1..m |-> IF i = 1 THEN s[i] ELSE f[i - 1] \o s[i]]
           S == {m \in Nat : \E f : f = Over(f, m)}
           F == CHOOSE f : f = Over(f, N)
<1>1. N \in Nat /\ N >= 1 /\ \A i \in 1..N : s[i] \in Seq(V)
  BY LenProperties, EmptySeq, ElementOfSeq
<1> HIDE DEF N
<1>2. 0 \in S
  <2>1. [i \in 1..0 |-> s[i]] = Over([i \in 1..0 |-> s[i]], 0)
    OBVIOUS
  <2> QED
    BY <2>1
<1>3. ASSUME NEW m \in Nat, m \in S PROVE m + 1 \in S
  <2>1. PICK f : f = Over(f, m)
    BY <1>3
  <2>2. \A i \in 1..m : f[i] = IF i = 1 THEN s[i] ELSE f[i - 1] \o s[i]
    BY <2>1
  <2> DEFINE last == IF m = 0 THEN s[1] ELSE f[m] \o s[m + 1]
  <2>3. /\ m = 0 => last = s[1]
        /\ m # 0 => last = f[m] \o s[m + 1]
    OBVIOUS
  <2> HIDE DEF last
  <2> DEFINE g == [i \in 1..m + 1 |-> IF i = m + 1 THEN last ELSE f[i]]
  <2>4. ASSUME NEW i \in 1..m + 1 PROVE g[i] = Over(g, m + 1)[i]
    <3>1. Over(g, m + 1)[i] = IF i = 1 THEN s[i] ELSE g[i - 1] \o s[i]
      OBVIOUS
    <3>2. /\ i = m + 1 => g[i] = last
          /\ i # m + 1 => g[i] = f[i] /\ i \in 1..m
          /\ i # 1 => i - 1 \in 1..m /\ g[i - 1] = f[i - 1]
          /\ i = m + 1 => i - 1 = m
      OBVIOUS
    <3> HIDE DEF g, Over
    <3>3. CASE i = m + 1 /\ m = 0
      BY <2>3, <3>1, <3>2, <3>3
    <3>4. CASE i = m + 1 /\ m # 0
      <4>1. i # 1 /\ g[i - 1] = f[m] /\ s[i] = s[m + 1]
        BY <3>2, <3>4
      <4> QED
        BY <2>3, <3>1, <3>2, <3>4, <4>1
    <3>5. CASE i # m + 1
      BY <2>2, <3>1, <3>2, <3>5
    <3> QED
      BY <3>3, <3>4, <3>5
  <2>5. g = Over(g, m + 1)
    <3>1. Over(g, m + 1) = [i \in 1..m + 1 |-> Over(g, m + 1)[i]]
      OBVIOUS
    <3>2. g = [i \in 1..m + 1 |-> g[i]]
      OBVIOUS
    <3> HIDE DEF g, Over
    <3> QED
      BY <2>4, <3>1, <3>2
  <2>6. \E f2 : f2 = Over(f2, m + 1)
    <3> HIDE DEF g, Over
    <3> QED
      BY <2>5, Zenon
  <2>7. m + 1 \in Nat
    OBVIOUS
  <2> HIDE DEF g, Over
  <2> QED
    BY <2>6, <2>7
<1>4. F = Over(F, N)
  <2>1. N \in S
    <3> HIDE DEF S
    <3> QED
      BY <1>1, <1>2, <1>3, InductiveSet
  <2>2. \E f : f = Over(f, N)
    BY <2>1
  <2> QED
    BY <2>2, Zenon
<1>5. FlattenSeq(s) = F[N]
  <2>1. N # 0
    BY <1>1
  <2> QED
    BY <2>1 DEF FlattenSeq, N
<1> HIDE DEF F
<1>6. F[1] = s[1] /\ \A i \in 2..N : F[i] = F[i - 1] \o s[i]
  <2>1. \A i \in 1..N : F[i] = IF i = 1 THEN s[i] ELSE F[i - 1] \o s[i]
    BY <1>4
  <2>2. 1 \in 1..N /\ \A i \in 2..N : i \in 1..N /\ i # 1
    BY <1>1
  <2> QED
    BY <2>1, <2>2
<1> DEFINE g == [k \in 0..N |-> IF k = 0 THEN <<>> ELSE F[k]]
<1>7. g[0] = <<>> /\ \A k \in 1..N : g[k] = F[k]
  BY <1>1
<1> HIDE DEF g
<1>8. \A k \in 0..N - 1 : g[k + 1] = g[k] \o s[k + 1]
  <2> TAKE k \in 0..N - 1
  <2>1. CASE k = 0
    <3>1. 1 \in 1..N /\ k + 1 = 1
      BY <1>1, <2>1
    <3>2. g[k + 1] = s[1] /\ g[k] = <<>> /\ s[1] \in Seq(V)
      BY <1>1, <1>6, <1>7, <2>1, <3>1
    <3>3. <<>> \o s[1] = s[1]
      BY <3>2, ConcatEmptySeq
    <3> QED
      BY <3>1, <3>2, <3>3
  <2>2. CASE k # 0
    <3>1. k + 1 \in 2..N /\ (k + 1) - 1 = k /\ k \in 1..N /\ k + 1 \in 1..N
      BY <1>1, <2>2
    <3>2. F[k + 1] = F[k] \o s[k + 1]
      BY <1>6, <3>1
    <3> QED
      BY <1>7, <3>1, <3>2
  <2> QED
    BY <2>1, <2>2
<1>9. \A k \in 0..N : g[k] \in Seq(V)
  <2> DEFINE T == {k \in 0..N : g[k] \in Seq(V)}
  <2>1. 0 \in T
    <3>1. 0 \in 0..N /\ <<>> \in Seq(V)
      BY <1>1, EmptySeq
    <3> QED
      BY <1>7, <3>1
  <2>2. ASSUME NEW k \in 0..N - 1, k \in T PROVE k + 1 \in T
    <3>1. k + 1 \in 1..N /\ k + 1 \in 0..N
      BY <1>1
    <3>2. g[k] \in Seq(V) /\ s[k + 1] \in Seq(V)
      BY <1>1, <2>2, <3>1
    <3>3. g[k + 1] \in Seq(V)
      BY <1>8, <3>2, ConcatProperties
    <3> QED
      BY <3>1, <3>3
  <2> HIDE DEF T
  <2>3. 0..N \subseteq T
    BY <1>1, <2>1, <2>2, InductiveUpTo
  <2> QED
    BY <2>3 DEF T
<1>10. g[N] = FlattenSeq(s)
  <2>1. N \in 1..N
    BY <1>1
  <2> QED
    BY <1>5, <1>7, <2>1
<1> QED
  BY <1>7, <1>8, <1>9, <1>10 DEF N

\* One sequence starts like another.
Starts(long, short) ==
  Len(short) <= Len(long) /\ \A p \in 1..Len(short) : long[p] = short[p]

\* Sequences that agree as far as both go.
Agree(s, t) == \A p \in 1..Len(s) : p <= Len(t) => s[p] = t[p]

\* What starts like b \o c starts like b and goes on like c.
LEMMA StartsChain ==
  ASSUME NEW V, NEW a \in Seq(V), NEW b \in Seq(V), NEW c \in Seq(V), Starts(a, b \o c)
  PROVE  /\ Starts(a, b)
         /\ \A p \in 1..Len(c) : Len(b) + p \in 1..Len(a) /\ a[Len(b) + p] = c[p]
<1>1. /\ Len(a) \in Nat /\ Len(b) \in Nat /\ Len(c) \in Nat
      /\ Len(b \o c) = Len(b) + Len(c)
      /\ \A p \in 1..Len(b) + Len(c) : (b \o c)[p] = IF p <= Len(b) THEN b[p] ELSE c[p - Len(b)]
  BY LenProperties, ConcatProperties
<1>2. Starts(a, b)
  BY <1>1 DEF Starts
<1>3. ASSUME NEW p \in 1..Len(c)
      PROVE  Len(b) + p \in 1..Len(a) /\ a[Len(b) + p] = c[p]
  <2>1. Len(b) + p \in 1..Len(b) + Len(c) /\ ~(Len(b) + p <= Len(b)) /\ (Len(b) + p) - Len(b) = p
    BY <1>1
  <2> QED
    BY <1>1, <2>1 DEF Starts
<1> QED
  BY <1>2, <1>3

\* A flattened sequence starts like the flattening of its first parts.
LEMMA FlattenStarts ==
  ASSUME NEW V, NEW s \in Seq(Seq(V)), NEW g,
         \A k \in 0..Len(s) - 1 : g[k + 1] = g[k] \o s[k + 1],
         \A k \in 0..Len(s) : g[k] \in Seq(V)
  PROVE  \A k \in 0..Len(s) : Starts(g[Len(s)], g[k])
<1> DEFINE N == Len(s)
           T == {d \in 0..N : Starts(g[N], g[N - d])}
<1>1. N \in Nat /\ \A i \in 1..N : s[i] \in Seq(V)
  BY LenProperties, ElementOfSeq
<1>2. 0 \in T
  <2>1. g[N] \in Seq(V) /\ N - 0 = N
    BY <1>1
  <2>2. Len(g[N]) \in Nat
    BY <2>1, LenProperties
  <2> QED
    BY <1>1, <2>1, <2>2 DEF Starts
<1>3. ASSUME NEW d \in 0..N - 1, d \in T PROVE d + 1 \in T
  <2>1. N - (d + 1) \in 0..N - 1 /\ (N - (d + 1)) + 1 = N - d /\ N \in 0..N
        /\ N - d \in 1..N /\ N - (d + 1) \in 0..N /\ d + 1 \in 0..N
    BY <1>1
  <2>2. Starts(g[N], g[N - (d + 1)] \o s[N - d])
    BY <1>3, <2>1
  <2>3. g[N] \in Seq(V) /\ g[N - (d + 1)] \in Seq(V) /\ s[N - d] \in Seq(V)
    BY <1>1, <2>1
  <2>4. Starts(g[N], g[N - (d + 1)])
    BY <2>2, <2>3, StartsChain
  <2> QED
    BY <2>1, <2>4
<1> HIDE DEF T
<1>4. 0..N \subseteq T
  BY <1>1, <1>2, <1>3, InductiveUpTo
<1>5. ASSUME NEW k \in 0..N PROVE Starts(g[N], g[k])
  <2>1. N - k \in 0..N /\ N - (N - k) = k
    BY <1>1
  <2>2. Starts(g[N], g[N - (N - k)])
    BY <1>4, <2>1 DEF T
  <2> QED
    BY <2>1, <2>2
<1> QED
  BY <1>5

\* Parts that tell where they end can be read off their concatenation.
LEMMA FlattenBinds ==
  ASSUME NEW V, NEW s \in Seq(Seq(V)), NEW t \in Seq(Seq(V)),
         s # <<>>, Len(s) = Len(t), FlattenSeq(s) = FlattenSeq(t),
         \A k \in 1..Len(s) : Agree(s[k], t[k]) => s[k] = t[k]
  PROVE  s = t
<1> DEFINE N == Len(s)
<1>1. /\ N \in Nat /\ N >= 1 /\ t # <<>>
      /\ \A k \in 1..N : s[k] \in Seq(V) /\ t[k] \in Seq(V)
  BY LenProperties, EmptySeq, ElementOfSeq
<1>2. PICK g : /\ g[0] = <<>>
               /\ \A k \in 0..N - 1 : g[k + 1] = g[k] \o s[k + 1]
               /\ \A k \in 0..N : g[k] \in Seq(V)
               /\ g[N] = FlattenSeq(s)
  BY FlattenSteps
<1>3. PICK h : /\ h[0] = <<>>
               /\ \A k \in 0..N - 1 : h[k + 1] = h[k] \o t[k + 1]
               /\ \A k \in 0..N : h[k] \in Seq(V)
               /\ h[N] = FlattenSeq(t)
  <2>1. \E h : /\ h[0] = <<>>
               /\ \A k \in 0..Len(t) - 1 : h[k + 1] = h[k] \o t[k + 1]
               /\ \A k \in 0..Len(t) : h[k] \in Seq(V)
               /\ h[Len(t)] = FlattenSeq(t)
    BY <1>1, FlattenSteps
  <2> QED
    BY <2>1
<1> DEFINE whole == g[N]
<1>4. whole = h[N] /\ whole \in Seq(V)
  BY <1>1, <1>2, <1>3
<1>5. \A k \in 0..N : Starts(whole, g[k])
  BY <1>2, FlattenStarts
<1>6. \A k \in 0..N : Starts(whole, h[k])
  <2>1. \A k \in 0..Len(t) : Starts(h[Len(t)], h[k])
    BY <1>3, FlattenStarts
  <2> QED
    BY <1>4, <2>1
<1> HIDE DEF whole
<1> DEFINE T == {k \in 0..N : g[k] = h[k] /\ \A i \in 1..k : s[i] = t[i]}
<1>7. 0 \in T
  BY <1>1, <1>2, <1>3
<1>8. ASSUME NEW k \in 0..N - 1, k \in T PROVE k + 1 \in T
  <2>1. k + 1 \in 1..N /\ k \in 0..N /\ k + 1 \in 0..N
    BY <1>1
  <2>2. g[k] = h[k] /\ \A i \in 1..k : s[i] = t[i]
    BY <1>8
  <2>3. Starts(whole, g[k] \o s[k + 1]) /\ Starts(whole, g[k] \o t[k + 1])
    BY <1>2, <1>3, <1>5, <1>6, <2>1, <2>2
  <2>4. g[k] \in Seq(V) /\ s[k + 1] \in Seq(V) /\ t[k + 1] \in Seq(V)
    BY <1>1, <1>2, <2>1
  <2>5. /\ \A p \in 1..Len(s[k + 1]) : whole[Len(g[k]) + p] = s[k + 1][p]
        /\ \A p \in 1..Len(t[k + 1]) : whole[Len(g[k]) + p] = t[k + 1][p]
    BY <1>4, <2>3, <2>4, StartsChain
  <2>6. Len(s[k + 1]) \in Nat /\ Len(t[k + 1]) \in Nat
    BY <2>4, LenProperties
  <2>7. Agree(s[k + 1], t[k + 1])
    BY <2>5, <2>6 DEF Agree
  <2>8. s[k + 1] = t[k + 1]
    BY <2>1, <2>7
  <2>9. g[k + 1] = h[k + 1]
    BY <1>2, <1>3, <2>2, <2>8
  <2>10. \A i \in 1..k + 1 : i \in 1..k \/ i = k + 1
    BY <2>1
  <2> QED
    BY <2>1, <2>2, <2>8, <2>9, <2>10
<1> HIDE DEF T
<1>9. 0..N \subseteq T
  BY <1>1, <1>7, <1>8, InductiveUpTo
<1>10. \A i \in 1..N : s[i] = t[i]
  <2>2. N \in 0..N
    BY <1>1
  <2>1. N \in T
    BY <1>9, <2>2
  <2> QED
    BY <2>1 DEF T
<1> QED
  BY <1>10, SeqEqual

\* s stands in m from position p on.
Occurs(m, p, s) == \A k \in 1..Len(s) : p - 1 + k \in 1..Len(m) /\ m[p - 1 + k] = s[k]

\* A sequence made of two stands where both stand, one behind the other.
LEMMA OccursBoth ==
  ASSUME NEW V, NEW m, NEW p \in Nat, NEW s \in Seq(V), NEW t \in Seq(V)
  PROVE  /\ Len(s \o t) = Len(s) + Len(t)
         /\ Occurs(m, p, s \o t) <=> Occurs(m, p, s) /\ Occurs(m, p + Len(s), t)
<1>1. /\ Len(s) \in Nat /\ Len(t) \in Nat /\ Len(s \o t) = Len(s) + Len(t)
      /\ \A i \in 1..Len(s) + Len(t) : (s \o t)[i] = IF i <= Len(s) THEN s[i] ELSE t[i - Len(s)]
  BY LenProperties, ConcatProperties
<1>2. ASSUME Occurs(m, p, s), Occurs(m, p + Len(s), t) PROVE Occurs(m, p, s \o t)
  <2> SUFFICES ASSUME NEW k \in 1..Len(s) + Len(t)
               PROVE  p - 1 + k \in 1..Len(m) /\ m[p - 1 + k] = (s \o t)[k]
    BY <1>1 DEF Occurs
  <2>1. CASE k <= Len(s)
    <3>1. k \in 1..Len(s) /\ (s \o t)[k] = s[k]
      BY <1>1, <2>1
    <3> QED
      BY <1>2, <3>1 DEF Occurs
  <2>2. CASE ~(k <= Len(s))
    <3>1. k - Len(s) \in 1..Len(t) /\ (s \o t)[k] = t[k - Len(s)]
          /\ (p + Len(s)) - 1 + (k - Len(s)) = p - 1 + k
      BY <1>1, <2>2
    <3> QED
      BY <1>2, <3>1 DEF Occurs
  <2> QED
    BY <2>1, <2>2
<1>3. ASSUME Occurs(m, p, s \o t) PROVE Occurs(m, p, s) /\ Occurs(m, p + Len(s), t)
  <2>1. ASSUME NEW k \in 1..Len(s) PROVE p - 1 + k \in 1..Len(m) /\ m[p - 1 + k] = s[k]
    <3>1. k \in 1..Len(s) + Len(t) /\ k <= Len(s)
      BY <1>1
    <3> QED
      BY <1>1, <1>3, <3>1 DEF Occurs
  <2>2. ASSUME NEW k \in 1..Len(t)
        PROVE  (p + Len(s)) - 1 + k \in 1..Len(m) /\ m[(p + Len(s)) - 1 + k] = t[k]
    <3>1. Len(s) + k \in 1..Len(s) + Len(t) /\ ~(Len(s) + k <= Len(s)) /\ (Len(s) + k) - Len(s) = k
          /\ p - 1 + (Len(s) + k) = (p + Len(s)) - 1 + k
      BY <1>1
    <3>2. p - 1 + (Len(s) + k) \in 1..Len(m) /\ m[p - 1 + (Len(s) + k)] = (s \o t)[Len(s) + k]
      BY <1>1, <1>3, <3>1 DEF Occurs
    <3> QED
      BY <1>1, <3>1, <3>2
  <2> QED
    BY <2>1, <2>2 DEF Occurs
<1> QED
  BY <1>1, <1>2, <1>3

\* One byte stands where it is.
LEMMA OccursOne ==
  ASSUME NEW m, NEW p \in Nat, NEW b
  PROVE  Occurs(m, p, <<b>>) <=> p \in 1..Len(m) /\ m[p] = b
<1>1. Len(<<b>>) = 1 /\ <<b>>[1] = b /\ p - 1 + 1 = p
  OBVIOUS
<1> QED
  BY <1>1 DEF Occurs

\* a \o b as an operator, so that joints can be regrouped by name.
Joint(a, b) == a \o b

\* Joining is associative.
LEMMA JointAssociative ==
  ASSUME NEW V, NEW a \in Seq(V), NEW b \in Seq(V), NEW c \in Seq(V)
  PROVE  Joint(Joint(a, b), c) = Joint(a, Joint(b, c)) /\ Joint(a, b) \in Seq(V)
<1>1. (a \o b) \o c = a \o (b \o c)
  BY ConcatAssociative
<1>2. a \o b \in Seq(V)
  BY ConcatProperties
<1> QED
  BY <1>1, <1>2 DEF Joint

\* Four sequences written one by one are written as one.
LEMMA Regroup ==
  ASSUME NEW V, NEW x \in Seq(V), NEW a \in Seq(V), NEW b \in Seq(V), NEW c \in Seq(V), NEW v \in Seq(V)
  PROVE  Joint(Joint(Joint(Joint(x, a), b), c), v) = Joint(x, Joint(Joint(Joint(a, b), c), v))
<1> DEFINE Bytewise == Seq(V)
<1>0. ASSUME NEW s \in Bytewise, NEW t \in Bytewise, NEW u \in Bytewise
      PROVE  Joint(Joint(s, t), u) = Joint(s, Joint(t, u)) /\ Joint(s, t) \in Bytewise
  BY JointAssociative
<1>1. x \in Bytewise /\ a \in Bytewise /\ b \in Bytewise /\ c \in Bytewise /\ v \in Bytewise
  OBVIOUS
<1> HIDE DEF Bytewise
<1>2. Joint(a, b) \in Bytewise /\ Joint(Joint(a, b), c) \in Bytewise
  BY <1>0, <1>1
<1>3. Joint(Joint(x, a), b) = Joint(x, Joint(a, b))
  BY <1>0, <1>1
<1>4. Joint(Joint(x, Joint(a, b)), c) = Joint(x, Joint(Joint(a, b), c))
  BY <1>0, <1>1, <1>2
<1>5. Joint(Joint(x, Joint(Joint(a, b), c)), v) = Joint(x, Joint(Joint(Joint(a, b), c), v))
  BY <1>0, <1>1, <1>2
<1> QED
  BY <1>3, <1>4, <1>5

\* The first i of a sequence.
Pre(ps, i) == SubSeq(ps, 1, i)

\* They are a sequence of that length with the same elements.
LEMMA PreTyped ==
  ASSUME NEW V, NEW ps \in Seq(V), NEW i \in 0..Len(ps)
  PROVE  /\ Pre(ps, i) \in Seq(V) /\ Len(Pre(ps, i)) = i
         /\ \A k \in 1..i : Pre(ps, i)[k] = ps[k]
         /\ Len(ps) \in Nat
<1>1. Len(ps) \in Nat /\ i \in Int /\ i >= 0 /\ 1 \in Int
  BY LenProperties
<1>2. \A k \in 1..i : ps[k] \in V
  BY <1>1, ElementOfSeq
<1>3. /\ SubSeq(ps, 1, i) \in Seq(V)
      /\ Len(SubSeq(ps, 1, i)) = IF 1 <= i THEN i - 1 + 1 ELSE 0
      /\ \A k \in 1..i - 1 + 1 : SubSeq(ps, 1, i)[k] = ps[1 + k - 1]
  BY <1>1, <1>2, SubSeqProperties
<1>4. i - 1 + 1 = i /\ (~(1 <= i) => i = 0) /\ \A k \in 1..i : 1 + k - 1 = k
  BY <1>1
<1> QED
  BY <1>1, <1>3, <1>4 DEF Pre

\* None of them, and all of them.
LEMMA PreAll ==
  ASSUME NEW V, NEW ps \in Seq(V)
  PROVE  Pre(ps, 0) = <<>> /\ Pre(ps, Len(ps)) = ps
<1>1. Len(ps) \in Nat /\ 0 \in 0..Len(ps) /\ Len(ps) \in 0..Len(ps) /\ ps \in [1..Len(ps) -> V]
  BY LenProperties
<1>2. Pre(ps, 0) \in Seq(V) /\ Len(Pre(ps, 0)) = 0
  BY <1>1, PreTyped
<1> DEFINE q == Pre(ps, Len(ps))
<1>3. q \in Seq(V) /\ Len(q) = Len(ps) /\ \A k \in 1..Len(ps) : q[k] = ps[k]
  BY <1>1, PreTyped
<1>4. q \in [1..Len(ps) -> V]
  <2> HIDE DEF q
  <2> QED
    BY <1>3, LenProperties
<1> HIDE DEF q
<1>5. q = ps
  BY <1>1, <1>3, <1>4
<1>6. Pre(ps, 0) = <<>>
  BY <1>2, EmptySeq
<1> QED
  BY <1>5, <1>6 DEF q

\* One more is the next element appended.
LEMMA PreMore ==
  ASSUME NEW V, NEW ps \in Seq(V), NEW i \in 0..Len(ps) - 1
  PROVE  ps[i + 1] \in V /\ Pre(ps, i + 1) = Append(Pre(ps, i), ps[i + 1])
<1>1. Len(ps) \in Nat /\ i \in 0..Len(ps) /\ i + 1 \in 0..Len(ps) /\ i + 1 \in 1..Len(ps)
  BY LenProperties
<1>2. ps[i + 1] \in V
  BY <1>1, ElementOfSeq
<1> DEFINE a == Pre(ps, i)
           b == Pre(ps, i + 1)
           c == Append(a, ps[i + 1])
<1>3. a \in Seq(V) /\ Len(a) = i /\ \A k \in 1..i : a[k] = ps[k]
  BY <1>1, PreTyped
<1>4. b \in Seq(V) /\ Len(b) = i + 1 /\ \A k \in 1..i + 1 : b[k] = ps[k]
  BY <1>1, PreTyped
<1> HIDE DEF a, b
<1>5. c \in Seq(V) /\ Len(c) = i + 1 /\ (\A k \in 1..i : c[k] = a[k]) /\ c[i + 1] = ps[i + 1]
  BY <1>2, <1>3, AppendProperties
<1> HIDE DEF c
<1>6. \A k \in 1..i + 1 : b[k] = c[k]
  <2>1. \A k \in 1..i + 1 : k = i + 1 \/ k \in 1..i
    BY <1>1
  <2> QED
    BY <1>3, <1>4, <1>5, <2>1
<1>7. b \in [1..i + 1 -> V] /\ c \in [1..i + 1 -> V]
  BY <1>4, <1>5, LenProperties
<1>8. b = c
  BY <1>6, <1>7
<1> QED
  BY <1>2, <1>8 DEF a, b, c
=============================================================================
