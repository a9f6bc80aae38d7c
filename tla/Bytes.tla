--------------------------------- MODULE Bytes --------------------------------
(***************************************************************************)
(* Unsigned integers of a fixed number of bytes: to_be_bytes,              *)
(* to_le_bytes and from_le_bytes, for bytes of any base.                   *)
(***************************************************************************)
EXTENDS Integers, Sequences

\* n without its k lowest bytes.
Shifted(n, k, base) ==
  LET rest[i \in 0..k] == IF i = 0 THEN n ELSE rest[i - 1] \div base IN rest[k]

\* What does not fit into the width is cut off.
BigEndian(n, width, base) == [k \in 1..width |-> Shifted(n, width - k, base) % base]
LittleEndian(n, width, base) == [k \in 1..width |-> Shifted(n, k - 1, base) % base]

\* The little endian integer of that width at position p of m, from its
\* highest byte down.
NumberAt(m, p, width, base) ==
  LET read[i \in 0..width] ==
        IF i = 0 THEN 0 ELSE read[i - 1] * base + m[p + width - i]
  IN read[width]
=============================================================================
