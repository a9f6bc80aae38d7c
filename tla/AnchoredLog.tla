----------------------------- MODULE AnchoredLog ------------------------------
(***************************************************************************)
(* What the leaf store promises: a log without repetitions that is only    *)
(* appended to, of which a first part is published.  A leaf that is added  *)
(* is not published by that; publishing takes a whole first part of the    *)
(* log and is never taken back.                                            *)
(***************************************************************************)
EXTENDS Integers, Sequences

CONSTANT Leaves

VARIABLES
  log,        \* leaves in the order they were added
  published   \* leaves with a proof under an anchored root

vars == <<log, published>>

Entries == {log[k] : k \in DOMAIN log}
FirstPart(n) == {log[k] : k \in 1..n}

Init ==
  /\ log \in Seq(Leaves)
  /\ \A j, k \in DOMAIN log : log[j] = log[k] => j = k
  /\ \E n \in 0..Len(log) : published = FirstPart(n)

Add(leaf) ==
  /\ leaf \notin Entries
  /\ log' = Append(log, leaf)
  /\ UNCHANGED published

Publish ==
  /\ UNCHANGED log
  /\ published' \in {published \cup FirstPart(n) : n \in 0..Len(log)}

Next ==
  \/ \E leaf \in Leaves : Add(leaf)
  \/ Publish

Spec == Init /\ [][Next]_vars
=============================================================================
