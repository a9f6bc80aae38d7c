--------------------------- MODULE AnchorRegister ---------------------------
(***************************************************************************)
(* What anchoring promises, without the steps that get there: a write-once *)
(* register per Merkle root.  A root is committed to one transaction of    *)
(* the embedded wallet before the network may see that transaction, it is  *)
(* mapped to one transaction, and the mapped transaction gets one height.  *)
(***************************************************************************)
EXTENDS Naturals

CONSTANTS Roots,     \* identities of the Merkle roots
          Txs,       \* transaction ids
          Embedded,  \* those signed by the embedded wallet
          NoTx,      \* SQL NULL in merkle_roots.anchor_txid
          Heights    \* block heights, with 0 for SQL NULL

VARIABLES committed, \* pairs <<root, tx>> journalled
          sent,      \* embedded transactions the network has seen
          rootTx,    \* merkle_roots.anchor_txid
          rootHeight \* merkle_roots.anchor_height, 0 when NULL

vars == <<committed, sent, rootTx, rootHeight>>

Init ==
  /\ committed = {}
  /\ sent = {}
  /\ rootTx = [r \in Roots |-> NoTx]
  /\ rootHeight = [r \in Roots |-> 0]

\* A root that nobody claimed yet is committed to a transaction that no other
\* root is committed to.
Commit(r, t) ==
  /\ rootTx[r] = NoTx
  /\ \A c \in committed : c[1] # r /\ c[2] # t
  /\ committed' = committed \cup {<<r, t>>}
  /\ UNCHANGED <<sent, rootTx, rootHeight>>

\* Only a committed transaction reaches the network, and only while its root
\* is not mapped to another one.
Send(r, t) ==
  /\ <<r, t>> \in committed
  /\ rootTx[r] \in {NoTx, t}
  /\ sent' = sent \cup {t}
  /\ UNCHANGED <<committed, rootTx, rootHeight>>

\* The first mapping of a root: a transaction mapped to no other root and, when
\* the root is committed, no other transaction than the committed one.
Map(r, t, h) ==
  /\ rootTx[r] = NoTx
  /\ \A q \in Roots : rootTx[q] # t
  /\ \A c \in committed : c[1] = r <=> c[2] = t
  /\ rootTx' = [rootTx EXCEPT ![r] = t]
  /\ rootHeight' = [rootHeight EXCEPT ![r] = h]
  /\ UNCHANGED <<committed, sent>>

\* The height of a mapped root is filled in once.
SetHeight(r, h) ==
  /\ rootTx[r] # NoTx
  /\ rootHeight[r] = 0
  /\ rootHeight' = [rootHeight EXCEPT ![r] = h]
  /\ UNCHANGED <<committed, sent, rootTx>>

Next ==
  \E r \in Roots :
    \/ \E t \in Embedded : Commit(r, t) \/ Send(r, t)
    \/ \E t \in Txs, h \in Heights : Map(r, t, h)
    \/ \E h \in Heights \ {0} : SetHeight(r, h)

Spec == Init /\ [][Next]_vars
=============================================================================
