---------------------------- MODULE InvoiceLedger ----------------------------
(***************************************************************************)
(* What the payment tables promise: an invoice collects distinct confirmed *)
(* transactions, is paid by the first one that brings their sum to its     *)
(* amount and stays paid, and expires only when nothing was collected.     *)
(***************************************************************************)
EXTENDS Integers, FiniteSetsExt

CONSTANTS Invoices,  \* ids
          Outputs,   \* transaction -> (invoice -> zatoshis)
          Amount     \* invoice -> zatoshis due

VARIABLES status,    \* invoices.status, "none" without a row
          credited,  \* the transactions an invoice collected
          paidBy     \* invoices.paid_txid, as a set of at most one

vars == <<status, credited, paidBy>>

\* What the transactions in txs pay to invoice i.
Total(i, txs) == MapThenSumSet(LAMBDA t : Outputs[t][i], txs)

Init ==
  /\ status = [i \in Invoices |-> "none"]
  /\ credited = [i \in Invoices |-> {}]
  /\ paidBy = [i \in Invoices |-> {}]

Open(i) ==
  /\ status[i] = "none"
  /\ status' = [status EXCEPT ![i] = "pending"]
  /\ UNCHANGED <<credited, paidBy>>

Credit(i, t) ==
  /\ status[i] \in {"pending", "partial", "paid"}
  /\ t \notin credited[i]
  /\ credited' = [credited EXCEPT ![i] = @ \cup {t}]
  /\ \/ /\ status[i] = "paid"
        /\ UNCHANGED <<status, paidBy>>
     \/ /\ status[i] # "paid"
        /\ Total(i, credited'[i]) >= Amount[i]
        /\ status' = [status EXCEPT ![i] = "paid"]
        /\ paidBy' = [paidBy EXCEPT ![i] = {t}]
     \/ /\ status[i] # "paid"
        /\ Total(i, credited'[i]) < Amount[i]
        /\ status' = [status EXCEPT ![i] = "partial"]
        /\ UNCHANGED paidBy

Expire(late) ==
  /\ \A i \in late : status[i] = "pending" /\ credited[i] = {}
  /\ status' = [i \in Invoices |-> IF i \in late THEN "expired" ELSE status[i]]
  /\ UNCHANGED <<credited, paidBy>>

Next ==
  \/ \E i \in Invoices : Open(i)
  \/ \E t \in DOMAIN Outputs : \E i \in DOMAIN Outputs[t] : Credit(i, t)
  \/ \E late \in SUBSET Invoices : Expire(late)

Spec == Init /\ [][Next]_vars
=============================================================================
