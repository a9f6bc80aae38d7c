------------------------------- MODULE Invoicing ------------------------------
(***************************************************************************)
(* The handlers of api.rs that create invoices and assign machines:        *)
(* POST /invoice, POST /auto-invoice and POST /assign, as the sequences of *)
(* db.rs calls they are, run by several workers, interrupted by database   *)
(* errors and restarts, and repeated by the operator.                      *)
(***************************************************************************)
EXTENDS Integers, Sequences, FiniteSets

CONSTANTS
  Workers,   \* requests handled at the same time
  Wallets, Serials, \* wallet hashes, machine serial numbers
  Periods,   \* months of a year
  None,      \* no wallet, no period
  MaxRequests, MaxRestarts  \* bounds

ASSUME InvoicingAssumption ==
  /\ None \notin Wallets \cup Periods
  /\ IsFiniteSet(Workers)
  /\ MaxRequests \in Nat /\ MaxRestarts \in Nat

Machines == Wallets \X Serials

VARIABLES
  \* zap1.db
  next,      \* scan_state.next_diversifier_index
  invoices,  \* invoices in the order of their creation
  miners,    \* miner_assignments: rows of a wallet and a serial
  ownership, \* merkle_leaves of OWNERSHIP_ATTEST, by wallet and serial
  \* the workers
  pc,        \* "idle", "wallets", "allocate", "create", "attest"
  period,    \* month and year of an auto-invoice request, else None
  wallet,    \* wallet of the invoice or the assignment at hand
  serial,    \* serial of the assignment at hand
  div,       \* div_idx
  todo,      \* wallets of wallet_machines still to visit
  count,     \* wallet_machines: rows by wallet
  \* history
  requests, restarts,
  billed     \* auto-invoice requests answered 201: [period, wallets]

dbVars == <<next, invoices, miners, ownership>>
workVars == <<pc, period, wallet, serial, div, todo, count>>
history == <<requests, restarts, billed>>
vars == <<dbVars, workVars, history>>

-----------------------------------------------------------------------------

\* list_miner_assignments, grouped by wallet.
RowsOf(w) ==
  LET rows[S \in SUBSET Serials] ==
        IF S = {} THEN 0
        ELSE LET s == CHOOSE s \in S : TRUE IN miners[<<w, s>>] + rows[S \ {s}]
  IN rows[Serials]

\* has_hosting_invoice: whatever its status, an invoice of the wallet and month.
HasHostingInvoice(w, month) ==
  \E k \in DOMAIN invoices : invoices[k].wallet = w /\ invoices[k].period = month

Goto(p, label) == pc' = [pc EXCEPT ![p] = label]

\* A worker takes the next request.
Begin(p) ==
  /\ pc[p] = "idle"
  /\ requests < MaxRequests
  /\ requests' = requests + 1

\* create_invoice, up to its first database call.
StartInvoice(p, w) ==
  /\ Begin(p)
  /\ Goto(p, "allocate")
  /\ period' = [period EXCEPT ![p] = None]
  /\ wallet' = [wallet EXCEPT ![p] = w]
  /\ count' = [count EXCEPT ![p] = [x \in Wallets |-> 0]]
  /\ todo' = [todo EXCEPT ![p] = {}]
  /\ UNCHANGED <<dbVars, serial, div, restarts, billed>>

\* auto_invoice reads the assignments.
StartAutoInvoice(p, month) ==
  /\ Begin(p)
  /\ Goto(p, "wallets")
  /\ period' = [period EXCEPT ![p] = month]
  /\ count' = [count EXCEPT ![p] = [w \in Wallets |-> RowsOf(w)]]
  /\ todo' = [todo EXCEPT ![p] = {w \in Wallets : RowsOf(w) > 0}]
  /\ UNCHANGED <<dbVars, wallet, serial, div, restarts, billed>>

\* Mutant: month and year are swapped in the look-up, which finds nothing.
VisitWalletSwapped(p, w) ==
  /\ pc[p] = "wallets"
  /\ w \in todo[p]
  /\ wallet' = [wallet EXCEPT ![p] = w]
  /\ Goto(p, "allocate")
  /\ UNCHANGED <<dbVars, period, serial, div, todo, count, history>>
\* The next wallet of the map, in any order: skipped when it has an invoice.
VisitWallet(p, w) ==
  /\ pc[p] = "wallets"
  /\ w \in todo[p]
  /\ IF HasHostingInvoice(w, period[p])
     THEN /\ todo' = [todo EXCEPT ![p] = @ \ {w}]
          /\ UNCHANGED <<pc, wallet>>
     ELSE /\ wallet' = [wallet EXCEPT ![p] = w]
          /\ Goto(p, "allocate")
          /\ UNCHANGED todo
  /\ UNCHANGED <<dbVars, period, serial, div, count, history>>

\* Mutant: the index is read here and stored with the invoice.
AllocateLater(p) ==
  /\ pc[p] = "allocate"
  /\ div' = [div EXCEPT ![p] = next]
  /\ next' = Len(invoices) + 1
  /\ Goto(p, "create")
  /\ UNCHANGED <<invoices, miners, ownership, period, wallet, serial, todo,
                 count, history>>
\* allocate_diversifier_index: both statements under the connection's mutex.
Allocate(p) ==
  /\ pc[p] = "allocate"
  /\ div' = [div EXCEPT ![p] = next]
  /\ next' = next + 1
  /\ Goto(p, "create")
  /\ UNCHANGED <<invoices, miners, ownership, period, wallet, serial, todo,
                 count, history>>

\* Mutant: a database error moves on to the next wallet.
AfterErrorNext(p) == IF period[p] # None THEN "wallets" ELSE "idle"
AfterError(p) == "idle"

\* db.create_invoice.  diversifier_index is UNIQUE.
Create(p) ==
  /\ pc[p] = "create"
  /\ \A k \in DOMAIN invoices : invoices[k].div # div[p]
  /\ invoices' = Append(invoices,
       [div |-> div[p], wallet |-> wallet[p], period |-> period[p],
        machines |-> IF period[p] = None THEN 0 ELSE count[p][wallet[p]]])
  /\ todo' = [todo EXCEPT ![p] = @ \ {wallet[p]}]
  /\ Goto(p, IF period[p] = None THEN "idle" ELSE "wallets")
  /\ UNCHANGED <<next, miners, ownership, period, wallet, serial, div, count,
                 history>>

\* Every wallet was visited: auto_invoice answers 201.
FinishAutoInvoice(p) ==
  /\ pc[p] = "wallets"
  /\ todo[p] = {}
  /\ Goto(p, "idle")
  /\ billed' = billed \cup
       {[period |-> period[p], wallets |-> {w \in Wallets : count[p][w] > 0}]}
  /\ UNCHANGED <<dbVars, period, wallet, serial, div, todo, count, requests, restarts>>

\* assign_miner: db.assign_miner adds a row; OR REPLACE has no key to replace by.
AssignMiner(p, w, s) ==
  /\ Begin(p)
  /\ miners' = [miners EXCEPT ![<<w, s>>] = @ + 1]
  /\ wallet' = [wallet EXCEPT ![p] = w]
  /\ serial' = [serial EXCEPT ![p] = s]
  /\ Goto(p, "attest")
  /\ UNCHANGED <<next, invoices, ownership, period, div, todo, count, restarts,
                 billed>>

\* assign_miner: insert_ownership_leaf, then 201.
AttestOwnership(p) ==
  /\ pc[p] = "attest"
  /\ ownership' = ownership \cup {<<wallet[p], serial[p]>>}
  /\ Goto(p, "idle")
  /\ UNCHANGED <<next, invoices, miners, period, wallet, serial, div, todo,
                 count, requests, restarts, billed>>

\* A database call returns an error: 500, what is done stays done.
Fail(p) ==
  /\ pc[p] # "idle"
  /\ Goto(p, AfterError(p))
  /\ todo' = [todo EXCEPT ![p] = @ \ {wallet[p]}]
  /\ UNCHANGED <<dbVars, period, wallet, serial, div, count, history>>

Restart ==
  /\ restarts < MaxRestarts
  /\ restarts' = restarts + 1
  /\ pc' = [p \in Workers |-> "idle"]
  /\ UNCHANGED <<dbVars, period, wallet, serial, div, todo, count, requests, billed>>

Init ==
  /\ next = 1
  /\ invoices = <<>>
  /\ miners = [m \in Machines |-> 0]
  /\ ownership = {}
  /\ pc = [p \in Workers |-> "idle"]
  /\ period = [p \in Workers |-> None]
  /\ wallet = [p \in Workers |-> None]
  /\ serial = [p \in Workers |-> None]
  /\ div = [p \in Workers |-> 0]
  /\ todo = [p \in Workers |-> {}]
  /\ count = [p \in Workers |-> [w \in Wallets |-> 0]]
  /\ requests = 0 /\ restarts = 0
  /\ billed = {}

WorkerStep(p) ==
  \/ \E w \in Wallets \cup {None} : StartInvoice(p, w)
  \/ \E month \in Periods : StartAutoInvoice(p, month)
  \/ \E w \in Wallets : VisitWallet(p, w)
  \/ Allocate(p)
  \/ Create(p)
  \/ FinishAutoInvoice(p)
  \/ \E w \in Wallets, s \in Serials : AssignMiner(p, w, s)
  \/ AttestOwnership(p)
  \/ Fail(p)

Next ==
  \/ \E p \in Workers : WorkerStep(p)
  \/ Restart

Spec == Init /\ [][Next]_vars

-----------------------------------------------------------------------------
(* What must hold. *)

\* Every variable keeps its type.
TypeOK ==
  /\ next \in Nat \ {0}
  /\ \A k \in DOMAIN invoices :
       /\ invoices[k].div \in 1..next - 1
       /\ invoices[k].wallet \in Wallets \cup {None}
       /\ invoices[k].period \in Periods \cup {None}
       /\ invoices[k].machines \in Nat
  /\ miners \in [Machines -> Nat]
  /\ ownership \subseteq Machines
  /\ pc \in [Workers -> {"idle", "wallets", "allocate", "create", "attest"}]
  /\ period \in [Workers -> Periods \cup {None}]
  /\ wallet \in [Workers -> Wallets \cup {None}]
  /\ div \in [Workers -> Nat]
  /\ todo \in [Workers -> SUBSET Wallets]
  /\ count \in [Workers -> [Wallets -> Nat]]
  /\ requests \in 0..MaxRequests /\ restarts \in 0..MaxRestarts

\* Invoices never share an address, and an index that a request holds is not
\* taken by another, so that no invoice is refused for it
\* (allocate_diversifier_index and create_invoice are separate calls).
AddressesDistinct ==
  /\ \A j, k \in DOMAIN invoices : j # k => invoices[j].div # invoices[k].div
  /\ \A p \in Workers : pc[p] = "create" =>
       /\ \A k \in DOMAIN invoices : invoices[k].div # div[p]
       /\ \A q \in Workers \ {p} : pc[q] = "create" => div[q] # div[p]

\* A month was billed with a 201 only if every wallet that had a machine when
\* the request read the assignments has its invoice (auto_invoice).
BilledMeansInvoiced ==
  \A b \in billed : \A w \in b.wallets : HasHostingInvoice(w, b.period)

\* The hosting invoices of a wallet for a month.
HostingInvoices(w, month) ==
  {k \in DOMAIN invoices : invoices[k].wallet = w /\ invoices[k].period = month}

\* A month gives a wallet no more invoices than there are requests handled at the
\* same time, however often it is billed and wherever requests fail or are cut
\* off: whoever looks after the first invoice finds it (auto_invoice looks, takes
\* an index and creates the invoice in three calls).
RepeatsBillNothing ==
  \A w \in Wallets, month \in Periods :
    Cardinality(HostingInvoices(w, month)) <= Cardinality(Workers)

\* A wallet has one hosting invoice for a month; so it is when requests do not
\* overlap (auto_invoice).
OneInvoicePerPeriod ==
  \A j, k \in DOMAIN invoices :
    j # k /\ invoices[j].period # None /\ invoices[j].period = invoices[k].period =>
      invoices[j].wallet # invoices[k].wallet

=============================================================================
