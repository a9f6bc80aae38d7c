---------------------------- MODULE InvoicingProofs ----------------------------
(***************************************************************************)
(* Invoicing for every number of workers, wallets, machines and months.    *)
(* Addresses stay distinct because a worker that holds an index holds one  *)
(* below the counter that nobody else has; a month that was billed is      *)
(* complete because a wallet leaves a request's list only with its         *)
(* invoice; one worker bills a month once because nothing moves between    *)
(* its look for an invoice and its insert; and several bill it no more     *)
(* often than there are workers, because none joins those that looked      *)
(* before the first invoice was there.                                     *)
(***************************************************************************)
EXTENDS Invoicing, DataLemmas

\* The part of TypeOK that the proofs need; machine counts have none.
Typed ==
  /\ next \in Nat \ {0}
  /\ IsTable(invoices)
  /\ pc \in [Workers -> {"idle", "wallets", "allocate", "create", "attest"}]
  /\ period \in [Workers -> Periods \cup {None}]
  /\ DOMAIN wallet = Workers /\ DOMAIN count = Workers
  /\ div \in [Workers -> Nat]
  /\ todo \in [Workers -> SUBSET Wallets]

\* Indexes that were handed out are below the counter.
Allocated ==
  /\ \A k \in DOMAIN invoices : invoices[k].div \in 1..next - 1
  /\ \A p \in Workers : pc[p] = "create" => div[p] \in 1..next - 1

\* The row that Create inserts.
Invoice(p) ==
  [div |-> div[p], wallet |-> wallet[p], period |-> period[p],
   machines |-> IF period[p] = None THEN 0 ELSE count[p][wallet[p]]]

-----------------------------------------------------------------------------
(* Rows of invoices. *)

\* A step inserts the invoice of the worker that creates one, or none.
LEMMA CreateAdds ==
  ASSUME Typed, NEW p \in Workers, Create(p)
  PROVE  /\ invoices' = Append(invoices, Invoice(p))
         /\ IsTable(invoices') /\ DOMAIN invoices' = DOMAIN invoices \cup {Len(invoices) + 1}
         /\ Len(invoices) + 1 \notin DOMAIN invoices
         /\ \A k \in DOMAIN invoices : invoices'[k] = invoices[k]
         /\ invoices'[Len(invoices) + 1] = Invoice(p)
<1>1. invoices' = Append(invoices, Invoice(p))
  BY DEF Create, Invoice
<1>2. Len(invoices) \in Nat /\ DOMAIN invoices = 1..Len(invoices)
  BY TableIndexes DEF Typed
<1>3. /\ IsTable(invoices') /\ DOMAIN invoices' = 1..Len(invoices) + 1
      /\ \A k \in DOMAIN invoices : invoices'[k] = invoices[k]
      /\ invoices'[Len(invoices) + 1] = Invoice(p)
  BY <1>1, InsertRow DEF Typed
<1> QED
  BY <1>1, <1>2, <1>3

LEMMA InitTyped == Init => Typed
<1> SUFFICES ASSUME Init PROVE Typed
  OBVIOUS
<1>1. IsTable(invoices)
  BY TypedTable, EmptySeq DEF Init
<1> QED
  BY <1>1 DEF Init, Typed

LEMMA NextTyped == Typed /\ [Next]_vars => Typed'
<1> SUFFICES ASSUME Typed, [Next]_vars PROVE Typed'
  OBVIOUS
<1> USE DEF Goto, dbVars, workVars, history
<1>1. ASSUME NEW p \in Workers, NEW w \in Wallets \cup {None}, StartInvoice(p, w) PROVE Typed'
  BY <1>1 DEF Typed, StartInvoice, Begin
<1>2. ASSUME NEW p \in Workers, NEW month \in Periods, StartAutoInvoice(p, month) PROVE Typed'
  BY <1>2 DEF Typed, StartAutoInvoice, Begin
<1>3. ASSUME NEW p \in Workers, NEW w \in Wallets, VisitWallet(p, w) PROVE Typed'
  BY <1>3 DEF Typed, VisitWallet
<1>4. ASSUME NEW p \in Workers, Allocate(p) PROVE Typed'
  BY <1>4 DEF Typed, Allocate
<1>5. ASSUME NEW p \in Workers, Create(p) PROVE Typed'
  BY <1>5, CreateAdds DEF Typed, Create
<1>6. ASSUME NEW p \in Workers, FinishAutoInvoice(p) PROVE Typed'
  BY <1>6 DEF Typed, FinishAutoInvoice
<1>7. ASSUME NEW p \in Workers, NEW w \in Wallets, NEW s \in Serials, AssignMiner(p, w, s)
      PROVE Typed'
  BY <1>7 DEF Typed, AssignMiner, Begin
<1>8. ASSUME NEW p \in Workers, AttestOwnership(p) PROVE Typed'
  BY <1>8 DEF Typed, AttestOwnership
<1>9. ASSUME NEW p \in Workers, Fail(p) PROVE Typed'
  BY <1>9 DEF Typed, Fail, AfterError
<1>10. CASE Restart
  BY <1>10 DEF Typed, Restart
<1>11. CASE UNCHANGED vars
  BY <1>11 DEF Typed, vars
<1> QED
  BY <1>1, <1>2, <1>3, <1>4, <1>5, <1>6, <1>7, <1>8, <1>9, <1>10, <1>11
  DEF Next, WorkerStep

\* The rows, the counter and the indexes stay, and no worker comes to hold one.
Elsewhere ==
  /\ invoices' = invoices /\ next' = next /\ div' = div
  /\ \A p \in Workers : pc'[p] = "create" => pc[p] = "create"

\* So it is with every step but an allocation or an insert.
LEMMA OtherSteps ==
  ASSUME Typed, [Next]_vars
  PROVE  \/ \E p \in Workers : Allocate(p) \/ Create(p)
         \/ Elsewhere
<1> USE DEF Elsewhere, Goto, dbVars, workVars, history
<1>1. ASSUME NEW p \in Workers, NEW w, StartInvoice(p, w)
      PROVE  Elsewhere
  BY <1>1 DEF Typed, StartInvoice
<1>2. ASSUME NEW p \in Workers, NEW month, StartAutoInvoice(p, month)
      PROVE  Elsewhere
  BY <1>2 DEF Typed, StartAutoInvoice
<1>3. ASSUME NEW p \in Workers, NEW w, VisitWallet(p, w)
      PROVE  Elsewhere
  BY <1>3 DEF Typed, VisitWallet
<1>4. ASSUME NEW p \in Workers, FinishAutoInvoice(p)
      PROVE  Elsewhere
  BY <1>4 DEF Typed, FinishAutoInvoice
<1>5. ASSUME NEW p \in Workers, NEW w, NEW s, AssignMiner(p, w, s)
      PROVE  Elsewhere
  BY <1>5 DEF Typed, AssignMiner
<1>6. ASSUME NEW p \in Workers, AttestOwnership(p) \/ Fail(p)
      PROVE  Elsewhere
  BY <1>6 DEF Typed, AttestOwnership, Fail, AfterError
<1>7. ASSUME Restart \/ UNCHANGED vars
      PROVE  Elsewhere
  BY <1>7 DEF Typed, Restart, vars
<1> QED
  BY <1>1, <1>2, <1>3, <1>4, <1>5, <1>6, <1>7 DEF Next, WorkerStep

-----------------------------------------------------------------------------
(* Addresses. *)

LEMMA NextAddresses ==
  Typed /\ Allocated /\ AddressesDistinct /\ [Next]_vars => (Allocated /\ AddressesDistinct)'
<1> SUFFICES ASSUME Typed, Allocated, AddressesDistinct, [Next]_vars
             PROVE  (Allocated /\ AddressesDistinct)'
  OBVIOUS
<1>1. ASSUME NEW p \in Workers, Allocate(p) PROVE (Allocated /\ AddressesDistinct)'
  <2>1. /\ div' = [div EXCEPT ![p] = next] /\ next' = next + 1
        /\ pc' = [pc EXCEPT ![p] = "create"] /\ invoices' = invoices
    BY <1>1 DEF Allocate, Goto
  <2>2. Allocated'
    BY <2>1 DEF Allocated, Typed
  <2>3. AddressesDistinct'
    BY <2>1 DEF AddressesDistinct, Allocated, Typed
  <2> QED
    BY <2>2, <2>3
<1>2. ASSUME NEW p \in Workers, Create(p) PROVE (Allocated /\ AddressesDistinct)'
  <2>1. /\ pc[p] = "create" /\ next' = next /\ div' = div
        /\ \A q \in Workers : pc'[q] = "create" => pc[q] = "create" /\ q # p
    BY <1>2 DEF Create, Goto, Typed
  <2>2. /\ DOMAIN invoices' = DOMAIN invoices \cup {Len(invoices) + 1}
        /\ Len(invoices) + 1 \notin DOMAIN invoices
        /\ \A k \in DOMAIN invoices : invoices'[k] = invoices[k]
        /\ invoices'[Len(invoices) + 1].div = div[p]
    <3>1. Invoice(p).div = div[p]
      BY DEF Invoice
    <3> QED
      BY <1>2, <3>1, CreateAdds
  <2>3. Allocated'
    BY <2>1, <2>2 DEF Allocated
  <2>4. AddressesDistinct'
    BY <2>1, <2>2 DEF AddressesDistinct
  <2> QED
    BY <2>3, <2>4
<1>3. CASE Elsewhere
  BY <1>3 DEF Elsewhere, Allocated, AddressesDistinct
<1> QED
  BY <1>1, <1>2, <1>3, OtherSteps

\* However requests overlap, fail and are cut off, no two invoices have the same
\* address and none is refused for its index (AddressesDistinct).
THEOREM AddressesAreDistinct == Spec => []AddressesDistinct
<1>1. Init => Typed /\ Allocated /\ AddressesDistinct
  BY InitTyped DEF Init, Allocated, AddressesDistinct
<1>2. (Typed /\ Allocated /\ AddressesDistinct) /\ [Next]_vars
        => (Typed /\ Allocated /\ AddressesDistinct)'
  BY NextTyped, NextAddresses
<1> QED
  BY <1>1, <1>2, PTL DEF Spec
-----------------------------------------------------------------------------
(* Months. *)

\* An auto-invoice request owes an invoice to the wallets still on its list, and
\* to no other that had a machine.
OwedBy(p) ==
  /\ pc[p] = "wallets" => period[p] # None
  /\ pc[p] \in {"wallets", "allocate", "create"} /\ period[p] # None =>
       \A w \in Wallets : count[p][w] > 0 => w \in todo[p] \/ HasHostingInvoice(w, period[p])
Owed == \A p \in Workers : OwedBy(p)

\* No row of invoices goes away or changes.
LEMMA InvoicesKept ==
  ASSUME Typed, [Next]_vars
  PROVE  \A k \in DOMAIN invoices : k \in DOMAIN invoices' /\ invoices'[k] = invoices[k]
<1>1. ASSUME NEW p \in Workers, Create(p)
      PROVE  \A k \in DOMAIN invoices : k \in DOMAIN invoices' /\ invoices'[k] = invoices[k]
  BY <1>1, CreateAdds
<1>2. ASSUME invoices' = invoices
      PROVE  \A k \in DOMAIN invoices : k \in DOMAIN invoices' /\ invoices'[k] = invoices[k]
  BY <1>2
<1> QED
  BY <1>1, <1>2, OtherSteps DEF Elsewhere, Allocate

\* A worker that a step does not move on owes what it owed.
LEMMA OwedKept ==
  ASSUME Typed, [Next]_vars, NEW p \in Workers, OwedBy(p),
         pc'[p] \in {pc[p], "idle", "attest"},
         period'[p] = period[p], count'[p] = count[p], todo'[p] = todo[p]
  PROVE  OwedBy(p)'
  BY InvoicesKept DEF OwedBy, HasHostingInvoice

LEMMA BilledKept ==
  ASSUME Typed, [Next]_vars, BilledMeansInvoiced, billed' = billed
  PROVE  BilledMeansInvoiced'
  BY InvoicesKept DEF BilledMeansInvoiced, HasHostingInvoice

LEMMA NextOwed ==
  Typed /\ Owed /\ BilledMeansInvoiced /\ [Next]_vars => (Owed /\ BilledMeansInvoiced)'
<1> SUFFICES ASSUME Typed, Owed, BilledMeansInvoiced, [Next]_vars
             PROVE  (Owed /\ BilledMeansInvoiced)'
  OBVIOUS
<1> USE InvoicingAssumption DEF InvoicingAssumption, Goto, dbVars, workVars, history
<1>0. \A p \in Workers : OwedBy(p)
  BY DEF Owed
<1>1. ASSUME NEW p \in Workers, NEW w \in Wallets \cup {None}, StartInvoice(p, w)
      PROVE (Owed /\ BilledMeansInvoiced)'
  <2>1. OwedBy(p)'
    BY <1>1 DEF StartInvoice, OwedBy, Typed
  <2>2. \A q \in Workers \ {p} : OwedBy(q)'
    BY <1>0, <1>1, OwedKept DEF StartInvoice, Typed
  <2> QED
    BY <1>1, <2>1, <2>2, BilledKept DEF StartInvoice, Owed
<1>2. ASSUME NEW p \in Workers, NEW month \in Periods, StartAutoInvoice(p, month)
      PROVE (Owed /\ BilledMeansInvoiced)'
  <2>1. /\ period'[p] = month /\ count'[p] = [w \in Wallets |-> RowsOf(w)]
        /\ todo'[p] = {w \in Wallets : RowsOf(w) > 0}
    BY <1>2 DEF StartAutoInvoice, Typed
  <2>2. OwedBy(p)'
    BY <2>1 DEF OwedBy
  <2>3. \A q \in Workers \ {p} : OwedBy(q)'
    BY <1>0, <1>2, OwedKept DEF StartAutoInvoice, Typed
  <2> QED
    BY <1>2, <2>2, <2>3, BilledKept DEF StartAutoInvoice, Owed
<1>3. ASSUME NEW p \in Workers, NEW w \in Wallets, VisitWallet(p, w)
      PROVE (Owed /\ BilledMeansInvoiced)'
  <2>1. /\ pc[p] = "wallets" /\ period' = period /\ count' = count /\ invoices' = invoices
        /\ todo'[p] = todo[p] \/ (todo'[p] = todo[p] \ {w} /\ HasHostingInvoice(w, period[p]))
    BY <1>3 DEF VisitWallet, Typed
  <2>3. OwedBy(p)'
    BY <1>0, <2>1 DEF OwedBy, HasHostingInvoice
  <2>4. \A q \in Workers \ {p} : OwedBy(q)'
    BY <1>0, <1>3, OwedKept DEF VisitWallet, Typed
  <2> QED
    BY <1>3, <2>3, <2>4, BilledKept DEF VisitWallet, Owed
<1>4. ASSUME NEW p \in Workers, Allocate(p) PROVE (Owed /\ BilledMeansInvoiced)'
  <2>1. /\ pc[p] = "allocate" /\ pc'[p] = "create" /\ UNCHANGED <<period, count, todo, invoices>>
    BY <1>4 DEF Allocate, Typed
  <2>3. OwedBy(p)'
    BY <1>0, <2>1 DEF OwedBy, HasHostingInvoice
  <2>4. \A q \in Workers \ {p} : OwedBy(q)'
    BY <1>0, <1>4, OwedKept DEF Allocate, Typed
  <2> QED
    BY <1>4, <2>3, <2>4, BilledKept DEF Allocate, Owed
<1>5. ASSUME NEW p \in Workers, Create(p) PROVE (Owed /\ BilledMeansInvoiced)'
  <2>1. /\ pc[p] = "create" /\ period' = period /\ count' = count
        /\ todo'[p] = todo[p] \ {wallet[p]}
        /\ pc'[p] = (IF period[p] = None THEN "idle" ELSE "wallets")
    BY <1>5 DEF Create, Typed
  <2>2. HasHostingInvoice(wallet[p], period[p])'
    <3>1. Invoice(p).wallet = wallet[p] /\ Invoice(p).period = period[p]
      BY DEF Invoice
    <3>2. Len(invoices) + 1 \in DOMAIN invoices' /\ invoices'[Len(invoices) + 1] = Invoice(p)
      BY <1>5, CreateAdds
    <3>3. wallet' = wallet
      BY <1>5 DEF Create
    <3> QED
      BY <2>1, <3>1, <3>2, <3>3 DEF HasHostingInvoice
  <2>4. wallet' = wallet
    BY <1>5 DEF Create
  <2>5. OwedBy(p)'
    BY <1>0, <2>1, <2>2, <2>4, InvoicesKept DEF OwedBy, HasHostingInvoice
  <2>6. \A q \in Workers \ {p} : OwedBy(q)'
    BY <1>0, <1>5, OwedKept DEF Create, Typed
  <2> QED
    BY <1>5, <2>5, <2>6, BilledKept DEF Create, Owed
<1>6. ASSUME NEW p \in Workers, FinishAutoInvoice(p) PROVE (Owed /\ BilledMeansInvoiced)'
  <2>1. \A q \in Workers : OwedBy(q)'
    BY <1>0, <1>6, OwedKept DEF FinishAutoInvoice, Typed
  <2>2. \A w \in Wallets : count[p][w] > 0 => HasHostingInvoice(w, period[p])
    BY <1>0, <1>6 DEF FinishAutoInvoice, OwedBy
  <2>4. billed' = billed \cup {[period |-> period[p], wallets |-> {w \in Wallets : count[p][w] > 0}]}
    BY <1>6 DEF FinishAutoInvoice
  <2>5. BilledMeansInvoiced'
    BY <2>2, <2>4, InvoicesKept DEF BilledMeansInvoiced, HasHostingInvoice
  <2> QED
    BY <2>1, <2>5 DEF Owed
<1>7. ASSUME NEW p \in Workers, NEW w \in Wallets, NEW s \in Serials, AssignMiner(p, w, s)
      PROVE (Owed /\ BilledMeansInvoiced)'
  BY <1>0, <1>7, OwedKept, BilledKept DEF AssignMiner, Begin, Typed, Owed
<1>8. ASSUME NEW p \in Workers, AttestOwnership(p) PROVE (Owed /\ BilledMeansInvoiced)'
  BY <1>0, <1>8, OwedKept, BilledKept DEF AttestOwnership, Typed, Owed
<1>9. ASSUME NEW p \in Workers, Fail(p) PROVE (Owed /\ BilledMeansInvoiced)'
  <2>1. OwedBy(p)'
    BY <1>9 DEF Fail, AfterError, OwedBy, Typed
  <2>2. \A q \in Workers \ {p} : OwedBy(q)'
    BY <1>0, <1>9, OwedKept DEF Fail, AfterError, Typed
  <2> QED
    BY <1>9, <2>1, <2>2, BilledKept DEF Fail, Owed
<1>10. CASE Restart
  BY <1>0, <1>10, OwedKept, BilledKept DEF Restart, Owed
<1>11. CASE UNCHANGED vars
  BY <1>0, <1>11, OwedKept, BilledKept DEF vars, Owed
<1> QED
  BY <1>1, <1>2, <1>3, <1>4, <1>5, <1>6, <1>7, <1>8, <1>9, <1>10, <1>11
  DEF Next, WorkerStep

\* A month that was billed with a 201 is complete, whatever other requests did
\* meanwhile (BilledMeansInvoiced).
THEOREM BilledMonthsAreComplete == Spec => []BilledMeansInvoiced
<1>1. Init => Typed /\ Owed /\ BilledMeansInvoiced
  BY InitTyped DEF Init, Owed, OwedBy, BilledMeansInvoiced
<1>2. (Typed /\ Owed /\ BilledMeansInvoiced) /\ [Next]_vars
        => (Typed /\ Owed /\ BilledMeansInvoiced)'
  BY NextTyped, NextOwed
<1> QED
  BY <1>1, <1>2, PTL DEF Spec

-----------------------------------------------------------------------------
(* One worker.  Two may bill a month twice. *)

\* What it is about to bill is not billed.
Unbilled ==
  \A p \in Workers : pc[p] \in {"allocate", "create"} /\ period[p] # None =>
    ~HasHostingInvoice(wallet[p], period[p])

Alone == \A p, q \in Workers : p = q

LEMMA NextUnbilled ==
  ASSUME Alone, Typed, Unbilled, OneInvoicePerPeriod, [Next]_vars
  PROVE  (Unbilled /\ OneInvoicePerPeriod)'
<1> USE InvoicingAssumption DEF InvoicingAssumption, Goto, dbVars, workVars, history
<1>1. ASSUME NEW p \in Workers, Create(p) PROVE (Unbilled /\ OneInvoicePerPeriod)'
  <2>1. /\ pc[p] = "create" /\ pc'[p] \in {"idle", "wallets"}
    BY <1>1 DEF Create, Typed
  <2>2. Unbilled'
    BY <2>1 DEF Alone, Unbilled
  <2>3. /\ DOMAIN invoices' = DOMAIN invoices \cup {Len(invoices) + 1}
        /\ Len(invoices) + 1 \notin DOMAIN invoices
        /\ \A k \in DOMAIN invoices : invoices'[k] = invoices[k]
        /\ invoices'[Len(invoices) + 1] = Invoice(p)
    BY <1>1, CreateAdds
  <2>4. Invoice(p).wallet = wallet[p] /\ Invoice(p).period = period[p]
    BY DEF Invoice
  <2>5. period[p] # None =>
          \A k \in DOMAIN invoices : invoices[k].wallet # wallet[p] \/ invoices[k].period # period[p]
    BY <2>1 DEF Unbilled, HasHostingInvoice
  <2>6. OneInvoicePerPeriod'
    BY <2>3, <2>4, <2>5 DEF OneInvoicePerPeriod
  <2> QED
    BY <2>2, <2>6
<1>2. ASSUME invoices' = invoices PROVE OneInvoicePerPeriod'
  BY <1>2 DEF OneInvoicePerPeriod
<1>3. ASSUME NEW p \in Workers, NEW w \in Wallets, VisitWallet(p, w)
      PROVE (Unbilled /\ OneInvoicePerPeriod)'
  <2>1. invoices' = invoices /\ period' = period
    BY <1>3 DEF VisitWallet
  <2>2. pc'[p] \in {"allocate", "create"} => wallet'[p] = w /\ ~HasHostingInvoice(w, period[p])
    BY <1>3 DEF VisitWallet, Typed
  <2>3. Unbilled'
    BY <2>1, <2>2 DEF Unbilled, Alone, HasHostingInvoice
  <2> QED
    BY <1>2, <2>1, <2>3
<1>4. ASSUME NEW p \in Workers, NEW w \in Wallets \cup {None}, StartInvoice(p, w)
      PROVE (Unbilled /\ OneInvoicePerPeriod)'
  <2>1. invoices' = invoices /\ period'[p] = None
    BY <1>4 DEF StartInvoice, Typed
  <2>2. Unbilled'
    BY <2>1 DEF Unbilled, Alone
  <2> QED
    BY <1>2, <2>1, <2>2
<1>5. ASSUME NEW p \in Workers, Allocate(p) PROVE (Unbilled /\ OneInvoicePerPeriod)'
  <2>1. pc[p] = "allocate" /\ UNCHANGED <<invoices, period, wallet>>
    BY <1>5 DEF Allocate
  <2>2. Unbilled'
    BY <2>1 DEF Unbilled, Alone, HasHostingInvoice
  <2> QED
    BY <1>2, <2>1, <2>2
<1>6. ASSUME invoices' = invoices,
             \A p \in Workers : \/ pc'[p] \notin {"allocate", "create"}
                                \/ pc'[p] = pc[p] /\ period'[p] = period[p] /\ wallet'[p] = wallet[p]
      PROVE (Unbilled /\ OneInvoicePerPeriod)'
  <2>1. Unbilled'
    BY <1>6 DEF Unbilled, HasHostingInvoice
  <2> QED
    BY <1>2, <1>6, <2>1
<1>7. ASSUME NEW p \in Workers, NEW month \in Periods, StartAutoInvoice(p, month)
      PROVE (Unbilled /\ OneInvoicePerPeriod)'
  <2>1. invoices' = invoices /\ pc'[p] = "wallets"
    BY <1>7 DEF StartAutoInvoice, Typed
  <2>2. Unbilled'
    BY <2>1 DEF Alone, Unbilled
  <2> QED
    BY <1>2, <2>1, <2>2
<1>8. ASSUME NEW p \in Workers, NEW w \in Wallets, NEW s \in Serials, AssignMiner(p, w, s)
      PROVE (Unbilled /\ OneInvoicePerPeriod)'
  <2>1. invoices' = invoices /\ pc'[p] = "attest"
    BY <1>8 DEF AssignMiner, Typed
  <2>2. Unbilled'
    BY <2>1 DEF Alone, Unbilled
  <2> QED
    BY <1>2, <2>1, <2>2
<1>9. ASSUME NEW p \in Workers, FinishAutoInvoice(p) \/ AttestOwnership(p) \/ Fail(p)
      PROVE (Unbilled /\ OneInvoicePerPeriod)'
  BY <1>6, <1>9 DEF FinishAutoInvoice, AttestOwnership, Fail, AfterError, Typed, Alone
<1>10. CASE Restart
  BY <1>6, <1>10 DEF Restart
<1>11. CASE UNCHANGED vars
  BY <1>6, <1>11 DEF vars
<1> QED
  BY <1>1, <1>3, <1>4, <1>5, <1>7, <1>8, <1>9, <1>10, <1>11 DEF Next, WorkerStep

\* Requests that are handled one after the other, failed ones and repeated ones
\* among them, bill a wallet once for a month (OneInvoicePerPeriod).
THEOREM OneWorkerBillsOnce == Alone => (Spec => []OneInvoicePerPeriod)
<1> SUFFICES ASSUME Alone PROVE Spec => []OneInvoicePerPeriod
  OBVIOUS
<1>1. Init => Typed /\ Unbilled /\ OneInvoicePerPeriod
  BY InitTyped DEF Init, Unbilled, OneInvoicePerPeriod
<1>2. (Typed /\ Unbilled /\ OneInvoicePerPeriod) /\ [Next]_vars
        => (Typed /\ Unbilled /\ OneInvoicePerPeriod)'
  BY NextTyped, NextUnbilled
<1> QED
  BY <1>1, <1>2, PTL DEF Spec

-----------------------------------------------------------------------------
(* Overlapping requests. *)

\* The workers that found no invoice of a wallet for a month and create one.
Billing(w, month) ==
  {p \in Workers : pc[p] \in {"allocate", "create"} /\ wallet[p] = w /\ period[p] = month}

\* Once there is an invoice nobody joins them, and each of them adds one.
Room(w, month) ==
  HostingInvoices(w, month) # {} =>
    Cardinality(HostingInvoices(w, month)) + Cardinality(Billing(w, month))
      <= Cardinality(Workers)
Rooms == \A w \in Wallets, month \in Periods : Room(w, month)

\* Counts of finite sets.
LEMMA BillingCounts ==
  ASSUME Typed, NEW w, NEW month
  PROVE  /\ IsFiniteSet(HostingInvoices(w, month)) /\ IsFiniteSet(Billing(w, month))
         /\ Cardinality(HostingInvoices(w, month)) \in Nat
         /\ Cardinality(Billing(w, month)) \in Nat /\ Cardinality(Workers) \in Nat
         /\ Cardinality(Billing(w, month)) <= Cardinality(Workers)
<1>1. IsFiniteSet(Workers)
  BY InvoicingAssumption DEF InvoicingAssumption
<1>2. IsFiniteSet(DOMAIN invoices)
  <2>1. Len(invoices) \in Nat /\ DOMAIN invoices = 1..Len(invoices)
    BY TableIndexes DEF Typed
  <2> QED
    BY <2>1, FS_Interval
<1>3. HostingInvoices(w, month) \subseteq DOMAIN invoices
  BY DEF HostingInvoices
<1>4. Billing(w, month) \subseteq Workers
  BY DEF Billing
<1>5. IsFiniteSet(HostingInvoices(w, month)) /\ IsFiniteSet(Billing(w, month))
  BY <1>1, <1>2, <1>3, <1>4, FS_Subset
<1>6. Cardinality(Billing(w, month)) <= Cardinality(Workers)
  BY <1>1, <1>4, FS_Subset
<1> QED
  BY <1>1, <1>5, <1>6, FS_CardinalityType

\* A step that bills nothing keeps the room if no worker joins, or if there is no
\* invoice yet.
LEMMA RoomKept ==
  ASSUME Typed, Typed', NEW w, NEW month, Room(w, month), invoices' = invoices,
         HostingInvoices(w, month) = {} \/ Billing(w, month)' \subseteq Billing(w, month)
  PROVE  Room(w, month)'
<1>1. HostingInvoices(w, month)' = HostingInvoices(w, month)
  BY DEF HostingInvoices
<1>2. CASE HostingInvoices(w, month) = {}
  BY <1>1, <1>2 DEF Room
<1>3. CASE Billing(w, month)' \subseteq Billing(w, month)
  <2>1. Cardinality(Billing(w, month)') <= Cardinality(Billing(w, month))
    BY <1>3, BillingCounts, FS_Subset
  <2>2. Cardinality(Billing(w, month)') \in Nat
    BY <1>3, BillingCounts, FS_Subset, FS_CardinalityType
  <2> QED
    BY <1>1, <2>1, <2>2, BillingCounts DEF Room
<1> QED
  BY <1>2, <1>3

LEMMA NextRooms ==
  ASSUME Typed, Rooms, [Next]_vars
  PROVE  Rooms'
<1> SUFFICES ASSUME NEW w \in Wallets, NEW month \in Periods PROVE Room(w, month)'
  BY DEF Rooms
<1> USE InvoicingAssumption DEF InvoicingAssumption, Goto, dbVars, workVars, history
<1>0. Typed' /\ Room(w, month)
  BY NextTyped DEF Rooms
<1>1. ASSUME NEW p \in Workers, Create(p) PROVE Room(w, month)'
  <2> DEFINE H == HostingInvoices(w, month)
             B == Billing(w, month)
             new == Len(invoices) + 1
  <2>1. /\ pc[p] = "create" /\ pc' = [pc EXCEPT ![p] = pc'[p]] /\ pc'[p] \in {"idle", "wallets"}
        /\ wallet' = wallet /\ period' = period
    BY <1>1 DEF Create, Typed
  <2>2. /\ DOMAIN invoices' = DOMAIN invoices \cup {new} /\ new \notin DOMAIN invoices
        /\ \A k \in DOMAIN invoices : invoices'[k] = invoices[k]
        /\ invoices'[new].wallet = wallet[p] /\ invoices'[new].period = period[p]
    <3>1. Invoice(p).wallet = wallet[p] /\ Invoice(p).period = period[p]
      BY DEF Invoice
    <3> QED
      BY <1>1, <3>1, CreateAdds
  <2>3. B' = B \ {p}
    BY <2>1 DEF Billing, Typed
  <2>4. CASE p \in B
    <3>1. H' = H \cup {new} /\ new \notin H
      BY <2>2, <2>4 DEF HostingInvoices, Billing
    <3>2. Cardinality(H') = Cardinality(H) + 1
      BY <3>1, BillingCounts, FS_AddElement
    <3>3. Cardinality(B') = Cardinality(B) - 1
      BY <2>3, <2>4, BillingCounts, FS_RemoveElement
    <3>4. H = {} => Cardinality(H) = 0
      BY FS_EmptySet
    <3> HIDE DEF H, B
    <3>5. /\ Cardinality(H) \in Nat /\ Cardinality(B) \in Nat /\ Cardinality(Workers) \in Nat
          /\ Cardinality(B) <= Cardinality(Workers)
      BY BillingCounts DEF H, B
    <3>6. H # {} => Cardinality(H) + Cardinality(B) <= Cardinality(Workers)
      BY <1>0 DEF H, B, Room
    <3>7. Cardinality(H') + Cardinality(B') <= Cardinality(Workers)
      BY <3>2, <3>3, <3>4, <3>5, <3>6
    <3> QED
      BY <3>7 DEF H, B, Room
  <2>5. CASE p \notin B
    <3>1. ~(wallet[p] = w /\ period[p] = month)
      BY <2>1, <2>5 DEF Billing
    <3>2. H' = H
      BY <2>2, <3>1 DEF HostingInvoices
    <3>3. B' = B
      BY <2>3, <2>5
    <3> QED
      BY <1>0, <3>2, <3>3 DEF Room
  <2> QED
    BY <2>4, <2>5
<1>2. ASSUME NEW p \in Workers, NEW x \in Wallets, VisitWallet(p, x) PROVE Room(w, month)'
  <2>1. invoices' = invoices /\ period' = period
    BY <1>2 DEF VisitWallet
  <2>2. CASE HasHostingInvoice(x, period[p])
    <3>1. pc' = pc /\ wallet' = wallet
      BY <1>2, <2>2 DEF VisitWallet
    <3>2. Billing(w, month)' \subseteq Billing(w, month)
      BY <2>1, <3>1 DEF Billing
    <3> QED
      BY <1>0, <2>1, <3>2, RoomKept
  <2>3. CASE x = w /\ period[p] = month /\ ~HasHostingInvoice(x, period[p])
    <3>1. HostingInvoices(w, month) = {}
      BY <2>3 DEF HasHostingInvoice, HostingInvoices
    <3> QED
      BY <1>0, <2>1, <3>1, RoomKept
  <2>4. CASE ~(x = w /\ period[p] = month) /\ ~HasHostingInvoice(x, period[p])
    <3>1. wallet' = [wallet EXCEPT ![p] = x] /\ pc' = [pc EXCEPT ![p] = "allocate"]
      BY <1>2, <2>4 DEF VisitWallet
    <3>2. Billing(w, month)' \subseteq Billing(w, month)
      BY <2>1, <2>4, <3>1 DEF Billing, Typed
    <3> QED
      BY <1>0, <2>1, <3>2, RoomKept
  <2> QED
    BY <2>2, <2>3, <2>4
<1>3. ASSUME NEW p \in Workers, NEW x \in Wallets \cup {None}, StartInvoice(p, x)
      PROVE Room(w, month)'
  <2>1. invoices' = invoices /\ Billing(w, month)' \subseteq Billing(w, month)
    BY <1>3 DEF StartInvoice, Billing, Typed
  <2> QED
    BY <1>0, <2>1, RoomKept
<1>4. ASSUME NEW p \in Workers, NEW m \in Periods, StartAutoInvoice(p, m)
      PROVE Room(w, month)'
  <2>1. invoices' = invoices /\ Billing(w, month)' \subseteq Billing(w, month)
    BY <1>4 DEF StartAutoInvoice, Billing, Typed
  <2> QED
    BY <1>0, <2>1, RoomKept
<1>5. ASSUME NEW p \in Workers, Allocate(p) PROVE Room(w, month)'
  <2>1. invoices' = invoices /\ Billing(w, month)' \subseteq Billing(w, month)
    BY <1>5 DEF Allocate, Billing, Typed
  <2> QED
    BY <1>0, <2>1, RoomKept
<1>6. ASSUME NEW p \in Workers, NEW x \in Wallets, NEW s \in Serials, AssignMiner(p, x, s)
      PROVE Room(w, month)'
  <2>1. invoices' = invoices /\ Billing(w, month)' \subseteq Billing(w, month)
    BY <1>6 DEF AssignMiner, Billing, Typed
  <2> QED
    BY <1>0, <2>1, RoomKept
<1>7. ASSUME NEW p \in Workers, FinishAutoInvoice(p) \/ AttestOwnership(p) \/ Fail(p)
      PROVE Room(w, month)'
  <2>1. invoices' = invoices /\ Billing(w, month)' \subseteq Billing(w, month)
    BY <1>7 DEF FinishAutoInvoice, AttestOwnership, Fail, AfterError, Billing, Typed
  <2> QED
    BY <1>0, <2>1, RoomKept
<1>8. CASE Restart \/ UNCHANGED vars
  <2>1. invoices' = invoices /\ Billing(w, month)' \subseteq Billing(w, month)
    BY <1>8 DEF Restart, vars, Billing
  <2> QED
    BY <1>0, <2>1, RoomKept
<1> QED
  BY <1>1, <1>2, <1>3, <1>4, <1>5, <1>6, <1>7, <1>8 DEF Next, WorkerStep

\* Whatever requests overlap, fail and are repeated, a month gives a wallet no more
\* invoices than there are requests handled at the same time (RepeatsBillNothing).
THEOREM RepeatsAddNoInvoice == Spec => []RepeatsBillNothing
<1>1. Init => Typed /\ Rooms
  BY InitTyped DEF Init, Rooms, Room, HostingInvoices
<1>2. (Typed /\ Rooms) /\ [Next]_vars => (Typed /\ Rooms)'
  BY NextTyped, NextRooms
<1>3. Typed /\ Rooms => RepeatsBillNothing
  <2> SUFFICES ASSUME Typed, Rooms, NEW w \in Wallets, NEW month \in Periods
               PROVE  Cardinality(HostingInvoices(w, month)) <= Cardinality(Workers)
    BY DEF RepeatsBillNothing
  <2>1. Room(w, month)
    BY DEF Rooms
  <2>2. HostingInvoices(w, month) = {} => Cardinality(HostingInvoices(w, month)) = 0
    BY FS_EmptySet
  <2> QED
    BY <2>1, <2>2, BillingCounts DEF Room
<1> QED
  BY <1>1, <1>2, <1>3, PTL DEF Spec
===============================================================================
