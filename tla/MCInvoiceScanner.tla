-------------------------- MODULE MCInvoiceScanner --------------------------
EXTENDS InvoiceScanner, TLC

MCInvoices == {"i1", "i2"}
MCTxs == {"t1", "t2"}

\* The second invoice bills nothing.  t1 pays both, the first one in part; t2
\* pays the first one.
MCAmount == "i1" :> 2 @@ "i2" :> 0
MCOutputs == "t1" :> ("i1" :> 1 @@ "i2" :> 2) @@ "t2" :> ("i1" :> 2)

\* Two hosting invoices, of two wallets that were assigned one miner.
MCWallets == {"w1", "w2"}
MCSerials == {"s1"}
MCOwner == "i1" :> "w1" @@ "i2" :> "w2"
MCHosting == MCInvoices

\* One hosting invoice, one without a wallet, both over 2; t2 carries a memo to the first
\* one and no value.
MCMemoAmount == [i \in MCInvoices |-> 2]
MCMemoOutputs ==
  "t1" :> ("i1" :> 2 @@ "i2" :> 1) @@ "t2" :> ("i1" :> 0 @@ "i2" :> 1)
MCOneWallet == {"w1"}
MCOneOwner == "i1" :> "w1" @@ "i2" :> None
MCOneHosting == {"i1"}
=============================================================================
