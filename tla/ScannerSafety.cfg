\* Rounds of two blocks that fail half way, a reorganisation, a restart, two
\* wallets that claim one miner, one of them billed for nothing.
SPECIFICATION Spec
CONSTANTS
  Invoices <- MCInvoices
  Txs <- MCTxs
  Outputs <- MCOutputs
  Amount <- MCAmount
  Wallets <- MCWallets
  Serials <- MCSerials
  None = None
  Owner <- MCOwner
  Hosting <- MCHosting
  Batch = 2
  MaxTip = 2
  MaxReorgs = 1
  MaxRestarts = 1
INVARIANTS
  PaidHeightIsRecord
  TotalsAgree
  PaidHasLeaf
  NoMissedPayment
PROPERTY LedgerSpec
CHECK_DEADLOCK FALSE
