\* Payments that are refused for a while, a transaction without value, a restart.
SPECIFICATION FairSpec
CONSTANTS
  Invoices <- MCInvoices
  Txs <- MCTxs
  Outputs <- MCMemoOutputs
  Amount <- MCMemoAmount
  Wallets <- MCOneWallet
  Serials <- MCSerials
  None = None
  Owner <- MCOneOwner
  Hosting <- MCOneHosting
  Batch = 1
  MaxTip = 2
  MaxReorgs = 0
  MaxRestarts = 1
PROPERTY PaymentSettles
CHECK_DEADLOCK FALSE
