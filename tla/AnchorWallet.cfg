\* A process that starts when the tree is not seeded yet or can be, both
\* feeders, a failed request, a spend.
SPECIFICATION Spec
CONSTANTS
  None = None
  Chains <- MCChains
  FirstTip = 3
  ReseedLag = 2
  ScanFrom = 1
  LastScanned = 2
  Invoices = {TRUE, FALSE}
  ScanBatch = 2
  MaxFaults = 1
  MaxBuilds = 1
INVARIANTS
  SpendIsValid BalanceIsOwned NoCircularWait
PROPERTY RecoveryEnds
CHECK_DEADLOCK FALSE
