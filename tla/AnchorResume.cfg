\* Liveness across a restart; the node keeps what it accepted.
SPECIFICATION FairSpec
CONSTANTS
  EmbeddedTxs = {e1, e2}
  ManualTxs = {}
  NoTx = NoTx
  Notes = {1}
  Threshold = 1
  BatchLimit = 1
  MaxLeaves = 2
  MaxTip = 2
  MaxReorgs = 0
  MaxRestarts = 1
  MempoolDrops = FALSE
PROPERTIES
  PreparedSettles
CHECK_DEADLOCK FALSE
