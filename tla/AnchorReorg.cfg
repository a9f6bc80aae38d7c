\* A reorganisation and an operator that records heights.
SPECIFICATION FairSpec
CONSTANTS
  EmbeddedTxs = {e1, e2}
  ManualTxs = {}
  NoTx = NoTx
  Notes = {1, 2}
  Threshold = 1
  BatchLimit = 2
  MaxLeaves = 2
  MaxTip = 3
  MaxReorgs = 1
  MaxRestarts = 0
  MempoolDrops = FALSE
PROPERTIES
  RecordedGetsHeight
CHECK_DEADLOCK FALSE
