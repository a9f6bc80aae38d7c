\* Liveness without a restart: two anchors, two notes.
SPECIFICATION FairSpec
CONSTANTS
  EmbeddedTxs = {e1, e2}
  ManualTxs = {}
  NoTx = NoTx
  Notes = {1, 2}
  Threshold = 1
  BatchLimit = 1
  MaxLeaves = 2
  MaxTip = 2
  MaxReorgs = 0
  MaxRestarts = 0
  MempoolDrops = FALSE
PROPERTIES
  RecordedConfirms
  BacklogAnchored
CHECK_DEADLOCK FALSE
