\* One restart, one reorganisation, an unreliable mempool and the external wallet.
SPECIFICATION Spec
CONSTANTS
  EmbeddedTxs = {e1, e2}
  ManualTxs = {m1}
  NoTx = NoTx
  Notes = {1}
  Threshold = 1
  BatchLimit = 1
  MaxLeaves = 2
  MaxTip = 2
  MaxReorgs = 1
  MaxRestarts = 1
  MempoolDrops = TRUE
SYMMETRY Symmetry
INVARIANTS
  NoDoubleAnchor
  PreparedCanFinalize
  RecordedIsAnchored
  HeightsMatchChain
  NoteReuseNeedsRestart
PROPERTY RegisterSpec
CHECK_DEADLOCK FALSE
