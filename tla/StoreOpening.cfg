\* Files of every release, opened by the server and by anchor_root at once.
SPECIFICATION Spec
CONSTANTS
  Server = server
  Tool = tool
  Processes <- MCProcesses
  Stores <- MCStores
  NoTx = NoTx
  MaxOpens = 1
  MaxCrashes = 2
  MaxLeaves = 2
INVARIANTS
  ServesWholeSchema
  ServesSoundRows
PROPERTY StartsInTheEnd
CHECK_DEADLOCK FALSE
