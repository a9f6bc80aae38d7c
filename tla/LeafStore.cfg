\* A new store or one with two legacy roots, one of them anchored, exported or
\* reported on while it is written.
SPECIFICATION ToolsSpec
CONSTANTS
  l1 = l1
  l2 = l2
  l3 = l3
  l4 = l4
  Leaves = {l1, l2, l3, l4}
  TypeOf <- MCTypeOf
  LegacyMax = 1
  MaxHeight = 2
  MaxInserts = 2
  MaxExportInserts = 1
  Imported <- MCImported
  Lags = {0, 15, 101}
  MaxSyncLag = 100
  HealthMaxLag = 10
  Ages = {1, 100}
  MaxAnchorAge = 72
SYMMETRY Symmetry
INVARIANTS
  RootsCommitToPrefixes
  BundleVerifies
  CoverageIsHonest
  OfflineAudit
  ReportIsHonest
PROPERTY LogSpec
CHECK_DEADLOCK FALSE
