SPECIFICATION Spec
CHECK_DEADLOCK FALSE
CONSTANTS
  ProjectBranches = {"m", "d"}
  DefaultBranch = "m"
  ScannedBranches = {"m"}
  MaxSnapshots = 2

  Findings <- MCFindings
  Snapshots = 2
  TopCount = 2
  PageSize = 1
  MaxTriage = 1
  MaxFilterMoves = 1
  MaxOthersTriage = 1

  PanelFindings <- MCPanelFindings
  Commits = {"c1", "c2", "unknown"}
  FileLength <- MCFileLength
  MaxMoves = 4

  People = {"p"}
  Workspaces = {"v", "w"}
  OldModes = {"findings-tree"}
  Trees <- MCTrees
  MaxBack = 1

  TrendScores <- MCTrendScores

  Reports = {5, 37, 60, 100}
  Counts = {0, 4}
  Totals = {0, 3}

INVARIANTS ListInv ExcerptInv PanesInv
PROPERTIES NewResultsWait
