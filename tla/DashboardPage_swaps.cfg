\* One branch, whose one scan ends while it is followed.
SPECIFICATION DashboardSpec
CHECK_DEADLOCK FALSE
CONSTANTS
  ProjectBranches = {"m"}
  DefaultBranch = "m"
  ScannedBranches = {"m"}
  MaxSnapshots = 2
PROPERTIES NeverSwapsByItself
