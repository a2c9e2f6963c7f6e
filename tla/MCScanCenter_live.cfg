\* Two scans of one branch, one question at a time, with a lost answer and a workspace switch.
SPECIFICATION FairSpec
CONSTANTS
  main = main  acme = acme  beta = beta
  Targets <- OneTarget
  Workspaces = {acme, beta}
  WorkspaceOf <- OneHome
  Scans = {1, 2}
  TargetOf <- AllOnMain
  MaxRequests = 1
  MaxBlips = 1
  MaxSwitches = 1
  MaxReloads = 0
CHECK_DEADLOCK FALSE
PROPERTIES FollowedScanIsSettled
