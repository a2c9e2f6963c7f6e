\* One branch followed through two scans, with two questions out at a time and a refresh.
SPECIFICATION Spec
CONSTANTS
  main = main  acme = acme  beta = beta
  Targets <- OneTarget
  Workspaces = {acme, beta}
  WorkspaceOf <- OneHome
  Scans = {1, 2}
  TargetOf <- AllOnMain
  MaxRequests = 2
  MaxBlips = 0
  MaxSwitches = 0
  MaxReloads = 1
CHECK_DEADLOCK FALSE
INVARIANTS TypeOK NothingGoesUnpolled OneChainUnlessForked FinishedMeansDoneUnlessForked
PROPERTIES StopStaysShown
