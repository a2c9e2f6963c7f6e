\* Two scans of one branch beside one of another, two slots, a child that is killed or
\* a database error, fewer than the claims of a message.
SPECIFICATION Spec
CONSTANTS
  a1 = a1  a2 = a2  a3 = a3
  main = main  dev = dev
  w1 = w1  w2 = w2  disk = disk
  NoMessage = NoMessage
  Attempts = {a1, a2, a3}
  Branches = {main, dev}
  BranchOf <- BranchesOfThree
  Workers = {w1, w2}
  Volumes = {disk}
  VolumeOf <- SharedVolume
  MaxRunning = 2
  MaxQueued = 2
  ClaimAttempts = 2
  Watched = FALSE
  FaultKinds = {"kill", "claim", "db"}
  MaxFaults = 1
SYMMETRY WorkerSymmetry
\* All scans may have ended with nobody starting another.
CHECK_DEADLOCK FALSE
INVARIANTS OneActivePerBranch DoneHasSnapshot CheckoutIsPrivate FailedScanLeavesNoResult
PROPERTIES ImplementsLedger EndingIsFinal
