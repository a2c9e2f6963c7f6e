\* Every scan ends, and a stop ends it without a result.
SPECIFICATION FairSpec
CONSTANTS
  a1 = a1  a2 = a2  a3 = a3
  main = main  dev = dev
  w1 = w1  w2 = w2  disk = disk
  NoMessage = NoMessage
  Attempts = {a1, a2}
  Branches = {main, dev}
  BranchOf <- BranchesOfTwo
  Workers = {w1}
  Volumes = {disk}
  VolumeOf <- SharedVolume
  MaxRunning = 1
  MaxQueued = 1
  ClaimAttempts = 2
  Watched = TRUE
  FaultKinds = {"kill", "pod", "redeliver", "redis", "claim", "db", "publish", "api", "limit"}
  MaxFaults = 1
\* All scans may have ended with nobody starting another.
CHECK_DEADLOCK FALSE
PROPERTIES EveryScanEnds StopIsHonoured
