\* Two scans on two branches, one slot, any two faults but a publication that fails late.
SPECIFICATION Spec
CONSTANTS
  a1 = a1  a2 = a2  a3 = a3
  main = main  dev = dev
  w1 = w1  w2 = w2  disk = disk
  NoMessage = NoMessage
  Attempts = {a1, a2}
  Branches = {main, dev}
  BranchOf <- BranchesOfTwo
  Workers = {w1, w2}
  Volumes = {disk}
  VolumeOf <- SharedVolume
  MaxRunning = 1
  MaxQueued = 2
  ClaimAttempts = 3
  Watched = FALSE
  FaultKinds = {"kill", "pod", "redeliver", "redis", "claim", "db", "api", "limit"}
  MaxFaults = 2
SYMMETRY WorkerSymmetry
\* All scans may have ended with nobody starting another.
CHECK_DEADLOCK FALSE
INVARIANTS TypeOK RunningWithinLimit StopNeverWaitsInQueue
PROPERTIES NeverRestarted
