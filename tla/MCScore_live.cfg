\* Scores become ready.
SPECIFICATION FairSpec
CONSTANTS
  Rows = {r1}
  Workers = {w1}
  Requests = {q1, q2}
  NoRow = NoRow
  MaxCopies = 1
  ClaimsExpire = TRUE
  FaultKinds = {"claim", "api", "raise", "db", "kill", "pod", "redis", "remove"}
  MaxFaults = 1
\* Every score may be ready, or gone, with nobody asking.
CHECK_DEADLOCK FALSE
INVARIANTS NoScoreOverlooked
PROPERTIES ScoresBecomeReady
