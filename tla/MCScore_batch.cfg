\* Two scores: requests that prepare both in any order, sends that fail half way, a
\* calculation that raises.
SPECIFICATION Spec
CONSTANTS
  Rows = {r1, r2}
  Workers = {w1}
  Requests = {q1, q2}
  NoRow = NoRow
  MaxCopies = 1
  ClaimsExpire = TRUE
  FaultKinds = {"send", "mark", "raise"}
  MaxFaults = 1
SYMMETRY ScoreSymmetry
\* Every score may be ready, or gone, with nobody asking.
CHECK_DEADLOCK FALSE
INVARIANTS SentRowsExist RunningHasWorker
