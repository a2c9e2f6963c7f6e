\* One failed send is enough to leave a score nobody queues.
SPECIFICATION Spec
CONSTANTS
  Rows = {r1}
  Workers = {w1}
  Requests = {q1, q2}
  NoRow = NoRow
  MaxCopies = 2
  ClaimsExpire = TRUE
  FaultKinds = {"send"}
  MaxFaults = 1
\* Every score may be ready, or gone, with nobody asking.
CHECK_DEADLOCK FALSE
INVARIANTS NoScoreOverlooked
