-------------------------- MODULE ScanLedger_proofs --------------------------
(***************************************************************************)
(* Proofs that the scan lifecycle implements what the endpoints promise,   *)
(* ScanLedger, and that a checkout is private: for every set of attempts,  *)
(* branches, workers and volumes, every limit and any number of faults of  *)
(* the kinds that leave one copy of each message.                          *)
(***************************************************************************)
EXTENDS ScanLifecycle_proofs

-----------------------------------------------------------------------------
(***************************************************************************)
(* One copy of a message.                                                  *)
(***************************************************************************)

\* An attempt is about to be sent, or waits in the broker, or is held by one worker: a
\* message is in one place at a time.
OneCopy ==
    /\ \A v, w \in Workers : pc[v] \in Busy /\ pc[w] \in Busy /\ Job(v) = Job(w) => v = w
    /\ \A w \in Workers : pc[w] \in Busy => ~InBroker(Job(w))
    /\ \A w \in Workers : pc[w] \in Busy => publishing[Job(w)] # "sending"
    /\ \A m, n \in Messages : queue[m] > 0 /\ queue[n] > 0 /\ m.scan = n.scan => m = n
    /\ \A m \in Messages : queue[m] <= 1
    /\ \A m \in Messages : queue[m] > 0 => publishing[m.scan] # "sending"

CopyInv == AttemptInv /\ OneCopy

\* Whoever is at work after the step was at work for the same message before it.
SameHands == \A w \in Workers : pc'[w] \in Busy => pc[w] \in Busy /\ msg'[w] = msg[w]

NoNewSender ==
    \A a \in Attempts : publishing'[a] = "sending" => publishing[a] = "sending"

\* What a step does to the copies of the messages: nothing, or it loses some; ...
Quiet == SameHands /\ NoNewSender /\ \A m \in Messages : queue'[m] <= queue[m]

\* ... a request begins to send one ...
Begins(a) ==
    /\ SameHands
    /\ status[a] = "none" /\ queue' = queue
    /\ publishing' = [publishing EXCEPT ![a] = "sending"]

\* ... and has sent it; ...
Sends(a, m) ==
    /\ SameHands
    /\ publishing[a] = "sending" /\ m.scan = a
    /\ queue' = Put(queue, m)
    /\ NoNewSender /\ publishing'[a] # "sending"

\* ... a worker gives back the one it holds.
GivesBack(w, m) ==
    /\ SameHands
    /\ pc[w] \in Busy /\ pc'[w] \notin Busy /\ m.scan = Job(w)
    /\ queue' = Put(queue, m)
    /\ publishing' = publishing

MessageMove ==
    \/ Quiet
    \/ \E a \in Attempts : Begins(a)
    \/ \E a \in Attempts, m \in Messages : Sends(a, m)
    \/ \E w \in Workers, m \in Messages : Deliver(w, m) \/ GivesBack(w, m)

\* A retried claim gives its message back, or keeps it to end the attempt.
LEMMA RetryMoves ==
    ASSUME TypeOK, NEW w \in Workers, pc[w] \in Locking \cup {"asked"}, RetryClaim(w)
    PROVE  MessageMove
<1> USE DEF Busy, Locking, dbVars, redisVars, apiVars
<1>1. msg[w] \in Messages
    BY DEF TypeOK
<1>2. CASE msg[w].tries + 1 < ClaimAttempts
  <2> DEFINE m == [msg[w] EXCEPT !.tries = @ + 1]
  <2>1. m \in Messages /\ m.scan = Job(w)
    BY <1>1, <1>2, RetryType DEF Messages, Job
  <2>2. queue' = Put(queue, m) /\ pc' = [pc EXCEPT ![w] = "idle"]
    BY <1>2 DEF RetryClaim, Acknowledge
  <2>3. SameHands
    BY <1>2 DEF RetryClaim, Acknowledge, SameHands, TypeOK, Claimed, Scanning, Checked
  <2>4. GivesBack(w, m)
    BY <2>1, <2>2, <2>3 DEF RetryClaim, GivesBack, TypeOK, Claimed, Scanning, Checked
  <2> QED
    BY <2>1, <2>4 DEF MessageMove
<1>3. CASE ~(msg[w].tries + 1 < ClaimAttempts)
    BY <1>3 DEF RetryClaim, Goto, MessageMove, Quiet, SameHands, NoNewSender, TypeOK
<1> QED
    BY <1>2, <1>3

LEMMA MessageMoves ==
    ASSUME TypeOK, [Next]_vars, "redeliver" \notin FaultKinds
    PROVE  MessageMove
<1> USE DEF Busy, Locking, dbVars, redisVars, workerVars, apiVars
<1>1. CASE UNCHANGED vars
    BY <1>1 DEF vars, MessageMove, Quiet, SameHands, NoNewSender, TypeOK
<1>2. CASE StartRolledBack \/ Poll
    BY <1>2 DEF StartRolledBack, Poll, MessageMove, Quiet, SameHands, NoNewSender, TypeOK
<1>3. ASSUME NEW a \in Attempts, Start(a) PROVE MessageMove
    BY <1>3 DEF Start, MessageMove, Begins, SameHands
<1>4. ASSUME NEW a \in Attempts, Publish(a) \/ PublishRaises(a) PROVE MessageMove
  <2> DEFINE m == [scan |-> a, tries |-> 0]
  <2>1. m \in Messages /\ m.scan = a
    BY ConstantsAssumption DEF Messages
  <2>2. SameHands /\ NoNewSender /\ publishing'[a] # "sending" /\ publishing[a] = "sending"
    BY <1>4 DEF Publish, PublishRaises, SameHands, NoNewSender, TypeOK
  <2>3. CASE queue' = queue
    BY <2>2, <2>3 DEF MessageMove, Quiet, TypeOK
  <2>4. CASE queue' = Put(queue, m)
    BY <2>1, <2>2, <2>4 DEF MessageMove, Sends
  <2> QED
    BY <1>4, <2>3, <2>4 DEF Publish, PublishRaises
<1>5. ASSUME NEW a \in Attempts,
             \/ MarkError(a) \/ ApiDies(a) \/ StopAsked(a) \/ StopQueued(a) \/ StopFlagged(a)
             \/ Age(a) \/ MarkRunsOut(a) \/ GraceRunsOut(a)
      PROVE  MessageMove
  <2>1. queue' = queue /\ pc' = pc /\ msg' = msg
    BY <1>5 DEF MarkError, ApiDies, StopAsked, StopQueued, StopFlagged, Age, MarkRunsOut,
       GraceRunsOut
  <2>2. NoNewSender
    BY <1>5 DEF MarkError, ApiDies, StopAsked, StopQueued, StopFlagged, Age, MarkRunsOut,
       GraceRunsOut, NoNewSender, TypeOK
  <2> QED
    BY <2>1, <2>2 DEF MessageMove, Quiet, SameHands, TypeOK
<1>6. ASSUME NEW w \in Workers, NEW m \in Messages, Deliver(w, m) PROVE MessageMove
    BY <1>6 DEF MessageMove
<1>7. ASSUME NEW w \in Workers, WaitForSlot(w) PROVE MessageMove
  <2>1. msg[w] \in Messages /\ msg[w].scan = Job(w)
    BY <1>7 DEF WaitForSlot, TypeOK, Job
  <2>2. SameHands /\ pc[w] \in Busy /\ pc'[w] \notin Busy
    BY <1>7 DEF WaitForSlot, Acknowledge, SameHands, TypeOK, Claimed, Scanning, Checked
  <2>3. GivesBack(w, msg[w])
    BY <1>7, <2>1, <2>2 DEF WaitForSlot, GivesBack
  <2> QED
    BY <2>1, <2>3 DEF MessageMove
<1>8. ASSUME NEW w \in Workers, ClaimConflicts(w) \/ ClaimDbError(w) PROVE MessageMove
    BY <1>8, RetryMoves DEF ClaimConflicts, ClaimDbError
<1>9. ASSUME NEW w \in Workers, ClaimStep(w), ~WaitForSlot(w), ~ClaimConflicts(w),
             ~ClaimDbError(w), \A m \in Messages : ~Deliver(w, m)
      PROVE  MessageMove
  <2>1. queue' = queue /\ publishing' = publishing
    BY <1>9 DEF ClaimStep, ClaimRead, ClaimRefused, ClaimCount, Claim, StopWaiting, Quit,
       Abandon
  <2>2. SameHands
    BY <1>9 DEF ClaimStep, ClaimRead, ClaimRefused, ClaimCount, Claim, StopWaiting, Quit,
       Abandon, Goto, Acknowledge, SameHands, TypeOK, Claimed, Scanning, Checked
  <2> QED
    BY <2>1, <2>2 DEF MessageMove, Quiet, NoNewSender, TypeOK
<1>10. ASSUME NEW w \in Workers, ScanStep(w) PROVE MessageMove
  <2>1. queue' = queue /\ publishing' = publishing
    BY <1>10 DEF ScanStep, CancelSeen, CloneRepository, StageDone, StageFails, Finalize,
       Finish, LateTimeout, SetTerminal, SetTerminalFails, Cleanup
  <2>2. SameHands
    BY <1>10 DEF ScanStep, CancelSeen, CloneRepository, StageDone, StageFails, Finalize,
       Finish, LateTimeout, SetTerminal, SetTerminalFails, Cleanup, Goto, Acknowledge,
       SameHands, TypeOK, Claimed, Scanning, Checked
  <2> QED
    BY <2>1, <2>2 DEF MessageMove, Quiet, NoNewSender, TypeOK
<1>11. ASSUME NEW w \in Workers, ChildKilled(w) \/ WorkerStarts(w) PROVE MessageMove
    BY <1>11 DEF ChildKilled, WorkerStarts, Goto, Acknowledge, MessageMove, Quiet, SameHands,
       NoNewSender, TypeOK, Claimed, Scanning, Checked
<1>12. ASSUME NEW w \in Workers, WorkerLost(w) PROVE MessageMove
  <2>1. SameHands /\ pc'[w] \notin Busy
    BY <1>12 DEF WorkerLost, SameHands, TypeOK, Claimed, Scanning, Checked
  <2>2. CASE pc[w] \in Busy
    <3>1. msg[w] \in Messages /\ msg[w].scan = Job(w)
      BY <2>2 DEF TypeOK, Job
    <3>2. GivesBack(w, msg[w])
      BY <1>12, <2>1, <2>2, <3>1 DEF WorkerLost, GivesBack
    <3> QED
      BY <3>1, <3>2 DEF MessageMove
  <2>3. CASE pc[w] \notin Busy
    BY <1>12, <2>1, <2>3 DEF WorkerLost, MessageMove, Quiet, NoNewSender, TypeOK
  <2> QED
    BY <2>2, <2>3
<1>13. CASE RedisRestarts
    BY <1>13 DEF RedisRestarts, MessageMove, Quiet, SameHands, NoNewSender, TypeOK
<1>14. \A w \in Workers : ~Redeliver(w)
    BY DEF Redeliver, Fault
<1> QED
    BY <1>1, <1>2, <1>3, <1>4, <1>5, <1>6, <1>7, <1>8, <1>9, <1>10, <1>11, <1>12, <1>13,
       <1>14 DEF Next, ApiStep, Environment, ClaimStep

LEMMA CopyInit == Init => CopyInv
BY AttemptInit, NoMessageAssumption
DEF Init, CopyInv, OneCopy, Busy, Claimed, Scanning, Checked, Locking

LEMMA OneCopyStep ==
    ASSUME CopyInv, [Next]_vars, "redeliver" \notin FaultKinds
    PROVE  OneCopy'
<1> USE DEF CopyInv, OneCopy, InBroker, Job
<1>1. TypeOK /\ TypeOK'
    BY TypeStep DEF AttemptInv
<1>2. MessageMove
    BY <1>1, MessageMoves
<1>3. \A m \in Messages : m.scan \in Attempts
    BY DEF Messages
<1>4. \A w \in Workers : pc[w] \in Busy => msg[w] \in Messages
    BY <1>1 DEF TypeOK
<1>5. CASE Quiet
  <2>1. \A m \in Messages : queue'[m] > 0 => queue[m] > 0
    BY <1>1, <1>5 DEF Quiet, TypeOK
  <2>2. \A m \in Messages : queue'[m] <= 1
    BY <1>1, <1>5 DEF Quiet, TypeOK
  <2> QED
    BY <1>3, <1>4, <1>5, <2>1, <2>2 DEF Quiet, SameHands, NoNewSender
<1>6. ASSUME NEW a \in Attempts, Begins(a) PROVE OneCopy'
  <2>1. ~Mentioned(a)
    BY <1>6 DEF Begins, AttemptInv
  <2>2. \A o \in Attempts : publishing'[o] = "sending" => o = a \/ publishing[o] = "sending"
    BY <1>1, <1>6 DEF Begins, TypeOK
  <2>3. \A w \in Workers : pc[w] \in Busy => Job(w) # a
    BY <2>1 DEF Mentioned, Held
  <2>4. \A m \in Messages : queue[m] > 0 => m.scan # a
    BY <2>1 DEF Mentioned
  <2> QED
    BY <1>3, <1>4, <1>6, <2>2, <2>3, <2>4 DEF Begins, SameHands
<1>7. ASSUME NEW a \in Attempts, NEW m \in Messages, Sends(a, m) PROVE OneCopy'
  <2>1. \A w \in Workers : pc[w] \in Busy => Job(w) # a
    BY <1>7 DEF Sends
  <2>2. \A n \in Messages : queue[n] > 0 => n.scan # a
    BY <1>7 DEF Sends
  <2>3. queue[m] = 0
    BY <1>1, <1>7, <2>2 DEF Sends, TypeOK
  <2>4. \A n \in Messages : queue'[n] = IF n = m THEN 1 ELSE queue[n]
    BY <1>1, <1>7, <2>3 DEF Sends, Put, TypeOK
  <2> QED
    BY <1>1, <1>3, <1>4, <1>7, <2>1, <2>2, <2>4 DEF Sends, SameHands, NoNewSender, TypeOK
<1>8. ASSUME NEW w \in Workers, NEW m \in Messages, Deliver(w, m) PROVE OneCopy'
  <2>1. queue[m] = 1 /\ \A n \in Messages : n # m /\ queue[n] > 0 => n.scan # m.scan
    BY <1>1, <1>8 DEF Deliver, TypeOK
  <2>2. \A n \in Messages : queue'[n] = IF n = m THEN 0 ELSE queue[n]
    BY <1>1, <1>8, <2>1 DEF Deliver, Take, TypeOK
  <2>3. \A v \in Workers : pc[v] \in Busy => Job(v) # m.scan
    BY <2>1
  <2>4. publishing[m.scan] # "sending" /\ publishing' = publishing
    BY <2>1, <1>8 DEF Deliver, apiVars
  <2>5. \A v \in Workers \ {w} : pc'[v] = pc[v] /\ msg'[v] = msg[v]
    BY <1>8, <1>1 DEF Deliver, TypeOK
  <2>6. msg'[w] = m
    BY <1>8, <1>1 DEF Deliver, TypeOK
  <2>7. \A u, v \in Workers : pc'[u] \in Busy /\ pc'[v] \in Busy /\ Job(u)' = Job(v)' => u = v
    BY <2>3, <2>5, <2>6
  <2>8. \A v \in Workers : pc'[v] \in Busy => ~InBroker(Job(v))'
    BY <1>1, <2>1, <2>2, <2>5, <2>6 DEF TypeOK
  <2>9. \A v \in Workers : pc'[v] \in Busy => publishing'[Job(v)'] # "sending"
    BY <2>4, <2>5, <2>6
  <2>10. \A n \in Messages : queue'[n] <= 1 /\ (queue'[n] > 0 => n # m /\ queue[n] > 0)
    BY <2>2
  <2> QED
    BY <2>4, <2>7, <2>8, <2>9, <2>10
<1>9. ASSUME NEW w \in Workers, NEW m \in Messages, GivesBack(w, m) PROVE OneCopy'
  <2>1. \A n \in Messages : queue[n] > 0 => n.scan # m.scan
    BY <1>9 DEF GivesBack
  <2>2. queue[m] = 0
    BY <1>1, <2>1 DEF TypeOK
  <2>3. \A n \in Messages : queue'[n] = IF n = m THEN 1 ELSE queue[n]
    BY <1>1, <1>9, <2>2 DEF GivesBack, Put, TypeOK
  <2>4. \A v \in Workers \ {w} : pc[v] \in Busy => Job(v) # m.scan
    BY <1>9 DEF GivesBack
  <2>5. publishing[m.scan] # "sending" /\ publishing' = publishing
    BY <1>9 DEF GivesBack
  <2>6. \A v \in Workers : pc'[v] \in Busy =>
          v # w /\ pc[v] \in Busy /\ msg'[v] = msg[v] /\ Job(v) # m.scan
    BY <1>9, <2>4 DEF GivesBack, SameHands
  <2>7. \A n \in Messages : queue'[n] <= 1 /\ (queue'[n] > 0 => n = m \/ queue[n] > 0)
    BY <2>3
  <2>8. \A v \in Workers : pc'[v] \in Busy => ~InBroker(Job(v))'
    BY <1>4, <2>6, <2>7
  <2> QED
    BY <2>1, <2>5, <2>6, <2>7, <2>8
<1> QED
    BY <1>2, <1>5, <1>6, <1>7, <1>8, <1>9 DEF MessageMove

LEMMA CopyStep ==
    ASSUME "redeliver" \notin FaultKinds
    PROVE  CopyInv /\ [Next]_vars => CopyInv'
BY AttemptStep, OneCopyStep DEF CopyInv

-----------------------------------------------------------------------------
(***************************************************************************)
(* Clone directories.                                                      *)
(***************************************************************************)

CloneInv ==
    /\ CopyInv
    /\ \A w \in Workers : pc[w] \in ReadsClone => CloneOf(w) \in clones

\* A worker reads its clone because it has just made it, or went on reading it.
LEMMA ReadsMove ==
    ASSUME TypeOK, [Next]_vars, NEW w \in Workers, pc'[w] \in ReadsClone
    PROVE  /\ msg'[w] = msg[w] /\ pc[w] \in Busy
           /\ \/ CloneRepository(w) /\ CloneOf(w) \in clones'
              \/ pc[w] \in ReadsClone
<1> DEFINE Moved == /\ msg'[w] = msg[w] /\ pc[w] \in Busy
                    /\ \/ CloneRepository(w) /\ CloneOf(w) \in clones'
                       \/ pc[w] \in ReadsClone
<1> USE DEF ReadsClone, Busy, Claimed, Scanning, Checked, Locking, dbVars, redisVars,
        workerVars, apiVars
<1>1. CASE UNCHANGED vars
    BY <1>1 DEF vars
<1>2. CASE ApiStep
    BY <1>2 DEF ApiStep, StartRolledBack, Poll, Start, Publish, PublishRaises,
       MarkError, ApiDies, StopAsked, StopQueued, StopFlagged
<1>3. ASSUME NEW v \in Workers, ClaimStep(v) PROVE Moved
    BY <1>3 DEF TypeOK, ClaimStep, Deliver, ClaimRead, ClaimRefused, ClaimCount, Claim,
       WaitForSlot, StopWaiting, Quit, ClaimConflicts, ClaimDbError, RetryClaim, Abandon,
       Goto, Acknowledge
<1>4. ASSUME NEW v \in Workers, CloneRepository(v) PROVE Moved
    BY <1>4 DEF TypeOK, CloneRepository, Goto, NextStage
<1>5. ASSUME NEW v \in Workers, StageDone(v) PROVE Moved
    BY <1>5 DEF TypeOK, StageDone, Goto, NextStage
<1>6. ASSUME NEW v \in Workers, ScanStep(v), ~CloneRepository(v), ~StageDone(v) PROVE Moved
    BY <1>6 DEF TypeOK, ScanStep, CancelSeen, StageFails, Finalize, Finish, LateTimeout,
       SetTerminal, SetTerminalFails, Cleanup, Goto, Acknowledge
<1>7. CASE Environment
    BY <1>7 DEF TypeOK, Environment, RedisRestarts, Age, MarkRunsOut, GraceRunsOut,
       ChildKilled, WorkerLost, WorkerStarts, Redeliver, Goto, Acknowledge
<1> QED
    BY <1>1, <1>2, <1>3, <1>4, <1>5, <1>6, <1>7 DEF Next

\* A directory goes away by the cleanup of the worker whose it is, or by the sweep of a claim
\* that sees nobody at work for it.
LEMMA CloneRemoved ==
    ASSUME TypeOK, [Next]_vars, NEW d \in clones, d \notin clones'
    PROVE  \E v \in Workers : \/ Cleanup(v) /\ d = CloneOf(v)
                              \/ Claim(v) /\ d \in Abandoned(v)
<1> USE DEF dbVars, redisVars, workerVars, apiVars
<1>1. ~UNCHANGED vars
    BY DEF vars
<1>2. ~ApiStep
    BY DEF ApiStep, StartRolledBack, Poll, Start, Publish, PublishRaises,
       MarkError, ApiDies, StopAsked, StopQueued, StopFlagged
<1>3. ASSUME NEW v \in Workers, ClaimStep(v) PROVE Claim(v) /\ d \in Abandoned(v)
    BY <1>3 DEF ClaimStep, Deliver, ClaimRead, ClaimRefused, ClaimCount, Claim,
       WaitForSlot, StopWaiting, Quit, ClaimConflicts, ClaimDbError, RetryClaim, Abandon
<1>4. ASSUME NEW v \in Workers, ScanStep(v) PROVE Cleanup(v) /\ d = CloneOf(v)
    BY <1>4 DEF ScanStep, CancelSeen, CloneRepository, StageDone, StageFails, Finalize,
       Finish, LateTimeout, SetTerminal, SetTerminalFails, Cleanup
<1>5. ~Environment
    BY DEF Environment, RedisRestarts, Age, MarkRunsOut, GraceRunsOut, ChildKilled,
       WorkerLost, WorkerStarts, Redeliver
<1> QED
    BY <1>1, <1>2, <1>3, <1>4, <1>5 DEF Next

LEMMA CloneStep ==
    ASSUME "redeliver" \notin FaultKinds
    PROVE  CloneInv /\ [Next]_vars => CloneInv'
<1> SUFFICES ASSUME CloneInv, [Next]_vars PROVE CloneInv'
    OBVIOUS
<1>1. CopyInv' /\ TypeOK
    BY CopyStep DEF CloneInv, CopyInv, AttemptInv
<1>2. ASSUME NEW w \in Workers, pc'[w] \in ReadsClone PROVE CloneOf(w)' \in clones'
  <2>1. msg'[w] = msg[w] /\ pc[w] \in Busy /\ (CloneOf(w) \in clones' \/ pc[w] \in ReadsClone)
    BY <1>1, <1>2, ReadsMove
  <2>2. CloneOf(w)' = CloneOf(w)
    BY <2>1 DEF CloneOf, Job
  <2>3. CASE CloneOf(w) \in clones'
    BY <2>2, <2>3
  <2>4. CASE pc[w] \in ReadsClone /\ CloneOf(w) \notin clones'
    <3>1. PICK v \in Workers : \/ Cleanup(v) /\ CloneOf(w) = CloneOf(v)
                               \/ Claim(v) /\ CloneOf(w) \in Abandoned(v)
      BY <1>1, <2>4, CloneRemoved DEF CloneInv
    <3>2. v # w
      BY <2>4, <3>1 DEF Cleanup, Claim, ReadsClone
    <3>3. CASE Cleanup(v) /\ CloneOf(w) = CloneOf(v)
      <4>1. Job(w) = Job(v) /\ pc[v] \in Busy
        BY <3>3 DEF CloneOf, Cleanup, Busy, Claimed
      <4> QED
        BY <2>1, <3>2, <4>1 DEF CloneInv, CopyInv, OneCopy
    <3>4. CASE Claim(v) /\ CloneOf(w) \in Abandoned(v)
      BY <2>1, <3>2, <3>4 DEF Abandoned, CloneOf
    <3> QED
      BY <3>1, <3>3, <3>4
  <2> QED
    BY <2>1, <2>3, <2>4
<1> QED
    BY <1>1, <1>2 DEF CloneInv

\* A worker that reads its clone finds it there, and no other worker writes to or deletes the
\* same directory, however workers share volumes and whoever is killed: unless the broker
\* delivers a message while a worker still holds it (clone_at_commit, sweep, cleanup).
THEOREM CheckoutsArePrivate ==
    ASSUME "redeliver" \notin FaultKinds
    PROVE  Spec => []CheckoutIsPrivate
<1>1. Init => CloneInv
    BY CopyInit DEF CloneInv, Init, ReadsClone
<1>2. CloneInv => CheckoutIsPrivate
  <2> SUFFICES ASSUME CloneInv, NEW w \in Workers, pc[w] \in ReadsClone,
                      NEW o \in Workers \ {w}, pc[o] \in Scanning
               PROVE  CloneOf(o) # CloneOf(w)
      BY DEF CloneInv, CheckoutIsPrivate
  <2>1. Job(o) # Job(w)
    BY DEF CloneInv, CopyInv, OneCopy, Busy, Claimed, Scanning, Checked, ReadsClone
  <2> QED
    BY <2>1 DEF CloneOf
<1> QED
    BY <1>1, <1>2, CloneStep, PTL DEF Spec

-----------------------------------------------------------------------------
(***************************************************************************)
(* What a step does to a worker, to the marks of an attempt and to its row.*)
(***************************************************************************)

OwnStep(w) ==
    ClaimStep(w) \/ ScanStep(w) \/ ChildKilled(w) \/ WorkerLost(w) \/ WorkerStarts(w)

\* Only its own steps move a worker.
LEMMA WorkerUntouched ==
    ASSUME TypeOK, [Next]_vars, NEW w \in Workers, ~OwnStep(w)
    PROVE  pc'[w] = pc[w] /\ msg'[w] = msg[w] /\ seen'[w] = seen[w]
<1> DEFINE Same == pc'[w] = pc[w] /\ msg'[w] = msg[w] /\ seen'[w] = seen[w]
<1> USE DEF OwnStep, dbVars, redisVars, workerVars, apiVars
<1>1. CASE UNCHANGED vars
    BY <1>1 DEF vars
<1>2. CASE ApiStep
    BY <1>2 DEF ApiStep, StartRolledBack, Poll, Start, Publish, PublishRaises,
       MarkError, ApiDies, StopAsked, StopQueued, StopFlagged
<1>3. ASSUME NEW v \in Workers, ClaimStep(v) PROVE Same
  <2>1. v # w
    BY <1>3
  <2>2. CASE ClaimConflicts(v) \/ ClaimDbError(v)
    <3>1. RetryClaim(v)
      BY <2>2 DEF ClaimConflicts, ClaimDbError
    <3>2. CASE Acknowledge(v)
      BY <2>1, <3>1, <3>2 DEF TypeOK, RetryClaim, Acknowledge, ReleaseSeen
    <3>3. CASE Goto(v, "abandoning")
      BY <2>1, <3>1, <3>3 DEF TypeOK, RetryClaim, Goto, ReleaseSeen
    <3> QED
      BY <3>1, <3>2, <3>3 DEF RetryClaim
  <2>3. CASE ~(ClaimConflicts(v) \/ ClaimDbError(v))
    BY <1>3, <2>1, <2>3 DEF TypeOK, ClaimStep, Deliver, ClaimRead, ClaimRefused, ClaimCount,
       Claim, WaitForSlot, StopWaiting, Quit, Abandon, Goto, Acknowledge, ReleaseSeen
  <2> QED
    BY <2>2, <2>3
<1>4. ASSUME NEW v \in Workers, ScanStep(v) PROVE Same
    BY <1>4 DEF TypeOK, ScanStep, CancelSeen, CloneRepository, StageDone, StageFails,
       Finalize, Finish, LateTimeout, SetTerminal, SetTerminalFails, Cleanup,
       Goto, Acknowledge
<1>5. CASE Environment
    BY <1>5 DEF TypeOK, Environment, RedisRestarts, Age, MarkRunsOut, GraceRunsOut,
       ChildKilled, WorkerLost, WorkerStarts, Redeliver, Goto, Acknowledge, ReleaseSeen
<1> QED
    BY <1>1, <1>2, <1>3, <1>4, <1>5 DEF Next

\* A mark is dropped together with the grace key, or runs out where nobody holds the attempt.
LEMMA MarksChange ==
    ASSUME TypeOK, [Next]_vars, NEW a \in Attempts
    PROVE  \/ waiting'[a] # "no"
           \/ a \notin graced'
           \/ waiting'[a] = waiting[a] /\ a \in graced
           \/ MarkRunsOut(a)
<1> DEFINE Kept == \/ waiting'[a] # "no"
                   \/ a \notin graced'
                   \/ waiting'[a] = waiting[a] /\ a \in graced
                   \/ MarkRunsOut(a)
<1> USE DEF dbVars, redisVars, workerVars, apiVars
<1>1. CASE UNCHANGED vars
    BY <1>1 DEF vars
<1>2. CASE HealKeys /\ waiting' = HealedWaiting
    BY <1>2 DEF TypeOK, HealKeys, HealedWaiting
<1>3. ASSUME NEW o \in Attempts, Start(o) PROVE Kept
    BY <1>3 DEF TypeOK, Start, HealKeys, HealedWaiting
<1>4. ASSUME NEW o \in Attempts, ClearKeys({o}) PROVE Kept
    BY <1>4 DEF TypeOK, ClearKeys
<1>5. CASE ApiStep
    BY <1>2, <1>3, <1>4, <1>5 DEF ApiStep, StartRolledBack, Poll, Publish, PublishRaises,
       MarkError, ApiDies, StopAsked, StopQueued, StopFlagged
<1>6. ASSUME NEW w \in Workers, ClaimStep(w) \/ ScanStep(w) PROVE Kept
    BY <1>6 DEF TypeOK, ClaimStep, Deliver, ClaimRead, ClaimRefused, ClaimCount, Claim,
       WaitForSlot, StopWaiting, Quit, ClaimConflicts, ClaimDbError, RetryClaim, Abandon,
       ScanStep, CancelSeen, CloneRepository, StageDone, StageFails, Finalize, Finish,
       LateTimeout, SetTerminal, SetTerminalFails, Cleanup, ClearKeys
<1>7. CASE Environment
    BY <1>7 DEF TypeOK, Environment, RedisRestarts, Age, MarkRunsOut, GraceRunsOut,
       ChildKilled, WorkerLost, WorkerStarts, Redeliver, ClearKeys
<1> QED
    BY <1>1, <1>5, <1>6, <1>7 DEF Next

\* Who holds an attempt after a step held it before, or has just been handed it.
LEMMA HeldBefore ==
    ASSUME TypeOK, [Next]_vars, NEW w \in Workers, pc'[w] \in Busy
    PROVE  \/ pc[w] \in Busy /\ msg'[w] = msg[w]
           \/ \E m \in Messages : Deliver(w, m)
<1> DEFINE Held1 == \/ pc[w] \in Busy /\ msg'[w] = msg[w]
                    \/ \E m \in Messages : Deliver(w, m)
<1> USE DEF Busy, Claimed, Scanning, Checked, Locking, dbVars, redisVars, workerVars, apiVars
<1>1. CASE ~OwnStep(w)
    BY <1>1, WorkerUntouched
<1>2. CASE ClaimStep(w)
    BY <1>2 DEF TypeOK, ClaimStep, ClaimRead, ClaimRefused, ClaimCount, Claim,
       WaitForSlot, StopWaiting, Quit, ClaimConflicts, ClaimDbError, RetryClaim, Abandon,
       Goto, Acknowledge
<1>3. CASE ScanStep(w)
    BY <1>3 DEF TypeOK, ScanStep, CancelSeen, CloneRepository, StageDone, StageFails,
       Finalize, Finish, LateTimeout, SetTerminal, SetTerminalFails, Cleanup,
       Goto, Acknowledge
<1>4. CASE ChildKilled(w) \/ WorkerLost(w) \/ WorkerStarts(w)
    BY <1>4 DEF TypeOK, ChildKilled, WorkerLost, WorkerStarts, Goto, Acknowledge
<1> QED
    BY <1>1, <1>2, <1>3, <1>4 DEF OwnStep

WorkedOn(a) ==
    \E w \in Workers : pc[w] \in Busy /\ Job(w) = a /\ (ClaimStep(w) \/ ScanStep(w))

\* What may happen to the row of an attempt other than by the hand of who holds it.
LEMMA RowElsewhere ==
    ASSUME TypeOK, [Next]_vars, NEW a \in Attempts,
           status[a] # "none", publishing[a] # "raised", ~WorkedOn(a)
    PROVE  \/ status'[a] = status[a]
           \/ /\ status'[a] = "error" /\ a \in Running(stale)
              /\ SlotFree \/ \E w \in Workers : Claim(w)
           \/ status'[a] = "error" /\ a \in Lost
           \/ StopQueued(a) /\ status'[a] = "cancelled"
<1> DEFINE Goal == \/ status'[a] = status[a]
                   \/ /\ status'[a] = "error" /\ a \in Running(stale)
                      /\ SlotFree \/ \E w \in Workers : Claim(w)
                   \/ status'[a] = "error" /\ a \in Lost
                   \/ StopQueued(a) /\ status'[a] = "cancelled"
<1> USE DEF dbVars, redisVars, workerVars, apiVars
<1>1. CASE UNCHANGED vars
    BY <1>1 DEF vars
<1>2. CASE StartRolledBack \/ Poll
    BY <1>2 DEF TypeOK, StartRolledBack, Poll, HealedStatus, Expired, Tidying, Running
<1>3. ASSUME NEW o \in Attempts, Start(o) PROVE Goal
  <2>1. o # a
    BY <1>3 DEF Start
  <2> QED
    BY <1>3, <2>1 DEF TypeOK, Start, HealedStatus, Expired, Tidying, Running
<1>4. ASSUME NEW o \in Attempts, StopQueued(o) PROVE Goal
    BY <1>4 DEF TypeOK, StopQueued
<1>5. ASSUME NEW o \in Attempts, MarkError(o) PROVE Goal
    BY <1>5 DEF TypeOK, MarkError
<1>6. ASSUME NEW o \in Attempts,
             \/ Publish(o) \/ PublishRaises(o) \/ ApiDies(o) \/ StopAsked(o) \/ StopFlagged(o)
      PROVE  Goal
    BY <1>6 DEF Publish, PublishRaises, ApiDies, StopAsked, StopFlagged
<1>7. ASSUME NEW w \in Workers, Claim(w) PROVE Goal
  <2>1. Job(w) # a
    BY <1>7 DEF WorkedOn, ClaimStep, Claim, Busy, Locking
  <2> QED
    BY <1>7, <2>1 DEF TypeOK, Claim, Running
<1>8. ASSUME NEW w \in Workers, ClaimStep(w), ~Claim(w) PROVE Goal
  <2>1. CASE Quit(w) \/ Abandon(w)
    <3>1. Job(w) # a
      BY <1>8, <2>1 DEF WorkedOn, Quit, Abandon, Busy
    <3> QED
      BY <2>1, <3>1 DEF TypeOK, Quit, Abandon
  <2> QED
    BY <1>8, <2>1 DEF ClaimStep, Deliver, ClaimRead, ClaimRefused, ClaimCount, WaitForSlot,
       StopWaiting, ClaimConflicts, ClaimDbError, RetryClaim
<1>9. ASSUME NEW w \in Workers, ScanStep(w) PROVE Goal
  <2>1. CASE Finalize(w) \/ SetTerminal(w)
    <3>1. Job(w) # a
      BY <1>9, <2>1 DEF WorkedOn, Finalize, SetTerminal, Busy, Claimed, Scanning
    <3> QED
      BY <2>1, <3>1 DEF TypeOK, Finalize, SetTerminal
  <2> QED
    BY <1>9, <2>1 DEF ScanStep, CancelSeen, CloneRepository, StageDone, StageFails, Finish,
       LateTimeout, SetTerminalFails, Cleanup
<1>10. CASE Environment
    BY <1>10 DEF Environment, RedisRestarts, Age, MarkRunsOut, GraceRunsOut, ChildKilled,
       WorkerLost, WorkerStarts, Redeliver
<1> QED
    BY <1>1, <1>2, <1>3, <1>4, <1>5, <1>6, <1>7, <1>8, <1>9, <1>10 DEF Next, ApiStep

\* An attempt grows too old where nobody works on it, and is young again by a claim of it.
LEMMA StaleChanges ==
    ASSUME TypeOK, [Next]_vars, NEW a \in Attempts
    PROVE  (a \in stale' <=> a \in stale) \/ Age(a) \/ Runs(a)
<1> USE DEF dbVars, redisVars, workerVars, apiVars
<1>1. CASE UNCHANGED vars
    BY <1>1 DEF vars
<1>2. CASE ApiStep
    BY <1>2 DEF ApiStep, StartRolledBack, Poll, Start, Publish, PublishRaises,
       MarkError, ApiDies, StopAsked, StopQueued, StopFlagged
<1>3. ASSUME NEW w \in Workers, ClaimStep(w) \/ ScanStep(w)
      PROVE  (a \in stale' <=> a \in stale) \/ Runs(a)
    BY <1>3 DEF ClaimStep, Deliver, ClaimRead, ClaimRefused, ClaimCount, Claim, Runs,
       WaitForSlot, StopWaiting, Quit, ClaimConflicts, ClaimDbError, RetryClaim, Abandon,
       ScanStep, CancelSeen, CloneRepository, StageDone, StageFails, Finalize, Finish,
       LateTimeout, SetTerminal, SetTerminalFails, Cleanup
<1>4. CASE Environment
    BY <1>4 DEF Environment, RedisRestarts, Age, MarkRunsOut, GraceRunsOut, ChildKilled,
       WorkerLost, WorkerStarts, Redeliver
<1> QED
    BY <1>1, <1>2, <1>3, <1>4 DEF Next

\* A completion time is written with an ending.
LEMMA EndedAdded ==
    ASSUME TypeOK, [Next]_vars, NEW a \in Attempts, a \in ended', a \notin ended
    PROVE  status'[a] \in Terminal
<1> USE DEF Terminal, dbVars, redisVars, workerVars, apiVars
<1>1. ~UNCHANGED vars
    BY DEF vars
<1>2. CASE Poll
    BY <1>2 DEF TypeOK, Poll, HealedStatus
<1>3. ASSUME NEW o \in Attempts, Start(o) PROVE status'[a] \in Terminal
    BY <1>3 DEF TypeOK, Start, HealedStatus, Expired, Lost, Unmarked, Queued, Running
<1>4. ASSUME NEW o \in Attempts, StopQueued(o) PROVE status'[a] \in Terminal
    BY <1>4 DEF TypeOK, StopQueued
<1>5. CASE StartRolledBack
    BY <1>5 DEF StartRolledBack
<1>6. ASSUME NEW o \in Attempts,
             \/ Publish(o) \/ PublishRaises(o) \/ MarkError(o) \/ ApiDies(o) \/ StopAsked(o)
             \/ StopFlagged(o)
      PROVE  FALSE
    BY <1>6 DEF Publish, PublishRaises, MarkError, ApiDies, StopAsked, StopFlagged
<1>7. ASSUME NEW w \in Workers, Claim(w) PROVE status'[a] \in Terminal
    BY <1>7 DEF TypeOK, Claim, Conflicts
<1>8. ASSUME NEW w \in Workers, ClaimStep(w), ~Claim(w) PROVE status'[a] \in Terminal
    BY <1>8 DEF TypeOK, ClaimStep, Deliver, ClaimRead, ClaimRefused, ClaimCount, WaitForSlot,
       StopWaiting, Quit, ClaimConflicts, ClaimDbError, RetryClaim, Abandon
<1>9. ASSUME NEW w \in Workers, ScanStep(w) PROVE status'[a] \in Terminal
    BY <1>9 DEF TypeOK, ScanStep, CancelSeen, CloneRepository, StageDone, StageFails,
       Finalize, Finish, LateTimeout, SetTerminal, Ending, SetTerminalFails, Cleanup
<1>10. ~Environment
    BY DEF Environment, RedisRestarts, Age, MarkRunsOut, GraceRunsOut, ChildKilled,
       WorkerLost, WorkerStarts, Redeliver
<1> QED
    BY <1>1, <1>2, <1>3, <1>4, <1>5, <1>6, <1>7, <1>8, <1>9, <1>10 DEF Next, ApiStep

-----------------------------------------------------------------------------
(***************************************************************************)
(* The row of an attempt and where its worker is.                          *)
(***************************************************************************)

\* No message is delivered twice or uses up its claims, publishing does not raise, and no time
\* limit strikes after the commit.  Workers may still be killed or lost, Redis and the API
\* restart, and endings fail to be written, any number of times.
LedgerFaults == FaultKinds \cap {"redeliver", "claim", "publish", "limit"} = {}

\* Once a scan is claimed its row says running until its own worker ends it; before that the
\* row can only be stopped, or expired where the claim met a scan that had grown too old.
RowOf(w) ==
    LET a == Job(w)
    IN  /\ pc[w] \in Locking => status[a] = seen[w] /\ seen[w] \in Active
        /\ pc[w] \in {"waiting", "quitting"} => status[a] \in {"queued", "cancelled"}
        /\ pc[w] = "abandoning" =>
              status[a] = "error" \/ (status[a] = "running" /\ a \in stale)
        /\ pc[w] \in Checked \cup {"finalizing", "cancelling", "failing"} =>
              status[a] = "running" /\ a \notin stale

\* A held attempt is never taken for lost.
HeldIsMarked ==
    \A w \in Workers : pc[w] \in Busy => waiting[Job(w)] # "no" \/ Job(w) \notin graced

LedgerInv ==
    /\ LimitInv /\ EndedInv /\ OneCopy
    /\ \A w \in Workers : RowOf(w)
    /\ HeldIsMarked
    /\ \A a \in snapshots : status[a] = "done"
    /\ \A a \in ended : status[a] \in Terminal

LEMMA HeldMarkedStep ==
    ASSUME TypeOK, [Next]_vars, HeldIsMarked
    PROVE  HeldIsMarked'
<1> SUFFICES ASSUME NEW w \in Workers, pc'[w] \in Busy
             PROVE  waiting'[Job(w)'] # "no" \/ Job(w)' \notin graced'
    BY DEF HeldIsMarked
<1>1. CASE pc[w] \in Busy /\ msg'[w] = msg[w]
  <2>1. Job(w)' = Job(w) /\ Job(w) \in Attempts /\ Held(Job(w))
    BY <1>1, JobType DEF Job, Held
  <2>2. ~MarkRunsOut(Job(w))
    BY <2>1 DEF MarkRunsOut
  <2> QED
    BY <1>1, <2>1, <2>2, MarksChange DEF HeldIsMarked
<1>2. ASSUME NEW m \in Messages, Deliver(w, m)
      PROVE  waiting'[Job(w)'] # "no"
    BY <1>2 DEF Deliver, TypeOK, Job, Messages
<1> QED
    BY <1>1, <1>2, HeldBefore

\* The row of the scan of a worker that does not move.
LEMMA RowUntouched ==
    ASSUME LedgerInv, [Next]_vars, NEW w \in Workers, ~OwnStep(w)
    PROVE  RowOf(w)'
<1> DEFINE a == Job(w)
<1>1. TypeOK
    BY DEF LedgerInv, LimitInv
<1>2. pc'[w] = pc[w] /\ msg'[w] = msg[w] /\ seen'[w] = seen[w] /\ Job(w)' = a
    BY <1>1, WorkerUntouched DEF Job
<1> SUFFICES ASSUME pc[w] \in Busy PROVE RowOf(w)'
    BY <1>2 DEF RowOf, Busy, Claimed, Scanning
<1>3. a \in Attempts /\ status[a] # "none" /\ publishing[a] # "raised" /\ Held(a)
  <2>1. a \in Attempts /\ Held(a)
    BY <1>1, JobType DEF Held
  <2> QED
    BY <2>1 DEF LedgerInv, EndedInv, AttemptInv, Mentioned
<1>4. \A v \in Workers : pc[v] \in Busy /\ Job(v) = a => v = w
    BY DEF LedgerInv, OneCopy
<1>5. ~WorkedOn(a) /\ ~Runs(a)
    BY <1>4 DEF WorkedOn, Runs, OwnStep, ClaimStep, Claim, Busy, Locking
<1>6. a \notin Lost
    BY DEF LedgerInv, HeldIsMarked, Lost, Unmarked
<1>7. \/ status'[a] = status[a]
      \/ /\ status'[a] = "error" /\ a \in Running(stale)
         /\ SlotFree \/ \E v \in Workers : Claim(v)
      \/ StopQueued(a) /\ status'[a] = "cancelled"
    BY <1>1, <1>3, <1>5, <1>6, RowElsewhere
<1>8. (a \in stale' <=> a \in stale) \/ Age(a)
    BY <1>1, <1>3, <1>5, StaleChanges
<1>9. RowOf(w)
    BY DEF LedgerInv
<1>10. CASE pc[w] \in Locking
  <2>1. ~SlotFree /\ \A v \in Workers : ~Claim(v)
    <3>1. \A v \in Workers : Claim(v) => v = w
      BY <1>10 DEF LedgerInv, LimitInv, OneClaims, Claim, Locking
    <3> QED
      BY <1>10, <3>1 DEF SlotFree, OwnStep, ClaimStep
  <2>2. status'[a] = status[a]
    BY <1>7, <2>1 DEF StopQueued
  <2> QED
    BY <1>2, <1>9, <1>10, <2>2 DEF RowOf, Locking, Checked
<1>11. CASE pc[w] \in {"waiting", "quitting"}
    BY <1>2, <1>7, <1>9, <1>11 DEF RowOf, Running, Locking, Checked
<1>12. CASE pc[w] = "abandoning"
  <2>1. status'[a] = "error" \/ (status'[a] = "running" /\ a \in stale)
    BY <1>7, <1>9, <1>12 DEF RowOf, StopQueued
  <2>2. a \in stale => a \in stale'
    BY <1>8 DEF Age
  <2> QED
    BY <1>2, <1>12, <2>1, <2>2 DEF RowOf, Locking, Checked
<1>13. CASE pc[w] \in Checked \cup {"finalizing", "cancelling", "failing"}
  <2>1. status'[a] = "running"
    BY <1>7, <1>9, <1>13 DEF RowOf, Running, StopQueued
  <2>2. ~Age(a)
    BY <1>13 DEF Age, Claimed, Scanning
  <2>3. a \notin stale'
    BY <1>8, <1>9, <1>13, <2>2 DEF RowOf
  <2> QED
    BY <1>2, <1>13, <2>1, <2>3 DEF RowOf, Locking, Checked
<1>14. CASE pc[w] \notin Locking \cup {"waiting", "quitting", "abandoning", "finalizing",
                                     "cancelling", "failing"} \cup Checked
    BY <1>2, <1>14 DEF RowOf
<1> QED
    BY <1>10, <1>11, <1>12, <1>13, <1>14

\* The workspace is only full for a scan that is queued: one that runs has its own slot.
LEMMA BusyMeansQueued ==
    ASSUME LimitInv, NEW a \in Attempts, status[a] \in Active,
           Cardinality(OthersRunning(a)) >= MaxRunning
    PROVE  status[a] = "queued"
<1> SUFFICES ASSUME status[a] = "running" PROVE FALSE
    BY DEF Active
<1>1. IsFiniteSet(Running(Attempts)) /\ IsFiniteSet(OthersRunning(a) \cup {a})
  <2>1. Running(Attempts) \subseteq Attempts /\ OthersRunning(a) \cup {a} \subseteq Attempts
    BY DEF Running, OthersRunning
  <2> QED
    BY <2>1, ConstantsAssumption, FS_Subset
<1>2. OthersRunning(a) \cup {a} \subseteq Running(Attempts) /\ a \notin OthersRunning(a)
    BY DEF Running, OthersRunning
<1>3. IsFiniteSet(OthersRunning(a))
    BY <1>1, FS_Subset
<1>4. Cardinality(OthersRunning(a) \cup {a}) = Cardinality(OthersRunning(a)) + 1
    BY <1>2, <1>3, FS_AddElement
<1>5. Cardinality(OthersRunning(a) \cup {a}) <= Cardinality(Running(Attempts))
    BY <1>1, <1>2, FS_Subset
<1>6. Cardinality(OthersRunning(a)) \in Nat /\ Cardinality(Running(Attempts)) \in Nat
    BY <1>1, <1>3, FS_CardinalityType
<1> QED
    BY <1>4, <1>5, <1>6, ConstantsAssumption DEF LimitInv, RunningWithinLimit

\* The row of the scan of a worker that takes a step.
LEMMA RowMoved ==
    ASSUME LedgerInv, LedgerFaults, [Next]_vars, NEW w \in Workers, OwnStep(w)
    PROVE  RowOf(w)'
<1> DEFINE a == Job(w)
<1> USE DEF dbVars, redisVars, workerVars, apiVars
<1>1. TypeOK /\ LimitInv /\ RowOf(w)
    BY DEF LedgerInv, LimitInv
<1>2. pc[w] \in Busy => a \in Attempts /\ msg[w] \in Messages
    BY <1>1, JobType
<1>3. ASSUME pc'[w] \in {"idle", "down", "asked", "finishing", "cleanup"}
      PROVE  RowOf(w)'
    BY <1>3 DEF RowOf, Locking, Checked
<1>4. CASE ClaimRead(w)
  <2>1. pc'[w] = "claiming" /\ Job(w)' = a /\ seen'[w] = status[a] /\ status[a] \in Active
    BY <1>1, <1>4 DEF ClaimRead, Goto, TypeOK, Job
  <2>2. status' = status
    BY <1>4 DEF ClaimRead
  <2> QED
    BY <2>1, <2>2 DEF RowOf, Locking, Checked
<1>5. CASE ClaimCount(w)
  <2>1. Job(w)' = a /\ status' = status /\ status[a] = seen[w] /\ seen[w] \in Active
    BY <1>1, <1>5 DEF ClaimCount, Goto, Job, RowOf, Locking
  <2>2. CASE SlotBusy(w)
    <3>1. pc'[w] = "waiting"
      BY <1>1, <1>5, <2>2 DEF ClaimCount, Goto, TypeOK
    <3>2. status[a] = "queued"
      BY <1>1, <1>2, <1>5, <2>1, <2>2, BusyMeansQueued DEF SlotBusy, ClaimCount, Busy, Locking
    <3> QED
      BY <2>1, <3>1, <3>2 DEF RowOf, Locking, Checked
  <2>3. CASE ~SlotBusy(w)
    <3>1. pc'[w] = "counted" /\ seen' = seen
      BY <1>1, <1>5, <2>3 DEF ClaimCount, Goto, TypeOK
    <3> QED
      BY <2>1, <3>1 DEF RowOf, Locking, Checked
  <2> QED
    BY <2>2, <2>3
<1>6. CASE Claim(w)
  <2>1. pc'[w] = "cloning" /\ Job(w)' = a /\ a \notin stale'
    BY <1>1, <1>6 DEF Claim, Goto, TypeOK, Job
  <2>2. status[a] = seen[w] /\ seen[w] \in Active /\ a \notin Running(stale) /\ a \in Attempts
    BY <1>1, <1>2, <1>6 DEF Claim, Conflicts, RowOf, Locking, Busy
  <2>3. status'[a] = "running"
    BY <1>6, <2>2 DEF Claim, Active
  <2> QED
    BY <2>1, <2>3 DEF RowOf, Locking, Checked
<1>7. CASE StopWaiting(w)
    BY <1>1, <1>7 DEF StopWaiting, Goto, TypeOK, RowOf, Job, Locking, Checked
<1>8. CASE ClaimConflicts(w)
  <2>1. CASE Acknowledge(w)
    BY <1>1, <1>3, <2>1 DEF Acknowledge, TypeOK
  <2>2. CASE Goto(w, "abandoning") /\ status' = status /\ stale' = stale
    <3>1. status[a] \in Active /\ Conflicts(a)
      BY <1>1, <1>8 DEF ClaimConflicts, RowOf, Locking
    <3>2. a \notin ended
      BY <3>1 DEF LedgerInv, Active, Terminal
    <3>3. status[a] = "running" /\ a \in stale
      BY <3>1, <3>2 DEF Conflicts, Running
    <3>4. pc'[w] = "abandoning" /\ Job(w)' = a
      BY <1>1, <2>2 DEF Goto, TypeOK, Job
    <3> QED
      BY <2>2, <3>3, <3>4 DEF RowOf, Locking, Checked
  <2> QED
    BY <1>8, <2>1, <2>2 DEF ClaimConflicts, RetryClaim
<1>9. ~ClaimDbError(w) /\ ~LateTimeout(w)
    BY DEF ClaimDbError, LateTimeout, Fault, LedgerFaults
<1>10. CASE \/ \E m \in Messages : Deliver(w, m)
            \/ ClaimRefused(w) \/ WaitForSlot(w) \/ Quit(w) \/ Abandon(w)
            \/ ChildKilled(w) \/ WorkerLost(w) \/ WorkerStarts(w)
  <2>1. pc'[w] \in {"idle", "down", "asked"}
    BY <1>1, <1>10 DEF Deliver, ClaimRefused, WaitForSlot, Quit, Abandon, ChildKilled,
       WorkerLost, WorkerStarts, Goto, Acknowledge, TypeOK
  <2> QED
    BY <1>3, <2>1
<1>11. CASE ScanStep(w)
  <2>1. CASE \/ CancelSeen(w) \/ CloneRepository(w) \/ StageDone(w) \/ StageFails(w)
    <3>1. pc[w] \in Checked \cup {"finalizing"} /\ status' = status /\ stale' = stale
      BY <2>1 DEF CancelSeen, CloneRepository, StageDone, StageFails, Checked
    <3>2. Job(w)' = a
      BY <2>1 DEF CancelSeen, CloneRepository, StageDone, StageFails, Goto, Job
    <3>3. pc'[w] \in Checked \cup {"finalizing", "cancelling", "failing"}
      BY <1>1, <2>1 DEF CancelSeen, CloneRepository, StageDone, StageFails, Goto, NextStage,
         Checked, TypeOK
    <3> QED
      BY <1>1, <3>1, <3>2, <3>3 DEF RowOf, Locking, Checked
  <2>2. CASE Finalize(w)
    <3>1. a \notin snapshots
      BY <1>1, <2>2 DEF LedgerInv, RowOf, Finalize
    <3>2. pc'[w] = "finishing"
      BY <1>1, <2>2, <3>1 DEF Finalize, Goto, TypeOK
    <3> QED
      BY <1>3, <3>2
  <2>3. CASE Finish(w) \/ SetTerminal(w) \/ SetTerminalFails(w) \/ Cleanup(w)
    <3>1. pc'[w] \in {"cleanup", "idle"}
      BY <1>1, <2>3 DEF Finish, SetTerminal, SetTerminalFails, Cleanup, Goto, Acknowledge,
         TypeOK
    <3> QED
      BY <1>3, <3>1
  <2> QED
    BY <1>9, <1>11, <2>1, <2>2, <2>3 DEF ScanStep
<1> QED
    BY <1>4, <1>5, <1>6, <1>7, <1>8, <1>9, <1>10, <1>11 DEF OwnStep, ClaimStep

\* A result stays with a row that says done.
LEMMA ResultKept ==
    ASSUME LedgerInv, LedgerFaults, [Next]_vars, NEW a \in snapshots'
    PROVE  status'[a] = "done"
<1>1. TypeOK /\ LimitInv
    BY DEF LedgerInv, LimitInv
<1> USE DEF dbVars, redisVars, workerVars, apiVars
<1>2. CASE a \in snapshots
  <2>1. a \in Attempts /\ status[a] = "done" /\ publishing[a] # "raised"
    BY <1>1, <1>2 DEF LedgerInv, EndedInv, TypeOK
  <2>2. CASE ~WorkedOn(a)
    BY <1>1, <2>1, <2>2, RowElsewhere DEF Running, Lost, Unmarked, Queued, StopQueued
  <2>3. ASSUME NEW w \in Workers, pc[w] \in Busy, Job(w) = a, ClaimStep(w) \/ ScanStep(w)
        PROVE  status'[a] = "done"
    <3>1. RowOf(w)
      BY DEF LedgerInv
    <3>2. ~Claim(w) /\ ~Quit(w) /\ ~Abandon(w) /\ ~Finalize(w) /\ ~SetTerminal(w)
      BY <2>1, <2>3, <3>1 DEF RowOf, Claim, Quit, Abandon, Finalize, SetTerminal, Active,
         Locking
    <3>3. status' = status
      BY <2>3, <3>2 DEF ClaimStep, Deliver, ClaimRead, ClaimRefused, ClaimCount, WaitForSlot,
         StopWaiting, ClaimConflicts, ClaimDbError, RetryClaim, ScanStep, CancelSeen,
         CloneRepository, StageDone, StageFails, Finish, LateTimeout, SetTerminalFails, Cleanup
    <3> QED
      BY <2>1, <3>3
  <2> QED
    BY <2>2, <2>3 DEF WorkedOn
<1>3. CASE a \notin snapshots
  <2>1. \E w \in Workers : Finalize(w) /\ Job(w) = a
    <3>1. ~UNCHANGED vars
      BY <1>3 DEF vars
    <3>2. ~ApiStep /\ ~Environment
      BY <1>3 DEF ApiStep, StartRolledBack, Poll, Start, Publish, PublishRaises,
         MarkError, ApiDies, StopAsked, StopQueued, StopFlagged,
         Environment, RedisRestarts, Age, MarkRunsOut, GraceRunsOut, ChildKilled,
         WorkerLost, WorkerStarts, Redeliver
    <3>3. ASSUME NEW w \in Workers, ClaimStep(w) PROVE FALSE
      BY <1>3, <3>3 DEF ClaimStep, Deliver, ClaimRead, ClaimRefused, ClaimCount, Claim,
         WaitForSlot, StopWaiting, Quit, ClaimConflicts, ClaimDbError, RetryClaim, Abandon
    <3>4. ASSUME NEW w \in Workers, ScanStep(w) PROVE Finalize(w) /\ Job(w) = a
      BY <1>3, <3>4 DEF ScanStep, CancelSeen, CloneRepository, StageDone, StageFails,
         Finalize, Finish, LateTimeout, SetTerminal, SetTerminalFails, Cleanup
    <3> QED
      BY <3>1, <3>2, <3>3, <3>4 DEF Next
  <2>2. PICK w \in Workers : Finalize(w) /\ Job(w) = a
    BY <2>1
  <2>3. a \in Attempts
    BY <1>1, <2>2, JobType DEF Finalize, Busy, Claimed, Scanning
  <2> QED
    BY <1>1, <1>3, <2>2, <2>3 DEF Finalize, TypeOK
<1> QED
    BY <1>2, <1>3

LEMMA LedgerInit == Init => LedgerInv
<1>1. Init => LimitInv /\ EndedInv /\ OneCopy
    BY LimitInit, EndedInit, CopyInit DEF CopyInv
<1> QED
    BY <1>1 DEF Init, LedgerInv, RowOf, HeldIsMarked, Busy, Claimed, Scanning, Checked, Locking

LEMMA LedgerStep ==
    ASSUME LedgerFaults
    PROVE  LedgerInv /\ [Next]_vars => LedgerInv'
<1> SUFFICES ASSUME LedgerInv, [Next]_vars PROVE LedgerInv'
    OBVIOUS
<1>1. "publish" \notin FaultKinds /\ "redeliver" \notin FaultKinds
    BY DEF LedgerFaults
<1>2. LimitInv' /\ EndedInv'
    BY <1>1, LimitStep, EndedStep DEF LedgerInv
<1>3. TypeOK /\ TypeOK' /\ CopyInv
    BY <1>2 DEF LedgerInv, LimitInv, EndedInv, CopyInv
<1>4. OneCopy'
    BY <1>1, <1>3, CopyStep DEF CopyInv
<1>5. \A w \in Workers : RowOf(w)'
    BY RowUntouched, RowMoved
<1>6. HeldIsMarked'
    BY <1>3, HeldMarkedStep DEF LedgerInv
<1>7. \A a \in snapshots' : status'[a] = "done"
    BY ResultKept
<1>8. ASSUME NEW a \in ended' PROVE status'[a] \in Terminal
  <2>1. a \in Attempts
    BY <1>3 DEF TypeOK
  <2>2. CASE a \in ended
    <3>1. status[a] \in Terminal /\ EndedInv
      BY <2>2 DEF LedgerInv
    <3>2. ~Runs(a)
      BY <2>1, <3>1, OnlyTheActiveRun DEF Active, Terminal
    <3> QED
      BY <1>3, <2>1, <3>1, <3>2, StatusChanges DEF StatusStep, Start, Ends, Terminal
  <2>3. CASE a \notin ended
    BY <1>3, <2>1, <2>3, EndedAdded
  <2> QED
    BY <2>2, <2>3
<1> QED
    BY <1>2, <1>4, <1>5, <1>6, <1>7, <1>8 DEF LedgerInv

\* A failed or stopped scan leaves no result behind (_finalize, _set_terminal).
THEOREM NoResultOfAFailure ==
    ASSUME LedgerFaults
    PROVE  Spec => []FailedScanLeavesNoResult
<1>1. LedgerInv => FailedScanLeavesNoResult
    BY DEF LedgerInv, FailedScanLeavesNoResult
<1> QED
    BY <1>1, LedgerInit, LedgerStep, PTL DEF Spec

\* How an attempt ended is never written over.
LEMMA EndingKept ==
    ASSUME LedgerInv, LedgerFaults, [Next]_vars, NEW a \in Attempts, status[a] \in Terminal
    PROVE  status'[a] = status[a]
<1>1. TypeOK /\ LimitInv /\ publishing[a] # "raised"
    BY DEF LedgerInv, LimitInv, EndedInv
<1>2. CASE ~WorkedOn(a)
    BY <1>1, <1>2, RowElsewhere DEF Running, Lost, Unmarked, Queued, StopQueued, Terminal
<1>3. ASSUME NEW w \in Workers, pc[w] \in Busy, Job(w) = a, ClaimStep(w) \/ ScanStep(w)
      PROVE  status'[a] = status[a]
  <2>1. RowOf(w)
    BY DEF LedgerInv
  <2>2. CASE Quit(w)
    BY <1>1, <1>3, <2>1, <2>2 DEF Quit, RowOf, Terminal, TypeOK, dbVars
  <2>3. CASE Abandon(w)
    BY <1>1, <1>3, <2>1, <2>3 DEF Abandon, RowOf, Terminal, TypeOK, dbVars
  <2>4. ~Claim(w) /\ ~Finalize(w) /\ ~SetTerminal(w)
    BY <1>3, <2>1 DEF RowOf, Claim, Finalize, SetTerminal, Active, Terminal, Locking
  <2>5. CASE ~Quit(w) /\ ~Abandon(w)
    BY <1>3, <2>4, <2>5 DEF ClaimStep, Deliver, ClaimRead, ClaimRefused, ClaimCount,
       WaitForSlot, StopWaiting, ClaimConflicts, ClaimDbError, RetryClaim, ScanStep,
       CancelSeen, CloneRepository, StageDone, StageFails, Finish, LateTimeout,
       SetTerminalFails, Cleanup, dbVars
  <2> QED
    BY <2>2, <2>3, <2>5
<1> QED
    BY <1>2, <1>3 DEF WorkedOn

\* The way an attempt ended is final, and so is its result, in whatever order workers,
\* requests and faults come (_set_terminal, expire_stale_running, cancel_queued).
THEOREM EndingsAreFinal ==
    ASSUME LedgerFaults
    PROVE  Spec => EndingIsFinal
<1>1. LedgerInv /\ [Next]_vars =>
        /\ snapshots \subseteq snapshots'
        /\ \A a \in Attempts : status[a] \in Terminal => status'[a] = status[a]
    BY EndingKept, SnapshotsStay
<1> QED
    BY <1>1, LedgerInit, LedgerStep, PTL DEF Spec, EndingIsFinal

-----------------------------------------------------------------------------
(***************************************************************************)
(* The refinement: every step is a step of the ledger, or none.            *)
(***************************************************************************)

Fails(failed) ==
    status' = [o \in Attempts |-> IF o \in failed THEN "error" ELSE status[o]]

\* The ledger counts as the lifecycle does.
LEMMA LedgerCounts == \A S : Ledger!Cardinality(S) = Cardinality(S)
BY DEF Ledger!Cardinality, Cardinality

\* Attempts that fail together, nothing else.
LEMMA FailRefines ==
    ASSUME TypeOK, NEW failed \in SUBSET Ledger!Active, Fails(failed), UNCHANGED snapshots
    PROVE  Ledger!Next
BY DEF Fails, Ledger!Next, Ledger!Fail

LEMMA ActiveIsActive ==
    \A a \in Attempts : a \in Ledger!Active <=> status[a] \in Active
BY DEF Ledger!Active, Active

LEMMA TidyingFails ==
    /\ Expired \cup Lost \in SUBSET Ledger!Active
    /\ Running(stale) \cap Attempts \in SUBSET Ledger!Active
    /\ Expired \subseteq Attempts
BY DEF Expired, Running, Tidying, Lost, Unmarked, Queued, Ledger!Active

LEMMA StartRefines ==
    ASSUME TypeOK, NEW a \in Attempts, Start(a)
    PROVE  Ledger!Next
<1> DEFINE failed == Expired \cup Lost
<1>1. failed \in SUBSET Ledger!Active /\ a \in Attempts \ failed
    BY TidyingFails DEF Start, Expired, Running, Lost, Unmarked, Queued
<1>2. \A o \in Ledger!Active \ failed : BranchOf[o] # BranchOf[a]
  <2> SUFFICES ASSUME NEW o \in Ledger!Active \ failed, BranchOf[o] = BranchOf[a]
               PROVE  FALSE
      OBVIOUS
  <2>1. o \in Attempts /\ status[o] \in Active
    BY DEF Ledger!Active, Active
  <2>2. HealedStatus[o] = status[o]
    BY <2>1 DEF HealedStatus
  <2> QED
    BY <2>1, <2>2 DEF Start
<1>3. {o \in Attempts : HealedStatus[o] = "queued"} = Ledger!Left("queued", failed)
    BY DEF HealedStatus, Ledger!Left
<1>4. Cardinality(Ledger!Left("queued", failed)) < MaxQueued
    BY <1>3 DEF Start
<1>5. Ledger!After(a, "queued", failed)
    BY DEF Start, HealedStatus, Ledger!After
<1>6. Ledger!Queue(a, failed)
    BY <1>2, <1>4, <1>5, LedgerCounts DEF Start, Ledger!Queue
<1> QED
    BY <1>1, <1>6 DEF Ledger!Next

LEMMA ClaimRefines ==
    ASSUME LedgerInv, NEW w \in Workers, Claim(w)
    PROVE  Ledger!Next
<1> DEFINE a == Job(w)
           failed == Running(stale) \cap Attempts
<1>1. TypeOK /\ RowOf(w) /\ RoomWasCounted
    BY DEF LedgerInv, LimitInv
<1>2. a \in Attempts
    BY <1>1, JobType DEF Claim, Busy, Locking
<1>3. status[a] = seen[w] /\ seen[w] \in Active /\ a \notin failed
    BY <1>1 DEF RowOf, Claim, Conflicts, Locking
<1>4. failed \in SUBSET Ledger!Active /\ UNCHANGED snapshots
    BY TidyingFails DEF Claim
<1>5. CASE seen[w] = "queued"
  <2>1. Ledger!After(a, "running", failed)
    BY <1>3, <1>5 DEF Claim, Ledger!After
  <2>2. Ledger!Left("running", failed) = OthersRunning(a)
    BY <1>3, <1>5 DEF Ledger!Left, OthersRunning, Running
  <2>3. Cardinality(OthersRunning(a)) < MaxRunning
    BY <1>1 DEF RoomWasCounted, Claim
  <2>4. Ledger!Run(a, failed)
    BY <1>3, <1>4, <1>5, <2>1, <2>2, <2>3, LedgerCounts DEF Ledger!Run
  <2> QED
    BY <1>2, <1>3, <1>4, <2>4 DEF Ledger!Next
<1>6. CASE seen[w] # "queued"
  <2>1. Fails(failed)
    BY <1>6 DEF Claim, Fails
  <2> QED
    BY <1>1, <1>4, <2>1, FailRefines
<1> QED
    BY <1>5, <1>6

\* An ending is written by the worker of the scan, or repeats what the row says.
LEMMA EndRefines ==
    ASSUME LedgerInv, NEW w \in Workers, Quit(w) \/ Abandon(w) \/ Finalize(w) \/ SetTerminal(w)
    PROVE  Ledger!Next \/ UNCHANGED <<status, snapshots>>
<1> DEFINE a == Job(w)
           End(p) == status' = [status EXCEPT ![a] = p]
<1>1. TypeOK /\ RowOf(w)
    BY DEF LedgerInv, LimitInv
<1>2. a \in Attempts
    BY <1>1, JobType DEF Quit, Abandon, Finalize, SetTerminal, Busy, Claimed, Scanning
<1>3. ASSUME End("cancelled"), UNCHANGED snapshots, status[a] \in Active \cup {"cancelled"}
      PROVE  Ledger!Next \/ UNCHANGED <<status, snapshots>>
  <2>1. CASE status[a] \in Active
    <3>1. Ledger!Stop(a)
      BY <1>1, <1>2, <1>3, <2>1, ActiveIsActive DEF Ledger!Stop, Ledger!After, TypeOK
    <3> QED
      BY <1>2, <3>1 DEF Ledger!Next
  <2>2. CASE status[a] = "cancelled"
    BY <1>1, <1>2, <1>3, <2>2 DEF TypeOK
  <2> QED
    BY <1>3, <2>1, <2>2
<1>4. ASSUME End("error"), UNCHANGED snapshots, status[a] \in Active \cup {"error"}
      PROVE  Ledger!Next \/ UNCHANGED <<status, snapshots>>
  <2>1. CASE status[a] \in Active
    <3>1. {a} \in SUBSET Ledger!Active
      BY <1>2, <2>1, ActiveIsActive
    <3>2. Fails({a})
      BY <1>1, <1>2, <1>4 DEF Fails, TypeOK
    <3> QED
      BY <1>1, <1>4, <3>1, <3>2, FailRefines
  <2>2. CASE status[a] = "error"
    BY <1>1, <1>2, <1>4, <2>2 DEF TypeOK
  <2> QED
    BY <1>4, <2>1, <2>2
<1>5. CASE Quit(w)
  <2>1. status[a] \in Active \cup {"cancelled"}
    BY <1>1, <1>5 DEF Quit, RowOf, Active
  <2> QED
    BY <1>3, <1>5, <2>1 DEF Quit
<1>6. CASE Abandon(w)
  <2>1. status[a] \in Active \cup {"error"}
    BY <1>1, <1>6 DEF Abandon, RowOf, Active
  <2> QED
    BY <1>4, <1>6, <2>1 DEF Abandon
<1>7. CASE Finalize(w)
  <2>1. status[a] = "running"
    BY <1>1, <1>7 DEF Finalize, RowOf
  <2>2. a \notin snapshots
    BY <2>1 DEF LedgerInv
  <2>3. Ledger!Finish(a)
    BY <1>1, <1>2, <1>7, <2>1, <2>2 DEF Finalize, Ledger!Finish, Ledger!After, TypeOK
  <2> QED
    BY <1>2, <2>3 DEF Ledger!Next
<1>8. CASE SetTerminal(w)
  <2>1. status[a] \in Active
    BY <1>1, <1>8 DEF SetTerminal, RowOf, Active
  <2> QED
    BY <1>3, <1>4, <1>8, <2>1 DEF SetTerminal, Ending
<1> QED
    BY <1>5, <1>6, <1>7, <1>8

LEMMA StepRefines ==
    ASSUME LedgerInv, LedgerFaults, [Next]_vars
    PROVE  [Ledger!Next]_<<status, snapshots>>
<1>1. TypeOK
    BY DEF LedgerInv, LimitInv
<1> USE DEF dbVars, redisVars, workerVars, apiVars
<1>2. CASE UNCHANGED vars
    BY <1>2 DEF vars
<1>3. CASE Poll
  <2>1. Fails(Expired \cup Lost) /\ UNCHANGED snapshots
    BY <1>3 DEF Poll, Fails, HealedStatus
  <2> QED
    BY <1>1, <2>1, FailRefines, TidyingFails
<1>4. ASSUME NEW a \in Attempts, Start(a) PROVE Ledger!Next
    BY <1>1, <1>4, StartRefines
<1>5. ASSUME NEW a \in Attempts, StopQueued(a) PROVE Ledger!Next
  <2>1. status[a] \in Active /\ status' = [status EXCEPT ![a] = "cancelled"]
    BY <1>5 DEF StopQueued, Active
  <2>2. Ledger!Stop(a)
    BY <1>1, <1>5, <2>1, ActiveIsActive DEF StopQueued, Ledger!Stop, Ledger!After, TypeOK
  <2> QED
    BY <2>2 DEF Ledger!Next
<1>6. \A a \in Attempts : ~MarkError(a)
    BY DEF MarkError, LedgerInv, EndedInv
<1>7. CASE StartRolledBack
    BY <1>7 DEF StartRolledBack
<1>8. ASSUME NEW a \in Attempts,
             \/ Publish(a) \/ PublishRaises(a) \/ ApiDies(a) \/ StopAsked(a) \/ StopFlagged(a)
      PROVE  UNCHANGED <<status, snapshots>>
    BY <1>8 DEF Publish, PublishRaises, ApiDies, StopAsked, StopFlagged
<1>9. ASSUME NEW w \in Workers, Claim(w) PROVE Ledger!Next
    BY <1>9, ClaimRefines
<1>10. ASSUME NEW w \in Workers, Quit(w) \/ Abandon(w) \/ Finalize(w) \/ SetTerminal(w)
       PROVE  Ledger!Next \/ UNCHANGED <<status, snapshots>>
    BY <1>10, EndRefines
<1>11. ASSUME NEW w \in Workers, ClaimStep(w), ~Claim(w), ~Quit(w), ~Abandon(w)
       PROVE  UNCHANGED <<status, snapshots>>
    BY <1>11 DEF ClaimStep, Deliver, ClaimRead, ClaimRefused, ClaimCount,
       WaitForSlot, StopWaiting, ClaimConflicts, ClaimDbError, RetryClaim
<1>12. ASSUME NEW w \in Workers, ScanStep(w), ~Finalize(w), ~SetTerminal(w)
       PROVE  UNCHANGED <<status, snapshots>>
    BY <1>12 DEF ScanStep, CancelSeen, CloneRepository, StageDone, StageFails,
       Finish, LateTimeout, SetTerminalFails, Cleanup
<1>13. CASE Environment
    BY <1>13 DEF Environment, RedisRestarts, Age, MarkRunsOut, GraceRunsOut, ChildKilled,
       WorkerLost, WorkerStarts, Redeliver
<1> QED
    BY <1>2, <1>3, <1>4, <1>5, <1>6, <1>7, <1>8, <1>9, <1>10, <1>11, <1>12, <1>13
       DEF Next, ApiStep

\* The requests, rows, messages and workers together do what the endpoints promise: a scan is
\* idle, queued, running and then done, error or cancelled for good, with a result for exactly
\* the scans that are done, one active scan per branch, and a bounded queue and bounded slots.
THEOREM LedgerImplemented ==
    ASSUME LedgerFaults
    PROVE  Spec => ImplementsLedger
<1>1. Init => Ledger!Init
    BY DEF Init, Ledger!Init
<1> QED
    BY <1>1, LedgerInit, LedgerStep, StepRefines, PTL DEF Spec, ImplementsLedger, Ledger!Spec
=============================================================================
