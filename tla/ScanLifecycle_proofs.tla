------------------------ MODULE ScanLifecycle_proofs ------------------------
(***************************************************************************)
(* Proofs about ScanLifecycle for every set of attempts, branches and      *)
(* workers and every limit.                                                *)
(***************************************************************************)
EXTENDS ScanLifecycle, FiniteSetTheorems, TLAPS

-----------------------------------------------------------------------------
(***************************************************************************)
(* Type correctness.                                                       *)
(***************************************************************************)

\* A worker that is past its delivery works for an attempt that exists.
LEMMA JobType ==
    ASSUME TypeOK, NEW w \in Workers, pc[w] \in Busy
    PROVE  msg[w] \in Messages /\ Job(w) \in Attempts
BY DEF TypeOK, Messages, Job

\* Sending and delivering a message keeps the queue a bag of messages.
LEMMA QueueType ==
    ASSUME NEW q \in [Messages -> Nat], NEW m \in Messages
    PROVE  /\ Put(q, m) \in [Messages -> Nat]
           /\ q[m] > 0 => Take(q, m) \in [Messages -> Nat]
BY DEF Put, Take

\* A claim is asked again only while attempts are left.
LEMMA RetryType ==
    ASSUME NEW m \in Messages, m.tries + 1 < ClaimAttempts
    PROVE  [m EXCEPT !.tries = @ + 1] \in Messages
BY ConstantsAssumption DEF Messages

\* A fault stays within the bound on faults.
LEMMA FaultType ==
    ASSUME TypeOK, NEW kind, Fault(kind)
    PROVE  faults' \in 0 .. MaxFaults
BY ConstantsAssumption DEF TypeOK, Fault

LEMMA TypeInit == Init => TypeOK
BY ConstantsAssumption DEF Init, TypeOK, Statuses, Busy, Claimed, Scanning, Locking,
   Checked, Active

LEMMA TypeStep == TypeOK /\ [Next]_vars => TypeOK'
<1> SUFFICES ASSUME TypeOK, [Next]_vars PROVE TypeOK'
    OBVIOUS
<1> USE DEF dbVars, redisVars, workerVars, apiVars, Busy, Claimed, Scanning, Checked, Locking
<1>1. CASE UNCHANGED vars
    BY <1>1 DEF vars, TypeOK
<1>2. CASE StartRolledBack
    BY <1>2 DEF TypeOK, StartRolledBack, HealedStatus, HealedWaiting,
       HealKeys, Expired, Running, FirstSeen, Unmarked, Queued
<1>3. CASE Poll
    BY <1>3 DEF TypeOK, Poll, HealedStatus, HealedWaiting, HealKeys,
       Expired, Running, Statuses, Terminal, FirstSeen, Unmarked, Queued,
       Lost
<1>4. ASSUME NEW a \in Attempts, Start(a) PROVE TypeOK'
    BY <1>4 DEF TypeOK, Start, HealedStatus, HealedWaiting, HealKeys,
       Expired, Running, Statuses, Active, Terminal, FirstSeen, Unmarked,
       Queued, Lost
<1>5. ASSUME NEW a \in Attempts, Publish(a) PROVE TypeOK'
  <2>1. [scan |-> a, tries |-> 0] \in Messages
    BY ConstantsAssumption DEF Messages
  <2>2. Put(queue, [scan |-> a, tries |-> 0]) \in [Messages -> Nat]
    BY <2>1, QueueType DEF TypeOK
  <2> QED
    BY <1>5, <2>2 DEF TypeOK, Publish
<1>6. ASSUME NEW a \in Attempts, PublishRaises(a) PROVE TypeOK'
  <2>1. [scan |-> a, tries |-> 0] \in Messages
    BY ConstantsAssumption DEF Messages
  <2>2. Put(queue, [scan |-> a, tries |-> 0]) \in [Messages -> Nat]
    BY <2>1, QueueType DEF TypeOK
  <2> QED
    BY <1>6, <2>2, FaultType DEF TypeOK, PublishRaises
<1>7. ASSUME NEW a \in Attempts, MarkError(a) PROVE TypeOK'
    BY <1>7 DEF TypeOK, MarkError, ClearKeys, Statuses, Terminal
<1>8. ASSUME NEW a \in Attempts, ApiDies(a) PROVE TypeOK'
    BY <1>8, FaultType DEF TypeOK, ApiDies
<1>9. ASSUME NEW a \in Attempts, StopAsked(a) PROVE TypeOK'
    BY <1>9 DEF TypeOK, StopAsked
<1>10. ASSUME NEW a \in Attempts, StopQueued(a) PROVE TypeOK'
    BY <1>10 DEF TypeOK, StopQueued, ClearKeys, Statuses, Terminal
<1>11. ASSUME NEW a \in Attempts, StopFlagged(a) PROVE TypeOK'
    BY <1>11 DEF TypeOK, StopFlagged
<1>12. ASSUME NEW w \in Workers, NEW m \in Messages, Deliver(w, m) PROVE TypeOK'
  <2>1. m.scan \in Attempts
    BY DEF Messages
  <2> QED
    BY <1>12, <2>1, QueueType DEF TypeOK, Deliver
<1>13. ASSUME NEW w \in Workers, ClaimRead(w) PROVE TypeOK'
  <2>1. pc[w] \in Busy
    BY <1>13 DEF ClaimRead
  <2>2. msg[w] \in Messages /\ Job(w) \in Attempts
    BY <2>1, JobType
  <2> QED
    BY <1>13, <2>2 DEF TypeOK, ClaimRead, Goto
<1>14. ASSUME NEW w \in Workers, ClaimRefused(w) PROVE TypeOK'
  <2>1. pc[w] \in Busy
    BY <1>14 DEF ClaimRefused
  <2>2. msg[w] \in Messages /\ Job(w) \in Attempts
    BY <2>1, JobType
  <2> QED
    BY <1>14, <2>2 DEF TypeOK, ClaimRefused, ClearKeys, Acknowledge
<1>15. ASSUME NEW w \in Workers, ClaimCount(w) PROVE TypeOK'
  <2>1. pc[w] \in Busy
    BY <1>15 DEF ClaimCount
  <2>2. msg[w] \in Messages /\ Job(w) \in Attempts
    BY <2>1, JobType
  <2> QED
    BY <1>15, <2>2 DEF TypeOK, ClaimCount, Goto, ReleaseSeen
<1>16. ASSUME NEW w \in Workers, Claim(w) PROVE TypeOK'
  <2>1. pc[w] \in Busy
    BY <1>16 DEF Claim
  <2>2. msg[w] \in Messages /\ Job(w) \in Attempts
    BY <2>1, JobType
  <2> QED
    BY <1>16, <2>2 DEF TypeOK, Claim, Goto, ReleaseSeen, Running, Statuses,
       Active, Terminal
<1>17. ASSUME NEW w \in Workers, WaitForSlot(w) PROVE TypeOK'
  <2>1. pc[w] \in Busy
    BY <1>17 DEF WaitForSlot
  <2>2. msg[w] \in Messages /\ Job(w) \in Attempts
    BY <2>1, JobType
  <2>3. Put(queue, msg[w]) \in [Messages -> Nat]
    BY <2>2, QueueType DEF TypeOK
  <2> QED
    BY <1>17, <2>2, <2>3 DEF TypeOK, WaitForSlot, Acknowledge
<1>18. ASSUME NEW w \in Workers, StopWaiting(w) PROVE TypeOK'
  <2>1. pc[w] \in Busy
    BY <1>18 DEF StopWaiting
  <2>2. msg[w] \in Messages /\ Job(w) \in Attempts
    BY <2>1, JobType
  <2> QED
    BY <1>18, <2>2 DEF TypeOK, StopWaiting, Goto
<1>19. ASSUME NEW w \in Workers, Quit(w) PROVE TypeOK'
  <2>1. pc[w] \in Busy
    BY <1>19 DEF Quit
  <2>2. msg[w] \in Messages /\ Job(w) \in Attempts
    BY <2>1, JobType
  <2> QED
    BY <1>19, <2>2, FaultType DEF TypeOK, Quit, ClearKeys, Acknowledge,
       Statuses, Terminal
<1>20. ASSUME NEW w \in Workers, ClaimConflicts(w) PROVE TypeOK'
  <2>1. pc[w] \in Busy
    BY <1>20 DEF ClaimConflicts
  <2>2. msg[w] \in Messages /\ Job(w) \in Attempts
    BY <2>1, JobType
  <2>3. msg[w].tries + 1 < ClaimAttempts =>
          Put(queue, [msg[w] EXCEPT !.tries = @ + 1]) \in [Messages -> Nat]
    BY <2>2, RetryType, QueueType DEF TypeOK
  <2> QED
    BY <1>20, <2>2, <2>3 DEF TypeOK, ClaimConflicts, RetryClaim, Goto,
       ReleaseSeen, Acknowledge
<1>21. ASSUME NEW w \in Workers, ClaimDbError(w) PROVE TypeOK'
  <2>1. pc[w] \in Busy
    BY <1>21 DEF ClaimDbError
  <2>2. msg[w] \in Messages /\ Job(w) \in Attempts
    BY <2>1, JobType
  <2>3. msg[w].tries + 1 < ClaimAttempts =>
          Put(queue, [msg[w] EXCEPT !.tries = @ + 1]) \in [Messages -> Nat]
    BY <2>2, RetryType, QueueType DEF TypeOK
  <2> QED
    BY <1>21, <2>2, <2>3, FaultType DEF TypeOK, ClaimDbError, RetryClaim,
       Goto, ReleaseSeen, Acknowledge
<1>22. ASSUME NEW w \in Workers, Abandon(w) PROVE TypeOK'
  <2>1. pc[w] \in Busy
    BY <1>22 DEF Abandon
  <2>2. msg[w] \in Messages /\ Job(w) \in Attempts
    BY <2>1, JobType
  <2> QED
    BY <1>22, <2>2, FaultType DEF TypeOK, Abandon, ClearKeys, Acknowledge,
       Statuses, Terminal
<1>23. ASSUME NEW w \in Workers, CancelSeen(w) PROVE TypeOK'
  <2>1. pc[w] \in Busy
    BY <1>23 DEF CancelSeen
  <2>2. msg[w] \in Messages /\ Job(w) \in Attempts
    BY <2>1, JobType
  <2> QED
    BY <1>23, <2>2 DEF TypeOK, CancelSeen, Goto
<1>24. ASSUME NEW w \in Workers, CloneRepository(w) PROVE TypeOK'
  <2>1. pc[w] \in Busy
    BY <1>24 DEF CloneRepository
  <2>2. msg[w] \in Messages /\ Job(w) \in Attempts
    BY <2>1, JobType
  <2>3. CloneOf(w) \in Volumes \X Attempts
    BY <2>2, ConstantsAssumption DEF CloneOf
  <2> QED
    BY <1>24, <2>2, <2>3 DEF TypeOK, CloneRepository, Goto, NextStage
<1>25. ASSUME NEW w \in Workers, StageDone(w) PROVE TypeOK'
  <2>1. pc[w] \in Busy
    BY <1>25 DEF StageDone
  <2>2. msg[w] \in Messages /\ Job(w) \in Attempts
    BY <2>1, JobType
  <2>3. NextStage[pc[w]] \in Busy
    BY <1>25 DEF StageDone, NextStage
  <2> QED
    BY <1>25, <2>2, <2>3 DEF TypeOK, StageDone, Goto
<1>26. ASSUME NEW w \in Workers, StageFails(w) PROVE TypeOK'
  <2>1. pc[w] \in Busy
    BY <1>26 DEF StageFails
  <2>2. msg[w] \in Messages /\ Job(w) \in Attempts
    BY <2>1, JobType
  <2> QED
    BY <1>26, <2>2 DEF TypeOK, StageFails, Goto
<1>27. ASSUME NEW w \in Workers, Finalize(w) PROVE TypeOK'
  <2>1. pc[w] \in Busy
    BY <1>27 DEF Finalize
  <2>2. msg[w] \in Messages /\ Job(w) \in Attempts
    BY <2>1, JobType
  <2> QED
    BY <1>27, <2>2 DEF TypeOK, Finalize, Goto, Statuses, Terminal
<1>28. ASSUME NEW w \in Workers, Finish(w) PROVE TypeOK'
  <2>1. pc[w] \in Busy
    BY <1>28 DEF Finish
  <2>2. msg[w] \in Messages /\ Job(w) \in Attempts
    BY <2>1, JobType
  <2> QED
    BY <1>28, <2>2 DEF TypeOK, Finish, Goto
<1>29. ASSUME NEW w \in Workers, LateTimeout(w) PROVE TypeOK'
  <2>1. pc[w] \in Busy
    BY <1>29 DEF LateTimeout
  <2>2. msg[w] \in Messages /\ Job(w) \in Attempts
    BY <2>1, JobType
  <2> QED
    BY <1>29, <2>2, FaultType DEF TypeOK, LateTimeout, Goto
<1>30. ASSUME NEW w \in Workers, SetTerminal(w) PROVE TypeOK'
  <2>1. pc[w] \in Busy
    BY <1>30 DEF SetTerminal
  <2>2. msg[w] \in Messages /\ Job(w) \in Attempts
    BY <2>1, JobType
  <2> QED
    BY <1>30, <2>2 DEF TypeOK, SetTerminal, Goto, Ending, Statuses, Terminal
<1>31. ASSUME NEW w \in Workers, SetTerminalFails(w) PROVE TypeOK'
  <2>1. pc[w] \in Busy
    BY <1>31 DEF SetTerminalFails
  <2>2. msg[w] \in Messages /\ Job(w) \in Attempts
    BY <2>1, JobType
  <2> QED
    BY <1>31, <2>2, FaultType DEF TypeOK, SetTerminalFails, Goto
<1>32. ASSUME NEW w \in Workers, Cleanup(w) PROVE TypeOK'
  <2>1. pc[w] \in Busy
    BY <1>32 DEF Cleanup
  <2>2. msg[w] \in Messages /\ Job(w) \in Attempts
    BY <2>1, JobType
  <2> QED
    BY <1>32, <2>2 DEF TypeOK, Cleanup, ClearKeys, Acknowledge
<1>33. ASSUME NEW a \in Attempts, Age(a) PROVE TypeOK'
    BY <1>33 DEF TypeOK, Age
<1>34. ASSUME NEW a \in Attempts, MarkRunsOut(a) PROVE TypeOK'
    BY <1>34 DEF TypeOK, MarkRunsOut
<1>35. ASSUME NEW a \in Attempts, GraceRunsOut(a) PROVE TypeOK'
    BY <1>35 DEF TypeOK, GraceRunsOut
<1>36. ASSUME NEW w \in Workers, ChildKilled(w) PROVE TypeOK'
  <2>1. pc[w] \in Busy
    BY <1>36 DEF ChildKilled
  <2>2. msg[w] \in Messages /\ Job(w) \in Attempts
    BY <2>1, JobType
  <2> QED
    BY <1>36, <2>2, FaultType DEF TypeOK, ChildKilled, Acknowledge, ReleaseSeen
<1>37. ASSUME NEW w \in Workers, WorkerLost(w) PROVE TypeOK'
  <2>1. pc[w] \in Busy => Put(queue, msg[w]) \in [Messages -> Nat]
    BY JobType, QueueType DEF TypeOK
  <2> QED
    BY <1>37, <2>1, FaultType DEF TypeOK, WorkerLost, ReleaseSeen
<1>38. ASSUME NEW w \in Workers, WorkerStarts(w) PROVE TypeOK'
    BY <1>38 DEF TypeOK, WorkerStarts, Goto
<1>39. ASSUME NEW w \in Workers, Redeliver(w) PROVE TypeOK'
  <2>1. pc[w] \in Busy
    BY <1>39 DEF Redeliver
  <2>2. msg[w] \in Messages /\ Job(w) \in Attempts
    BY <2>1, JobType
  <2>3. Put(queue, msg[w]) \in [Messages -> Nat]
    BY <2>2, QueueType DEF TypeOK
  <2> QED
    BY <1>39, <2>2, <2>3, FaultType DEF TypeOK, Redeliver
<1>40. CASE RedisRestarts
    BY <1>40, FaultType DEF TypeOK, RedisRestarts, ClearKeys
<1> QED
    BY <1>1, <1>2, <1>3, <1>4, <1>5, <1>6, <1>7, <1>8, <1>9, <1>10, <1>11,
       <1>12, <1>13, <1>14, <1>15, <1>16, <1>17, <1>18, <1>19, <1>20, <1>21,
       <1>22, <1>23, <1>24, <1>25, <1>26, <1>27, <1>28, <1>29, <1>30, <1>31,
       <1>32, <1>33, <1>34, <1>35, <1>36, <1>37, <1>38, <1>39, <1>40
       DEF Next, ApiStep, ClaimStep, ScanStep, Environment

\* Every state of the system is well typed: in particular no claim is asked more
\* often than ClaimAttempts times, and whoever is at work has a message for it.
THEOREM TypeCorrect == Spec => []TypeOK
BY TypeInit, TypeStep, PTL DEF Spec
-----------------------------------------------------------------------------
(***************************************************************************)
(* The running limit.  A worker that counted the running scans may write   *)
(* its row later, because only the holder of the slot lock adds to them.   *)
(***************************************************************************)

OneClaims ==
    \A v, w \in Workers : pc[v] \in Locking /\ pc[w] \in Locking => v = w

RoomWasCounted ==
    \A w \in Workers :
        pc[w] = "counted" => Cardinality(OthersRunning(Job(w))) < MaxRunning

LimitInv == TypeOK /\ OneClaims /\ RoomWasCounted /\ RunningWithinLimit

\* Only a claim adds a running scan, and no step makes a stale one fresh but
\* the claim of that scan.
LEMMA OnlyClaimsRun ==
    ASSUME TypeOK, [Next]_vars, \A w \in Workers : ~Claim(w)
    PROVE  /\ Running(Attempts)' \subseteq Running(Attempts)
           /\ stale \subseteq stale'
<1> USE DEF Running, dbVars, redisVars, workerVars, apiVars
<1>1. CASE UNCHANGED vars
    BY <1>1 DEF vars
<1>2. CASE ApiStep
    BY <1>2 DEF TypeOK, ApiStep, StartRolledBack, Poll, Start, Publish, PublishRaises,
       MarkError, ApiDies, StopAsked, StopQueued, StopFlagged, HealedStatus
<1>3. ASSUME NEW w \in Workers, ClaimStep(w)
      PROVE  /\ Running(Attempts)' \subseteq Running(Attempts)
             /\ stale \subseteq stale'
    BY <1>3 DEF TypeOK, ClaimStep, Deliver, ClaimRead, ClaimRefused, ClaimCount,
       WaitForSlot, StopWaiting, Quit, ClaimConflicts, ClaimDbError, RetryClaim, Abandon
<1>4. ASSUME NEW w \in Workers, ScanStep(w)
      PROVE  /\ Running(Attempts)' \subseteq Running(Attempts)
             /\ stale \subseteq stale'
    BY <1>4 DEF TypeOK, ScanStep, CancelSeen, CloneRepository, StageDone, StageFails,
       Finalize, Finish, LateTimeout, SetTerminal, SetTerminalFails, Ending, Cleanup
<1>5. CASE Environment
    BY <1>5 DEF Environment, RedisRestarts, Age, MarkRunsOut, GraceRunsOut, ChildKilled,
       WorkerLost, WorkerStarts, Redeliver
<1> QED
    BY <1>1, <1>2, <1>3, <1>4, <1>5 DEF Next

\* A worker holds the slot lock because it has just taken it, or because it
\* held it before and works for the same message.
LEMMA LockTaken ==
    ASSUME TypeOK, [Next]_vars, NEW w \in Workers, pc'[w] \in Locking
    PROVE  \/ ClaimRead(w)
           \/ pc[w] = "claiming" /\ ClaimCount(w)
           \/ pc'[w] = pc[w] /\ msg'[w] = msg[w]
<1> DEFINE Taken == \/ ClaimRead(w)
                    \/ pc[w] = "claiming" /\ ClaimCount(w)
                    \/ pc'[w] = pc[w] /\ msg'[w] = msg[w]
<1> USE DEF Locking, dbVars, redisVars, workerVars, apiVars
<1>1. CASE UNCHANGED vars
    BY <1>1 DEF vars
<1>2. CASE ApiStep
    BY <1>2 DEF ApiStep, StartRolledBack, Poll, Start, Publish, PublishRaises,
       MarkError, ApiDies, StopAsked, StopQueued, StopFlagged
<1>3. ASSUME NEW v \in Workers, ClaimStep(v) PROVE Taken
    BY <1>3 DEF TypeOK, ClaimStep, Deliver, ClaimRead, ClaimRefused, ClaimCount, Claim,
       WaitForSlot, StopWaiting, Quit, ClaimConflicts, ClaimDbError, RetryClaim, Abandon,
       Goto, Acknowledge
<1>4. ASSUME NEW v \in Workers, ScanStep(v) PROVE Taken
    BY <1>4 DEF TypeOK, ScanStep, CancelSeen, CloneRepository, StageDone, StageFails,
       Finalize, Finish, LateTimeout, SetTerminal, SetTerminalFails, Cleanup,
       Goto, Acknowledge, NextStage, Checked
<1>5. CASE Environment
    BY <1>5 DEF TypeOK, Environment, RedisRestarts, Age, MarkRunsOut, GraceRunsOut,
       ChildKilled, WorkerLost, WorkerStarts, Redeliver, Goto, Acknowledge
<1> QED
    BY <1>1, <1>2, <1>3, <1>4, <1>5 DEF Next

LEMMA LimitInit == Init => LimitInv
<1> SUFFICES ASSUME Init PROVE LimitInv
    OBVIOUS
<1>1. Running(Attempts) = {}
    BY DEF Init, Running
<1> QED
    BY <1>1, TypeInit, FS_EmptySet, ConstantsAssumption
       DEF Init, LimitInv, OneClaims, RoomWasCounted, RunningWithinLimit, Locking

LEMMA LimitStep == LimitInv /\ [Next]_vars => LimitInv'
<1> SUFFICES ASSUME LimitInv, [Next]_vars PROVE LimitInv'
    OBVIOUS
<1>1. TypeOK /\ TypeOK'
    BY TypeStep DEF LimitInv
<1>2. IsFiniteSet(Attempts)
    BY ConstantsAssumption
<1>3. \A S \in SUBSET Attempts : IsFiniteSet(S) /\ Cardinality(S) \in Nat
    BY <1>2, FS_Subset, FS_CardinalityType
<1>4. OneClaims'
  <2> SUFFICES ASSUME NEW v \in Workers, NEW w \in Workers,
                      pc'[v] \in Locking, pc'[w] \in Locking
               PROVE  v = w
      BY DEF OneClaims
  <2>1. CASE ClaimRead(v) \/ ClaimRead(w)
      BY <2>1, <1>1, LockTaken DEF TypeOK, ClaimRead, ClaimCount, SlotFree, Goto, Locking
  <2>2. CASE ~ClaimRead(v) /\ ~ClaimRead(w)
      BY <2>2, <1>1, LockTaken DEF LimitInv, OneClaims, Locking
  <2> QED
      BY <2>1, <2>2
<1>5. RoomWasCounted'
  <2> SUFFICES ASSUME NEW w \in Workers, pc'[w] = "counted"
               PROVE  Cardinality(OthersRunning(Job(w))') < MaxRunning
      BY DEF RoomWasCounted
  <2>1. CASE pc[w] = "claiming" /\ ClaimCount(w)
    <3>1. ~SlotBusy(w) /\ Job(w)' = Job(w) /\ OthersRunning(Job(w))' = OthersRunning(Job(w))
        BY <2>1, <1>1 DEF TypeOK, ClaimCount, Goto, Job, OthersRunning, Running, dbVars
    <3>2. OthersRunning(Job(w)) \in SUBSET Attempts
        BY DEF OthersRunning, Running
    <3>3. Cardinality(OthersRunning(Job(w))) < MaxRunning
        BY <3>1, <3>2, <1>3, ConstantsAssumption DEF SlotBusy
    <3> QED
        BY <3>1, <3>3
  <2>2. CASE pc'[w] = pc[w] /\ msg'[w] = msg[w]
    <3>1. \A v \in Workers : ~Claim(v)
        BY <2>2, <1>1 DEF LimitInv, OneClaims, Locking, Claim, Goto, TypeOK
    <3>2. OthersRunning(Job(w))' \subseteq OthersRunning(Job(w))
        BY <2>2, <3>1, <1>1, OnlyClaimsRun DEF Job, OthersRunning, Running
    <3>3. Cardinality(OthersRunning(Job(w))') <= Cardinality(OthersRunning(Job(w)))
        BY <3>2, <1>3, FS_Subset DEF OthersRunning, Running
    <3>4. Cardinality(OthersRunning(Job(w))) < MaxRunning
        BY <2>2 DEF LimitInv, RoomWasCounted
    <3> QED
        BY <3>2, <3>3, <3>4, <1>3, ConstantsAssumption DEF OthersRunning, Running
  <2> QED
      BY <2>1, <2>2, <1>1, LockTaken DEF ClaimRead, Goto, TypeOK, Locking
<1>6. RunningWithinLimit'
  <2>1. CASE \A w \in Workers : ~Claim(w)
    <3>1. Running(Attempts)' \subseteq Running(Attempts)
        BY <2>1, <1>1, OnlyClaimsRun
    <3> QED
        BY <3>1, <1>3, FS_Subset, ConstantsAssumption
           DEF LimitInv, RunningWithinLimit, Running
  <2>2. ASSUME NEW w \in Workers, Claim(w) PROVE RunningWithinLimit'
    <3> DEFINE others == OthersRunning(Job(w))
    <3>1. others \subseteq Attempts /\ Cardinality(others) < MaxRunning
        BY <2>2 DEF LimitInv, RoomWasCounted, Claim, OthersRunning, Running
    <3>2. Running(Attempts)' \subseteq others \cup {Job(w)}
        BY <2>2, <1>1 DEF Claim, Running, OthersRunning, Conflicts, TypeOK
    <3>3. /\ IsFiniteSet(others \cup {Job(w)})
          /\ Cardinality(others \cup {Job(w)}) <= MaxRunning
        BY <3>1, <1>3, FS_AddElement, ConstantsAssumption
    <3> QED
        BY <3>2, <3>3, FS_Subset, FS_CardinalityType, ConstantsAssumption
           DEF RunningWithinLimit
  <2> QED
      BY <2>1, <2>2
<1> QED
    BY <1>1, <1>4, <1>5, <1>6 DEF LimitInv

\* However many workers claim, expire, retry or are delivered a message twice, a
\* workspace never has more RUNNING rows than it may run (begin_for_worker).
THEOREM LimitHolds == Spec => []RunningWithinLimit
<1>1. LimitInv => RunningWithinLimit
    BY DEF LimitInv
<1> QED
    BY <1>1, LimitInit, LimitStep, PTL DEF Spec

-----------------------------------------------------------------------------
(***************************************************************************)
(* What a step may do to the status of an attempt.                         *)
(***************************************************************************)

\* Something refers to the attempt: a request, a flag, a message or a worker.
Mentioned(a) ==
    \/ publishing[a] # "no"
    \/ a \in stopping \cup flag
    \/ InBroker(a)
    \/ Held(a)

\* The step ends the attempt: with a completion time unless start() failed to
\* publish it, and as done only with its snapshot.
Ends(a) ==
    /\ status'[a] \in Terminal
    /\ a \in ended' \/ publishing[a] = "raised"
    /\ status'[a] = "done" => a \in snapshots'
    /\ status[a] \in Active \/ Mentioned(a)

Runs(a) == \E w \in Workers : Claim(w) /\ Job(w) = a

StatusStep(a) ==
    \/ status'[a] = status[a]
    \/ Start(a) /\ status'[a] = "queued"
    \/ Runs(a) /\ status'[a] = "running"
    \/ Ends(a)

\* A status is only changed by a start, a claim or an ending.
LEMMA StatusChanges ==
    ASSUME TypeOK, [Next]_vars, NEW a \in Attempts
    PROVE  StatusStep(a)
<1> USE DEF dbVars, redisVars, workerVars, apiVars
<1>1. CASE UNCHANGED vars
    BY <1>1 DEF vars, StatusStep
<1>2. CASE Poll
    BY <1>2 DEF TypeOK, Poll, StatusStep, Ends, HealedStatus, Expired, Lost, Unmarked,
       Queued, Running, Terminal, Active
<1>3. ASSUME NEW o \in Attempts, Start(o) PROVE StatusStep(a)
  <2>1. CASE o = a
    BY <1>3, <2>1 DEF TypeOK, Start, StatusStep, HealedStatus
  <2>2. CASE o # a
    BY <1>3, <2>2 DEF TypeOK, Start, StatusStep, Ends, HealedStatus, Expired, Lost,
       Unmarked, Queued, Running, Terminal, Active
  <2> QED
    BY <2>1, <2>2
<1>4. ASSUME NEW o \in Attempts, MarkError(o) PROVE StatusStep(a)
    BY <1>4 DEF TypeOK, MarkError, StatusStep, Ends, Mentioned, Terminal
<1>5. ASSUME NEW o \in Attempts, StopQueued(o) PROVE StatusStep(a)
    BY <1>5 DEF TypeOK, StopQueued, StatusStep, Ends, Terminal, Active
<1>6. ASSUME NEW w \in Workers, Claim(w) PROVE StatusStep(a)
    BY <1>6 DEF TypeOK, Claim, StatusStep, Runs, Ends, Running, Terminal, Active
<1>7. ASSUME NEW w \in Workers, Quit(w) PROVE StatusStep(a)
    BY <1>7 DEF TypeOK, Quit, StatusStep, Ends, Mentioned, Held, Busy, Terminal
<1>8. ASSUME NEW w \in Workers, Abandon(w) PROVE StatusStep(a)
    BY <1>8 DEF TypeOK, Abandon, StatusStep, Ends, Mentioned, Held, Busy, Terminal
<1>9. ASSUME NEW w \in Workers, Finalize(w) PROVE StatusStep(a)
    BY <1>9 DEF TypeOK, Finalize, StatusStep, Ends, Mentioned, Held, Busy, Claimed,
       Scanning, Terminal
<1>10. ASSUME NEW w \in Workers, SetTerminal(w) PROVE StatusStep(a)
    BY <1>10 DEF TypeOK, SetTerminal, Ending, StatusStep, Ends, Mentioned, Held, Busy,
       Claimed, Terminal
<1>11. UNCHANGED status => StatusStep(a)
    BY DEF StatusStep
<1>12. CASE StartRolledBack
    BY <1>11, <1>12 DEF StartRolledBack
<1>13. ASSUME NEW o \in Attempts,
              \/ Publish(o) \/ PublishRaises(o) \/ ApiDies(o) \/ StopAsked(o)
              \/ StopFlagged(o) \/ Age(o) \/ MarkRunsOut(o) \/ GraceRunsOut(o)
       PROVE  StatusStep(a)
    BY <1>11, <1>13 DEF Publish, PublishRaises, ApiDies, StopAsked, StopFlagged, Age,
       MarkRunsOut, GraceRunsOut
<1>14. ASSUME NEW w \in Workers, ClaimStep(w), ~Claim(w), ~Quit(w), ~Abandon(w)
       PROVE  StatusStep(a)
    BY <1>11, <1>14 DEF ClaimStep, Deliver, ClaimRead, ClaimRefused, ClaimCount,
       WaitForSlot, StopWaiting, ClaimConflicts, ClaimDbError, RetryClaim
<1>15. ASSUME NEW w \in Workers, ScanStep(w), ~Finalize(w), ~SetTerminal(w)
       PROVE  StatusStep(a)
    BY <1>11, <1>15 DEF ScanStep, CancelSeen, CloneRepository, StageDone, StageFails,
       Finish, LateTimeout, SetTerminalFails, Cleanup
<1>16. CASE Environment
    BY <1>11, <1>13, <1>16 DEF Environment, RedisRestarts, ChildKilled, WorkerLost,
       WorkerStarts, Redeliver
<1> QED
    BY <1>1, <1>2, <1>3, <1>4, <1>5, <1>6, <1>7, <1>8, <1>9, <1>10, <1>12, <1>13, <1>14,
       <1>15, <1>16 DEF Next, ApiStep

\* What refers to an attempt keeps referring to it, or is created by a request
\* that creates the row or has just found it active.
LEMMA MentionedBefore ==
    ASSUME TypeOK, [Next]_vars, NEW a \in Attempts, Mentioned(a)'
    PROVE  Mentioned(a) \/ Start(a) \/ StopAsked(a)
<1> DEFINE Before == Mentioned(a) \/ Start(a) \/ StopAsked(a)
<1> USE DEF dbVars, redisVars, workerVars, apiVars
<1>1. CASE UNCHANGED vars
    BY <1>1 DEF vars, Mentioned, InBroker, Held, Job
<1>2. CASE StartRolledBack \/ Poll
    BY <1>2 DEF StartRolledBack, Poll, HealKeys, Mentioned, InBroker, Held, Job
<1>3. ASSUME NEW o \in Attempts,
             \/ Start(o) \/ Publish(o) \/ PublishRaises(o) \/ MarkError(o) \/ ApiDies(o)
             \/ StopAsked(o) \/ StopQueued(o) \/ StopFlagged(o)
      PROVE  Before
  <2>1. CASE a \in (stopping \cup flag)' \/ publishing'[a] # "no"
    BY <1>3, <2>1 DEF TypeOK, Start, Publish, PublishRaises, MarkError, ApiDies,
       StopAsked, StopQueued, StopFlagged, HealKeys, ClearKeys, Mentioned
  <2>2. CASE Held(a)'
    BY <1>3, <2>2 DEF TypeOK, Start, Publish, PublishRaises, MarkError, ApiDies,
       StopAsked, StopQueued, StopFlagged, Mentioned, Held, Job
  <2>3. CASE InBroker(a)'
    <3>1. CASE queue' = queue
      BY <2>3, <3>1 DEF Mentioned, InBroker
    <3>2. CASE o = a /\ publishing[o] # "no"
      BY <3>2 DEF Mentioned
    <3>3. CASE o # a /\ queue' = Put(queue, [scan |-> o, tries |-> 0])
      <4>1. PICK m \in Messages : m.scan = a /\ queue'[m] > 0
        BY <2>3 DEF InBroker
      <4>2. m # [scan |-> o, tries |-> 0]
        BY <4>1, <3>3
      <4> QED
        BY <4>1, <4>2, <3>3 DEF TypeOK, Put, Mentioned, InBroker
    <3> QED
      BY <1>3, <3>1, <3>2, <3>3 DEF Start, Publish, PublishRaises, MarkError, ApiDies,
         StopAsked, StopQueued, StopFlagged
  <2> QED
    BY <2>1, <2>2, <2>3 DEF Mentioned
<1>4. ASSUME NEW w \in Workers,
             \/ ClaimStep(w) \/ ScanStep(w) \/ ChildKilled(w) \/ WorkerLost(w)
             \/ WorkerStarts(w) \/ Redeliver(w)
      PROVE  Before
  <2>1. CASE a \in (stopping \cup flag)' \/ publishing'[a] # "no"
    BY <1>4, <2>1 DEF ClaimStep, Deliver, ClaimRead, ClaimRefused, ClaimCount, Claim,
       WaitForSlot, StopWaiting, Quit, ClaimConflicts, ClaimDbError, RetryClaim, Abandon,
       ScanStep, CancelSeen, CloneRepository, StageDone, StageFails, Finalize, Finish,
       LateTimeout, SetTerminal, SetTerminalFails, Cleanup, ChildKilled, WorkerLost,
       WorkerStarts, Redeliver, ClearKeys, Mentioned
  <2>2. CASE Held(a)'
    <3>1. PICK v \in Workers : pc'[v] \in Busy /\ msg'[v].scan = a
      BY <2>2 DEF Held, Job
    <3>2. CASE pc[v] \in Busy /\ msg'[v] = msg[v]
      BY <3>1, <3>2 DEF Mentioned, Held, Job
    <3>3. CASE \E m \in Messages : Deliver(v, m)
      BY <3>1, <3>3 DEF TypeOK, Deliver, Mentioned, InBroker
    <3> QED
      BY <1>4, <3>1, <3>2, <3>3 DEF TypeOK, ClaimStep, Deliver, ClaimRead, ClaimRefused,
         ClaimCount, Claim, WaitForSlot, StopWaiting, Quit, ClaimConflicts, ClaimDbError,
         RetryClaim, Abandon, ScanStep, CancelSeen, CloneRepository, StageDone,
         StageFails, Finalize, Finish, LateTimeout, SetTerminal, SetTerminalFails,
         Cleanup, ChildKilled, WorkerLost, WorkerStarts, Redeliver, Goto, Acknowledge,
         Busy, Claimed, Scanning, Checked, Locking
  <2>3. CASE InBroker(a)'
    <3>1. PICK m \in Messages : m.scan = a /\ queue'[m] > 0
      BY <2>3 DEF InBroker
    <3>2. CASE pc[w] \in Busy /\ Job(w) = a
      BY <3>2 DEF Mentioned, Held
    <3>3. CASE queue[m] > 0
      BY <3>1, <3>3 DEF Mentioned, InBroker
    <3>4. CASE ~(pc[w] \in Busy /\ Job(w) = a) /\ ~(queue[m] > 0)
      <4>1. pc[w] \in Busy => msg[w] \in Messages /\ m # msg[w]
                              /\ m # [msg[w] EXCEPT !.tries = @ + 1]
        BY <3>1, <3>4, JobType DEF Job, Messages
      <4>2. queue'[m] = queue[m] \/ \E n \in Messages : Deliver(w, n)
        BY <1>4, <3>1, <4>1 DEF TypeOK, ClaimStep, Deliver, ClaimRead, ClaimRefused,
           ClaimCount, Claim, WaitForSlot, StopWaiting, Quit, ClaimConflicts,
           ClaimDbError, RetryClaim, Abandon, ScanStep, CancelSeen, CloneRepository,
           StageDone, StageFails, Finalize, Finish, LateTimeout, SetTerminal,
           SetTerminalFails, Cleanup, ChildKilled, WorkerLost, WorkerStarts, Redeliver,
           Put, Busy, Locking
      <4>3. ~(queue'[m] > 0)
        BY <3>4, <4>2 DEF TypeOK, Deliver, Take
      <4> QED
        BY <3>1, <4>3
    <3> QED
      BY <3>2, <3>3, <3>4
  <2> QED
    BY <2>1, <2>2, <2>3 DEF Mentioned
<1>5. CASE RedisRestarts
    BY <1>5 DEF TypeOK, RedisRestarts, ClearKeys, Mentioned, InBroker, Held, Job
<1>6. ASSUME NEW o \in Attempts, Age(o) \/ MarkRunsOut(o) \/ GraceRunsOut(o)
      PROVE  Before
    BY <1>6 DEF Age, MarkRunsOut, GraceRunsOut, Mentioned, InBroker, Held, Job
<1> QED
    BY <1>1, <1>2, <1>3, <1>4, <1>5, <1>6 DEF Next, ApiStep, Environment

\* The flag of an attempt was there before, or the step sets it.
LEMMA FlagSet ==
    ASSUME TypeOK, [Next]_vars, NEW a \in flag'
    PROVE  a \in flag \/ StopFlagged(a)
<1> USE DEF dbVars, redisVars, workerVars, apiVars
<1>1. CASE UNCHANGED vars
    BY <1>1 DEF vars
<1>2. CASE ApiStep
    BY <1>2 DEF ApiStep, StartRolledBack, Poll, Start, Publish, PublishRaises,
       MarkError, ApiDies, StopAsked, StopQueued, StopFlagged, HealKeys, ClearKeys
<1>3. ASSUME NEW w \in Workers, ClaimStep(w) \/ ScanStep(w) PROVE a \in flag
    BY <1>3 DEF ClaimStep, Deliver, ClaimRead, ClaimRefused, ClaimCount, Claim,
       WaitForSlot, StopWaiting, Quit, ClaimConflicts, ClaimDbError, RetryClaim, Abandon,
       ScanStep, CancelSeen, CloneRepository, StageDone, StageFails, Finalize, Finish,
       LateTimeout, SetTerminal, SetTerminalFails, Cleanup, ClearKeys
<1>4. CASE Environment
    BY <1>4 DEF Environment, RedisRestarts, Age, MarkRunsOut, GraceRunsOut, ChildKilled,
       WorkerLost, WorkerStarts, Redeliver, ClearKeys
<1> QED
    BY <1>1, <1>2, <1>3, <1>4 DEF Next

-----------------------------------------------------------------------------
(***************************************************************************)
(* What holds of every attempt under every fault.                          *)
(***************************************************************************)

AttemptInv ==
    /\ TypeOK
    /\ \A a \in Attempts : Mentioned(a) => status[a] # "none"
    /\ StopNeverWaitsInQueue
    /\ DoneHasSnapshot

\* Snapshots are never deleted.
LEMMA SnapshotsStay ==
    ASSUME [Next]_vars
    PROVE  snapshots \subseteq snapshots'
<1> USE DEF dbVars, redisVars, workerVars, apiVars
<1>1. CASE UNCHANGED vars
    BY <1>1 DEF vars
<1>2. CASE ApiStep
    BY <1>2 DEF ApiStep, StartRolledBack, Poll, Start, Publish, PublishRaises,
       MarkError, ApiDies, StopAsked, StopQueued, StopFlagged
<1>3. ASSUME NEW w \in Workers, ClaimStep(w) \/ ScanStep(w)
      PROVE  snapshots \subseteq snapshots'
    BY <1>3 DEF ClaimStep, Deliver, ClaimRead, ClaimRefused, ClaimCount, Claim,
       WaitForSlot, StopWaiting, Quit, ClaimConflicts, ClaimDbError, RetryClaim, Abandon,
       ScanStep, CancelSeen, CloneRepository, StageDone, StageFails, Finalize, Finish,
       LateTimeout, SetTerminal, SetTerminalFails, Cleanup
<1>4. CASE Environment
    BY <1>4 DEF Environment, RedisRestarts, Age, MarkRunsOut, GraceRunsOut, ChildKilled,
       WorkerLost, WorkerStarts, Redeliver
<1> QED
    BY <1>1, <1>2, <1>3, <1>4 DEF Next

LEMMA AttemptInit == Init => AttemptInv
BY TypeInit DEF Init, AttemptInv, StopNeverWaitsInQueue, DoneHasSnapshot, Mentioned,
   InBroker, Held, Busy, Claimed, Scanning, Checked, Locking

LEMMA AttemptStep == AttemptInv /\ [Next]_vars => AttemptInv'
<1> SUFFICES ASSUME AttemptInv, [Next]_vars PROVE AttemptInv'
    OBVIOUS
<1>1. TypeOK /\ TypeOK'
    BY TypeStep DEF AttemptInv
<1>2. ASSUME NEW a \in Attempts, Mentioned(a)' PROVE status'[a] # "none"
  <2>1. StatusStep(a) /\ (Mentioned(a) \/ Start(a) \/ StopAsked(a))
    BY <1>1, <1>2, StatusChanges, MentionedBefore
  <2>2. CASE Start(a)
    BY <2>2, <1>1 DEF Start, TypeOK
  <2>3. CASE StopAsked(a)
    BY <2>3 DEF StopAsked, Active, dbVars
  <2>4. CASE Mentioned(a)
    BY <2>1, <2>2, <2>4 DEF AttemptInv, StatusStep, Ends, Terminal
  <2> QED
    BY <2>1, <2>2, <2>3, <2>4
<1>3. StopNeverWaitsInQueue'
  <2> SUFFICES ASSUME NEW a \in Attempts, a \in flag', status'[a] = "queued"
               PROVE  FALSE
      BY DEF StopNeverWaitsInQueue, Queued
  <2>1. StatusStep(a) /\ (a \in flag \/ StopFlagged(a))
    BY <1>1, StatusChanges, FlagSet
  <2>2. a \in flag \/ a \in stopping
    BY <2>1 DEF StopFlagged
  <2>3. status[a] # "none"
    BY <2>2 DEF AttemptInv, Mentioned
  <2>4. status[a] = "queued"
    BY <2>1, <2>3 DEF StatusStep, Start, Ends, Terminal
  <2> QED
    BY <2>1, <2>4 DEF AttemptInv, StopNeverWaitsInQueue, Queued, StopFlagged
<1>4. DoneHasSnapshot'
  <2> SUFFICES ASSUME NEW a \in Attempts, status'[a] = "done"
               PROVE  a \in snapshots'
      BY DEF DoneHasSnapshot
  <2>1. StatusStep(a) /\ snapshots \subseteq snapshots'
    BY <1>1, StatusChanges, SnapshotsStay
  <2> QED
    BY <2>1 DEF AttemptInv, DoneHasSnapshot, StatusStep, Ends
<1> QED
    BY <1>1, <1>2, <1>3, <1>4 DEF AttemptInv

\* A queued scan that is stopped is stopped at once: no stop flag is ever left on
\* a queued attempt for a worker to find (cancel, cancel_queued).
THEOREM NoStopWaitsInQueue == Spec => []StopNeverWaitsInQueue
<1>1. AttemptInv => StopNeverWaitsInQueue
    BY DEF AttemptInv
<1> QED
    BY <1>1, AttemptInit, AttemptStep, PTL DEF Spec

\* Whatever overwrites a row, it says done only with a complete snapshot
\* (_finalize).
THEOREM DoneMeansSnapshot == Spec => []DoneHasSnapshot
<1>1. AttemptInv => DoneHasSnapshot
    BY DEF AttemptInv
<1> QED
    BY <1>1, AttemptInit, AttemptStep, PTL DEF Spec

-----------------------------------------------------------------------------
(***************************************************************************)
(* What holds as long as publishing a message does not raise.              *)
(***************************************************************************)

\* Every ended row carries a completion time, which is what refuses a claim.
EndedInv ==
    /\ AttemptInv
    /\ \A a \in Attempts : publishing[a] # "raised"
    /\ \A a \in Attempts : status[a] \in Terminal => a \in ended
    /\ OneActivePerBranch

\* A completion time is never removed.
LEMMA EndedStays ==
    ASSUME [Next]_vars
    PROVE  ended \subseteq ended'
<1> USE DEF dbVars, redisVars, workerVars, apiVars
<1>1. CASE UNCHANGED vars
    BY <1>1 DEF vars
<1>2. CASE ApiStep
    BY <1>2 DEF ApiStep, StartRolledBack, Poll, Start, Publish, PublishRaises,
       MarkError, ApiDies, StopAsked, StopQueued, StopFlagged
<1>3. ASSUME NEW w \in Workers, ClaimStep(w) \/ ScanStep(w)
      PROVE  ended \subseteq ended'
    BY <1>3 DEF ClaimStep, Deliver, ClaimRead, ClaimRefused, ClaimCount, Claim,
       WaitForSlot, StopWaiting, Quit, ClaimConflicts, ClaimDbError, RetryClaim, Abandon,
       ScanStep, CancelSeen, CloneRepository, StageDone, StageFails, Finalize, Finish,
       LateTimeout, SetTerminal, SetTerminalFails, Cleanup
<1>4. CASE Environment
    BY <1>4 DEF Environment, RedisRestarts, Age, MarkRunsOut, GraceRunsOut, ChildKilled,
       WorkerLost, WorkerStarts, Redeliver
<1> QED
    BY <1>1, <1>2, <1>3, <1>4 DEF Next

\* Without that fault no request ever finds that it raised.
LEMMA NothingRaised ==
    ASSUME TypeOK, [Next]_vars, "publish" \notin FaultKinds, NEW a \in Attempts,
           publishing[a] # "raised"
    PROVE  publishing'[a] # "raised"
<1> USE DEF dbVars, redisVars, workerVars, apiVars
<1>1. CASE UNCHANGED vars
    BY <1>1 DEF vars
<1>2. CASE ApiStep
  <2>1. \A o \in Attempts : ~PublishRaises(o)
    BY DEF PublishRaises, Fault
  <2>2. ASSUME NEW o \in Attempts, Start(o) \/ Publish(o) \/ MarkError(o) \/ ApiDies(o)
        PROVE  publishing'[a] # "raised"
    <3>1. PICK p \in {"no", "sending"} : publishing' = [publishing EXCEPT ![o] = p]
      BY <2>2 DEF Start, Publish, MarkError, ApiDies
    <3> QED
      BY <3>1 DEF TypeOK
  <2>3. ASSUME NEW o \in Attempts, StopAsked(o) \/ StopQueued(o) \/ StopFlagged(o)
        PROVE  publishing'[a] # "raised"
    BY <2>3 DEF StopAsked, StopQueued, StopFlagged
  <2> QED
    BY <1>2, <2>1, <2>2, <2>3 DEF ApiStep, StartRolledBack, Poll
<1>3. ASSUME NEW w \in Workers, ClaimStep(w) \/ ScanStep(w)
      PROVE  publishing'[a] # "raised"
    BY <1>3 DEF ClaimStep, Deliver, ClaimRead, ClaimRefused, ClaimCount, Claim,
       WaitForSlot, StopWaiting, Quit, ClaimConflicts, ClaimDbError, RetryClaim, Abandon,
       ScanStep, CancelSeen, CloneRepository, StageDone, StageFails, Finalize, Finish,
       LateTimeout, SetTerminal, SetTerminalFails, Cleanup
<1>4. CASE Environment
    BY <1>4 DEF Environment, RedisRestarts, Age, MarkRunsOut, GraceRunsOut, ChildKilled,
       WorkerLost, WorkerStarts, Redeliver
<1> QED
    BY <1>1, <1>2, <1>3, <1>4 DEF Next

\* A claim runs only an attempt that is still active: it has a row because its
\* message refers to it, and an ended row refuses the write.
LEMMA OnlyTheActiveRun ==
    ASSUME EndedInv, NEW a \in Attempts, Runs(a)
    PROVE  status[a] \in Active
<1>1. PICK w \in Workers : Claim(w) /\ Job(w) = a
    BY DEF Runs
<1>2. a \notin ended
    BY <1>1 DEF Claim, Conflicts
<1>3. Mentioned(a)
    BY <1>1 DEF Claim, Mentioned, Held, Busy, Locking
<1> QED
    BY <1>2, <1>3 DEF EndedInv, AttemptInv, TypeOK, Statuses

LEMMA EndedInit == Init => EndedInv
BY AttemptInit DEF Init, EndedInv, OneActivePerBranch, Terminal, Active

LEMMA EndedStep ==
    ASSUME "publish" \notin FaultKinds
    PROVE  EndedInv /\ [Next]_vars => EndedInv'
<1> SUFFICES ASSUME EndedInv, [Next]_vars PROVE EndedInv'
    OBVIOUS
<1>1. TypeOK /\ AttemptInv'
    BY AttemptStep DEF EndedInv, AttemptInv
<1>2. \A a \in Attempts : publishing'[a] # "raised"
    BY <1>1, NothingRaised DEF EndedInv
<1>3. \A a \in Attempts : status'[a] \in Terminal => a \in ended'
    BY <1>1, StatusChanges, EndedStays DEF EndedInv, StatusStep, Ends, Terminal
<1>4. OneActivePerBranch'
  <2> SUFFICES ASSUME NEW a \in Attempts, NEW b \in Attempts, a # b,
                      status'[a] \in Active, status'[b] \in Active,
                      BranchOf[a] = BranchOf[b]
               PROVE  FALSE
      BY DEF OneActivePerBranch
  <2>1. \A o \in {a, b} : status[o] \in Active \/ Start(o)
    BY <1>1, StatusChanges, OnlyTheActiveRun DEF StatusStep, Ends, Active, Terminal
  <2>2. ASSUME NEW o \in Attempts, NEW p \in Attempts \ {o}, Start(o),
               BranchOf[o] = BranchOf[p]
        PROVE  status'[p] \notin Active
    BY <1>1, <2>2 DEF Start, HealedStatus, TypeOK
  <2> QED
    BY <2>1, <2>2 DEF EndedInv, OneActivePerBranch
<1> QED
    BY <1>1, <1>2, <1>3, <1>4 DEF EndedInv

\* A branch never has two scans that are queued or running (start, begin_for_worker).
THEOREM BranchScannedOnce ==
    ASSUME "publish" \notin FaultKinds
    PROVE  Spec => []OneActivePerBranch
<1>1. EndedInv => OneActivePerBranch
    BY DEF EndedInv
<1> QED
    BY <1>1, EndedInit, EndedStep, PTL DEF Spec

\* No message, however late or often it is delivered, restarts an attempt that
\* has ended (begin_for_worker).
THEOREM EndedStaysEnded ==
    ASSUME "publish" \notin FaultKinds
    PROVE  Spec => NeverRestarted
<1>1. EndedInv /\ [Next]_vars =>
        \A a \in Attempts : status[a] \in Terminal => status'[a] \notin Active
  <2> SUFFICES ASSUME EndedInv, [Next]_vars, NEW a \in Attempts, status[a] \in Terminal
               PROVE  status'[a] \notin Active
      OBVIOUS
  <2>1. StatusStep(a)
    BY StatusChanges DEF EndedInv, AttemptInv
  <2> QED
    BY <2>1, OnlyTheActiveRun DEF StatusStep, Start, Ends, Active, Terminal
<1> QED
    BY <1>1, EndedInit, EndedStep, PTL DEF Spec, NeverRestarted

=============================================================================
