---------------------------- MODULE ScanLifecycle ----------------------------
(***************************************************************************)
(* The life of the scans of one workspace: the API requests that start,    *)
(* poll and stop them (services/analysis.py), the attempt rows in          *)
(* PostgreSQL (db/repositories/attempts.py), the broker queue, the Celery  *)
(* workers that claim and run them (tasks/scan_pipeline.py), and the Redis *)
(* keys they share (tasks/progress.py, tasks/cancel.py).                   *)
(*                                                                         *)
(* A database transaction is one action, except the claim of a running     *)
(* slot: under the workspace's slot lock it reads the attempt row, counts  *)
(* the running scans, and writes the row, and not every other writer takes *)
(* that lock.                                                              *)
(*                                                                         *)
(* Time is abstracted to what the timeouts tell apart.  `stale' holds the  *)
(* attempts whose start_time is older than the hard limit plus its grace;  *)
(* a waiting mark has either the long pickup life or the heartbeat life.   *)
(***************************************************************************)
EXTENDS Naturals, FiniteSets

CONSTANTS
    Attempts,        \* ids of the attempt rows that may be created
    Branches,        \* branches of the workspace's repositories
    BranchOf,        \* the branch of each attempt
    Workers,         \* worker processes, one scan each (--concurrency=1)
    Volumes,         \* scratch volumes for clones
    VolumeOf,        \* the volume each worker mounts
    MaxRunning,      \* max_running_scans_per_workspace
    MaxQueued,       \* max_queued_scans_per_workspace
    ClaimAttempts,   \* scan_claim_attempts
    Watched,         \* TRUE: someone polls at least once per heartbeat
    FaultKinds,      \* the faults a run allows
    MaxFaults,       \* bound: faults in a behaviour
    NoMessage        \* what an idle worker holds

Faults == {"kill", "pod", "redeliver", "redis", "claim", "db", "publish", "api", "limit"}

ASSUME ConstantsAssumption ==
    /\ IsFiniteSet(Attempts)
    /\ BranchOf \in [Attempts -> Branches]
    /\ VolumeOf \in [Workers -> Volumes]
    /\ MaxRunning \in Nat \ {0}
    /\ MaxQueued \in Nat \ {0}
    /\ ClaimAttempts \in Nat \ {0}
    /\ Watched \in BOOLEAN
    /\ FaultKinds \subseteq Faults
    /\ MaxFaults \in Nat

Messages == [scan : Attempts, tries : 0 .. ClaimAttempts - 1]

ASSUME NoMessageAssumption == NoMessage \notin Messages

VARIABLES
    status,      \* analysis_attempt.status; "none" before the row exists
    ended,       \* attempts whose completion_time is set
    snapshots,   \* attempts with a snapshot row
    stale,       \* attempts whose start_time is past the expiry cutoff
    flag,        \* Redis: attempts with a cancel flag
    waiting,     \* Redis: the waiting mark, "pickup" or "beat" life, or "no"
    graced,      \* Redis: attempts with a grace key
    queue,       \* broker: how many copies of each message it can deliver
    pc,          \* what each worker is doing
    msg,         \* the unacknowledged message each worker holds
    seen,        \* the status a claiming worker read before writing the row
    clones,      \* clone directories, <<volume, attempt>>
    publishing,  \* start requests between their commit and their answer
    stopping,    \* stop requests that read an active attempt
    faults       \* faults so far

dbVars     == <<status, ended, snapshots, stale>>
redisVars  == <<flag, waiting, graced>>
workerVars == <<pc, msg, seen>>
apiVars    == <<publishing, stopping>>
vars == <<dbVars, redisVars, queue, workerVars, clones, apiVars, faults>>

Active   == {"queued", "running"}
Terminal == {"done", "error", "cancelled"}
Statuses == {"none"} \cup Active \cup Terminal

\* The stages of _run_claimed, each entered through a check of the cancel flag.
Checked == {"cloning", "extraction", "detection", "prediction", "persistence"}

NextStage == [cloning    |-> "extraction", extraction  |-> "detection",
              detection  |-> "prediction", prediction  |-> "persistence",
              persistence |-> "finalizing"]

\* Where a worker is past its claim and before the end of its try block ...
Scanning == Checked \cup {"finalizing", "finishing"}
\* ... where it is past its claim at all ...
Claimed == Scanning \cup {"cancelling", "failing", "cleanup"}
\* ... where its transaction holds the slot lock ...
Locking == {"claiming", "counted"}
\* ... and wherever it may be while it holds a message.
Busy == Claimed \cup Locking \cup {"asked", "waiting", "quitting", "abandoning"}

TypeOK ==
    /\ status \in [Attempts -> Statuses]
    /\ ended \subseteq Attempts
    /\ snapshots \subseteq Attempts
    /\ stale \subseteq Attempts
    /\ flag \subseteq Attempts
    /\ waiting \in [Attempts -> {"no", "beat", "pickup"}]
    /\ graced \subseteq Attempts
    /\ queue \in [Messages -> Nat]
    /\ pc \in [Workers -> Busy \cup {"idle", "down"}]
    /\ msg \in [Workers -> Messages \cup {NoMessage}]
    /\ \A w \in Workers : pc[w] \in Busy => msg[w] \in Messages
    /\ seen \in [Workers -> Active \cup {"none"}]
    /\ clones \subseteq Volumes \X Attempts
    /\ publishing \in [Attempts -> {"no", "sending", "raised"}]
    /\ stopping \subseteq Attempts
    /\ faults \in 0 .. MaxFaults

Init ==
    /\ status = [a \in Attempts |-> "none"]
    /\ ended = {} /\ snapshots = {} /\ stale = {}
    /\ flag = {} /\ graced = {}
    /\ waiting = [a \in Attempts |-> "no"]
    /\ queue = [m \in Messages |-> 0]
    /\ pc = [w \in Workers |-> "idle"]
    /\ msg = [w \in Workers |-> NoMessage]
    /\ seen = [w \in Workers |-> "none"]
    /\ clones = {}
    /\ publishing = [a \in Attempts |-> "no"]
    /\ stopping = {}
    /\ faults = 0

-----------------------------------------------------------------------------
(***************************************************************************)
(* Shared pieces.                                                          *)
(***************************************************************************)

Fault(kind) == kind \in FaultKinds /\ faults < MaxFaults /\ faults' = faults + 1

\* The workspace slot lock is transaction-scoped; only a claim holds it for
\* longer than one action.
SlotFree == \A w \in Workers : pc[w] \notin Locking

\* progress.clear: every key of the attempts in S.
ClearKeys(S) ==
    /\ flag' = flag \ S
    /\ graced' = graced \ S
    /\ waiting' = [a \in Attempts |-> IF a \in S THEN "no" ELSE waiting[a]]

Put(q, m)  == [q EXCEPT ![m] = @ + 1]
Take(q, m) == [q EXCEPT ![m] = @ - 1]

Job(w) == msg[w].scan

Goto(w, l) == pc' = [pc EXCEPT ![w] = l] /\ UNCHANGED msg

\* The task returns or raises: acks_late acknowledges its message then.
Acknowledge(w) ==
    /\ pc' = [pc EXCEPT ![w] = "idle"]
    /\ msg' = [msg EXCEPT ![w] = NoMessage]

Running(S) == {a \in S : status[a] = "running"}
Queued     == {a \in Attempts : status[a] = "queued"}

Tidying == {a \in Attempts : SlotFree}
\* Mutant: a running scan is ended whatever its age.
ExpiredAtAnyAge == Running(Attempts) \cap Tidying

\* What _heal finds, nothing while someone else holds the slot lock:
\* RUNNING rows past the cutoff, ...
Expired == Running(stale) \cap Tidying
\* ... and QUEUED rows without a waiting mark, for the first time or again.
Unmarked  == {a \in Queued \cap Tidying : waiting[a] = "no"}
\* Mutant: every missing mark is a first sighting.
NeverLost == {}
FirstSeen == Unmarked \ graced
Lost      == Unmarked \cap graced

HealedStatus ==
    [a \in Attempts |-> IF a \in Expired \cup Lost THEN "error" ELSE status[a]]

\* The Redis half of _heal: is_lost marks a first sighting again and notes it;
\* the keys of the lost are dropped.
HealedWaiting == [a \in Attempts |-> IF a \in FirstSeen THEN "beat" ELSE waiting[a]]
HealKeys ==
    /\ flag' = flag \ Lost
    /\ graced' = (graced \cup FirstSeen) \ Lost

-----------------------------------------------------------------------------
(***************************************************************************)
(* The API.                                                                *)
(***************************************************************************)

\* Mutant: only a running scan refuses another one on its branch.
StartBesideQueued(a) ==
    /\ status[a] = "none"
    /\ \A o \in Attempts : BranchOf[o] = BranchOf[a] => HealedStatus[o] # "running"
    /\ Cardinality({o \in Attempts : HealedStatus[o] = "queued"}) < MaxQueued
    /\ status' = [HealedStatus EXCEPT ![a] = "queued"]
    /\ ended' = ended \cup Expired \cup Lost
    /\ waiting' = [HealedWaiting EXCEPT ![a] = "pickup"]
    /\ HealKeys
    /\ publishing' = [publishing EXCEPT ![a] = "sending"]
    /\ UNCHANGED <<snapshots, stale, queue, workerVars, clones, stopping, faults>>

\* start(), up to its commit.  It tidies up first, as every read does.
Start(a) ==
    /\ status[a] = "none"
    /\ \A o \in Attempts : BranchOf[o] = BranchOf[a] => HealedStatus[o] \notin Active
    /\ Cardinality({o \in Attempts : HealedStatus[o] = "queued"}) < MaxQueued
    /\ status' = [HealedStatus EXCEPT ![a] = "queued"]
    /\ ended' = ended \cup Expired \cup Lost
    /\ waiting' = [HealedWaiting EXCEPT ![a] = "pickup"]
    /\ HealKeys
    /\ publishing' = [publishing EXCEPT ![a] = "sending"]
    /\ UNCHANGED <<snapshots, stale, queue, workerVars, clones, stopping, faults>>

\* start() refused (a scan is active, the queue is full, GitHub failed): the
\* rollback undoes what the tidy-up did to the rows, not what it did to Redis.
StartRolledBack ==
    /\ Unmarked # {}
    /\ waiting' = HealedWaiting
    /\ HealKeys
    /\ UNCHANGED <<dbVars, queue, workerVars, clones, apiVars, faults>>

\* run_scan.delay succeeded.
Publish(a) ==
    /\ publishing[a] = "sending"
    /\ queue' = Put(queue, [scan |-> a, tries |-> 0])
    /\ publishing' = [publishing EXCEPT ![a] = "no"]
    /\ UNCHANGED <<dbVars, redisVars, workerVars, clones, stopping, faults>>

\* run_scan.delay raised; the broker may have stored the message all the same.
PublishRaises(a) ==
    /\ publishing[a] = "sending"
    /\ Fault("publish")
    /\ queue' \in {queue, Put(queue, [scan |-> a, tries |-> 0])}
    /\ publishing' = [publishing EXCEPT ![a] = "raised"]
    /\ UNCHANGED <<dbVars, redisVars, workerVars, clones, stopping>>

\* The except branch of start(): mark_error on the row as this request last
\* knew it, without the slot lock and without a completion_time.
MarkError(a) ==
    /\ publishing[a] = "raised"
    /\ status' = [status EXCEPT ![a] = "error"]
    /\ ClearKeys({a})
    /\ publishing' = [publishing EXCEPT ![a] = "no"]
    /\ UNCHANGED <<ended, snapshots, stale, queue, workerVars, clones, stopping, faults>>

\* The API process dies after its commit and before it reached the broker.
ApiDies(a) ==
    /\ publishing[a] = "sending"
    /\ Fault("api")
    /\ publishing' = [publishing EXCEPT ![a] = "no"]
    /\ UNCHANGED <<dbVars, redisVars, queue, workerVars, clones, stopping>>

\* get_status, get_active, list_activity, and a start() that found nothing new
\* to scan: each tidies up and commits.
Poll ==
    /\ Expired \cup Unmarked # {}
    /\ status' = HealedStatus
    /\ ended' = ended \cup Expired \cup Lost
    /\ waiting' = HealedWaiting
    /\ HealKeys
    /\ UNCHANGED <<snapshots, stale, queue, workerVars, clones, apiVars, faults>>

\* cancel() reads the row: only an active attempt can be stopped.
StopAsked(a) ==
    /\ status[a] \in Active
    /\ stopping' = stopping \cup {a}
    /\ UNCHANGED <<dbVars, redisVars, queue, workerVars, clones, publishing, faults>>

\* cancel_queued under the slot lock; whatever is not queued gets the flag.
StopQueued(a) ==
    /\ a \in stopping /\ SlotFree
    /\ status[a] = "queued"
    /\ status' = [status EXCEPT ![a] = "cancelled"]
    /\ ended' = ended \cup {a}
    /\ ClearKeys({a})
    /\ stopping' = stopping \ {a}
    /\ UNCHANGED <<snapshots, stale, queue, workerVars, clones, publishing, faults>>

\* Mutant: the flag is set without looking at the row again.
StopFlaggedBlindly(a) ==
    /\ a \in stopping
    /\ flag' = flag \cup {a}
    /\ stopping' = stopping \ {a}
    /\ UNCHANGED <<dbVars, waiting, graced, queue, workerVars, clones, publishing, faults>>

StopFlagged(a) ==
    /\ a \in stopping /\ SlotFree
    /\ status[a] # "queued"
    /\ flag' = flag \cup {a}
    /\ stopping' = stopping \ {a}
    /\ UNCHANGED <<dbVars, waiting, graced, queue, workerVars, clones, publishing, faults>>

-----------------------------------------------------------------------------
(***************************************************************************)
(* The workers: claiming a slot.                                           *)
(***************************************************************************)

\* Mutant: the message is acknowledged on receipt instead of late.
DeliverAckedEarly(w, m) ==
    /\ pc[w] = "idle" /\ queue[m] > 0
    /\ queue' = Take(queue, m)
    /\ pc' = [pc EXCEPT ![w] = "asked"]
    /\ waiting' = [waiting EXCEPT ![m.scan] = "beat"]
    /\ UNCHANGED <<dbVars, flag, graced, msg, seen, clones, apiVars, faults>>

\* The broker hands over a message; run_scan marks the attempt as held.
Deliver(w, m) ==
    /\ pc[w] = "idle" /\ queue[m] > 0
    /\ queue' = Take(queue, m)
    /\ pc' = [pc EXCEPT ![w] = "asked"]
    /\ msg' = [msg EXCEPT ![w] = m]
    /\ waiting' = [waiting EXCEPT ![m.scan] = "beat"]
    /\ UNCHANGED <<dbVars, flag, graced, seen, clones, apiVars, faults>>

\* Mutant: the claim takes no slot lock.
ClaimReadUnlocked(w) ==
    /\ pc[w] = "asked"
    /\ status[Job(w)] \in Active
    /\ seen' = [seen EXCEPT ![w] = status[Job(w)]]
    /\ Goto(w, "claiming")
    /\ UNCHANGED <<dbVars, redisVars, queue, clones, apiVars, faults>>

ReleaseSeen(w) == seen' = [seen EXCEPT ![w] = "none"]

\* begin_for_worker: lock the slot, read the row.
ClaimRead(w) ==
    /\ pc[w] = "asked" /\ SlotFree
    /\ status[Job(w)] \in Active
    /\ seen' = [seen EXCEPT ![w] = status[Job(w)]]
    /\ Goto(w, "claiming")
    /\ UNCHANGED <<dbVars, redisVars, queue, clones, apiVars, faults>>

\* begin_for_worker returned None: the attempt has already ended.
ClaimRefused(w) ==
    /\ pc[w] = "asked" /\ SlotFree
    /\ status[Job(w)] \notin Active
    /\ ClearKeys({Job(w)})
    /\ Acknowledge(w)
    /\ UNCHANGED <<dbVars, queue, seen, clones, apiVars, faults>>

\* Who else runs once the expired are ended.
OthersRunning(a) == Running(Attempts \ stale) \ {a}
SlotBusy(w) == Cardinality(OthersRunning(Job(w))) >= MaxRunning

\* Writing the new start_time is refused (completion_time >= start_time) when
\* the row carries a completion_time: it ended since it was read, or it is
\* itself a RUNNING row that this transaction has just expired.
Conflicts(a) == a \in ended \/ a \in Running(stale)

\* Mutant: the sweep does not look at the age of a clone.
EveryClone(w) == {d \in clones : d[1] = VolumeOf[w]}

\* Abandoned clones on this worker's volume, which the sweep may delete.
Abandoned(w) ==
    {d \in clones : /\ d[1] = VolumeOf[w]
                    /\ \A o \in Workers \ {w} : pc[o] \in Busy => Job(o) # d[2]}

\* The expired do not count; at the limit the transaction rolls back.
ClaimCount(w) ==
    /\ pc[w] = "claiming"
    /\ IF SlotBusy(w)
       THEN Goto(w, "waiting") /\ ReleaseSeen(w)
       ELSE Goto(w, "counted") /\ UNCHANGED seen
    /\ UNCHANGED <<dbVars, redisVars, queue, clones, apiVars, faults>>

\* The slot is claimed and committed; _run_claimed begins with the sweep.  A
\* status read as RUNNING is not written again.
Claim(w) ==
    /\ pc[w] = "counted" /\ ~Conflicts(Job(w))
    /\ status' = [a \in Attempts |->
                    IF a = Job(w) /\ seen[w] = "queued" THEN "running"
                    ELSE IF a \in Running(stale) THEN "error" ELSE status[a]]
    /\ ended' = ended \cup Running(stale)
    /\ stale' = stale \ {Job(w)}
    /\ \E gone \in SUBSET Abandoned(w) : clones' = clones \ gone
    /\ ReleaseSeen(w)
    /\ Goto(w, "cloning")
    /\ UNCHANGED <<snapshots, redisVars, queue, apiVars, faults>>

\* _wait_for_slot: the attempt stays queued and its message is sent again ...
WaitForSlot(w) ==
    /\ pc[w] = "waiting" /\ Job(w) \notin flag
    /\ queue' = Put(queue, msg[w])
    /\ Acknowledge(w)
    /\ UNCHANGED <<dbVars, redisVars, seen, clones, apiVars, faults>>

\* ... unless a stop was requested.
StopWaiting(w) ==
    /\ pc[w] = "waiting" /\ Job(w) \in flag
    /\ Goto(w, "quitting")
    /\ UNCHANGED <<dbVars, redisVars, queue, seen, clones, apiVars, faults>>

\* Its _set_terminal; a database error there ends the task.
Quit(w) ==
    /\ pc[w] = "quitting"
    /\ \/ /\ status' = [status EXCEPT ![Job(w)] = "cancelled"]
          /\ ended' = ended \cup {Job(w)}
          /\ ClearKeys({Job(w)})
          /\ UNCHANGED faults
       \/ /\ Fault("db")
          /\ UNCHANGED <<status, ended, redisVars>>
    /\ Acknowledge(w)
    /\ UNCHANGED <<snapshots, stale, queue, seen, clones, apiVars>>

\* Mutant: a claim that is asked again puts its row back in the queue.
RetryClaimRequeues(w) ==
    /\ ReleaseSeen(w)
    /\ queue' = Put(queue, msg[w])
    /\ status' = [status EXCEPT ![Job(w)] = "queued"]
    /\ Acknowledge(w)
    /\ UNCHANGED <<ended, snapshots, stale, redisVars, clones, apiVars>>

\* _retry_claim: ask again with one more failure counted, or give up.
RetryClaim(w) ==
    /\ ReleaseSeen(w)
    /\ IF msg[w].tries + 1 < ClaimAttempts
       THEN /\ queue' = Put(queue, [msg[w] EXCEPT !.tries = @ + 1])
            /\ Acknowledge(w)
       ELSE /\ Goto(w, "abandoning")
            /\ UNCHANGED queue
    /\ UNCHANGED <<dbVars, redisVars, clones, apiVars>>

ClaimConflicts(w) ==
    /\ pc[w] = "counted" /\ Conflicts(Job(w))
    /\ RetryClaim(w)
    /\ UNCHANGED faults

ClaimDbError(w) ==
    /\ pc[w] \in Locking \cup {"asked"}
    /\ Fault("claim")
    /\ RetryClaim(w)

\* The end of _retry_claim; the ending may fail to be recorded.
Abandon(w) ==
    /\ pc[w] = "abandoning"
    /\ \/ /\ status' = [status EXCEPT ![Job(w)] = "error"]
          /\ ended' = ended \cup {Job(w)}
          /\ UNCHANGED faults
       \/ /\ Fault("db")
          /\ UNCHANGED <<status, ended>>
    /\ ClearKeys({Job(w)})
    /\ Acknowledge(w)
    /\ UNCHANGED <<snapshots, stale, queue, seen, clones, apiVars>>

-----------------------------------------------------------------------------
(***************************************************************************)
(* The workers: running a claimed scan.                                    *)
(***************************************************************************)

CloneOf(w) == <<VolumeOf[w], Job(w)>>
ReadsClone == {"extraction", "detection"}

\* cancel.check at a stage boundary.
CancelSeen(w) ==
    /\ pc[w] \in Checked
    /\ Job(w) \in flag
    /\ Goto(w, "cancelling")
    /\ UNCHANGED <<dbVars, redisVars, queue, seen, clones, apiVars, faults>>

\* clone_at_commit, which refuses a directory that already exists.
CloneRepository(w) ==
    /\ pc[w] = "cloning" /\ Job(w) \notin flag
    /\ IF CloneOf(w) \in clones
       THEN Goto(w, "failing") /\ UNCHANGED clones
       ELSE Goto(w, NextStage["cloning"]) /\ clones' = clones \cup {CloneOf(w)}
    /\ UNCHANGED <<dbVars, redisVars, queue, seen, apiVars, faults>>

\* Mutant: no check between two stages.
StageDoneUnchecked(w) ==
    /\ pc[w] \in Checked \ {"cloning"}
    /\ pc[w] \in ReadsClone => CloneOf(w) \in clones
    /\ Goto(w, NextStage[pc[w]])
    /\ UNCHANGED <<dbVars, redisVars, queue, seen, clones, apiVars, faults>>

\* extract, detect, predict and classify; the last check before _finalize.
StageDone(w) ==
    /\ pc[w] \in Checked \ {"cloning"} /\ Job(w) \notin flag
    /\ pc[w] \in ReadsClone => CloneOf(w) \in clones
    /\ Goto(w, NextStage[pc[w]])
    /\ UNCHANGED <<dbVars, redisVars, queue, seen, clones, apiVars, faults>>

\* A guardrail, an exception, or a time limit ends the stage.
StageFails(w) ==
    /\ pc[w] \in Checked \cup {"finalizing"}
    /\ Goto(w, "failing")
    /\ UNCHANGED <<dbVars, redisVars, queue, seen, clones, apiVars, faults>>

\* Mutant: the row is committed as done ahead of its snapshot.
FinalizeRowFirst(w) ==
    /\ pc[w] = "finalizing"
    /\ status' = [status EXCEPT ![Job(w)] = "done"]
    /\ ended' = ended \cup {Job(w)}
    /\ Goto(w, "finishing")
    /\ UNCHANGED <<snapshots, stale, redisVars, queue, seen, clones, apiVars, faults>>

\* _finalize: one transaction, and only once per attempt.
Finalize(w) ==
    /\ pc[w] = "finalizing"
    /\ IF Job(w) \in snapshots
       THEN Goto(w, "failing") /\ UNCHANGED <<status, ended, snapshots>>
       ELSE /\ snapshots' = snapshots \cup {Job(w)}
            /\ status' = [status EXCEPT ![Job(w)] = "done"]
            /\ ended' = ended \cup {Job(w)}
            /\ Goto(w, "finishing")
    /\ UNCHANGED <<stale, redisVars, queue, seen, clones, apiVars, faults>>

\* Mutant: a broker error while requesting the warm-up fails the scan.
FinishOrFail(w) ==
    /\ pc[w] = "finishing"
    /\ \E l \in {"cleanup", "failing"} : Goto(w, l)
    /\ UNCHANGED <<dbVars, redisVars, queue, seen, clones, apiVars, faults>>

\* The FINISHING stage is published and the score warm-up requested.
Finish(w) ==
    /\ pc[w] = "finishing"
    /\ Goto(w, "cleanup")
    /\ UNCHANGED <<dbVars, redisVars, queue, seen, clones, apiVars, faults>>

\* The soft time limit is raised after _finalize has committed.
LateTimeout(w) ==
    /\ pc[w] = "finishing"
    /\ Fault("limit")
    /\ Goto(w, "failing")
    /\ UNCHANGED <<dbVars, redisVars, queue, seen, clones, apiVars>>

Ending(w) == IF pc[w] = "cancelling" THEN "cancelled" ELSE "error"

\* _set_terminal in its own transaction, whatever the row says by now.
SetTerminal(w) ==
    /\ pc[w] \in {"cancelling", "failing"}
    /\ status' = [status EXCEPT ![Job(w)] = Ending(w)]
    /\ ended' = ended \cup {Job(w)}
    /\ Goto(w, "cleanup")
    /\ UNCHANGED <<snapshots, stale, redisVars, queue, seen, clones, apiVars, faults>>

\* _set_terminal raises: the row keeps its status, the finally block still runs.
SetTerminalFails(w) ==
    /\ pc[w] \in {"cancelling", "failing"}
    /\ Fault("db")
    /\ Goto(w, "cleanup")
    /\ UNCHANGED <<dbVars, redisVars, queue, seen, clones, apiVars>>

\* cancel.cleanup, and the end of the task.
Cleanup(w) ==
    /\ pc[w] = "cleanup"
    /\ clones' = clones \ {CloneOf(w)}
    /\ ClearKeys({Job(w)})
    /\ Acknowledge(w)
    /\ UNCHANGED <<dbVars, queue, seen, apiVars, faults>>

-----------------------------------------------------------------------------
(***************************************************************************)
(* Time and faults.                                                        *)
(***************************************************************************)

\* Mutant: the cutoff is shorter than the hard time limit.
AgeEarly(a) ==
    /\ status[a] = "running" /\ a \notin stale
    /\ stale' = stale \cup {a}
    /\ UNCHANGED <<status, ended, snapshots, redisVars, queue, workerVars, clones,
                   apiVars, faults>>

\* start_time passes the cutoff.  The hard limit kills every worker of the
\* attempt before that.
Age(a) ==
    /\ status[a] = "running" /\ a \notin stale
    /\ \A w \in Workers : pc[w] \in Claimed => Job(w) # a
    /\ stale' = stale \cup {a}
    /\ UNCHANGED <<status, ended, snapshots, redisVars, queue, workerVars, clones,
                   apiVars, faults>>

InBroker(a) == \E m \in Messages : m.scan = a /\ queue[m] > 0
Held(a)     == \E w \in Workers : pc[w] \in Busy /\ Job(w) = a

\* Every worker is away or in the middle of a scan.
NoWorkerFree == \A w \in Workers : pc[w] \in Scanning \cup {"down"}

\* A mark runs out.  A free worker asks every few seconds, far more often than
\* a heartbeat; the pickup life outlasts any wait of a message that exists.
MarkRunsOut(a) ==
    /\ status[a] = "queued"
    /\ \/ waiting[a] = "pickup" /\ ~InBroker(a)
       \/ waiting[a] = "beat" /\ (InBroker(a) => NoWorkerFree)
    /\ ~Held(a) /\ publishing[a] = "no"
    /\ waiting' = [waiting EXCEPT ![a] = "no"]
    /\ UNCHANGED <<dbVars, flag, graced, queue, workerVars, clones, apiVars, faults>>

\* The grace key outlives the mark set with it by two heartbeats: polled that
\* often, it runs out only where a worker renews the mark.
GraceRunsOut(a) ==
    /\ a \in graced
    /\ status[a] = "queued"
    /\ Watched => InBroker(a) \/ Held(a)
    /\ graced' = graced \ {a}
    /\ UNCHANGED <<dbVars, flag, waiting, queue, workerVars, clones, apiVars, faults>>

\* The child process dies: killed at the hard limit or by the kernel.  Its
\* parent acknowledges the message; the finally block never runs.
ChildKilled(w) ==
    /\ pc[w] \in Busy
    /\ Fault("kill")
    /\ Acknowledge(w) /\ ReleaseSeen(w)
    /\ UNCHANGED <<dbVars, redisVars, queue, clones, apiVars>>

\* The whole worker goes: scaled down, or its pod lost.  The broker delivers
\* what it held again.
WorkerLost(w) ==
    /\ pc[w] \in Busy \cup {"idle"}
    /\ Fault("pod")
    /\ queue' = IF pc[w] \in Busy THEN Put(queue, msg[w]) ELSE queue
    /\ pc' = [pc EXCEPT ![w] = "down"]
    /\ msg' = [msg EXCEPT ![w] = NoMessage]
    /\ ReleaseSeen(w)
    /\ UNCHANGED <<dbVars, redisVars, clones, apiVars>>

WorkerStarts(w) ==
    /\ pc[w] = "down"
    /\ Goto(w, "idle")
    /\ UNCHANGED <<dbVars, redisVars, queue, seen, clones, apiVars, faults>>

\* The visibility timeout passes while the worker still holds the message.
Redeliver(w) ==
    /\ pc[w] \in Busy
    /\ Fault("redeliver")
    /\ queue' = Put(queue, msg[w])
    /\ UNCHANGED <<dbVars, redisVars, workerVars, clones, apiVars>>

\* Redis restarts: its keys are gone, and perhaps the queue with them.
RedisRestarts ==
    /\ Fault("redis")
    /\ ClearKeys(Attempts)
    /\ queue' \in {queue, [m \in Messages |-> 0]}
    /\ UNCHANGED <<dbVars, workerVars, clones, apiVars>>

-----------------------------------------------------------------------------

ApiStep ==
    \/ StartRolledBack \/ Poll
    \/ \E a \in Attempts :
          \/ Start(a) \/ Publish(a) \/ PublishRaises(a) \/ MarkError(a) \/ ApiDies(a)
          \/ StopAsked(a) \/ StopQueued(a) \/ StopFlagged(a)

ClaimStep(w) ==
    \/ \E m \in Messages : Deliver(w, m)
    \/ ClaimRead(w) \/ ClaimRefused(w) \/ ClaimCount(w) \/ Claim(w)
    \/ WaitForSlot(w) \/ StopWaiting(w) \/ Quit(w)
    \/ ClaimConflicts(w) \/ ClaimDbError(w) \/ Abandon(w)

ScanStep(w) ==
    \/ CancelSeen(w) \/ CloneRepository(w) \/ StageDone(w) \/ StageFails(w)
    \/ Finalize(w) \/ Finish(w) \/ LateTimeout(w)
    \/ SetTerminal(w) \/ SetTerminalFails(w) \/ Cleanup(w)

Environment ==
    \/ RedisRestarts
    \/ \E a \in Attempts : Age(a) \/ MarkRunsOut(a) \/ GraceRunsOut(a)
    \/ \E w \in Workers :
          ChildKilled(w) \/ WorkerLost(w) \/ WorkerStarts(w) \/ Redeliver(w)

Next ==
    \/ ApiStep
    \/ \E w \in Workers : ClaimStep(w) \/ ScanStep(w)
    \/ Environment

Spec == Init /\ [][Next]_vars

(***************************************************************************)
(* Fairness.  A worker goes on with what it holds, and Celery delivers what *)
(* is queued; PostgreSQL grants an advisory lock in the order it was asked *)
(* for, so whoever waits for the slot gets it (strong fairness); the web   *)
(* client polls an active scan every second, so some poll finds the slot   *)
(* free, and not every time someone has just pressed Start; time passes.   *)
(* Starting and stopping scans, and faults, are free.                      *)
(***************************************************************************)
Proceeds(w) ==
    \/ ClaimCount(w) \/ Claim(w) \/ WaitForSlot(w) \/ StopWaiting(w) \/ Quit(w)
    \/ ClaimConflicts(w) \/ Abandon(w)
    \/ CancelSeen(w) \/ CloneRepository(w) \/ StageDone(w) \/ StageFails(w)
    \/ Finalize(w) \/ Finish(w) \/ SetTerminal(w) \/ Cleanup(w) \/ WorkerStarts(w)

Fairness ==
    /\ \A w \in Workers :
        /\ WF_vars(Proceeds(w))
        /\ WF_vars(\E m \in Messages : Deliver(w, m))
        /\ SF_vars(ClaimRead(w) \/ ClaimRefused(w))
    /\ \A a \in Attempts :
        /\ WF_vars(Publish(a)) /\ WF_vars(MarkError(a))
        /\ SF_vars(StopQueued(a) \/ StopFlagged(a))
        /\ WF_vars(Age(a)) /\ WF_vars(MarkRunsOut(a))
    /\ SF_vars(Poll)
    /\ SF_vars(Poll /\ Expired \cup Lost # {})

FairSpec == Spec /\ Fairness

-----------------------------------------------------------------------------
(***************************************************************************)
(* Properties.                                                             *)
(***************************************************************************)

\* Never more RUNNING rows than the workspace may run, whoever claims, expires,
\* retries or is delivered a message twice (begin_for_worker).
RunningWithinLimit == Cardinality(Running(Attempts)) <= MaxRunning

\* A branch has at most one scan that is queued or running: start() checks it
\* under the repository lock, a claim re-activates rows without that lock.
OneActivePerBranch ==
    \A a, b \in Attempts :
        status[a] \in Active /\ status[b] \in Active /\ BranchOf[a] = BranchOf[b] => a = b

\* The stop flag is only ever set on an attempt that has left the queue, although
\* the stop request and the claim both act on a row they read earlier: a queued
\* scan is stopped at once, never when some worker gets to it (cancel_queued).
StopNeverWaitsInQueue == flag \cap Queued = {}

\* A scan is reported done only with its snapshot, whatever overwrote the row.
DoneHasSnapshot == \A a \in Attempts : status[a] = "done" => a \in snapshots

\* A failed or stopped scan leaves no result behind.
FailedScanLeavesNoResult ==
    \A a \in Attempts : status[a] \in {"error", "cancelled"} => a \notin snapshots

\* A worker that reads its clone finds it there, and no other worker writes to
\* or deletes the same directory.
CheckoutIsPrivate ==
    \A w \in Workers :
        pc[w] \in ReadsClone =>
            /\ CloneOf(w) \in clones
            /\ \A o \in Workers \ {w} : pc[o] \in Scanning => CloneOf(o) # CloneOf(w)

\* An attempt that ended is never queued or running again: a redelivered message
\* must not restart a scan that finished, failed or was expired.
NeverRestarted ==
    [][\A a \in Attempts : status[a] \in Terminal => status'[a] \notin Active]_vars

\* The way an attempt ended is final, and so is a snapshot.
EndingIsFinal ==
    [][/\ snapshots \subseteq snapshots'
       /\ \A a \in Attempts : status[a] \in Terminal => status'[a] = status[a]]_vars

\* Every scan ends, whatever was killed, lost or restarted on the way.
EveryScanEnds ==
    \A a \in Attempts : status[a] \in Active ~> status[a] \in Terminal

\* The whole implements what the endpoints promise, as long as a message has one
\* copy, publishing does not raise, no time limit strikes after the commit and no
\* message uses up its claims (_retry_claim ends whatever the row says by then).
Ledger == INSTANCE ScanLedger WITH Scans <- Attempts, phase <- status, results <- snapshots
ImplementsLedger == Ledger!Spec

\* A stop requested before the last check ends the scan without a result, unless
\* Redis loses the flag meanwhile.
BeforeLastCheck(a) ==
    /\ status[a] = "running" /\ a \in flag
    /\ \A w \in Workers : pc[w] \in Busy /\ Job(w) = a => pc[w] \in Checked
StopIsHonoured ==
    \A a \in Attempts :
        BeforeLastCheck(a) ~>
            \/ status[a] \in {"cancelled", "error"}
            \/ status[a] = "running" /\ a \notin flag
=============================================================================
