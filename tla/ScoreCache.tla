---------------------------- MODULE ScoreCache ----------------------------
(***************************************************************************)
(* The cached scores of finished snapshots: rows of snapshot_score, the    *)
(* requests and warming tasks that prepare and queue them, the score       *)
(* workers that calculate them, and the Redis key that says a score was    *)
(* queued a moment ago.                                                    *)
(*                                                                         *)
(* The ORM reads a row once in a transaction and writes back the columns   *)
(* it changed when the transaction commits, so what it read may be old by  *)
(* then: reading and writing are separate steps.                           *)
(***************************************************************************)
EXTENDS Integers, FiniteSets

CONSTANTS
  Rows,         \* a snapshot under one profile fingerprint and engine version
  Workers,      \* score worker processes
  Requests,     \* API requests and warming tasks that run at the same time
  NoRow,        \* "no row", of a worker that holds no message
  MaxCopies,    \* bound: no request starts on a score with this many messages
  ClaimsExpire, \* whether the two minutes of an enqueue claim may pass
  FaultKinds,   \* the faults that may happen
  MaxFaults     \* bound on their number

ASSUME ScoreAssumption ==
  /\ MaxCopies \in Nat
  /\ ClaimsExpire \in BOOLEAN
  /\ MaxFaults \in Nat

ASSUME NoRowAssumption == NoRow \notin Rows

Kinds == {"poll", "batch", "list"}

VARIABLES
  row,     \* each row's status and age of started_at; absent, or gone with its snapshot
  claims,  \* rows with a live enqueue claim in Redis
  queue,   \* messages of codesage.score_snapshot in the broker, per row
  req,     \* each request: what it has read and what it will write and send
  pc, job, \* each worker: where it is in score_snapshot, and for which row
  seen,    \* the status a worker read before it marks the row running
  faults   \* faults so far

vars == <<row, claims, queue, req, pc, job, seen, faults>>
work == <<pc, job, seen>>

Statuses == {"absent", "pending", "running", "ready", "error", "gone"}

RequestStates ==
  [phase : {"idle", "reading", "sending"}, kind : Kinds, todo : SUBSET Rows,
   inserts : SUBSET Rows, resets : SUBSET Rows, clears : SUBSET Rows, jobs : SUBSET Rows]

\* One type invariant: every variable holds a value of the kind the code keeps there.
TypeOK ==
  /\ row \in [Rows -> [status : Statuses, started : {"none", "fresh", "old"}]]
  /\ claims \subseteq Rows
  /\ queue \in [Rows -> Nat]
  /\ req \in [Requests -> RequestStates]
  /\ pc \in [Workers -> {"idle", "marking", "running", "calculating", "finished", "failed"}]
  /\ job \in [Workers -> Rows \cup {NoRow}]
  /\ seen \in [Workers -> Statuses]
  /\ faults \in Nat

----------------------------------------------------------------------------

NoRequest ==
  [phase |-> "idle", kind |-> "poll", todo |-> {}, inserts |-> {}, resets |-> {},
   clears |-> {}, jobs |-> {}]

\* Every profile change and every finished scan starts from rows that are not there yet.
Init ==
  /\ row = [r \in Rows |-> [status |-> "absent", started |-> "none"]]
  /\ claims = {}
  /\ queue = [r \in Rows |-> 0]
  /\ req = [q \in Requests |-> NoRequest]
  /\ pc = [w \in Workers |-> "idle"]
  /\ job = [w \in Workers |-> NoRow]
  /\ seen = [w \in Workers |-> "absent"]
  /\ faults = 0

Fault(kind) ==
  /\ kind \in FaultKinds
  /\ faults < MaxFaults
  /\ faults' = faults + 1

Status(r) == row[r].status
End(q) == req' = [req EXCEPT ![q] = NoRequest]

----------------------------------------------------------------------------
(* Requests and warming tasks                                              *)

(***************************************************************************)
(* "poll": one report or findings page whose score is not ready.           *)
(* "batch": trend, history and the warming tasks, which go through many    *)
(* snapshots.  "list": the projects page.                                  *)
(***************************************************************************)
Start(q, kind, rows) ==
  /\ req[q].phase = "idle"
  /\ rows # {}
  /\ kind = "poll" => \E r \in rows : rows = {r}
  /\ \A r \in rows : queue[r] < MaxCopies
  /\ req' = [req EXCEPT ![q] =
       [NoRequest EXCEPT !.phase = "reading", !.kind = kind, !.todo = rows]]
  /\ UNCHANGED <<row, claims, queue, work, faults>>

\* prepare_snapshot_score answers created = True for these.
Created(r) == Status(r) \in {"absent", "error"}

\* Mutant: without _stalled: a row left running by a dead worker is not noticed.
WaitingUnstalled(r) == Created(r) \/ (Status(r) = "pending" /\ row[r].started = "none")

\* A row that nobody has picked up, or that a dead worker left running.
Waiting(r) ==
  \/ Created(r)
  \/ Status(r) = "pending" /\ row[r].started = "none"
  \/ Status(r) = "running" /\ row[r].started = "old"

\* The insert of a row is flushed at once: nobody else can insert it until it commits.
Inserting(r) == {q \in Requests : r \in req[q].inserts /\ req[q].phase = "reading"}

\* prepare_snapshot_score: the row is created, or an error row becomes pending,
\* in the session of q; `jobs` has r if it is to be queued.
Prepare(q, r, queued) ==
  LET old == req[q]
      error == Status(r) = "error"
      With(set, test) == IF test THEN set \cup {r} ELSE set
  IN req' = [req EXCEPT ![q] = [old EXCEPT
       !.todo = old.todo \ {r},
       !.inserts = With(old.inserts, Status(r) = "absent"),
       !.resets = With(old.resets, error),
       !.clears = With(old.clears, error /\ row[r].started # "none"),
       !.jobs = With(old.jobs, queued)]]

\* needs_enqueue: one claim in two minutes; without Redis the claim is granted.
PrepareClaimed(q, r) ==
  /\ req[q].kind # "list"
  /\ Waiting(r)
  /\ \/ r \notin claims /\ claims' = claims \cup {r} /\ UNCHANGED faults
     \/ Fault("claim") /\ UNCHANGED claims
  /\ Prepare(q, r, TRUE)

\* Nothing to queue: not waiting, or queued by another request a moment ago.
PrepareOnly(q, r) ==
  /\ req[q].kind # "list"
  /\ Waiting(r) => r \in claims
  /\ Prepare(q, r, FALSE)
  /\ UNCHANGED <<claims, faults>>

\* build_latest_health_hint and list_projects queue what they created, unclaimed.
PrepareListed(q, r) ==
  /\ req[q].kind = "list"
  /\ Prepare(q, r, Created(r))
  /\ UNCHANGED <<claims, faults>>

Read(q, r) ==
  /\ req[q].phase = "reading" /\ r \in req[q].todo
  /\ Inserting(r) = {}
  /\ PrepareClaimed(q, r) \/ PrepareOnly(q, r) \/ PrepareListed(q, r)
  /\ UNCHANGED <<row, queue, work>>

\* Another request inserted the row first: the unique constraint ends this one.
InsertRefused(q, r) ==
  /\ req[q].phase = "reading" /\ r \in req[q].todo
  /\ Inserting(r) # {}
  /\ End(q)
  /\ UNCHANGED <<row, claims, queue, work, faults>>

Writes(q) == req[q].inserts \cup req[q].resets
Refused(q) == \E r \in Writes(q) : Status(r) = "gone"
NothingToSay(q) == req[q].kind = "poll" /\ req[q].jobs = {}

\* Mutant: without started_at = None on an error row.
CommitKeepingStart(q) ==
  /\ req[q].phase = "reading" /\ req[q].todo = {}
  /\ ~Refused(q) /\ ~NothingToSay(q)
  /\ row' = [r \in Rows |->
       IF r \in req[q].inserts THEN [status |-> "pending", started |-> "none"]
       ELSE IF r \in req[q].resets THEN [row[r] EXCEPT !.status = "pending"]
       ELSE row[r]]
  /\ IF req[q].jobs = {} THEN End(q)
     ELSE req' = [req EXCEPT ![q].phase = "sending"]
  /\ UNCHANGED <<claims, queue, work, faults>>

\* The transaction commits before anything is sent.
Commit(q) ==
  /\ req[q].phase = "reading" /\ req[q].todo = {}
  /\ ~Refused(q) /\ ~NothingToSay(q)
  /\ row' = [r \in Rows |->
       IF r \in req[q].inserts THEN [status |-> "pending", started |-> "none"]
       ELSE IF r \in req[q].clears THEN [status |-> "pending", started |-> "none"]
       ELSE IF r \in req[q].resets THEN [row[r] EXCEPT !.status = "pending"]
       ELSE row[r]]
  /\ IF req[q].jobs = {} THEN End(q)
     ELSE req' = [req EXCEPT ![q].phase = "sending"]
  /\ UNCHANGED <<claims, queue, work, faults>>

\* ScorePending is raised, or the snapshot is gone: the transaction is rolled back.
Rollback(q) ==
  /\ req[q].phase = "reading" /\ req[q].todo = {}
  /\ Refused(q) \/ NothingToSay(q)
  /\ End(q)
  /\ UNCHANGED <<row, claims, queue, work, faults>>

SendAll(q, r) ==
  IF req[q].jobs = {r} THEN End(q)
  ELSE req' = [req EXCEPT ![q] = [req[q] EXCEPT !.jobs = req[q].jobs \ {r}]]

\* Mutant: sent from the loop that prepares, before the commit.
SendBeforeCommit(q, r) ==
  /\ req[q].phase = "reading" /\ r \in req[q].jobs
  /\ queue' = [queue EXCEPT ![r] = @ + 1]
  /\ req' = [req EXCEPT ![q].jobs = @ \ {r}]
  /\ UNCHANGED <<row, claims, work, faults>>

Send(q, r) ==
  /\ req[q].phase = "sending" /\ r \in req[q].jobs
  /\ queue' = [queue EXCEPT ![r] = @ + 1]
  /\ SendAll(q, r)
  /\ UNCHANGED <<row, claims, work, faults>>

(***************************************************************************)
(* The broker refuses a message, or takes it and the answer is lost.       *)
(* list_projects then writes "error" on every row it prepared: it means to *)
(* spare those no longer pending, but session.get hands back its own copy. *)
(***************************************************************************)
SendFails(q, r) ==
  /\ req[q].phase = "sending" /\ r \in req[q].jobs
  /\ Fault("send")
  /\ queue' \in {queue, [queue EXCEPT ![r] = @ + 1]}
  /\ row' = IF req[q].kind = "list" /\ ~Refused(q)
            THEN [s \in Rows |->
                    IF s \in Writes(q) THEN [row[s] EXCEPT !.status = "error"] ELSE row[s]]
            ELSE row
  /\ End(q)
  /\ UNCHANGED <<claims, work>>

\* The process dies, or the database ends the transaction.
RequestDies(q) ==
  /\ req[q].phase # "idle"
  /\ Fault("api")
  /\ End(q)
  /\ UNCHANGED <<row, claims, queue, work>>

----------------------------------------------------------------------------
(* score_snapshot                                                          *)

Goto(w, place) == pc' = [pc EXCEPT ![w] = place]

\* The task returns and its message is acknowledged.
Leave(w) ==
  /\ Goto(w, "idle")
  /\ job' = [job EXCEPT ![w] = NoRow]
  /\ seen' = [seen EXCEPT ![w] = "absent"]

Done(r) == Status(r) \in {"absent", "gone", "ready"}

\* The message arrives and the first transaction reads the row.
Begin(w, r) ==
  /\ pc[w] = "idle"
  /\ queue[r] > 0
  /\ queue' = [queue EXCEPT ![r] = @ - 1]
  /\ IF Done(r) THEN UNCHANGED work
     ELSE /\ Goto(w, "marking")
          /\ job' = [job EXCEPT ![w] = r]
          /\ seen' = [seen EXCEPT ![w] = Status(r)]
  /\ UNCHANGED <<row, claims, req, faults>>

\* The first transaction commits: status is written only if it changes.
MarkRunning(w) ==
  /\ pc[w] = "marking"
  /\ IF Status(job[w]) = "gone" THEN Goto(w, "failed") /\ UNCHANGED row
     ELSE /\ row' = [row EXCEPT
               ![job[w]].status = IF seen[w] = "running" THEN @ ELSE "running",
               ![job[w]].started = "fresh"]
          /\ Goto(w, "running")
  /\ UNCHANGED <<claims, queue, req, job, seen, faults>>

\* The second transaction reads the row again.
Calculate(w) ==
  /\ pc[w] = "running"
  /\ IF Done(job[w]) THEN Leave(w)
     ELSE Goto(w, "calculating") /\ UNCHANGED <<job, seen>>
  /\ UNCHANGED <<row, claims, queue, req, faults>>

\* The second transaction commits the values with "ready".
Finish(w) ==
  /\ pc[w] = "calculating"
  /\ IF Status(job[w]) = "gone" THEN Goto(w, "failed") /\ UNCHANGED row
     ELSE Goto(w, "finished") /\ row' = [row EXCEPT ![job[w]].status = "ready"]
  /\ UNCHANGED <<claims, queue, req, job, seen, faults>>

Return(w) ==
  /\ pc[w] = "finished"
  /\ Leave(w)
  /\ UNCHANGED <<row, claims, queue, req, faults>>

\* The database fails in the first transaction ("mark"); or later it does, or the
\* calculation, or the soft time limit strikes, which it may still do when the
\* second transaction has committed.
Raise(w) ==
  /\ \/ pc[w] = "marking" /\ Fault("mark")
     \/ pc[w] \in {"running", "calculating", "finished"} /\ Fault("raise")
  /\ Goto(w, "failed")
  /\ UNCHANGED <<row, claims, queue, req, job, seen>>

\* Mutant: the except clause logs the failure and leaves the row as it is.
RecordNothing(w) ==
  /\ pc[w] = "failed"
  /\ Leave(w)
  /\ UNCHANGED <<row, claims, queue, req, faults>>

\* The third transaction.
RecordError(w) ==
  /\ pc[w] = "failed"
  /\ row' = IF Status(job[w]) = "gone" THEN row
            ELSE [row EXCEPT ![job[w]].status = "error"]
  /\ Leave(w)
  /\ UNCHANGED <<claims, queue, req, faults>>

\* The third transaction fails too; or the hard limit or the kernel ends the
\* child at any point. The message is acknowledged all the same.
Vanish(w) ==
  /\ pc[w] # "idle"
  /\ \/ pc[w] = "failed" /\ Fault("db")
     \/ Fault("kill")
  /\ Leave(w)
  /\ UNCHANGED <<row, claims, queue, req>>

\* The worker goes away and the broker delivers its message again.
GiveBack(w) ==
  /\ pc[w] # "idle"
  /\ Fault("pod")
  /\ queue' = [queue EXCEPT ![job[w]] = @ + 1]
  /\ Leave(w)
  /\ UNCHANGED <<row, claims, req>>

----------------------------------------------------------------------------
(* Time, Redis, and the removal of a repository                            *)

Working == {"running", "calculating", "finished", "failed"}
WorkedOn(r) == \E w \in Workers : job[w] = r /\ pc[w] \in Working

\* started_at is twice the time limit ago: by then the hard limit has struck.
Age(r) ==
  /\ Status(r) = "running" /\ row[r].started = "fresh"
  /\ ~WorkedOn(r)
  /\ row' = [row EXCEPT ![r].started = "old"]
  /\ UNCHANGED <<claims, queue, req, work, faults>>

Expire(r) ==
  /\ ClaimsExpire
  /\ r \in claims
  /\ claims' = claims \ {r}
  /\ UNCHANGED <<row, queue, req, work, faults>>

RedisRestarts ==
  /\ Fault("redis")
  /\ claims' = {}
  /\ queue' \in {queue, [r \in Rows |-> 0]}
  /\ UNCHANGED <<row, req, work>>

\* The repository is disconnected: its snapshots and their scores go with it.
Remove(r) ==
  /\ Status(r) \notin {"absent", "gone"}
  /\ Fault("remove")
  /\ row' = [row EXCEPT ![r] = [status |-> "gone", started |-> "none"]]
  /\ UNCHANGED <<claims, queue, req, work>>

Next ==
  \/ \E q \in Requests :
       \/ \E kind \in Kinds, rows \in SUBSET Rows : Start(q, kind, rows)
       \/ \E r \in Rows : Read(q, r) \/ InsertRefused(q, r) \/ Send(q, r) \/ SendFails(q, r)
       \/ Commit(q) \/ Rollback(q) \/ RequestDies(q)
  \/ \E w \in Workers :
       \/ \E r \in Rows : Begin(w, r)
       \/ MarkRunning(w) \/ Calculate(w) \/ Finish(w) \/ Return(w)
       \/ Raise(w) \/ RecordError(w) \/ Vanish(w) \/ GiveBack(w)
  \/ \E r \in Rows : Age(r) \/ Expire(r) \/ Remove(r)
  \/ RedisRestarts

Spec == Init /\ [][Next]_vars

(***************************************************************************)
(* Workers work, messages are delivered in order, requests go on, time     *)
(* passes, and the dashboard asks again and again for a score it waits for.*)
(***************************************************************************)
Fairness ==
  /\ \A q \in Requests :
       /\ WF_vars(\E r \in Rows : Read(q, r) \/ Send(q, r))
       /\ WF_vars(Commit(q) \/ Rollback(q))
  /\ \A w \in Workers :
       /\ WF_vars(MarkRunning(w) \/ Calculate(w) \/ Finish(w) \/ Return(w))
       /\ WF_vars(RecordError(w))
  /\ \A r \in Rows :
       /\ SF_vars(\E w \in Workers : Begin(w, r))
       /\ SF_vars(\E q \in Requests : Start(q, "poll", {r}))
       /\ WF_vars(Age(r))
       /\ WF_vars(Expire(r))

FairSpec == Spec /\ Fairness

----------------------------------------------------------------------------
(* Properties                                                              *)

\* A message is sent only for a row that is committed: a worker that found no
\* row would return, and the score would wait for the next claim. (commit before
\* send in _enqueue_pending_score, _enqueue_missing_scores, list_projects, _warm)
SentRowsExist == \A r \in Rows : queue[r] > 0 => Status(r) # "absent"

\* A score says "running" only while a worker is at it, whatever fails inside the
\* task: the worker that marked it ends it as ready or as an error (score_snapshot).
\* Only vanished workers leave one behind.
Busy == {"running", "calculating", "failed"}
RunningHasWorker ==
  \A r \in Rows : Status(r) = "running" => \E w \in Workers : job[w] = r /\ pc[w] \in Busy

\* A pending score with a start time is overlooked by needs_enqueue, so somebody
\* must still have it: a message, a worker, or a request about to send.
InHand(r) ==
  \/ queue[r] > 0
  \/ \E w \in Workers : job[w] = r
  \/ \E q \in Requests : r \in req[q].jobs
NoScoreOverlooked ==
  \A r \in Rows : Status(r) = "pending" /\ row[r].started # "none" => InHand(r)

\* A score that was asked for becomes ready, unless its snapshot goes: errors are
\* tried again and scores left by dead workers are queued again (needs_enqueue).
ScoresBecomeReady ==
  \A r \in Rows : Status(r) # "absent" ~> Status(r) \in {"ready", "gone"}
============================================================================
