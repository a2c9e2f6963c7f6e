------------------------ MODULE ScoreCache_proofs ------------------------
(***************************************************************************)
(* Theorems about ScoreCache: type correctness, that messages are sent for *)
(* committed rows only, that a running score has a worker as long as       *)
(* workers do not vanish, and that a single failure leaves no score        *)
(* overlooked.                                                             *)
(***************************************************************************)
EXTENDS ScoreCache, TLAPS

\* A fault is counted, whatever its kind.
LEMMA FaultType ==
  ASSUME TypeOK, NEW kind, Fault(kind)
  PROVE  faults' \in Nat
BY DEF TypeOK, Fault

\* A request that ends is the idle request again.
LEMMA EndType ==
  ASSUME TypeOK, NEW q \in Requests, End(q)
  PROVE  req' \in [Requests -> RequestStates]
BY DEF TypeOK, End, NoRequest, RequestStates, Kinds

\* A worker that leaves holds no message.
LEMMA LeaveType ==
  ASSUME TypeOK, NEW w \in Workers, Leave(w)
  PROVE  /\ pc' \in [Workers -> {"idle", "marking", "running", "calculating", "finished", "failed"}]
         /\ job' \in [Workers -> Rows \cup {NoRow}]
         /\ seen' \in [Workers -> Statuses]
BY DEF TypeOK, Leave, Goto, Statuses

\* A worker that is past the first read holds a row.
JobsHeld == \A w \in Workers : pc[w] # "idle" => job[w] \in Rows

Inv == TypeOK /\ JobsHeld

LEMMA InitInv == Init => Inv
BY ScoreAssumption DEF Init, Inv, TypeOK, JobsHeld, Statuses, RequestStates, Kinds, NoRequest

\* The steps of a request or a warming task.
RequestStep(q) ==
  \/ \E kind \in Kinds, rows \in SUBSET Rows : Start(q, kind, rows)
  \/ \E r \in Rows : Read(q, r) \/ InsertRefused(q, r) \/ Send(q, r) \/ SendFails(q, r)
  \/ Commit(q) \/ Rollback(q) \/ RequestDies(q)

\* The steps of a score worker.
WorkerStep(w) ==
  \/ \E r \in Rows : Begin(w, r)
  \/ MarkRunning(w) \/ Calculate(w) \/ Finish(w) \/ Return(w)
  \/ Raise(w) \/ RecordError(w) \/ Vanish(w) \/ GiveBack(w)

\* Fields of a request may be replaced one by one.
LEMMA ReplaceJobs ==
  ASSUME NEW old \in RequestStates, NEW left \in SUBSET Rows
  PROVE  [old EXCEPT !.jobs = left] \in RequestStates
BY DEF RequestStates

LEMMA ReplaceSets ==
  ASSUME NEW old \in RequestStates, NEW todo \in SUBSET Rows, NEW inserts \in SUBSET Rows,
         NEW resets \in SUBSET Rows, NEW clears \in SUBSET Rows, NEW jobs \in SUBSET Rows
  PROVE  [old EXCEPT !.todo = todo, !.inserts = inserts, !.resets = resets,
                     !.clears = clears, !.jobs = jobs] \in RequestStates
BY DEF RequestStates

\* What a request reads keeps its type.
LEMMA PrepareType ==
  ASSUME TypeOK, NEW q \in Requests, NEW r \in Rows, NEW queued \in BOOLEAN,
         Prepare(q, r, queued)
  PROVE  req' \in [Requests -> RequestStates]
<1>1. req[q] \in RequestStates
  BY DEF TypeOK
<1>2. \A set \in SUBSET Rows :
        /\ set \ {r} \in SUBSET Rows
        /\ \A test \in BOOLEAN : (IF test THEN set \cup {r} ELSE set) \in SUBSET Rows
  OBVIOUS
<1> DEFINE todo == req[q].todo \ {r}
           inserts == IF Status(r) = "absent" THEN req[q].inserts \cup {r} ELSE req[q].inserts
           resets == IF Status(r) = "error" THEN req[q].resets \cup {r} ELSE req[q].resets
           clears == IF Status(r) = "error" /\ row[r].started # "none"
                     THEN req[q].clears \cup {r} ELSE req[q].clears
           jobs == IF queued THEN req[q].jobs \cup {r} ELSE req[q].jobs
           new == [req[q] EXCEPT !.todo = todo, !.inserts = inserts, !.resets = resets,
                                 !.clears = clears, !.jobs = jobs]
<1>3. todo \in SUBSET Rows /\ inserts \in SUBSET Rows /\ resets \in SUBSET Rows
  BY <1>1, <1>2 DEF RequestStates
<1>4. clears \in SUBSET Rows /\ jobs \in SUBSET Rows
  BY <1>1, <1>2 DEF RequestStates
<1>5. req' = [req EXCEPT ![q] = new]
  BY DEF Prepare
<1> HIDE DEF todo, inserts, resets, clears, jobs
<1>6. new \in RequestStates
  BY <1>1, <1>3, <1>4, ReplaceSets
<1> HIDE DEF new
<1> QED BY <1>5, <1>6 DEF TypeOK

\* A request changes neither workers nor what they hold.
LEMMA RequestKeepsInv ==
  ASSUME Inv, NEW q \in Requests, RequestStep(q)
  PROVE  Inv'
<1> USE DEF Inv
<1>1. ASSUME NEW kind \in Kinds, NEW rows \in SUBSET Rows, Start(q, kind, rows) PROVE Inv'
  BY <1>1 DEF Start, TypeOK, JobsHeld, RequestStates, NoRequest, work
<1>2. ASSUME NEW r \in Rows, Read(q, r) PROVE Inv'
  <2>1. req' \in [Requests -> RequestStates]
    <3>1. Created(r) \in BOOLEAN
      BY DEF Created
    <3> QED BY <1>2, <3>1, PrepareType DEF Read, PrepareClaimed, PrepareOnly, PrepareListed
  <2>2. claims' \subseteq Rows /\ faults' \in Nat
    BY <1>2, FaultType DEF Read, PrepareClaimed, PrepareOnly, PrepareListed, TypeOK
  <2> QED BY <1>2, <2>1, <2>2 DEF Read, TypeOK, JobsHeld, work
<1>3. ASSUME NEW r \in Rows, InsertRefused(q, r) PROVE Inv'
  BY <1>3, EndType DEF InsertRefused, TypeOK, JobsHeld, work
<1>4. ASSUME NEW r \in Rows, Send(q, r) PROVE Inv'
  <2>1. req' \in [Requests -> RequestStates]
    <3>1. CASE req[q].jobs = {r}
      BY <1>4, <3>1, EndType DEF Send, SendAll
    <3>2. CASE req[q].jobs # {r}
      <4>1. req[q] \in RequestStates /\ req[q].jobs \ {r} \in SUBSET Rows
        BY DEF TypeOK, RequestStates
      <4> DEFINE left == req[q].jobs \ {r}
                 new == [req[q] EXCEPT !.jobs = left]
      <4>2. req' = [req EXCEPT ![q] = new]
        BY <1>4, <3>2 DEF Send, SendAll
      <4> HIDE DEF left
      <4>3. new \in RequestStates
        BY <4>1, ReplaceJobs DEF left
      <4> HIDE DEF new
      <4> QED BY <4>2, <4>3 DEF TypeOK
    <3> QED BY <3>1, <3>2
  <2> QED BY <1>4, <2>1 DEF Send, TypeOK, JobsHeld, work
<1>5. ASSUME NEW r \in Rows, SendFails(q, r) PROVE Inv'
  <2>1. row' \in [Rows -> [status : Statuses, started : {"none", "fresh", "old"}]]
    BY <1>5 DEF SendFails, TypeOK, Statuses
  <2>2. queue' \in [Rows -> Nat]
    BY <1>5 DEF SendFails, TypeOK
  <2> QED BY <1>5, <2>1, <2>2, EndType, FaultType DEF SendFails, TypeOK, JobsHeld, work
<1>6. ASSUME Commit(q) PROVE Inv'
  <2>1. row' \in [Rows -> [status : Statuses, started : {"none", "fresh", "old"}]]
    BY <1>6 DEF Commit, TypeOK, Statuses
  <2>2. req' \in [Requests -> RequestStates]
    <3>1. CASE End(q)
      BY <3>1, EndType
    <3>2. CASE req' = [req EXCEPT ![q].phase = "sending"]
      BY <3>2 DEF TypeOK, RequestStates
    <3> QED BY <1>6, <3>1, <3>2 DEF Commit
  <2> QED BY <1>6, <2>1, <2>2 DEF Commit, TypeOK, JobsHeld, work
<1>7. ASSUME Rollback(q) PROVE Inv'
  BY <1>7, EndType DEF Rollback, TypeOK, JobsHeld, work
<1>8. ASSUME RequestDies(q) PROVE Inv'
  BY <1>8, EndType, FaultType DEF RequestDies, TypeOK, JobsHeld, work
<1> QED BY <1>1, <1>2, <1>3, <1>4, <1>5, <1>6, <1>7, <1>8 DEF RequestStep

\* A worker moves through score_snapshot with its row and puts it down at the end.
LEMMA WorkerKeepsInv ==
  ASSUME Inv, NEW w \in Workers, WorkerStep(w)
  PROVE  Inv'
<1> USE DEF Inv
<1>1. ASSUME NEW r \in Rows, Begin(w, r) PROVE Inv'
  <2>1. queue' \in [Rows -> Nat]
    BY <1>1 DEF Begin, TypeOK
  <2>2. Status(r) \in Statuses
    BY DEF TypeOK, Status
  <2>3. CASE Done(r)
    BY <1>1, <2>1, <2>3 DEF Begin, TypeOK, JobsHeld, work
  <2>4. CASE ~Done(r)
    BY <1>1, <2>1, <2>2, <2>4 DEF Begin, Goto, TypeOK, JobsHeld
  <2> QED BY <2>3, <2>4
<1>2. ASSUME MarkRunning(w) PROVE Inv'
  <2>1. row' \in [Rows -> [status : Statuses, started : {"none", "fresh", "old"}]]
    BY <1>2 DEF MarkRunning, TypeOK, Statuses
  <2> QED BY <1>2, <2>1 DEF MarkRunning, Goto, TypeOK, JobsHeld
<1>3. ASSUME Calculate(w) PROVE Inv'
  BY <1>3, LeaveType DEF Calculate, Leave, Goto, TypeOK, JobsHeld
<1>4. ASSUME Finish(w) PROVE Inv'
  <2>1. row' \in [Rows -> [status : Statuses, started : {"none", "fresh", "old"}]]
    BY <1>4 DEF Finish, TypeOK, Statuses
  <2> QED BY <1>4, <2>1 DEF Finish, Goto, TypeOK, JobsHeld
<1>5. ASSUME Return(w) PROVE Inv'
  BY <1>5, LeaveType DEF Return, Leave, Goto, TypeOK, JobsHeld
<1>6. ASSUME Raise(w) PROVE Inv'
  BY <1>6, FaultType DEF Raise, Goto, TypeOK, JobsHeld
<1>7. ASSUME RecordError(w) PROVE Inv'
  <2>1. row' \in [Rows -> [status : Statuses, started : {"none", "fresh", "old"}]]
    BY <1>7 DEF RecordError, TypeOK, Statuses
  <2> QED BY <1>7, <2>1, LeaveType DEF RecordError, Leave, Goto, TypeOK, JobsHeld
<1>8. ASSUME Vanish(w) PROVE Inv'
  BY <1>8, LeaveType, FaultType DEF Vanish, Leave, Goto, TypeOK, JobsHeld
<1>9. ASSUME GiveBack(w) PROVE Inv'
  <2>1. queue' \in [Rows -> Nat]
    BY <1>9 DEF GiveBack, TypeOK, JobsHeld
  <2> QED BY <1>9, <2>1, LeaveType, FaultType DEF GiveBack, Leave, Goto, TypeOK, JobsHeld
<1> QED BY <1>1, <1>2, <1>3, <1>4, <1>5, <1>6, <1>7, <1>8, <1>9 DEF WorkerStep

\* Time, Redis and removals touch rows, claims and messages one at a time.
LEMMA WorldKeepsInv ==
  ASSUME Inv, (\E r \in Rows : Age(r) \/ Expire(r) \/ Remove(r)) \/ RedisRestarts
  PROVE  Inv'
<1> USE DEF Inv
<1>1. ASSUME NEW r \in Rows, Age(r) PROVE Inv'
  BY <1>1 DEF Age, TypeOK, JobsHeld, work
<1>2. ASSUME NEW r \in Rows, Expire(r) PROVE Inv'
  BY <1>2 DEF Expire, TypeOK, JobsHeld, work
<1>3. ASSUME NEW r \in Rows, Remove(r) PROVE Inv'
  BY <1>3, FaultType DEF Remove, TypeOK, JobsHeld, work, Statuses
<1>4. ASSUME RedisRestarts PROVE Inv'
  BY <1>4, FaultType DEF RedisRestarts, TypeOK, JobsHeld, work
<1> QED BY <1>1, <1>2, <1>3, <1>4

LEMMA NextKeepsInv == Inv /\ [Next]_vars => Inv'
<1> SUFFICES ASSUME Inv, [Next]_vars PROVE Inv'
  OBVIOUS
<1>1. ASSUME UNCHANGED vars PROVE Inv'
  BY <1>1 DEF vars, Inv, TypeOK, JobsHeld
<1>2. ASSUME Next PROVE Inv'
  BY <1>2, RequestKeepsInv, WorkerKeepsInv, WorldKeepsInv DEF Next, RequestStep, WorkerStep
<1> QED BY <1>1, <1>2

\* Every variable keeps its type, whatever the interleaving and the faults.
THEOREM TypeCorrect == Spec => []TypeOK
<1>1. Inv => TypeOK
  BY DEF Inv
<1> QED BY <1>1, InitInv, NextKeepsInv, PTL DEF Spec

----------------------------------------------------------------------------
(* Rows before messages                                                    *)

\* A row is never taken back: it exists, or it goes with its snapshot.
LEMMA RowsStay ==
  ASSUME Inv, [Next]_vars
  PROVE  \A r \in Rows : row[r].status # "absent" => row'[r].status # "absent"
<1> SUFFICES ASSUME NEW r \in Rows, row[r].status # "absent" PROVE row'[r].status # "absent"
  OBVIOUS
<1> USE DEF Inv, TypeOK, Status
<1>1. CASE UNCHANGED row
  BY <1>1
<1>2. ASSUME NEW q \in Requests, Commit(q) PROVE row'[r].status # "absent"
  BY <1>2 DEF Commit
<1>3. ASSUME NEW q \in Requests, NEW s \in Rows, SendFails(q, s) PROVE row'[r].status # "absent"
  BY <1>3 DEF SendFails
<1>4. ASSUME NEW w \in Workers, MarkRunning(w) PROVE row'[r].status # "absent"
  BY <1>4 DEF MarkRunning, JobsHeld
<1>5. ASSUME NEW w \in Workers, Finish(w) PROVE row'[r].status # "absent"
  BY <1>5 DEF Finish, JobsHeld
<1>6. ASSUME NEW w \in Workers, RecordError(w) PROVE row'[r].status # "absent"
  BY <1>6 DEF RecordError, JobsHeld
<1>7. ASSUME NEW s \in Rows, Age(s) PROVE row'[r].status # "absent"
  BY <1>7 DEF Age
<1>8. ASSUME NEW s \in Rows, Remove(s) PROVE row'[r].status # "absent"
  BY <1>8 DEF Remove
<1>9. CASE UNCHANGED vars
  BY <1>9 DEF vars
<1>10. CASE Next
  BY <1>1, <1>2, <1>3, <1>4, <1>5, <1>6, <1>7, <1>8, <1>10
     DEF Next, Start, Read, InsertRefused, Send, Rollback, RequestDies, Begin, Calculate,
         Return, Raise, Vanish, GiveBack, Expire, RedisRestarts
<1> QED BY <1>9, <1>10

\* What reading a row does to the request.
LEMMA PrepareEffect ==
  ASSUME TypeOK, NEW q \in Requests, NEW r \in Rows, NEW queued, Prepare(q, r, queued)
  PROVE  /\ \A p \in Requests \ {q} : req'[p] = req[p]
         /\ req'[q].phase = req[q].phase
         /\ req'[q].jobs = IF queued THEN req[q].jobs \cup {r} ELSE req[q].jobs
         /\ req'[q].inserts =
              IF Status(r) = "absent" THEN req[q].inserts \cup {r} ELSE req[q].inserts
BY DEF TypeOK, RequestStates, Prepare

\* What a request will send is there, or is inserted with the transaction it is in.
JobsExist ==
  \A q \in Requests : \A r \in req[q].jobs :
    \/ Status(r) # "absent"
    \/ req[q].phase = "reading" /\ r \in req[q].inserts

\* What a worker holds is there.
HeldExist == \A w \in Workers : pc[w] # "idle" => Status(job[w]) # "absent"

SentInv == Inv /\ SentRowsExist /\ JobsExist /\ HeldExist

LEMMA InitSent == Init => SentInv
BY InitInv DEF Init, SentInv, SentRowsExist, JobsExist, HeldExist, NoRequest

\* A request that ends has nothing left to send.
LEMMA EndKeepsJobs ==
  ASSUME Inv, JobsExist, [Next]_vars, NEW q \in Requests, End(q)
  PROVE  JobsExist'
<1> SUFFICES ASSUME NEW p \in Requests, NEW r \in req'[p].jobs
             PROVE  row'[r].status # "absent" \/ (req'[p].phase = "reading" /\ r \in req'[p].inserts)
  BY DEF JobsExist, Status
<1>1. p # q /\ req'[p] = req[p]
  BY DEF End, NoRequest, Inv, TypeOK
<1>2. r \in Rows
  BY <1>1 DEF Inv, TypeOK, RequestStates
<1> QED BY <1>1, <1>2, RowsStay DEF JobsExist, Status

\* As long as requests stay as they are, what they send stays there.
LEMMA SameJobs ==
  ASSUME Inv, JobsExist, [Next]_vars, UNCHANGED req
  PROVE  JobsExist'
<1>1. \A q \in Requests : req[q].jobs \subseteq Rows
  BY DEF Inv, TypeOK, RequestStates
<1> QED BY <1>1, RowsStay DEF JobsExist, Status

LEMMA JobsKept == SentInv /\ [Next]_vars => JobsExist'
<1> SUFFICES ASSUME SentInv, [Next]_vars PROVE JobsExist'
  OBVIOUS
<1> USE DEF SentInv
<1>1. ASSUME NEW q \in Requests, NEW kind \in Kinds, NEW rows \in SUBSET Rows, Start(q, kind, rows)
      PROVE  JobsExist'
  <2>1. \A p \in Requests \ {q} : req'[p] = req[p]
    BY <1>1 DEF Start, Inv, TypeOK
  <2>2. req'[q].jobs = {}
    BY <1>1 DEF Start, NoRequest, Inv, TypeOK
  <2>3. UNCHANGED row
    BY <1>1 DEF Start
  <2> QED BY <2>1, <2>2, <2>3 DEF JobsExist, Status
<1>2. ASSUME NEW q \in Requests, NEW r \in Rows, Read(q, r) PROVE JobsExist'
  <2>1. PICK queued \in BOOLEAN : Prepare(q, r, queued)
    <3>1. CASE PrepareClaimed(q, r)
      BY <3>1 DEF PrepareClaimed
    <3>2. CASE PrepareOnly(q, r)
      BY <3>2 DEF PrepareOnly
    <3>3. CASE PrepareListed(q, r)
      <4>1. Created(r) \in BOOLEAN
        BY DEF Created
      <4> QED BY <3>3, <4>1, Zenon DEF PrepareListed
    <3> QED BY <1>2, <3>1, <3>2, <3>3 DEF Read
  <2>2. UNCHANGED row /\ req[q].phase = "reading"
    BY <1>2 DEF Read
  <2>3. /\ \A p \in Requests \ {q} : req'[p] = req[p]
        /\ req'[q].phase = "reading"
        /\ req'[q].jobs \subseteq req[q].jobs \cup {r}
        /\ req[q].inserts \subseteq req'[q].inserts
        /\ Status(r) = "absent" => r \in req'[q].inserts
    BY <2>1, <2>2, PrepareEffect DEF Inv
  <2>4. ASSUME NEW p \in Requests, NEW s \in req'[p].jobs
        PROVE  row'[s].status # "absent" \/ (req'[p].phase = "reading" /\ s \in req'[p].inserts)
    <3>1. CASE p # q
      BY <2>2, <2>3, <2>4, <3>1 DEF JobsExist, Status
    <3>2. CASE p = q
      BY <2>2, <2>3, <2>4, <3>2 DEF JobsExist, Status
    <3> QED BY <3>1, <3>2
  <2> QED BY <2>4 DEF JobsExist, Status
<1>3. ASSUME NEW q \in Requests, NEW r \in Rows, InsertRefused(q, r) PROVE JobsExist'
  BY <1>3, EndKeepsJobs DEF InsertRefused
<1>4. ASSUME NEW q \in Requests, NEW r \in Rows, Send(q, r) PROVE JobsExist'
  <2>1. CASE End(q)
    BY <2>1, EndKeepsJobs
  <2>2. CASE ~End(q)
    <3>1. req' = [req EXCEPT ![q] = [req[q] EXCEPT !.jobs = req[q].jobs \ {r}]]
      BY <1>4, <2>2 DEF Send, SendAll
    <3>2. \A p \in Requests : /\ req'[p].jobs \subseteq req[p].jobs
                              /\ req'[p].phase = req[p].phase
                              /\ req'[p].inserts = req[p].inserts
      BY <3>1 DEF Inv, TypeOK, RequestStates
    <3>3. UNCHANGED row
      BY <1>4 DEF Send
    <3> QED BY <3>2, <3>3 DEF JobsExist, Status
  <2> QED BY <2>1, <2>2
<1>5. ASSUME NEW q \in Requests, NEW r \in Rows, SendFails(q, r) PROVE JobsExist'
  BY <1>5, EndKeepsJobs DEF SendFails
<1>6. ASSUME NEW q \in Requests, Commit(q) PROVE JobsExist'
  <2>1. CASE req[q].jobs = {}
    BY <1>6, <2>1, EndKeepsJobs DEF Commit
  <2>2. CASE req[q].jobs # {}
    <3>1. \A p \in Requests : req'[p].jobs = req[p].jobs
      BY <1>6, <2>2 DEF Commit, Inv, TypeOK, RequestStates
    <3>2. \A p \in Requests \ {q} : req'[p] = req[p]
      BY <1>6, <2>2 DEF Commit, Inv, TypeOK
    <3>3. \A r \in req[q].inserts \cap Rows : row'[r].status # "absent"
      BY <1>6 DEF Commit, Status
    <3>4. \A p \in Requests : req[p].jobs \subseteq Rows
      BY DEF Inv, TypeOK, RequestStates
    <3>5. ASSUME NEW p \in Requests, NEW r \in req[p].jobs
          PROVE  row'[r].status # "absent" \/ (req'[p].phase = "reading" /\ r \in req'[p].inserts)
      BY <3>2, <3>3, <3>4, <3>5, RowsStay DEF JobsExist, Status
    <3> QED BY <3>1, <3>5 DEF JobsExist, Status
  <2> QED BY <2>1, <2>2
<1>7. ASSUME NEW q \in Requests, Rollback(q) PROVE JobsExist'
  BY <1>7, EndKeepsJobs DEF Rollback
<1>8. ASSUME NEW q \in Requests, RequestDies(q) PROVE JobsExist'
  BY <1>8, EndKeepsJobs DEF RequestDies
<1>9. ASSUME NEW w \in Workers, WorkerStep(w) PROVE JobsExist'
  <2>1. UNCHANGED req
    BY <1>9 DEF WorkerStep, Begin, MarkRunning, Calculate, Finish, Return, Raise, RecordError,
                Vanish, GiveBack
  <2> QED BY <2>1, SameJobs
<1>10. ASSUME (\E r \in Rows : Age(r) \/ Expire(r) \/ Remove(r)) \/ RedisRestarts
       PROVE  JobsExist'
  <2>1. UNCHANGED req
    BY <1>10 DEF Age, Expire, Remove, RedisRestarts
  <2> QED BY <2>1, SameJobs
<1>11. CASE UNCHANGED vars
  BY <1>11, SameJobs DEF vars
<1> QED BY <1>1, <1>2, <1>3, <1>4, <1>5, <1>6, <1>7, <1>8, <1>9, <1>10, <1>11
        DEF Next, WorkerStep

\* Messages come from requests that have committed, or from workers that held them.
LEMMA SentKept == SentInv /\ [Next]_vars => SentRowsExist'
<1> SUFFICES ASSUME SentInv, [Next]_vars, NEW r \in Rows, queue'[r] > 0
             PROVE  row'[r].status # "absent"
  BY DEF SentRowsExist, Status
<1>1. CASE Status(r) # "absent"
  BY <1>1, RowsStay DEF SentInv, Status
<1>2. CASE Status(r) = "absent"
  <2> USE DEF SentInv, Inv, TypeOK
  <2>1. queue[r] = 0
    BY <1>2 DEF SentRowsExist
  <2>2. ASSUME NEW q \in Requests, NEW s \in Rows, Send(q, s) \/ SendFails(q, s) PROVE FALSE
    <3>1. s \in req[q].jobs /\ req[q].phase = "sending"
      BY <2>2 DEF Send, SendFails
    <3>2. s # r
      BY <3>1, <1>2 DEF JobsExist
    <3>3. queue'[r] = queue[r]
      BY <2>2, <3>2 DEF Send, SendFails
    <3> QED BY <2>1, <3>3
  <2>3. ASSUME NEW w \in Workers, GiveBack(w) PROVE FALSE
    <3>1. job[w] # r /\ job[w] \in Rows
      BY <2>3, <1>2 DEF GiveBack, HeldExist, JobsHeld
    <3>2. queue'[r] = queue[r]
      BY <2>3, <3>1 DEF GiveBack
    <3> QED BY <2>1, <3>2
  <2>4. ASSUME NEW w \in Workers, NEW s \in Rows, Begin(w, s) PROVE FALSE
    BY <2>1, <2>4 DEF Begin
  <2>5. CASE RedisRestarts
    BY <2>1, <2>5 DEF RedisRestarts
  <2>6. CASE UNCHANGED queue
    BY <2>1, <2>6
  <2> QED BY <2>2, <2>3, <2>4, <2>5, <2>6
          DEF Next, vars, Start, Read, InsertRefused, Commit, Rollback, RequestDies, MarkRunning,
              Calculate, Finish, Return, Raise, RecordError, Vanish, Age, Expire, Remove
<1> QED BY <1>1, <1>2

\* A worker that takes a message leaves those without a row alone.
LEMMA HeldKept == SentInv /\ [Next]_vars => HeldExist'
<1> SUFFICES ASSUME SentInv, [Next]_vars, NEW w \in Workers, pc'[w] # "idle"
             PROVE  row'[job'[w]].status # "absent"
  BY DEF HeldExist, Status
<1> USE DEF SentInv, Inv, TypeOK
<1>1. ASSUME NEW v \in Workers, NEW r \in Rows, Begin(v, r), pc[w] = "idle"
      PROVE  row'[job'[w]].status # "absent"
  <2>1. Status(r) # "absent" /\ job'[w] = r
    BY <1>1 DEF Begin, Goto, Done, work
  <2> QED BY <2>1, RowsStay DEF Status
<1>2. CASE pc[w] # "idle" /\ job'[w] = job[w]
  <2>1. Status(job[w]) # "absent" /\ job[w] \in Rows
    BY <1>2 DEF HeldExist, JobsHeld
  <2> QED BY <1>2, <2>1, RowsStay DEF Status
<1>3. ASSUME NEW v \in Workers, NEW r \in Rows, Begin(v, r), pc[w] # "idle"
      PROVE  job'[w] = job[w]
  BY <1>3 DEF Begin, work
<1>4. ASSUME NEW v \in Workers, WorkerStep(v), \A r \in Rows : ~Begin(v, r)
      PROVE  pc[w] # "idle" /\ job'[w] = job[w]
  BY <1>4 DEF WorkerStep, MarkRunning, Calculate, Finish, Return, Raise, RecordError, Vanish,
              GiveBack, Leave, Goto
<1>5. CASE UNCHANGED work
  BY <1>2, <1>5 DEF work
<1>6. CASE Next
  BY <1>1, <1>2, <1>3, <1>4, <1>5, <1>6
     DEF Next, WorkerStep, Start, Read, InsertRefused, Send, SendFails, Commit, Rollback, RequestDies,
         Age, Expire, Remove, RedisRestarts
<1>7. CASE UNCHANGED vars
  BY <1>5, <1>7 DEF vars, work
<1> QED BY <1>6, <1>7

\* A message is in the broker only for a row that has been committed: requests
\* and warming tasks commit what they prepare before they send.
THEOREM SentAfterCommit == Spec => []SentRowsExist
<1>1. SentInv /\ [Next]_vars => SentInv'
  BY NextKeepsInv, JobsKept, SentKept, HeldKept DEF SentInv
<1>2. SentInv => SentRowsExist
  BY DEF SentInv
<1> QED BY <1>1, <1>2, InitSent, PTL DEF Spec

----------------------------------------------------------------------------
(* Running scores have workers                                             *)

\* No worker is lost without its except clause having run to the end.
NoVanish == FaultKinds \cap {"db", "kill", "pod"} = {}

\* If a step makes no row running and no busy worker idle, nothing changes.
LEMMA StillWorked ==
  ASSUME RunningHasWorker,
         \A r \in Rows : row'[r].status = "running" => row[r].status = "running",
         \A w \in Workers : pc[w] \in Busy => pc'[w] \in Busy /\ job'[w] = job[w]
  PROVE  RunningHasWorker'
BY DEF RunningHasWorker, Status, Busy

LEMMA RunningKept ==
  ASSUME NoVanish, Inv, RunningHasWorker, [Next]_vars
  PROVE  RunningHasWorker'
<1> USE DEF Inv, TypeOK
<1>1. ASSUME NEW q \in Requests, RequestStep(q) PROVE RunningHasWorker'
  <2>1. UNCHANGED work
    BY <1>1 DEF RequestStep, Start, Read, InsertRefused, Send, SendFails, Commit, Rollback, RequestDies
  <2>2. ASSUME NEW r \in Rows, row'[r].status = "running" PROVE row[r].status = "running"
    <3>1. CASE Commit(q)
      BY <2>2, <3>1 DEF Commit
    <3>2. ASSUME NEW s \in Rows, SendFails(q, s) PROVE row[r].status = "running"
      BY <2>2, <3>2 DEF SendFails
    <3>3. CASE UNCHANGED row
      BY <2>2, <3>3
    <3> QED BY <1>1, <3>1, <3>2, <3>3
            DEF RequestStep, Start, Read, InsertRefused, Send, Rollback, RequestDies
  <2> QED BY <2>1, <2>2, StillWorked DEF work
<1>2. ASSUME NEW w \in Workers, NEW r \in Rows, Begin(w, r) PROVE RunningHasWorker'
  <2>1. \A v \in Workers : pc[v] \in Busy => pc'[v] \in Busy /\ job'[v] = job[v]
    BY <1>2 DEF Begin, Goto, work, Busy
  <2>2. UNCHANGED row
    BY <1>2 DEF Begin
  <2> QED BY <2>1, <2>2, StillWorked
<1>3. ASSUME NEW w \in Workers, MarkRunning(w) PROVE RunningHasWorker'
  <2>1. /\ job[w] \in Rows /\ UNCHANGED job
        /\ \A v \in Workers \ {w} : pc'[v] = pc[v]
        /\ pc'[w] \in Busy
    BY <1>3 DEF MarkRunning, Goto, JobsHeld, Busy
  <2>2. \A r \in Rows \ {job[w]} : row'[r] = row[r]
    BY <1>3, <2>1 DEF MarkRunning
  <2>3. ASSUME NEW r \in Rows, row'[r].status = "running"
        PROVE  \E v \in Workers : job'[v] = r /\ pc'[v] \in Busy
    <3>1. CASE r = job[w]
      BY <2>1, <3>1
    <3>2. CASE r # job[w]
      BY <2>1, <2>2, <2>3, <3>2 DEF RunningHasWorker, Status
    <3> QED BY <3>1, <3>2
  <2> QED BY <2>3 DEF RunningHasWorker, Status, Busy
<1>4. ASSUME NEW w \in Workers, Calculate(w) PROVE RunningHasWorker'
  <2>1. UNCHANGED row /\ job[w] \in Rows
    BY <1>4 DEF Calculate, JobsHeld
  <2>2. CASE Done(job[w])
    <3>1. row[job[w]].status # "running"
      BY <2>2 DEF Done, Status
    <3>2. \A v \in Workers \ {w} : pc'[v] = pc[v] /\ job'[v] = job[v]
      BY <1>4, <2>2 DEF Calculate, Leave, Goto
    <3> QED BY <2>1, <3>1, <3>2 DEF RunningHasWorker, Status
  <2>3. CASE ~Done(job[w])
    <3>1. \A v \in Workers : pc[v] \in Busy => pc'[v] \in Busy /\ job'[v] = job[v]
      BY <1>4, <2>3 DEF Calculate, Goto, Busy
    <3> QED BY <2>1, <3>1, StillWorked
  <2> QED BY <2>2, <2>3
<1>5. ASSUME NEW w \in Workers, Finish(w) PROVE RunningHasWorker'
  <2>1. /\ job[w] \in Rows /\ UNCHANGED job
        /\ \A v \in Workers \ {w} : pc'[v] = pc[v]
    BY <1>5 DEF Finish, Goto, JobsHeld
  <2>2. row'[job[w]].status # "running"
    BY <1>5, <2>1 DEF Finish, Status
  <2>3. \A r \in Rows \ {job[w]} : row'[r] = row[r]
    BY <1>5, <2>1 DEF Finish
  <2> QED BY <2>1, <2>2, <2>3 DEF RunningHasWorker, Status
<1>6. ASSUME NEW w \in Workers, Return(w) \/ Raise(w) PROVE RunningHasWorker'
  <2>1. \A v \in Workers : pc[v] \in Busy => pc'[v] \in Busy /\ job'[v] = job[v]
    BY <1>6 DEF Return, Raise, Leave, Goto, Busy
  <2>2. UNCHANGED row
    BY <1>6 DEF Return, Raise
  <2> QED BY <2>1, <2>2, StillWorked
<1>7. ASSUME NEW w \in Workers, RecordError(w) PROVE RunningHasWorker'
  <2>1. /\ job[w] \in Rows
        /\ \A v \in Workers \ {w} : pc'[v] = pc[v] /\ job'[v] = job[v]
    BY <1>7 DEF RecordError, Leave, Goto, JobsHeld
  <2>2. row'[job[w]].status # "running"
    BY <1>7, <2>1 DEF RecordError, Status
  <2>3. \A r \in Rows \ {job[w]} : row'[r] = row[r]
    BY <1>7, <2>1 DEF RecordError
  <2> QED BY <2>1, <2>2, <2>3 DEF RunningHasWorker, Status
<1>8. ASSUME NEW w \in Workers, Vanish(w) \/ GiveBack(w) PROVE RunningHasWorker'
  BY <1>8 DEF Vanish, GiveBack, Fault, NoVanish
<1>9. ASSUME NEW r \in Rows, Age(r) \/ Remove(r) PROVE RunningHasWorker'
  <2>1. \A s \in Rows : row'[s].status = "running" => row[s].status = "running"
    BY <1>9 DEF Age, Remove
  <2>2. UNCHANGED work
    BY <1>9 DEF Age, Remove
  <2> QED BY <2>1, <2>2, StillWorked DEF work
<1>10. CASE UNCHANGED <<row, work>>
  BY <1>10, StillWorked DEF work
<1> QED BY <1>1, <1>2, <1>3, <1>4, <1>5, <1>6, <1>7, <1>8, <1>9, <1>10
        DEF Next, vars, work, RequestStep, Expire, RedisRestarts

\* If no worker vanishes, a score says "running" only while a worker is at it,
\* however many copies of its message there are and whatever requests do to it.
THEOREM RunningIsWorkedOn == NoVanish /\ Spec => []RunningHasWorker
<1> SUFFICES ASSUME NoVanish PROVE Spec => []RunningHasWorker
  OBVIOUS
<1>1. Init => RunningHasWorker
  BY DEF Init, RunningHasWorker, Status
<1>2. Inv /\ RunningHasWorker /\ [Next]_vars => RunningHasWorker'
  BY RunningKept
<1> QED BY <1>1, <1>2, InitInv, NextKeepsInv, PTL DEF Spec

----------------------------------------------------------------------------
(* No score is overlooked after a single failure                           *)

\* One fault, of any kind but a failed send or a failed marking: with either of
\* them, or with two faults, TLC finds a score nobody queues.
SingleFault == /\ MaxFaults <= 1
               /\ "send" \notin FaultKinds
               /\ "mark" \notin FaultKinds

LEMMA FaultIsLast ==
  ASSUME SingleFault, TypeOK, NEW kind, Fault(kind)
  PROVE  faults < MaxFaults /\ faults' >= MaxFaults
BY ScoreAssumption DEF SingleFault, TypeOK, Fault

LEMMA FaultsCount ==
  ASSUME TypeOK, [Next]_vars
  PROVE  faults' \in Nat /\ faults' >= faults
<1> USE DEF TypeOK
<1>1. ASSUME NEW kind, Fault(kind)
      PROVE  faults' \in Nat /\ faults' >= faults
  BY <1>1 DEF Fault
<1>2. CASE UNCHANGED faults
  BY <1>2
<1> QED BY <1>1, <1>2 DEF Next, vars, Start, Read, PrepareClaimed, PrepareOnly, PrepareListed,
        InsertRefused, Commit, Rollback, Send, SendFails, RequestDies, Begin, MarkRunning,
        Calculate, Finish, Return, Raise, RecordError, Vanish, GiveBack, Age, Expire,
        RedisRestarts, Remove

LEMMA NoSendFails ==
  ASSUME SingleFault, NEW q, NEW r, SendFails(q, r)
  PROVE  FALSE
BY DEF SingleFault, SendFails, Fault

\* Reading a row adds it to what its request will write.
LEMMA ReadDoes ==
  ASSUME Inv, NEW q \in Requests, NEW r \in Rows, Read(q, r)
  PROVE  /\ UNCHANGED <<row, queue, work>>
         /\ Inserting(r) = {} /\ req[q].phase = "reading"
         /\ \A p \in Requests \ {q} : req'[p] = req[p]
         /\ req'[q].phase = "reading"
         /\ req'[q].inserts =
              IF Status(r) = "absent" THEN req[q].inserts \cup {r} ELSE req[q].inserts
         /\ req'[q].resets =
              IF Status(r) = "error" THEN req[q].resets \cup {r} ELSE req[q].resets
         /\ req'[q].clears =
              IF Status(r) = "error" /\ row[r].started # "none"
              THEN req[q].clears \cup {r} ELSE req[q].clears
<1>1. PICK queued : Prepare(q, r, queued)
  BY DEF Read, PrepareClaimed, PrepareOnly, PrepareListed
<1>2. UNCHANGED <<row, queue, work>> /\ Inserting(r) = {} /\ req[q].phase = "reading"
  BY DEF Read
<1>3. req[q] \in RequestStates /\ req \in [Requests -> RequestStates]
  BY DEF Inv, TypeOK
<1>4. \A p \in Requests \ {q} : req'[p] = req[p]
  BY <1>1, <1>3 DEF Prepare
<1>5. /\ req'[q].phase = "reading"
      /\ req'[q].inserts =
           IF Status(r) = "absent" THEN req[q].inserts \cup {r} ELSE req[q].inserts
  BY <1>1, <1>2, <1>3 DEF Prepare, RequestStates
<1>6. req'[q].resets = IF Status(r) = "error" THEN req[q].resets \cup {r} ELSE req[q].resets
  BY <1>1, <1>3 DEF Prepare, RequestStates
<1>7. req'[q].clears = IF Status(r) = "error" /\ row[r].started # "none"
                       THEN req[q].clears \cup {r} ELSE req[q].clears
  BY <1>1, <1>3 DEF Prepare, RequestStates
<1> QED BY <1>2, <1>4, <1>5, <1>6, <1>7

\* A row one request is inserting is not there, and no other request inserts it; what
\* is reset was there.
WritesOK ==
  \A q \in Requests : req[q].phase = "reading" =>
    /\ req[q].clears \subseteq req[q].resets
    /\ \A r \in req[q].resets : row[r].status # "absent"
    /\ \A r \in req[q].inserts :
         /\ row[r].status = "absent"
         /\ \A p \in Requests \ {q} : req[p].phase = "reading" => r \notin req[p].inserts

\* A request that goes no further leaves the others alone.
LEMMA EndDoes ==
  ASSUME Inv, NEW q \in Requests, End(q)
  PROVE  req'[q] = NoRequest /\ \A p \in Requests \ {q} : req'[p] = req[p]
BY DEF End, Inv, TypeOK

LEMMA SendDoes ==
  ASSUME Inv, NEW q \in Requests, NEW r \in Rows, Send(q, r)
  PROVE  /\ \A p \in Requests \ {q} : req'[p] = req[p]
         /\ req'[q].phase # "reading"
         /\ \/ req'[q].resets = {} /\ req'[q].clears = {}
            \/ req'[q].resets = req[q].resets /\ req'[q].clears = req[q].clears
         /\ UNCHANGED <<row, work>>
<1>1. req[q] \in RequestStates /\ req \in [Requests -> RequestStates]
  BY DEF Inv, TypeOK
<1>2. UNCHANGED <<row, work>> /\ req[q].phase = "sending"
  BY DEF Send
<1>3. CASE End(q)
  BY <1>2, <1>3, EndDoes DEF NoRequest
<1>4. CASE req' = [req EXCEPT ![q] = [req[q] EXCEPT !.jobs = req[q].jobs \ {r}]]
  BY <1>1, <1>2, <1>4 DEF RequestStates
<1> QED BY <1>3, <1>4 DEF Send, SendAll

LEMMA CommitDoes ==
  ASSUME Inv, NEW q \in Requests, Commit(q)
  PROVE  /\ \A p \in Requests \ {q} : req'[p] = req[p]
         /\ req'[q].phase # "reading" /\ req[q].phase = "reading"
         /\ \/ req'[q].resets = {} /\ req'[q].clears = {}
            \/ req'[q].resets = req[q].resets /\ req'[q].clears = req[q].clears
         /\ UNCHANGED <<claims, queue, work, faults>>
         /\ \A r \in Rows :
              row'[r] = IF r \in req[q].inserts \cup req[q].clears
                        THEN [status |-> "pending", started |-> "none"]
                        ELSE IF r \in req[q].resets
                        THEN [row[r] EXCEPT !.status = "pending"] ELSE row[r]
<1>1. req[q] \in RequestStates /\ req \in [Requests -> RequestStates]
  BY DEF Inv, TypeOK
<1>2. /\ \A p \in Requests \ {q} : req'[p] = req[p]
      /\ req'[q].phase # "reading"
      /\ \/ req'[q].resets = {} /\ req'[q].clears = {}
         \/ req'[q].resets = req[q].resets /\ req'[q].clears = req[q].clears
  <2>1. CASE End(q)
    BY <2>1, EndDoes DEF NoRequest
  <2>2. CASE req' = [req EXCEPT ![q].phase = "sending"]
    BY <1>1, <2>2 DEF RequestStates
  <2> QED BY <2>1, <2>2 DEF Commit
<1>3. \A r \in Rows :
        row'[r] = IF r \in req[q].inserts \cup req[q].clears
                  THEN [status |-> "pending", started |-> "none"]
                  ELSE IF r \in req[q].resets
                  THEN [row[r] EXCEPT !.status = "pending"] ELSE row[r]
  BY DEF Commit
<1> QED BY <1>2, <1>3 DEF Commit
\* Workers, time and removals write rows that are there.
LEMMA AbsentStays ==
  ASSUME SentInv, NEW r \in Rows, row[r].status = "absent",
         \/ \E w \in Workers : WorkerStep(w)
         \/ \E s \in Rows : Age(s) \/ Expire(s) \/ Remove(s)
         \/ RedisRestarts
  PROVE  row'[r].status = "absent" /\ UNCHANGED req
<1> USE DEF SentInv, Inv, TypeOK, HeldExist, JobsHeld, Status
<1>1. ASSUME NEW w \in Workers, MarkRunning(w) \/ Finish(w) \/ RecordError(w)
      PROVE  row'[r].status = "absent" /\ UNCHANGED req
  <2>1. job[w] # r
    BY <1>1 DEF MarkRunning, Finish, RecordError
  <2> QED BY <1>1, <2>1 DEF MarkRunning, Finish, RecordError
<1>2. ASSUME NEW s \in Rows, Age(s) \/ Remove(s)
      PROVE  row'[r].status = "absent" /\ UNCHANGED req
  BY <1>2 DEF Age, Remove
<1> QED BY <1>1, <1>2 DEF WorkerStep, Begin, Calculate, Return, Raise, Vanish, GiveBack, Expire,
        RedisRestarts

LEMMA WritesKept ==
  ASSUME SingleFault, SentInv, WritesOK, [Next]_vars
  PROVE  WritesOK'
<1> USE DEF SentInv
<1>1. \A q \in Requests : req[q].resets \subseteq Rows /\ req[q].inserts \subseteq Rows
  BY DEF Inv, TypeOK, RequestStates
<1>2. \A r \in Rows : row[r].status # "absent" => row'[r].status # "absent"
  BY RowsStay
<1>3. ASSUME NEW q \in Requests, UNCHANGED row, req'[q].phase # "reading",
             \A p \in Requests \ {q} : req'[p] = req[p]
      PROVE  WritesOK'
  BY <1>3 DEF WritesOK
<1>4. ASSUME NEW q \in Requests, NEW kind \in Kinds, NEW rows \in SUBSET Rows, Start(q, kind, rows)
      PROVE  WritesOK'
  <2>1. /\ \A p \in Requests \ {q} : req'[p] = req[p]
        /\ req'[q].inserts = {} /\ req'[q].resets = {} /\ req'[q].clears = {}
        /\ UNCHANGED row
    BY <1>4 DEF Start, NoRequest, Inv, TypeOK
  <2> QED BY <2>1 DEF WritesOK
<1>5. ASSUME NEW q \in Requests, NEW r \in Rows, Read(q, r)
      PROVE  WritesOK'
  <2>1. /\ UNCHANGED row /\ req[q].phase = "reading"
        /\ \A p \in Requests \ {q} : req'[p] = req[p]
        /\ \A p \in Requests : req[p].phase = "reading" => r \notin req[p].inserts
    BY <1>5, ReadDoes DEF Inserting
  <2>2. /\ \/ req'[q].inserts = req[q].inserts
           \/ Status(r) = "absent" /\ req'[q].inserts = req[q].inserts \cup {r}
        /\ \/ req'[q].resets = req[q].resets
           \/ Status(r) = "error" /\ req'[q].resets = req[q].resets \cup {r}
        /\ \/ req'[q].clears = req[q].clears
           \/ Status(r) = "error" /\ req'[q].clears = req[q].clears \cup {r}
    BY <1>5, ReadDoes
  <2>3. req'[q].clears \subseteq req'[q].resets
    <3>1. req[q].clears \subseteq req[q].resets
      BY <2>1 DEF WritesOK
    <3>2. CASE Status(r) = "error"
      BY <1>5, <3>1, <3>2, ReadDoes
    <3>3. CASE Status(r) # "error"
      BY <1>5, <3>1, <3>3, ReadDoes
    <3> QED BY <3>2, <3>3
  <2>4. \A s \in req'[q].resets : row'[s].status # "absent"
    BY <2>1, <2>2 DEF WritesOK, Status
  <2>5. \A s \in req'[q].inserts :
          /\ row'[s].status = "absent"
          /\ \A p \in Requests \ {q} : req[p].phase = "reading" => s \notin req[p].inserts
    BY <2>1, <2>2 DEF WritesOK, Status
  <2> QED BY <2>1, <2>3, <2>4, <2>5 DEF WritesOK
<1>6. ASSUME NEW q \in Requests,
             \/ Rollback(q) \/ RequestDies(q)
             \/ \E r \in Rows : InsertRefused(q, r) \/ Send(q, r)
      PROVE  WritesOK'
  <2>1. ASSUME End(q), UNCHANGED row
        PROVE  WritesOK'
    BY <1>3, <2>1, EndDoes DEF NoRequest
  <2>2. ASSUME NEW r \in Rows, Send(q, r)
        PROVE  WritesOK'
    BY <1>3, <2>2, SendDoes
  <2> QED BY <1>6, <2>1, <2>2 DEF Rollback, RequestDies, InsertRefused
<1>7. ASSUME NEW q \in Requests, Commit(q)
      PROVE  WritesOK'
  <2>1. /\ \A p \in Requests \ {q} : req'[p] = req[p]
        /\ req'[q].phase # "reading" /\ req[q].phase = "reading"
    BY <1>7, CommitDoes
  <2>2. ASSUME NEW p \in Requests \ {q}, req[p].phase = "reading", NEW r \in req[p].inserts
        PROVE  row'[r] = row[r]
    <3>1. r \in Rows /\ row[r].status = "absent" /\ r \notin req[q].inserts
      BY <1>1, <2>1, <2>2 DEF WritesOK
    <3>2. r \notin req[q].resets /\ r \notin req[q].clears
      BY <2>1, <3>1 DEF WritesOK
    <3> QED BY <1>7, <3>1, <3>2, CommitDoes
  <2>3. ASSUME NEW p \in Requests \ {q}, req[p].phase = "reading", NEW r \in req[p].resets
        PROVE  row'[r].status # "absent"
    BY <1>1, <1>2, <2>3 DEF WritesOK
  <2> QED BY <2>1, <2>2, <2>3 DEF WritesOK
<1>8. ASSUME UNCHANGED req,
             \A r \in Rows : row[r].status = "absent" => row'[r].status = "absent"
      PROVE  WritesOK'
  BY <1>1, <1>2, <1>8 DEF WritesOK
<1>9. CASE \/ \E w \in Workers : WorkerStep(w)
           \/ \E s \in Rows : Age(s) \/ Expire(s) \/ Remove(s)
           \/ RedisRestarts
  <2>1. UNCHANGED req
    BY <1>9 DEF WorkerStep, Begin, MarkRunning, Calculate, Finish, Return, Raise, RecordError,
       Vanish, GiveBack, Age, Expire, Remove, RedisRestarts
  <2> QED BY <1>8, <1>9, <2>1, AbsentStays
<1>10. CASE UNCHANGED vars
  BY <1>8, <1>10 DEF vars
<1> QED BY <1>4, <1>5, <1>6, <1>7, <1>9, <1>10, NoSendFails DEF Next, WorkerStep
GoneFrom(w) == row[job[w]].status = "gone"
Marked == {"running", "calculating", "finished", "failed"}

\* Before an error is recorded: nothing is reset, so a row that waits was never started,
\* and what a worker marked keeps its start.
CalmRows ==
  \A r \in Rows : /\ row[r].status # "error"
                  /\ row[r].status = "pending" => row[r].started = "none"
CalmRequests == \A q \in Requests : req[q].resets = {} /\ req[q].clears = {}
CalmWorkers ==
  \A w \in Workers :
    /\ pc[w] = "marking" /\ seen[w] = "running"
       => row[job[w]].status \in {"running", "ready", "gone"}
    /\ pc[w] \in Marked => GoneFrom(w) \/ row[job[w]].started # "none"

\* A worker that fails with its row still there used up the one fault.
Failing(w) == pc[w] = "failed" /\ ~GoneFrom(w)
OneFails == \/ \A w \in Workers : ~Failing(w)
            \/ /\ faults >= MaxFaults
               /\ \A v, w \in Workers : Failing(v) /\ Failing(w) => v = w

Calm == CalmRows /\ CalmRequests /\ CalmWorkers /\ OneFails

\* After it: an error says when its calculation started, so a reset clears that; a
\* row that waits with a start has a message, or a worker that is going to end it.
Attended(r) ==
  \/ queue[r] > 0
  \/ \E w \in Workers : job[w] = r /\ pc[w] \in {"marking", "running", "calculating"}
SettledRows ==
  \A r \in Rows :
    /\ row[r].status = "error" => row[r].started # "none"
    /\ row[r].status = "pending" /\ row[r].started # "none" => Attended(r)
SettledRequests == \A q \in Requests : req[q].resets \subseteq req[q].clears

Settled == /\ faults >= MaxFaults
           /\ \A w \in Workers : ~Failing(w)
           /\ SettledRows /\ SettledRequests

LEMMA NoFaultsLeft ==
  ASSUME TypeOK, faults >= MaxFaults, NEW kind, Fault(kind)
  PROVE  FALSE
BY ScoreAssumption DEF TypeOK, Fault

\* Steps that leave rows and workers alone.
LEMMA StillCalm ==
  ASSUME Inv, Calm, CalmRequests', [Next]_vars, UNCHANGED <<row, work>>
  PROVE  Calm'
<1>1. faults' >= faults /\ faults' \in Nat /\ faults \in Nat /\ MaxFaults \in Nat
  BY FaultsCount, ScoreAssumption DEF Inv, TypeOK
<1>2. OneFails'
  BY <1>1 DEF Calm, OneFails, Failing, GoneFrom, work
<1>3. CalmRows' /\ CalmWorkers'
  BY DEF Calm, CalmRows, CalmWorkers, GoneFrom, work
<1> QED BY <1>2, <1>3 DEF Calm

LEMMA RequestStaysCalm ==
  ASSUME SingleFault, SentInv, WritesOK, Calm, NEW q \in Requests, RequestStep(q)
  PROVE  Calm'
<1> USE DEF SentInv
<1>1. [Next]_vars
  BY DEF Next, RequestStep
<1>2. ASSUME NEW kind \in Kinds, NEW rows \in SUBSET Rows, Start(q, kind, rows)
      PROVE  Calm'
  <2>1. CalmRequests'
    BY <1>2 DEF Start, NoRequest, Inv, TypeOK, Calm, CalmRequests
  <2> QED BY <1>1, <1>2, <2>1, StillCalm DEF Start
<1>3. ASSUME NEW r \in Rows, Read(q, r)
      PROVE  Calm'
  <2>1. Status(r) # "error"
    BY DEF Calm, CalmRows, Status
  <2>2. /\ UNCHANGED <<row, work>>
        /\ \A p \in Requests \ {q} : req'[p] = req[p]
        /\ req'[q].resets = req[q].resets /\ req'[q].clears = req[q].clears
    BY <1>3, <2>1, ReadDoes
  <2>3. CalmRequests'
    BY <2>2 DEF Calm, CalmRequests
  <2> QED BY <1>1, <2>2, <2>3, StillCalm
<1>4. ASSUME End(q), UNCHANGED <<row, work>>
      PROVE  Calm'
  <2>1. CalmRequests'
    BY <1>4, EndDoes DEF NoRequest, Calm, CalmRequests
  <2> QED BY <1>1, <1>4, <2>1, StillCalm
<1>5. ASSUME NEW r \in Rows, Send(q, r)
      PROVE  Calm'
  <2>1. CalmRequests' /\ UNCHANGED <<row, work>>
    BY <1>5, SendDoes DEF Calm, CalmRequests
  <2> QED BY <1>1, <2>1, StillCalm
<1>6. CASE Commit(q)
  <2>1. \A r \in Rows : row'[r] = IF r \in req[q].inserts
                                  THEN [status |-> "pending", started |-> "none"] ELSE row[r]
    BY <1>6, CommitDoes DEF Calm, CalmRequests
  <2>2. \A r \in req[q].inserts : row[r].status = "absent"
    BY <1>6, CommitDoes DEF WritesOK
  <2>3. CalmRequests' /\ UNCHANGED <<work, faults>>
    BY <1>6, CommitDoes DEF Calm, CalmRequests
  <2>4. ASSUME NEW w \in Workers, pc[w] # "idle"
        PROVE  row'[job[w]] = row[job[w]]
    BY <2>1, <2>2, <2>4 DEF HeldExist, Inv, JobsHeld, Status
  <2>5. CalmRows'
    BY <2>1 DEF Calm, CalmRows
  <2>6. CalmWorkers'
    <3>1. pc' = pc /\ job' = job /\ seen' = seen
      BY <2>3 DEF work
    <3>2. ASSUME NEW w \in Workers, pc[w] = "marking" \/ pc[w] \in Marked
          PROVE  row'[job'[w]] = row[job[w]]
      BY <2>4, <3>1, <3>2 DEF Marked
    <3> QED BY <3>1, <3>2 DEF Calm, CalmWorkers, GoneFrom
  <2>7. \A w \in Workers : Failing(w)' <=> Failing(w)
    BY <2>3, <2>4 DEF Failing, GoneFrom, work
  <2>8. OneFails'
    BY <2>3, <2>7 DEF Calm, OneFails
  <2> QED BY <2>3, <2>5, <2>6, <2>8 DEF Calm
<1> QED BY <1>2, <1>3, <1>4, <1>5, <1>6, NoSendFails
        DEF RequestStep, InsertRefused, Rollback, RequestDies

\* A worker that leaves cannot be the one that fails.
LEMMA LeavingStaysCalm ==
  ASSUME Inv, Calm, [Next]_vars, NEW w \in Workers, Leave(w), UNCHANGED <<row, req>>
  PROVE  Calm'
<1>1. /\ pc'[w] = "idle"
      /\ \A v \in Workers \ {w} : pc'[v] = pc[v] /\ job'[v] = job[v] /\ seen'[v] = seen[v]
  BY DEF Leave, Goto, Inv, TypeOK
<1>2. faults' >= faults /\ faults' \in Nat /\ faults \in Nat /\ MaxFaults \in Nat
  BY FaultsCount, ScoreAssumption DEF Inv, TypeOK
<1>3. \A v \in Workers : Failing(v)' => Failing(v)
  BY <1>1 DEF Failing, GoneFrom
<1>4. OneFails'
  BY <1>2, <1>3 DEF Calm, OneFails
<1>5. CalmRows' /\ CalmRequests'
  BY DEF Calm, CalmRows, CalmRequests
<1>6. CalmWorkers'
  BY <1>1 DEF Calm, CalmWorkers, GoneFrom, Marked
<1> QED BY <1>4, <1>5, <1>6 DEF Calm

\* A worker that goes on, with the row it writes.
LEMMA MovingStaysCalm ==
  ASSUME Inv, Calm, NEW w \in Workers, pc[w] # "idle", UNCHANGED <<req, job, seen, faults>>,
         NEW place, pc' = [pc EXCEPT ![w] = place], place \in Marked,
         place = "failed" => GoneFrom(w),
         NEW new, row' = [row EXCEPT ![job[w]] = new],
         new = row[job[w]] \/ (~GoneFrom(w) /\ new.status \in {"running", "ready"}),
         GoneFrom(w) \/ new.started # "none"
  PROVE  Calm'
<1>1. job[w] \in Rows /\ row'[job[w]] = new /\ \A r \in Rows \ {job[w]} : row'[r] = row[r]
  BY DEF Inv, JobsHeld, TypeOK
<1>2. pc'[w] = place /\ \A v \in Workers \ {w} : pc'[v] = pc[v]
  BY DEF Inv, TypeOK
<1>3. CalmRows' /\ CalmRequests'
  BY <1>1 DEF Calm, CalmRows, CalmRequests
<1>4. \A v \in Workers : pc[v] # "idle" => job[v] \in Rows
  BY DEF Inv, JobsHeld
<1>5. \A v \in Workers : pc[v] # "idle" => (GoneFrom(v)' <=> GoneFrom(v))
  BY <1>1, <1>4 DEF GoneFrom
<1>6. CalmWorkers'
  <2> SUFFICES ASSUME NEW v \in Workers
               PROVE  /\ pc'[v] = "marking" /\ seen[v] = "running"
                         => row'[job[v]].status \in {"running", "ready", "gone"}
                      /\ pc'[v] \in Marked => GoneFrom(v)' \/ row'[job[v]].started # "none"
    BY DEF CalmWorkers
  <2>1. CASE v = w
    BY <1>1, <1>2, <1>5, <2>1 DEF Marked
  <2>2. CASE v # w /\ pc[v] # "idle" /\ job[v] = job[w]
    BY <1>1, <1>2, <1>5, <2>2 DEF Calm, CalmWorkers, GoneFrom
  <2>3. CASE v # w /\ pc[v] # "idle" /\ job[v] # job[w]
    BY <1>1, <1>2, <1>4, <1>5, <2>3 DEF Calm, CalmWorkers
  <2>4. CASE v # w /\ pc[v] = "idle"
    BY <1>2, <2>4 DEF Marked
  <2> QED BY <2>1, <2>2, <2>3, <2>4
<1>7. \A v \in Workers : Failing(v)' => Failing(v)
  BY <1>2, <1>5 DEF Failing
<1>8. OneFails'
  BY <1>7 DEF Calm, OneFails
<1> QED BY <1>3, <1>6, <1>8 DEF Calm

\* A worker stays calm, or records the one error.
LEMMA WorkerStaysCalm ==
  ASSUME SingleFault, SentInv, Calm, NEW w \in Workers, WorkerStep(w),
         ~(RecordError(w) /\ Failing(w))
  PROVE  Calm'
<1> USE DEF SentInv
<1>1. [Next]_vars
  BY DEF Next, WorkerStep
<1>2. row \in [Rows -> [status : Statuses, started : {"none", "fresh", "old"}]]
  BY DEF Inv, TypeOK
<1>3. ASSUME NEW r \in Rows, Begin(w, r)
      PROVE  Calm'
  <2>1. CASE Done(r)
    BY <1>1, <1>3, <2>1, StillCalm DEF Begin, Calm, CalmRequests
  <2>2. CASE ~Done(r)
    <3>1. /\ pc'[w] = "marking" /\ job'[w] = r /\ seen'[w] = row[r].status
          /\ \A v \in Workers \ {w} : pc'[v] = pc[v] /\ job'[v] = job[v] /\ seen'[v] = seen[v]
          /\ UNCHANGED <<row, req, faults>>
      BY <1>3, <2>2 DEF Begin, Goto, Inv, TypeOK, Status
    <3>2. \A v \in Workers : Failing(v)' => Failing(v)
      BY <3>1 DEF Failing, GoneFrom
    <3>3. OneFails'
      BY <3>1, <3>2 DEF Calm, OneFails
    <3>4. CalmWorkers'
      BY <3>1 DEF Calm, CalmWorkers, GoneFrom, Marked
    <3> QED BY <3>1, <3>3, <3>4 DEF Calm, CalmRows, CalmRequests
  <2> QED BY <2>1, <2>2
<1>4. CASE MarkRunning(w)
  <2>1. UNCHANGED <<req, job, seen, faults>> /\ pc[w] = "marking" /\ job[w] \in Rows
    BY <1>4 DEF MarkRunning, Inv, JobsHeld
  <2>2. CASE GoneFrom(w)
    <3>1. pc' = [pc EXCEPT ![w] = "failed"] /\ row' = [row EXCEPT ![job[w]] = row[job[w]]]
      BY <1>2, <1>4, <2>1, <2>2 DEF MarkRunning, Goto, GoneFrom, Status
    <3> QED BY <2>1, <2>2, <3>1, MovingStaysCalm DEF Marked
  <2>3. CASE ~GoneFrom(w)
    <3>1. PICK new : /\ row' = [row EXCEPT ![job[w]] = new]
                     /\ new = [row[job[w]] EXCEPT
                                 !.status = IF seen[w] = "running" THEN @ ELSE "running",
                                 !.started = "fresh"]
      BY <1>4, <2>3 DEF MarkRunning, GoneFrom, Status
    <3>2. new.started = "fresh"
          /\ new.status = IF seen[w] = "running" THEN row[job[w]].status ELSE "running"
      BY <1>2, <2>1, <3>1
    <3>3. new.status \in {"running", "ready"}
      BY <2>1, <2>3, <3>2 DEF Calm, CalmWorkers, GoneFrom
    <3>4. pc' = [pc EXCEPT ![w] = "running"]
      BY <1>4, <2>3 DEF MarkRunning, Goto, GoneFrom, Status
    <3> QED BY <2>1, <2>3, <3>1, <3>2, <3>3, <3>4, MovingStaysCalm DEF Marked
  <2> QED BY <2>2, <2>3
<1>5. CASE Calculate(w)
  <2>1. CASE Leave(w)
    BY <1>1, <1>5, <2>1, LeavingStaysCalm DEF Calculate
  <2>2. CASE ~Leave(w)
    <3>1. /\ UNCHANGED <<row, req, job, seen, faults>> /\ pc[w] = "running"
          /\ pc' = [pc EXCEPT ![w] = "calculating"]
      BY <1>5, <2>2 DEF Calculate, Goto
    <3>2. job[w] \in Rows
      BY <3>1 DEF Inv, JobsHeld
    <3>3. row' = [row EXCEPT ![job[w]] = row[job[w]]]
      BY <1>2, <3>1, <3>2
    <3>4. GoneFrom(w) \/ row[job[w]].started # "none"
      BY <3>1 DEF Calm, CalmWorkers, Marked
    <3> QED BY <3>1, <3>3, <3>4, MovingStaysCalm DEF Marked
  <2> QED BY <2>1, <2>2
<1>6. CASE Finish(w)
  <2>1. UNCHANGED <<req, job, seen, faults>> /\ pc[w] = "calculating" /\ job[w] \in Rows
    BY <1>6 DEF Finish, Inv, JobsHeld
  <2>2. CASE GoneFrom(w)
    <3>1. pc' = [pc EXCEPT ![w] = "failed"] /\ row' = [row EXCEPT ![job[w]] = row[job[w]]]
      BY <1>2, <1>6, <2>1, <2>2 DEF Finish, Goto, GoneFrom, Status
    <3> QED BY <2>1, <2>2, <3>1, MovingStaysCalm DEF Marked
  <2>3. CASE ~GoneFrom(w)
    <3>1. PICK new : /\ row' = [row EXCEPT ![job[w]] = new]
                     /\ new = [row[job[w]] EXCEPT !.status = "ready"]
      BY <1>6, <2>3 DEF Finish, GoneFrom, Status
    <3>2. new.started = row[job[w]].started /\ new.status = "ready"
      BY <1>2, <2>1, <3>1
    <3>3. new.started # "none"
      BY <2>1, <2>3, <3>2 DEF Calm, CalmWorkers, Marked
    <3>4. pc' = [pc EXCEPT ![w] = "finished"]
      BY <1>6, <2>3 DEF Finish, Goto, GoneFrom, Status
    <3> QED BY <2>1, <2>3, <3>1, <3>2, <3>3, <3>4, MovingStaysCalm DEF Marked
  <2> QED BY <2>2, <2>3
<1>7. CASE Return(w) \/ Vanish(w) \/ GiveBack(w)
  BY <1>1, <1>7, LeavingStaysCalm DEF Return, Vanish, GiveBack
\* The one fault: nobody had failed before.
<1>8. CASE Raise(w)
  <2>1. /\ Fault("raise") /\ pc[w] \in {"running", "calculating", "finished"}
        /\ pc' = [pc EXCEPT ![w] = "failed"] /\ UNCHANGED <<row, req, job, seen>>
    BY <1>8 DEF Raise, Goto, SingleFault, Fault
  <2>2. faults < MaxFaults /\ faults' >= MaxFaults
    BY <2>1, FaultIsLast DEF Inv
  <2>3. \A v \in Workers : ~Failing(v)
    BY <2>2, ScoreAssumption DEF Calm, OneFails, Inv, TypeOK
  <2>4. pc'[w] = "failed" /\ \A v \in Workers \ {w} : pc'[v] = pc[v]
    BY <2>1 DEF Inv, TypeOK
  <2>5. \A v \in Workers : Failing(v)' => v = w
    BY <2>1, <2>3, <2>4 DEF Failing, GoneFrom
  <2>6. OneFails'
    BY <2>2, <2>5 DEF OneFails
  <2>7. CalmWorkers'
    <3>1. \A v \in Workers : pc'[v] \in Marked => pc[v] \in Marked
      BY <2>1, <2>4 DEF Marked
    <3>2. \A v \in Workers : pc'[v] = "marking" => pc[v] = "marking"
      BY <2>4
    <3> QED BY <2>1, <3>1, <3>2 DEF Calm, CalmWorkers, GoneFrom
  <2> QED BY <2>1, <2>6, <2>7 DEF Calm, CalmRows, CalmRequests
<1>9. CASE RecordError(w)
  <2>1. UNCHANGED <<row, req>> /\ Leave(w)
    BY <1>9 DEF RecordError, Failing, GoneFrom, Status
  <2> QED BY <1>1, <2>1, LeavingStaysCalm
<1> QED BY <1>3, <1>4, <1>5, <1>6, <1>7, <1>8, <1>9 DEF WorkerStep

LEMMA WorldStaysCalm ==
  ASSUME SentInv, Calm, (\E r \in Rows : Age(r) \/ Expire(r) \/ Remove(r)) \/ RedisRestarts
  PROVE  Calm'
<1> USE DEF SentInv
<1>1. [Next]_vars
  BY DEF Next
<1>2. row \in [Rows -> [status : Statuses, started : {"none", "fresh", "old"}]]
  BY DEF Inv, TypeOK
<1>3. ASSUME UNCHANGED <<row, req, work>>
      PROVE  Calm'
  BY <1>1, <1>3, StillCalm DEF Calm, CalmRequests
<1>4. ASSUME NEW r \in Rows, Age(r) \/ Remove(r)
      PROVE  Calm'
  <2>1. PICK new : /\ row' = [row EXCEPT ![r] = new]
                   /\ \/ new.status = "gone"
                      \/ new.status = "running" /\ row[r].status = "running" /\ new.started = "old"
    <3>1. CASE Age(r)
      <4>1. PICK new : new = [row[r] EXCEPT !.started = "old"]
        OBVIOUS
      <4>2. new.status = "running" /\ row[r].status = "running" /\ new.started = "old"
        BY <1>2, <3>1, <4>1 DEF Age, Status
      <4>3. row' = [row EXCEPT ![r] = new]
        BY <3>1, <4>1 DEF Age
      <4> QED BY <4>2, <4>3
    <3>2. CASE Remove(r)
      <4>1. PICK new : new = [status |-> "gone", started |-> "none"]
        OBVIOUS
      <4>2. new.status = "gone" /\ row' = [row EXCEPT ![r] = new]
        BY <3>2, <4>1 DEF Remove
      <4> QED BY <4>2
    <3> QED BY <1>4, <3>1, <3>2
  <2>2. row'[r] = new /\ \A s \in Rows \ {r} : row'[s] = row[s]
    BY <1>2, <2>1
  <2>3. pc' = pc /\ job' = job /\ seen' = seen /\ req' = req
    BY <1>4 DEF Age, Remove, work
  <2>4. \A v \in Workers : pc[v] # "idle" => job[v] \in Rows
    BY DEF Inv, JobsHeld
  <2>5. \A v \in Workers : Failing(v)' => Failing(v)
    BY <2>1, <2>2, <2>3, <2>4 DEF Failing, GoneFrom
  <2>6. OneFails'
    <3>1. faults' >= faults /\ faults' \in Nat /\ faults \in Nat /\ MaxFaults \in Nat
      BY <1>1, FaultsCount, ScoreAssumption DEF Inv, TypeOK
    <3> QED BY <2>5, <3>1 DEF Calm, OneFails
  <2>7. CalmRows' /\ CalmRequests'
    BY <2>1, <2>2, <2>3 DEF Calm, CalmRows, CalmRequests
  <2>8. CalmWorkers'
    <3> SUFFICES ASSUME NEW v \in Workers
                 PROVE  /\ pc[v] = "marking" /\ seen[v] = "running"
                           => row'[job[v]].status \in {"running", "ready", "gone"}
                        /\ pc[v] \in Marked
                           => row'[job[v]].status = "gone" \/ row'[job[v]].started # "none"
      BY <2>3 DEF CalmWorkers, GoneFrom
    <3>1. CASE pc[v] # "idle" /\ job[v] = r
      BY <2>1, <2>2, <3>1
    <3>2. CASE pc[v] # "idle" /\ job[v] # r
      BY <2>2, <2>4, <3>2 DEF Calm, CalmWorkers, GoneFrom
    <3>3. CASE pc[v] = "idle"
      BY <3>3 DEF Marked
    <3> QED BY <3>1, <3>2, <3>3
  <2> QED BY <2>6, <2>7, <2>8 DEF Calm
<1> QED BY <1>3, <1>4 DEF Expire, RedisRestarts

\* The error is recorded with the start its calculation had.
LEMMA RecordSettles ==
  ASSUME SentInv, Calm, NEW w \in Workers, RecordError(w), Failing(w)
  PROVE  Settled'
<1> USE DEF SentInv
<1>1. row \in [Rows -> [status : Statuses, started : {"none", "fresh", "old"}]] /\ job[w] \in Rows
  BY DEF Inv, TypeOK, JobsHeld, Failing
<1>2. PICK new : /\ row' = [row EXCEPT ![job[w]] = new]
                 /\ new = [row[job[w]] EXCEPT !.status = "error"]
  BY DEF RecordError, Failing, GoneFrom, Status
<1>3. new.status = "error" /\ new.started = row[job[w]].started
  BY <1>1, <1>2
<1>4. new.started # "none"
  BY <1>3 DEF Calm, CalmWorkers, Failing, Marked
<1>5. row'[job[w]] = new /\ \A r \in Rows \ {job[w]} : row'[r] = row[r]
  BY <1>1, <1>2
<1>6. SettledRows'
  BY <1>3, <1>4, <1>5 DEF Calm, CalmRows, SettledRows
<1>7. UNCHANGED <<req, faults>>
  BY DEF RecordError
<1>8. SettledRequests' /\ faults' >= MaxFaults
  BY <1>7 DEF Calm, CalmRequests, SettledRequests, OneFails
<1>9. /\ pc'[w] = "idle"
      /\ \A v \in Workers \ {w} : pc'[v] = pc[v] /\ job'[v] = job[v] /\ ~Failing(v)
  BY DEF RecordError, Leave, Goto, Inv, TypeOK, Calm, OneFails
<1>10. \A v \in Workers : ~Failing(v)'
  <2> SUFFICES ASSUME NEW v \in Workers \ {w}, pc'[v] = "failed"
               PROVE  row'[job'[v]].status = "gone"
    BY <1>9 DEF Failing, GoneFrom
  <2>1. pc[v] = "failed" /\ job'[v] = job[v] /\ row[job[v]].status = "gone" /\ job[v] \in Rows
    BY <1>9 DEF Failing, GoneFrom, Inv, JobsHeld
  <2>2. job[v] # job[w]
    BY <2>1 DEF Failing, GoneFrom
  <2> QED BY <1>5, <2>1, <2>2
<1> QED BY <1>6, <1>8, <1>10 DEF Settled

\* Steps that leave rows, messages and workers alone.
LEMMA StillSettled ==
  ASSUME SentInv, Settled, [Next]_vars, UNCHANGED <<row, work>>, SettledRequests',
         \A r \in Rows : queue[r] > 0 => queue'[r] > 0
  PROVE  Settled'
<1>1. faults' >= MaxFaults
  BY FaultsCount, ScoreAssumption DEF Settled, SentInv, Inv, TypeOK
<1>2. pc' = pc /\ job' = job /\ row' = row
  BY DEF work
<1> QED BY <1>1, <1>2 DEF Settled, SettledRows, Attended, Failing, GoneFrom

LEMMA RequestStaysSettled ==
  ASSUME SingleFault, SentInv, WritesOK, Settled, NEW q \in Requests, RequestStep(q)
  PROVE  Settled'
<1> USE DEF SentInv
<1>1. [Next]_vars
  BY DEF Next, RequestStep
<1>2. ASSUME NEW kind \in Kinds, NEW rows \in SUBSET Rows, Start(q, kind, rows)
      PROVE  Settled'
  <2>1. SettledRequests'
    BY <1>2 DEF Start, NoRequest, Inv, TypeOK, Settled, SettledRequests
  <2> QED BY <1>1, <1>2, <2>1, StillSettled DEF Start
<1>3. ASSUME NEW r \in Rows, Read(q, r)
      PROVE  Settled'
  <2>1. Status(r) = "error" => row[r].started # "none"
    BY DEF Settled, SettledRows, Status
  <2>2. req[q].resets \subseteq req[q].clears
    BY DEF Settled, SettledRequests
  <2>3. req'[q].resets \subseteq req'[q].clears
    <3>1. CASE Status(r) = "error"
      BY <1>3, <2>1, <2>2, <3>1, ReadDoes
    <3>2. CASE Status(r) # "error"
      BY <1>3, <2>2, <3>2, ReadDoes
    <3> QED BY <3>1, <3>2
  <2>4. UNCHANGED <<row, queue, work>> /\ \A p \in Requests \ {q} : req'[p] = req[p]
    BY <1>3, ReadDoes
  <2>5. SettledRequests'
    BY <2>3, <2>4 DEF Settled, SettledRequests
  <2> QED BY <1>1, <2>4, <2>5, StillSettled
<1>4. ASSUME End(q), UNCHANGED <<row, queue, work>>
      PROVE  Settled'
  <2>1. SettledRequests'
    BY <1>4, EndDoes DEF NoRequest, Settled, SettledRequests
  <2> QED BY <1>1, <1>4, <2>1, StillSettled
<1>5. ASSUME NEW r \in Rows, Send(q, r)
      PROVE  Settled'
  <2>1. SettledRequests' /\ UNCHANGED <<row, work>>
    BY <1>5, SendDoes DEF Settled, SettledRequests
  <2>2. \A s \in Rows : queue[s] > 0 => queue'[s] > 0
    BY <1>5 DEF Send, Inv, TypeOK
  <2> QED BY <1>1, <2>1, <2>2, StillSettled
\* What is reset is cleared.
<1>6. CASE Commit(q)
  <2>1. \A r \in Rows : \/ row'[r] = row[r]
                        \/ row'[r] = [status |-> "pending", started |-> "none"]
    BY <1>6, CommitDoes DEF Settled, SettledRequests
  <2>2. SettledRequests' /\ UNCHANGED <<queue, work, faults>>
    BY <1>6, CommitDoes DEF Settled, SettledRequests
  <2>3. pc' = pc /\ job' = job
    BY <2>2 DEF work
  <2>4. SettledRows'
    BY <2>1, <2>2, <2>3 DEF Settled, SettledRows, Attended
  <2>5. \A r \in Rows : row[r].status = "gone" => row'[r].status = "gone"
    <3>1. req[q].clears \subseteq req[q].resets
      BY <1>6 DEF Commit, WritesOK
    <3>2. \A r \in req[q].inserts \cup req[q].resets : row[r].status # "gone"
      BY <1>6 DEF Commit, Refused, Writes, Status
    <3> QED BY <1>6, <3>1, <3>2, CommitDoes
  <2>6. \A w \in Workers : ~Failing(w)'
    BY <2>3, <2>5 DEF Settled, Failing, GoneFrom, Inv, JobsHeld
  <2> QED BY <2>2, <2>4, <2>6 DEF Settled
<1>7. CASE RequestDies(q)
  BY <1>7, NoFaultsLeft DEF RequestDies, Settled, Inv
<1> QED BY <1>2, <1>3, <1>4, <1>5, <1>6, <1>7, NoSendFails
        DEF RequestStep, InsertRefused, Rollback

\* A worker that leaves had nothing that waits.
LEMMA LeavingStaysSettled ==
  ASSUME SentInv, Settled, NEW w \in Workers, Leave(w), UNCHANGED <<row, queue, req, faults>>,
         \/ pc[w] \in {"finished", "failed"}
         \/ row[job[w]].status # "pending"
  PROVE  Settled'
<1>1. /\ pc'[w] = "idle"
      /\ \A v \in Workers \ {w} : pc'[v] = pc[v] /\ job'[v] = job[v]
  BY DEF Leave, Goto, SentInv, Inv, TypeOK
<1>2. SettledRows'
  BY <1>1 DEF Settled, SettledRows, Attended
<1>3. \A v \in Workers : ~Failing(v)'
  BY <1>1 DEF Settled, Failing, GoneFrom
<1> QED BY <1>2, <1>3 DEF Settled, SettledRequests

\* A worker that goes on ends the row that waits, or still has it.
LEMMA MovingStaysSettled ==
  ASSUME SentInv, Settled, NEW w \in Workers, pc[w] # "idle",
         UNCHANGED <<queue, req, job, faults>>,
         NEW place, pc' = [pc EXCEPT ![w] = place], place = "failed" => GoneFrom(w),
         NEW new, row' = [row EXCEPT ![job[w]] = new],
         (new.status = "gone") <=> GoneFrom(w),
         new.status = "error" => new.started # "none",
         new.status = "pending" => place \in {"running", "calculating"}
  PROVE  Settled'
<1>1. job[w] \in Rows /\ row'[job[w]] = new /\ \A r \in Rows \ {job[w]} : row'[r] = row[r]
  BY DEF SentInv, Inv, JobsHeld, TypeOK
<1>2. pc'[w] = place /\ \A v \in Workers \ {w} : pc'[v] = pc[v]
  BY DEF SentInv, Inv, TypeOK
<1>3. ASSUME NEW r \in Rows, r # job[w], Attended(r)
      PROVE  Attended(r)'
  BY <1>2, <1>3 DEF Attended
<1>4. SettledRows'
  <2>1. ASSUME NEW r \in Rows, r = job[w], new.status = "pending"
        PROVE  Attended(r)'
    BY <1>2, <2>1 DEF Attended
  <2> QED BY <1>1, <1>3, <2>1 DEF Settled, SettledRows
<1>5. \A v \in Workers : pc[v] # "idle" => job[v] \in Rows /\ (GoneFrom(v)' <=> GoneFrom(v))
  BY <1>1 DEF GoneFrom, SentInv, Inv, JobsHeld
<1>6. \A v \in Workers : ~Failing(v)'
  BY <1>2, <1>5 DEF Settled, Failing
<1> QED BY <1>4, <1>6 DEF Settled, SettledRequests

LEMMA WorkerStaysSettled ==
  ASSUME SentInv, Settled, NEW w \in Workers, WorkerStep(w)
  PROVE  Settled'
<1>1. Inv /\ row \in [Rows -> [status : Statuses, started : {"none", "fresh", "old"}]]
  BY DEF SentInv, Inv, TypeOK
<1>2. ASSUME NEW kind, Fault(kind)
      PROVE  FALSE
  BY <1>1, <1>2, NoFaultsLeft DEF Settled, Inv
<1>3. ASSUME NEW r \in Rows, Begin(w, r)
      PROVE  Settled'
  <2>1. /\ \A s \in Rows \ {r} : queue'[s] = queue[s]
        /\ UNCHANGED <<row, req, faults>> /\ pc[w] = "idle"
    BY <1>1, <1>3 DEF Begin, Inv, TypeOK
  <2>2. CASE Done(r)
    <3>1. UNCHANGED work /\ row[r].status # "pending"
      BY <1>3, <2>2 DEF Begin, Done, Status
    <3>2. SettledRows'
      BY <2>1, <3>1 DEF Settled, SettledRows, Attended, work
    <3> QED BY <2>1, <3>1, <3>2 DEF Settled, SettledRequests, Failing, GoneFrom, work
  <2>3. CASE ~Done(r)
    <3>1. /\ pc'[w] = "marking" /\ job'[w] = r
          /\ \A v \in Workers \ {w} : pc'[v] = pc[v] /\ job'[v] = job[v]
      BY <1>1, <1>3, <2>3 DEF Begin, Goto, Inv, TypeOK
    <3>2. \A s \in Rows : Attended(s) => Attended(s)'
      <4>1. Attended(r)'
        BY <3>1 DEF Attended
      <4>2. ASSUME NEW s \in Rows \ {r}, Attended(s)
            PROVE  Attended(s)'
        BY <2>1, <3>1, <4>2 DEF Attended
      <4> QED BY <4>1, <4>2
    <3>3. SettledRows'
      BY <2>1, <3>2 DEF Settled, SettledRows
    <3>4. \A v \in Workers : ~Failing(v)'
      BY <2>1, <3>1 DEF Settled, Failing, GoneFrom
    <3> QED BY <2>1, <3>3, <3>4 DEF Settled, SettledRequests
  <2> QED BY <2>2, <2>3
<1>4. ASSUME pc[w] # "idle"
      PROVE  job[w] \in Rows /\ row' = row => row' = [row EXCEPT ![job[w]] = row[job[w]]]
  BY <1>1
<1>5. CASE MarkRunning(w)
  <2>1. UNCHANGED <<queue, req, job, faults>> /\ pc[w] = "marking" /\ job[w] \in Rows
    BY <1>1, <1>5 DEF MarkRunning, Inv, JobsHeld
  <2>2. CASE GoneFrom(w)
    <3>1. pc' = [pc EXCEPT ![w] = "failed"] /\ row' = [row EXCEPT ![job[w]] = row[job[w]]]
      BY <1>1, <1>5, <2>1, <2>2 DEF MarkRunning, Goto, GoneFrom, Status
    <3> QED BY <2>1, <2>2, <3>1, MovingStaysSettled DEF GoneFrom
  <2>3. CASE ~GoneFrom(w)
    <3>1. PICK new : /\ row' = [row EXCEPT ![job[w]] = new]
                     /\ new = [row[job[w]] EXCEPT
                                 !.status = IF seen[w] = "running" THEN @ ELSE "running",
                                 !.started = "fresh"]
      BY <1>5, <2>3 DEF MarkRunning, GoneFrom, Status
    <3>2. new.started = "fresh" /\ new.status \in {row[job[w]].status, "running"}
      BY <1>1, <2>1, <3>1
    <3>3. pc' = [pc EXCEPT ![w] = "running"]
      BY <1>5, <2>3 DEF MarkRunning, Goto, GoneFrom, Status
    <3> QED BY <2>1, <2>3, <3>1, <3>2, <3>3, MovingStaysSettled DEF GoneFrom
  <2> QED BY <2>2, <2>3
<1>6. CASE Calculate(w)
  <2>1. CASE Done(job[w])
    BY <1>6, <2>1, LeavingStaysSettled DEF Calculate, Done, Status
  <2>2. CASE ~Done(job[w])
    <3>1. /\ UNCHANGED <<row, queue, req, job, faults>> /\ pc[w] = "running"
          /\ pc' = [pc EXCEPT ![w] = "calculating"]
      BY <1>6, <2>2 DEF Calculate, Goto
    <3>2. job[w] \in Rows
      BY <1>1, <3>1 DEF Inv, JobsHeld
    <3>3. row' = [row EXCEPT ![job[w]] = row[job[w]]]
      BY <1>1, <3>1, <3>2
    <3>4. row[job[w]].status = "error" => row[job[w]].started # "none"
      BY <3>2 DEF Settled, SettledRows
    <3> QED BY <3>1, <3>3, <3>4, MovingStaysSettled DEF GoneFrom
  <2> QED BY <2>1, <2>2
<1>7. CASE Finish(w)
  <2>1. UNCHANGED <<queue, req, job, faults>> /\ pc[w] = "calculating" /\ job[w] \in Rows
    BY <1>1, <1>7 DEF Finish, Inv, JobsHeld
  <2>2. CASE GoneFrom(w)
    <3>1. pc' = [pc EXCEPT ![w] = "failed"] /\ row' = [row EXCEPT ![job[w]] = row[job[w]]]
      BY <1>1, <1>7, <2>1, <2>2 DEF Finish, Goto, GoneFrom, Status
    <3> QED BY <2>1, <2>2, <3>1, MovingStaysSettled DEF GoneFrom
  <2>3. CASE ~GoneFrom(w)
    <3>1. PICK new : /\ row' = [row EXCEPT ![job[w]] = new]
                     /\ new = [row[job[w]] EXCEPT !.status = "ready"]
      BY <1>7, <2>3 DEF Finish, GoneFrom, Status
    <3>2. new.status = "ready"
      BY <1>1, <2>1, <3>1
    <3>3. pc' = [pc EXCEPT ![w] = "finished"]
      BY <1>7, <2>3 DEF Finish, Goto, GoneFrom, Status
    <3> QED BY <2>1, <2>3, <3>1, <3>2, <3>3, MovingStaysSettled
  <2> QED BY <2>2, <2>3
<1>8. CASE Return(w)
  BY <1>8, LeavingStaysSettled DEF Return
<1>9. CASE RecordError(w)
  <2>1. GoneFrom(w) /\ pc[w] = "failed"
    BY <1>9 DEF RecordError, Settled, Failing
  <2>2. UNCHANGED <<row, queue, req, faults>> /\ Leave(w)
    BY <1>9, <2>1 DEF RecordError, GoneFrom, Status
  <2> QED BY <2>1, <2>2, LeavingStaysSettled
<1>10. CASE Raise(w) \/ Vanish(w) \/ GiveBack(w)
  BY <1>2, <1>10 DEF Raise, Vanish, GiveBack
<1> QED BY <1>3, <1>5, <1>6, <1>7, <1>8, <1>9, <1>10 DEF WorkerStep

LEMMA WorldStaysSettled ==
  ASSUME SentInv, Settled, (\E r \in Rows : Age(r) \/ Expire(r) \/ Remove(r)) \/ RedisRestarts
  PROVE  Settled'
<1>1. Inv /\ row \in [Rows -> [status : Statuses, started : {"none", "fresh", "old"}]]
  BY DEF SentInv, Inv, TypeOK
<1>2. CASE (\E r \in Rows : Remove(r)) \/ RedisRestarts
  BY <1>1, <1>2, NoFaultsLeft DEF Remove, RedisRestarts, Settled, Inv
<1>3. ASSUME NEW r \in Rows, Age(r)
      PROVE  Settled'
  <2>1. \A s \in Rows : row'[s].status = row[s].status
                        /\ (row[s].status # "running" => row'[s].started = row[s].started)
    BY <1>1, <1>3 DEF Age, Status
  <2>2. pc' = pc /\ job' = job /\ UNCHANGED <<queue, req, faults>>
    BY <1>3 DEF Age, work
  <2>3. SettledRows'
    BY <2>1, <2>2 DEF Settled, SettledRows, Attended
  <2>4. \A w \in Workers : ~Failing(w)'
    BY <1>1, <2>1, <2>2 DEF Settled, Failing, GoneFrom, Inv, JobsHeld
  <2> QED BY <2>2, <2>3, <2>4 DEF Settled, SettledRequests
<1>4. ASSUME NEW r \in Rows, Expire(r)
      PROVE  Settled'
  <2>1. [Next]_vars
    BY <1>4 DEF Next
  <2> QED BY <1>4, <2>1, StillSettled DEF Expire, Settled, SettledRequests
<1> QED BY <1>2, <1>3, <1>4

\* One failure, whichever it is and however requests, messages and workers interleave,
\* leaves no score that waits with a start time and that nobody has: only a failed send,
\* a failed marking or a second failure does.
THEOREM NothingOverlooked ==
    ASSUME SingleFault
    PROVE  Spec => []NoScoreOverlooked
<1> DEFINE HandInv == SentInv /\ WritesOK /\ (Calm \/ Settled)
<1>1. Init => HandInv
  <2> SUFFICES ASSUME Init PROVE HandInv
    OBVIOUS
  <2>1. SentInv
    BY InitSent
  <2>2. WritesOK
    BY DEF Init, NoRequest, WritesOK
  <2>3. Calm
    BY DEF Init, NoRequest, Calm, CalmRows, CalmRequests, CalmWorkers, OneFails, Failing, Marked
  <2> QED BY <2>1, <2>2, <2>3
<1>2. HandInv /\ [Next]_vars => HandInv'
  <2> SUFFICES ASSUME HandInv, [Next]_vars PROVE HandInv'
    OBVIOUS
  <2>1. SentInv'
    BY NextKeepsInv, JobsKept, SentKept, HeldKept DEF SentInv
  <2>2. WritesOK'
    BY WritesKept
  <2>3. CASE UNCHANGED vars
    <3>1. UNCHANGED <<row, work>> /\ UNCHANGED req /\ UNCHANGED queue
      BY <2>3 DEF vars, work
    <3>2. Calm => CalmRequests'
      BY <3>1 DEF Calm, CalmRequests
    <3>3. Settled => SettledRequests'
      BY <3>1 DEF Settled, SettledRequests
    <3>4. Calm => Calm'
      BY <3>1, <3>2, StillCalm DEF SentInv
    <3>5. Settled => Settled'
      BY <3>1, <3>3, StillSettled
    <3> QED BY <2>1, <2>2, <3>4, <3>5
  <2>4. CASE Next
    <3>1. \/ \E q \in Requests : RequestStep(q)
          \/ \E w \in Workers : WorkerStep(w)
          \/ (\E r \in Rows : Age(r) \/ Expire(r) \/ Remove(r)) \/ RedisRestarts
      BY <2>4 DEF Next, RequestStep, WorkerStep
    <3>2. CASE Calm
      BY <3>1, <3>2, RequestStaysCalm, WorkerStaysCalm, RecordSettles, WorldStaysCalm, <2>1, <2>2
    <3>3. CASE Settled
      BY <3>1, <3>3, RequestStaysSettled, WorkerStaysSettled, WorldStaysSettled, <2>1, <2>2
    <3> QED BY <3>2, <3>3
  <2> QED BY <2>3, <2>4
<1>3. HandInv => NoScoreOverlooked
  BY DEF Calm, CalmRows, Settled, SettledRows, Attended, NoScoreOverlooked, InHand, Status
<1> QED BY <1>1, <1>2, <1>3, PTL DEF Spec
============================================================================
