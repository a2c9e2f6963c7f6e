-------------------------- MODULE ScanCenter_proofs --------------------------
(***************************************************************************)
(* Proofs about ScanCenter, for any number of branches, workspaces, scans  *)
(* and requests that are out at the same time: every variable has its type,*)
(* a job on screen is asked about, there is one chain of questions per     *)
(* scan, "finished" says so of a scan that is done, and a stop stays shown.*)
(***************************************************************************)
EXTENDS ScanCenter, TLAPS

-----------------------------------------------------------------------------
(* Types, and what is known of the scans that are named.                   *)

\* A scan that has been asked to stop never runs on.
Past == {"stopping"} \cup Ended

\* A scan id the tab holds is one the API has given out.
IdOK(s) == s \in Scans \cup {None} /\ (s # None => server[s] # "none")

JobOK(job) == job \in Tracked \cup {NoJob} /\ IdOK(job.scan)

\* An answer stays true: it says no more than the scan has reached.
AnswerOK(r) ==
  /\ r.answer.is = "missing" => r.scan # None
  /\ r.answer.is = "status" =>
       /\ server[r.answer.scan] # "none"
       /\ r.answer.phase \in Ended => server[r.answer.scan] = r.answer.phase
       /\ r.answer.phase = "stopping" => server[r.answer.scan] \in Past
       /\ r.kind \in {"poll", "stop"} => r.answer.scan = r.scan
       /\ r.kind = "stop" => r.answer.phase \in {"stopping", "cancelled"}

RequestOK(r) ==
  /\ r \in Request \cup {Free}
  /\ IdOK(r.scan)
  /\ r.kind = "stop" => r.scan # None
  /\ AnswerOK(r)

JobsOK     == scans \in [Targets -> Tracked \cup {NoJob}] /\ \A t \in Targets : JobOK(scans[t])
SavedOK    == saved \in [Targets -> Scans \cup {None}] /\ \A t \in Targets : IdOK(saved[t])
RequestsOK == requests \in [Slots -> Request \cup {Free}] /\ \A i \in Slots : RequestOK(requests[i])
ServerOK   == server \in [Scans -> Phases \cup {"none"}]
OthersOK   == /\ scored \subseteq Scans
              /\ session \in Workspaces /\ here \in Workspaces \cup {Unknown}
              /\ resumeDue \in BOOLEAN
              /\ timers \subseteq Targets
              /\ discovered \subseteq Targets
              /\ said \in [type : EventTypes, target : Targets, scan : Scans \cup {None}]
                          \cup {NoEvent}
              /\ forked \subseteq Targets
              /\ blips \in Nat /\ switches \in Nat /\ reloads \in Nat

KnownInv == ServerOK /\ JobsOK /\ SavedOK /\ RequestsOK /\ OthersOK

LEMMA KnownInvTypes == KnownInv => TypeOK
BY DEF KnownInv, ServerOK, JobsOK, SavedOK, RequestsOK, OthersOK, TypeOK

LEMMA IdsArePositive == None \notin Scans
BY ScanCenterAssumption DEF ScanCenterAssumption, None

\* What a request that is out is made of.
LEMMA RequestFields ==
  ASSUME RequestsOK, NEW i \in Slots, requests[i] # Free
  PROVE  /\ requests[i] \in Request
         /\ requests[i].kind \in Kinds
         /\ requests[i].target \in Targets
         /\ requests[i].scan \in Scans \cup {None}
         /\ requests[i].answer \in Answers
BY DEF RequestsOK, Request

LEMMA KindIsNotFree ==
  ASSUME NEW i, requests[i].kind \in Kinds
  PROVE  requests[i] # Free
BY DEF Kinds, Free

LEMMA StatusFields ==
  ASSUME NEW a \in Answers
  PROVE  /\ a.is = "status" => a.scan \in Scans /\ a.phase \in Phases
         /\ a.is = "report" => a.scan \in Scans
BY DEF Answers

LEMMA AnswersAre ==
  /\ \A is \in {"awaited", "blip", "missing", "refused", "busy", "pending", "nothing"} :
       Ans(is) \in Answers /\ Ans(is).is = is
  /\ NoAnswer \in Answers /\ NoAnswer.is = "awaited"
  /\ \A s \in Scans, phase \in Phases :
       /\ Status(s, phase) \in Answers
       /\ Status(s, phase).is = "status"
       /\ Status(s, phase).scan = s
       /\ Status(s, phase).phase = phase
  /\ \A s \in Scans : Report(s) \in Answers /\ Report(s).is = "report"
BY DEF Answers, Ans, NoAnswer, Status, Report

-----------------------------------------------------------------------------
(* The store's helpers keep what is known.                                 *)

LEMMA SendOK ==
  ASSUME RequestsOK, server' = server, NEW i \in Slots, NEW kind \in Kinds \ {"free"},
         NEW t \in Targets, NEW s, IdOK(s), kind = "stop" => s # None, Send(i, kind, t, s)
  PROVE  RequestsOK'
<1> DEFINE new == [kind |-> kind, target |-> t, scan |-> s, answer |-> NoAnswer]
<1>1. new \in Request
  BY AnswersAre DEF Request, IdOK
<1>2. RequestOK(new)
  BY <1>1, AnswersAre DEF RequestOK, AnswerOK
<1>3. requests' = [requests EXCEPT ![i] = new]
  BY DEF Send
<1> HIDE DEF new
<1> QED BY <1>1, <1>2, <1>3 DEF RequestsOK, RequestOK, IdOK, AnswerOK

LEMMA DoneOK ==
  ASSUME RequestsOK, server' = server, NEW i \in Slots, Done(i)
  PROVE  RequestsOK'
<1>1. RequestOK(Free)
  BY DEF RequestOK, Free, NoAnswer, IdOK, AnswerOK
<1>2. requests' = [requests EXCEPT ![i] = Free]
  BY DEF Done
<1> QED BY <1>1, <1>2 DEF RequestsOK, RequestOK, IdOK, AnswerOK

LEMMA ChangedOK ==
  ASSUME server' = server, NEW jobs \in [Targets -> Tracked \cup {NoJob}],
         \A t \in Targets : JobOK(jobs[t]), Changed(jobs)
  PROVE  JobsOK' /\ SavedOK'
<1>1. JobsOK'
  BY DEF Changed, JobsOK, JobOK, IdOK
<1>2. SavedOK'
  BY DEF Changed, Persist, SavedOK, JobOK, IdOK
<1> QED BY <1>1, <1>2

LEMMA SameOK ==
  ASSUME KnownInv, server' = server, Same
  PROVE  JobsOK' /\ SavedOK'
BY DEF KnownInv, Same, JobsOK, SavedOK, JobOK, IdOK

LEMMA ReplaceOK ==
  ASSUME KnownInv, server' = server, NEW t \in Targets, NEW job, JobOK(job),
         Changed([scans EXCEPT ![t] = job])
  PROVE  JobsOK' /\ SavedOK'
<1> DEFINE jobs == [scans EXCEPT ![t] = job]
<1>1. jobs \in [Targets -> Tracked \cup {NoJob}] /\ \A u \in Targets : JobOK(jobs[u])
  BY DEF KnownInv, JobsOK, JobOK
<1>2. Changed(jobs)
  OBVIOUS
<1> HIDE DEF jobs
<1> QED BY <1>1, <1>2, ChangedOK

LEMMA UpdateOK ==
  ASSUME KnownInv, server' = server, NEW t \in Targets, NEW job,
         IsFollowed(t) => JobOK(job), Update(t, job)
  PROVE  JobsOK' /\ SavedOK'
<1>1. CASE IsFollowed(t)
  BY <1>1, ReplaceOK DEF Update
<1>2. CASE ~IsFollowed(t)
  BY <1>2, SameOK DEF Update
<1> QED BY <1>1, <1>2

LEMMA NoJobOK == JobOK(NoJob)
BY DEF JobOK, NoJob, IdOK

LEMMA ForgetOK ==
  ASSUME KnownInv, server' = server, NEW t \in Targets, Forget(t)
  PROVE  JobsOK' /\ SavedOK' /\ timers' \subseteq Targets
BY NoJobOK, ReplaceOK, SameOK DEF Forget, KnownInv, OthersOK

LEMMA FollowedOK ==
  ASSUME KnownInv, NEW t \in Targets, NEW s, IdOK(s), NEW phase \in Phases
  PROVE  JobOK(Followed(t, s, phase)) /\ Followed(t, s, phase) \in Tracked
<1>1. scans[t] \in Tracked \cup {NoJob}
  BY DEF KnownInv, JobsOK
<1>2. IsFollowed(t) => scans[t].stopping \in BOOLEAN /\ scans[t].pinned \in Scans \cup {None}
  BY <1>1 DEF IsFollowed, Tracked
<1>3. Followed(t, s, phase) \in Tracked
  BY <1>2 DEF Followed, Tracked, Jobs, Waits, IdOK
<1>4. Followed(t, s, phase).scan = s
  BY DEF Followed
<1> QED BY <1>3, <1>4 DEF JobOK

LEMMA TrackOK ==
  ASSUME KnownInv, server' = server, NEW t \in Targets, NEW s, IdOK(s), NEW phase \in Phases,
         Track(t, s, phase)
  PROVE  JobsOK' /\ SavedOK'
BY FollowedOK, ReplaceOK DEF Track

LEMMA FinishOK ==
  ASSUME KnownInv, server' = server, NEW t \in Targets, NEW report, FinishJob(t, report)
  PROVE  JobsOK' /\ SavedOK' /\ timers' \subseteq Targets
<1>1. CASE ~IsFollowed(t)
  BY <1>1, SameOK DEF FinishJob, KnownInv, OthersOK
<1>2. CASE IsFollowed(t)
  <2>1. scans[t] \in Tracked /\ IdOK(scans[t].scan)
    BY <1>2 DEF KnownInv, JobsOK, JobOK, IsFollowed
  <2>2. JobOK([scans[t] EXCEPT !.job = "ready"])
    BY <2>1 DEF JobOK, Tracked, Jobs
  <2> DEFINE job == IF scans[t].pinned # None /\ report # None /\ scans[t].pinned # report
                    THEN [scans[t] EXCEPT !.job = "ready"] ELSE NoJob
  <2>3. JobOK(job)
    BY <2>2, NoJobOK
  <2>4. Changed([scans EXCEPT ![t] = job]) /\ timers' = timers \ {t}
    BY <1>2 DEF FinishJob
  <2> HIDE DEF job
  <2> QED BY <2>3, <2>4, ReplaceOK DEF KnownInv, OthersOK
<1> QED BY <1>1, <1>2

-----------------------------------------------------------------------------
(* Scans go onward only, and every step keeps what is known.               *)

Onward ==
  /\ ServerOK'
  /\ \A s \in Scans :
       /\ server[s] # "none" => server'[s] # "none"
       /\ \A phase \in Ended : server[s] = phase => server'[s] = phase
       /\ server[s] \in Past => server'[s] \in Past

LEMMA StillIsOnward ==
  ASSUME ServerOK, server' = server
  PROVE  Onward
BY DEF Onward, ServerOK

LEMMA MoveIsOnward ==
  ASSUME ServerOK, NEW s \in Scans, NEW phase \in Phases, server[s] \notin Ended,
         server[s] = "stopping" => phase \in Past,
         server' = [server EXCEPT ![s] = phase]
  PROVE  Onward
BY DEF Onward, ServerOK, Phases, Active, Ended, Past

LEMMA RequestsStayOK ==
  ASSUME KnownInv, Onward, NEW r, RequestOK(r)
  PROVE  RequestOK(r)'
<1>1. IdOK(r.scan)'
  BY DEF RequestOK, IdOK, Onward
<1>2. AnswerOK(r)'
  <2>1. CASE r.answer.is # "status"
    BY <2>1 DEF RequestOK, AnswerOK
  <2>2. CASE r.answer.is = "status"
    <3>1. r # Free
      BY <2>2 DEF Free, NoAnswer
    <3>2. r.answer.scan \in Scans
      BY <2>2, <3>1, StatusFields DEF RequestOK, Request
    <3> QED BY <2>2, <3>2 DEF RequestOK, AnswerOK, Onward
  <2> QED BY <2>1, <2>2
<1> QED BY <1>1, <1>2 DEF RequestOK

LEMMA TabStaysOK ==
  ASSUME KnownInv, Onward, UNCHANGED <<scans, saved>>
  PROVE  JobsOK' /\ SavedOK'
BY DEF KnownInv, Onward, JobsOK, SavedOK, JobOK, IdOK

LEMMA AnsweredOK ==
  ASSUME KnownInv, Onward, NEW i \in Slots, requests[i] # Free, NEW answer \in Answers,
         requests' = [requests EXCEPT ![i].answer = answer],
         answer.is = "missing" => requests[i].scan # None,
         answer.is = "status" =>
           /\ server'[answer.scan] # "none"
           /\ answer.phase \in Ended => server'[answer.scan] = answer.phase
           /\ answer.phase = "stopping" => server'[answer.scan] \in Past
           /\ requests[i].kind \in {"poll", "stop"} => answer.scan = requests[i].scan
           /\ requests[i].kind = "stop" => answer.phase \in {"stopping", "cancelled"}
  PROVE  RequestsOK'
<1>1. PICK old : old = requests[i]
  OBVIOUS
<1>2. old \in Request /\ RequestOK(old)
  BY <1>1 DEF KnownInv, RequestsOK
<1>3. PICK new : new = [old EXCEPT !.answer = answer]
  OBVIOUS
<1>4. new \in Request /\ new.kind = old.kind /\ new.scan = old.scan /\ new.answer = answer
  BY <1>2, <1>3 DEF Request
<1>5. RequestOK(new)'
  <2>1. IdOK(new.scan)'
    BY <1>2, <1>4 DEF RequestOK, IdOK, Onward
  <2>2. AnswerOK(new)'
    BY <1>1, <1>4 DEF AnswerOK
  <2> QED BY <1>1, <1>2, <1>4, <2>1, <2>2 DEF RequestOK
<1>6. \A r : RequestOK(r) => RequestOK(r)'
  BY RequestsStayOK
<1>7. requests' = [requests EXCEPT ![i] = new] /\ requests \in [Slots -> Request \cup {Free}]
  BY <1>1, <1>3 DEF KnownInv, RequestsOK
<1>8. ASSUME NEW k \in Slots
      PROVE  RequestOK(requests[k])'
  <2>1. PICK r : r = requests'[k]
    OBVIOUS
  <2>2. r = IF k = i THEN new ELSE requests[k]
    BY <1>7, <2>1
  <2>3. RequestOK(r)'
    <3>1. CASE k = i
      BY <3>1, <2>2, <1>5
    <3>2. CASE k # i
      <4>1. RequestOK(r)
        BY <3>2, <2>2 DEF KnownInv, RequestsOK
      <4> QED BY <4>1, <1>6
    <3> QED BY <3>1, <3>2
  <2> QED BY <2>1, <2>3 DEF RequestOK, IdOK, AnswerOK
<1> QED BY <1>4, <1>7, <1>8 DEF RequestsOK

LEMMA RequestsStay ==
  ASSUME KnownInv, Onward, UNCHANGED requests
  PROVE  RequestsOK'
<1>1. ASSUME NEW k \in Slots
      PROVE  RequestOK(requests[k])'
  <2>1. PICK r : r = requests[k]
    OBVIOUS
  <2>2. RequestOK(r)'
    BY <2>1, RequestsStayOK DEF KnownInv, RequestsOK
  <2> QED BY <2>1, <2>2 DEF RequestOK, IdOK, AnswerOK
<1> QED BY <1>1 DEF KnownInv, RequestsOK

\* A step of the API by itself.
LEMMA ApiOnlyKeepsKnown ==
  ASSUME KnownInv, Onward, ApiOnly, scored' \subseteq Scans
  PROVE  KnownInv'
<1>1. JobsOK' /\ SavedOK'
  BY TabStaysOK DEF ApiOnly
<1>2. RequestsOK'
  BY RequestsStay DEF ApiOnly
<1>3. OthersOK' /\ ServerOK'
  BY DEF ApiOnly, Untold, OthersOK, KnownInv, Onward
<1> QED BY <1>1, <1>2, <1>3 DEF KnownInv

LEMMA ScansKeepKnown ==
  ASSUME KnownInv, NEW s \in Scans,
         \/ StartedElsewhere(s) \/ Runs(s) \/ ScoreReady(s)
         \/ \E phase \in Ended : Ends(s, phase)
  PROVE  KnownInv' /\ Onward
<1> USE DEF KnownInv
<1>1. CASE StartedElsewhere(s)
  <2>1. Onward
    BY <1>1, MoveIsOnward DEF StartedElsewhere, IsFresh, Phases, Active, Ended
  <2> QED BY <1>1, <2>1, ApiOnlyKeepsKnown DEF StartedElsewhere, OthersOK
<1>2. CASE Runs(s)
  <2>1. Onward
    BY <1>2, MoveIsOnward DEF Runs, Phases, Active, Ended
  <2> QED BY <1>2, <2>1, ApiOnlyKeepsKnown DEF Runs, OthersOK
<1>3. CASE ScoreReady(s)
  <2>1. Onward
    BY <1>3, StillIsOnward DEF ScoreReady
  <2> QED BY <1>3, <2>1, ApiOnlyKeepsKnown DEF ScoreReady, OthersOK
<1>4. ASSUME NEW phase \in Ended, Ends(s, phase)
      PROVE  KnownInv' /\ Onward
  <2>1. Onward
    BY <1>4, MoveIsOnward DEF Ends, Phases, Active, Ended, Past
  <2> QED BY <1>4, <2>1, ApiOnlyKeepsKnown DEF Ends, OthersOK
<1> QED BY <1>1, <1>2, <1>3, <1>4

\* An answer the API gives.
LEMMA AnswerKeepsKnown ==
  ASSUME KnownInv, Onward, NEW i \in Slots, NEW answer \in Answers, Answer(i, answer),
         requests[i] # Free,
         answer.is = "missing" => requests[i].scan # None,
         answer.is = "status" =>
           /\ server'[answer.scan] # "none"
           /\ answer.phase \in Ended => server'[answer.scan] = answer.phase
           /\ answer.phase = "stopping" => server'[answer.scan] \in Past
           /\ requests[i].kind \in {"poll", "stop"} => answer.scan = requests[i].scan
           /\ requests[i].kind = "stop" => answer.phase \in {"stopping", "cancelled"}
  PROVE  KnownInv'
<1>1. JobsOK' /\ SavedOK'
  BY TabStaysOK DEF Answer
<1>2. RequestsOK'
  BY AnsweredOK DEF Answer
<1>3. OthersOK' /\ ServerOK'
  BY DEF Answer, Untold, OthersOK, KnownInv, Onward
<1> QED BY <1>1, <1>2, <1>3 DEF KnownInv

LEMMA ServersKeepKnown ==
  ASSUME KnownInv, NEW i \in Slots,
         ServePoll(i) \/ ServeActive(i) \/ ServeScore(i) \/ ServeStart(i) \/ ServeStop(i)
  PROVE  KnownInv' /\ Onward
<1>1. requests[i] # Free
  BY KindIsNotFree DEF ServePoll, ServeActive, ServeScore, ServeStart, ServeStop, IsOut, Kinds
<1>2. requests[i] \in Request /\ requests[i].target \in Targets /\ IdOK(requests[i].scan)
  BY <1>1, RequestFields DEF KnownInv, RequestsOK, RequestOK
<1>3. requests[i].kind = "stop" => requests[i].scan # None
  BY DEF KnownInv, RequestsOK, RequestOK
<1>4. ServerOK
  BY DEF KnownInv
<1>5. UNCHANGED server => Onward
  BY <1>4, StillIsOnward
<1>6. \A s \in Scans : server[s] \in Active => server[s] \in Phases /\ server[s] \notin Ended \cup {"none"}
  BY DEF Phases, Active, Ended
<1>7. CASE ServePoll(i)
  <2>1. Onward
    BY <1>5, <1>7 DEF ServePoll
  <2>2. CASE requests[i].scan = None
    <3>1. Answer(i, Ans("refused"))
      BY <1>7, <2>2 DEF ServePoll
    <3>2. Ans("refused") \in Answers /\ Ans("refused").is = "refused"
      BY AnswersAre
    <3> QED BY <1>1, <2>1, <3>1, <3>2, AnswerKeepsKnown
  <2>3. CASE requests[i].scan # None /\ Elsewhere(requests[i].target)
    BY <1>1, <1>7, <2>1, <2>3, AnswersAre, AnswerKeepsKnown DEF ServePoll
  <2>4. CASE requests[i].scan # None /\ ~Elsewhere(requests[i].target)
    <3> DEFINE s == requests[i].scan
               answer == Status(s, server[s])
    <3>1. s \in Scans /\ server[s] \in Phases /\ server[s] # "none"
      BY <1>2, <1>4, <2>4 DEF IdOK, ServerOK
    <3>2. /\ answer \in Answers /\ answer.is = "status"
          /\ answer.scan = s /\ answer.phase = server[s]
      BY <3>1, AnswersAre
    <3>3. Answer(i, answer) /\ server' = server /\ requests[i].kind # "stop"
      BY <1>7, <2>4 DEF ServePoll, IsOut
    <3> HIDE DEF answer
    <3> QED BY <1>1, <2>1, <3>1, <3>2, <3>3, AnswerKeepsKnown DEF Past
  <2> QED BY <2>2, <2>3, <2>4
<1>8. CASE ServeActive(i)
  <2>1. Onward
    BY <1>5, <1>8 DEF ServeActive
  <2>2. CASE Answer(i, Ans("nothing"))
    BY <1>1, <2>1, <2>2, AnswersAre, AnswerKeepsKnown
  <2>3. ASSUME NEW s \in ActiveOf(requests[i].target), Answer(i, Status(s, server[s]))
        PROVE  KnownInv'
    <3> DEFINE answer == Status(s, server[s])
    <3>1. s \in Scans /\ server[s] \in Phases /\ server[s] # "none"
      BY <1>6 DEF ActiveOf, OfTarget
    <3>2. /\ answer \in Answers /\ answer.is = "status"
          /\ answer.scan = s /\ answer.phase = server[s]
      BY <3>1, AnswersAre
    <3>3. Answer(i, answer) /\ server' = server /\ requests[i].kind \notin {"poll", "stop"}
      BY <1>8, <2>3 DEF ServeActive, IsOut
    <3> HIDE DEF answer
    <3> QED BY <1>1, <2>1, <3>1, <3>2, <3>3, AnswerKeepsKnown DEF Past
  <2> QED BY <1>8, <2>1, <2>2, <2>3 DEF ServeActive
<1>9. CASE ServeScore(i)
  <2>1. Onward
    BY <1>5, <1>9 DEF ServeScore
  <2>2. \A is \in {"refused", "pending"} : Answer(i, Ans(is)) => KnownInv'
    BY <1>1, <2>1, AnswersAre, AnswerKeepsKnown
  <2>3. ASSUME NEW s \in Scans, Answer(i, Report(s))
        PROVE  KnownInv'
    BY <1>1, <2>1, <2>3, AnswersAre, AnswerKeepsKnown
  <2> QED BY <1>9, <2>1, <2>2, <2>3 DEF ServeScore, FinishedOf, OfTarget
<1>10. CASE ServeStart(i)
  <2>1. requests[i].kind \notin {"poll", "stop"}
    BY <1>10 DEF ServeStart, IsOut
  <2>2. ASSUME NEW is \in {"refused", "busy"}, Answer(i, Ans(is)), UNCHANGED server
        PROVE  KnownInv' /\ Onward
    BY <1>1, <1>5, <2>2, AnswersAre, AnswerKeepsKnown
  <2>3. ASSUME NEW s \in FinishedOf(requests[i].target), Answer(i, Status(s, "done")),
               UNCHANGED server
        PROVE  KnownInv' /\ Onward
    <3>1. s \in Scans /\ server[s] = "done" /\ "done" \in Phases /\ "done" \in Ended
      BY DEF FinishedOf, OfTarget, Phases, Ended
    <3>2. Onward
      BY <1>5, <2>3
    <3> QED BY <1>1, <2>1, <2>3, <3>1, <3>2, AnswersAre, AnswerKeepsKnown
  <2>4. ASSUME NEW s \in OfTarget(requests[i].target), IsFresh(s),
               server' = [server EXCEPT ![s] = "queued"], Answer(i, Status(s, "queued"))
        PROVE  KnownInv' /\ Onward
    <3>1. s \in Scans /\ "queued" \in Phases \ (Ended \cup {"none", "stopping"})
      BY DEF OfTarget, Phases, Active, Ended
    <3>2. Onward
      BY <1>4, <2>4, <3>1, MoveIsOnward DEF IsFresh, Ended
    <3>3. server'[s] = "queued"
      BY <1>4, <2>4, <3>1 DEF ServerOK
    <3> QED BY <1>1, <2>1, <2>4, <3>1, <3>2, <3>3, AnswersAre, AnswerKeepsKnown
  <2> QED BY <1>10, <2>2, <2>3, <2>4 DEF ServeStart
<1>11. CASE ServeStop(i)
  <2> DEFINE s == requests[i].scan
             phase == IF server[s] = "queued" THEN "cancelled" ELSE "stopping"
  <2>1. s \in Scans /\ requests[i].kind = "stop"
    BY <1>2, <1>3, <1>11 DEF ServeStop, IsOut, IdOK
  <2>2. CASE Answer(i, Ans("refused")) /\ UNCHANGED server
    BY <1>1, <1>5, <2>2, AnswersAre, AnswerKeepsKnown
  <2>3. CASE /\ server[s] \in Active /\ server' = [server EXCEPT ![s] = phase]
             /\ Answer(i, Status(s, phase))
    <3>1. phase \in Phases /\ phase \in Past /\ phase # "none" /\ phase \in {"stopping", "cancelled"}
      BY DEF Phases, Active, Ended, Past
    <3>2. Onward
      BY <1>4, <1>6, <2>1, <2>3, <3>1, MoveIsOnward
    <3>3. server'[s] = phase
      BY <1>4, <2>1, <2>3 DEF ServerOK
    <3>4. /\ Status(s, phase) \in Answers /\ Status(s, phase).is = "status"
          /\ Status(s, phase).scan = s /\ Status(s, phase).phase = phase
      BY <2>1, <3>1, AnswersAre
    <3> HIDE DEF phase
    <3> QED BY <1>1, <2>1, <2>3, <3>1, <3>2, <3>3, <3>4, AnswerKeepsKnown
  <2> QED BY <1>11, <2>2, <2>3 DEF ServeStop
<1> QED BY <1>7, <1>8, <1>9, <1>10, <1>11

LEMMA BlipKeepsKnown ==
  ASSUME KnownInv, NEW i \in Slots, Blip(i)
  PROVE  KnownInv' /\ Onward
<1>1. Onward
  BY StillIsOnward DEF Blip, KnownInv
<1>2. JobsOK' /\ SavedOK'
  BY <1>1, TabStaysOK DEF Blip
<1>3. RequestsOK'
  BY <1>1, AnswersAre, AnsweredOK DEF Blip
<1>4. OthersOK' /\ ServerOK'
  BY <1>1 DEF Blip, Untold, OthersOK, KnownInv, Onward
<1> QED BY <1>1, <1>2, <1>3, <1>4 DEF KnownInv

\* What a callback of the tab says.
LEMMA EmitOK ==
  ASSUME NEW type \in EventTypes, NEW t \in Targets, NEW s \in Scans \cup {None}, Emit(type, t, s)
  PROVE  said' \in [type : EventTypes, target : Targets, scan : Scans \cup {None}] \cup {NoEvent}
BY DEF Emit, Event

LEMMA ScheduleOK ==
  ASSUME KnownInv, NEW t \in Targets, NEW i, Schedule(t, i)
  PROVE  timers' \subseteq Targets /\ forked' \subseteq Targets
BY DEF Schedule, KnownInv, OthersOK

LEMMA RestKeepsKnown ==
  ASSUME KnownInv, Rest, JobsOK', SavedOK', RequestsOK', timers' \subseteq Targets,
         forked' \subseteq Targets,
         \/ Untold
         \/ said' \in [type : EventTypes, target : Targets, scan : Scans \cup {None}] \cup {NoEvent}
  PROVE  KnownInv'
BY DEF KnownInv, ServerOK, OthersOK, Rest, Untold

\* A job may be given a new id, phase, state or pin.
LEMMA JobPatches ==
  ASSUME NEW job, JobOK(job), job # NoJob
  PROVE  /\ \A s, phase : IdOK(s) /\ phase \in Phases
              => JobOK([job EXCEPT !.scan = s, !.phase = phase])
         /\ \A flag \in BOOLEAN : JobOK([job EXCEPT !.stopping = flag])
         /\ \A s \in Scans : JobOK([job EXCEPT !.pinned = s])
         /\ \A s, phase, pinned :
              IdOK(s) /\ phase \in Phases /\ pinned \in Scans \cup {None}
              => JobOK([job EXCEPT !.scan = s, !.phase = phase, !.job = "scoring",
                                   !.wait = "short", !.pinned = pinned])
<1>1. job \in Tracked
  BY DEF JobOK
<1>2. ASSUME NEW s, NEW phase, IdOK(s), phase \in Phases
      PROVE  JobOK([job EXCEPT !.scan = s, !.phase = phase])
  BY <1>1, <1>2 DEF JobOK, IdOK, Tracked
<1>3. ASSUME NEW flag \in BOOLEAN
      PROVE  JobOK([job EXCEPT !.stopping = flag])
  BY <1>1 DEF JobOK, IdOK, Tracked
<1>4. ASSUME NEW s \in Scans
      PROVE  JobOK([job EXCEPT !.pinned = s])
  BY <1>1 DEF JobOK, IdOK, Tracked
<1>5. ASSUME NEW s, NEW phase, NEW pinned,
             IdOK(s), phase \in Phases, pinned \in Scans \cup {None}
      PROVE  JobOK([job EXCEPT !.scan = s, !.phase = phase, !.job = "scoring",
                               !.wait = "short", !.pinned = pinned])
  BY <1>1, <1>5 DEF JobOK, IdOK, Tracked, Jobs, Waits
<1> QED BY <1>2, <1>3, <1>4, <1>5

\* The scan an answer names is one the API has given out.
LEMMA AnswerNamesAScan ==
  ASSUME KnownInv, NEW i \in Slots, requests[i].answer.is = "status"
  PROVE  /\ requests[i] # Free
         /\ requests[i].target \in Targets
         /\ IdOK(requests[i].answer.scan)
         /\ requests[i].answer.scan \in Scans
         /\ requests[i].answer.phase \in Phases
<1>1. requests[i] # Free
  BY DEF Free, NoAnswer
<1>2. requests[i].answer \in Answers /\ requests[i].target \in Targets
  BY <1>1, RequestFields DEF KnownInv
<1>3. requests[i].answer.scan \in Scans /\ requests[i].answer.phase \in Phases
  BY <1>2, StatusFields
<1> QED BY <1>1, <1>2, <1>3 DEF KnownInv, RequestsOK, RequestOK, AnswerOK, IdOK

LEMMA AnsweredIsOut ==
  ASSUME KnownInv, NEW i \in Slots, requests[i].kind \in Kinds
  PROVE  /\ requests[i] # Free
         /\ requests[i].target \in Targets
         /\ IdOK(requests[i].scan)
BY KindIsNotFree, RequestFields DEF KnownInv, RequestsOK, RequestOK

LEMMA PollsKeepKnown ==
  ASSUME KnownInv, NEW i \in Slots,
         \/ PollMissing(i) \/ PollBlip(i) \/ PollActive(i) \/ PollDone(i) \/ PollOver(i)
         \/ PollUnfollowed(i)
  PROVE  KnownInv' /\ server' = server
<1>1. requests[i].kind = "poll" /\ Rest
  BY DEF PollMissing, PollBlip, PollActive, PollDone, PollOver, PollUnfollowed
<1>2. requests[i].target \in Targets
  BY <1>1, AnsweredIsOut DEF Kinds
<1>3. server' = server
  BY <1>1 DEF Rest
<1>4. RequestsOK /\ timers \subseteq Targets /\ forked \subseteq Targets
  BY DEF KnownInv, OthersOK
<1> DEFINE t == requests[i].target
           a == requests[i].answer
<1>5. CASE PollMissing(i)
  BY <1>1, <1>2, <1>3, <1>4, <1>5, ForgetOK, DoneOK, RestKeepsKnown DEF PollMissing
<1>6. CASE PollBlip(i)
  BY <1>1, <1>2, <1>3, <1>4, <1>6, SameOK, DoneOK, ScheduleOK, RestKeepsKnown DEF PollBlip
<1>7. CASE PollUnfollowed(i)
  BY <1>1, <1>3, <1>4, <1>7, SameOK, DoneOK, RestKeepsKnown DEF PollUnfollowed
<1>8. CASE PollActive(i)
  <2>1. IsFollowed(t) /\ IdOK(a.scan) /\ a.phase \in Phases
    BY <1>8, AnswerNamesAScan DEF PollActive
  <2>2. JobOK([scans[t] EXCEPT !.scan = a.scan, !.phase = a.phase])
    BY <1>2, <2>1, JobPatches DEF KnownInv, JobsOK, IsFollowed
  <2>3. JobsOK' /\ SavedOK'
    BY <1>2, <1>3, <1>8, <2>2, UpdateOK DEF PollActive
  <2> QED BY <1>1, <1>2, <1>3, <1>4, <1>8, <2>3, DoneOK, ScheduleOK, RestKeepsKnown DEF PollActive
<1>9. CASE PollDone(i)
  <2>1. IsFollowed(t) /\ IdOK(a.scan) /\ a.phase \in Phases
    BY <1>9, AnswerNamesAScan DEF PollDone
  <2> DEFINE job == [scans[t] EXCEPT !.scan = a.scan, !.phase = a.phase]
  <2>2. PICK latest \in {None} \cup (scored \cap OfTarget(t)) :
          Update(t, IF job.job = "scoring" THEN job
                    ELSE [job EXCEPT !.job = "scoring", !.wait = "short",
                                     !.pinned = IF @ # None THEN @ ELSE latest])
    BY <1>9 DEF PollDone
  <2> DEFINE pinned == IF scans[t].pinned # None THEN scans[t].pinned ELSE latest
             new == [scans[t] EXCEPT !.scan = a.scan, !.phase = a.phase, !.job = "scoring",
                                     !.wait = "short", !.pinned = pinned]
  <2>3. JobOK(scans[t]) /\ scans[t] \in Tracked
    BY <1>2, <2>1 DEF KnownInv, JobsOK, IsFollowed
  <2>4. pinned \in Scans \cup {None}
    BY <2>3 DEF Tracked, KnownInv, OthersOK
  <2>5. JobOK(job)
    BY <2>1, <2>3, JobPatches DEF IsFollowed
  <2>6. JobOK(new)
    <3> HIDE DEF pinned
    <3> QED BY <2>1, <2>3, <2>4, JobPatches DEF IsFollowed
  <2>7. new = [job EXCEPT !.job = "scoring", !.wait = "short",
                          !.pinned = IF @ # None THEN @ ELSE latest]
    BY <2>3 DEF Tracked
  <2>8. JobsOK' /\ SavedOK'
    <3> HIDE DEF new
    <3> SUFFICES ASSUME NEW set, JobOK(set), Update(t, set)
                 PROVE  JobsOK' /\ SavedOK'
      <4>1. CASE job.job = "scoring"
        BY <2>2, <2>5, <4>1
      <4>2. CASE job.job # "scoring"
        BY <2>2, <2>6, <2>7, <4>2
      <4> QED BY <4>1, <4>2
    <3> QED BY <1>2, <1>3, UpdateOK
  <2>9. RequestsOK'
    BY <1>2, <1>3, <1>4, <1>9, SendOK, DoneOK DEF PollDone, AwaitScore, IdOK, Kinds
  <2> QED BY <1>1, <1>3, <1>4, <1>9, <2>8, <2>9, RestKeepsKnown DEF PollDone
<1>10. CASE PollOver(i)
  <2>1. IdOK(a.scan) /\ a.phase \in EventTypes
    BY <1>10, AnswerNamesAScan DEF PollOver, EventTypes
  <2>2. said' \in [type : EventTypes, target : Targets, scan : Scans \cup {None}] \cup {NoEvent}
    BY <1>2, <1>10, <2>1, EmitOK DEF PollOver, IdOK
  <2> QED BY <1>1, <1>2, <1>3, <1>4, <1>10, <2>2, ForgetOK, DoneOK, RestKeepsKnown DEF PollOver
<1> QED BY <1>3, <1>5, <1>6, <1>7, <1>8, <1>9, <1>10

LEMMA FinishSays ==
  ASSUME KnownInv, NEW t \in Targets, NEW report, FinishJob(t, report)
  PROVE  \/ Untold
         \/ said' \in [type : EventTypes, target : Targets, scan : Scans \cup {None}] \cup {NoEvent}
<1>1. scans[t].scan \in Scans \cup {None}
  BY DEF KnownInv, JobsOK, JobOK, IdOK
<1> QED BY <1>1, EmitOK DEF FinishJob, EventTypes

LEMMA ScoresKeepKnown ==
  ASSUME KnownInv, NEW i \in Slots,
         ScoreAnswered(i) \/ ScoreGivenUp(i) \/ ScoreAgain(i) \/ ScoreUnwanted(i)
  PROVE  KnownInv' /\ server' = server
<1>1. requests[i].kind = "score" /\ Rest
  BY DEF ScoreAnswered, ScoreGivenUp, ScoreAgain, ScoreUnwanted
<1>2. requests[i].target \in Targets
  BY <1>1, AnsweredIsOut DEF Kinds
<1>3. server' = server
  BY <1>1 DEF Rest
<1>4. RequestsOK /\ timers \subseteq Targets /\ forked \subseteq Targets
  BY DEF KnownInv, OthersOK
<1>5. CASE ScoreAnswered(i)
  BY <1>1, <1>2, <1>3, <1>4, <1>5, FinishOK, FinishSays, DoneOK, RestKeepsKnown DEF ScoreAnswered
<1>6. CASE ScoreGivenUp(i)
  BY <1>1, <1>2, <1>3, <1>4, <1>6, FinishOK, FinishSays, DoneOK, RestKeepsKnown DEF ScoreGivenUp
<1>7. CASE ScoreAgain(i)
  BY <1>1, <1>2, <1>3, <1>4, <1>7, SameOK, ScheduleOK, DoneOK, RestKeepsKnown DEF ScoreAgain
<1>8. CASE ScoreUnwanted(i)
  BY <1>1, <1>3, <1>4, <1>8, SameOK, DoneOK, RestKeepsKnown DEF ScoreUnwanted
<1> QED BY <1>3, <1>5, <1>6, <1>7, <1>8

LEMMA StartsKeepKnown ==
  ASSUME KnownInv, NEW i \in Slots,
         \/ StartQueued(i) \/ StartUpToDate(i) \/ StartBusy(i) \/ Attach(i) \/ StartFailed(i)
         \/ StopFailed(i) \/ StopAnswered(i)
  PROVE  KnownInv' /\ server' = server
<1> DEFINE t == requests[i].target
           a == requests[i].answer
<1>1. requests[i].kind \in {"start", "attach", "stop"} /\ Rest
  BY DEF StartQueued, StartUpToDate, StartBusy, Attach, StartFailed, StopFailed, StopAnswered
<1>2. t \in Targets
  BY <1>1, AnsweredIsOut DEF Kinds
<1>3. server' = server
  BY <1>1 DEF Rest
<1>4. RequestsOK /\ timers \subseteq Targets /\ forked \subseteq Targets
  BY DEF KnownInv, OthersOK
<1>5. a.is = "status" => IdOK(a.scan) /\ a.scan \in Scans /\ a.phase \in Phases
  BY AnswerNamesAScan
<1>6. CASE StartQueued(i)
  BY <1>1, <1>2, <1>3, <1>4, <1>5, <1>6, TrackOK, ScheduleOK, DoneOK, RestKeepsKnown DEF StartQueued
<1>7. CASE StartUpToDate(i)
  BY <1>1, <1>2, <1>3, <1>4, <1>5, <1>7, ForgetOK, EmitOK, DoneOK, RestKeepsKnown
  DEF StartUpToDate, EventTypes
<1>8. CASE StartBusy(i)
  BY <1>1, <1>2, <1>3, <1>4, <1>8, SameOK, SendOK, RestKeepsKnown DEF StartBusy, Kinds, IdOK
<1>9. CASE Attach(i)
  BY <1>1, <1>2, <1>3, <1>4, <1>5, <1>9, TrackOK, ScheduleOK, EmitOK, DoneOK, RestKeepsKnown
  DEF Attach, EventTypes
<1>10. CASE StartFailed(i)
  BY <1>1, <1>2, <1>3, <1>4, <1>10, ForgetOK, EmitOK, DoneOK, RestKeepsKnown
  DEF StartFailed, EventTypes
<1>11. JobOK(scans[t])
  BY <1>2 DEF KnownInv, JobsOK
<1>12. CASE StopFailed(i)
  <2>1. IsFollowed(t) => JobOK([scans[t] EXCEPT !.stopping = FALSE])
    BY <1>11, JobPatches DEF IsFollowed
  <2>2. JobsOK' /\ SavedOK'
    BY <1>2, <1>3, <1>12, <2>1, UpdateOK DEF StopFailed
  <2>3. \/ Untold
        \/ said' \in [type : EventTypes, target : Targets, scan : Scans \cup {None}] \cup {NoEvent}
    BY <1>2, <1>11, <1>12, EmitOK DEF StopFailed, EventTypes, JobOK, IdOK
  <2> QED BY <1>1, <1>3, <1>4, <1>12, <2>2, <2>3, DoneOK, RestKeepsKnown DEF StopFailed
<1>13. CASE StopAnswered(i)
  <2>1. a.is = "status"
    BY <1>13 DEF StopAnswered
  <2>2. CASE a.phase = "cancelled"
    BY <1>1, <1>2, <1>3, <1>4, <1>5, <1>13, <2>1, <2>2, ForgetOK, EmitOK, DoneOK, RestKeepsKnown
    DEF StopAnswered, EventTypes
  <2>3. CASE a.phase # "cancelled"
    <3>1. IsFollowed(t) => JobOK([scans[t] EXCEPT !.scan = a.scan, !.phase = a.phase])
      BY <1>5, <1>11, <2>1, JobPatches DEF IsFollowed
    <3>2. JobsOK' /\ SavedOK'
      BY <1>2, <1>3, <1>13, <2>3, <3>1, UpdateOK DEF StopAnswered
    <3> QED BY <1>1, <1>3, <1>4, <1>13, <2>3, <3>2, DoneOK, RestKeepsKnown DEF StopAnswered
  <2> QED BY <2>2, <2>3
<1> QED BY <1>3, <1>6, <1>7, <1>8, <1>9, <1>10, <1>12, <1>13

LEMMA DiscoveredKeepsKnown ==
  ASSUME KnownInv, NEW i \in Slots, Discovered(i)
  PROVE  KnownInv' /\ server' = server
<1> DEFINE t == requests[i].target
           a == requests[i].answer
<1>1. Rest /\ Untold /\ Done(i) /\ server' = server
  BY DEF Discovered, Rest
<1>2. t \in Targets
  BY AnsweredIsOut DEF Discovered, Kinds
<1>3. RequestsOK /\ timers \subseteq Targets /\ forked \subseteq Targets
  BY DEF KnownInv, OthersOK
<1>4. CASE a.is = "status" /\ ~IsFollowed(t)
  <2>1. IdOK(a.scan) /\ a.phase \in Phases
    BY <1>4, AnswerNamesAScan
  <2>2. JobsOK' /\ SavedOK'
    BY <1>1, <1>2, <1>4, <2>1, TrackOK DEF Discovered
  <2>3. timers' \subseteq Targets /\ forked' \subseteq Targets
    BY <1>2, <1>3, <1>4 DEF Discovered
  <2> QED BY <1>1, <1>3, <2>2, <2>3, DoneOK, RestKeepsKnown
<1>5. CASE ~(a.is = "status" /\ ~IsFollowed(t))
  BY <1>1, <1>3, <1>5, SameOK, DoneOK, RestKeepsKnown DEF Discovered
<1> QED BY <1>1, <1>4, <1>5

LEMMA UserKeepsKnown ==
  ASSUME KnownInv, NEW t \in Targets,
         \/ Acknowledge(t)
         \/ \E s \in Scans : Pin(t, s)
         \/ \E i \in Slots : Start(t, i) \/ Stop(t, i) \/ Discover(t, i)
  PROVE  KnownInv' /\ server' = server
<1>1. server' = server
  BY DEF Acknowledge, Start, Stop, Discover, Pin, Rest
<1>2. RequestsOK /\ timers \subseteq Targets /\ forked \subseteq Targets /\ IdOK(None)
  BY DEF KnownInv, OthersOK, IdOK
<1>3. JobOK(scans[t]) /\ IdOK(scans[t].scan)
  BY DEF KnownInv, JobsOK, JobOK
<1>4. Onward
  BY <1>1, StillIsOnward DEF KnownInv
<1>5. CASE Acknowledge(t)
  BY <1>1, <1>2, <1>4, <1>5, ForgetOK, RequestsStay, RestKeepsKnown DEF Acknowledge
<1>6. ASSUME NEW i \in Slots, Start(t, i)
      PROVE  KnownInv'
  <2>1. "queued" \in Phases
    BY DEF Phases, Active
  <2> QED BY <1>1, <1>2, <1>6, <2>1, TrackOK, SendOK, EmitOK, RestKeepsKnown
          DEF Start, Kinds, EventTypes
<1>7. ASSUME NEW i \in Slots, Stop(t, i)
      PROVE  KnownInv'
  <2>1. IsFollowed(t) => JobOK([scans[t] EXCEPT !.stopping = TRUE])
    BY <1>3, JobPatches DEF IsFollowed
  <2>2. JobsOK' /\ SavedOK'
    BY <1>1, <1>7, <2>1, UpdateOK DEF Stop
  <2>3. RequestsOK'
    BY <1>1, <1>2, <1>3, <1>7, SendOK DEF Stop, StopOffered, Kinds
  <2> QED BY <1>1, <1>2, <1>7, <2>2, <2>3, RestKeepsKnown DEF Stop
<1>8. ASSUME NEW i \in Slots, Discover(t, i)
      PROVE  KnownInv'
  <2>1. JobsOK' /\ SavedOK'
    BY <1>1, <1>8, SameOK DEF Discover
  <2>2. RequestsOK'
    BY <1>1, <1>2, <1>8, SendOK DEF Discover, Kinds
  <2>3. OthersOK' /\ ServerOK'
    BY <1>8 DEF Discover, KnownInv, OthersOK, ServerOK, Untold
  <2> QED BY <1>1, <2>1, <2>2, <2>3 DEF KnownInv
<1>9. ASSUME NEW s \in Scans, Pin(t, s)
      PROVE  KnownInv'
  <2>1. IsFollowed(t) => JobOK([scans[t] EXCEPT !.pinned = s])
    BY <1>3, JobPatches DEF IsFollowed
  <2>2. JobsOK' /\ SavedOK'
    BY <1>1, <1>9, <2>1, UpdateOK DEF Pin
  <2> QED BY <1>1, <1>2, <1>4, <1>9, <2>2, RequestsStay, RestKeepsKnown DEF Pin
<1> QED BY <1>1, <1>5, <1>6, <1>7, <1>8, <1>9

LEMMA ClockKeepsKnown ==
  ASSUME KnownInv, NEW t \in Targets,
         DiscoverStale(t) \/ ScoreWaits(t) \/ \E i \in Slots : Tick(t, i)
  PROVE  KnownInv' /\ server' = server
<1>1. server' = server
  BY DEF DiscoverStale, ScoreWaits, Tick, Rest
<1>2. RequestsOK /\ timers \subseteq Targets /\ forked \subseteq Targets
  BY DEF KnownInv, OthersOK
<1>3. JobOK(scans[t]) /\ IdOK(scans[t].scan) /\ scans \in [Targets -> Tracked \cup {NoJob}]
  BY DEF KnownInv, JobsOK, JobOK
<1>4. Onward
  BY <1>1, StillIsOnward DEF KnownInv
<1>5. CASE DiscoverStale(t)
  <2>1. JobsOK' /\ SavedOK'
    BY <1>4, <1>5, TabStaysOK DEF DiscoverStale
  <2>2. OthersOK' /\ ServerOK'
    BY <1>5 DEF DiscoverStale, KnownInv, OthersOK, ServerOK, Untold
  <2> QED BY <1>4, <1>5, <2>1, <2>2, RequestsStay DEF DiscoverStale, KnownInv
<1>6. CASE ScoreWaits(t)
  <2> DEFINE job == [scans[t] EXCEPT !.wait = "timeout"]
  <2>1. scans[t] \in Tracked
    BY <1>3, <1>6 DEF ScoreWaits, NoJob
  <2>2. job \in Tracked /\ job.scan = scans[t].scan
    BY <2>1 DEF Tracked, Waits
  <2>3. scans' = [scans EXCEPT ![t] = job]
    BY <1>6 DEF ScoreWaits
  <2>4. JobOK(job)
    BY <1>3, <2>2 DEF JobOK
  <2>5. SavedOK' /\ RequestsOK'
    BY <1>1, <1>4, <1>6, RequestsStay DEF ScoreWaits, KnownInv, SavedOK, IdOK
  <2>6. JobsOK'
    <3> HIDE DEF job
    <3> QED BY <1>1, <2>2, <2>3, <2>4 DEF KnownInv, JobsOK, JobOK, IdOK
  <2> QED BY <1>1, <1>2, <1>6, <2>5, <2>6, RestKeepsKnown DEF ScoreWaits
<1>7. ASSUME NEW i \in Slots, Tick(t, i)
      PROVE  KnownInv'
  <2>1. JobsOK' /\ SavedOK'
    BY <1>1, <1>7, SameOK DEF Tick
  <2>2. RequestsOK'
    BY <1>1, <1>2, <1>3, <1>4, <1>7, SendOK, RequestsStay DEF Tick, Kinds
  <2> QED BY <1>1, <1>2, <1>7, <2>1, <2>2, RestKeepsKnown DEF Tick
<1> QED BY <1>1, <1>5, <1>6, <1>7

\* What Resume does to the jobs.
Again == {t \in Targets : WorkspaceOf[t] = here /\ saved[t] # None /\ ~IsFollowed(t)}
ResumedJobs ==
  [t \in Targets |-> IF t \in Again THEN Followed(t, saved[t], "running") ELSE scans[t]]
ResumedPolls ==
  {t \in Targets : /\ WorkspaceOf[t] = here
                   /\ ResumedJobs[t] # NoJob /\ ResumedJobs[t].scan # None
                   /\ IsJobActive(ResumedJobs[t])}

LEMMA ResumeDoes ==
  ASSUME Resume
  PROVE  /\ IF Again # {} THEN Changed(ResumedJobs) ELSE Same
         /\ timers' = timers \cup ResumedPolls
         /\ forked' = forked \cup {t \in ResumedPolls : OutFor(t, None) # {}}
<1> DEFINE mine  == {t \in Targets : WorkspaceOf[t] = here}
           again == {t \in mine : saved[t] # None /\ ~IsFollowed(t)}
<1>1. again = Again
  BY DEF Again
<1>2. {t \in mine : /\ ResumedJobs[t] # NoJob /\ ResumedJobs[t].scan # None
                    /\ IsJobActive(ResumedJobs[t])} = ResumedPolls
  BY DEF ResumedPolls
<1>3. [t \in Targets |-> IF t \in again THEN Followed(t, saved[t], "running") ELSE scans[t]]
      = ResumedJobs
  BY <1>1 DEF ResumedJobs
<1> QED BY <1>1, <1>2, <1>3 DEF Resume

LEMMA WorkspacesKeepKnown ==
  ASSUME KnownInv,
         (\E w \in Workspaces : SwitchOnServer(w)) \/ NoteWorkspace \/ Resume \/ Reload
  PROVE  KnownInv' /\ server' = server
<1>1. server' = server
  BY DEF SwitchOnServer, NoteWorkspace, Resume, Reload, Unmoved
<1>2. Onward
  BY <1>1, StillIsOnward DEF KnownInv
<1>3. ServerOK'
  BY <1>1 DEF KnownInv, ServerOK
<1>4. ASSUME NEW w \in Workspaces, SwitchOnServer(w)
      PROVE  KnownInv'
  <2>1. OthersOK'
    BY <1>4 DEF SwitchOnServer, KnownInv, OthersOK, Unmoved, Untold
  <2> QED BY <1>1, <1>2, <1>3, <1>4, <2>1, SameOK, RequestsStay
          DEF SwitchOnServer, Unmoved, KnownInv
<1>5. CASE NoteWorkspace
  <2>1. OthersOK'
    BY <1>5 DEF NoteWorkspace, KnownInv, OthersOK, Unmoved, Untold
  <2> QED BY <1>1, <1>2, <1>3, <1>5, <2>1, SameOK, RequestsStay
          DEF NoteWorkspace, Unmoved, KnownInv
<1>6. CASE Resume
  <2>1. JobsOK' /\ SavedOK'
    <3>1. CASE Again = {}
      BY <1>1, <1>6, <3>1, ResumeDoes, SameOK
    <3>2. CASE Again # {}
      <4>1. Changed(ResumedJobs)
        BY <1>6, <3>2, ResumeDoes
      <4>2. "running" \in Phases
        BY DEF Phases, Active
      <4>3. \A t \in Targets : IdOK(saved[t]) /\ JobOK(scans[t])
        BY DEF KnownInv, SavedOK, JobsOK
      <4>4. \A t \in Targets : JobOK(ResumedJobs[t])
        BY <4>2, <4>3, FollowedOK DEF ResumedJobs
      <4>5. ResumedJobs \in [Targets -> Tracked \cup {NoJob}]
        BY <4>4 DEF ResumedJobs, JobOK
      <4> QED BY <1>1, <4>1, <4>4, <4>5, ChangedOK
    <3> QED BY <3>1, <3>2
  <2>2. timers' \subseteq Targets /\ forked' \subseteq Targets
    BY <1>6, ResumeDoes DEF KnownInv, OthersOK, ResumedPolls
  <2>3. OthersOK'
    BY <1>6, <2>2 DEF Resume, KnownInv, OthersOK, Unmoved, Untold
  <2> QED BY <1>2, <1>3, <1>6, <2>1, <2>3, RequestsStay DEF Resume, Unmoved, KnownInv
<1>7. CASE Reload
  <2>1. RequestOK(Free)'
    BY DEF RequestOK, Free, NoAnswer, IdOK, AnswerOK
  <2>2. RequestsOK'
    BY <1>7, <2>1 DEF Reload, RequestsOK, RequestOK, IdOK, AnswerOK
  <2>3. JobsOK'
    BY <1>7 DEF Reload, JobsOK, JobOK, NoJob, IdOK
  <2>4. SavedOK'
    BY <1>1, <1>7 DEF Reload, KnownInv, SavedOK, IdOK
  <2>5. OthersOK'
    <3>1. reloads' = reloads + 1 /\ said' = NoEvent /\ here' = Unknown
      BY <1>7 DEF Reload, Untold
    <3>2. /\ UNCHANGED <<scored, session, forked, blips, switches>>
          /\ timers' = {} /\ discovered' = {} /\ resumeDue' = FALSE
      BY <1>7 DEF Reload
    <3>3. scored \subseteq Scans /\ session \in Workspaces /\ forked \subseteq Targets
      BY DEF KnownInv, OthersOK
    <3>4. blips \in Nat /\ switches \in Nat /\ reloads \in Nat
      BY DEF KnownInv, OthersOK
    <3>5. reloads' \in Nat
      BY <3>1, <3>4
    <3> QED BY <3>1, <3>2, <3>3, <3>4, <3>5 DEF OthersOK
  <2> QED BY <1>1, <1>3, <2>2, <2>3, <2>4, <2>5 DEF KnownInv
<1> QED BY <1>1, <1>4, <1>5, <1>6, <1>7

LEMMA StepKeepsKnown ==
  ASSUME KnownInv, [Next]_vars
  PROVE  KnownInv' /\ Onward
<1>1. UNCHANGED server => Onward
  BY StillIsOnward DEF KnownInv
<1>2. CASE Api
  BY <1>2, ScansKeepKnown, ServersKeepKnown, BlipKeepsKnown DEF Api
<1>3. CASE Answered
  BY <1>1, <1>3, PollsKeepKnown, ScoresKeepKnown, StartsKeepKnown, DiscoveredKeepsKnown
  DEF Answered
<1>4. CASE User
  BY <1>1, <1>4, UserKeepsKnown, WorkspacesKeepKnown DEF User
<1>5. CASE Clock
  BY <1>1, <1>5, ClockKeepsKnown DEF Clock
<1>6. CASE NoteWorkspace \/ Resume
  BY <1>1, <1>6, WorkspacesKeepKnown
<1>7. CASE UNCHANGED vars
  <2>1. JobsOK' /\ SavedOK' /\ RequestsOK'
    BY <1>1, <1>7, TabStaysOK, RequestsStay DEF vars
  <2>2. ServerOK' /\ OthersOK'
    BY <1>7 DEF vars, KnownInv, ServerOK, OthersOK
  <2> QED BY <1>1, <1>7, <2>1, <2>2 DEF vars, KnownInv
<1> QED BY <1>2, <1>3, <1>4, <1>5, <1>6, <1>7 DEF Next

LEMMA InitIsKnown == Init => KnownInv
<1> SUFFICES ASSUME Init
             PROVE  KnownInv
  OBVIOUS
<1>1. JobOK(NoJob) /\ RequestOK(Free) /\ IdOK(None)
  BY NoJobOK DEF RequestOK, Free, NoAnswer, IdOK, AnswerOK
<1>2. ServerOK /\ JobsOK /\ SavedOK /\ RequestsOK
  BY <1>1 DEF Init, ServerOK, JobsOK, SavedOK, RequestsOK
<1>3. OthersOK
  BY DEF Init, OthersOK
<1> QED BY <1>2, <1>3 DEF KnownInv

\* Every variable of the tab, the API and the network between has its type.
THEOREM ScanCenterHasType == Spec => []TypeOK
<1>1. KnownInv /\ [Next]_vars => KnownInv'
  BY StepKeepsKnown
<1> QED BY <1>1, InitIsKnown, KnownInvTypes, PTL DEF Spec

-----------------------------------------------------------------------------
(* What is saved for a refresh.                                            *)

SavedOf(jobs) ==
  [t \in Targets |-> IF jobs[t] # NoJob /\ IsJobActive(jobs[t]) THEN jobs[t].scan ELSE None]

\* After a refresh, until the first job: nothing goes on in this tab.
Fresh == /\ \A t \in Targets : ~IsFollowed(t)
         /\ \A i \in Slots : requests[i].kind \in {"free", "discover"}
         /\ timers = {}

\* What is saved is what goes on, except right after a refresh.
SavedInv == saved = SavedOf(scans) \/ Fresh

LEMMA ChangedIsSaved ==
  ASSUME NEW jobs, Changed(jobs)
  PROVE  SavedInv'
BY DEF Changed, Persist, SavedInv, SavedOf

LEMMA UnchangedIsSaved ==
  ASSUME saved = SavedOf(scans), Same
  PROVE  SavedInv'
BY DEF Same, SavedInv, SavedOf

LEMMA UpdateIsSaved ==
  ASSUME saved = SavedOf(scans), NEW t \in Targets, NEW job, Update(t, job)
  PROVE  SavedInv'
BY ChangedIsSaved, UnchangedIsSaved DEF Update

LEMMA ForgetIsSaved ==
  ASSUME saved = SavedOf(scans), NEW t \in Targets, Forget(t)
  PROVE  SavedInv'
BY ChangedIsSaved, UnchangedIsSaved DEF Forget

\* An answer leaves kind, target and scan of its request alone.
LEMMA AnsweredFields ==
  ASSUME KnownInv, NEW i \in Slots, NEW answer, requests[i] # Free,
         requests' = [requests EXCEPT ![i].answer = answer]
  PROVE  \A k \in Slots : /\ requests'[k].kind = requests[k].kind
                          /\ requests'[k].target = requests[k].target
                          /\ requests'[k].scan = requests[k].scan
<1>1. requests[i] \in Request
  BY RequestFields DEF KnownInv
<1> QED BY <1>1 DEF KnownInv, RequestsOK, Request

LEMMA StillFresh ==
  ASSUME Fresh, Same, UNCHANGED timers, UNCHANGED requests
  PROVE  SavedInv'
BY DEF Fresh, Same, SavedInv, IsFollowed

LEMMA StepKeepsSaved ==
  ASSUME KnownInv, SavedInv, [Next]_vars
  PROVE  SavedInv'
<1>1. CASE Api \/ UNCHANGED vars
  <2>1. Same /\ UNCHANGED timers
    BY <1>1 DEF Api, Same, StartedElsewhere, Runs, ScoreReady, Ends, ApiOnly, ServePoll,
       ServeActive, ServeScore, ServeStart, ServeStop, Answer, Blip, vars
  <2>2. \A k \in Slots : requests'[k].kind = requests[k].kind
    <3>1. ASSUME NEW i \in Slots, NEW kinds, IsOut(i, kinds), kinds \subseteq Kinds, NEW answer,
                 Answer(i, answer)
          PROVE  \A k \in Slots : requests'[k].kind = requests[k].kind
      BY <3>1, KindIsNotFree, AnsweredFields DEF IsOut, Answer
    <3>2. ASSUME NEW i \in Slots, Blip(i)
          PROVE  \A k \in Slots : requests'[k].kind = requests[k].kind
      BY <3>2, AnsweredFields DEF Blip
    <3>3. ASSUME NEW i \in Slots, ServePoll(i)
          PROVE  \A k \in Slots : requests'[k].kind = requests[k].kind
      BY <3>1, <3>3 DEF ServePoll, Kinds
    <3>4. ASSUME NEW i \in Slots, ServeActive(i)
          PROVE  \A k \in Slots : requests'[k].kind = requests[k].kind
      BY <3>1, <3>4 DEF ServeActive, Kinds
    <3>5. ASSUME NEW i \in Slots, ServeScore(i)
          PROVE  \A k \in Slots : requests'[k].kind = requests[k].kind
      BY <3>1, <3>5 DEF ServeScore, Kinds
    <3>6. ASSUME NEW i \in Slots, ServeStart(i)
          PROVE  \A k \in Slots : requests'[k].kind = requests[k].kind
      BY <3>1, <3>6 DEF ServeStart, Kinds
    <3>7. ASSUME NEW i \in Slots, ServeStop(i)
          PROVE  \A k \in Slots : requests'[k].kind = requests[k].kind
      BY <3>1, <3>7 DEF ServeStop, Kinds
    <3>8. UNCHANGED requests => \A k \in Slots : requests'[k].kind = requests[k].kind
      OBVIOUS
    <3> QED BY <1>1, <3>2, <3>3, <3>4, <3>5, <3>6, <3>7, <3>8
            DEF Api, StartedElsewhere, Runs, ScoreReady, Ends, ApiOnly, vars
  <2>3. CASE saved = SavedOf(scans)
    BY <2>1, <2>3, UnchangedIsSaved
  <2>4. CASE Fresh
    BY <2>1, <2>2, <2>4 DEF Fresh, SavedInv, Same, IsFollowed
  <2> QED BY <2>3, <2>4 DEF SavedInv
<1>2. ASSUME NEW i \in Slots,
             \/ PollMissing(i) \/ PollBlip(i) \/ PollActive(i) \/ PollDone(i) \/ PollOver(i)
             \/ PollUnfollowed(i)
             \/ ScoreAnswered(i) \/ ScoreGivenUp(i) \/ ScoreAgain(i) \/ ScoreUnwanted(i)
             \/ StartQueued(i) \/ StartUpToDate(i) \/ StartBusy(i) \/ Attach(i) \/ StartFailed(i)
             \/ StopFailed(i) \/ StopAnswered(i)
      PROVE  SavedInv'
  <2>1. requests[i].kind \in Kinds \ {"discover"} /\ requests[i].kind # "free"
    BY <1>2 DEF PollMissing, PollBlip, PollActive, PollDone, PollOver, PollUnfollowed,
       ScoreAnswered, ScoreGivenUp, ScoreAgain, ScoreUnwanted, StartQueued, StartUpToDate,
       StartBusy, Attach, StartFailed, StopFailed, StopAnswered, Kinds
  <2>2. requests[i].target \in Targets
    BY <2>1, AnsweredIsOut
  <2>3. saved = SavedOf(scans)
    BY <2>1 DEF SavedInv, Fresh
  <2>4. CASE PollMissing(i) \/ PollOver(i) \/ StartUpToDate(i) \/ StartFailed(i)
    BY <2>2, <2>3, <2>4, ForgetIsSaved DEF PollMissing, PollOver, StartUpToDate, StartFailed
  <2>5. CASE \/ PollBlip(i) \/ PollUnfollowed(i) \/ ScoreAgain(i) \/ ScoreUnwanted(i)
             \/ StartBusy(i)
    BY <2>3, <2>5, UnchangedIsSaved DEF PollBlip, PollUnfollowed, ScoreAgain, ScoreUnwanted,
       StartBusy
  <2>6. CASE PollActive(i) \/ PollDone(i) \/ StopFailed(i)
    BY <2>2, <2>3, <2>6, UpdateIsSaved DEF PollActive, PollDone, StopFailed
  <2>7. CASE ScoreAnswered(i) \/ ScoreGivenUp(i)
    BY <2>3, <2>7, ChangedIsSaved, UnchangedIsSaved DEF ScoreAnswered, ScoreGivenUp, FinishJob
  <2>8. CASE StartQueued(i) \/ Attach(i)
    BY <2>8, ChangedIsSaved DEF StartQueued, Attach, Track
  <2>9. CASE StopAnswered(i)
    BY <2>2, <2>3, <2>9, ForgetIsSaved, UpdateIsSaved DEF StopAnswered
  <2> QED BY <1>2, <2>4, <2>5, <2>6, <2>7, <2>8, <2>9
<1>3. ASSUME NEW i \in Slots, Discovered(i)
      PROVE  SavedInv'
  <2>2. CASE Same /\ UNCHANGED timers /\ Done(i)
    <3>1. CASE Fresh
      BY <2>2, <3>1 DEF Fresh, Same, SavedInv, IsFollowed, Done, Free, KnownInv, RequestsOK
    <3> QED BY <2>2, <3>1, UnchangedIsSaved DEF SavedInv
  <2>3. CASE requests[i].answer.is = "status" /\ ~IsFollowed(requests[i].target)
    BY <1>3, <2>3, ChangedIsSaved DEF Discovered, Track
  <2>4. CASE ~(requests[i].answer.is = "status" /\ ~IsFollowed(requests[i].target))
    BY <1>3, <2>2, <2>4 DEF Discovered
  <2> QED BY <2>3, <2>4
<1>4. ASSUME NEW t \in Targets, Acknowledge(t) \/ \E s \in Scans : Pin(t, s)
      PROVE  SavedInv'
  <2>1. scans[t].job \in {"ready", "scanning"}
    BY <1>4 DEF Acknowledge, Pin
  <2>2. scans[t] # NoJob
    BY <2>1 DEF NoJob
  <2>3. saved = SavedOf(scans)
    BY <2>2 DEF SavedInv, Fresh, IsFollowed
  <2>4. CASE Acknowledge(t)
    BY <2>3, <2>4, ForgetIsSaved DEF Acknowledge
  <2>5. ASSUME NEW s \in Scans, Pin(t, s)
        PROVE  SavedInv'
    BY <2>3, <2>5, UpdateIsSaved DEF Pin
  <2> QED BY <1>4, <2>4, <2>5
<1>5. ASSUME NEW t \in Targets, NEW i \in Slots, Start(t, i) \/ Stop(t, i) \/ Discover(t, i)
      PROVE  SavedInv'
  <2>1. CASE Start(t, i)
    BY <2>1, ChangedIsSaved DEF Start, Track
  <2>2. CASE Stop(t, i)
    BY <2>2, ChangedIsSaved DEF Stop, StopOffered, Update
  <2>3. CASE Discover(t, i)
    <3>1. CASE Fresh
      BY <2>3, <3>1 DEF Fresh, Discover, Same, SavedInv, IsFollowed, Send, KnownInv, RequestsOK
    <3> QED BY <2>3, <3>1, UnchangedIsSaved DEF SavedInv, Discover
  <2> QED BY <1>5, <2>1, <2>2, <2>3
<1>6. ASSUME NEW t \in Targets,
             DiscoverStale(t) \/ ScoreWaits(t) \/ \E i \in Slots : Tick(t, i)
      PROVE  SavedInv'
  <2>1. CASE DiscoverStale(t)
    BY <2>1, UnchangedIsSaved, StillFresh DEF DiscoverStale, SavedInv, Same
  <2>2. CASE ScoreWaits(t)
    <3>1. saved = SavedOf(scans) /\ scans[t] # NoJob
      BY <2>2 DEF SavedInv, Fresh, ScoreWaits, IsFollowed, NoJob
    <3>2. scans[t] \in Tracked /\ scans \in [Targets -> Tracked \cup {NoJob}]
      BY <3>1 DEF KnownInv, JobsOK
    <3> DEFINE job == [scans[t] EXCEPT !.wait = "timeout"]
    <3>3. job.job = scans[t].job /\ job.scan = scans[t].scan /\ job \in Tracked
      BY <3>2 DEF Tracked, Waits
    <3>4. job # NoJob
      BY <3>3 DEF Tracked, NoJob, Phases, Active, Ended
    <3>5. scans' = [scans EXCEPT ![t] = job] /\ saved' = saved
      BY <2>2 DEF ScoreWaits
    <3> HIDE DEF job
    <3>6. \A u \in Targets :
            (IF scans'[u] # NoJob /\ IsJobActive(scans'[u]) THEN scans'[u].scan ELSE None)
            = (IF scans[u] # NoJob /\ IsJobActive(scans[u]) THEN scans[u].scan ELSE None)
      BY <3>1, <3>2, <3>3, <3>4, <3>5 DEF IsJobActive
    <3> QED BY <3>1, <3>5, <3>6 DEF SavedInv, SavedOf
  <2>3. ASSUME NEW i \in Slots, Tick(t, i)
        PROVE  SavedInv'
    BY <2>3, UnchangedIsSaved DEF Tick, SavedInv, Fresh
  <2> QED BY <1>6, <2>1, <2>2, <2>3
<1>7. CASE (\E w \in Workspaces : SwitchOnServer(w)) \/ NoteWorkspace
  BY <1>7, UnchangedIsSaved, StillFresh DEF SwitchOnServer, NoteWorkspace, Unmoved, SavedInv
<1>8. CASE Resume
  <2>1. CASE Again # {}
    BY <1>8, <2>1, ResumeDoes, ChangedIsSaved
  <2>2. CASE Again = {}
    <3>1. Same
      BY <1>8, <2>2, ResumeDoes
    <3>2. CASE Fresh
      <4>1. \A t \in Targets : ResumedJobs[t] = NoJob
        BY <2>2, <3>2 DEF ResumedJobs, Fresh, IsFollowed
      <4>2. timers' = timers
        BY <1>8, <4>1, ResumeDoes DEF ResumedPolls
      <4> QED BY <1>8, <3>1, <3>2, <4>2, StillFresh DEF Resume, Unmoved
    <3> QED BY <3>1, <3>2, UnchangedIsSaved DEF SavedInv
  <2> QED BY <2>1, <2>2
<1>9. CASE Reload
  BY <1>9 DEF Reload, SavedInv, Fresh, IsFollowed, Free
<1> QED BY <1>1, <1>2, <1>3, <1>4, <1>5, <1>6, <1>7, <1>8, <1>9
        DEF Next, Answered, User, Clock

LEMMA InitIsSaved == Init => SavedInv
BY DEF Init, SavedInv, SavedOf

-----------------------------------------------------------------------------
(* The questions about one branch.                                         *)

Out(k, t, kinds) == requests[k].kind \in kinds /\ requests[k].target = t
AnyOut(t, kinds) == \E k \in Slots : Out(k, t, kinds)

\* NothingGoesUnpolled, and which question it is: one about the score decides about
\* a job whose score is awaited only.
Polled(t) ==
  (/\ IsFollowed(t) /\ scans[t].scan # None /\ IsJobActive(scans[t])
   /\ here = WorkspaceOf[t] /\ ~resumeDue)
  => \/ t \in timers
     \/ AnyOut(t, {"poll", "start", "attach"})
     \/ scans[t].job = "scoring" /\ AnyOut(t, {"score"})

\* A job without a scan id has its start, or the search for a running scan, out.
AskedFor(t) == IsFollowed(t) /\ scans[t].scan = None => AnyOut(t, {"start", "attach"})

OneChain(t) ==
  /\ t \in timers => ~AnyOut(t, {"poll", "score"})
  /\ \A j, k \in Slots : Out(j, t, {"poll", "score"}) /\ Out(k, t, {"poll", "score"}) => j = k

\* A branch whose score is awaited or known has a scan that is done.
ScanIsDone(t) ==
  IsFollowed(t) /\ scans[t].job \in {"scoring", "ready"}
  => scans[t].scan # None /\ server[scans[t].scan] = "done"

\* A question fits the job that is followed.
QuestionsFit(t) ==
  IsFollowed(t) =>
    /\ t \in timers => scans[t].job # "ready"
    /\ AnyOut(t, {"score"}) => scans[t].job = "scoring"
    /\ AnyOut(t, {"poll"}) => scans[t].job = "scanning"
    /\ \A k \in Slots : Out(k, t, {"poll"}) => requests[k].scan \in {None, scans[t].scan}
    /\ \A k \in Slots : Out(k, t, {"stop"}) => /\ requests[k].scan = scans[t].scan
                                               /\ scans[t].stopping

\* A start comes before everything else.
StartsComeFirst(t) ==
  /\ AnyOut(t, {"start", "attach"}) =>
       /\ IsFollowed(t) /\ scans[t].scan = None
       /\ ~AnyOut(t, {"score", "stop"})
  /\ \A j, k \in Slots :
       Out(j, t, {"start", "attach"}) /\ Out(k, t, {"start", "attach"}) => j = k

\* A stop is asked for once, and an older answer does not take it back.
StopsFit(t) ==
  /\ \A j, k \in Slots : Out(j, t, {"stop"}) /\ Out(k, t, {"stop"}) => j = k
  /\ IsFollowed(t) /\ scans[t].phase = "stopping" =>
       /\ scans[t].scan # None /\ server[scans[t].scan] \in Past
       /\ \A k \in Slots :
            (/\ Out(k, t, {"poll"}) /\ requests[k].answer.is = "status"
             /\ requests[k].answer.phase \in {"queued", "running"})
            => scans[t].stopping /\ ~AnyOut(t, {"stop"})

Unforked(t) == /\ OneChain(t) /\ ScanIsDone(t) /\ QuestionsFit(t)
               /\ StartsComeFirst(t) /\ StopsFit(t)

TargetInv(t) == Polled(t) /\ AskedFor(t) /\ (t \notin forked => Unforked(t))

\* A step about other branches.
Untouched(t) ==
  /\ scans'[t] = scans[t]
  /\ t \in timers' <=> t \in timers
  /\ t \in forked => t \in forked'
  /\ \A k \in Slots :
       \/ requests'[k] = requests[k]
       \/ /\ requests[k].kind \in {"free", "discover"} \/ requests[k].target # t
          /\ requests'[k].kind \in {"free", "discover"} \/ requests'[k].target # t

LEMMA UntouchedKeeps ==
  ASSUME KnownInv, Onward, NEW t \in Targets, TargetInv(t), Untouched(t),
         UNCHANGED <<here, resumeDue>>
  PROVE  TargetInv(t)'
<1>1. \A kinds \in SUBSET (Kinds \ {"discover"}), k \in Slots :
        /\ Out(k, t, kinds)' <=> Out(k, t, kinds)
        /\ Out(k, t, kinds) => requests'[k] = requests[k]
  BY DEF Untouched, Out, Kinds
<1>2. \A kinds \in SUBSET (Kinds \ {"discover"}) : AnyOut(t, kinds)' <=> AnyOut(t, kinds)
  BY <1>1 DEF AnyOut
<1>3. IsFollowed(t)' <=> IsFollowed(t)
  BY DEF IsFollowed, Untouched
<1>4. IdOK(scans[t].scan)
  BY DEF KnownInv, JobsOK, JobOK
<1>5. Polled(t)' /\ AskedFor(t)'
  BY <1>2, <1>3 DEF TargetInv, Polled, AskedFor, Untouched, Kinds, IsJobActive
<1>6. t \notin forked' => t \notin forked
  BY DEF Untouched
<1>7. ASSUME Unforked(t)
      PROVE  Unforked(t)'
  <2> USE <1>7 DEF Unforked
  <2>1. OneChain(t)'
    BY <1>1, <1>2 DEF OneChain, Untouched, Kinds
  <2>2. ScanIsDone(t)'
    BY <1>3, <1>4 DEF ScanIsDone, Untouched, Onward, Ended, IdOK
  <2>3. QuestionsFit(t)'
    BY <1>1, <1>2, <1>3 DEF QuestionsFit, Untouched, Kinds
  <2>4. StartsComeFirst(t)'
    BY <1>1, <1>2, <1>3 DEF StartsComeFirst, Untouched, Kinds
  <2>5. StopsFit(t)'
    BY <1>1, <1>2, <1>3, <1>4 DEF StopsFit, Untouched, Kinds, Onward, IdOK
  <2> QED BY <2>1, <2>2, <2>3, <2>4, <2>5
<1> QED BY <1>5, <1>6, <1>7 DEF TargetInv

LEMMA AnswerKeepsTarget ==
  ASSUME KnownInv, Onward, NEW t \in Targets, TargetInv(t), NEW i \in Slots, requests[i] # Free,
         NEW answer \in Answers, requests' = [requests EXCEPT ![i].answer = answer],
         UNCHANGED <<here, resumeDue, scans, timers, forked>>,
         requests[i].kind = "poll" /\ answer.is = "status" =>
           /\ answer.scan = requests[i].scan /\ answer.phase = server[answer.scan]
  PROVE  TargetInv(t)'
<1>1. \A k \in Slots : /\ requests'[k].kind = requests[k].kind
                       /\ requests'[k].target = requests[k].target
                       /\ requests'[k].scan = requests[k].scan
  BY AnsweredFields
<1>2. \A kinds : \A k \in Slots : Out(k, t, kinds)' <=> Out(k, t, kinds)
  BY <1>1 DEF Out
<1>3. \A kinds : AnyOut(t, kinds)' <=> AnyOut(t, kinds)
  BY <1>2 DEF AnyOut
<1>4. IsFollowed(t)' <=> IsFollowed(t)
  BY DEF IsFollowed
<1>5. IdOK(scans[t].scan) /\ IdOK(requests[i].scan)
  BY DEF KnownInv, JobsOK, JobOK, RequestsOK, RequestOK
<1>6. Polled(t)' /\ AskedFor(t)'
  BY <1>3, <1>4 DEF TargetInv, Polled, AskedFor, IsJobActive
<1>7. ASSUME Unforked(t)
      PROVE  Unforked(t)'
  <2> USE <1>7 DEF Unforked
  <2>1. OneChain(t)'
    BY <1>2, <1>3 DEF OneChain
  <2>2. ScanIsDone(t)'
    BY <1>4, <1>5 DEF ScanIsDone, Onward, Ended, IdOK
  <2>3. QuestionsFit(t)'
    BY <1>1, <1>2, <1>3, <1>4 DEF QuestionsFit
  <2>4. StartsComeFirst(t)'
    BY <1>2, <1>3, <1>4 DEF StartsComeFirst
  <2>5. StopsFit(t)'
    <3>1. \A j, k \in Slots : Out(j, t, {"stop"})' /\ Out(k, t, {"stop"})' => j = k
      BY <1>2 DEF StopsFit
    <3>2. ASSUME IsFollowed(t), scans[t].phase = "stopping"
          PROVE  scans[t].scan # None /\ (server[scans[t].scan] \in Past)'
      BY <1>5, <3>2 DEF StopsFit, Onward, IdOK
    <3>3. ASSUME IsFollowed(t), scans[t].phase = "stopping", NEW k \in Slots,
                 Out(k, t, {"poll"}), requests'[k].answer.is = "status",
                 requests'[k].answer.phase \in {"queued", "running"}
          PROVE  scans[t].stopping /\ ~AnyOut(t, {"stop"})
      <4>1. CASE k # i
        <5>1. requests'[k] = requests[k]
          BY <4>1 DEF KnownInv, RequestsOK
        <5> QED BY <3>3, <5>1 DEF StopsFit
      <4>2. CASE k = i
        <5>1. requests'[i].answer = answer
          <6>1. requests[i] \in Request
            BY RequestFields DEF KnownInv
          <6> QED BY <6>1 DEF KnownInv, RequestsOK, Request
        <5>2. requests[i].kind = "poll" /\ answer.is = "status"
          BY <3>3, <4>2, <5>1 DEF Out
        <5>3. answer.scan \in Scans /\ answer.scan = requests[i].scan
          BY <5>2, StatusFields
        <5>4. requests[i].scan = scans[t].scan
          BY <3>3, <4>2, <5>3, IdsArePositive DEF QuestionsFit
        <5>5. server[answer.scan] \in Past
          BY <3>3, <5>3, <5>4 DEF StopsFit
        <5>6. answer.phase \in {"queued", "running"} /\ answer.phase = server[answer.scan]
          BY <3>3, <4>2, <5>1, <5>2
        <5> QED BY <5>5, <5>6 DEF Past, Ended
      <4> QED BY <4>1, <4>2
    <3> QED BY <1>2, <1>3, <1>4, <3>1, <3>2, <3>3 DEF StopsFit
  <2> QED BY <2>1, <2>2, <2>3, <2>4, <2>5
<1> QED BY <1>6, <1>7 DEF TargetInv

LEMMA ApiKeepsTarget ==
  ASSUME KnownInv, NEW t \in Targets, TargetInv(t), Api
  PROVE  TargetInv(t)'
<1>1. Onward
  BY StepKeepsKnown DEF Next
<1>2. ASSUME NEW s \in Scans,
             \/ StartedElsewhere(s) \/ Runs(s) \/ ScoreReady(s)
             \/ \E phase \in Ended : Ends(s, phase)
      PROVE  TargetInv(t)'
  <2>1. UNCHANGED <<scans, timers, forked, requests, here, resumeDue>>
    BY <1>2 DEF StartedElsewhere, Runs, ScoreReady, Ends, ApiOnly
  <2> QED BY <1>1, <2>1, UntouchedKeeps DEF Untouched
<1>3. ASSUME NEW i \in Slots, NEW answer \in Answers, Answer(i, answer), requests[i] # Free,
             requests[i].kind = "poll" /\ answer.is = "status" =>
               /\ answer.scan = requests[i].scan /\ answer.phase = server[answer.scan]
      PROVE  TargetInv(t)'
  BY <1>1, <1>3, AnswerKeepsTarget DEF Answer
<1>4. ASSUME NEW i \in Slots, Blip(i)
      PROVE  TargetInv(t)'
  <2>1. Ans("blip") \in Answers /\ Ans("blip").is = "blip"
    BY AnswersAre
  <2> QED BY <1>1, <1>4, <2>1, AnswerKeepsTarget DEF Blip
<1>5. ASSUME NEW i \in Slots,
             ServePoll(i) \/ ServeActive(i) \/ ServeScore(i) \/ ServeStart(i) \/ ServeStop(i)
      PROVE  TargetInv(t)'
  <2>1. requests[i] # Free
    BY <1>5, KindIsNotFree
    DEF ServePoll, ServeActive, ServeScore, ServeStart, ServeStop, IsOut, Kinds
  <2>2. IdOK(requests[i].scan) /\ ServerOK
    BY DEF KnownInv, RequestsOK, RequestOK
  <2>3. requests[i].kind = "stop" => requests[i].scan # None
    BY DEF KnownInv, RequestsOK, RequestOK
  <2>4. CASE ServePoll(i)
    <3> DEFINE s == requests[i].scan
    <3>1. s # None => s \in Scans /\ server[s] \in Phases
      BY <2>2 DEF IdOK, ServerOK
    <3>2. s # None => /\ Status(s, server[s]) \in Answers
                      /\ Status(s, server[s]).scan = s /\ Status(s, server[s]).phase = server[s]
      BY <3>1, AnswersAre
    <3>3. \A is \in {"refused", "missing"} : Ans(is) \in Answers /\ Ans(is).is = is
      BY AnswersAre
    <3>4. CASE s = None
      BY <1>3, <2>1, <2>4, <3>3, <3>4 DEF ServePoll
    <3>5. CASE s # None /\ Elsewhere(requests[i].target)
      BY <1>3, <2>1, <2>4, <3>3, <3>5 DEF ServePoll
    <3>6. CASE s # None /\ ~Elsewhere(requests[i].target)
      BY <1>3, <2>1, <2>4, <3>2, <3>6 DEF ServePoll
    <3> QED BY <3>4, <3>5, <3>6
  <2>5. CASE ServeActive(i) \/ ServeScore(i) \/ ServeStart(i) \/ ServeStop(i)
    <3>1. requests[i].kind # "poll"
      BY <2>5 DEF ServeActive, ServeScore, ServeStart, ServeStop, IsOut
    <3>2. \A answer \in Answers : Answer(i, answer) => TargetInv(t)'
      BY <1>3, <2>1, <3>1
    <3>3. \A s \in ActiveOf(requests[i].target) : Status(s, server[s]) \in Answers
      BY AnswersAre DEF ActiveOf, OfTarget, Phases
    <3>4. /\ \A s \in OfTarget(requests[i].target) :
               /\ Status(s, "done") \in Answers
               /\ Status(s, "queued") \in Answers
               /\ Report(s) \in Answers
          /\ FinishedOf(requests[i].target) \subseteq OfTarget(requests[i].target)
      BY AnswersAre DEF OfTarget, FinishedOf, Phases, Ended, Active
    <3>5. \A is \in {"refused", "busy", "pending", "nothing"} : Ans(is) \in Answers
      BY AnswersAre
    <3>6. CASE ServeActive(i)
      BY <3>2, <3>3, <3>5, <3>6 DEF ServeActive
    <3>7. CASE ServeScore(i)
      BY <3>2, <3>4, <3>5, <3>7 DEF ServeScore
    <3>8. CASE ServeStart(i)
      BY <3>2, <3>4, <3>5, <3>8 DEF ServeStart
    <3>9. CASE ServeStop(i)
      <4>1. requests[i].scan \in Scans
        BY <2>2, <2>3, <3>9 DEF IdOK, ServeStop, IsOut
      <4>2. /\ Status(requests[i].scan, "cancelled") \in Answers
            /\ Status(requests[i].scan, "stopping") \in Answers
        BY <4>1, AnswersAre DEF Phases, Active, Ended
      <4> QED BY <3>2, <3>5, <3>9, <4>2 DEF ServeStop
    <3> QED BY <2>5, <3>6, <3>7, <3>8, <3>9
  <2> QED BY <1>5, <2>4, <2>5
<1> QED BY <1>2, <1>4, <1>5 DEF Api

\* A request that is answered, or sent, changes nothing for the other branches.
LEMMA OthersKeep ==
  ASSUME KnownInv, Onward, NEW u \in Targets, NEW t \in Targets, t # u, TargetInv(t),
         NEW i \in Slots, requests[i] = Free \/ requests[i].target = u,
         Done(i) \/ (\E kind, s : Send(i, kind, u, s)) \/ UNCHANGED requests,
         scans'[t] = scans[t], t \in timers' <=> t \in timers, t \in forked => t \in forked',
         UNCHANGED <<here, resumeDue>>
  PROVE  TargetInv(t)'
<1>1. \A k \in Slots \ {i} : requests'[k] = requests[k]
  BY DEF Done, Send, KnownInv, RequestsOK
<1>2. \/ requests'[i] = requests[i]
      \/ requests'[i].kind \in {"free", "discover"} \/ requests'[i].target # t
  BY DEF Done, Send, KnownInv, RequestsOK, Free
<1>3. requests[i].kind \in {"free", "discover"} \/ requests[i].target # t
  BY DEF Free
<1>4. Untouched(t)
  BY <1>1, <1>2, <1>3 DEF Untouched
<1> QED BY <1>4, UntouchedKeeps

\* The questions that are left when one is answered, or another takes its slot.
LEMMA DoneLeaves ==
  ASSUME KnownInv, NEW i \in Slots, Done(i)
  PROVE  \A k \in Slots : /\ k # i => requests'[k] = requests[k]
                          /\ \A t, kinds : kinds \subseteq Kinds =>
                               (Out(k, t, kinds)' <=> k # i /\ Out(k, t, kinds))
<1>1. \A k \in Slots : requests'[k] = IF k = i THEN Free ELSE requests[k]
  BY DEF Done, KnownInv, RequestsOK
<1>2. Free.kind \notin Kinds
  BY DEF Free, Kinds
<1> QED BY <1>1, <1>2 DEF Out

LEMMA SendLeaves ==
  ASSUME KnownInv, NEW i \in Slots, NEW kind, NEW u, NEW s, Send(i, kind, u, s)
  PROVE  /\ \A k \in Slots : k # i => requests'[k] = requests[k]
         /\ \A k \in Slots : \A kinds :
              Out(k, u, kinds)' <=> (k = i /\ kind \in kinds) \/ (k # i /\ Out(k, u, kinds))
         /\ requests'[i].kind = kind /\ requests'[i].target = u /\ requests'[i].scan = s
         /\ requests'[i].answer = NoAnswer
<1>1. \A k \in Slots : requests'[k] = IF k = i THEN [kind |-> kind, target |-> u, scan |-> s,
                                                     answer |-> NoAnswer]
                                                ELSE requests[k]
  BY DEF Send, KnownInv, RequestsOK
<1> QED BY <1>1 DEF Out

\* A branch that is given up, and whose start is not out, is at rest.
LEMMA ForgottenKeeps ==
  ASSUME KnownInv, NEW t \in Targets, TargetInv(t), NEW i \in Slots, Done(i),
         scans' = [scans EXCEPT ![t] = NoJob], timers' = timers \ {t}, UNCHANGED forked,
         t \notin forked => \A k \in Slots \ {i} : ~Out(k, t, {"start", "attach"})
  PROVE  TargetInv(t)'
<1>1. \A k \in Slots : \A kinds : kinds \subseteq Kinds =>
        (Out(k, t, kinds)' <=> k # i /\ Out(k, t, kinds))
  BY DoneLeaves
<1>2. ~IsFollowed(t)'
  BY DEF IsFollowed, KnownInv, JobsOK
<1>3. Polled(t)' /\ AskedFor(t)'
  BY <1>2 DEF Polled, AskedFor
<1>4. ASSUME t \notin forked
      PROVE  Unforked(t)'
  <2> USE <1>4 DEF TargetInv, Unforked
  <2>1. OneChain(t)'
    BY <1>1 DEF OneChain, Kinds
  <2>2. ScanIsDone(t)' /\ QuestionsFit(t)'
    BY <1>2 DEF ScanIsDone, QuestionsFit
  <2>3. StartsComeFirst(t)'
    BY <1>1 DEF StartsComeFirst, AnyOut, Kinds
  <2>4. StopsFit(t)'
    BY <1>1, <1>2 DEF StopsFit, Kinds
  <2> QED BY <2>1, <2>2, <2>3, <2>4
<1> QED BY <1>3, <1>4 DEF TargetInv

\* Where a job goes when its branch is forgotten.
LEMMA ForgetDoes ==
  ASSUME KnownInv, NEW t \in Targets, Forget(t)
  PROVE  timers' = timers \ {t} /\ scans' = [scans EXCEPT ![t] = NoJob]
BY DEF Forget, Changed, Same, IsFollowed, KnownInv, JobsOK

LEMMA UpdateDoes ==
  ASSUME KnownInv, NEW t \in Targets, NEW job, Update(t, job)
  PROVE  scans' = IF IsFollowed(t) THEN [scans EXCEPT ![t] = job] ELSE scans
BY DEF Update, Changed, Same

LEMMA TrackDoes ==
  ASSUME KnownInv, NEW t \in Targets, NEW s, NEW phase, Track(t, s, phase)
  PROVE  scans' = [scans EXCEPT ![t] = Followed(t, s, phase)]
BY DEF Track, Changed

LEMMA ScheduleDoes ==
  ASSUME NEW t \in Targets, NEW i, Schedule(t, i)
  PROVE  /\ timers' = timers \cup {t}
         /\ \A u : u # t => (u \in forked' <=> u \in forked)
         /\ t \in forked => t \in forked'
         /\ t \notin forked' => \A k \in Slots \ {i} : ~Out(k, t, {"poll", "score"})
BY DEF Schedule, OutFor, Out

\* After an answer that sets the timeout again, and leaves the job alone.
LEMMA RescheduledKeeps ==
  ASSUME KnownInv, NEW t \in Targets, TargetInv(t), NEW i \in Slots, Done(i), Schedule(t, i),
         requests[i].kind \in {"poll", "score"}, requests[i].target = t,
         UNCHANGED <<scans, server, here, resumeDue>>
  PROVE  TargetInv(t)'
<1>1. \A k \in Slots : \A kinds : kinds \subseteq Kinds =>
        (Out(k, t, kinds)' <=> k # i /\ Out(k, t, kinds))
  BY DoneLeaves
<1>2. \A k \in Slots : k # i => requests'[k] = requests[k]
  BY DoneLeaves
<1>3. IsFollowed(t)' <=> IsFollowed(t)
  BY DEF IsFollowed
<1>4. ~Out(i, t, {"start", "attach"})
  BY DEF Out
<1>5. Polled(t)' /\ AskedFor(t)'
  BY <1>1, <1>3, <1>4, ScheduleDoes DEF TargetInv, Polled, AskedFor, AnyOut, Kinds, IsJobActive
<1>6. ASSUME t \notin forked'
      PROVE  Unforked(t)'
  <2>1. Unforked(t) /\ \A k \in Slots \ {i} : ~Out(k, t, {"poll", "score"})
    BY <1>6, ScheduleDoes DEF TargetInv
  <2> USE <2>1 DEF Unforked
  <2>2. OneChain(t)'
    BY <1>1 DEF OneChain, AnyOut, Kinds
  <2>3. ScanIsDone(t)'
    BY <1>3 DEF ScanIsDone
  <2>4. QuestionsFit(t)'
    <3>1. Out(i, t, {"poll"}) \/ Out(i, t, {"score"})
      BY DEF Out
    <3>2. IsFollowed(t) => scans[t].job # "ready"
      BY <3>1 DEF QuestionsFit, AnyOut
    <3>3. QED  BY <1>1, <1>2, <1>3, <3>2 DEF QuestionsFit, AnyOut, Kinds
  <2>5. StartsComeFirst(t)'
    BY <1>1, <1>3 DEF StartsComeFirst, AnyOut, Kinds
  <2>6. StopsFit(t)'
    BY <1>1, <1>2, <1>3 DEF StopsFit, AnyOut, Kinds
  <2> QED BY <2>2, <2>3, <2>4, <2>5, <2>6
<1> QED BY <1>5, <1>6 DEF TargetInv

\* After an answer that is of no use.
LEMMA UnwantedKeeps ==
  ASSUME KnownInv, NEW t \in Targets, TargetInv(t), NEW i \in Slots, Done(i),
         requests[i].kind \in {"poll", "score", "discover"}, requests[i].target = t,
         requests[i].kind = "score" => scans[t].job # "scoring",
         requests[i].kind = "poll" => ~IsFollowed(t),
         UNCHANGED <<scans, timers, forked, server, here, resumeDue>>
  PROVE  TargetInv(t)'
<1>1. \A k \in Slots : \A kinds : kinds \subseteq Kinds =>
        (Out(k, t, kinds)' <=> k # i /\ Out(k, t, kinds))
  BY DoneLeaves
<1>2. \A k \in Slots : k # i => requests'[k] = requests[k]
  BY DoneLeaves
<1>3. IsFollowed(t)' <=> IsFollowed(t)
  BY DEF IsFollowed
<1>4. ~Out(i, t, {"start", "attach"})
  BY DEF Out
<1>5. IsFollowed(t) => ~Out(i, t, {"poll", "start", "attach"})
  BY DEF Out
<1>6. scans[t].job = "scoring" => ~Out(i, t, {"score"})
  BY DEF Out
<1>7. AskedFor(t)'
  BY <1>1, <1>3, <1>4 DEF TargetInv, AskedFor, AnyOut, Kinds
<1>8. Polled(t)'
  BY <1>1, <1>3, <1>5, <1>6 DEF TargetInv, Polled, AnyOut, Kinds, IsJobActive
<1>9. ASSUME t \notin forked
      PROVE  Unforked(t)'
  <2> USE <1>9 DEF TargetInv, Unforked
  <2>1. OneChain(t)'
    BY <1>1 DEF OneChain, AnyOut, Kinds
  <2>2. ScanIsDone(t)'
    BY <1>3 DEF ScanIsDone
  <2>3. QuestionsFit(t)'
    BY <1>1, <1>2, <1>3 DEF QuestionsFit, AnyOut, Kinds
  <2>4. StartsComeFirst(t)'
    BY <1>1, <1>3 DEF StartsComeFirst, AnyOut, Kinds
  <2>5. StopsFit(t)'
    BY <1>1, <1>2, <1>3 DEF StopsFit, AnyOut, Kinds
  <2> QED BY <2>1, <2>2, <2>3, <2>4, <2>5
<1> QED BY <1>7, <1>8, <1>9 DEF TargetInv

\* What a poll says of its branch, as long as nothing was forked.
LEMMA PollAnswerFits ==
  ASSUME KnownInv, NEW i \in Slots, requests[i].kind = "poll",
         NEW t \in Targets, t = requests[i].target, IsFollowed(t), Unforked(t),
         requests[i].answer.is = "status"
  PROVE  /\ requests[i].answer.scan = scans[t].scan /\ scans[t].scan \in Scans
         /\ scans[t].job = "scanning"
         /\ ~AnyOut(t, {"start", "attach"})
         /\ t \notin timers
         /\ \A k \in Slots \ {i} : ~Out(k, t, {"poll", "score"})
<1>1. Out(i, t, {"poll"}) /\ Out(i, t, {"poll", "score"})
  BY DEF Out
<1>2. requests[i].answer.scan \in Scans
  BY AnswerNamesAScan
<1>3. requests[i].answer.scan = requests[i].scan
  BY DEF KnownInv, RequestsOK, RequestOK, AnswerOK
<1>4. requests[i].scan = scans[t].scan
  BY <1>1, <1>2, <1>3, IdsArePositive DEF Unforked, QuestionsFit
<1>5. scans[t].job = "scanning"
  BY <1>1 DEF Unforked, QuestionsFit, AnyOut
<1>6. ~AnyOut(t, {"start", "attach"})
  BY <1>2, <1>3, <1>4, IdsArePositive DEF Unforked, StartsComeFirst
<1>7. t \notin timers
  BY <1>1 DEF Unforked, OneChain, AnyOut
<1>8. \A k \in Slots \ {i} : ~Out(k, t, {"poll", "score"})
  BY <1>1 DEF Unforked, OneChain
<1> QED BY <1>2, <1>3, <1>4, <1>5, <1>6, <1>7, <1>8

LEMMA PollActiveKeepsTarget ==
  ASSUME KnownInv, NEW i \in Slots, PollActive(i), NEW t \in Targets, t = requests[i].target,
         TargetInv(t)
  PROVE  TargetInv(t)'
<1> DEFINE a == requests[i].answer
<1>1. PICK job : job = [scans[t] EXCEPT !.scan = a.scan, !.phase = a.phase]
  OBVIOUS
<1>2. /\ Schedule(t, i) /\ Done(i) /\ IsFollowed(t) /\ requests[i].kind = "poll"
      /\ a.is = "status" /\ a.phase \in Active /\ UNCHANGED <<server, here, resumeDue>>
  BY DEF PollActive, Rest
<1>3. scans' = [scans EXCEPT ![t] = job]
  BY <1>1, <1>2, UpdateDoes DEF PollActive
<1>4. scans[t] \in Tracked
  BY <1>2 DEF KnownInv, JobsOK, IsFollowed
<1>5. /\ job.scan = a.scan /\ job.phase = a.phase /\ job.job = scans[t].job
      /\ job.stopping = scans[t].stopping
  BY <1>1, <1>4 DEF Tracked
<1>6. scans'[t] = job
  BY <1>3 DEF KnownInv, JobsOK
<1>7. \A k \in Slots : \A kinds : kinds \subseteq Kinds =>
        (Out(k, t, kinds)' <=> k # i /\ Out(k, t, kinds))
  BY <1>2, DoneLeaves
<1>8. \A k \in Slots : k # i => requests'[k] = requests[k]
  BY <1>2, DoneLeaves
<1>9. a.scan \in Scans /\ a.scan # None
  BY <1>2, AnswerNamesAScan, IdsArePositive
<1>10. Polled(t)' /\ AskedFor(t)'
  <2>1. t \in timers'
    BY <1>2, ScheduleDoes
  <2> QED BY <1>5, <1>6, <1>9, <2>1 DEF Polled, AskedFor
<1>11. ASSUME t \notin forked'
       PROVE  Unforked(t)'
  <2>1. Unforked(t) /\ \A k \in Slots \ {i} : ~Out(k, t, {"poll", "score"})
    BY <1>2, <1>11, ScheduleDoes DEF TargetInv
  <2>2. a.scan = scans[t].scan /\ scans[t].job = "scanning" /\ ~AnyOut(t, {"start", "attach"})
    BY <1>2, <2>1, PollAnswerFits
  <2>3. \A k \in Slots : ~Out(k, t, {"poll"})' /\ ~Out(k, t, {"score"})' /\ ~Out(k, t, {"poll", "score"})'
    BY <1>7, <2>1 DEF Out, Kinds
  <2>4. OneChain(t)'
    BY <2>3 DEF OneChain, AnyOut
  <2>5. ScanIsDone(t)'
    BY <1>5, <1>6, <2>2 DEF ScanIsDone
  <2>6. QuestionsFit(t)'
    BY <1>5, <1>6, <1>7, <1>8, <1>2, <2>1, <2>2, <2>3 DEF QuestionsFit, Unforked, AnyOut, Kinds
  <2>7. StartsComeFirst(t)'
    BY <1>7, <2>2 DEF StartsComeFirst, AnyOut, Kinds
  <2>8. StopsFit(t)'
    <3>1. \A j, k \in Slots : Out(j, t, {"stop"})' /\ Out(k, t, {"stop"})' => j = k
      BY <1>7, <2>1 DEF Unforked, StopsFit, Kinds
    <3>2. a.phase = "stopping" => server[a.scan] \in Past
      BY <1>2 DEF KnownInv, RequestsOK, RequestOK, AnswerOK
    <3> QED BY <1>2, <1>5, <1>6, <1>9, <2>3, <3>1, <3>2 DEF StopsFit, Past
  <2> QED BY <2>4, <2>5, <2>6, <2>7, <2>8 DEF Unforked
<1> QED BY <1>10, <1>11 DEF TargetInv

\* A poll that says "done" turns to the score, whatever is pinned.
LEMMA PollDoneDoes ==
  ASSUME KnownInv, NEW i \in Slots, PollDone(i), NEW t \in Targets, t = requests[i].target
  PROVE  \E job : /\ scans' = [scans EXCEPT ![t] = job]
                  /\ job.scan = requests[i].answer.scan /\ job.phase = "done"
                  /\ job.job = "scoring" /\ job.stopping = scans[t].stopping
<1> DEFINE a == requests[i].answer
           old == [scans[t] EXCEPT !.scan = a.scan, !.phase = a.phase]
<1>1. IsFollowed(t) /\ a.phase = "done"
  BY DEF PollDone
<1>2. scans[t] \in Tracked
  BY <1>1 DEF KnownInv, JobsOK, IsFollowed
<1>3. PICK latest \in {None} \cup (scored \cap OfTarget(t)) :
        Update(t, IF old.job = "scoring" THEN old
                  ELSE [old EXCEPT !.job = "scoring", !.wait = "short",
                                   !.pinned = IF @ # None THEN @ ELSE latest])
  BY DEF PollDone
<1>4. PICK new : new = IF old.job = "scoring" THEN old
                       ELSE [old EXCEPT !.job = "scoring", !.wait = "short",
                                        !.pinned = IF @ # None THEN @ ELSE latest]
  OBVIOUS
<1>5. scans' = [scans EXCEPT ![t] = new]
  BY <1>1, <1>3, <1>4, UpdateDoes
<1>6. /\ new.scan = a.scan /\ new.phase = "done" /\ new.job = "scoring"
      /\ new.stopping = scans[t].stopping
  BY <1>1, <1>2, <1>4 DEF Tracked
<1> QED BY <1>5, <1>6

LEMMA PollDoneKeepsTarget ==
  ASSUME KnownInv, NEW i \in Slots, PollDone(i), NEW t \in Targets, t = requests[i].target,
         TargetInv(t)
  PROVE  TargetInv(t)'
<1> DEFINE a == requests[i].answer
<1>1. /\ IsFollowed(t) /\ requests[i].kind = "poll" /\ a.is = "status" /\ a.phase = "done"
      /\ AwaitScore(t, i) /\ UNCHANGED <<timers, forked, server, here, resumeDue>>
  BY DEF PollDone, Rest
<1>2. scans[t] \in Tracked
  BY <1>1 DEF KnownInv, JobsOK, IsFollowed
<1>3. PICK job : /\ scans' = [scans EXCEPT ![t] = job]
                 /\ job.scan = a.scan /\ job.phase = "done" /\ job.job = "scoring"
                 /\ job.stopping = scans[t].stopping
  BY PollDoneDoes
<1>4. scans'[t] = job
  BY <1>3 DEF KnownInv, JobsOK
<1>5. a.scan \in Scans /\ a.scan # None /\ server[a.scan] = "done"
  <2>1. a.scan \in Scans /\ a.scan # None
    BY <1>1, AnswerNamesAScan, IdsArePositive
  <2>2. server[a.scan] = "done"
    BY <1>1 DEF KnownInv, RequestsOK, RequestOK, AnswerOK, Ended
  <2> QED BY <2>1, <2>2
\* The score takes the place of the poll, or nothing does.
<1>6. \A k \in Slots : /\ k # i => requests'[k] = requests[k]
                       /\ \A kinds : kinds \subseteq Kinds =>
                            (Out(k, t, kinds)' <=>
                               \/ k = i /\ here = WorkspaceOf[t] /\ "score" \in kinds
                               \/ k # i /\ Out(k, t, kinds))
  <2>1. CASE here = WorkspaceOf[t]
    BY <1>1, <2>1, SendLeaves DEF AwaitScore
  <2>2. CASE here # WorkspaceOf[t]
    BY <1>1, <2>2, DoneLeaves DEF AwaitScore
  <2> QED BY <2>1, <2>2
<1>7. AskedFor(t)'
  BY <1>3, <1>4, <1>5 DEF AskedFor
<1>8. Polled(t)'
  BY <1>1, <1>3, <1>4, <1>6 DEF Polled, AnyOut, Kinds
<1>9. ASSUME t \notin forked
      PROVE  Unforked(t)'
  <2>1. Unforked(t)
    BY <1>9 DEF TargetInv
  <2>2. /\ a.scan = scans[t].scan /\ ~AnyOut(t, {"start", "attach"}) /\ t \notin timers
        /\ \A k \in Slots \ {i} : ~Out(k, t, {"poll", "score"})
    BY <1>1, <2>1, PollAnswerFits
  <2>3. OneChain(t)'
    BY <1>1, <1>6, <2>2 DEF OneChain, Kinds
  <2>4. ScanIsDone(t)'
    BY <1>1, <1>3, <1>4, <1>5 DEF ScanIsDone
  <2>5. \A k \in Slots : ~Out(k, t, {"poll"})'
    <3>1. \A k \in Slots \ {i} : ~Out(k, t, {"poll"})
      BY <2>2 DEF Out
    <3> QED BY <1>6, <3>1 DEF Kinds
  <2>6. QuestionsFit(t)'
    <3>1. ASSUME NEW k \in Slots, Out(k, t, {"stop"})'
          PROVE  requests'[k].scan = scans[t].scan /\ scans[t].stopping
      BY <1>1, <1>6, <2>1, <3>1 DEF QuestionsFit, Unforked, Kinds
    <3> QED BY <1>3, <1>4, <2>2, <2>5, <3>1 DEF QuestionsFit, AnyOut
  <2>7. StartsComeFirst(t)'
    BY <1>6, <2>2 DEF StartsComeFirst, AnyOut, Kinds
  <2>8. StopsFit(t)'
    BY <1>3, <1>4, <1>6, <2>1 DEF StopsFit, Unforked, Kinds
  <2> QED BY <2>3, <2>4, <2>6, <2>7, <2>8 DEF Unforked
<1> QED BY <1>1, <1>7, <1>8, <1>9 DEF TargetInv

\* Whatever an answer is about, the other branches are left alone.
LEMMA AnsweredElsewhereKeeps ==
  ASSUME KnownInv, NEW i \in Slots, requests[i].kind \in Kinds,
         NEW u \in Targets, u = requests[i].target, NEW t \in Targets, t # u, TargetInv(t),
         Done(i) \/ (\E kind, s : Send(i, kind, u, s)), Rest,
         \/ UNCHANGED scans \/ Forget(u)
         \/ \E job : Update(u, job) \/ scans' = [scans EXCEPT ![u] = job],
         \/ UNCHANGED timers \/ timers' \in {timers \cup {u}, timers \ {u}},
         \/ UNCHANGED forked \/ forked' = forked \cup {u}
  PROVE  TargetInv(t)'
<1>1. scans'[t] = scans[t]
  BY UpdateDoes, ForgetDoes DEF KnownInv, JobsOK
<1>2. t \in timers' <=> t \in timers
  OBVIOUS
<1>3. t \in forked => t \in forked'
  OBVIOUS
<1>4. Onward
  BY StillIsOnward DEF Rest, KnownInv
<1> QED BY <1>1, <1>2, <1>3, <1>4, OthersKeep DEF Rest

LEMMA PollsKeepTarget ==
  ASSUME KnownInv, NEW i \in Slots,
         \/ PollMissing(i) \/ PollBlip(i) \/ PollActive(i) \/ PollDone(i) \/ PollOver(i)
         \/ PollUnfollowed(i),
         NEW t \in Targets, TargetInv(t)
  PROVE  TargetInv(t)'
<1> DEFINE u == requests[i].target
<1>1. requests[i].kind = "poll" /\ Rest
  BY DEF PollMissing, PollBlip, PollActive, PollDone, PollOver, PollUnfollowed
<1>2. requests[i].kind \in Kinds /\ u \in Targets
  BY <1>1, AnsweredIsOut DEF Kinds
<1>3. CASE t # u
  <2>1. Done(i) \/ \E kind, s : Send(i, kind, u, s)
    BY DEF PollMissing, PollBlip, PollActive, PollDone, PollOver, PollUnfollowed, AwaitScore
  <2>2. \/ UNCHANGED scans \/ Forget(u) \/ \E job : Update(u, job)
    BY DEF PollMissing, PollBlip, PollActive, PollDone, PollOver, PollUnfollowed, Same
  <2>3. /\ UNCHANGED timers \/ timers' \in {timers \cup {u}, timers \ {u}}
        /\ UNCHANGED forked \/ forked' = forked \cup {u}
    BY DEF PollMissing, PollBlip, PollActive, PollDone, PollOver, PollUnfollowed, Forget, Schedule
  <2> QED BY <1>1, <1>2, <1>3, <2>1, <2>2, <2>3, AnsweredElsewhereKeeps
<1>4. CASE t = u
  <2>1. Out(i, t, {"poll"})
    BY <1>1, <1>4 DEF Out
  <2>2. UNCHANGED <<server, here, resumeDue>>
    BY <1>1 DEF Rest
  <2>3. CASE PollMissing(i) \/ PollOver(i)
    <3>1. Done(i) /\ Forget(t) /\ UNCHANGED forked
      BY <1>4, <2>3 DEF PollMissing, PollOver
    <3>2. requests[i].scan # None
      <4>1. requests[i].answer.is = "status" => requests[i].answer.scan # None
        BY AnswerNamesAScan, IdsArePositive
      <4> QED BY <1>1, <2>3, <4>1 DEF PollMissing, PollOver, KnownInv, RequestsOK, RequestOK, AnswerOK
    <3>3. t \notin forked => \A k \in Slots : ~Out(k, t, {"start", "attach"})
      BY <2>1, <3>2 DEF TargetInv, Unforked, QuestionsFit, StartsComeFirst, AnyOut
    <3> QED BY <3>1, <3>3, ForgetDoes, ForgottenKeeps
  <2>4. CASE PollBlip(i)
    BY <1>1, <1>4, <2>2, <2>4, RescheduledKeeps DEF PollBlip, Same
  <2>5. CASE PollActive(i)
    BY <1>4, <2>5, PollActiveKeepsTarget
  <2>6. CASE PollDone(i)
    BY <1>4, <2>6, PollDoneKeepsTarget
  <2>7. CASE PollUnfollowed(i)
    BY <1>1, <1>4, <2>2, <2>7, UnwantedKeeps DEF PollUnfollowed, Same
  <2> QED BY <2>3, <2>4, <2>5, <2>6, <2>7
<1> QED BY <1>3, <1>4

LEMMA FinishKeepsTarget ==
  ASSUME KnownInv, NEW i \in Slots, requests[i].kind = "score",
         NEW t \in Targets, t = requests[i].target, TargetInv(t),
         NEW report, FinishJob(t, report), Done(i),
         UNCHANGED <<server, here, resumeDue, forked>>
  PROVE  TargetInv(t)'
<1>1. Out(i, t, {"score"}) /\ Out(i, t, {"poll", "score"}) /\ Out(i, t, {"score", "stop"})
  BY DEF Out
<1>2. CASE ~IsFollowed(t)
  <2>1. scans[t].job # "scoring"
    BY <1>2 DEF IsFollowed, NoJob
  <2> QED BY <1>2, <2>1, UnwantedKeeps DEF FinishJob, Same
<1>3. CASE IsFollowed(t)
  <2>1. scans[t] \in Tracked
    BY <1>3 DEF KnownInv, JobsOK, IsFollowed
  <2>2. PICK job : job \in {NoJob, [scans[t] EXCEPT !.job = "ready"]}
                   /\ scans' = [scans EXCEPT ![t] = job] /\ timers' = timers \ {t}
    BY <1>3 DEF FinishJob, Changed
  <2>3. t \notin forked => \A k \in Slots : ~Out(k, t, {"start", "attach"})
    BY <1>1 DEF TargetInv, Unforked, StartsComeFirst, AnyOut
  <2>4. CASE job = NoJob
    BY <2>2, <2>3, <2>4, ForgottenKeeps
  <2>5. CASE job = [scans[t] EXCEPT !.job = "ready"]
    <3>1. /\ job.scan = scans[t].scan /\ job.phase = scans[t].phase /\ job.job = "ready"
          /\ job.stopping = scans[t].stopping
      BY <2>1, <2>5 DEF Tracked
    <3>2. scans'[t] = job
      BY <2>2 DEF KnownInv, JobsOK
    <3>3. \A k \in Slots : \A kinds : kinds \subseteq Kinds =>
            (Out(k, t, kinds)' <=> k # i /\ Out(k, t, kinds))
      BY DoneLeaves
    <3>4. \A k \in Slots : k # i => requests'[k] = requests[k]
      BY DoneLeaves
    <3>5. Polled(t)'
      BY <3>1, <3>2 DEF Polled, IsJobActive
    <3>6. AskedFor(t)'
      <4>1. ~Out(i, t, {"start", "attach"})
        BY DEF Out
      <4> QED BY <1>3, <3>1, <3>2, <3>3, <4>1 DEF TargetInv, AskedFor, AnyOut, Kinds
    <3>7. ASSUME t \notin forked
          PROVE  Unforked(t)'
      <4>1. Unforked(t)
        BY <3>7 DEF TargetInv
      <4>2. \A k \in Slots \ {i} : ~Out(k, t, {"poll", "score"})
        BY <1>1, <4>1 DEF Unforked, OneChain
      <4>3. \A k \in Slots \ {i} : ~Out(k, t, {"poll"}) /\ ~Out(k, t, {"score"})
        BY <4>2 DEF Out
      <4>4. OneChain(t)'
        BY <3>3, <4>2 DEF OneChain, AnyOut, Kinds
      <4>5. ScanIsDone(t)'
        BY <1>1, <1>3, <3>1, <3>2, <4>1 DEF ScanIsDone, Unforked, QuestionsFit, AnyOut
      <4>6. QuestionsFit(t)'
        BY <1>3, <2>2, <3>1, <3>2, <3>3, <3>4, <4>1, <4>3 DEF QuestionsFit, Unforked, AnyOut, Kinds
      <4>7. StartsComeFirst(t)'
        BY <2>3, <3>3, <3>7 DEF StartsComeFirst, AnyOut, Kinds
      <4>8. StopsFit(t)'
        BY <1>3, <3>1, <3>2, <3>3, <4>1, <4>3 DEF StopsFit, Unforked, Kinds
      <4> QED BY <4>4, <4>5, <4>6, <4>7, <4>8 DEF Unforked
    <3> QED BY <3>5, <3>6, <3>7 DEF TargetInv
  <2> QED BY <2>2, <2>4, <2>5
<1> QED BY <1>2, <1>3

LEMMA ScoresKeepTarget ==
  ASSUME KnownInv, NEW i \in Slots,
         ScoreAnswered(i) \/ ScoreGivenUp(i) \/ ScoreAgain(i) \/ ScoreUnwanted(i),
         NEW t \in Targets, TargetInv(t)
  PROVE  TargetInv(t)'
<1> DEFINE u == requests[i].target
<1>1. requests[i].kind = "score" /\ Rest /\ Done(i)
  BY DEF ScoreAnswered, ScoreGivenUp, ScoreAgain, ScoreUnwanted
<1>2. requests[i].kind \in Kinds /\ u \in Targets
  BY <1>1, AnsweredIsOut DEF Kinds
<1>3. UNCHANGED <<server, here, resumeDue>>
  BY <1>1 DEF Rest
<1>4. CASE t # u
  <2>1. /\ UNCHANGED scans \/ \E job : scans' = [scans EXCEPT ![u] = job]
        /\ UNCHANGED timers \/ timers' \in {timers \cup {u}, timers \ {u}}
        /\ UNCHANGED forked \/ forked' = forked \cup {u}
    BY DEF ScoreAnswered, ScoreGivenUp, ScoreAgain, ScoreUnwanted, FinishJob, Changed, Same, Schedule
  <2> QED BY <1>1, <1>2, <1>4, <2>1, AnsweredElsewhereKeeps
<1>5. CASE t = u
  <2>1. CASE ScoreAnswered(i)
    BY <1>1, <1>3, <1>5, <2>1, FinishKeepsTarget DEF ScoreAnswered
  <2>2. CASE ScoreGivenUp(i)
    BY <1>1, <1>3, <1>5, <2>2, FinishKeepsTarget DEF ScoreGivenUp
  <2>3. CASE ScoreAgain(i)
    BY <1>1, <1>3, <1>5, <2>3, RescheduledKeeps DEF ScoreAgain, Same
  <2>4. CASE ScoreUnwanted(i)
    BY <1>1, <1>3, <1>5, <2>4, UnwantedKeeps DEF ScoreUnwanted, Same
  <2> QED BY <2>1, <2>2, <2>3, <2>4
<1> QED BY <1>4, <1>5

\* A start that is answered with a scan, or a running scan that was found.
LEMMA StartedKeepsTarget ==
  ASSUME KnownInv, NEW i \in Slots, requests[i].kind \in {"start", "attach"},
         requests[i].answer.is = "status",
         NEW t \in Targets, t = requests[i].target, TargetInv(t),
         Track(t, requests[i].answer.scan, requests[i].answer.phase), Schedule(t, i), Done(i),
         UNCHANGED <<server, here, resumeDue>>
  PROVE  TargetInv(t)'
<1> DEFINE a == requests[i].answer
<1>1. PICK job : job = Followed(t, a.scan, a.phase)
  OBVIOUS
<1>2. job.scan = a.scan /\ job.phase = a.phase /\ job.job = "scanning"
  BY <1>1 DEF Followed
<1>3. scans'[t] = job
  BY <1>1, TrackDoes DEF KnownInv, JobsOK
<1>4. a.scan \in Scans /\ a.scan # None
  BY AnswerNamesAScan, IdsArePositive
<1>5. a.phase = "stopping" => server[a.scan] \in Past
  BY DEF KnownInv, RequestsOK, RequestOK, AnswerOK
<1>6. \A k \in Slots : \A kinds : kinds \subseteq Kinds =>
        (Out(k, t, kinds)' <=> k # i /\ Out(k, t, kinds))
  BY DoneLeaves
<1>7. Polled(t)' /\ AskedFor(t)'
  <2>1. t \in timers'
    BY ScheduleDoes
  <2> QED BY <1>2, <1>3, <1>4, <2>1 DEF Polled, AskedFor
<1>8. ASSUME t \notin forked'
      PROVE  Unforked(t)'
  <2>1. Unforked(t) /\ \A k \in Slots \ {i} : ~Out(k, t, {"poll", "score"})
    BY <1>8, ScheduleDoes DEF TargetInv
  <2>2. Out(i, t, {"start", "attach"})
    BY DEF Out
  <2>3. \A k \in Slots : ~Out(k, t, {"score", "stop"})
    BY <2>1, <2>2 DEF Unforked, StartsComeFirst, AnyOut
  <2>4. \A k \in Slots \ {i} : ~Out(k, t, {"start", "attach"})
    BY <2>1, <2>2 DEF Unforked, StartsComeFirst
  <2>5. \A k \in Slots \ {i} : ~Out(k, t, {"poll"}) /\ ~Out(k, t, {"score"}) /\ ~Out(k, t, {"stop"})
    BY <2>1, <2>3 DEF Out
  <2>6. OneChain(t)'
    BY <1>6, <2>1 DEF OneChain, AnyOut, Kinds
  <2>7. ScanIsDone(t)'
    BY <1>2, <1>3 DEF ScanIsDone
  <2>8. QuestionsFit(t)'
    BY <1>2, <1>3, <1>6, <2>5 DEF QuestionsFit, AnyOut, Kinds
  <2>9. StartsComeFirst(t)'
    BY <1>6, <2>4 DEF StartsComeFirst, AnyOut, Kinds
  <2>10. StopsFit(t)'
    BY <1>2, <1>3, <1>4, <1>5, <1>6, <2>5 DEF StopsFit, Kinds, Past
  <2> QED BY <2>6, <2>7, <2>8, <2>9, <2>10 DEF Unforked
<1> QED BY <1>7, <1>8 DEF TargetInv

\* One that is refused because a scan is running: that one is looked for.
LEMMA StartBusyKeepsTarget ==
  ASSUME KnownInv, NEW i \in Slots, StartBusy(i), NEW t \in Targets, t = requests[i].target,
         TargetInv(t)
  PROVE  TargetInv(t)'
<1>1. /\ requests[i].kind = "start" /\ Send(i, "attach", t, None)
      /\ UNCHANGED <<scans, timers, forked, server, here, resumeDue>>
  BY DEF StartBusy, Same, Rest
<1>2. \A k \in Slots : /\ k # i => requests'[k] = requests[k]
                       /\ \A kinds :
                            Out(k, t, kinds)' <=> \/ k = i /\ "attach" \in kinds
                                                  \/ k # i /\ Out(k, t, kinds)
  BY <1>1, SendLeaves
<1>3. \A kinds : Out(i, t, kinds) <=> "start" \in kinds
  BY <1>1 DEF Out
<1>4. \A kinds : ("start" \in kinds <=> "attach" \in kinds)
                 => \A k \in Slots : Out(k, t, kinds)' <=> Out(k, t, kinds)
  BY <1>2, <1>3
<1>5. IsFollowed(t)' <=> IsFollowed(t)
  BY <1>1 DEF IsFollowed
<1>6. Polled(t)' /\ AskedFor(t)'
  BY <1>1, <1>4, <1>5 DEF TargetInv, Polled, AskedFor, AnyOut, IsJobActive
<1>7. ASSUME t \notin forked
      PROVE  Unforked(t)'
  <2>1. Unforked(t)
    BY <1>7 DEF TargetInv
  <2>2. \A k \in Slots : Out(k, t, {"poll"}) \/ Out(k, t, {"stop"}) => k # i
    BY <1>3
  <2>3. OneChain(t)' /\ ScanIsDone(t)'
    BY <1>1, <1>4, <1>5, <2>1 DEF Unforked, OneChain, ScanIsDone, AnyOut
  <2>4. QuestionsFit(t)'
    BY <1>1, <1>2, <1>4, <1>5, <2>1, <2>2 DEF Unforked, QuestionsFit, AnyOut
  <2>5. StartsComeFirst(t)'
    BY <1>1, <1>4, <1>5, <2>1 DEF Unforked, StartsComeFirst, AnyOut
  <2>6. StopsFit(t)'
    BY <1>1, <1>2, <1>4, <1>5, <2>1, <2>2 DEF Unforked, StopsFit, AnyOut
  <2> QED BY <2>3, <2>4, <2>5, <2>6 DEF Unforked
<1> QED BY <1>1, <1>6, <1>7 DEF TargetInv

\* A stop that is answered: taken, too late, or refused.
LEMMA StopFailedKeepsTarget ==
  ASSUME KnownInv, NEW i \in Slots, StopFailed(i), NEW t \in Targets, t = requests[i].target,
         TargetInv(t)
  PROVE  TargetInv(t)'
<1>1. /\ requests[i].kind = "stop" /\ Done(i)
      /\ UNCHANGED <<timers, forked, server, here, resumeDue>>
  BY DEF StopFailed, Rest
<1>2. PICK job : job = [scans[t] EXCEPT !.stopping = FALSE]
  OBVIOUS
<1>3. scans'[t] = IF IsFollowed(t) THEN job ELSE scans[t]
  BY <1>2, UpdateDoes DEF StopFailed, KnownInv, JobsOK
<1>4. IsFollowed(t) => /\ job.scan = scans[t].scan /\ job.phase = scans[t].phase
                       /\ job.job = scans[t].job /\ job # NoJob
  <2>1. IsFollowed(t) => scans[t] \in Tracked
    BY DEF KnownInv, JobsOK, IsFollowed
  <2>2. IsFollowed(t) => /\ job.scan = scans[t].scan /\ job.phase = scans[t].phase
                         /\ job.job = scans[t].job
    BY <1>2, <2>1 DEF Tracked
  <2> QED BY <2>1, <2>2 DEF Tracked, NoJob, Jobs
<1>5. \A k \in Slots : /\ k # i => requests'[k] = requests[k]
                       /\ \A kinds : kinds \subseteq Kinds =>
                            (Out(k, t, kinds)' <=> k # i /\ Out(k, t, kinds))
  BY <1>1, DoneLeaves
<1>6. \A kinds : Out(i, t, kinds) <=> "stop" \in kinds
  BY <1>1 DEF Out
<1>7. IsFollowed(t)' <=> IsFollowed(t)
  BY <1>3, <1>4 DEF IsFollowed
<1>8. Polled(t)' /\ AskedFor(t)'
  BY <1>1, <1>3, <1>4, <1>5, <1>6, <1>7 DEF TargetInv, Polled, AskedFor, AnyOut, IsJobActive, Kinds
<1>9. ASSUME t \notin forked
      PROVE  Unforked(t)'
  <2>1. Unforked(t)
    BY <1>9 DEF TargetInv
  <2>2. \A k \in Slots : k # i => ~Out(k, t, {"stop"})
    BY <1>6, <2>1 DEF Unforked, StopsFit
  <2>3. OneChain(t)'
    BY <1>1, <1>5, <2>1 DEF Unforked, OneChain, AnyOut, Kinds
  <2>4. ScanIsDone(t)'
    BY <1>1, <1>3, <1>4, <1>7, <2>1 DEF Unforked, ScanIsDone
  <2>5. QuestionsFit(t)'
    BY <1>1, <1>3, <1>4, <1>5, <1>7, <2>1, <2>2 DEF Unforked, QuestionsFit, AnyOut, Kinds
  <2>6. StartsComeFirst(t)'
    BY <1>3, <1>4, <1>5, <1>7, <2>1 DEF Unforked, StartsComeFirst, AnyOut, Kinds
  <2>7. StopsFit(t)'
    <3>1. \A k \in Slots : ~Out(k, t, {"stop"})'
      BY <1>5, <2>2 DEF Kinds
    <3>2. AnyOut(t, {"stop"})
      BY <1>6 DEF AnyOut
    <3>3. ASSUME IsFollowed(t), scans[t].phase = "stopping", NEW k \in Slots,
                 Out(k, t, {"poll"})', (requests[k].answer.is = "status")',
                 (requests[k].answer.phase \in {"queued", "running"})'
          PROVE  FALSE
      <4>1. k # i /\ Out(k, t, {"poll"}) /\ requests'[k] = requests[k]
        BY <1>5, <3>3 DEF Kinds
      <4> QED BY <2>1, <3>2, <3>3, <4>1 DEF Unforked, StopsFit
    <3>4. IsFollowed(t)' /\ scans'[t].phase = "stopping"
          => /\ IsFollowed(t) /\ scans[t].phase = "stopping"
             /\ scans'[t].scan # None /\ (server[scans[t].scan] \in Past)'
      BY <1>1, <1>3, <1>4, <1>7, <2>1 DEF Unforked, StopsFit
    <3> QED BY <3>1, <3>3, <3>4 DEF StopsFit
  <2> QED BY <2>3, <2>4, <2>5, <2>6, <2>7 DEF Unforked
<1> QED BY <1>1, <1>8, <1>9 DEF TargetInv

LEMMA StopAnsweredKeepsTarget ==
  ASSUME KnownInv, NEW i \in Slots, StopAnswered(i), NEW t \in Targets, t = requests[i].target,
         TargetInv(t)
  PROVE  TargetInv(t)'
<1> DEFINE a == requests[i].answer
<1>1. /\ requests[i].kind = "stop" /\ a.is = "status" /\ Done(i)
      /\ UNCHANGED <<forked, server, here, resumeDue>>
  BY DEF StopAnswered, Rest
<1>2. \A kinds : Out(i, t, kinds) <=> "stop" \in kinds
  BY <1>1 DEF Out
<1>3. a.scan = requests[i].scan /\ a.scan \in Scans /\ a.scan # None
  BY <1>1, AnswerNamesAScan, IdsArePositive DEF KnownInv, RequestsOK, RequestOK, AnswerOK
<1>4. t \notin forked => \A k \in Slots : ~Out(k, t, {"start", "attach"})
  BY <1>2 DEF TargetInv, Unforked, StartsComeFirst, AnyOut
<1>5. CASE a.phase = "cancelled"
  BY <1>1, <1>4, <1>5, ForgetDoes, ForgottenKeeps DEF StopAnswered
<1>6. CASE a.phase # "cancelled"
  <2>1. a.phase = "stopping" /\ server[a.scan] \in Past
    BY <1>1, <1>6 DEF KnownInv, RequestsOK, RequestOK, AnswerOK
  <2>2. PICK job : job = [scans[t] EXCEPT !.scan = a.scan, !.phase = a.phase]
    OBVIOUS
  <2>3. scans'[t] = IF IsFollowed(t) THEN job ELSE scans[t]
    BY <1>6, <2>2, UpdateDoes DEF StopAnswered, KnownInv, JobsOK
  <2>4. timers' = timers
    BY <1>6 DEF StopAnswered
  <2>5. IsFollowed(t) => /\ job.scan = a.scan /\ job.phase = "stopping"
                         /\ job.job = scans[t].job /\ job.stopping = scans[t].stopping
                         /\ job # NoJob
    <3>1. IsFollowed(t) => scans[t] \in Tracked
      BY DEF KnownInv, JobsOK, IsFollowed
    <3>2. IsFollowed(t) => /\ job.scan = a.scan /\ job.phase = "stopping"
                           /\ job.job = scans[t].job /\ job.stopping = scans[t].stopping
      BY <2>1, <2>2, <3>1 DEF Tracked
    <3> QED BY <3>1, <3>2 DEF NoJob
  <2>6. \A k \in Slots : /\ k # i => requests'[k] = requests[k]
                         /\ \A kinds : kinds \subseteq Kinds =>
                              (Out(k, t, kinds)' <=> k # i /\ Out(k, t, kinds))
    BY <1>1, DoneLeaves
  <2>7. IsFollowed(t)' <=> IsFollowed(t)
    BY <2>3, <2>5 DEF IsFollowed
  <2>8. AskedFor(t)'
    BY <1>2, <1>3, <2>3, <2>5, <2>6, <2>7 DEF TargetInv, AskedFor, AnyOut, Kinds
  <2>9. Polled(t)'
    <3>1. \A kinds : "stop" \notin kinds /\ kinds \subseteq Kinds /\ AnyOut(t, kinds)
            => AnyOut(t, kinds)'
      BY <1>2, <2>6 DEF AnyOut
    <3>2. CASE scans[t].scan = None
      BY <2>7, <3>1, <3>2 DEF TargetInv, AskedFor, Polled, AnyOut, Out, Kinds
    <3>3. CASE scans[t].scan # None
      BY <1>1, <2>3, <2>4, <2>5, <2>7, <3>1, <3>3 DEF TargetInv, Polled, IsJobActive, Kinds
    <3> QED BY <3>2, <3>3
  <2>10. ASSUME t \notin forked
         PROVE  Unforked(t)'
    <3>1. Unforked(t)
      BY <2>10 DEF TargetInv
    <3>2. \A k \in Slots : k # i => ~Out(k, t, {"stop"})
      BY <1>2, <3>1 DEF Unforked, StopsFit
    <3>3. IsFollowed(t) => a.scan = scans[t].scan /\ scans[t].stopping
      BY <1>2, <1>3, <3>1 DEF Unforked, QuestionsFit
    <3>4. OneChain(t)'
      BY <2>4, <2>6, <3>1 DEF Unforked, OneChain, AnyOut, Kinds
    <3>5. ScanIsDone(t)'
      BY <1>1, <2>3, <2>5, <2>7, <3>1, <3>3 DEF Unforked, ScanIsDone
    <3>6. QuestionsFit(t)'
      BY <2>3, <2>4, <2>5, <2>6, <2>7, <3>1, <3>2, <3>3 DEF Unforked, QuestionsFit, AnyOut, Kinds
    <3>7. StartsComeFirst(t)'
      BY <1>4, <2>6, <2>10 DEF StartsComeFirst, AnyOut, Kinds
    <3>8. StopsFit(t)'
      <4>1. \A k \in Slots : ~Out(k, t, {"stop"})'
        BY <2>6, <3>2 DEF Kinds
      <4>2. IsFollowed(t)' => /\ scans'[t].scan # None /\ (server[scans[t].scan] \in Past)'
                              /\ scans'[t].stopping
        BY <1>1, <1>3, <2>1, <2>3, <2>5, <2>7, <3>3
      <4> QED BY <4>1, <4>2 DEF StopsFit, AnyOut
    <3> QED BY <3>4, <3>5, <3>6, <3>7, <3>8 DEF Unforked
  <2> QED BY <1>1, <2>8, <2>9, <2>10 DEF TargetInv
<1> QED BY <1>5, <1>6

LEMMA StartsKeepTarget ==
  ASSUME KnownInv, NEW i \in Slots,
         \/ StartQueued(i) \/ StartUpToDate(i) \/ StartBusy(i) \/ Attach(i) \/ StartFailed(i)
         \/ StopFailed(i) \/ StopAnswered(i),
         NEW t \in Targets, TargetInv(t)
  PROVE  TargetInv(t)'
<1> DEFINE u == requests[i].target
<1>1. requests[i].kind \in {"start", "attach", "stop"} /\ Rest
  BY DEF StartQueued, StartUpToDate, StartBusy, Attach, StartFailed, StopFailed, StopAnswered
<1>2. requests[i].kind \in Kinds /\ u \in Targets
  BY <1>1, AnsweredIsOut DEF Kinds
<1>3. UNCHANGED <<server, here, resumeDue>>
  BY <1>1 DEF Rest
<1>4. CASE t # u
  <2>1. Done(i) \/ \E kind, s : Send(i, kind, u, s)
    BY DEF StartQueued, StartUpToDate, StartBusy, Attach, StartFailed, StopFailed, StopAnswered
  <2>2. \/ UNCHANGED scans \/ Forget(u)
        \/ \E job : Update(u, job) \/ scans' = [scans EXCEPT ![u] = job]
    BY DEF StartQueued, StartUpToDate, StartBusy, Attach, StartFailed, StopFailed, StopAnswered,
       Same, Track, Changed
  <2>3. /\ UNCHANGED timers \/ timers' \in {timers \cup {u}, timers \ {u}}
        /\ UNCHANGED forked \/ forked' = forked \cup {u}
    BY DEF StartQueued, StartUpToDate, StartBusy, Attach, StartFailed, StopFailed, StopAnswered,
       Forget, Schedule
  <2> QED BY <1>1, <1>2, <1>4, <2>1, <2>2, <2>3, AnsweredElsewhereKeeps
<1>5. CASE t = u
  <2>1. CASE StartQueued(i)
    BY <1>3, <1>5, <2>1, StartedKeepsTarget DEF StartQueued
  <2>2. CASE Attach(i)
    BY <1>3, <1>5, <2>2, StartedKeepsTarget DEF Attach
  <2>3. CASE StartUpToDate(i) \/ StartFailed(i)
    <3>1. Out(i, t, {"start", "attach"}) /\ Forget(t) /\ Done(i) /\ UNCHANGED forked
      BY <1>5, <2>3 DEF StartUpToDate, StartFailed, Out
    <3>2. t \notin forked => \A k \in Slots \ {i} : ~Out(k, t, {"start", "attach"})
      BY <3>1 DEF TargetInv, Unforked, StartsComeFirst
    <3> QED BY <3>1, <3>2, ForgetDoes, ForgottenKeeps
  <2>4. CASE StartBusy(i)
    BY <1>5, <2>4, StartBusyKeepsTarget
  <2>5. CASE StopFailed(i)
    BY <1>5, <2>5, StopFailedKeepsTarget
  <2>6. CASE StopAnswered(i)
    BY <1>5, <2>6, StopAnsweredKeepsTarget
  <2> QED BY <2>1, <2>2, <2>3, <2>4, <2>5, <2>6
<1> QED BY <1>4, <1>5

LEMMA DiscoveredKeepsTarget ==
  ASSUME KnownInv, NEW i \in Slots, Discovered(i), NEW t \in Targets, TargetInv(t)
  PROVE  TargetInv(t)'
<1> DEFINE u == requests[i].target
           a == requests[i].answer
<1>1. requests[i].kind = "discover" /\ Rest /\ Done(i)
  BY DEF Discovered
<1>2. requests[i].kind \in Kinds /\ u \in Targets
  BY <1>1, AnsweredIsOut DEF Kinds
<1>3. UNCHANGED <<server, here, resumeDue>>
  BY <1>1 DEF Rest
<1>4. CASE t # u
  <2>1. /\ UNCHANGED scans \/ \E job : scans' = [scans EXCEPT ![u] = job]
        /\ UNCHANGED timers \/ timers' \in {timers \cup {u}, timers \ {u}}
        /\ UNCHANGED forked \/ forked' = forked \cup {u}
    BY DEF Discovered, Same, Track, Changed
  <2> QED BY <1>1, <1>2, <1>4, <2>1, AnsweredElsewhereKeeps
<1>5. CASE t = u /\ ~(a.is = "status" /\ ~IsFollowed(t))
  <2>1. UNCHANGED <<scans, timers, forked>>
    BY <1>5 DEF Discovered, Same
  <2> QED BY <1>1, <1>3, <1>5, <2>1, UnwantedKeeps
<1>6. CASE t = u /\ a.is = "status" /\ ~IsFollowed(t)
  <2>1. /\ Track(t, a.scan, a.phase) /\ timers' = timers \cup {t}
        /\ forked' = IF Overlaps(t, i) THEN forked \cup {t} ELSE forked
    BY <1>6 DEF Discovered
  <2>2. PICK job : job = Followed(t, a.scan, a.phase)
    OBVIOUS
  <2>3. job.scan = a.scan /\ job.phase = a.phase /\ job.job = "scanning"
    BY <2>2 DEF Followed
  <2>4. scans'[t] = job
    BY <2>1, <2>2, TrackDoes DEF KnownInv, JobsOK
  <2>5. a.scan \in Scans /\ a.scan # None
    BY <1>6, AnswerNamesAScan, IdsArePositive
  <2>6. a.phase = "stopping" => server[a.scan] \in Past
    BY <1>6 DEF KnownInv, RequestsOK, RequestOK, AnswerOK
  <2>7. Polled(t)' /\ AskedFor(t)'
    BY <2>1, <2>3, <2>4, <2>5 DEF Polled, AskedFor
  <2>8. ASSUME t \notin forked'
        PROVE  Unforked(t)'
    <3>1. \A k \in Slots \ {i} : requests[k].target # t
      BY <2>1, <2>8 DEF Overlaps
    <3>2. \A k \in Slots : \A kinds : kinds \subseteq Kinds => ~Out(k, t, kinds)'
      BY <1>1, <3>1, DoneLeaves DEF Out
    <3>3. OneChain(t)' /\ QuestionsFit(t)' /\ StartsComeFirst(t)'
      BY <2>3, <2>4, <3>2 DEF OneChain, QuestionsFit, StartsComeFirst, AnyOut, Kinds
    <3>4. ScanIsDone(t)'
      BY <2>3, <2>4 DEF ScanIsDone
    <3>5. StopsFit(t)'
      BY <1>3, <2>3, <2>4, <2>5, <2>6, <3>2 DEF StopsFit, Kinds, Past
    <3> QED BY <3>3, <3>4, <3>5 DEF Unforked
  <2> QED BY <2>7, <2>8 DEF TargetInv
<1> QED BY <1>4, <1>5, <1>6

\* A job of which only the pin or the wait changes.
LEMMA PatchKeepsTarget ==
  ASSUME KnownInv, NEW t \in Targets, TargetInv(t), NEW job, scans'[t] = job,
         IsFollowed(t), job # NoJob, job.scan = scans[t].scan, job.phase = scans[t].phase,
         job.job = scans[t].job, job.stopping = scans[t].stopping,
         UNCHANGED <<timers, requests, forked, server, here, resumeDue>>
  PROVE  TargetInv(t)'
<1>1. IsFollowed(t)'
  BY DEF IsFollowed
<1>2. Polled(t)' /\ AskedFor(t)'
  BY <1>1 DEF TargetInv, Polled, AskedFor, AnyOut, Out, IsJobActive
<1>3. ASSUME Unforked(t)
      PROVE  Unforked(t)'
  <2>1. OneChain(t)' /\ ScanIsDone(t)'
    BY <1>1, <1>3 DEF Unforked, OneChain, ScanIsDone, AnyOut, Out
  <2>2. QuestionsFit(t)'
    BY <1>1, <1>3 DEF Unforked, QuestionsFit, AnyOut, Out
  <2>3. StartsComeFirst(t)'
    BY <1>1, <1>3 DEF Unforked, StartsComeFirst, AnyOut, Out
  <2>4. StopsFit(t)'
    BY <1>1, <1>3 DEF Unforked, StopsFit, AnyOut, Out
  <2> QED BY <2>1, <2>2, <2>3, <2>4 DEF Unforked
<1> QED BY <1>2, <1>3 DEF TargetInv

LEMMA StartKeepsTarget ==
  ASSUME KnownInv, NEW t \in Targets, TargetInv(t), NEW i \in Slots, Start(t, i)
  PROVE  TargetInv(t)'
<1>1. /\ Track(t, None, "queued") /\ Send(i, "start", t, None)
      /\ forked' = IF Overlaps(t, i) THEN forked \cup {t} ELSE forked
  BY DEF Start
<1>2. PICK job : job = Followed(t, None, "queued")
  OBVIOUS
<1>3. job.scan = None /\ job.phase = "queued" /\ job.job = "scanning"
  BY <1>2 DEF Followed
<1>4. scans'[t] = job
  BY <1>1, <1>2, TrackDoes DEF KnownInv, JobsOK
<1>5. \A k \in Slots : \A kinds :
        Out(k, t, kinds)' <=> (k = i /\ "start" \in kinds) \/ (k # i /\ Out(k, t, kinds))
  BY <1>1, SendLeaves
<1>6. Polled(t)' /\ AskedFor(t)'
  BY <1>3, <1>4, <1>5 DEF Polled, AskedFor, AnyOut
<1>7. ASSUME t \notin forked'
      PROVE  Unforked(t)'
  <2>1. \A k \in Slots \ {i} : requests[k].target # t
    BY <1>1, <1>7 DEF Overlaps
  <2>2. \A k \in Slots : \A kinds : Out(k, t, kinds)' <=> (k = i /\ "start" \in kinds)
    BY <1>5, <2>1 DEF Out
  <2>3. IsFollowed(t)'
    BY <1>3, <1>4 DEF IsFollowed, NoJob
  <2>4. OneChain(t)' /\ QuestionsFit(t)'
    BY <1>3, <1>4, <2>2 DEF OneChain, QuestionsFit, AnyOut
  <2>5. StartsComeFirst(t)'
    BY <1>3, <1>4, <2>2, <2>3 DEF StartsComeFirst, AnyOut
  <2>6. ScanIsDone(t)' /\ StopsFit(t)'
    BY <1>3, <1>4, <2>2 DEF ScanIsDone, StopsFit
  <2> QED BY <2>4, <2>5, <2>6 DEF Unforked
<1> QED BY <1>6, <1>7 DEF TargetInv

LEMMA StopKeepsTarget ==
  ASSUME KnownInv, NEW t \in Targets, TargetInv(t), NEW i \in Slots, Stop(t, i)
  PROVE  TargetInv(t)'
<1>1. /\ Send(i, "stop", t, scans[t].scan) /\ requests[i] = Free
      /\ UNCHANGED <<timers, forked, server, here, resumeDue>>
  BY DEF Stop, IsNext, Rest
<1>2. /\ IsFollowed(t) /\ scans[t].job = "scanning" /\ scans[t].scan # None
      /\ ~scans[t].stopping /\ scans[t].phase # "stopping"
  BY DEF Stop, StopOffered, IsStopping
<1>3. scans[t] \in Tracked
  BY <1>2 DEF KnownInv, JobsOK, IsFollowed
<1>4. PICK job : job = [scans[t] EXCEPT !.stopping = TRUE]
  OBVIOUS
<1>5. /\ job.scan = scans[t].scan /\ job.phase = scans[t].phase /\ job.job = "scanning"
      /\ job.stopping
  BY <1>2, <1>3, <1>4 DEF Tracked
<1>6. scans'[t] = job
  BY <1>2, <1>4, UpdateDoes DEF Stop, KnownInv, JobsOK
<1>7. IsFollowed(t)'
  BY <1>5, <1>6 DEF IsFollowed, NoJob
<1>8. \A kinds : kinds \subseteq Kinds => ~Out(i, t, kinds)
  BY <1>1 DEF Out, Free, Kinds
<1>9. /\ \A k \in Slots : \A kinds : kinds \subseteq Kinds =>
           (Out(k, t, kinds)' <=> (k = i /\ "stop" \in kinds) \/ Out(k, t, kinds))
      /\ \A k \in Slots : k # i => requests'[k] = requests[k]
      /\ requests'[i].scan = scans[t].scan
  BY <1>1, <1>8, SendLeaves
<1>10. Polled(t)' /\ AskedFor(t)'
  BY <1>1, <1>2, <1>5, <1>6, <1>9 DEF TargetInv, Polled, AskedFor, AnyOut, IsJobActive, Kinds
<1>11. ASSUME t \notin forked
       PROVE  Unforked(t)'
  <2>1. Unforked(t)
    BY <1>11 DEF TargetInv
  <2>2. \A k \in Slots : ~Out(k, t, {"stop"})
    BY <1>2, <2>1 DEF Unforked, QuestionsFit
  <2>3. OneChain(t)'
    BY <1>1, <1>9, <2>1 DEF Unforked, OneChain, AnyOut, Kinds
  <2>4. ScanIsDone(t)'
    BY <1>5, <1>6 DEF ScanIsDone
  <2>5. QuestionsFit(t)'
    <3>1. \A k \in Slots : Out(k, t, {"poll"})' => requests'[k].scan \in {None, scans[t].scan}
      BY <1>2, <1>8, <1>9, <2>1 DEF Unforked, QuestionsFit, Kinds
    <3>2. \A k \in Slots : Out(k, t, {"stop"})' => requests'[k].scan = scans[t].scan
      BY <1>9, <2>2 DEF Kinds
    <3>3. ~AnyOut(t, {"score"})'
      BY <1>2, <1>9, <2>1 DEF Unforked, QuestionsFit, AnyOut, Kinds
    <3> QED BY <1>5, <1>6, <3>1, <3>2, <3>3 DEF QuestionsFit
  <2>6. StartsComeFirst(t)'
    <3>1. \A k \in Slots : ~Out(k, t, {"start", "attach"})
      BY <1>2, <2>1 DEF Unforked, StartsComeFirst, AnyOut
    <3> QED BY <1>9, <3>1 DEF StartsComeFirst, AnyOut, Kinds
  <2>7. StopsFit(t)'
    BY <1>2, <1>5, <1>6, <1>9, <2>2 DEF StopsFit, Kinds
  <2> QED BY <2>3, <2>4, <2>5, <2>6, <2>7 DEF Unforked
<1> QED BY <1>1, <1>10, <1>11 DEF TargetInv

LEMMA AcknowledgeKeepsTarget ==
  ASSUME KnownInv, NEW t \in Targets, TargetInv(t), Acknowledge(t)
  PROVE  TargetInv(t)'
<1>1. /\ scans[t].job = "ready" /\ UNCHANGED <<requests, forked, server, here, resumeDue>>
      /\ timers' = timers \ {t} /\ scans'[t] = NoJob
  BY ForgetDoes DEF Acknowledge, Rest, KnownInv, JobsOK
<1>2. IsFollowed(t) /\ ~IsFollowed(t)'
  BY <1>1 DEF IsFollowed, NoJob
<1>3. Polled(t)' /\ AskedFor(t)'
  BY <1>2 DEF Polled, AskedFor
<1>4. ASSUME Unforked(t)
      PROVE  Unforked(t)'
  <2>1. ~AnyOut(t, {"start", "attach"})
    BY <1>1, <1>2, <1>4 DEF Unforked, ScanIsDone, StartsComeFirst
  <2>2. OneChain(t)'
    BY <1>1, <1>4 DEF Unforked, OneChain, AnyOut, Out
  <2>3. ScanIsDone(t)' /\ QuestionsFit(t)'
    BY <1>2 DEF ScanIsDone, QuestionsFit
  <2>4. StartsComeFirst(t)'
    BY <1>1, <1>4, <2>1 DEF Unforked, StartsComeFirst, AnyOut, Out
  <2>5. StopsFit(t)'
    BY <1>1, <1>2, <1>4 DEF Unforked, StopsFit, Out
  <2> QED BY <2>2, <2>3, <2>4, <2>5 DEF Unforked
<1> QED BY <1>1, <1>3, <1>4 DEF TargetInv

LEMMA TickKeepsTarget ==
  ASSUME KnownInv, NEW t \in Targets, TargetInv(t), NEW i \in Slots, Tick(t, i)
  PROVE  TargetInv(t)'
<1>1. /\ t \in timers /\ timers' = timers \ {t} /\ requests[i] = Free
      /\ UNCHANGED <<scans, forked, server, here, resumeDue>>
  BY DEF Tick, IsNext, Same, Rest
<1>2. IsFollowed(t)' <=> IsFollowed(t)
  BY <1>1 DEF IsFollowed
<1>3. CASE ~(IsFollowed(t) /\ here = WorkspaceOf[t])
  <2>1. UNCHANGED requests
    BY <1>3 DEF Tick
  <2>2. Polled(t)' /\ AskedFor(t)'
    BY <1>1, <1>2, <1>3, <2>1 DEF TargetInv, Polled, AskedFor, AnyOut, Out, IsJobActive
  <2>3. ASSUME Unforked(t)
        PROVE  Unforked(t)'
    BY <1>1, <1>2, <2>1, <2>3 DEF Unforked, OneChain, ScanIsDone, QuestionsFit, StartsComeFirst,
       StopsFit, AnyOut, Out
  <2> QED BY <1>1, <2>2, <2>3 DEF TargetInv
<1>4. CASE IsFollowed(t) /\ here = WorkspaceOf[t]
  <2>1. PICK kind : /\ kind = IF scans[t].job = "scoring" THEN "score" ELSE "poll"
                    /\ Send(i, kind, t, scans[t].scan)
    BY <1>4 DEF Tick
  <2>2. Unforked(t) => scans[t].job \in {"scanning", "scoring"}
    BY <1>1, <1>4 DEF KnownInv, JobsOK, IsFollowed, Tracked, Jobs, Unforked, QuestionsFit
  <2>3. \A kinds : kinds \subseteq Kinds => ~Out(i, t, kinds)
    BY <1>1 DEF Out, Free, Kinds
  <2>4. /\ \A k \in Slots : \A kinds : kinds \subseteq Kinds =>
             (Out(k, t, kinds)' <=> (k = i /\ kind \in kinds) \/ Out(k, t, kinds))
        /\ \A k \in Slots : k # i => requests'[k] = requests[k]
        /\ requests'[i].scan = scans[t].scan /\ requests'[i].answer = NoAnswer
    BY <2>1, <2>3, SendLeaves
  <2>5. Polled(t)' /\ AskedFor(t)'
    BY <1>1, <1>2, <2>1, <2>2, <2>4 DEF TargetInv, Polled, AskedFor, AnyOut, Kinds
  <2>6. ASSUME Unforked(t)
        PROVE  Unforked(t)'
    <3>1. \A k \in Slots : ~Out(k, t, {"poll", "score"})
      BY <1>1, <2>6 DEF Unforked, OneChain, AnyOut
    <3>2. \A k \in Slots : ~Out(k, t, {"poll"}) /\ ~Out(k, t, {"score"})
      BY <3>1 DEF Out
    <3>3. OneChain(t)'
      BY <1>1, <2>4, <3>1 DEF OneChain, AnyOut, Kinds
    <3>4. ScanIsDone(t)'
      BY <1>1, <1>2, <2>6 DEF Unforked, ScanIsDone
    <3>5. QuestionsFit(t)'
      <4>1. \A k \in Slots : Out(k, t, {"stop"})' =>
              requests'[k].scan = scans[t].scan /\ scans[t].stopping
        BY <1>4, <2>1, <2>3, <2>4, <2>6 DEF Unforked, QuestionsFit, Kinds
      <4>2. \A k \in Slots : Out(k, t, {"poll"})' => requests'[k].scan = scans[t].scan
        BY <2>4, <3>2 DEF Kinds
      <4>3. AnyOut(t, {"score"})' => scans[t].job = "scoring"
        BY <2>1, <2>4, <3>2 DEF AnyOut, Kinds
      <4>4. AnyOut(t, {"poll"})' => scans[t].job = "scanning"
        BY <2>1, <2>2, <2>4, <2>6, <3>2 DEF AnyOut, Kinds
      <4> QED BY <1>1, <4>1, <4>2, <4>3, <4>4 DEF QuestionsFit
    <3>6. StartsComeFirst(t)'
      <4>1. \A k \in Slots : Out(k, t, {"start", "attach"})' <=> Out(k, t, {"start", "attach"})
        BY <2>1, <2>4 DEF Kinds
      <4>2. AnyOut(t, {"start", "attach"}) => kind = "poll"
        BY <1>4, <2>1, <2>6 DEF Unforked, ScanIsDone, StartsComeFirst
      <4>3. AnyOut(t, {"start", "attach"}) => ~AnyOut(t, {"score", "stop"})'
        BY <2>4, <2>6, <4>2 DEF Unforked, StartsComeFirst, AnyOut, Kinds
      <4> QED BY <1>1, <1>2, <2>6, <4>1, <4>3 DEF Unforked, StartsComeFirst, AnyOut
    <3>7. StopsFit(t)'
      <4>1. \A k \in Slots : Out(k, t, {"stop"})' <=> Out(k, t, {"stop"})
        BY <2>1, <2>4 DEF Kinds
      <4>2. \A k \in Slots : Out(k, t, {"poll"})' => requests'[k].answer.is # "status"
        BY <2>4, <3>2, AnswersAre DEF Kinds
      <4> QED BY <1>1, <1>2, <2>6, <4>1, <4>2 DEF Unforked, StopsFit
    <3> QED BY <3>3, <3>4, <3>5, <3>6, <3>7 DEF Unforked
  <2> QED BY <1>1, <2>5, <2>6 DEF TargetInv
<1> QED BY <1>3, <1>4

LEMMA UserKeepsTarget ==
  ASSUME KnownInv, NEW u \in Targets,
         \/ Acknowledge(u)
         \/ \E s \in Scans : Pin(u, s)
         \/ \E i \in Slots : Start(u, i) \/ Stop(u, i) \/ Discover(u, i),
         NEW t \in Targets, TargetInv(t)
  PROVE  TargetInv(t)'
<1>1. Onward /\ UNCHANGED <<here, resumeDue, server>>
  BY StillIsOnward DEF Acknowledge, Pin, Start, Stop, Discover, Rest, KnownInv
<1>2. ASSUME NEW i \in Slots, Discover(u, i)
      PROVE  TargetInv(t)'
  <2>1. /\ UNCHANGED <<scans, timers, forked>> /\ requests[i] = Free
        /\ Send(i, "discover", u, None)
    BY <1>2 DEF Discover, IsNext, Same
  <2>2. \A k \in Slots : k # i => requests'[k] = requests[k]
    BY <2>1, SendLeaves
  <2>3. requests[i].kind = "free" /\ requests'[i].kind = "discover"
    BY <2>1, SendLeaves DEF Free
  <2>4. Untouched(t)
    BY <2>1, <2>2, <2>3 DEF Untouched
  <2> QED BY <1>1, <2>4, UntouchedKeeps
<1>3. CASE t # u
  <2>1. ASSUME NEW i \in Slots, Start(u, i) \/ Stop(u, i)
        PROVE  TargetInv(t)'
    <3>1. requests[i] = Free /\ \E kind, s : Send(i, kind, u, s)
      BY <2>1 DEF Start, Stop, IsNext
    <3>2. scans'[t] = scans[t]
      BY <1>3, <2>1, TrackDoes, UpdateDoes DEF Start, Stop, KnownInv, JobsOK
    <3>3. UNCHANGED timers /\ (t \in forked => t \in forked')
      BY <2>1 DEF Start, Stop
    <3> QED BY <1>1, <1>3, <3>1, <3>2, <3>3, OthersKeep
  <2>2. ASSUME Acknowledge(u) \/ \E s \in Scans : Pin(u, s)
        PROVE  TargetInv(t)'
    <3>1. scans'[t] = scans[t] /\ UNCHANGED <<requests, forked>>
      BY <1>3, <2>2, ForgetDoes, UpdateDoes DEF Acknowledge, Pin, KnownInv, JobsOK
    <3>2. t \in timers' <=> t \in timers
      BY <1>3, <2>2, ForgetDoes DEF Acknowledge, Pin
    <3>3. Untouched(t)
      BY <3>1, <3>2 DEF Untouched
    <3> QED BY <1>1, <3>3, UntouchedKeeps
  <2> QED BY <1>2, <2>1, <2>2
<1>4. CASE t = u
  <2>1. ASSUME NEW s \in Scans, Pin(t, s)
        PROVE  TargetInv(t)'
    <3>1. IsFollowed(t)
      BY <2>1 DEF Pin, IsFollowed, NoJob
    <3>2. scans[t] \in Tracked
      BY <3>1 DEF KnownInv, JobsOK, IsFollowed
    <3>3. PICK job : job = [scans[t] EXCEPT !.pinned = s]
      OBVIOUS
    <3>4. scans'[t] = job
      BY <2>1, <3>1, <3>3, UpdateDoes DEF Pin, KnownInv, JobsOK
    <3>5. /\ job.scan = scans[t].scan /\ job.phase = scans[t].phase /\ job.job = scans[t].job
          /\ job.stopping = scans[t].stopping
      BY <3>2, <3>3 DEF Tracked
    <3>6. job # NoJob
      BY <2>1, <3>5 DEF Pin, NoJob
    <3> QED BY <1>1, <2>1, <3>1, <3>4, <3>5, <3>6, PatchKeepsTarget DEF Pin
  <2> QED BY <1>2, <1>4, <2>1, AcknowledgeKeepsTarget, StartKeepsTarget, StopKeepsTarget
<1> QED BY <1>3, <1>4

LEMMA ClockKeepsTarget ==
  ASSUME KnownInv, NEW u \in Targets,
         DiscoverStale(u) \/ ScoreWaits(u) \/ \E i \in Slots : Tick(u, i),
         NEW t \in Targets, TargetInv(t)
  PROVE  TargetInv(t)'
<1>1. Onward /\ UNCHANGED <<here, resumeDue, server>>
  BY StillIsOnward DEF DiscoverStale, ScoreWaits, Tick, Rest, KnownInv
<1>2. CASE DiscoverStale(u)
  <2>1. Untouched(t)
    BY <1>2 DEF DiscoverStale, Untouched
  <2> QED BY <1>1, <2>1, UntouchedKeeps
<1>3. CASE ScoreWaits(u) /\ t # u
  <2>1. Untouched(t)
    BY <1>3 DEF ScoreWaits, Untouched, KnownInv, JobsOK
  <2> QED BY <1>1, <2>1, UntouchedKeeps
<1>4. CASE ScoreWaits(u) /\ t = u
  <2>1. IsFollowed(t)
    BY <1>4 DEF ScoreWaits, IsFollowed, NoJob
  <2>2. scans[t] \in Tracked
    BY <2>1 DEF KnownInv, JobsOK, IsFollowed
  <2>3. PICK job : job = [scans[t] EXCEPT !.wait = "timeout"]
    OBVIOUS
  <2>4. scans'[t] = job
    BY <1>4, <2>3 DEF ScoreWaits, KnownInv, JobsOK
  <2>5. /\ job.scan = scans[t].scan /\ job.phase = scans[t].phase /\ job.job = scans[t].job
        /\ job.stopping = scans[t].stopping
    BY <2>2, <2>3 DEF Tracked
  <2>6. job # NoJob
    BY <1>4, <2>5 DEF ScoreWaits, NoJob
  <2> QED BY <1>1, <1>4, <2>1, <2>4, <2>5, <2>6, PatchKeepsTarget DEF ScoreWaits
<1>5. ASSUME NEW i \in Slots, Tick(u, i), t # u
      PROVE  TargetInv(t)'
  <2>1. requests[i] = Free /\ (UNCHANGED requests \/ \E kind, s : Send(i, kind, u, s))
    BY <1>5 DEF Tick, IsNext
  <2>2. UNCHANGED <<scans, forked>> /\ timers' = timers \ {u}
    BY <1>5 DEF Tick, Same
  <2> QED BY <1>1, <1>5, <2>1, <2>2, OthersKeep
<1> QED BY <1>2, <1>3, <1>4, <1>5, TickKeepsTarget

\* The workspace's answer, and what it sets off.
LEMMA NoteKeepsTarget ==
  ASSUME KnownInv, NoteWorkspace, NEW t \in Targets, TargetInv(t)
  PROVE  TargetInv(t)'
<1>1. resumeDue' /\ UNCHANGED <<scans, timers, requests, forked, server>>
  BY DEF NoteWorkspace, Same, Unmoved
<1>2. Polled(t)'
  BY <1>1 DEF Polled
<1>3. AskedFor(t)'
  BY <1>1 DEF TargetInv, AskedFor, AnyOut, Out, IsFollowed
<1>4. Unforked(t) => Unforked(t)'
  BY <1>1 DEF Unforked, OneChain, ScanIsDone, QuestionsFit, StartsComeFirst, StopsFit,
     AnyOut, Out, IsFollowed
<1> QED BY <1>1, <1>2, <1>3, <1>4 DEF TargetInv

LEMMA ResumeKeepsTarget ==
  ASSUME KnownInv, SavedInv, Resume, NEW t \in Targets, TargetInv(t)
  PROVE  TargetInv(t)'
<1>1. UNCHANGED <<requests, server, here>>
  BY DEF Resume, Unmoved
<1>2. /\ timers' = timers \cup ResumedPolls
      /\ forked' = forked \cup {v \in ResumedPolls : OutFor(v, None) # {}}
      /\ IF Again # {} THEN Changed(ResumedJobs) ELSE Same
  BY ResumeDoes
<1>3. scans'[t] = ResumedJobs[t]
  <2>1. CASE Again = {}
    BY <1>2, <2>1 DEF ResumedJobs, Same
  <2>2. CASE Again # {}
    BY <1>2, <2>2 DEF Changed
  <2> QED BY <2>1, <2>2
<1>4. \A k \in Slots : \A kinds : Out(k, t, kinds)' <=> Out(k, t, kinds)
  BY <1>1 DEF Out
<1>5. t \in ResumedPolls /\ t \notin forked'
      => \A k \in Slots : ~Out(k, t, {"poll", "score"})
  <2>1. None \notin Slots
    BY DEF None, Slots
  <2> QED BY <1>2, <2>1 DEF OutFor, Out
<1>6. CASE t \in Again
  <2>1. PICK job : job = Followed(t, saved[t], "running")
    OBVIOUS
  <2>2. job.scan = saved[t] /\ job.phase = "running" /\ job.job = "scanning"
    BY <2>1 DEF Followed
  <2>3. scans'[t] = job
    BY <1>3, <1>6, <2>1 DEF ResumedJobs
  <2>4. saved[t] # None /\ ~IsFollowed(t) /\ WorkspaceOf[t] = here
    BY <1>6 DEF Again
  <2>5. t \in ResumedPolls
    <3>1. ResumedJobs[t] = job
      BY <1>6, <2>1 DEF ResumedJobs
    <3> QED BY <2>2, <2>4, <3>1 DEF ResumedPolls, NoJob, IsJobActive
  <2>6. Polled(t)' /\ AskedFor(t)'
    BY <1>2, <2>2, <2>3, <2>4, <2>5 DEF Polled, AskedFor
  <2>7. ASSUME t \notin forked'
        PROVE  Unforked(t)'
    <3>1. Unforked(t)
      BY <1>2, <2>7 DEF TargetInv
    <3>2. \A k \in Slots : ~Out(k, t, {"poll", "score"})
      BY <1>5, <2>5, <2>7
    <3>3. \A k \in Slots : ~Out(k, t, {"start", "attach"})
      BY <2>4, <3>1 DEF Unforked, StartsComeFirst, AnyOut
    \* What is saved for a branch that is not followed was saved before a refresh.
    <3>4. Fresh
      <4>1. saved # SavedOf(scans)
        BY <2>4 DEF SavedOf, IsFollowed
      <4> QED BY <4>1 DEF SavedInv
    <3>5. \A k \in Slots : ~Out(k, t, {"poll"}) /\ ~Out(k, t, {"score"}) /\ ~Out(k, t, {"stop"})
      BY <3>4 DEF Fresh, Out
    <3>6. OneChain(t)'
      BY <1>4, <3>2 DEF OneChain, AnyOut
    <3>7. ScanIsDone(t)' /\ QuestionsFit(t)'
      BY <1>4, <2>2, <2>3, <3>5 DEF ScanIsDone, QuestionsFit, AnyOut
    <3>8. StartsComeFirst(t)'
      BY <1>4, <3>3 DEF StartsComeFirst, AnyOut
    <3>9. StopsFit(t)'
      BY <1>4, <2>2, <2>3, <3>5 DEF StopsFit
    <3> QED BY <3>6, <3>7, <3>8, <3>9 DEF Unforked
  <2> QED BY <2>6, <2>7 DEF TargetInv
<1>7. CASE t \notin Again
  <2>1. scans'[t] = scans[t] /\ ResumedJobs[t] = scans[t]
    BY <1>3, <1>7 DEF ResumedJobs
  <2>2. IsFollowed(t)' <=> IsFollowed(t)
    BY <2>1 DEF IsFollowed
  <2>3. Polled(t)'
    BY <1>1, <1>2, <2>1, <2>2 DEF Polled, ResumedPolls, IsFollowed, IsJobActive
  <2>4. AskedFor(t)'
    BY <1>4, <2>1, <2>2 DEF TargetInv, AskedFor, AnyOut
  <2>5. ASSUME t \notin forked'
        PROVE  Unforked(t)'
    <3>1. Unforked(t)
      BY <1>2, <2>5 DEF TargetInv
    <3>2. OneChain(t)'
      BY <1>2, <1>4, <1>5, <2>5, <3>1 DEF Unforked, OneChain, AnyOut
    <3>3. ScanIsDone(t)' /\ StartsComeFirst(t)'
      BY <1>1, <1>4, <2>1, <2>2, <3>1
      DEF Unforked, ScanIsDone, StartsComeFirst, AnyOut
    <3>4. QuestionsFit(t)'
      <4>1. t \in timers' /\ IsFollowed(t) => scans[t].job # "ready"
        BY <1>2, <2>1, <3>1 DEF Unforked, QuestionsFit, ResumedPolls, IsJobActive
      <4>2. QED  BY <1>1, <1>4, <2>1, <2>2, <3>1, <4>1 DEF Unforked, QuestionsFit, AnyOut
    <3>5. StopsFit(t)'
      BY <1>1, <1>4, <2>1, <2>2, <3>1 DEF Unforked, StopsFit, AnyOut
    <3> QED BY <3>2, <3>3, <3>4, <3>5 DEF Unforked
  <2> QED BY <2>3, <2>4, <2>5 DEF TargetInv
<1> QED BY <1>6, <1>7

LEMMA StepKeepsTarget ==
  ASSUME KnownInv, SavedInv, [Next]_vars, NEW t \in Targets, TargetInv(t)
  PROVE  TargetInv(t)'
<1>1. CASE Api
  BY <1>1, ApiKeepsTarget
<1>2. CASE Answered
  BY <1>2, PollsKeepTarget, ScoresKeepTarget, StartsKeepTarget, DiscoveredKeepsTarget DEF Answered
<1>3. ASSUME NEW w \in Workspaces, SwitchOnServer(w)
      PROVE  TargetInv(t)'
  <2>1. Untouched(t) /\ Onward /\ UNCHANGED <<here, resumeDue>>
    BY <1>3, StillIsOnward DEF SwitchOnServer, Same, Unmoved, Untouched, KnownInv
  <2> QED BY <2>1, UntouchedKeeps
<1>4. CASE Reload
  <2>1. ~IsFollowed(t)' /\ timers' = {} /\ \A k \in Slots : \A kinds : kinds \subseteq Kinds => ~Out(k, t, kinds)'
    BY <1>4 DEF Reload, IsFollowed, Out, Free, Kinds
  <2> QED BY <2>1 DEF TargetInv, Polled, AskedFor, Unforked, OneChain, ScanIsDone, QuestionsFit,
          StartsComeFirst, StopsFit, AnyOut, Kinds
<1>5. CASE User
  BY <1>3, <1>4, <1>5, UserKeepsTarget DEF User
<1>6. CASE Clock
  BY <1>6, ClockKeepsTarget DEF Clock
<1>7. CASE UNCHANGED vars
  <2>1. Untouched(t) /\ Onward /\ UNCHANGED <<here, resumeDue>>
    BY <1>7, StillIsOnward DEF vars, Untouched, KnownInv
  <2> QED BY <2>1, UntouchedKeeps
<1> QED BY <1>1, <1>2, <1>5, <1>6, <1>7, NoteKeepsTarget, ResumeKeepsTarget DEF Next

Inv == KnownInv /\ SavedInv /\ \A t \in Targets : TargetInv(t)

LEMMA InitInv == Init => Inv
<1> SUFFICES ASSUME Init
             PROVE  Inv
  OBVIOUS
<1>1. ASSUME NEW t \in Targets
      PROVE  TargetInv(t)
  <2>1. ~IsFollowed(t) /\ timers = {} /\ \A k \in Slots : \A kinds : kinds \subseteq Kinds => ~Out(k, t, kinds)
    BY DEF Init, IsFollowed, Out, Free, Kinds
  <2> QED BY <2>1 DEF TargetInv, Polled, AskedFor, Unforked, OneChain, ScanIsDone, QuestionsFit,
          StartsComeFirst, StopsFit, AnyOut, Kinds
<1> QED BY <1>1, InitIsKnown, InitIsSaved DEF Inv

LEMMA StepKeepsInv == Inv /\ [Next]_vars => Inv'
<1> SUFFICES ASSUME Inv, [Next]_vars
             PROVE  Inv'
  OBVIOUS
<1>1. KnownInv' /\ SavedInv'
  BY StepKeepsKnown, StepKeepsSaved DEF Inv
<1>2. ASSUME NEW t \in Targets
      PROVE  TargetInv(t)'
  BY StepKeepsTarget DEF Inv
<1> QED BY <1>1, <1>2 DEF Inv

LEMMA InvHolds == Spec => []Inv
BY InitInv, StepKeepsInv, PTL DEF Spec

-----------------------------------------------------------------------------
(* The theorems.                                                           *)

\* No job of the workspace on screen is left without a timeout or a question.
THEOREM JobsArePolled == Spec => []NothingGoesUnpolled
<1>1. Inv => NothingGoesUnpolled
  BY DEF Inv, TargetInv, Polled, NothingGoesUnpolled, AnyOut, Out
<1> QED BY <1>1, InvHolds, PTL

\* There is one chain of questions per scan, however many screens show it, as long as
\* no job was started or resumed over an older question.
THEOREM ChainsAreSingle == Spec => []OneChainUnlessForked
<1>1. Inv => OneChainUnlessForked
  <2> SUFFICES ASSUME Inv, NEW t \in Targets \ forked
               PROVE  /\ t \in timers => OutFor(t, None) = {}
                      /\ \A i, k \in OutFor(t, None) : i = k
    BY DEF OneChainUnlessForked
  <2>1. OneChain(t)
    BY DEF Inv, TargetInv, Unforked
  <2>2. \A k \in OutFor(t, None) : k \in Slots /\ Out(k, t, {"poll", "score"})
    BY DEF OutFor, Out
  <2> QED BY <2>1, <2>2 DEF OneChain, AnyOut
<1> QED BY <1>1, InvHolds, PTL

-----------------------------------------------------------------------------
(* What a step may say, and what it may take back.                         *)

\* Only the answer about a score says that a job is finished.
LEMMA OnlyScoresFinish ==
  ASSUME Next
  PROVE  \/ said'.type # "finished"
         \/ \E i \in Slots : ScoreAnswered(i) \/ ScoreGivenUp(i)
<1>1. CASE Api
  <2>1. Untold
    BY <1>1 DEF Api, StartedElsewhere, Runs, ScoreReady, Ends, ApiOnly, ServePoll,
       ServeActive, ServeScore, ServeStart, ServeStop, Answer, Blip
  <2> QED BY <2>1 DEF Untold, NoEvent
<1>2. ASSUME NEW i \in Slots,
             \/ PollMissing(i) \/ PollBlip(i) \/ PollActive(i) \/ PollDone(i)
             \/ PollUnfollowed(i) \/ ScoreAgain(i) \/ ScoreUnwanted(i)
             \/ StartQueued(i) \/ StartBusy(i) \/ Discovered(i)
      PROVE  said'.type # "finished"
  <2>1. Untold
    BY <1>2 DEF PollMissing, PollBlip, PollActive, PollDone, PollUnfollowed, ScoreAgain,
       ScoreUnwanted, StartQueued, StartBusy, Discovered
  <2> QED BY <2>1 DEF Untold, NoEvent
<1>3. ASSUME NEW i \in Slots, PollOver(i)
      PROVE  said'.type # "finished"
  BY <1>3 DEF PollOver, Emit, Event
<1>4. ASSUME NEW i \in Slots,
             \/ StartUpToDate(i) \/ Attach(i) \/ StartFailed(i) \/ StopFailed(i)
             \/ StopAnswered(i)
      PROVE  said'.type # "finished"
  BY <1>4 DEF StartUpToDate, Attach, StartFailed, StopFailed, StopAnswered, Emit, Event,
     Untold, NoEvent
<1>5. CASE User
  <2>1. Untold \/ \E t \in Targets : Emit("queued", t, None)
    BY <1>5 DEF User, Acknowledge, Pin, Start, Stop, Discover, SwitchOnServer, Unmoved, Reload
  <2> QED BY <2>1 DEF Emit, Event, Untold, NoEvent
<1>6. CASE Clock \/ NoteWorkspace \/ Resume
  <2>1. Untold
    BY <1>6 DEF Clock, DiscoverStale, ScoreWaits, Tick, NoteWorkspace, Resume, Unmoved
  <2> QED BY <2>1 DEF Untold, NoEvent
<1>7. CASE Answered
  BY <1>2, <1>3, <1>4, <1>7 DEF Answered
<1> QED BY <1>1, <1>5, <1>6, <1>7 DEF Next

\* It is said of the job the score was asked for, and that scan is done.
LEMMA FinishIsTrue ==
  ASSUME Inv, NEW i \in Slots, ScoreAnswered(i) \/ ScoreGivenUp(i)
  PROVE  FinishedMeansDoneUnlessForked'
<1>1. PICK t : t = requests[i].target
  OBVIOUS
<1>2. requests[i].kind = "score" /\ UNCHANGED <<forked, server>>
  BY DEF ScoreAnswered, ScoreGivenUp, Rest
<1>3. t \in Targets
  BY <1>1, <1>2, AnsweredIsOut DEF Inv, Kinds
<1>4. \/ IsFollowed(t) /\ said' = Event("finished", t, scans[t].scan)
      \/ said' = NoEvent
  BY <1>1 DEF ScoreAnswered, ScoreGivenUp, FinishJob, Emit, Untold
<1>5. CASE said' = NoEvent
  BY <1>5 DEF FinishedMeansDoneUnlessForked, NoEvent
<1>6. CASE IsFollowed(t) /\ said' = Event("finished", t, scans[t].scan)
  <2>1. said'.target = t /\ said'.scan = scans[t].scan
    BY <1>6 DEF Event
  <2>2. ASSUME t \notin forked
        PROVE  server[scans[t].scan] = "done"
    <3>1. Unforked(t)
      BY <1>3, <2>2 DEF Inv, TargetInv
    <3>2. AnyOut(t, {"score"})
      BY <1>1, <1>2 DEF AnyOut, Out
    <3>3. scans[t].job = "scoring"
      BY <1>6, <3>1, <3>2 DEF Unforked, QuestionsFit
    <3> QED BY <1>6, <3>1, <3>3 DEF Unforked, ScanIsDone
  <2> QED BY <1>2, <2>1, <2>2 DEF FinishedMeansDoneUnlessForked
<1> QED BY <1>4, <1>5, <1>6

\* A stop on screen outlives a step of a branch that is not asked about twice.
StopKept(t) ==
  IsStopping(t) /\ scans'[t].job = "scanning" /\ scans'[t].scan = scans[t].scan
  => IsStopping(t)' \/ said'.type = "stop-failed"

LEMMA SameKeepsStop ==
  ASSUME NEW t \in Targets, scans'[t] = scans[t]
  PROVE  StopKept(t)
BY DEF StopKept, IsStopping

LEMMA GoneKeepsStop ==
  ASSUME NEW t \in Targets, scans'[t] = NoJob
  PROVE  StopKept(t)
BY DEF StopKept, NoJob

LEMMA UnfollowedKeepsStop ==
  ASSUME NEW t \in Targets, ~IsFollowed(t)
  PROVE  StopKept(t)
BY DEF StopKept, IsStopping, IsFollowed, NoJob

\* A poll that was out when Stop was pressed finds the flag still set.
LEMMA PollActiveKeepsStop ==
  ASSUME Inv, NEW i \in Slots, PollActive(i), NEW t \in Targets, t \notin forked
  PROVE  StopKept(t)
<1>1. /\ requests[i].kind = "poll" /\ requests[i].answer.is = "status"
      /\ IsFollowed(requests[i].target) /\ requests[i].answer.phase \in Active
  BY DEF PollActive
<1>2. KnownInv /\ requests[i].target \in Targets
  BY <1>1, AnswerNamesAScan DEF Inv
<1>3. PICK job :
        /\ scans' = [scans EXCEPT ![requests[i].target] = job]
        /\ job = [scans[requests[i].target] EXCEPT !.scan = requests[i].answer.scan,
                                                   !.phase = requests[i].answer.phase]
  BY <1>1, <1>2, UpdateDoes DEF PollActive
<1>4. CASE t # requests[i].target
  BY <1>2, <1>3, <1>4, SameKeepsStop DEF KnownInv, JobsOK
<1>5. CASE t = requests[i].target
  <2>1. scans'[t] = job /\ scans[t] \in Tracked
    BY <1>1, <1>2, <1>3, <1>5 DEF KnownInv, JobsOK, IsFollowed
  <2>2. job.phase = requests[i].answer.phase /\ job.stopping = scans[t].stopping
    BY <1>3, <1>5, <2>1 DEF Tracked
  <2>3. CASE scans[t].stopping
    BY <2>1, <2>2, <2>3 DEF StopKept, IsStopping
  <2>4. CASE ~scans[t].stopping /\ scans[t].phase = "stopping"
    <3>1. StopsFit(t)
      BY DEF Inv, TargetInv, Unforked
    <3>2. requests[i].answer.phase = "stopping"
      BY <1>1, <1>5, <2>4, <3>1 DEF StopsFit, Out, Active
    <3> QED BY <2>1, <2>2, <3>2 DEF StopKept, IsStopping
  <2> QED BY <2>3, <2>4 DEF StopKept, IsStopping
<1> QED BY <1>4, <1>5

LEMMA PollDoneKeepsStop ==
  ASSUME Inv, NEW i \in Slots, PollDone(i), NEW t \in Targets
  PROVE  StopKept(t)
<1>1. KnownInv /\ requests[i].target \in Targets
  BY AnswerNamesAScan DEF Inv, PollDone
<1>2. PICK job : scans' = [scans EXCEPT ![requests[i].target] = job] /\ job.job = "scoring"
  BY <1>1, PollDoneDoes
<1>3. CASE t # requests[i].target
  BY <1>1, <1>2, <1>3, SameKeepsStop DEF KnownInv, JobsOK
<1>4. CASE t = requests[i].target
  BY <1>1, <1>2, <1>4 DEF StopKept, KnownInv, JobsOK
<1> QED BY <1>3, <1>4

\* A score answered too late for its job ends it, or makes it wait for a look.
LEMMA ScoreKeepsStop ==
  ASSUME Inv, NEW i \in Slots, ScoreAnswered(i) \/ ScoreGivenUp(i), NEW t \in Targets
  PROVE  StopKept(t)
<1>1. PICK u : u = requests[i].target
  OBVIOUS
<1>2. KnownInv /\ u \in Targets
  BY <1>1, AnsweredIsOut DEF Inv, ScoreAnswered, ScoreGivenUp, Kinds
<1>3. CASE ~IsFollowed(u)
  BY <1>1, <1>3, SameKeepsStop DEF ScoreAnswered, ScoreGivenUp, FinishJob, Same
<1>4. CASE IsFollowed(u)
  <2>1. scans[u] \in Tracked
    BY <1>2, <1>4 DEF KnownInv, JobsOK, IsFollowed
  <2>2. PICK job : /\ job \in {NoJob, [scans[u] EXCEPT !.job = "ready"]}
                   /\ scans' = [scans EXCEPT ![u] = job]
    BY <1>1, <1>4 DEF ScoreAnswered, ScoreGivenUp, FinishJob, Changed
  <2>3. job.job # "scanning"
    BY <2>1, <2>2 DEF NoJob, Tracked
  <2>4. CASE t # u
    BY <1>2, <2>2, <2>4, SameKeepsStop DEF KnownInv, JobsOK
  <2>5. CASE t = u
    BY <1>2, <2>2, <2>3, <2>5 DEF StopKept, KnownInv, JobsOK
  <2> QED BY <2>4, <2>5
<1> QED BY <1>3, <1>4

\* The answer of a start names the scan of a job that had none.
LEMMA StartedKeepsStop ==
  ASSUME Inv, NEW i \in Slots, StartQueued(i) \/ Attach(i), NEW t \in Targets, t \notin forked
  PROVE  StopKept(t)
<1>1. PICK u : u = requests[i].target
  OBVIOUS
<1>2. requests[i].kind \in {"start", "attach"} /\ requests[i].answer.is = "status"
  BY DEF StartQueued, Attach
<1>3. KnownInv /\ u \in Targets /\ requests[i].answer.scan \in Scans
  BY <1>1, <1>2, AnswerNamesAScan DEF Inv
<1>4. PICK job : scans' = [scans EXCEPT ![u] = job] /\ job.scan = requests[i].answer.scan
  <2>1. Track(u, requests[i].answer.scan, requests[i].answer.phase)
    BY <1>1 DEF StartQueued, Attach
  <2>2. Followed(u, requests[i].answer.scan, requests[i].answer.phase).scan
        = requests[i].answer.scan
    BY DEF Followed
  <2> QED BY <1>3, <2>1, <2>2, TrackDoes
<1>5. CASE t # u
  BY <1>3, <1>4, <1>5, SameKeepsStop DEF KnownInv, JobsOK
<1>6. CASE t = u
  <2>1. scans[t].scan = None
    BY <1>1, <1>2, <1>6 DEF Inv, TargetInv, Unforked, StartsComeFirst, AnyOut, Out
  <2>2. scans'[t].scan # None
    BY <1>3, <1>4, <1>6, IdsArePositive DEF KnownInv, JobsOK
  <2> QED BY <2>1, <2>2 DEF StopKept
<1> QED BY <1>5, <1>6

\* Taking the flag back is said; the answer of a stop keeps it.
LEMMA StopAnswersKeepStop ==
  ASSUME Inv, NEW i \in Slots, StopFailed(i) \/ StopAnswered(i), NEW t \in Targets
  PROVE  StopKept(t)
<1>1. PICK u : u = requests[i].target
  OBVIOUS
<1>2. KnownInv /\ u \in Targets /\ requests[i].kind = "stop"
  BY <1>1, AnsweredIsOut DEF Inv, StopFailed, StopAnswered, Kinds
<1>3. CASE StopFailed(i)
  <2>1. CASE ~IsFollowed(u)
    BY <1>1, <1>2, <1>3, <2>1, UpdateDoes, SameKeepsStop DEF StopFailed
  <2>2. CASE IsFollowed(u)
    BY <1>1, <1>3, <2>2 DEF StopFailed, StopKept, Emit, Event
  <2> QED BY <2>1, <2>2
<1>4. CASE StopAnswered(i)
  <2>1. CASE requests[i].answer.phase = "cancelled"
    <3>1. scans' = [scans EXCEPT ![u] = NoJob]
      BY <1>1, <1>2, <1>4, <2>1, ForgetDoes DEF StopAnswered
    <3>2. scans'[t] \in {scans[t], NoJob}
      BY <1>2, <3>1 DEF KnownInv, JobsOK
    <3> QED BY <3>2, SameKeepsStop, GoneKeepsStop
  <2>2. CASE requests[i].answer.phase # "cancelled"
    <3>1. requests[i].answer.phase = "stopping"
      BY <1>2, <1>4, <2>2 DEF StopAnswered, KnownInv, RequestsOK, RequestOK, AnswerOK
    <3>2. PICK job : /\ job = [scans[u] EXCEPT !.scan = requests[i].answer.scan,
                                               !.phase = requests[i].answer.phase]
                     /\ Update(u, job)
      BY <1>1, <1>4, <2>2 DEF StopAnswered
    <3>3. CASE IsFollowed(u) /\ t = u
      <4>1. scans[u] \in Tracked
        BY <1>2, <3>3 DEF KnownInv, JobsOK, IsFollowed
      <4>2. job.phase = "stopping"
        BY <3>1, <3>2, <4>1 DEF Tracked
      <4>3. scans'[t] = job
        BY <1>2, <3>2, <3>3, UpdateDoes DEF KnownInv, JobsOK
      <4> QED BY <4>2, <4>3 DEF StopKept, IsStopping
    <3>4. CASE ~IsFollowed(u) \/ t # u
      BY <1>2, <3>2, <3>4, UpdateDoes, SameKeepsStop DEF KnownInv, JobsOK
    <3> QED BY <3>3, <3>4
  <2> QED BY <2>1, <2>2
<1> QED BY <1>3, <1>4

LEMMA AnsweredKeepsStop ==
  ASSUME Inv, Answered, NEW t \in Targets, t \notin forked
  PROVE  StopKept(t)
<1>1. ASSUME NEW i \in Slots, PollMissing(i) \/ PollOver(i) \/ StartUpToDate(i) \/ StartFailed(i)
      PROVE  StopKept(t)
  <2>1. requests[i].target \in Targets
    BY <1>1, AnsweredIsOut DEF Inv, PollMissing, PollOver, StartUpToDate, StartFailed, Kinds
  <2>2. scans' = [scans EXCEPT ![requests[i].target] = NoJob]
    BY <1>1, <2>1, ForgetDoes DEF Inv, PollMissing, PollOver, StartUpToDate, StartFailed
  <2>3. scans'[t] \in {scans[t], NoJob}
    BY <2>1, <2>2 DEF Inv, KnownInv, JobsOK
  <2> QED BY <2>3, SameKeepsStop, GoneKeepsStop
<1>2. ASSUME NEW i \in Slots,
             \/ PollBlip(i) \/ PollUnfollowed(i) \/ ScoreAgain(i) \/ ScoreUnwanted(i)
             \/ StartBusy(i)
      PROVE  StopKept(t)
  BY <1>2, SameKeepsStop DEF PollBlip, PollUnfollowed, ScoreAgain, ScoreUnwanted, StartBusy, Same
<1>3. ASSUME NEW i \in Slots, Discovered(i)
      PROVE  StopKept(t)
  <2>1. CASE requests[i].answer.is = "status" /\ ~IsFollowed(requests[i].target)
    <3>1. requests[i].target \in Targets
      BY <2>1, AnswerNamesAScan DEF Inv
    <3>2. t # requests[i].target => scans'[t] = scans[t]
      BY <1>3, <2>1, <3>1, TrackDoes DEF Inv, KnownInv, JobsOK, Discovered
    <3> QED BY <2>1, <3>2, SameKeepsStop, UnfollowedKeepsStop
  <2>2. CASE ~(requests[i].answer.is = "status" /\ ~IsFollowed(requests[i].target))
    BY <1>3, <2>2, SameKeepsStop DEF Discovered, Same
  <2> QED BY <2>1, <2>2
<1>4. PICK i \in Slots :
        \/ PollMissing(i) \/ PollBlip(i) \/ PollActive(i) \/ PollDone(i) \/ PollOver(i)
        \/ PollUnfollowed(i)
        \/ ScoreAnswered(i) \/ ScoreGivenUp(i) \/ ScoreAgain(i) \/ ScoreUnwanted(i)
        \/ StartQueued(i) \/ StartUpToDate(i) \/ StartBusy(i) \/ Attach(i) \/ StartFailed(i)
        \/ StopFailed(i) \/ StopAnswered(i) \/ Discovered(i)
  BY DEF Answered
<1>5. CASE \/ PollActive(i) \/ PollDone(i) \/ ScoreAnswered(i) \/ ScoreGivenUp(i)
           \/ StartQueued(i) \/ Attach(i) \/ StopFailed(i) \/ StopAnswered(i)
  BY <1>5, PollActiveKeepsStop, PollDoneKeepsStop, ScoreKeepsStop, StartedKeepsStop,
     StopAnswersKeepStop
<1> QED BY <1>1, <1>2, <1>3, <1>4, <1>5

\* Pressing Start on a job that waits for a look begins another one.
LEMMA UserKeepsStop ==
  ASSUME Inv, User, NEW t \in Targets, t \notin forked
  PROVE  StopKept(t)
<1>1. KnownInv /\ Unforked(t)
  BY DEF Inv, TargetInv
<1>2. ASSUME NEW u \in Targets, Acknowledge(u)
      PROVE  StopKept(t)
  <2>1. scans'[t] \in {scans[t], NoJob}
    BY <1>1, <1>2, ForgetDoes DEF Acknowledge, KnownInv, JobsOK
  <2> QED BY <2>1, SameKeepsStop, GoneKeepsStop
<1>3. ASSUME NEW u \in Targets, NEW s \in Scans, Pin(u, s)
      PROVE  StopKept(t)
  <2>1. CASE t # u \/ ~IsFollowed(u)
    BY <1>1, <1>3, <2>1, UpdateDoes, SameKeepsStop DEF Pin, KnownInv, JobsOK
  <2>2. CASE t = u /\ IsFollowed(u)
    <3>1. PICK job : job = [scans[u] EXCEPT !.pinned = s] /\ Update(u, job)
      BY <1>3 DEF Pin
    <3>2. scans[u] \in Tracked
      BY <1>1, <2>2 DEF KnownInv, JobsOK, IsFollowed
    <3>3. job.phase = scans[u].phase /\ job.stopping = scans[u].stopping
      BY <3>1, <3>2 DEF Tracked
    <3>4. scans'[t] = job
      BY <1>1, <2>2, <3>1, UpdateDoes DEF KnownInv, JobsOK
    <3> QED BY <2>2, <3>3, <3>4 DEF StopKept, IsStopping
  <2> QED BY <2>1, <2>2
<1>4. ASSUME NEW u \in Targets, NEW i \in Slots, Start(u, i)
      PROVE  StopKept(t)
  <2>1. scans' = [scans EXCEPT ![u] = Followed(u, None, "queued")]
    BY <1>1, <1>4, TrackDoes DEF Start
  <2>2. CASE t # u
    BY <1>1, <2>1, <2>2, SameKeepsStop DEF KnownInv, JobsOK
  <2>3. CASE t = u /\ IsFollowed(t)
    <3>1. scans[t] \in Tracked
      BY <1>1, <2>3 DEF KnownInv, JobsOK, IsFollowed
    <3>2. scans[t].scan # None
      BY <1>1, <1>4, <2>3 DEF Start, IsJobActive, Unforked, ScanIsDone
    <3>3. scans'[t].scan = None
      BY <1>1, <2>1, <2>3 DEF Followed, KnownInv, JobsOK
    <3> QED BY <3>2, <3>3 DEF StopKept
  <2>4. CASE ~IsFollowed(t)
    BY <2>4, UnfollowedKeepsStop
  <2> QED BY <2>2, <2>3, <2>4
<1>5. ASSUME NEW u \in Targets, NEW i \in Slots, Stop(u, i)
      PROVE  StopKept(t)
  <2>1. PICK job : job = [scans[u] EXCEPT !.stopping = TRUE] /\ Update(u, job)
    BY <1>5 DEF Stop
  <2>2. scans[u] \in Tracked /\ IsFollowed(u)
    BY <1>1, <1>5 DEF Stop, StopOffered, KnownInv, JobsOK, IsFollowed
  <2>3. job.stopping
    BY <2>1, <2>2 DEF Tracked
  <2>4. CASE t = u
    <3>1. scans'[t] = job
      BY <1>1, <2>1, <2>2, <2>4, UpdateDoes DEF KnownInv, JobsOK
    <3> QED BY <2>3, <3>1 DEF StopKept, IsStopping
  <2>5. CASE t # u
    BY <1>1, <2>1, <2>5, UpdateDoes, SameKeepsStop DEF KnownInv, JobsOK
  <2> QED BY <2>4, <2>5
<1>6. ASSUME NEW u \in Targets, NEW i \in Slots, Discover(u, i)
      PROVE  StopKept(t)
  BY <1>6, SameKeepsStop DEF Discover, Same
<1>7. ASSUME NEW w \in Workspaces, SwitchOnServer(w)
      PROVE  StopKept(t)
  BY <1>7, SameKeepsStop DEF SwitchOnServer, Same
<1>8. CASE Reload
  BY <1>8, GoneKeepsStop DEF Reload
<1> QED BY <1>2, <1>3, <1>4, <1>5, <1>6, <1>7, <1>8 DEF User

\* The steps that no question is answered by.
LEMMA OthersKeepStop ==
  ASSUME Inv, Api \/ Clock \/ NoteWorkspace \/ Resume, NEW t \in Targets
  PROVE  StopKept(t)
<1>1. CASE Api \/ NoteWorkspace
  <2>1. UNCHANGED scans
    BY <1>1 DEF Api, StartedElsewhere, Runs, ScoreReady, Ends, ApiOnly, ServePoll,
       ServeActive, ServeScore, ServeStart, ServeStop, Answer, Blip, NoteWorkspace, Same
  <2> QED BY <2>1, SameKeepsStop
<1>2. ASSUME NEW u \in Targets, ScoreWaits(u)
      PROVE  StopKept(t)
  <2>1. PICK job : job = [scans[u] EXCEPT !.wait = "timeout"] /\ scans' = [scans EXCEPT ![u] = job]
    BY <1>2 DEF ScoreWaits
  <2>2. scans[u] \in Tracked
    BY <1>2 DEF ScoreWaits, NoJob, Inv, KnownInv, JobsOK
  <2>3. job.phase = scans[u].phase /\ job.stopping = scans[u].stopping
    BY <2>1, <2>2 DEF Tracked
  <2>4. CASE t = u
    BY <2>1, <2>3, <2>4 DEF StopKept, IsStopping, Inv, KnownInv, JobsOK
  <2>5. CASE t # u
    BY <2>1, <2>5, SameKeepsStop DEF Inv, KnownInv, JobsOK
  <2> QED BY <2>4, <2>5
<1>3. CASE Clock
  BY <1>2, <1>3, SameKeepsStop DEF Clock, DiscoverStale, Tick, Same
<1>4. CASE Resume
  <2>1. scans'[t] = ResumedJobs[t]
    BY <1>4, ResumeDoes DEF ResumedJobs, Changed, Same
  <2>2. CASE t \in Again
    BY <2>2, UnfollowedKeepsStop DEF Again
  <2>3. CASE t \notin Again
    BY <2>1, <2>3, SameKeepsStop DEF ResumedJobs
  <2> QED BY <2>2, <2>3
<1> QED BY <1>1, <1>3, <1>4

\* The branches that were asked about twice are remembered.
LEMMA ForkedGrows ==
  ASSUME Inv, Next
  PROVE  forked \subseteq forked'
<1>1. CASE Api
  BY <1>1 DEF Api, StartedElsewhere, Runs, ScoreReady, Ends, ApiOnly, ServePoll,
     ServeActive, ServeScore, ServeStart, ServeStop, Answer, Blip
<1>2. CASE Answered
  BY <1>2 DEF Answered, PollMissing, PollBlip, PollActive, PollDone, PollOver, PollUnfollowed,
     ScoreAnswered, ScoreGivenUp, ScoreAgain, ScoreUnwanted, StartQueued, StartUpToDate,
     StartBusy, Attach, StartFailed, StopFailed, StopAnswered, Discovered, Schedule
<1>3. CASE User \/ Clock \/ NoteWorkspace \/ Resume
  BY <1>3 DEF User, Acknowledge, Pin, Start, Stop, Discover, SwitchOnServer, Reload, Clock,
     DiscoverStale, ScoreWaits, Tick, NoteWorkspace, Resume
<1> QED BY <1>1, <1>2, <1>3 DEF Next

\* "finished" is said of a scan that is done, unless its branch was asked about twice.
THEOREM FinishedMeansDone == Spec => []FinishedMeansDoneUnlessForked
<1>1. Init => FinishedMeansDoneUnlessForked
  BY DEF Init, NoEvent, FinishedMeansDoneUnlessForked
<1>2. Inv /\ FinishedMeansDoneUnlessForked /\ [Next]_vars => FinishedMeansDoneUnlessForked'
  <2> SUFFICES ASSUME Inv, FinishedMeansDoneUnlessForked, [Next]_vars
               PROVE  FinishedMeansDoneUnlessForked'
    OBVIOUS
  <2>1. CASE Next
    BY <2>1, OnlyScoresFinish, FinishIsTrue DEF FinishedMeansDoneUnlessForked
  <2>2. CASE UNCHANGED vars
    BY <2>2 DEF vars, FinishedMeansDoneUnlessForked
  <2> QED BY <2>1, <2>2
<1> QED BY <1>1, <1>2, InvHolds, PTL DEF Spec

\* Once shown, a stop stays shown until the scan ends or the stop fails, whatever
\* polls were out when it was pressed.
THEOREM StopsStayShown == Spec => StopStaysShown
<1> DEFINE Kept == \A t \in Targets \ forked' :
                     IsStopping(t) /\ scans'[t].job = "scanning" /\ scans'[t].scan = scans[t].scan
                     => IsStopping(t)' \/ said'.type = "stop-failed"
<1>1. Inv /\ [Next]_vars => [Kept]_vars
  <2> SUFFICES ASSUME Inv, Next
               PROVE  Kept
    OBVIOUS
  <2>1. ASSUME NEW t \in Targets \ forked'
        PROVE  StopKept(t)
    BY <2>1, ForkedGrows, OthersKeepStop, AnsweredKeepsStop, UserKeepsStop DEF Next
  <2> QED BY <2>1 DEF StopKept
<1> QED BY <1>1, InvHolds, PTL DEF Spec, StopStaysShown
=============================================================================
