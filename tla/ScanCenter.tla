----------------------------- MODULE ScanCenter -----------------------------
(***************************************************************************)
(* The scans one browser tab follows (hooks/use-scan-center.ts): one job   *)
(* per branch of a project, held above the pages, with a timer that polls  *)
(* the API, and the requests that are out.  JavaScript runs one callback at *)
(* a time, so an action is what happens between two awaits; everything     *)
(* else is interleaving: an answer may come after the job it was asked for *)
(* has been stopped, replaced or forgotten, after the user went to another *)
(* workspace, or not at all.                                               *)
(*                                                                         *)
(* The API is the environment: a scan is queued, runs and ends by itself,  *)
(* its score becomes ready later, and a session reads one workspace at a   *)
(* time.  Progress in percent is left to ScanBar.                          *)
(***************************************************************************)
EXTENDS Integers, FiniteSets

CONSTANTS Targets,       \* the branches of projects a scan can be started on
          Workspaces,
          WorkspaceOf,   \* the workspace a target's project belongs to
          Scans,         \* the scan ids, in the order they are given out
          TargetOf,      \* the target a scan id is given out for
          MaxRequests,   \* requests that are out at the same time
          MaxBlips,      \* answers the network loses
          MaxSwitches,   \* workspace switches
          MaxReloads     \* refreshes of the page

ASSUME ScanCenterAssumption ==
  /\ WorkspaceOf \in [Targets -> Workspaces]
  /\ Scans \subseteq Nat \ {0}
  /\ TargetOf \in [Scans -> Targets]
  /\ MaxRequests \in Nat /\ MaxBlips \in Nat
  /\ MaxSwitches \in Nat /\ MaxReloads \in Nat

VARIABLES server,     \* the API: where each scan id is
          scored,     \* the API: the finished scans whose score is ready
          session,    \* the API: the workspace this session reads
          here,       \* activeWorkspaceId: the workspace the tab thinks it reads
          resumeDue,  \* the effect that resumes this workspace's scans has not run
          scans,      \* the jobs the tab follows
          timers,     \* the jobs with a pending timeout
          requests,   \* what is out, and the answer once the API has given it
          saved,      \* sessionStorage: the scan ids to resume after a refresh
          discovered, \* the targets asked about in the last seconds
          said,       \* the event this step emitted, if any
          forked,     \* history: the targets that were asked about twice at once
          blips, switches, reloads

apiVars == <<server, scored>>
vars == <<server, scored, session, here, resumeDue, scans, timers, requests,
          saved, discovered, said, forked, blips, switches, reloads>>

None    == 0
Unknown == "unknown"    \* activeWorkspaceId before the session has answered
Slots   == 1..MaxRequests

(***************************************************************************)
(* "stopping" is phase running with cancel_requested.                      *)
(***************************************************************************)
Active     == {"queued", "running", "stopping"}
Ended      == {"done", "failed", "cancelled"}
Phases     == Active \cup Ended
Jobs       == {"scanning", "scoring", "ready"}
Waits      == {"short", "timeout"}
Tracked    == [scan : Scans \cup {None}, phase : Phases, job : Jobs,
               stopping : BOOLEAN, pinned : Scans \cup {None}, wait : Waits]
NoJob      == [scan |-> None, phase |-> "none", job |-> "none",
               stopping |-> FALSE, pinned |-> None, wait |-> "short"]
NoEvent    == [type |-> "none", target |-> None, scan |-> None]
EventTypes == {"queued", "attached", "finished", "up-to-date", "cancelled",
               "failed", "start-failed", "stop-failed"}

Kinds    == {"poll", "score", "start", "attach", "stop", "discover"}
NoAnswer == [is |-> "awaited", scan |-> None, phase |-> "none"]
Answers  == [is : {"awaited", "blip", "missing", "refused", "busy", "pending", "nothing"},
             scan : {None}, phase : {"none"}]
            \cup [is : {"status"}, scan : Scans, phase : Phases]
            \cup [is : {"report"}, scan : Scans, phase : {"none"}]
Request  == [kind : Kinds, target : Targets, scan : Scans \cup {None}, answer : Answers]
Free     == [kind |-> "free", target |-> None, scan |-> None, answer |-> NoAnswer]

Ans(is)          == [is |-> is, scan |-> None, phase |-> "none"]
Status(s, phase) == [is |-> "status", scan |-> s, phase |-> phase]
Report(s)        == [is |-> "report", scan |-> s, phase |-> "none"]
Event(type, t, s) == [type |-> type, target |-> t, scan |-> s]

IsFollowed(t)  == scans[t] # NoJob
IsJobActive(j) == j.job # "ready"
IsStopping(t)  == scans[t].stopping \/ scans[t].phase = "stopping"

\* The polls and score reads of t that are out, other than slot i.
OutFor(t, i) == {k \in Slots \ {i} : /\ requests[k].kind \in {"poll", "score"}
                                     /\ requests[k].target = t}
\* A new job begins while something about the last one is out.
Overlaps(t, i) == \E k \in Slots \ {i} : requests[k].target = t

(***************************************************************************)
(* The store.                                                              *)
(***************************************************************************)
\* persist: every change of the jobs saves the active ones that have an id,
\* and only those.
Persist(jobs) ==
  saved' = [t \in Targets |->
              IF jobs[t] # NoJob /\ IsJobActive(jobs[t]) THEN jobs[t].scan ELSE None]

Changed(jobs) == scans' = jobs /\ Persist(jobs)

Same == UNCHANGED <<scans, saved>>

\* Mutant: a followed scan keeps what the record said before.
FollowedKeepingJob(t, s, phase) ==
  [scans[t] EXCEPT !.scan = s, !.phase = phase, !.wait = "short"]

\* track: a new scan id is a new job; a job without an id becomes that scan.
Followed(t, s, phase) ==
  LET old  == scans[t]
      same == IsFollowed(t) /\ old.scan \in {None, s}
  IN  [scan |-> s, phase |-> phase, job |-> "scanning",
       stopping |-> same /\ old.stopping,
       pinned |-> IF same THEN old.pinned ELSE None,
       wait |-> "short"]

Track(t, s, phase) == Changed([scans EXCEPT ![t] = Followed(t, s, phase)])

\* update: a patch for a job that is still followed.
Update(t, job) ==
  IF IsFollowed(t) THEN Changed([scans EXCEPT ![t] = job]) ELSE Same

\* forget: the timer goes too, what is out stays out.
Forget(t) ==
  /\ timers' = timers \ {t}
  /\ IF IsFollowed(t) THEN Changed([scans EXCEPT ![t] = NoJob]) ELSE Same

\* schedule: at most one timeout; i is the request that is being answered.
Schedule(t, i) ==
  /\ timers' = timers \cup {t}
  /\ forked' = IF OutFor(t, i) = {} THEN forked ELSE forked \cup {t}

Emit(type, t, s) == said' = Event(type, t, s)

Send(i, kind, t, s) ==
  requests' = [requests EXCEPT ![i] = [kind |-> kind, target |-> t, scan |-> s,
                                       answer |-> NoAnswer]]
Done(i) == requests' = [requests EXCEPT ![i] = Free]

\* The slot a new request takes.
IsNext(i) == /\ requests[i] = Free
             /\ \A k \in Slots : k < i => requests[k] # Free

Untold == said' = NoEvent
Rest   == UNCHANGED <<server, scored, session, here, resumeDue, discovered,
                      blips, switches, reloads>>

Init ==
  /\ server = [s \in Scans |-> "none"]
  /\ scored = {}
  /\ session \in Workspaces /\ here = Unknown /\ resumeDue = FALSE
  /\ scans = [t \in Targets |-> NoJob] /\ timers = {}
  /\ requests = [i \in Slots |-> Free]
  /\ saved = [t \in Targets |-> None] /\ discovered = {}
  /\ said = NoEvent /\ forked = {}
  /\ blips = 0 /\ switches = 0 /\ reloads = 0

(***************************************************************************)
(* The API.                                                                *)
(***************************************************************************)
OfTarget(t)   == {s \in Scans : TargetOf[s] = t}
ActiveOf(t)   == {s \in OfTarget(t) : server[s] \in Active}
FinishedOf(t) == {s \in OfTarget(t) : server[s] = "done"}
IsLatest(s)   == /\ s \in FinishedOf(TargetOf[s])
                 /\ \A u \in FinishedOf(TargetOf[s]) : u <= s
IsFresh(s)    == /\ server[s] = "none"
                 /\ \A u \in OfTarget(TargetOf[s]) : u < s => server[u] # "none"
                 /\ ActiveOf(TargetOf[s]) = {}

ApiOnly == /\ UNCHANGED <<session, here, resumeDue, scans, timers, requests, saved,
                          discovered, forked, blips, switches, reloads>>
           /\ Untold

\* Another tab or a teammate starts a scan.
StartedElsewhere(s) ==
  /\ IsFresh(s)
  /\ server' = [server EXCEPT ![s] = "queued"]
  /\ UNCHANGED scored /\ ApiOnly

Runs(s) ==
  /\ server[s] = "queued"
  /\ server' = [server EXCEPT ![s] = "running"]
  /\ UNCHANGED scored /\ ApiOnly

\* A stop that comes during finalization is too late: the scan is done.
Ends(s, phase) ==
  /\ server[s] \in {"running", "stopping"}
  /\ phase = "cancelled" => server[s] = "stopping"
  /\ server' = [server EXCEPT ![s] = phase]
  /\ UNCHANGED scored /\ ApiOnly

ScoreReady(s) ==
  /\ server[s] = "done" /\ s \notin scored
  /\ scored' = scored \cup {s}
  /\ UNCHANGED server /\ ApiOnly

Answer(i, answer) ==
  /\ requests' = [requests EXCEPT ![i].answer = answer]
  /\ UNCHANGED <<scored, session, here, resumeDue, scans, timers, saved, discovered,
                 forked, blips, switches, reloads>>
  /\ Untold

IsOut(i, kinds)  == requests[i].kind \in kinds /\ requests[i].answer = NoAnswer
Elsewhere(t)     == WorkspaceOf[t] # session

\* GET a scan: one of another workspace is answered 404; without an id it is no
\* question the API knows.
ServePoll(i) ==
  LET r == requests[i] IN
  /\ IsOut(i, {"poll"})
  /\ Answer(i, IF r.scan = None THEN Ans("refused")
               ELSE IF Elsewhere(r.target) THEN Ans("missing")
               ELSE Status(r.scan, server[r.scan]))
  /\ UNCHANGED server

\* GET the active scan of a branch, or nothing.
ServeActive(i) ==
  LET t == requests[i].target IN
  /\ IsOut(i, {"attach", "discover"})
  /\ \/ /\ Elsewhere(t) \/ ActiveOf(t) = {}
        /\ Answer(i, Ans("nothing"))
     \/ /\ ~Elsewhere(t)
        /\ \E s \in ActiveOf(t) : Answer(i, Status(s, server[s]))
  /\ UNCHANGED server

\* GET the latest report: refused before the first scan, pending until scored.
ServeScore(i) ==
  LET t == requests[i].target IN
  /\ IsOut(i, {"score"})
  /\ \/ /\ Elsewhere(t) \/ FinishedOf(t) = {}
        /\ Answer(i, Ans("refused"))
     \/ \E s \in FinishedOf(t) : /\ IsLatest(s) /\ ~Elsewhere(t)
                                 /\ Answer(i, IF s \in scored THEN Report(s)
                                                              ELSE Ans("pending"))
  /\ UNCHANGED server

\* POST a scan: queued, or the last one again when nothing is new on the branch,
\* or refused because one is running or the queue is full.
ServeStart(i) ==
  LET t == requests[i].target IN
  /\ IsOut(i, {"start"})
  /\ \/ Answer(i, Ans("refused")) /\ UNCHANGED server
     \/ /\ ~Elsewhere(t) /\ ActiveOf(t) # {}
        /\ Answer(i, Ans("busy")) /\ UNCHANGED server
     \/ /\ ~Elsewhere(t) /\ ActiveOf(t) = {}
        /\ \E s \in FinishedOf(t) : IsLatest(s) /\ Answer(i, Status(s, "done"))
        /\ UNCHANGED server
     \/ /\ ~Elsewhere(t)
        /\ \E s \in OfTarget(t) : /\ IsFresh(s)
                                  /\ server' = [server EXCEPT ![s] = "queued"]
                                  /\ Answer(i, Status(s, "queued"))

\* POST a stop: a queued scan is cancelled by the call, a running one is flagged.
ServeStop(i) ==
  LET r    == requests[i]
      next == IF server[r.scan] = "queued" THEN "cancelled" ELSE "stopping"
  IN  /\ IsOut(i, {"stop"})
      /\ \/ /\ Elsewhere(r.target) \/ server[r.scan] \in Ended
            /\ Answer(i, Ans("refused")) /\ UNCHANGED server
         \/ /\ ~Elsewhere(r.target) /\ server[r.scan] \in Active
            /\ server' = [server EXCEPT ![r.scan] = next]
            /\ Answer(i, Status(r.scan, next))

\* The request or its answer is lost on the way.
Blip(i) ==
  /\ blips < MaxBlips
  /\ requests[i] # Free /\ requests[i].answer.is # "blip"
  /\ requests' = [requests EXCEPT ![i].answer = Ans("blip")]
  /\ blips' = blips + 1
  /\ UNCHANGED <<server, scored, session, here, resumeDue, scans, timers, saved,
                 discovered, forked, switches, reloads>>
  /\ Untold

(***************************************************************************)
(* Polling.                                                                *)
(***************************************************************************)
\* The timeout fires: ask about the score, or about the scan (also of a job that waits for a look,
\* should a timeout be left), unless the session reads another workspace now.
Tick(t, i) ==
  LET job == scans[t] IN
  /\ t \in timers /\ IsNext(i)
  /\ timers' = timers \ {t}
  /\ IF IsFollowed(t) /\ here = WorkspaceOf[t]
       THEN Send(i, IF job.job = "scoring" THEN "score" ELSE "poll", t, job.scan)
       ELSE UNCHANGED requests
  /\ Same /\ Untold /\ UNCHANGED forked /\ Rest

\* A read of the score from inside another callback, in that callback's slot.
AwaitScore(t, i) ==
  IF here = WorkspaceOf[t] THEN Send(i, "score", t, None) ELSE Done(i)

PollMissing(i) ==
  LET t == requests[i].target IN
  /\ requests[i].kind = "poll" /\ requests[i].answer.is = "missing"
  /\ Forget(t) /\ Done(i)
  /\ Untold /\ UNCHANGED forked /\ Rest

\* Mutant: a lost answer ends the chain.
PollBlipGivesUp(i) ==
  /\ requests[i].kind = "poll" /\ requests[i].answer.is \in {"blip", "refused"}
  /\ Done(i)
  /\ Same /\ Untold /\ UNCHANGED <<timers, forked>> /\ Rest

PollBlip(i) ==
  LET t == requests[i].target IN
  /\ requests[i].kind = "poll" /\ requests[i].answer.is \in {"blip", "refused"}
  /\ Schedule(t, i) /\ Done(i)
  /\ Same /\ Untold /\ Rest

\* Mutant: only a scan that runs is asked about again.
PollActiveOnce(i) ==
  LET t == requests[i].target
      a == requests[i].answer
  IN  /\ requests[i].kind = "poll" /\ a.is = "status" /\ a.phase \in Active
      /\ IsFollowed(t)
      /\ Update(t, [scans[t] EXCEPT !.scan = a.scan, !.phase = a.phase])
      /\ IF a.phase = "queued" THEN UNCHANGED <<timers, forked>> ELSE Schedule(t, i)
      /\ Done(i)
      /\ Untold /\ Rest

\* Mutant: the next question goes out at once, and the timeout is set as well.
PollActiveTwice(i) ==
  LET t == requests[i].target
      a == requests[i].answer
  IN  /\ requests[i].kind = "poll" /\ a.is = "status" /\ a.phase \in Active
      /\ IsFollowed(t)
      /\ Update(t, [scans[t] EXCEPT !.scan = a.scan, !.phase = a.phase])
      /\ Schedule(t, i) /\ Send(i, "poll", t, a.scan)
      /\ Untold /\ Rest

\* Mutant: the job is rebuilt from what the poll says.
PollActiveForgetsStop(i) ==
  LET t == requests[i].target
      a == requests[i].answer
  IN  /\ requests[i].kind = "poll" /\ a.is = "status" /\ a.phase \in Active
      /\ IsFollowed(t)
      /\ Update(t, [scans[t] EXCEPT !.scan = a.scan, !.phase = a.phase, !.stopping = FALSE])
      /\ Schedule(t, i) /\ Done(i)
      /\ Untold /\ Rest

\* What a poll says about a job that is still followed, whichever scan it is now.
PollActive(i) ==
  LET t == requests[i].target
      a == requests[i].answer
  IN  /\ requests[i].kind = "poll" /\ a.is = "status" /\ a.phase \in Active
      /\ IsFollowed(t)
      /\ Update(t, [scans[t] EXCEPT !.scan = a.scan, !.phase = a.phase])
      /\ Schedule(t, i) /\ Done(i)
      /\ Untold /\ Rest

\* Mutant: a scan that failed goes on to its score like one that is done.
PollDoneForAnyEnd(i) ==
  LET t == requests[i].target
      a == requests[i].answer
  IN  /\ requests[i].kind = "poll" /\ a.is = "status" /\ a.phase \in Ended
      /\ IsFollowed(t)
      /\ Update(t, [scans[t] EXCEPT !.scan = a.scan, !.phase = a.phase, !.job = "scoring"])
      /\ AwaitScore(t, i)
      /\ UNCHANGED timers /\ Untold /\ UNCHANGED forked /\ Rest

\* beginScoring: keep what is on screen and ask for the score at once.
PollDone(i) ==
  LET t   == requests[i].target
      a   == requests[i].answer
      job == [scans[t] EXCEPT !.scan = a.scan, !.phase = a.phase]
  IN  /\ requests[i].kind = "poll" /\ a.is = "status" /\ a.phase = "done"
      /\ IsFollowed(t)
      /\ \E latest \in {None} \cup (scored \cap OfTarget(t)) :
           Update(t, IF job.job = "scoring" THEN job
                     ELSE [job EXCEPT !.job = "scoring", !.wait = "short",
                                      !.pinned = IF @ # None THEN @ ELSE latest])
      /\ AwaitScore(t, i)
      /\ UNCHANGED timers /\ Untold /\ UNCHANGED forked /\ Rest

PollOver(i) ==
  LET t == requests[i].target
      a == requests[i].answer
  IN  /\ requests[i].kind = "poll" /\ a.is = "status"
      /\ a.phase \in {"failed", "cancelled"}
      /\ IsFollowed(t)
      /\ Forget(t) /\ Done(i)
      /\ Emit(a.phase, t, a.scan)
      /\ UNCHANGED forked /\ Rest

PollUnfollowed(i) ==
  /\ requests[i].kind = "poll" /\ requests[i].answer.is = "status"
  /\ ~IsFollowed(requests[i].target)
  /\ Done(i)
  /\ Same /\ Untold /\ UNCHANGED <<timers, forked>> /\ Rest

(***************************************************************************)
(* The score.                                                              *)
(***************************************************************************)
\* finishJob: with older results on screen the job waits for a look.
FinishJob(t, report) ==
  LET job   == scans[t]
      waits == job.pinned # None /\ report # None /\ job.pinned # report
  IN  IF IsFollowed(t)
      THEN /\ timers' = timers \ {t}
           /\ Changed([scans EXCEPT ![t] = IF waits THEN [job EXCEPT !.job = "ready"]
                                                    ELSE NoJob])
           /\ Emit("finished", t, job.scan)
      ELSE Same /\ Untold /\ UNCHANGED timers

ScoreAnswered(i) ==
  LET r == requests[i] IN
  /\ r.kind = "score" /\ r.answer.is = "report"
  /\ FinishJob(r.target, r.answer.scan) /\ Done(i)
  /\ UNCHANGED forked /\ Rest

\* A real answer that is not a report, or a score that took too long.
ScoreGivenUp(i) ==
  LET t == requests[i].target
      a == requests[i].answer.is
  IN  /\ requests[i].kind = "score"
      /\ a = "refused" \/ (a = "pending" /\ scans[t].wait = "timeout")
      /\ scans[t].job = "scoring"
      /\ FinishJob(t, None) /\ Done(i)
      /\ UNCHANGED forked /\ Rest

ScoreAgain(i) ==
  LET t == requests[i].target
      a == requests[i].answer.is
  IN  /\ requests[i].kind = "score"
      /\ a = "blip" \/ (a = "pending" /\ scans[t].wait # "timeout")
      /\ scans[t].job = "scoring"
      /\ Schedule(t, i) /\ Done(i)
      /\ Same /\ Untold /\ Rest

ScoreUnwanted(i) ==
  LET r == requests[i] IN
  /\ r.kind = "score" /\ r.answer.is \in {"refused", "pending", "blip"}
  /\ scans[r.target].job # "scoring"
  /\ Done(i)
  /\ Same /\ Untold /\ UNCHANGED <<timers, forked>> /\ Rest

\* Time passes for a job whose score is not ready.
ScoreWaits(t) ==
  /\ scans[t].job = "scoring" /\ scans[t].wait # "timeout"
  /\ scans' = [scans EXCEPT ![t].wait = "timeout"]
  /\ UNCHANGED <<saved, timers, requests, forked>> /\ Untold /\ Rest

(***************************************************************************)
(* What the user does.                                                     *)
(***************************************************************************)
\* startScan, from a dashboard or from a toast's "Try again".
Start(t, i) ==
  /\ here # Unknown
  /\ ~(IsFollowed(t) /\ IsJobActive(scans[t]))
  /\ IsNext(i)
  /\ Track(t, None, "queued")
  /\ Send(i, "start", t, None)
  /\ Emit("queued", t, None)
  /\ forked' = IF Overlaps(t, i) THEN forked \cup {t} ELSE forked
  /\ UNCHANGED timers /\ Rest

StartQueued(i) ==
  LET t == requests[i].target
      a == requests[i].answer
  IN  /\ requests[i].kind = "start" /\ a.is = "status" /\ a.phase # "done"
      /\ Track(t, a.scan, a.phase) /\ Schedule(t, i) /\ Done(i)
      /\ Untold /\ Rest

StartUpToDate(i) ==
  LET t == requests[i].target
      a == requests[i].answer
  IN  /\ requests[i].kind = "start" /\ a.is = "status" /\ a.phase = "done"
      /\ Forget(t) /\ Done(i)
      /\ Emit("up-to-date", t, a.scan)
      /\ UNCHANGED forked /\ Rest

\* One is running already: find it and follow that one.
StartBusy(i) ==
  LET t == requests[i].target IN
  /\ requests[i].kind = "start" /\ requests[i].answer.is = "busy"
  /\ Send(i, "attach", t, None)
  /\ Same /\ Untold /\ UNCHANGED <<timers, forked>> /\ Rest

Attach(i) ==
  LET t == requests[i].target
      a == requests[i].answer
  IN  /\ requests[i].kind = "attach" /\ a.is = "status"
      /\ Track(t, a.scan, a.phase) /\ Schedule(t, i) /\ Done(i)
      /\ Emit("attached", t, a.scan)
      /\ Rest

StartFailed(i) ==
  LET r == requests[i] IN
  /\ r.kind \in {"start", "attach"}
  /\ r.answer.is \in {"refused", "blip", "nothing"}
  /\ Forget(r.target) /\ Done(i)
  /\ Emit("start-failed", r.target, None)
  /\ UNCHANGED forked /\ Rest

\* The card offers Stop for a scan with an id that this workspace shows.
StopOffered(t) ==
  /\ IsFollowed(t) /\ here = WorkspaceOf[t]
  /\ scans[t].job = "scanning" /\ scans[t].phase \in Active
  /\ ~IsStopping(t)
  /\ scans[t].scan # None

Stop(t, i) ==
  /\ StopOffered(t) /\ IsNext(i)
  /\ Update(t, [scans[t] EXCEPT !.stopping = TRUE])
  /\ Send(i, "stop", t, scans[t].scan)
  /\ Untold /\ UNCHANGED <<timers, forked>> /\ Rest

StopFailed(i) ==
  LET r == requests[i] IN
  /\ r.kind = "stop" /\ r.answer.is \in {"refused", "blip"}
  /\ Update(r.target, [scans[r.target] EXCEPT !.stopping = FALSE])
  /\ IF IsFollowed(r.target) THEN Emit("stop-failed", r.target, scans[r.target].scan)
                             ELSE Untold
  /\ Done(i)
  /\ UNCHANGED <<timers, forked>> /\ Rest

StopAnswered(i) ==
  LET t == requests[i].target
      a == requests[i].answer
  IN  /\ requests[i].kind = "stop" /\ a.is = "status"
      /\ IF a.phase = "cancelled"
         THEN /\ Forget(t)
              /\ IF IsFollowed(t) THEN Emit("cancelled", t, a.scan) ELSE Untold
         ELSE /\ Update(t, [scans[t] EXCEPT !.scan = a.scan, !.phase = a.phase])
              /\ Untold /\ UNCHANGED timers
      /\ Done(i)
      /\ UNCHANGED forked /\ Rest

\* "Show them".
Acknowledge(t) ==
  /\ scans[t].job = "ready"
  /\ Forget(t)
  /\ Untold /\ UNCHANGED <<requests, forked>> /\ Rest

\* The dashboard pins the latest report it shows while a scan runs.
Pin(t, s) ==
  /\ scans[t].job = "scanning" /\ scans[t].pinned = None /\ here = WorkspaceOf[t]
  /\ s \in scored \cap OfTarget(t)
  /\ Update(t, [scans[t] EXCEPT !.pinned = s])
  /\ Untold /\ UNCHANGED <<timers, requests, forked>> /\ Rest

\* The dashboard looks for a scan nobody in this tab started; an answer that is
\* seconds old is not asked for again.
Discover(t, i) ==
  /\ here = WorkspaceOf[t] /\ ~IsFollowed(t) /\ t \notin discovered
  /\ IsNext(i)
  /\ discovered' = discovered \cup {t}
  /\ Send(i, "discover", t, None)
  /\ Same /\ Untold
  /\ UNCHANGED <<server, scored, session, here, resumeDue, timers, forked,
                 blips, switches, reloads>>

Discovered(i) ==
  LET t == requests[i].target
      a == requests[i].answer
  IN  /\ requests[i].kind = "discover" /\ a # NoAnswer
      /\ IF a.is = "status" /\ ~IsFollowed(t)
         THEN /\ Track(t, a.scan, a.phase)
              /\ timers' = timers \cup {t}
              /\ forked' = IF Overlaps(t, i) THEN forked \cup {t} ELSE forked
         ELSE Same /\ UNCHANGED <<timers, forked>>
      /\ Done(i)
      /\ Untold /\ Rest

DiscoverStale(t) ==
  /\ t \in discovered
  /\ discovered' = discovered \ {t}
  /\ UNCHANGED <<server, scored, session, here, resumeDue, scans, timers, requests,
                 saved, forked, blips, switches, reloads>>
  /\ Untold

(***************************************************************************)
(* Workspaces and refreshes.                                               *)
(***************************************************************************)
Unmoved == UNCHANGED <<server, scored, requests, discovered, blips>> /\ Untold

\* The API switches first; the tab learns it from the answer.
SwitchOnServer(w) ==
  /\ switches < MaxSwitches /\ here = session /\ w # session
  /\ session' = w /\ switches' = switches + 1
  /\ UNCHANGED <<here, resumeDue, timers, forked, reloads>> /\ Same /\ Unmoved

\* The session's answer, after a switch or a refresh, is noted; the effect is due.
NoteWorkspace ==
  /\ here # session
  /\ here' = session /\ resumeDue' = TRUE
  /\ UNCHANGED <<session, timers, forked, switches, reloads>> /\ Same /\ Unmoved

\* resumeScans: follow what was saved for this workspace, and poll its jobs.
Resume ==
  LET mine    == {t \in Targets : WorkspaceOf[t] = here}
      again   == {t \in mine : saved[t] # None /\ ~IsFollowed(t)}
      jobs    == [t \in Targets |->
                    IF t \in again THEN Followed(t, saved[t], "running") ELSE scans[t]]
      polled  == {t \in mine : /\ jobs[t] # NoJob /\ jobs[t].scan # None
                               /\ IsJobActive(jobs[t])}
  IN  /\ resumeDue /\ resumeDue' = FALSE
      /\ IF again # {} THEN Changed(jobs) ELSE Same
      /\ timers' = timers \cup polled
      /\ forked' = forked \cup {t \in polled : OutFor(t, None) # {}}
      /\ UNCHANGED <<session, here, switches, reloads>> /\ Unmoved

\* A refresh empties the tab's memory; what is out is never answered.
Reload ==
  /\ reloads < MaxReloads /\ reloads' = reloads + 1
  /\ here' = Unknown /\ resumeDue' = FALSE
  /\ scans' = [t \in Targets |-> NoJob] /\ timers' = {}
  /\ requests' = [i \in Slots |-> Free]
  /\ discovered' = {}
  /\ UNCHANGED <<server, scored, session, saved, forked, blips, switches>>
  /\ Untold

Api == \/ \E s \in Scans : \/ StartedElsewhere(s) \/ Runs(s) \/ ScoreReady(s)
                           \/ \E phase \in Ended : Ends(s, phase)
       \/ \E i \in Slots : \/ ServePoll(i) \/ ServeActive(i) \/ ServeScore(i)
                           \/ ServeStart(i) \/ ServeStop(i) \/ Blip(i)

Answered == \E i \in Slots :
  \/ PollMissing(i) \/ PollBlip(i) \/ PollActive(i) \/ PollDone(i) \/ PollOver(i)
  \/ PollUnfollowed(i)
  \/ ScoreAnswered(i) \/ ScoreGivenUp(i) \/ ScoreAgain(i) \/ ScoreUnwanted(i)
  \/ StartQueued(i) \/ StartUpToDate(i) \/ StartBusy(i) \/ Attach(i) \/ StartFailed(i)
  \/ StopFailed(i) \/ StopAnswered(i) \/ Discovered(i)

User == \/ \E t \in Targets : \/ Acknowledge(t)
                              \/ \E s \in Scans : Pin(t, s)
                              \/ \E i \in Slots : Start(t, i) \/ Stop(t, i) \/ Discover(t, i)
        \/ \E w \in Workspaces : SwitchOnServer(w)
        \/ Reload

Clock == \E t \in Targets : \/ DiscoverStale(t) \/ ScoreWaits(t)
                            \/ \E i \in Slots : Tick(t, i)

Next == Api \/ Answered \/ User \/ Clock \/ NoteWorkspace \/ Resume

Spec == Init /\ [][Next]_vars

\* The network answers, the API gets on, timeouts fire, effects run; the user
\* need not do anything.  Strong fairness for the timeout: a browser has no slots
\* that pressing Stop again and again could keep from it.
FairSpec ==
  /\ Spec
  /\ \A i \in Slots :
       /\ WF_vars(ServePoll(i) \/ ServeActive(i) \/ ServeScore(i) \/ ServeStart(i) \/ ServeStop(i))
       /\ WF_vars(\/ PollMissing(i) \/ PollBlip(i) \/ PollActive(i) \/ PollDone(i) \/ PollOver(i)
                  \/ PollUnfollowed(i) \/ ScoreAnswered(i) \/ ScoreGivenUp(i) \/ ScoreAgain(i)
                  \/ ScoreUnwanted(i) \/ StartQueued(i) \/ StartUpToDate(i) \/ StartBusy(i)
                  \/ Attach(i) \/ StartFailed(i) \/ StopFailed(i) \/ StopAnswered(i) \/ Discovered(i))
  /\ \A t \in Targets : /\ SF_vars(\E i \in Slots : Tick(t, i))
                         /\ WF_vars(ScoreWaits(t))
  /\ \A s \in Scans : /\ WF_vars(Runs(s))
                       /\ WF_vars(\E phase \in Ended : Ends(s, phase))
  /\ WF_vars(NoteWorkspace) /\ WF_vars(Resume)

-----------------------------------------------------------------------------
\* Every variable has its type.
TypeOK ==
  /\ server \in [Scans -> Phases \cup {"none"}]
  /\ scored \subseteq Scans
  /\ session \in Workspaces /\ here \in Workspaces \cup {Unknown}
  /\ resumeDue \in BOOLEAN
  /\ scans \in [Targets -> Tracked \cup {NoJob}]
  /\ timers \subseteq Targets
  /\ requests \in [Slots -> Request \cup {Free}]
  /\ saved \in [Targets -> Scans \cup {None}]
  /\ discovered \subseteq Targets
  /\ said \in [type : EventTypes, target : Targets, scan : Scans \cup {None}] \cup {NoEvent}
  /\ forked \subseteq Targets
  /\ blips \in Nat /\ switches \in Nat /\ reloads \in Nat

\* A job of the workspace on screen is never left alone: unless it waits for a
\* look, its timeout is pending or a question whose answer decides about it is out
\* (schedule, poll and awaitScore return early on a workspace that is not read;
\* resumeScans starts them again).
NothingGoesUnpolled ==
  \A t \in Targets :
    (/\ IsFollowed(t) /\ scans[t].scan # None /\ IsJobActive(scans[t])
     /\ here = WorkspaceOf[t] /\ ~resumeDue)
    => \/ t \in timers
       \/ \E i \in Slots : /\ requests[i].kind \in {"poll", "score", "start", "attach"}
                           /\ requests[i].target = t

\* One chain of polls per scan, however many screens show it: as long as no job
\* was started or resumed while an older question about the same branch was out,
\* there is one timeout or one question, not both and not two.
OneChainUnlessForked ==
  \A t \in Targets \ forked :
    /\ t \in timers => OutFor(t, None) = {}
    /\ \A i, k \in OutFor(t, None) : i = k

\* "finished" says that the scan it names is done, unless two questions about the
\* same branch were out (finishJob finishes whatever is followed by then).
FinishedMeansDoneUnlessForked ==
  said.type = "finished" /\ said.target \notin forked => server[said.scan] = "done"

\* Once shown, a stop stays shown until the scan ends, unless the stop failed: a
\* poll that was out when Stop was pressed must not bring "Scanning" back.
StopStaysShown ==
  [][\A t \in Targets \ forked' :
       IsStopping(t) /\ scans'[t].job = "scanning" /\ scans'[t].scan = scans[t].scan
       => IsStopping(t)' \/ said'.type = "stop-failed"]_vars

\* A scan that is followed on screen is settled: it ends, or is no longer followed,
\* or the user leaves the workspace or the page.
FollowedScanIsSettled ==
  \A t \in Targets :
    (IsFollowed(t) /\ IsJobActive(scans[t]) /\ here = WorkspaceOf[t])
      ~> (~IsFollowed(t) \/ scans[t].job = "ready" \/ here # WorkspaceOf[t])
=============================================================================
