------------------------------ MODULE ScanBar ------------------------------
(***************************************************************************)
(* The bar and the card a person sees for a scan and its score             *)
(* (lib/scan-progress.ts, scan-progress-card.tsx, advanceLive in           *)
(* hooks/use-scan-center.ts), in whole percents, rounded down as shown.  A *)
(* tick glides from what is shown toward a target that creeps inside the   *)
(* step the worker is in; how far one tick gets depends on a clock the     *)
(* model leaves open.  A poll during a failure of Redis reads as a scan    *)
(* that has reported nothing.                                              *)
(***************************************************************************)
EXTENDS Integers, Sequences

CONSTANTS Reports,  \* the percentages the worker reports
          Counts,   \* how many commits or files it has been through
          Totals    \* what commits or files may add up to, 0 when not counted yet

ASSUME ScanBarAssumption == Reports \subseteq 5..100 /\ Counts \cup Totals \subseteq Nat

VARIABLES worker,   \* the last status the worker has published
          status,   \* the last status the tab has polled
          job,      \* "none", or what this job is doing
          bar,      \* what is shown, NoBar while queued
          reduced   \* the reader prefers reduced motion

barVars == <<worker, status, job, bar, reduced>>

NoBar  == -1
STEPS  == <<"clone", "measure", "history", "comments", "debt", "risk", "score">>
From   == <<5, 25, 37, 52, 60, 70, 85>>
To     == <<25, 37, 52, 60, 70, 85, 100>>
Unsent == "unsent"

stepIndex(step) == CHOOSE k \in DOMAIN STEPS : STEPS[k] = step

\* The worker's stage and step at a percentage, and what an old worker leaves out.
StageAt(p) == IF p < 25 THEN "cloning"
              ELSE IF p < 60 THEN "reading_code"
              ELSE IF p < 70 THEN "finding_debt"
              ELSE IF p < 85 THEN "predicting_risk"
              ELSE IF p < 97 THEN "scoring"
              ELSE "finishing"
StepAt(p)  == STEPS[CHOOSE k \in DOMAIN STEPS :
                      /\ From[k] <= p
                      /\ \A n \in DOMAIN STEPS : From[n] <= p => n <= k]

NoStatus  == [phase |-> "none", stage |-> Unsent, step |-> Unsent,
              progress |-> 0, done |-> 0, total |-> 0]
Queued    == [NoStatus EXCEPT !.phase = "queued"]
Unread    == [NoStatus EXCEPT !.phase = "running"]
Finished  == [NoStatus EXCEPT !.phase = "done", !.progress = 100]
\* A worker's word: the stage and the step are those of the percentage, or are not
\* sent, and the count may overtake a total that is counted apart from the walk.
Named(p)  == {<<StageAt(p), StepAt(p)>>, <<StageAt(p), Unsent>>, <<Unsent, Unsent>>}
Vouched   == UNION {{[phase |-> "running", stage |-> n[1], step |-> n[2],
                      progress |-> p, done |-> c[1], total |-> c[2]] :
                       n \in Named(p), c \in Counts \X Totals} : p \in Reports}

stageOf(s) == IF s.stage # Unsent THEN s.stage ELSE StageAt(s.progress)

stepOf(s) ==
  CASE stageOf(s) = "cloning"         -> "clone"
    [] stageOf(s) = "reading_code"    -> IF s.step # Unsent THEN s.step ELSE StepAt(s.progress)
    [] stageOf(s) = "finding_debt"    -> "debt"
    [] stageOf(s) = "predicting_risk" -> "risk"
    [] OTHER                          -> "score"

Least(a, b)  == IF a < b THEN a ELSE b
Larger(a, b) == IF a > b THEN a ELSE b

\* The scan fills 0..92, its last stretch squeezed; the score's wait creeps on to 99.
SCAN_SHARE == 92
CEILING    == 99

toBar(p) == IF p <= 85 THEN p ELSE 85 + ((SCAN_SHARE - 85) * (Least(100, p) - 85)) \div 15

\* The highest value the server has vouched for: the percentage, or the step's own count.
reportedProgress(s) ==
  LET k     == stepIndex(stepOf(s))
      value == Larger(From[k], s.progress)
      share == From[k] + ((To[k] - From[k]) * Least(s.done, s.total)) \div s.total
  IN  Least(100, IF stepOf(s) \in {"history", "comments"} /\ s.total > 0
                   THEN Larger(value, share) ELSE value)

\* Mutant: the creep is held back only by the end of the scan.
creepTargetAhead(s) == CEILING

\* How far the bar may creep inside the current step: short of its end.
creepTarget(s) == Larger(reportedProgress(s), To[stepIndex(stepOf(s))] - 1)

nextShown(shown, target) == IF target <= shown THEN {shown} ELSE shown..target

ReducedShown(shown, vouched) == Larger(shown, vouched)

-----------------------------------------------------------------------------
BarInit ==
  /\ worker = NoStatus /\ status = NoStatus /\ job = "none" /\ bar = NoBar
  /\ reduced = FALSE

ensureLive(s) == bar' = IF s.phase = "running" THEN 0 ELSE NoBar

\* A scan is followed, from its start, from the middle or, after a refresh, as one that runs.
FollowBar(s) ==
  /\ job = "none"
  /\ worker' = s /\ status' = s /\ job' = "scanning" /\ ensureLive(s)
  /\ reduced' \in BOOLEAN

\* A poll's answer: a worker never goes back, and polls may skip what it said.
ReportBar(s) ==
  /\ job = "scanning"
  /\ s.progress >= worker.progress
  /\ s.progress = worker.progress => s.done >= worker.done
  /\ worker' = s /\ status' = s
  /\ UNCHANGED <<job, bar, reduced>>

\* What was resumed as running may still be queued.
ReportQueued ==
  /\ job = "scanning" /\ worker = Unread
  /\ worker' = Queued /\ status' = Queued
  /\ UNCHANGED <<job, bar, reduced>>

\* A poll's answer while Redis cannot be read, or while the worker has told nothing yet.
ReportUnread ==
  /\ job = "scanning"
  /\ worker' = IF worker = Queued THEN Unread ELSE worker
  /\ status' = Unread
  /\ UNCHANGED <<job, bar, reduced>>

\* A poll's answer that the scan is done, whatever the last one was.
ScoreBar ==
  /\ job = "scanning"
  /\ job' = "scoring" /\ worker' = Finished /\ status' = Finished
  /\ UNCHANGED <<bar, reduced>>

EndBar ==
  /\ job # "none"
  /\ job' = "none" /\ worker' = NoStatus /\ status' = NoStatus /\ bar' = NoBar
  /\ UNCHANGED reduced

Shown == IF bar = NoBar THEN 0 ELSE bar

\* One tick of advanceLive.
AdvanceScan ==
  /\ job = "scanning" /\ status.phase = "running"
  /\ LET vouched == toBar(reportedProgress(status))
     IN  IF reduced
           THEN bar' = ReducedShown(Shown, vouched)
           ELSE bar' \in nextShown(Shown, toBar(creepTarget(status)))

AdvanceScore ==
  /\ job = "scoring"
  /\ IF reduced THEN bar' = ReducedShown(Shown, SCAN_SHARE)
                ELSE bar' \in nextShown(Shown, CEILING)

advanceLive ==
  /\ AdvanceScan \/ AdvanceScore
  /\ UNCHANGED <<worker, status, job, reduced>>

BarNext ==
  \/ \E s \in Vouched \cup {Queued, Unread} : FollowBar(s)
  \/ \E s \in Vouched : ReportBar(s)
  \/ ReportQueued \/ ReportUnread \/ ScoreBar \/ EndBar \/ advanceLive

BarSpec == BarInit /\ [][BarNext]_barVars

(***************************************************************************)
(* What the card tells.                                                    *)
(***************************************************************************)
cardQueued == job = "scanning" /\ status.phase = "queued"
cardStep   == IF job = "scoring" THEN "score" ELSE stepOf(status)
NoCount    == 0

countLabel(step, s) ==
  IF step \in {"history", "comments"} /\ s.total > 0 THEN Least(s.done, s.total) ELSE NoCount

\* Which dots are filled, which is a ring, and which are hollow.
Stepper(current) ==
  [k \in DOMAIN STEPS |-> CASE k < current -> "done" [] k = current -> "now" [] OTHER -> "upcoming"]

ScanProgressCard ==
  IF cardQueued THEN [mode |-> "queued", count |-> NoCount, dots |-> Stepper(0), percent |-> NoBar]
  ELSE [mode |-> cardStep, count |-> countLabel(cardStep, status),
        dots |-> Stepper(stepIndex(cardStep)), percent |-> bar]

-----------------------------------------------------------------------------
\* Every variable has its type.
BarTypeOK ==
  /\ worker \in Vouched \cup {Queued, Unread, Finished, NoStatus}
  /\ status \in {worker, Unread}
  /\ job \in {"none", "scanning", "scoring"}
  /\ bar \in {NoBar} \cup 0..CEILING
  /\ reduced \in BOOLEAN

\* The card's step, count and bar agree whenever its status was read: the bar lies in no
\* step whose dot is still hollow, however polls skip, fail in between or the bar creeps, and
\* a count is never more than the total it is shown against.
CardAgrees ==
  LET card == ScanProgressCard IN
  job # "none" /\ status # Unread =>
    /\ \A k \in DOMAIN STEPS : card.dots[k] = "upcoming" => card.percent <= toBar(From[k])
    /\ card.count # NoCount => card.count \in 1..status.total

\* The card is well formed, and its parts agree.
BarInv == BarTypeOK /\ CardAgrees
=============================================================================
