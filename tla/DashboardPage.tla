---------------------------- MODULE DashboardPage ----------------------------
(***************************************************************************)
(* The page of one project (dashboard-view.tsx): which branch and which    *)
(* snapshot it shows, what it shows while there is none, the scan that is  *)
(* followed above the results, and the way through older scans.  The       *)
(* results come from use-health-report.ts and the shared cache, the scan   *)
(* from use-scan-center.ts, whose polling is cut down to its outcomes.     *)
(* A report is the number of its snapshot; a higher number is newer.       *)
(***************************************************************************)
EXTENDS Integers, FiniteSets, FiniteSetsExt

CONSTANTS ProjectBranches, DefaultBranch,
          ScannedBranches,   \* the branches that anybody scans
          MaxSnapshots       \* snapshots made, over all branches

NoBranch   == ""
GoneBranch == "gone"             \* named by a link or remembered, deleted since

ASSUME DashboardAssumption == /\ DefaultBranch \in ProjectBranches /\ IsFiniteSet(ProjectBranches)
                              /\ ProjectBranches \cap {NoBranch, GoneBranch} = {}
                              /\ ScannedBranches \subseteq ProjectBranches
                              /\ MaxSnapshots \in Nat

VARIABLES connectedRepo,         \* the API: the project is connected to the workspace
          branchOf, scored,      \* the API: the branch of each snapshot; those with a score
          scanOf,                \* the API: the last scan of each branch
          jobOf, pinned,         \* the tab: the scan followed on each branch, the results it keeps
          latestKept, kept,      \* the shared cache: latest reports, reports by snapshot
          shownPage, address,    \* the page that is open, and its branch and snapshot
          reposRead, branchesRead, rememberedBranch,
          askedFor, waitingFor,  \* the key the page asked for; the read that is out
          result,                \* what the page's last read answered
          historyRead, historyDue, \* the newest snapshot in the history read; whether it is read again
          everShown,             \* history: the branches whose results were on this page
          reading                \* history: the snapshot that is being read while a scan is
                                 \* followed, also past a page without results; 0 when none

apiVars  == <<connectedRepo, branchOf, scored, scanOf>>
jobVars  == <<jobOf, pinned>>
readVars == <<askedFor, waitingFor, result>>
pageVars == <<shownPage, address, reposRead, branchesRead, rememberedBranch>>
histVars == <<historyRead, historyDue>>
dashboardVars == <<apiVars, jobVars, latestKept, kept, pageVars, readVars, histVars, everShown, reading>>

Numbers    == 1..MaxSnapshots
Snapshotted(b) == {s \in Numbers : branchOf[s] = b}
Newest(S)  == IF S = {} THEN 0 ELSE Max(S)
AtBranch(b, s) == [branch |-> b, snapshot |-> s]
Unasked    == [key |-> AtBranch(NoBranch, 0), is |-> "nothing", snapshot |-> 0]
ReportKeys == [branch : ProjectBranches \cup {NoBranch, GoneBranch}, snapshot : Nat]
Reads      == {"nothing", "missing", "pending", "report", "error"}
NotWaiting == [key |-> AtBranch(NoBranch, 0), shared |-> FALSE]

(***************************************************************************)
(* The branch and the key of the read.                                     *)
(***************************************************************************)
urlBranchAvailable ==
  address.branch # NoBranch /\ (branchesRead = "read" => address.branch \in ProjectBranches)

likelyBranch ==
  IF rememberedBranch # NoBranch THEN rememberedBranch
  ELSE IF reposRead = "here" THEN DefaultBranch
  ELSE NoBranch

activeBranch ==
  IF urlBranchAvailable THEN address.branch
  ELSE IF branchesRead # "read" THEN likelyBranch
  ELSE IF rememberedBranch \in ProjectBranches THEN rememberedBranch
  ELSE DefaultBranch

settledOnRealBranch == branchesRead = "read" /\ activeBranch \in ProjectBranches

branchResolved == \/ settledOnRealBranch
                  \/ branchesRead = "unread" /\ activeBranch # NoBranch
                  \/ branchesRead = "failed"

readsEnabled == shownPage = "dashboard" /\ reposRead # "gone" /\ branchResolved

trackedJob == LET b == activeBranch IN IF b \in ProjectBranches THEN jobOf[b] ELSE "none"
jobActive  == trackedJob \in {"scanning", "scoring"}

\* Mutant: the results are kept only until the new ones have their score.
pinnedWhileScoring == IF trackedJob = "scoring" THEN pinned[activeBranch] ELSE 0

pinnedSnapshotId == IF trackedJob \in {"scoring", "ready"} THEN pinned[activeBranch] ELSE 0
readSnapshotId   == IF address.snapshot # 0 THEN address.snapshot ELSE pinnedSnapshotId
healthKey        == AtBranch(activeBranch, readSnapshotId)

(***************************************************************************)
(* What the read shows: the cache before the page's own last answer.       *)
(***************************************************************************)
cachedReport(key) ==
  IF key.branch \notin ProjectBranches THEN 0
  ELSE IF key.snapshot = 0 THEN latestKept[key.branch]
  ELSE IF key.snapshot \in kept /\ branchOf[key.snapshot] = key.branch
                THEN key.snapshot ELSE 0

readOf ==
  [key \in ReportKeys |->
     IF cachedReport(key) # 0 THEN [is |-> "report", snapshot |-> cachedReport(key)]
     ELSE IF result.key = key THEN [is |-> result.is, snapshot |-> result.snapshot]
     ELSE [is |-> "loading", snapshot |-> 0]]

shown == IF readsEnabled THEN readOf[healthKey] ELSE [is |-> "loading", snapshot |-> 0]

report  == shown.snapshot
neverScanned == shown.is = "missing"

(***************************************************************************)
(* The page: its body, the card above it, and its scan button.             *)
(***************************************************************************)
\* A guess at the branch that found nothing waits for the branches.
guessUnconfirmed(is) == is \in {"missing", "error"} /\ branchesRead = "unread"

bodyFor ==
  [is \in Reads \cup {"loading"} |->
     IF jobActive /\ is \notin {"loading", "report"} THEN "scan card"
     ELSE IF is = "pending" THEN "calculating"
     ELSE IF reposRead = "unread" \/ is = "loading" \/ guessUnconfirmed(is) THEN "skeleton"
     ELSE IF is = "missing" THEN "first scan"
     ELSE IF is = "error" THEN "error"
     ELSE "results"]

body == IF reposRead = "gone" THEN "project gone" ELSE bodyFor[shown.is]

showJobCard == trackedJob = "ready" \/ (jobActive /\ report # 0)

\* The header's button; absent where the body carries the one scan button.
scanControl ==
  IF neverScanned /\ ~jobActive THEN "absent"
  ELSE IF jobActive THEN "busy"
  ELSE IF activeBranch = NoBranch THEN "disabled"
  ELSE "scan"

ScanOffered == scanControl = "scan" \/ (body = "first scan" /\ activeBranch # NoBranch)

(***************************************************************************)
(* The way through older scans, over the history that was read.            *)
(***************************************************************************)
historyRows == IF activeBranch \in ProjectBranches
               THEN {s \in Snapshotted(activeBranch) : s <= historyRead} ELSE {}
currentSnapshot == IF address.snapshot # 0 THEN address.snapshot ELSE report
olderScans == IF currentSnapshot \in historyRows THEN {s \in historyRows : s < currentSnapshot} ELSE {}
newerScans == IF currentSnapshot \in historyRows THEN {s \in historyRows : s > currentSnapshot} ELSE {}

DashboardInit ==
  \E had \in SUBSET ScannedBranches :
  /\ \E order \in [ProjectBranches -> 1..Cardinality(ProjectBranches)] :
       /\ \A b, c \in ProjectBranches : order[b] = order[c] => b = c
       /\ branchOf = [s \in Numbers |->
                        IF \E b \in had : Cardinality({c \in had : order[c] <= order[b]}) = s
                        THEN CHOOSE b \in had : Cardinality({c \in had : order[c] <= order[b]}) = s
                        ELSE NoBranch]
  /\ scored = {s \in Numbers : branchOf[s] # NoBranch}
  /\ scanOf \in [ProjectBranches -> {"none", "on"}]
  /\ \A b \in ProjectBranches \ ScannedBranches : scanOf[b] = "none"
  /\ connectedRepo \in BOOLEAN
  /\ ~connectedRepo => had = {} /\ \A b \in ProjectBranches : scanOf[b] = "none"
  /\ jobOf = [b \in ProjectBranches |-> "none"] /\ pinned = [b \in ProjectBranches |-> 0]
  /\ latestKept = [b \in ProjectBranches |-> 0] /\ kept = {}
  /\ shownPage = "elsewhere" /\ address = AtBranch(NoBranch, 0)
  /\ reposRead = "unread" /\ branchesRead = "unread"
  /\ rememberedBranch = NoBranch
  /\ askedFor = Unasked.key /\ waitingFor = NotWaiting /\ result = Unasked
  /\ historyRead = 0 /\ historyDue = FALSE
  /\ everShown = {} /\ reading = 0

\* Results are being read while a scan of their branch is followed: those that were kept when
\* it began to be followed, or those of a snapshot that the reader chose.  The page's own read is
\* over, neither out nor about to be asked again: until then it shows what the cache has.
readOver == askedFor = healthKey /\ waitingFor = NotWaiting /\ result.is # "pending"
readingResults ==
  /\ trackedJob # "none"
  /\ address.snapshot # 0 \/ pinned[activeBranch] # 0
  /\ readOver /\ body = "results"

(***************************************************************************)
(* Effects of a render; they run before anything else happens.             *)
(***************************************************************************)
AskDue == askedFor # (IF readsEnabled THEN healthKey ELSE Unasked.key)
PinDue      == readsEnabled /\ trackedJob = "scanning" /\ report # 0 /\ address.snapshot = 0
                 /\ pinned[activeBranch] = 0
RememberDue == shownPage = "dashboard" /\ settledOnRealBranch /\ rememberedBranch # activeBranch

Ask ==
  /\ AskDue
  /\ askedFor' = (IF readsEnabled THEN healthKey ELSE Unasked.key)
  /\ waitingFor' = (IF readsEnabled THEN [key |-> healthKey, shared |-> TRUE] ELSE NotWaiting)
  /\ UNCHANGED <<apiVars, jobVars, latestKept, kept, pageVars, result, histVars>>

pinScanResults ==
  /\ PinDue
  /\ pinned' = [pinned EXCEPT ![activeBranch] = report]
  /\ kept' = kept \cup {report}
  /\ UNCHANGED <<apiVars, jobOf, latestKept, pageVars, readVars, histVars>>

Remember ==
  /\ RememberDue
  /\ rememberedBranch' = activeBranch
  /\ UNCHANGED <<apiVars, jobVars, latestKept, kept, shownPage, address, reposRead, branchesRead,
                 readVars, histVars>>

Effects == Ask \/ pinScanResults \/ Remember
Settled == ~AskDue /\ ~PinDue /\ ~RememberDue

(***************************************************************************)
(* The reader.                                                             *)
(***************************************************************************)
Links == {AtBranch(NoBranch, 0), AtBranch(GoneBranch, 0), AtBranch(GoneBranch, MaxSnapshots + 1)}
           \cup {AtBranch(b, 0) : b \in ProjectBranches}

go(to) == /\ address' = to
          /\ UNCHANGED <<apiVars, jobVars, latestKept, kept, shownPage, reposRead, branchesRead,
                         rememberedBranch, readVars, histVars>>

\* The page is opened by a link, or by a row of the history page.
historyPageRows(filter) == {s \in Numbers : branchOf[s] # NoBranch /\ filter \in {"all", branchOf[s]}}

opensAt(to) ==
  /\ shownPage = "elsewhere"
  /\ shownPage' = "dashboard" /\ address' = to
  /\ branchesRead' = (IF branchesRead = "failed" THEN "unread" ELSE branchesRead)
  /\ historyDue' = TRUE
  /\ UNCHANGED <<apiVars, jobVars, latestKept, kept, reposRead, rememberedBranch, readVars,
                 historyRead>>

OpenLink == \E to \in Links : opensAt(to)
ScanRow  == \E filter \in ProjectBranches \cup {"all"} :
              \E s \in historyPageRows(filter) : opensAt(AtBranch(branchOf[s], s))
OpenLatestScan == \E filter \in ProjectBranches \cup {"all"} :
              /\ historyPageRows(filter) # {}
              /\ opensAt(AtBranch(branchOf[Newest(historyPageRows(filter))], 0))

Leave ==
  /\ shownPage = "dashboard" /\ shownPage' = "elsewhere"
  /\ address' = AtBranch(NoBranch, 0)
  /\ askedFor' = Unasked.key /\ waitingFor' = NotWaiting /\ result' = Unasked
  /\ historyRead' = 0 /\ historyDue' = FALSE
  /\ UNCHANGED <<apiVars, jobVars, latestKept, kept, reposRead, branchesRead, rememberedBranch>>

changeBranch(b) ==
  /\ shownPage = "dashboard" /\ branchesRead = "read" /\ b # activeBranch
  /\ rememberedBranch' = b
  /\ address' = AtBranch(b, 0) /\ historyRead' = 0 /\ historyDue' = TRUE
  /\ UNCHANGED <<apiVars, jobVars, latestKept, kept, shownPage, reposRead, branchesRead, readVars>>

onOlder  == olderScans # {} /\ go(AtBranch(activeBranch, Max(olderScans)))
onNewer  == newerScans # {} /\ go(AtBranch(activeBranch, Min(newerScans)))
onLatest == newerScans # {} /\ go(AtBranch(activeBranch, 0))

forget(b) == /\ jobOf' = [jobOf EXCEPT ![b] = "none"]
             /\ pinned' = [pinned EXCEPT ![b] = 0]

startTrackedScan ==
  /\ shownPage = "dashboard" /\ ScanOffered
  /\ \/ /\ activeBranch \in ScannedBranches /\ connectedRepo    \* the API refuses the others
        /\ jobOf' = [jobOf EXCEPT ![activeBranch] = "scanning"]
        /\ pinned' = [pinned EXCEPT ![activeBranch] = 0]
        /\ scanOf' = [scanOf EXCEPT ![activeBranch] = "on"]
     \/ /\ activeBranch \in ProjectBranches /\ scanOf[activeBranch] # "on"
        /\ forget(activeBranch) /\ UNCHANGED scanOf              \* up to date, or refused
  /\ UNCHANGED <<connectedRepo, branchOf, scored, latestKept, kept, pageVars, readVars, histVars>>

showNewResults ==
  /\ shownPage = "dashboard" /\ trackedJob = "ready"
  /\ forget(activeBranch)
  /\ address' = [address EXCEPT !.snapshot = 0]
  /\ UNCHANGED <<apiVars, latestKept, kept, shownPage, reposRead, branchesRead, rememberedBranch,
                 readVars, histVars>>

refetch ==
  /\ body = "error"
  /\ result' = Unasked /\ waitingFor' = [key |-> healthKey, shared |-> TRUE]
  /\ UNCHANGED <<apiVars, jobVars, latestKept, kept, pageVars, askedFor, histVars>>

(***************************************************************************)
(* Answers to the page's reads.                                            *)
(***************************************************************************)
served(key) ==
  LET of == IF key.branch \in ProjectBranches THEN Snapshotted(key.branch) ELSE {}
      s  == IF key.snapshot = 0 THEN Newest(of) ELSE key.snapshot
  IN  IF s \notin of THEN [is |-> "missing", snapshot |-> 0]
      ELSE IF s \notin scored THEN [is |-> "pending", snapshot |-> 0]
      ELSE [is |-> "report", snapshot |-> s]

keepAnswer(key, s) ==
  IF key.snapshot = 0
  THEN latestKept' = [b \in ProjectBranches |-> IF b = key.branch THEN s ELSE latestKept[b]]
       /\ UNCHANGED kept
  ELSE kept' = (IF s = 0 THEN kept \ {key.snapshot} ELSE kept \cup {s}) /\ UNCHANGED latestKept

Answered ==
  /\ waitingFor # NotWaiting
  /\ \E answer \in {served(waitingFor.key), [is |-> "error", snapshot |-> 0]} :
       /\ result' = [key |-> waitingFor.key, is |-> answer.is, snapshot |-> answer.snapshot]
       /\ IF waitingFor.shared THEN keepAnswer(waitingFor.key, answer.snapshot)
                               ELSE UNCHANGED <<latestKept, kept>>
  /\ waitingFor' = NotWaiting
  /\ UNCHANGED <<apiVars, jobVars, pageVars, askedFor, histVars>>

\* A score that is not there yet is asked for again.
AskAgain ==
  /\ readsEnabled /\ waitingFor = NotWaiting /\ result.is = "pending" /\ result.key = askedFor
  /\ waitingFor' = [key |-> askedFor, shared |-> TRUE]
  /\ UNCHANGED <<apiVars, jobVars, latestKept, kept, pageVars, askedFor, result, histVars>>

ReadRepos ==
  /\ shownPage = "dashboard" /\ reposRead = "unread"
  /\ reposRead' = (IF connectedRepo THEN "here" ELSE "gone")
  /\ UNCHANGED <<apiVars, jobVars, latestKept, kept, shownPage, address, branchesRead,
                 rememberedBranch, readVars, histVars>>

ReadBranches ==
  /\ shownPage = "dashboard" /\ branchesRead = "unread"
  /\ branchesRead' \in {"read", "failed"}
  /\ UNCHANGED <<apiVars, jobVars, latestKept, kept, shownPage, address, reposRead,
                 rememberedBranch, readVars>>
  /\ IF activeBranch' = activeBranch THEN UNCHANGED histVars
                                      ELSE historyRead' = 0 /\ historyDue' = TRUE

ReadHistory ==
  /\ readsEnabled /\ historyDue /\ activeBranch \in ProjectBranches
  /\ historyRead' = Newest(Snapshotted(activeBranch)) /\ historyDue' = FALSE
  /\ UNCHANGED <<apiVars, jobVars, latestKept, kept, pageVars, readVars>>

(***************************************************************************)
(* The scan that is followed, cut down to what its polls find.             *)
(***************************************************************************)
Discovered(b) ==
  /\ shownPage = "dashboard" /\ b = activeBranch /\ jobOf[b] = "none" /\ scanOf[b] = "on"
  /\ jobOf' = [jobOf EXCEPT ![b] = "scanning"]
  /\ UNCHANGED <<apiVars, pinned, latestKept, kept, pageVars, readVars, histVars>>

beginScoring(b) ==
  LET pin      == IF pinned[b] # 0 THEN pinned[b] ELSE latestKept[b]
      pinReport == {pin} \cap (kept \cup {latestKept[b]}) \cap Numbers
  IN  /\ jobOf[b] = "scanning" /\ scanOf[b] = "done"
      /\ jobOf' = [jobOf EXCEPT ![b] = "scoring"]
      /\ pinned' = [pinned EXCEPT ![b] = pin]
      /\ kept' = (kept \ Snapshotted(b)) \cup pinReport       \* forgetScanResults
      /\ latestKept' = [latestKept EXCEPT ![b] = 0]
      /\ waitingFor' = [waitingFor EXCEPT !.shared = @ /\ waitingFor.key.branch # b]
      /\ UNCHANGED <<apiVars, pageVars, askedFor, result, histVars>>

ScanOver(b) ==
  /\ jobOf[b] = "scanning" /\ scanOf[b] = "over" /\ forget(b)
  /\ UNCHANGED <<apiVars, latestKept, kept, pageVars, readVars, histVars>>

reloadHistory(b) == historyDue' = (historyDue \/ (shownPage = "dashboard" /\ b = activeBranch))

finishJob(b) ==
  LET s == Newest(Snapshotted(b)) IN
  /\ jobOf[b] = "scoring" /\ s \in scored
  /\ latestKept' = [latestKept EXCEPT ![b] = s]
  /\ IF pinned[b] \notin {0, s} THEN jobOf' = [jobOf EXCEPT ![b] = "ready"] /\ UNCHANGED pinned
                                ELSE forget(b)
  /\ reloadHistory(b)
  /\ UNCHANGED <<apiVars, kept, pageVars, readVars, historyRead>>

finishWithoutReport(b) ==
  /\ jobOf[b] = "scoring" /\ forget(b)
  /\ latestKept' = [latestKept EXCEPT ![b] = 0]
  /\ reloadHistory(b)
  /\ UNCHANGED <<apiVars, kept, pageVars, readVars, historyRead>>

(***************************************************************************)
(* The API, the workers and other users.                                   *)
(***************************************************************************)
ScanEnds(b) ==
  LET s == Newest({n \in Numbers : branchOf[n] # NoBranch}) + 1 IN
  /\ scanOf[b] = "on"
  /\ \/ scanOf' = [scanOf EXCEPT ![b] = "over"] /\ UNCHANGED branchOf
     \/ /\ s \in Numbers
        /\ scanOf' = [scanOf EXCEPT ![b] = "done"] /\ branchOf' = [branchOf EXCEPT ![s] = b]
  /\ UNCHANGED <<connectedRepo, scored, jobVars, latestKept, kept, pageVars, readVars, histVars>>

ScoreWorker ==
  /\ \E s \in Numbers \ scored : branchOf[s] # NoBranch /\ scored' = scored \cup {s}
  /\ UNCHANGED <<connectedRepo, branchOf, scanOf, jobVars, latestKept, kept, pageVars, readVars, histVars>>

\* Bound: others start scans as long as their results have a number.
StartedElsewhere(b) ==
  /\ connectedRepo /\ b \in ScannedBranches /\ \E s \in Numbers : branchOf[s] = NoBranch
  /\ scanOf[b] # "on" /\ jobOf[b] # "scanning"
  /\ scanOf' = [scanOf EXCEPT ![b] = "on"]
  /\ UNCHANGED <<connectedRepo, branchOf, scored, jobVars, latestKept, kept, pageVars, readVars, histVars>>

(***************************************************************************)
(* The specification.                                                      *)
(***************************************************************************)
Reader   == \/ OpenLink \/ ScanRow \/ OpenLatestScan \/ Leave
            \/ \E b \in ProjectBranches : changeBranch(b)
            \/ onOlder \/ onNewer \/ onLatest
            \/ startTrackedScan \/ showNewResults \/ refetch
Answers  == \/ Answered \/ AskAgain \/ ReadRepos \/ ReadBranches \/ ReadHistory
Follower == \E b \in ProjectBranches : \/ Discovered(b) \/ beginScoring(b) \/ ScanOver(b)
                                       \/ finishJob(b) \/ finishWithoutReport(b)
Elsewhere == \/ ScoreWorker
             \/ \E b \in ProjectBranches : ScanEnds(b) \/ StartedElsewhere(b)

\* The score of the branch's scan did not come: the pin is dropped with its job.
GaveUp == address.snapshot = 0 /\ \E b \in {activeBranch} \cap ProjectBranches : finishWithoutReport(b)

\* What this step puts on the page is noted.  What was being read stays noted while the page has
\* no results; it is noted afresh when the reader acts, another branch is shown, or the scan is over.
NoteShown == everShown' = IF activeBranch' \notin everShown /\ body' = "results"
                           THEN everShown \cup {activeBranch'} ELSE everShown
NoteRead  == reading' = IF readingResults' THEN report'
                        ELSE IF \/ reading = 0 \/ activeBranch' # activeBranch
                                \/ trackedJob' = "none" /\ body' = "results"
                                \/ GaveUp \/ Reader THEN 0
                        ELSE reading

DashboardNext == \/ Effects /\ NoteShown /\ NoteRead
                 \/ Settled /\ (Reader \/ Answers \/ Follower \/ Elsewhere) /\ NoteShown /\ NoteRead

DashboardSpec == DashboardInit /\ [][DashboardNext]_dashboardVars

(***************************************************************************)
(* Properties.                                                             *)
(***************************************************************************)
\* A first scan is proposed only for a branch that the project has: the first
\* guess at the branch (the remembered one, or the one of a link) may miss.
FirstScanNamesARealBranch ==
  body = "first scan" => activeBranch \in ProjectBranches \/ branchesRead = "failed"

\* A branch whose results were on this page is not offered a first scan later
\* on, whatever became of the reads and the scans in between, once the page's
\* read is answered.
NeverAFirstScanAgain ==
  body = "first scan" /\ Settled /\ waitingFor = NotWaiting /\ address.snapshot = 0
    => activeBranch \notin everShown

\* Results that are being read give way to other results only by something the reader does.
NeverSwapsByItself ==
  [][readingResults /\ activeBranch' = activeBranch /\ report' \notin {0, report}
       => Reader]_dashboardVars

\* While a scan is followed, no new results replace what is being read, be it at once or after a
\* page without results (a read that failed, a score that is not there): without the reader, the
\* page comes back with the same snapshot or goes back to the one that was kept for him.  The one
\* way round, which the code takes, is a score that never comes (GaveUp).
NewResultsWait ==
  [][reading # 0 /\ activeBranch' = activeBranch /\ body' = "results"
       /\ report' \notin {reading, pinned[activeBranch]} => Reader \/ GaveUp]_dashboardVars

\* Whatever is answered late, a first scan is offered only where there was none, and for a
\* branch that is there.
DashboardInv == FirstScanNamesARealBranch /\ NeverAFirstScanAgain
=============================================================================
