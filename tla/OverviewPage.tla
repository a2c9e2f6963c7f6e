----------------------------- MODULE OverviewPage -----------------------------
(***************************************************************************)
(* The workspace's overview (overview-view.tsx and lib/workspace-health.ts): *)
(* every project side by side, what needs attention first, the health of   *)
(* the workspace, and the scans that the rows and the list can start.      *)
(***************************************************************************)
EXTENDS Integers, Sequences, FiniteSets, FiniteSetsExt, SequencesExt

CONSTANTS OverviewRepos,     \* the projects of the workspace, in their list's order
          NameOf,            \* the place of a project's name among the names; owners may share one
          HealthValues,      \* what a scan can say: score, delta and size of a project, and when
          MaxAttention,      \* lines of the attention list: 4 in the code
          MaxScanning,       \* scans running at once
          MaxRescoring       \* projects whose scores are recalculated at once

ASSUME OverviewAssumption ==
  /\ OverviewRepos \subseteq Nat /\ IsFiniteSet(OverviewRepos)
  /\ NameOf \in [OverviewRepos -> Nat]
  /\ \A h \in HealthValues : /\ h.score \in 0..100 /\ h.delta \in -100..100 /\ h.kloc \in Nat
                             /\ h.scanned_at \in Nat
  /\ MaxAttention \in Nat /\ MaxScanning \in Nat /\ MaxRescoring \in Nat

VARIABLES latestHealth,      \* of each project, or none when it was never scanned
          scansNow,          \* projects with a scan running, here or elsewhere
          knownScans,        \* those of them the tab knows: its own, and the last answer's
          rescoringNow,      \* projects whose scores are being recalculated
          opened             \* the page that was opened from here, or none

overviewVars == <<latestHealth, scansNow, knownScans, rescoringNow, opened>>

Unscanned == [score |-> -1]
isScanned(r) == latestHealth[r] # Unscanned
ScannedRepos == {r \in OverviewRepos : isScanned(r)}

gradeFor(score) ==
  IF score >= 85 THEN "A" ELSE IF score >= 70 THEN "B" ELSE IF score >= 55 THEN "C"
  ELSE IF score >= 40 THEN "D" ELSE "E"

(***************************************************************************)
(* The average: by size when every scanned project reports one.  The score *)
(* is kept as a fraction.                                                  *)
(***************************************************************************)
weighted    == \A r \in ScannedRepos : latestHealth[r].kloc > 0
weightOf(r) == IF weighted THEN latestHealth[r].kloc ELSE 1

totalWeight == FoldSet(LAMBDA r, sum : sum + weightOf(r), 0, ScannedRepos)
weightedSum == FoldSet(LAMBDA r, sum : sum + latestHealth[r].score * weightOf(r), 0, ScannedRepos)
workspaceHealth ==
  [sum |-> weightedSum, weight |-> totalWeight, scanned |-> Cardinality(ScannedRepos),
   distribution |-> [g \in {"A", "B", "C", "D", "E"} |->
                       Cardinality({r \in ScannedRepos : gradeFor(latestHealth[r].score) = g})]]

(***************************************************************************)
(* What to look at first.                                                  *)
(***************************************************************************)
NOTABLE_DROP == 3
kinds == <<"dropped", "low-grade", "never-scanned", "rescoring">>

isDropped(r)  == isScanned(r) /\ latestHealth[r].delta <= -NOTABLE_DROP
isLowGrade(r) == isScanned(r) /\ gradeFor(latestHealth[r].score) \in {"D", "E"}
\* Array.sort is stable: equals stay in the list's order.
SortedBy(S, key) ==
  CHOOSE list \in [1..Cardinality(S) -> S] :
    \A i, j \in 1..Cardinality(S) :
      i < j => \/ key[list[i]] < key[list[j]]
               \/ key[list[i]] = key[list[j]] /\ list[i] < list[j]
Listed(S) == SortedBy(S, [r \in S |-> 0])

candidates ==
  LET Of(kind, repos) == [i \in DOMAIN repos |-> [kind |-> kind, repo |-> repos[i]]]
      dropped  == {r \in OverviewRepos : isDropped(r)}
      lowGrade == {r \in OverviewRepos : isLowGrade(r)} IN
  Of("dropped", SortedBy(dropped, [r \in dropped |-> latestHealth[r].delta]))
  \o Of("low-grade", SortedBy(lowGrade, [r \in lowGrade |-> latestHealth[r].score]))
  \o Of("never-scanned", Listed(OverviewRepos \ ScannedRepos))
  \o Of("rescoring", Listed(rescoringNow))

seen(items, r) == \E i \in DOMAIN items : items[i].repo = r

\* Mutant: a project is listed once for every reason.
addAlways(items, item) == IF Len(items) >= MaxAttention THEN items ELSE Append(items, item)

add(items, item) ==
  IF seen(items, item.repo) \/ Len(items) >= MaxAttention THEN items ELSE Append(items, item)

needsAttention == FoldLeft(add, <<>>, candidates)

\* The reason a project would be listed for, if it were the only one.
Reasons(r) == {k \in 1..4 : \/ k = 1 /\ isDropped(r)
                            \/ k = 2 /\ isLowGrade(r)
                            \/ k = 3 /\ ~isScanned(r)
                            \/ k = 4 /\ r \in rescoringNow}

(***************************************************************************)
(* The rows' order: a < b when the comparison is negative.                 *)
(***************************************************************************)
PROJECT_SORTS == {"attention", "health", "recent", "name"}

byName(a, b) == NameOf[a] < NameOf[b]
scanTime(r)  == IF isScanned(r) THEN latestHealth[r].scanned_at ELSE 0

comesBefore(mode, a, b) ==
  LET by(x, y) == x < y \/ (x = y /\ byName(a, b)) IN
  IF mode = "name" THEN byName(a, b)
  ELSE IF mode = "recent" THEN by(scanTime(b), scanTime(a))
  ELSE IF isScanned(a) # isScanned(b) THEN isScanned(a)
  ELSE IF ~isScanned(a) THEN byName(a, b)
  ELSE IF mode = "attention" THEN by(latestHealth[a].score, latestHealth[b].score)
  ELSE by(latestHealth[b].score, latestHealth[a].score)

-----------------------------------------------------------------------------
OverviewInit ==
  /\ latestHealth = [r \in OverviewRepos |-> Unscanned]
  /\ scansNow = {} /\ knownScans = {} /\ rescoringNow = {}
  /\ opened \in {"overview", "dashboard"}

onOverview == opened = "overview"
ProjectRows == IF onOverview THEN OverviewRepos ELSE {}
AttentionList == IF onOverview THEN {needsAttention[i] : i \in DOMAIN needsAttention} ELSE {}

\* startScan joins a scan that runs already.
scan(r) ==
  /\ r \in scansNow \/ Cardinality(scansNow) < MaxScanning
  /\ scansNow' = scansNow \cup {r} /\ knownScans' = knownScans \cup {r}
  /\ UNCHANGED <<latestHealth, rescoringNow, opened>>

ScanRow(r) == r \in ProjectRows /\ r \notin knownScans /\ scan(r)

open(page) ==
  /\ onOverview /\ opened' = page /\ UNCHANGED <<latestHealth, scansNow, knownScans, rescoringNow>>

\* "Run first scan" of the list does not ask whether one is running.
act(item) ==
  /\ item \in AttentionList
  /\ CASE item.kind = "never-scanned" -> scan(item.repo)
       [] item.kind = "low-grade"     -> open("findings")
       [] OTHER                       -> open("dashboard")

BackToOverview ==
  /\ ~onOverview /\ opened' = "overview"
  /\ UNCHANGED <<latestHealth, scansNow, knownScans, rescoringNow>>

\* The list of projects is read again when a scan of the tab ends.
ScanOf(r) ==
  /\ r \in scansNow /\ scansNow' = scansNow \ {r} /\ knownScans' = knownScans \ {r}
  /\ \E h \in HealthValues : latestHealth' = [latestHealth EXCEPT ![r] = h]
  /\ UNCHANGED <<rescoringNow, opened>>

TeammateScansRow(r) ==
  /\ r \notin scansNow /\ Cardinality(scansNow) < MaxScanning /\ scansNow' = scansNow \cup {r}
  /\ UNCHANGED <<latestHealth, knownScans, rescoringNow, opened>>

Rescored(r) ==
  /\ IF r \in rescoringNow THEN rescoringNow' = rescoringNow \ {r}
     ELSE isScanned(r) /\ Cardinality(rescoringNow) < MaxRescoring
          /\ rescoringNow' = rescoringNow \cup {r}
  /\ UNCHANGED <<latestHealth, scansNow, knownScans, opened>>

ActivityKnown ==
  /\ knownScans # scansNow /\ knownScans' = scansNow
  /\ UNCHANGED <<latestHealth, scansNow, rescoringNow, opened>>

OverviewNext ==
  \/ \E r \in OverviewRepos : \/ ScanRow(r) \/ ScanOf(r) \/ TeammateScansRow(r) \/ Rescored(r)
  \/ \E item \in AttentionList : act(item)
  \/ open("dashboard") \/ BackToOverview \/ ActivityKnown

OverviewSpec == OverviewInit /\ [][OverviewNext]_overviewVars

-----------------------------------------------------------------------------
\* "What to look at first, one line per project at most": each for its most urgent
\* reason, the more urgent first, and what is left out is no more urgent.
AttentionIsRanked ==
  LET items == needsAttention
      rank(i) == CHOOSE k \in 1..4 : kinds[k] = items[i].kind
      urgent == {r \in OverviewRepos : Reasons(r) # {}} IN
  onOverview =>
  /\ Len(items) = Min({MaxAttention, Cardinality(urgent)})
  /\ \A i, j \in DOMAIN items : i # j => items[i].repo # items[j].repo
  /\ \A i \in DOMAIN items : rank(i) = Min(Reasons(items[i].repo))
  /\ \A i, j \in DOMAIN items : i < j => rank(i) <= rank(j)
  /\ \A r \in urgent : seen(items, r) \/ \A i \in DOMAIN items : rank(i) <= Min(Reasons(r))

\* Whichever projects report their size, the workspace's health lies between the
\* healths it averages.
HealthIsAnAverage ==
  ScannedRepos # {} =>
    /\ totalWeight > 0
    /\ \E r \in ScannedRepos : latestHealth[r].score * totalWeight <= weightedSum
    /\ \E r \in ScannedRepos : latestHealth[r].score * totalWeight >= weightedSum

\* Every comparison of the rows is a strict weak order, also among projects that were never
\* scanned, which go last where the health counts: a stable sort gives one list, in which only
\* namesakes stay as the API listed them.
RowsHaveOneOrder ==
  \A mode \in PROJECT_SORTS : \A a, b \in ProjectRows :
    /\ ~(comesBefore(mode, a, b) /\ comesBefore(mode, b, a))
    /\ \A c \in ProjectRows :
         comesBefore(mode, a, b) => comesBefore(mode, a, c) \/ comesBefore(mode, c, b)
    /\ comesBefore(mode, a, b) \/ comesBefore(mode, b, a) \/ NameOf[a] = NameOf[b]
    /\ mode \in {"attention", "health"} /\ isScanned(a) /\ ~isScanned(b) => comesBefore(mode, a, b)

\* Both lists of the overview have one order, and the health above them is an average.
OverviewInv == AttentionIsRanked /\ RowsHaveOneOrder /\ HealthIsAnAverage
=============================================================================
