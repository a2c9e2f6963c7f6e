----------------------------- MODULE FindingsTab -----------------------------
(***************************************************************************)
(* The Findings view of a project: the ranked list with its filters and    *)
(* pages (refactor-first-list.tsx), the open finding                       *)
(* (finding-detail-panel.tsx) and the status that a finding is given       *)
(* (dashboard-view.tsx, services/finding_triage.py).  A status shows at    *)
(* once, before the API has it, and is taken back when the API refuses.    *)
(***************************************************************************)
EXTENDS Integers, FiniteSets

CONSTANTS Findings,          \* the findings of a snapshot, in the order of the report
          Snapshots,         \* 1..Snapshots: the scans, each with the same findings
          PageSize,          \* rows of a page: 10
          TopCount,          \* findings that the overview ranks: 6
          MaxTriage, MaxFilterMoves, MaxOthersTriage

Keys     == DOMAIN Findings
Statuses == {"open", "done"}
Rank     == [critical |-> 4, high |-> 3, medium |-> 2, low |-> 1]
Severities == {Findings[f].severity : f \in Keys}

ASSUME FindingsAssumption ==
  /\ {Snapshots, PageSize, TopCount} \subseteq Nat \ {0}
  /\ {MaxTriage, MaxFilterMoves, MaxOthersTriage} \subseteq Nat
  /\ IsFiniteSet(Keys) /\ Keys = 1..Cardinality(Keys)
  /\ Severities \subseteq DOMAIN Rank
  /\ \A f \in Keys : Findings[f].priority \in Int
                     /\ {Findings[f].test, Findings[f].matched} \subseteq BOOLEAN

VARIABLES latest, storedStatus,    \* the last snapshot; the status of each finding in each snapshot
          readReport,            \* what the page read: a snapshot and its findings' statuses
          overrides,         \* the statuses that this page gave
          busyFinding,       \* the finding whose button waits
          writes,            \* status changes that are out
          filters, page,     \* the list's filters and its page
          chosen, mounted,   \* the finding of the address; whether the list is shown
          includeTest,       \* the repository's own choice about excluded findings
          writesMade, filterMoves, othersMoves,
          fresh,             \* history: the list was shown by the last step
          doneIn             \* history: the findings that somebody marked done, by snapshot

triageVars   == <<latest, storedStatus, readReport, overrides, busyFinding, writes, writesMade, othersMoves, doneIn>>
listVars     == <<filters, page, chosen, mounted, includeTest, filterMoves>>
findingsVars == <<triageVars, listVars, fresh>>

NoFinding == 0
NoFilters(tests) ==
  [source |-> "all", severities |-> Severities, category |-> "all", query |-> FALSE,
   showDone |-> FALSE, tests |-> tests]

(***************************************************************************)
(* The rows.                                                               *)
(***************************************************************************)
\* Mutant: a status is remembered for the finding, whatever its snapshot.
overrideAnywhere(snapshot, f) == <<1, f>>

overrideKey(snapshot, f) == <<snapshot, f>>

shownStatus(f) ==
  LET given == overrides[overrideKey(readReport.snapshot, f)]
  IN  IF given = "none" THEN readReport.status[f] ELSE given

sortKey == [f \in Keys |-> IF Findings[f].priority < 0 THEN Rank[Findings[f].severity]
                          ELSE Findings[f].priority]

\* The order of the report decides between equals.
before(f, g) ==
  \/ sortKey[f] > sortKey[g]
  \/ /\ sortKey[f] = sortKey[g]
     /\ \/ Rank[Findings[f].severity] > Rank[Findings[g].severity]
        \/ Findings[f].severity = Findings[g].severity /\ f < g

matches(f, how) ==
  /\ how.showDone \/ shownStatus(f) # "done"
  /\ how.tests \/ ~Findings[f].test
  /\ how.source = "all" \/ Findings[f].source = how.source
  /\ Findings[f].severity \in how.severities
  /\ how.category = "all" \/ Findings[f].category = how.category
  /\ how.query => Findings[f].matched

rowsOf(how) == {f \in Keys : matches(f, how)}
rows == rowsOf(filters)
place(f, among) == Cardinality({g \in among : before(g, f)})

pageCount(n) == IF n = 0 THEN 1 ELSE (n + PageSize - 1) \div PageSize

safePage(n) == IF page < pageCount(n) THEN page ELSE pageCount(n) - 1

visibleRows ==
  LET start == safePage(Cardinality(rows)) * PageSize
  IN  {f \in rows : place(f, rows) \in start..(start + PageSize - 1)}

\* Where a linked finding stands when the list opens.
linkedAt(f) ==
  LET at == rowsOf(NoFilters(includeTest)) IN IF f \in at THEN place(f, at) ELSE 0

(***************************************************************************)
(* The overview's own account of the same findings (dashboard-summary.ts). *)
(***************************************************************************)
inDefaultScope(f) == includeTest \/ ~Findings[f].test
openInScope == {f \in Keys : shownStatus(f) # "done" /\ inDefaultScope(f)}

priorityKey ==
  [f \in Keys |-> <<IF Findings[f].priority >= 0 THEN Findings[f].priority
                    ELSE Rank[Findings[f].severity], Rank[Findings[f].severity]>>]

byPriority(f, g) ==
  \/ priorityKey[f][1] > priorityKey[g][1]
  \/ priorityKey[f][1] = priorityKey[g][1] /\ priorityKey[f][2] > priorityKey[g][2]
  \/ priorityKey[f] = priorityKey[g] /\ f < g            \* the sort is stable

topFindings ==
  LET ranked == openInScope
  IN  {f \in ranked : Cardinality({g \in ranked : byPriority(g, f)}) < TopCount}

criticalAndHigh == Cardinality({f \in openInScope : Findings[f].severity \in {"critical", "high"}})

findingSummary ==
  LET scoped == {f \in Keys : inDefaultScope(f)} IN
  [total |-> Cardinality(scoped), open |-> Cardinality(openInScope),
   done |-> Cardinality(scoped) - Cardinality(openInScope)]

FindingsInit ==
  /\ latest = 1 /\ storedStatus = [x \in (1..Snapshots) \X Keys |-> "open"]
  /\ readReport = [snapshot |-> 1, status |-> [f \in Keys |-> storedStatus[<<1, f>>]]]
  /\ overrides = [x \in (1..Snapshots) \X Keys |-> "none"]
  /\ busyFinding = NoFinding /\ writes = {} /\ writesMade = 0 /\ othersMoves = 0
  /\ includeTest \in BOOLEAN /\ filters = NoFilters(includeTest)
  /\ page = 0 /\ chosen = NoFinding /\ mounted = FALSE /\ filterMoves = 0
  /\ fresh = FALSE /\ doneIn = {}

(***************************************************************************)
(* The status of a finding.                                                *)
(***************************************************************************)
changeFindingStatus(f) ==
  LET status == IF shownStatus(f) = "done" THEN "open" ELSE "done"
      key    == overrideKey(readReport.snapshot, f)
  IN  /\ writesMade < MaxTriage /\ writesMade' = writesMade + 1
      /\ busyFinding' = f /\ overrides' = [overrides EXCEPT ![key] = status]
      /\ writes' = writes \cup {[n |-> writesMade + 1, snapshot |-> readReport.snapshot, f |-> f,
                                 key |-> key, status |-> status, previous |-> shownStatus(f),
                                 state |-> "out"]}
      /\ doneIn' = IF status = "done" THEN doneIn \cup {<<readReport.snapshot, f>>} ELSE doneIn
      /\ fresh' = FALSE /\ UNCHANGED <<latest, storedStatus, readReport, othersMoves, listVars>>

\* The button of a row, and that of the open finding.
MarkRow(f)    == mounted /\ f \in visibleRows /\ busyFinding # f /\ changeFindingStatus(f)
MarkChosen    == mounted /\ chosen # NoFinding /\ busyFinding # chosen /\ changeFindingStatus(chosen)

\* set_status: an upsert; the status that a finding has already is not written again.  A call
\* that fails was refused, or it was applied and its answer is lost.
ServeStatus ==
  \E w \in {x \in writes : x.state = "out"}, answer \in {"done", "failed"} :
    /\ \/ storedStatus' = [storedStatus EXCEPT ![<<w.snapshot, w.f>>] = w.status]
       \/ answer = "failed" /\ UNCHANGED storedStatus
    /\ writes' = (writes \ {w}) \cup {[w EXCEPT !.state = answer]}
    /\ fresh' = FALSE
    /\ UNCHANGED <<latest, readReport, overrides, busyFinding, writesMade, othersMoves, doneIn, listVars>>

StatusAnswered ==
  \E w \in {x \in writes : x.state # "out"} :
    /\ writes' = writes \ {w} /\ busyFinding' = NoFinding
    /\ overrides' = IF w.state = "failed" THEN [overrides EXCEPT ![w.key] = w.previous] ELSE overrides
    /\ fresh' = FALSE /\ UNCHANGED <<latest, storedStatus, readReport, writesMade, othersMoves, doneIn, listVars>>

OthersTriage ==
  /\ othersMoves < MaxOthersTriage /\ othersMoves' = othersMoves + 1
  /\ \/ \E f \in Keys, status \in Statuses :
          /\ storedStatus[<<latest, f>>] # status /\ storedStatus' = [storedStatus EXCEPT ![<<latest, f>>] = status]
          /\ doneIn' = IF status = "done" THEN doneIn \cup {<<latest, f>>} ELSE doneIn
          /\ UNCHANGED latest
     \/ latest < Snapshots /\ latest' = latest + 1 /\ UNCHANGED <<storedStatus, doneIn>>
  /\ fresh' = FALSE /\ UNCHANGED <<readReport, overrides, busyFinding, writes, writesMade, listVars>>

\* The report is read again, or an older snapshot is opened: the list stays as it is.
ReadReport ==
  /\ \E s \in 1..latest :
       readReport' = [snapshot |-> s, status |-> [f \in Keys |-> storedStatus[<<s, f>>]]]
  /\ readReport' # readReport /\ fresh' = FALSE
  /\ UNCHANGED <<latest, storedStatus, overrides, busyFinding, writes, writesMade, othersMoves, doneIn, listVars>>

(***************************************************************************)
(* The list.                                                               *)
(***************************************************************************)
\* The view is chosen, with a finding or without: the list starts anew.
OpenFindings ==
  /\ ~mounted /\ mounted' = TRUE /\ fresh' = TRUE
  /\ chosen' \in Keys \cup {NoFinding}
  /\ filters' = NoFilters(includeTest)
  /\ page' = IF chosen' = NoFinding THEN 0 ELSE linkedAt(chosen') \div PageSize
  /\ UNCHANGED <<triageVars, includeTest, filterMoves>>

LeaveFindings ==
  /\ mounted /\ mounted' = FALSE /\ fresh' = FALSE
  /\ UNCHANGED <<triageVars, filters, page, chosen, includeTest, filterMoves>>

filterMove == mounted /\ filterMoves < MaxFilterMoves /\ filterMoves' = filterMoves + 1 /\ fresh' = FALSE
KeepList   == UNCHANGED <<triageVars, chosen, mounted, includeTest>>

onSelect(f) ==
  /\ filterMove /\ f \in visibleRows /\ chosen' = f
  /\ UNCHANGED <<triageVars, filters, page, mounted, includeTest>>

closeDetail ==
  /\ filterMove /\ chosen # NoFinding /\ chosen' = NoFinding
  /\ UNCHANGED <<triageVars, filters, page, mounted, includeTest>>

filtered(how) == filterMove /\ filters' = how /\ page' = 0 /\ KeepList

toggleSeverity(s) ==
  filtered([filters EXCEPT !.severities = IF s \in @ THEN @ \ {s} ELSE @ \cup {s}])

chooseSource(s)   == filtered([filters EXCEPT !.source = s])
chooseCategory(c) == filtered([filters EXCEPT !.category = c])
search            == filtered([filters EXCEPT !.query = ~@])
toggleDone        == filtered([filters EXCEPT !.showDone = ~@])
toggleTests       == filtered([filters EXCEPT !.tests = ~@])

\* Only findings that are done are left, or none matches: each case has a button of its own.
onlyDoneAreHidden == rows = {} /\ ~filters.showDone /\ \A f \in Keys : shownStatus(f) = "done"
noMatch           == rows = {} /\ ~onlyDoneAreHidden

\* Every filter but "Show done".
clearFilters ==
  /\ noMatch
  /\ filtered([NoFilters(includeTest) EXCEPT !.showDone = filters.showDone])

\* The findings that are done are shown, and the page is kept.
showDoneFindings ==
  /\ filterMove /\ onlyDoneAreHidden
  /\ filters' = [filters EXCEPT !.showDone = TRUE] /\ UNCHANGED page /\ KeepList

Previous ==
  /\ filterMove /\ safePage(Cardinality(rows)) > 0 /\ page' = safePage(Cardinality(rows)) - 1
  /\ UNCHANGED filters /\ KeepList

NextPage ==
  /\ filterMove /\ safePage(Cardinality(rows)) < pageCount(Cardinality(rows)) - 1 /\ page' = safePage(Cardinality(rows)) + 1
  /\ UNCHANGED filters /\ KeepList

\* The repository's choice changes: the list follows, whatever was chosen in it.
IncludeTestChanges ==
  /\ filterMoves < MaxFilterMoves /\ filterMoves' = filterMoves + 1 /\ fresh' = FALSE
  /\ includeTest' = ~includeTest /\ filters' = [filters EXCEPT !.tests = ~includeTest]
  /\ UNCHANGED <<triageVars, page, chosen, mounted>>

FindingsNext ==
  \/ ServeStatus \/ StatusAnswered \/ OthersTriage \/ ReadReport \/ MarkChosen
  \/ \E f \in Keys : MarkRow(f) \/ onSelect(f)
  \/ OpenFindings \/ LeaveFindings \/ closeDetail
  \/ \E s \in Severities : toggleSeverity(s)
  \/ \E s \in {"all"} \cup {Findings[f].source : f \in Keys} : chooseSource(s)
  \/ \E c \in {"all"} \cup {Findings[f].category : f \in Keys} : chooseCategory(c)
  \/ search \/ toggleDone \/ toggleTests \/ clearFilters \/ showDoneFindings
  \/ Previous \/ NextPage \/ IncludeTestChanges

FindingsSpec == FindingsInit /\ [][FindingsNext]_findingsVars

-----------------------------------------------------------------------------
\* A status belongs to one snapshot: whatever is answered late, and whichever snapshot is
\* read meanwhile, a finding shows as done only where somebody marked it done.
NeverCarriesOver ==
  \A f \in Keys : shownStatus(f) = "done" => <<readReport.snapshot, f>> \in doneIn

\* However rows leave the list, by a status, a filter or a new report, a list that has rows
\* shows some.
PageHasRows == mounted /\ rows # {} => visibleRows # {}

\* The list opens on the page of the finding that the address names, if the list has it.
LinkedFindingIsShown ==
  fresh /\ chosen # NoFinding /\ chosen \in rows => chosen \in visibleRows

\* What the overview ranks first are the first rows that the list opens with, and it counts
\* the findings that the list shows by default, with and without those that are done.
OverviewAgrees ==
  LET opens == rowsOf(NoFilters(includeTest))
      all   == rowsOf([NoFilters(includeTest) EXCEPT !.showDone = TRUE])
  IN  /\ topFindings = {f \in opens : place(f, opens) < TopCount}
      /\ findingSummary = [total |-> Cardinality(all), open |-> Cardinality(opens),
                           done |-> Cardinality(all \ opens)]
      /\ criticalAndHigh = Cardinality(rowsOf([NoFilters(includeTest) EXCEPT !.severities =
                             Severities \cap {"critical", "high"}]))

\* A status stays with its snapshot, a page has rows, a link is followed, and the overview
\* counts what the list shows.
FindingsInv == NeverCarriesOver /\ PageHasRows /\ LinkedFindingIsShown /\ OverviewAgrees
=============================================================================
