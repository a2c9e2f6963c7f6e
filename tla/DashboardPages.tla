--------------------------- MODULE DashboardPages ---------------------------
(***************************************************************************)
(* The dashboard and what is on it. A behaviour picks one of them and      *)
(* leaves the others as they start: they share no state that a page        *)
(* changes while another is used, but one run checks them all.             *)
(***************************************************************************)
EXTENDS DashboardPage, FindingsTab, FindingDetail, DashboardViews,
        HealthTrend, ScanBar

VARIABLE showing

allVars == <<showing, dashboardVars, findingsVars, detailVars, viewsVars,
             trendVars, barVars>>
Parts   == {"dashboard", "findings", "detail", "views", "trend", "bar"}

ViewsAtRest ==
  /\ storage = "works" /\ reader = CHOOSE r \in Readers : TRUE
  /\ oldStored = CHOOSE old \in [Readers -> OldModes] : TRUE

Init ==
  /\ showing \in Parts
  /\ DashboardInit /\ FindingsInit /\ DetailInit
  /\ ViewsInit /\ TrendInit /\ BarInit
  /\ showing # "dashboard" => connectedRepo = FALSE
  /\ showing # "findings" => includeTest = FALSE
  /\ showing # "detail" => commit = NoCommit /\ ~repoKnown
  /\ showing # "views" => ViewsAtRest

DashboardSteps ==
  /\ showing = "dashboard" /\ DashboardNext
  /\ UNCHANGED <<showing, findingsVars, detailVars, viewsVars, trendVars, barVars>>

FindingsSteps ==
  /\ showing = "findings" /\ FindingsNext
  /\ UNCHANGED <<showing, dashboardVars, detailVars, viewsVars, trendVars, barVars>>

DetailSteps ==
  /\ showing = "detail" /\ DetailNext
  /\ UNCHANGED <<showing, dashboardVars, findingsVars, viewsVars, trendVars, barVars>>

ViewsSteps ==
  /\ showing = "views" /\ ViewsNext
  /\ UNCHANGED <<showing, dashboardVars, findingsVars, detailVars, trendVars, barVars>>

TrendSteps ==
  /\ showing = "trend" /\ TrendNext
  /\ UNCHANGED <<showing, dashboardVars, findingsVars, detailVars, viewsVars, barVars>>

BarSteps ==
  /\ showing = "bar" /\ BarNext
  /\ UNCHANGED <<showing, dashboardVars, findingsVars, detailVars, viewsVars, trendVars>>

Next ==
  \/ DashboardSteps
  \/ FindingsSteps
  \/ DetailSteps
  \/ ViewsSteps
  \/ TrendSteps
  \/ BarSteps

Spec == Init /\ [][Next]_allVars

-----------------------------------------------------------------------------
\* What is not on the page rests: what it promises is looked at while it is shown.
\* A status stays with its snapshot, a page of the list has rows, a link to a finding is
\* followed, and the overview counts what the list shows.
ListInv == showing = "findings" => FindingsInv

\* The code under a finding is its own, is waited for while it is missing, and holds its line.
ExcerptInv == showing = "detail" => DetailInv

\* The results, the views, the trend and the bar beside them keep their promises.
PanesInv == DashboardInv /\ TabIsLastChoice /\ TrendFits /\ BarInv
=============================================================================
