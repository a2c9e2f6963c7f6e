----------------------------- MODULE ProjectsPage -----------------------------
(***************************************************************************)
(* The projects page (app/(app)/projects/page.tsx with connect-repo.tsx,    *)
(* java-only-dialog.tsx, project-list.tsx and running-scan.tsx): a link is  *)
(* connected after the Java-only notice, its source scope is configured,   *)
(* its first scan is asked for, and a repository is removed.  Requests go  *)
(* on when the page is left, with what the page showed when they were sent. *)
(***************************************************************************)
EXTENDS Integers, FiniteSets

CONSTANTS Links,             \* GitHub links, each of one repository
          OtherLinks,        \* what is typed and is no GitHub repository
          MaxActs            \* together: connect requests of the tab, each with a dialog of its
                             \* own, acts of teammates, and answers that are lost

ASSUME ProjectsAssumption == MaxActs \in Nat

VARIABLES role,              \* of the user in the workspace
          hosted, measured,  \* the API: connected, and scanned before
          scanning, followed,           \* scans running; those this tab asked for
          elsewhere,         \* counts what teammates did, and lost answers
          rows, busyRows,    \* the list that was read; the last answer on activity
          onProjects,        \* the page is open
          selectedRepo,      \* the remembered selection
          typed, awaited,    \* the form: its link, the one it waits for
          pendingUrl, settle,            \* the Java-only dialog; the form's promise
          ackMode,           \* "Don't show this again", and what was chosen
          connectCalls,      \* the connect requests
          configuring, scopeSaves,       \* the connect whose source-scope dialog is open;
                                         \* those whose dialog has a save out
          pendingRemoval, removeCall,    \* the removal dialog, its request
          ours,              \* the requests of the page that is open, not of one left before
          flowScans          \* history: the scans that each connect has asked for

apiProjects  == <<hosted, measured, scanning, followed, elsewhere>>
readProjects == <<rows, busyRows>>
formVars     == <<typed, awaited, pendingUrl, settle>>
configVars   == <<configuring, scopeSaves>>
removeVars   == <<pendingRemoval, removeCall>>
pageVars     == <<onProjects, formVars, configuring, pendingRemoval, ours>>
projectsVars == <<role, apiProjects, readProjects, onProjects, selectedRepo, formVars, ackMode,
                  connectCalls, configVars, removeVars, ours, flowScans>>

NoRepo  == "no repository"
Connects == 1..MaxActs
Unasked  == [repo |-> NoRepo, mode |-> "connect", answer |-> "unasked"]
NoCall   == [repo |-> NoRepo]
TheRemoval == 0              \* among the requests that are ours
Modes   == {"scan", "connect"}
Roles   == {"manager", "developer", "viewer"}  \* org-admins may do here what managers may
canManage == role = "manager"                  \* connect, configure and disconnect
canScan   == role # "viewer"

asked      == {k \in Connects : connectCalls[k] # Unasked}
ActsLeft   == Cardinality(asked) + elsewhere < MaxActs
isOut(k)   == connectCalls[k].answer \in {"none", "connected", "refused"}
connecting == \E k \in ours \cap Connects : isOut(k)
removing   == removeCall # NoCall /\ TheRemoval \in ours
configureRepo == IF configuring = 0 THEN NoRepo ELSE connectCalls[configuring].repo
scanAfter(k)  == connectCalls[k].mode = "scan"
RowRepos   == rows.repos
activeRepo == IF selectedRepo \in RowRepos THEN selectedRepo ELSE NoRepo  \* no fallback here

\* A scan this tab follows, or one that the workspace's activity lists.
RunningScan(r) == r \in followed \/ r \in busyRows
ScanAwareAction(r) ==
  IF RunningScan(r) THEN "progress"
  ELSE IF r \notin rows.measured THEN "first scan"
  ELSE "dashboard"

\* A dialog covers the page.
Uncovered == onProjects /\ pendingUrl = NoRepo /\ configuring = 0 /\ pendingRemoval = NoRepo
FormOffered == Uncovered /\ canManage /\ ~connecting

\* Mutant: the dialog can be skipped while its configuration is being saved.
SkipAlwaysOffered == configuring # 0 /\ scanAfter(configuring)
SkipOffered == configuring # 0 /\ scanAfter(configuring) /\ configuring \notin scopeSaves

RemovalOffered(r) ==
  Uncovered /\ canManage /\ r \in RowRepos /\ ~(removing /\ removeCall.repo = r)

ProjectsInit ==
  /\ role \in Roles
  /\ hosted = {} /\ measured = {} /\ scanning = {} /\ elsewhere = 0
  /\ rows = [repos |-> {}, measured |-> {}] /\ busyRows = {} /\ followed = {}
  /\ onProjects = TRUE /\ selectedRepo = NoRepo
  /\ typed = NoRepo /\ awaited = NoRepo /\ pendingUrl = NoRepo /\ settle = NoRepo
  /\ ackMode = "ask" /\ connectCalls = [k \in Connects |-> Unasked]
  /\ configuring = 0 /\ scopeSaves = {}
  /\ pendingRemoval = NoRepo /\ removeCall = NoCall
  /\ ours = {} /\ flowScans = [k \in Connects |-> 0]

(***************************************************************************)
(* The API, its other users, and what the tab reads of it.                 *)
(***************************************************************************)
LeaveTab == UNCHANGED <<role, selectedRepo, pageVars, ackMode, connectCalls, scopeSaves,
                        removeCall, flowScans>>

ProjectsRead ==
  /\ rows' = [repos |-> hosted, measured |-> measured] /\ rows' # rows
  /\ LeaveTab /\ UNCHANGED <<apiProjects, busyRows>>

ActivityRead ==
  /\ busyRows' = scanning /\ busyRows' # busyRows
  /\ LeaveTab /\ UNCHANGED <<apiProjects, rows>>

ScanFinishes(r) ==
  /\ r \in scanning /\ scanning' = scanning \ {r} /\ measured' = measured \cup {r}
  /\ followed' = followed \ {r}  \* the scan center is told
  /\ LeaveTab /\ UNCHANGED <<hosted, elsewhere, readProjects>>

TeammateActs(r) ==
  /\ ActsLeft /\ elsewhere' = elsewhere + 1
  /\ \/ r \in hosted \ scanning /\ scanning' = scanning \cup {r} /\ UNCHANGED <<hosted, measured>>
     \/ r \in hosted \ scanning /\ hosted' = hosted \ {r} /\ measured' = measured \ {r}
        /\ UNCHANGED scanning
     \/ r \notin hosted /\ hosted' = hosted \cup {r} /\ UNCHANGED <<measured, scanning>>
  /\ LeaveTab /\ UNCHANGED <<readProjects, followed>>

(***************************************************************************)
(* Leaving the page and coming back: what a component holds is gone, the    *)
(* requests are not, and no longer are of the page that is open.           *)
(***************************************************************************)
ForgetPage ==
  /\ typed' = NoRepo /\ awaited' = NoRepo /\ pendingUrl' = NoRepo /\ settle' = NoRepo
  /\ configuring' = 0 /\ pendingRemoval' = NoRepo /\ ours' = {}

openDashboard(r) ==
  /\ selectedRepo' = r /\ onProjects' = FALSE /\ ForgetPage

\* startScan: joins a scan that runs, is refused when the repository is gone.
startFirstScan(r) ==
  /\ followed' = IF r \in hosted THEN followed \cup {r} ELSE followed
  /\ scanning' = IF r \in hosted THEN scanning \cup {r} ELSE scanning

LeaveRequests == UNCHANGED <<role, ackMode, connectCalls, removeCall>>

OpenRow(r) ==
  /\ Uncovered /\ r \in RowRepos /\ openDashboard(r)
  /\ LeaveRequests /\ UNCHANGED <<apiProjects, readProjects, scopeSaves, flowScans>>

RunFirstScan(r) ==
  /\ Uncovered /\ canScan /\ r \in RowRepos /\ ScanAwareAction(r) = "first scan"
  /\ startFirstScan(r) /\ openDashboard(r)
  /\ LeaveRequests
  /\ UNCHANGED <<hosted, measured, elsewhere, readProjects, scopeSaves, flowScans>>

BackToProjects ==
  /\ ~onProjects /\ onProjects' = TRUE
  /\ LeaveRequests
  /\ UNCHANGED <<apiProjects, readProjects, selectedRepo, formVars, configVars, pendingRemoval,
                 ours, flowScans>>

(***************************************************************************)
(* Connecting.                                                             *)
(***************************************************************************)
LeaveRest == UNCHANGED <<role, onProjects, removeVars, flowScans>>

connect(link, mode) ==
  /\ ActsLeft
  /\ \E k \in Connects :
    /\ \A j \in Connects : j \in asked <=> j < k
    /\ connectCalls' = [connectCalls EXCEPT ![k] = [repo |-> link, mode |-> mode, answer |-> "none"]]
    /\ ours' = ours \cup {k}

TypeLink(link) ==
  /\ FormOffered /\ typed # link /\ typed' = link
  /\ LeaveRest /\ UNCHANGED <<apiProjects, readProjects, selectedRepo, awaited, pendingUrl, settle,
       ackMode, connectCalls, configVars, ours>>

\* A link that is no repository is refused at once, and the form keeps it.
onConnect ==
  /\ FormOffered /\ typed \in Links /\ awaited' = typed
  /\ IF ackMode \in Modes
       THEN connect(typed, ackMode) /\ UNCHANGED <<pendingUrl, settle>>
       ELSE pendingUrl' = typed /\ settle' = typed /\ UNCHANGED <<connectCalls, ours>>
  /\ LeaveRest /\ UNCHANGED <<apiProjects, readProjects, selectedRepo, typed, ackMode, configVars>>

takePending == pendingUrl' = NoRepo /\ settle' = NoRepo

onConfirmConnect(mode, dontShow) ==
  /\ pendingUrl # NoRepo
  /\ ackMode' = IF dontShow THEN mode ELSE ackMode
  /\ connect(pendingUrl, mode) /\ takePending
  /\ LeaveRest /\ UNCHANGED <<apiProjects, readProjects, selectedRepo, typed, awaited, configVars>>

\* What the form does with the answer of its promise.
formSettled(connected) ==
  /\ awaited' = NoRepo
  /\ typed' = IF connected /\ awaited # NoRepo THEN NoRepo ELSE typed

onCancelConnect ==
  /\ pendingUrl # NoRepo /\ takePending /\ formSettled(FALSE)
  /\ LeaveRest /\ UNCHANGED <<apiProjects, readProjects, selectedRepo, ackMode, connectCalls,
       configVars, ours>>

\* Refused when the workspace has it, and for what GitHub says of it.  A lost answer is a
\* refusal to the page.
ServeConnect(k) ==
  /\ connectCalls[k].answer = "none"
  /\ \E answer \in {"connected", "refused"}, lost \in BOOLEAN :
       /\ answer = "connected" \/ lost => connectCalls[k].repo \notin hosted
       /\ hosted' = IF answer = "connected" \/ lost THEN hosted \cup {connectCalls[k].repo} ELSE hosted
       /\ IF lost THEN answer = "refused" /\ ActsLeft /\ elsewhere' = elsewhere + 1
                  ELSE UNCHANGED elsewhere
       /\ connectCalls' = [connectCalls EXCEPT ![k].answer = answer]
  /\ LeaveRest /\ UNCHANGED <<measured, scanning, followed, readProjects, selectedRepo,
       formVars, ackMode, configVars, ours>>

\* Whoever may connect may also configure: the dialog asks before the first scan.
\* When its page has been left, nobody is asked, and the scan that was chosen is lost.
Connected(k) ==
  /\ connectCalls[k].answer = "connected"
  /\ connectCalls' = [connectCalls EXCEPT ![k].answer = "done"]
  /\ rows' = [rows EXCEPT !.repos = @ \cup {connectCalls[k].repo}]
  /\ selectedRepo' = connectCalls[k].repo
  /\ IF k \in ours THEN formSettled(TRUE) /\ configuring' = k
                   ELSE UNCHANGED <<typed, awaited, configuring>>
  /\ LeaveRest /\ UNCHANGED <<apiProjects, busyRows, pendingUrl, settle, ackMode, scopeSaves, ours>>

ConnectRefused(k) ==
  /\ connectCalls[k].answer = "refused"
  /\ connectCalls' = [connectCalls EXCEPT ![k] = [Unasked EXCEPT !.answer = "done"]]
  /\ IF k \in ours THEN formSettled(FALSE) ELSE UNCHANGED <<typed, awaited>>
  /\ LeaveRest /\ UNCHANGED <<apiProjects, readProjects, selectedRepo, pendingUrl, settle, ackMode,
       configVars, ours>>

(***************************************************************************)
(* The source scope of a new repository, then its first scan.  Each dialog *)
(* saves once at a time, and its answer finishes the configuration of the  *)
(* click, also when the dialog was closed.                                 *)
(***************************************************************************)
\* A page that was left is not changed any more; the first scan is asked for all the same.
finishConfiguration(k) ==
  IF scanAfter(k)
    THEN /\ startFirstScan(connectCalls[k].repo) /\ openDashboard(connectCalls[k].repo)
         /\ flowScans' = [flowScans EXCEPT ![k] = @ + 1]
         /\ UNCHANGED <<hosted, measured, elsewhere, readProjects>>
    ELSE /\ configuring' = IF k \in ours THEN 0 ELSE configuring
         /\ UNCHANGED <<apiProjects, readProjects, onProjects, selectedRepo, formVars,
                        pendingRemoval, ours, flowScans>>

LeavePage == UNCHANGED <<apiProjects, readProjects, onProjects, selectedRepo, formVars,
                         pendingRemoval, ours, flowScans>>

SaveScope ==
  /\ configuring # 0 /\ configuring \notin scopeSaves
  /\ scopeSaves' = scopeSaves \cup {configuring}
  /\ LeaveRequests /\ LeavePage /\ UNCHANGED configuring

ScopeIsSaved(k) ==
  /\ k \in scopeSaves /\ scopeSaves' = scopeSaves \ {k}
  /\ finishConfiguration(k) /\ LeaveRequests

ScopeNotSaved(k) ==
  /\ k \in scopeSaves /\ scopeSaves' = scopeSaves \ {k}
  /\ LeaveRequests /\ LeavePage /\ UNCHANGED configuring

SkipScope ==
  /\ SkipOffered /\ finishConfiguration(configuring)
  /\ LeaveRequests /\ UNCHANGED scopeSaves

CloseConfigure ==
  /\ configuring # 0 /\ configuring' = 0
  /\ LeaveRequests /\ LeavePage /\ UNCHANGED scopeSaves

(***************************************************************************)
(* Removing.  (Bound: a second removal, which a page that was opened anew  *)
(* offers while the first is out, waits for it.)                           *)
(***************************************************************************)
LeaveOthers == UNCHANGED <<role, busyRows, onProjects, formVars, ackMode, connectCalls, configVars,
                           flowScans>>

AskRemoval(r) ==
  /\ RemovalOffered(r) /\ pendingRemoval' = r
  /\ LeaveOthers /\ UNCHANGED <<apiProjects, rows, selectedRepo, removeCall, ours>>

CancelRemoval ==
  /\ pendingRemoval # NoRepo /\ pendingRemoval' = NoRepo
  /\ LeaveOthers /\ UNCHANGED <<apiProjects, rows, selectedRepo, removeCall, ours>>

onRemove ==
  /\ pendingRemoval # NoRepo /\ removeCall = NoCall
  /\ removeCall' = [repo |-> pendingRemoval, active |-> activeRepo,
                    rest |-> RowRepos \ {pendingRemoval}, answer |-> "none"]
  /\ ours' = ours \cup {TheRemoval}
  /\ LeaveOthers /\ UNCHANGED <<apiProjects, rows, selectedRepo, pendingRemoval>>

\* Refused while a scan is queued or running; gone already is refused too, and a lost answer
\* is a refusal to the page.
ServeRemoval ==
  /\ removeCall # NoCall /\ removeCall.answer = "none"
  /\ \E answer \in {"removed", "refused"}, gone \in SUBSET ({removeCall.repo} \cap (hosted \ scanning)) :
       /\ answer = "removed" => gone # {}
       /\ IF answer = "refused" /\ gone # {} THEN ActsLeft /\ elsewhere' = elsewhere + 1
                                            ELSE UNCHANGED elsewhere
       /\ hosted' = hosted \ gone /\ measured' = measured \ gone
       /\ removeCall' = [removeCall EXCEPT !.answer = answer]
  /\ LeaveOthers
  /\ UNCHANGED <<scanning, followed, rows, selectedRepo, pendingRemoval, ours>>

\* The list and the selection are those of the render that sent the request.
Removed ==
  /\ removeCall # NoCall /\ removeCall.answer = "removed" /\ removeCall' = NoCall
  /\ rows' = [rows EXCEPT !.repos = removeCall.rest]
  /\ IF removeCall.active = removeCall.repo
       THEN selectedRepo' \in IF removeCall.rest = {} THEN {NoRepo} ELSE removeCall.rest
       ELSE selectedRepo' = selectedRepo
  /\ pendingRemoval' = IF TheRemoval \in ours THEN NoRepo ELSE pendingRemoval
  /\ ours' = ours \ {TheRemoval}
  /\ LeaveOthers /\ UNCHANGED apiProjects

RemovalRefused ==
  /\ removeCall # NoCall /\ removeCall.answer = "refused" /\ removeCall' = NoCall
  /\ ours' = ours \ {TheRemoval}
  /\ LeaveOthers /\ UNCHANGED <<apiProjects, rows, selectedRepo, pendingRemoval>>

ProjectsNext ==
  \/ ProjectsRead \/ ActivityRead \/ BackToProjects
  \/ \E r \in Links : \/ ScanFinishes(r) \/ TeammateActs(r) \/ OpenRow(r)
                      \/ RunFirstScan(r) \/ AskRemoval(r)
  \/ \E link \in Links \cup OtherLinks : TypeLink(link)
  \/ onConnect \/ onCancelConnect \/ SaveScope \/ SkipScope \/ CloseConfigure
  \/ \E k \in Connects : \/ ServeConnect(k) \/ Connected(k) \/ ConnectRefused(k)
                         \/ ScopeIsSaved(k) \/ ScopeNotSaved(k)
  \/ \E mode \in Modes, dontShow \in BOOLEAN : onConfirmConnect(mode, dontShow)
  \/ CancelRemoval \/ onRemove \/ ServeRemoval \/ Removed \/ RemovalRefused

ProjectsSpec == ProjectsInit /\ [][ProjectsNext]_projectsVars

-----------------------------------------------------------------------------
\* A promise the form waits for is never dropped: the dialog holds it, or a request of this
\* page for the same link is out.
FormIsAnswered ==
  awaited # NoRepo =>
    settle = awaited \/ \E k \in ours \cap Connects : isOut(k) /\ connectCalls[k].repo = awaited

\* A first scan that was chosen with a connection is asked for once at most, however
\* the dialog is saved, skipped and closed, and never when it was not chosen.
OneFirstScanPerConnect ==
  \A k \in Connects : flowScans[k] <= IF scanAfter(k) THEN 1 ELSE 0

\* However dialogs, forms and requests of several visits to the page overlap, no form waits
\* for nothing and no first scan is asked for twice.
ProjectsInv == FormIsAnswered /\ OneFirstScanPerConnect
=============================================================================
