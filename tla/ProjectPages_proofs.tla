------------------------- MODULE ProjectPages_proofs -------------------------
(***************************************************************************)
(* What the pages of a workspace's projects promise, for any repositories, *)
(* workspaces, branches, profiles, requests and teammates.                 *)
(***************************************************************************)
EXTENDS ProjectPages, FiniteSetTheorems, WellFoundedInduction, TLAPS

(***************************************************************************)
(* Connecting: the form and the first scan.                                *)
(***************************************************************************)
ConnectAsks == [repo : Links \cup {NoRepo}, mode : Modes,
                answer : {"unasked", "none", "connected", "refused", "done"}]

ConnectShape ==
  /\ connectCalls \in [Connects -> ConnectAsks]
  /\ pendingUrl \in Links \cup {NoRepo} /\ settle = pendingUrl
  /\ configuring \in Connects \cup {0}
  /\ scopeSaves \subseteq Connects
  /\ ours \subseteq Connects \cup {TheRemoval}
  /\ flowScans \in [Connects -> Nat]

\* The dialog is only open while no request is out, so confirming it drops no promise.
DialogBeforeRequest == pendingUrl # NoRepo => ~connecting

\* The form waits for the link of the dialog, or for the request that is out.
FormWaits == awaited # NoRepo =>
               settle = awaited \/ \E k \in ours \cap Connects : isOut(k) /\ connectCalls[k].repo = awaited

\* A connect whose dialog is open or has a save out was answered and has asked for no scan yet;
\* one that asked for a scan was answered too, and the scan was chosen.
ScanIsOwed ==
  /\ configuring # 0 => flowScans[configuring] = 0 /\ connectCalls[configuring].answer = "done"
  /\ \A k \in scopeSaves : flowScans[k] = 0 /\ connectCalls[k].answer = "done"
  /\ \A k \in Connects : flowScans[k] <= 1
  /\ \A k \in Connects : flowScans[k] > 0 => scanAfter(k) /\ connectCalls[k].answer = "done"

ConnectInv == ConnectShape /\ DialogBeforeRequest /\ FormWaits /\ ScanIsOwed

LEMMA ConnectInit ==
  ASSUME ProjectsInit PROVE ConnectInv
<1>1. Unasked \in ConnectAsks
  BY DEF Unasked, ConnectAsks, Modes
<1>2. ConnectShape
  BY <1>1 DEF ProjectsInit, ConnectShape
<1>3. DialogBeforeRequest /\ FormWaits
  BY DEF ProjectsInit, DialogBeforeRequest, FormWaits
<1>4. ScanIsOwed
  BY DEF ProjectsInit, ScanIsOwed
<1> QED
  BY <1>2, <1>3, <1>4 DEF ConnectInv

\* What the steps of the list, of teammates and of removals leave alone.
LEMMA ConnectRests ==
  ASSUME ConnectInv,
         UNCHANGED <<awaited, pendingUrl, settle, connectCalls, configuring, scopeSaves, flowScans>>,
         ours' \in {ours, ours \cup {TheRemoval}, ours \ {TheRemoval}}
  PROVE  ConnectInv'
<1>1. ours' \cap Connects = ours \cap Connects /\ ours' \subseteq Connects \cup {TheRemoval}
  BY DEF ConnectInv, ConnectShape, Connects, TheRemoval
<1>2. \A k : isOut(k)' = isOut(k) /\ scanAfter(k)' = scanAfter(k)
  BY DEF isOut, scanAfter
<1>3. ConnectShape' /\ ScanIsOwed'
  BY <1>1, <1>2 DEF ConnectInv, ConnectShape, ScanIsOwed
<1>4. connecting' = connecting
  BY <1>1, <1>2 DEF connecting
<1>5. DialogBeforeRequest' /\ FormWaits'
  BY <1>1, <1>2, <1>4 DEF ConnectInv, DialogBeforeRequest, FormWaits
<1> QED
  BY <1>3, <1>5 DEF ConnectInv

\* Leaving the page, perhaps with the scan of a connect that had asked for none.
LEMMA ConnectLeft ==
  ASSUME ConnectInv, ForgetPage, connectCalls' = connectCalls, scopeSaves' \subseteq scopeSaves,
         \/ flowScans' = flowScans
         \/ \E k \in Connects \ scopeSaves' :
              /\ flowScans[k] = 0 /\ scanAfter(k) /\ connectCalls[k].answer = "done"
              /\ flowScans' = [flowScans EXCEPT ![k] = @ + 1]
  PROVE  ConnectInv'
<1>0. ConnectShape /\ ScanIsOwed
  BY DEF ConnectInv
<1>1. ConnectShape'
  BY <1>0 DEF ConnectShape, ForgetPage
<1>2. DialogBeforeRequest' /\ FormWaits'
  BY DEF ForgetPage, DialogBeforeRequest, FormWaits
<1>3. \A k : scanAfter(k)' = scanAfter(k)
  BY DEF scanAfter
<1>4. configuring' = 0
  BY DEF ForgetPage
<1>5. ScanIsOwed'
  <2>1. CASE flowScans' = flowScans
    BY <1>0, <1>3, <1>4, <2>1 DEF ScanIsOwed, ConnectShape
  <2>2. ASSUME NEW k \in Connects \ scopeSaves', flowScans[k] = 0, scanAfter(k),
               connectCalls[k].answer = "done", flowScans' = [flowScans EXCEPT ![k] = @ + 1]
        PROVE  ScanIsOwed'
    <3>1. flowScans'[k] = 1 /\ \A j \in Connects \ {k} : flowScans'[j] = flowScans[j]
      BY <1>0, <2>2 DEF ConnectShape
    <3> QED BY <1>0, <1>3, <1>4, <2>2, <3>1 DEF ScanIsOwed, ConnectShape
  <2> QED BY <2>1, <2>2
<1> QED
  BY <1>1, <1>2, <1>5 DEF ConnectInv

\* A request is sent: the form now waits for it, if it waited for its link.
LEMMA ConnectAsked ==
  ASSUME ConnectInv, NEW link \in Links, NEW mode \in Modes, connect(link, mode),
         pendingUrl' = NoRepo, settle' = NoRepo, awaited' \in {NoRepo, link},
         UNCHANGED <<configuring, scopeSaves, flowScans>>
  PROVE  ConnectInv'
<1>0. ConnectShape /\ ScanIsOwed
  BY DEF ConnectInv
<1>1. PICK k \in Connects :
        /\ \A j \in Connects : j \in asked <=> j < k
        /\ connectCalls' = [connectCalls EXCEPT ![k] = [repo |-> link, mode |-> mode, answer |-> "none"]]
        /\ ours' = ours \cup {k}
  BY DEF connect
<1>2. connectCalls[k] = Unasked
  BY <1>1 DEF asked, Connects
<1> DEFINE ask == [repo |-> link, mode |-> mode, answer |-> "none"]
<1>3. ask \in ConnectAsks /\ ask.repo = link /\ ask.answer = "none" /\ ask.mode = mode
  BY DEF ConnectAsks
<1> HIDE DEF ask
<1>4. connectCalls'[k] = ask /\ \A j \in Connects \ {k} : connectCalls'[j] = connectCalls[j]
  BY <1>0, <1>1 DEF ConnectShape, ask
<1>5. ConnectShape'
  BY <1>0, <1>1, <1>3, <1>4 DEF ConnectShape, ask
<1>6. k \in ours' \cap Connects /\ isOut(k)'
  BY <1>1, <1>3, <1>4 DEF isOut
<1>7. DialogBeforeRequest' /\ FormWaits'
  BY <1>3, <1>4, <1>6 DEF DialogBeforeRequest, FormWaits
<1>8. flowScans[k] = 0 /\ k \notin scopeSaves /\ k # configuring
  <2>1. connectCalls[k].answer # "done" /\ k # 0 /\ flowScans[k] \in Nat
    BY <1>0, <1>2 DEF Unasked, ConnectShape, Connects
  <2>2. ~(flowScans[k] > 0) /\ k \notin scopeSaves
    BY <1>0, <2>1 DEF ScanIsOwed
  <2>3. k # configuring
    BY <1>0, <2>1 DEF ScanIsOwed
  <2> QED BY <2>1, <2>2, <2>3
<1>9. ScanIsOwed'
  BY <1>0, <1>4, <1>8 DEF ScanIsOwed, ConnectShape, scanAfter
<1> QED
  BY <1>5, <1>7, <1>9 DEF ConnectInv

\* A request is answered, and the answer is heard: a connect asks for no scan before.
LEMMA ConnectMoves ==
  ASSUME ConnectInv, NEW k \in Connects, isOut(k),
         NEW to \in ConnectAsks, to.answer # "unasked",
         connectCalls' = [connectCalls EXCEPT ![k] = to],
         \/ /\ to.answer \in {"connected", "refused"} /\ to.repo = connectCalls[k].repo
            /\ UNCHANGED <<awaited, configuring>>
         \/ /\ to.answer = "done"
            /\ IF k \in ours THEN awaited' = NoRepo ELSE awaited' = awaited
            /\ configuring' \in {k, configuring},
         UNCHANGED <<pendingUrl, settle, scopeSaves, ours, flowScans>>
  PROVE  ConnectInv'
<1>0. ConnectShape /\ DialogBeforeRequest /\ FormWaits /\ ScanIsOwed
  BY DEF ConnectInv
<1>1. connectCalls'[k] = to /\ \A j \in Connects \ {k} : connectCalls'[j] = connectCalls[j]
  BY <1>0 DEF ConnectShape
<1>2. ConnectShape'
  BY <1>0 DEF ConnectShape
<1>3. flowScans[k] = 0 /\ k \notin scopeSaves /\ k # configuring
  <2>1. connectCalls[k].answer # "done" /\ k # 0 /\ flowScans[k] \in Nat
    BY <1>0 DEF isOut, ConnectShape, Connects
  <2>2. ~(flowScans[k] > 0) /\ k \notin scopeSaves
    BY <1>0, <2>1 DEF ScanIsOwed
  <2>3. k # configuring
    BY <1>0, <2>1 DEF ScanIsOwed
  <2> QED BY <2>1, <2>2, <2>3
<1>4. ScanIsOwed'
  BY <1>0, <1>1, <1>3 DEF ScanIsOwed, ConnectShape, scanAfter
<1>5. \A j \in Connects \ {k} : isOut(j)' = isOut(j)
  BY <1>1 DEF isOut
<1>6. connecting' => connecting
  BY <1>5 DEF connecting
<1>7. DialogBeforeRequest'
  BY <1>0, <1>6 DEF DialogBeforeRequest
<1>8. FormWaits'
  <2>1. CASE to.answer \in {"connected", "refused"}
    <3>1. isOut(k)' /\ connectCalls'[k].repo = connectCalls[k].repo /\ awaited' = awaited
      BY <1>1, <2>1 DEF isOut
    <3> QED BY <1>0, <1>1, <1>5, <3>1 DEF FormWaits
  <2>2. CASE to.answer = "done" /\ k \in ours
    BY <2>2 DEF FormWaits
  <2>3. CASE to.answer = "done" /\ k \notin ours
    BY <1>0, <1>1, <1>5, <2>3 DEF FormWaits
  <2> QED BY <2>1, <2>2, <2>3
<1> QED
  BY <1>2, <1>4, <1>7, <1>8 DEF ConnectInv

LEMMA ConnectNext ==
  ASSUME ConnectInv, [ProjectsNext]_projectsVars
  PROVE  ConnectInv'
<1> USE DEF projectsVars, apiProjects, readProjects, formVars, configVars, removeVars, pageVars
<1>0. ConnectShape /\ DialogBeforeRequest /\ FormWaits /\ ScanIsOwed
  BY DEF ConnectInv
<1>1. CASE \/ UNCHANGED projectsVars
           \/ ProjectsRead \/ ActivityRead \/ BackToProjects
           \/ \E r \in Links : ScanFinishes(r) \/ TeammateActs(r) \/ AskRemoval(r)
           \/ \E link \in Links \cup OtherLinks : TypeLink(link)
           \/ CancelRemoval \/ onRemove \/ ServeRemoval \/ Removed \/ RemovalRefused
  <2>1. UNCHANGED <<awaited, pendingUrl, settle, connectCalls, configuring, scopeSaves, flowScans>>
    BY <1>1 DEF ProjectsRead, ActivityRead, BackToProjects, ScanFinishes, TeammateActs,
         AskRemoval, TypeLink, CancelRemoval, onRemove, ServeRemoval, Removed, RemovalRefused,
         LeaveTab, LeaveOthers, LeaveRest, LeaveRequests
  <2>2. ours' \in {ours, ours \cup {TheRemoval}, ours \ {TheRemoval}}
    BY <1>1 DEF ProjectsRead, ActivityRead, BackToProjects, ScanFinishes, TeammateActs,
         AskRemoval, TypeLink, CancelRemoval, onRemove, ServeRemoval, Removed, RemovalRefused,
         LeaveTab, LeaveOthers, LeaveRest, LeaveRequests
  <2> QED BY <2>1, <2>2, ConnectRests
<1>2. CASE \E r \in Links : OpenRow(r) \/ RunFirstScan(r)
  <2>1. ForgetPage /\ UNCHANGED <<connectCalls, scopeSaves, flowScans>>
    BY <1>2 DEF OpenRow, RunFirstScan, openDashboard, LeaveRequests
  <2> QED BY <2>1, ConnectLeft
<1>3. CASE onConnect
  <2>1. /\ typed \in Links /\ awaited' = typed /\ ~connecting /\ pendingUrl = NoRepo
        /\ UNCHANGED <<configuring, scopeSaves, flowScans>>
    BY <1>3 DEF onConnect, FormOffered, Uncovered, LeaveRest
  <2>2. CASE ackMode \in Modes
    <3>1. connect(typed, ackMode) /\ UNCHANGED <<pendingUrl, settle>>
      BY <1>3, <2>2 DEF onConnect
    <3> QED BY <1>0, <2>1, <2>2, <3>1, ConnectAsked DEF ConnectShape
  <2>3. CASE ackMode \notin Modes
    <3>1. pendingUrl' = typed /\ settle' = typed /\ UNCHANGED <<connectCalls, ours>>
      BY <1>3, <2>3 DEF onConnect
    <3>2. ConnectShape' /\ FormWaits'
      BY <1>0, <2>1, <3>1 DEF ConnectShape, FormWaits
    <3>3. DialogBeforeRequest' /\ ScanIsOwed'
      BY <1>0, <2>1, <3>1 DEF DialogBeforeRequest, ScanIsOwed, connecting, isOut, scanAfter
    <3> QED BY <3>2, <3>3 DEF ConnectInv
  <2> QED BY <2>2, <2>3
<1>4. CASE \E mode \in Modes, dontShow \in BOOLEAN : onConfirmConnect(mode, dontShow)
  <2>1. PICK mode \in Modes : onConfirmConnect(mode, TRUE) \/ onConfirmConnect(mode, FALSE)
    BY <1>4
  <2>2. /\ pendingUrl # NoRepo /\ pendingUrl' = NoRepo /\ settle' = NoRepo /\ awaited' = awaited
        /\ connect(pendingUrl, mode) /\ UNCHANGED <<configuring, scopeSaves, flowScans>>
    BY <2>1 DEF onConfirmConnect, takePending, LeaveRest
  <2>3. pendingUrl \in Links /\ awaited \in {NoRepo, pendingUrl}
    BY <1>0, <2>2 DEF DialogBeforeRequest, FormWaits, ConnectShape, connecting
  <2> QED BY <2>2, <2>3, ConnectAsked
<1>5. CASE onCancelConnect
  <2>1. /\ pendingUrl' = NoRepo /\ settle' = NoRepo /\ awaited' = NoRepo
        /\ UNCHANGED <<connectCalls, configuring, scopeSaves, ours, flowScans>>
    BY <1>5 DEF onCancelConnect, takePending, formSettled, LeaveRest
  <2> QED BY <1>0, <2>1
          DEF ConnectInv, ConnectShape, DialogBeforeRequest, FormWaits, ScanIsOwed, scanAfter
<1>6. ASSUME NEW k \in Connects, ServeConnect(k) PROVE ConnectInv'
  <2>1. PICK answer \in {"connected", "refused"} :
          connectCalls' = [connectCalls EXCEPT ![k].answer = answer]
    BY <1>6 DEF ServeConnect
  <2> DEFINE to == [connectCalls[k] EXCEPT !.answer = answer]
  <2>2. to \in ConnectAsks /\ to.answer = answer /\ to.repo = connectCalls[k].repo
    BY <1>0 DEF ConnectShape, ConnectAsks
  <2>3. connectCalls' = [connectCalls EXCEPT ![k] = to]
    BY <1>0, <2>1 DEF ConnectShape
  <2>4. isOut(k) /\ UNCHANGED <<awaited, configuring, pendingUrl, settle, scopeSaves, ours, flowScans>>
    BY <1>6 DEF ServeConnect, isOut, LeaveRest
  <2> HIDE DEF to
  <2> QED BY <2>1, <2>2, <2>3, <2>4, ConnectMoves
<1>7. ASSUME NEW k \in Connects, Connected(k) \/ ConnectRefused(k) PROVE ConnectInv'
  <2>1. PICK to \in ConnectAsks : to.answer = "done" /\ connectCalls' = [connectCalls EXCEPT ![k] = to]
    <3>1. CASE Connected(k)
      <4> DEFINE to == [connectCalls[k] EXCEPT !.answer = "done"]
      <4>1. to \in ConnectAsks /\ to.answer = "done"
        BY <1>0 DEF ConnectShape, ConnectAsks
      <4>2. connectCalls' = [connectCalls EXCEPT ![k] = to]
        BY <1>0, <3>1 DEF Connected, ConnectShape
      <4> HIDE DEF to
      <4> QED BY <4>1, <4>2
    <3>2. CASE ConnectRefused(k)
      <4> DEFINE to == [Unasked EXCEPT !.answer = "done"]
      <4>1. to \in ConnectAsks /\ to.answer = "done"
        BY DEF Unasked, ConnectAsks, Modes
      <4>2. connectCalls' = [connectCalls EXCEPT ![k] = to]
        BY <3>2 DEF ConnectRefused
      <4> HIDE DEF to
      <4> QED BY <4>1, <4>2
    <3> QED BY <1>7, <3>1, <3>2
  <2>2. /\ isOut(k) /\ UNCHANGED <<pendingUrl, settle, scopeSaves, ours, flowScans>>
        /\ (IF k \in ours THEN awaited' = NoRepo ELSE awaited' = awaited)
        /\ configuring' \in {k, configuring}
    BY <1>7 DEF Connected, ConnectRefused, isOut, LeaveRest, formSettled
  <2> QED BY <2>1, <2>2, ConnectMoves
<1>8. ASSUME NEW k \in Connects, finishConfiguration(k), connectCalls' = connectCalls,
             k \notin scopeSaves', scopeSaves' \subseteq scopeSaves,
             flowScans[k] = 0, connectCalls[k].answer = "done"
      PROVE  ConnectInv'
  <2>1. CASE scanAfter(k)
    <3>1. ForgetPage /\ flowScans' = [flowScans EXCEPT ![k] = @ + 1]
      BY <1>8, <2>1 DEF finishConfiguration, openDashboard
    <3> QED BY <1>8, <2>1, <3>1, ConnectLeft
  <2>2. CASE ~scanAfter(k)
    <3>1. /\ configuring' \in {0, configuring}
          /\ UNCHANGED <<awaited, pendingUrl, settle, ours, flowScans>>
      BY <1>8, <2>2 DEF finishConfiguration
    <3>2. ConnectShape' /\ ScanIsOwed'
      BY <1>0, <1>8, <3>1 DEF ConnectShape, ScanIsOwed, scanAfter
    <3>3. DialogBeforeRequest' /\ FormWaits'
      BY <1>0, <1>8, <3>1 DEF DialogBeforeRequest, FormWaits, connecting, isOut
    <3> QED BY <3>2, <3>3 DEF ConnectInv
  <2> QED BY <2>1, <2>2
<1>9. ASSUME NEW k \in Connects, ScopeIsSaved(k) PROVE ConnectInv'
  <2>1. /\ k \in scopeSaves /\ scopeSaves' = scopeSaves \ {k}
        /\ finishConfiguration(k) /\ connectCalls' = connectCalls
    BY <1>9 DEF ScopeIsSaved, LeaveRequests
  <2> QED BY <1>0, <1>8, <2>1 DEF ScanIsOwed
<1>10. CASE SkipScope
  <2>1. /\ configuring # 0 /\ configuring \notin scopeSaves /\ scopeSaves' = scopeSaves
        /\ finishConfiguration(configuring) /\ connectCalls' = connectCalls
    BY <1>10 DEF SkipScope, SkipOffered, LeaveRequests
  <2>2. configuring \in Connects
    BY <1>0, <2>1 DEF ConnectShape
  <2> QED BY <1>0, <1>8, <2>1, <2>2 DEF ScanIsOwed
<1>11. CASE SaveScope \/ CloseConfigure \/ \E k \in Connects : ScopeNotSaved(k)
  <2>1. /\ UNCHANGED <<awaited, pendingUrl, settle, connectCalls, ours, flowScans>>
        /\ configuring' \in {0, configuring}
        /\ \/ scopeSaves' \subseteq scopeSaves
           \/ configuring # 0 /\ scopeSaves' = scopeSaves \cup {configuring}
    BY <1>11 DEF SaveScope, ScopeNotSaved, CloseConfigure, LeaveRequests, LeavePage
  <2>2. ConnectShape' /\ ScanIsOwed'
    BY <1>0, <2>1 DEF ConnectShape, ScanIsOwed, scanAfter
  <2>3. DialogBeforeRequest' /\ FormWaits'
    BY <1>0, <2>1 DEF DialogBeforeRequest, FormWaits, connecting, isOut
  <2> QED BY <2>2, <2>3 DEF ConnectInv
<1> QED
  BY <1>1, <1>2, <1>3, <1>4, <1>5, <1>6, <1>7, <1>9, <1>10, <1>11 DEF ProjectsNext

\* A form never waits for nothing, and a first scan that was chosen with a connection is
\* asked for once at most, however dialogs, requests and departures from the page overlap
\* (app/(app)/projects/page.tsx, connect-repo.tsx).
THEOREM FormsAreAnswered == ProjectsSpec => []ProjectsInv
<1>1. ProjectsInit => ConnectInv
  BY ConnectInit
<1>2. ConnectInv /\ [ProjectsNext]_projectsVars => ConnectInv'
  BY ConnectNext
<1>3. ConnectInv => ProjectsInv
  <2> SUFFICES ASSUME ConnectInv PROVE ProjectsInv
    OBVIOUS
  <2>1. OneFirstScanPerConnect
    BY DEF ConnectInv, ConnectShape, ScanIsOwed, OneFirstScanPerConnect
  <2> QED BY <2>1 DEF ConnectInv, FormWaits, FormIsAnswered, ProjectsInv
<1> QED
  BY <1>1, <1>2, <1>3, PTL DEF ProjectsSpec

-----------------------------------------------------------------------------
(***************************************************************************)
(* Which project is selected.                                              *)
(***************************************************************************)
\* The list of projects is of the active workspace.
ListedHere == listed # Unread => \A r \in listed : HomeOf[r] = here

LEMMA ListedNext ==
  ASSUME ListedHere, [SelectionNext]_selectionVars
  PROVE  ListedHere'
<1>1. CASE ListRead
  BY <1>1 DEF ListRead, ListedHere
<1>2. CASE SwitchLands
  BY <1>2 DEF SwitchLands, ListedHere
<1>3. ASSUME ~ListRead, ~SwitchLands PROVE UNCHANGED <<listed, here>>
  BY <1>3 DEF SelectionNext, selectionVars, BranchesRead, RunEffects, FollowRail, ProjectMoves,
       SwitchProject, OpenProject, FollowDashboardLink, FollowIndexLink, BranchMoves, changeBranch,
       onSwitch, SwitchOpens, SwitchRefused
<1> QED
  BY <1>1, <1>2, <1>3 DEF ListedHere

LEMMA RedirectsHere ==
  ASSUME ListedHere, path.page \in IndexPages, path'.page \in ProjectPages, RunEffects
  PROVE  HomeOf[path'.repo] = here
<1>1. path' = redirectTarget /\ path.page \notin ProjectPages
  BY DEF RunEffects, OpenPath, IndexPages, ProjectPages
<1>2. listed # Unread /\ selectedProject # Nil /\ path'.repo = selectedProject
  BY <1>1 DEF redirectTarget, At
<1>3. urlRepo = Nil
  BY <1>1 DEF urlRepo
<1>4. selectedProject \in listed
  BY <1>2, <1>3 DEF selectedProject, resolveSelectedProjectId, isAvailable
<1> QED
  BY <1>2, <1>4 DEF ListedHere

\* /dashboard and /history redirect to a project of the active workspace, whatever is stored,
\* linked or removed meanwhile (use-selected-project.ts).
THEOREM RedirectsStay == SelectionSpec => RedirectStaysInWorkspace
<1>1. SelectionInit => ListedHere
  BY DEF SelectionInit, ListedHere
<1>2. ListedHere /\ [SelectionNext]_selectionVars => ListedHere'
  BY ListedNext
<1>3. ListedHere /\ [SelectionNext]_selectionVars =>
        [path.page \in IndexPages /\ path'.page \in ProjectPages /\ RunEffects =>
           HomeOf[path'.repo] = here]_selectionVars
  BY RedirectsHere
<1> QED
  BY <1>1, <1>2, <1>3, PTL DEF SelectionSpec, RedirectStaysInWorkspace

-----------------------------------------------------------------------------
(***************************************************************************)
(* The source scope.                                                       *)
(***************************************************************************)
Panels == [open : BOOLEAN, loaded : BOOLEAN, busy : BOOLEAN, read : BOOLEAN]
Loads  == [at : {"none", "out", "ok", "failed"}, value : Configs]
Saves  == [at : {"none", "out", "ok", "failed", "heard"}, value : Configs]

\* The form can only be used, and so saved, over a configuration that was read.
ScopeInv ==
  /\ saved \in Configs /\ config \in Configs /\ panel \in Panels
  /\ loads \in [1..MaxLoads -> Loads] /\ saves \in [1..MaxSaves -> Saves]
  /\ panel.loaded => panel.read
  /\ \A n \in 1..MaxSaves : saves[n].at # "none" => panel.read

LEMMA ScopeStarts ==
  ASSUME ScopeInit PROVE ScopeInv
<1>1. Empty \in Configs
  BY DEF Empty, Configs, Patterns
<1>2. NoLoad \in Loads /\ NoSave \in Saves /\ NoSave.at = "none"
  BY <1>1 DEF NoLoad, NoSave, Loads, Saves
<1> QED
  BY <1>1, <1>2 DEF ScopeInit, ScopeInv, Panels

LEMMA ScopeNextKeeps ==
  ASSUME ScopeInv, [ScopeNext]_scopeVars
  PROVE  ScopeInv'
<1>0. Empty \in Configs /\ NoLoad \in Loads
  BY DEF Empty, Configs, NoLoad, Loads
<1>1. CASE UNCHANGED scopeVars
  BY <1>1 DEF ScopeInv, scopeVars
<1>2. CASE OpenScope
  <2>1. PICK l \in 1..MaxLoads : loads' = [loads EXCEPT ![l].at = "out"]
    BY <1>2 DEF OpenScope
  <2>2. loads' \in [1..MaxLoads -> Loads]
    BY <2>1 DEF ScopeInv, Loads
  <2>3. panel' \in Panels /\ ~panel'.loaded /\ panel'.read = panel.read
    BY <1>2 DEF OpenScope, ScopeInv, Panels
  <2> QED BY <1>2, <2>2, <2>3 DEF OpenScope, ScopeInv
<1>3. CASE CloseScope
  BY <1>3 DEF CloseScope, ScopeInv, Panels
<1>4. ASSUME NEW l \in 1..MaxLoads, ServeLoad(l) PROVE ScopeInv'
  <2>1. PICK at \in {"ok", "failed"} :
          loads' = [loads EXCEPT ![l] = [at |-> at, value |-> IF at = "ok" THEN ScopeOutput ELSE Empty]]
    BY <1>4 DEF ServeLoad
  <2>2. ScopeOutput \in Configs
    BY DEF ScopeOutput, ScopeInv, Configs, Patterns
  <2>3. loads' \in [1..MaxLoads -> Loads]
    BY <1>0, <2>1, <2>2 DEF ScopeInv, Loads
  <2> QED BY <1>4, <2>3 DEF ServeLoad, ScopeInv
<1>5. ASSUME NEW l \in 1..MaxLoads, Loaded(l) PROVE ScopeInv'
  <2>1. loads' \in [1..MaxLoads -> Loads] /\ loads[l].value \in Configs
    BY <1>0, <1>5 DEF Loaded, ScopeInv, Loads
  <2>2. panel \in Panels /\ (panel.loaded => panel.read) /\ config \in Configs
    BY DEF ScopeInv
  <2>3. CASE loads[l].at = "ok"
    <3>1. panel' \in Panels /\ panel'.read /\ config' \in Configs
      BY <1>5, <2>1, <2>2, <2>3 DEF Loaded, Panels
    <3> QED BY <1>5, <2>1, <3>1 DEF Loaded, ScopeInv
  <2>4. CASE loads[l].at # "ok"
    <3>1. panel' \in Panels /\ panel'.read = panel.read /\ panel'.loaded = panel.loaded
          /\ config' \in Configs
      BY <1>5, <2>2, <2>4 DEF Loaded, Panels
    <3> QED BY <1>5, <2>1, <2>2, <3>1 DEF Loaded, ScopeInv
  <2> QED BY <2>3, <2>4
<1>6. ASSUME NEW node \in Nodes, toggle(node) PROVE ScopeInv'
  <2>1. toggled(config, node) \in Configs
    BY DEF toggled, ScopeInv, Configs, Patterns
  <2> QED BY <1>6, <2>1 DEF toggle, ScopeInv
<1>7. CASE save
  <2>1. PICK n \in 1..MaxSaves : saves' = [saves EXCEPT ![n] = [at |-> "out", value |-> config]]
    BY <1>7 DEF save
  <2>2. panel.read /\ panel' \in Panels /\ panel'.read /\ panel'.loaded = panel.loaded
    BY <1>7 DEF save, Enabled, ScopeInv, Panels
  <2>3. saves' \in [1..MaxSaves -> Saves]
    BY <2>1 DEF ScopeInv, Saves
  <2> QED BY <1>7, <2>2, <2>3 DEF save, ScopeInv
<1>8. ASSUME NEW n \in 1..MaxSaves, ServeSave(n) PROVE ScopeInv'
  <2>1. PICK at \in {"ok", "failed"} : saves' = [saves EXCEPT ![n] = [at |-> at, value |-> Empty]]
    BY <1>8 DEF ServeSave
  <2>2. saves[n].value \in Configs /\ panel.read
    BY <1>8 DEF ServeSave, ScopeInv, Saves
  <2>3. saved' \in Configs
    BY <1>8, <2>2 DEF ServeSave, ScopeInv
  <2>4. saves' \in [1..MaxSaves -> Saves]
    BY <1>0, <2>1 DEF ScopeInv, Saves
  <2> QED BY <1>8, <2>2, <2>3, <2>4 DEF ServeSave, ScopeInv
<1>9. ASSUME NEW n \in 1..MaxSaves, ScopeSaved(n) \/ ScopeSaveFailed(n) PROVE ScopeInv'
  <2>1. Heard(n) /\ saves[n].at # "none"
    BY <1>9 DEF ScopeSaved, ScopeSaveFailed
  <2>2. saves' \in [1..MaxSaves -> Saves] /\ panel.read
    BY <1>0, <2>1 DEF Heard, ScopeInv, Saves
  <2>3. panel' \in Panels /\ panel'.loaded = panel.loaded /\ panel'.read = panel.read
    BY <1>9 DEF ScopeSaved, ScopeSaveFailed, ScopeInv, Panels
  <2> QED BY <1>9, <2>2, <2>3 DEF ScopeSaved, ScopeSaveFailed, ScopeInv
<1> QED
  BY <1>1, <1>2, <1>3, <1>4, <1>5, <1>6, <1>7, <1>8, <1>9 DEF ScopeNext

\* Whatever reads of the source scope fail, come late or cross the closing of the dialog, no
\* save sends a configuration that was never read (source-scope-settings.tsx).
THEOREM NothingUnreadIsSaved == ScopeSpec => []SavesOnlyWhatWasRead
<1>1. ScopeInit => ScopeInv
  BY ScopeStarts
<1>2. ScopeInv /\ [ScopeNext]_scopeVars => ScopeInv'
  BY ScopeNextKeeps
<1>3. ScopeInv => SavesOnlyWhatWasRead
  BY DEF ScopeInv, SavesOnlyWhatWasRead
<1> QED
  BY <1>1, <1>2, <1>3, PTL DEF ScopeSpec

-----------------------------------------------------------------------------
(***************************************************************************)
(* The profiles page.                                                      *)
(***************************************************************************)
IdOrNobody      == ProfileIds \cup {Nobody}
ProjectOrNobody == ProjectIds \cup {Nobody}

PoolCopies == [at : {"loading", "ready", "error"}, profiles : Pools, default : IdOrNobody]
PoolReads  == [at : {"none", "out", "served"}, pool : Pools, default : IdOrNobody]
Drafts     == [profile : ProfileIds \ Presets, values : Profiles]
Dialogs    == [kind : {"none", "profile", "scope", "create", "delete"},
               to : IdOrNobody \cup ProjectOrNobody]
Writes     == [at : {"idle", "out", "ok", "refused"}, profile : IdOrNobody,
               project : ProjectOrNobody, patch : [Fields -> 0..2],
               seen : SUBSET {"touched", "draft"}]

ApiShape ==
  /\ srvPool \in Pools /\ srvDefault \in ProfileIds
  /\ srvChoice \in [ProjectIds -> IdOrNobody] /\ missed \in BOOLEAN

CopyShape ==
  /\ pool \in PoolCopies /\ poolRead \in PoolReads
  /\ choice \in [ProjectIds -> ProfileChoices \cup {UnreadYet}]

LookShape ==
  /\ scope \in ProjectOrNobody /\ touched \in IdOrNobody
  /\ draft = NoDraft \/ draft \in Drafts
  /\ dialog \in Dialogs
  /\ dialog.kind = "profile" => dialog.to \in IdOrNobody
  /\ dialog.kind = "delete" => dialog.to \in ProfileIds
  /\ dialog.kind = "scope" => dialog.to \in ProjectOrNobody

\* What a kind of write has captured, and what an answer carries.
WriteFits(k, w) ==
  /\ k \in {"save", "choose", "assign", "delete"} /\ w.at # "idle" => w.profile \in ProfileIds
  /\ k \in {"assign", "clear"} /\ w.at \in {"out", "ok"} => w.project \in ProjectIds
  /\ k = "clear" /\ w.at = "ok" => w.profile \in ProfileIds
  /\ k = "create" \/ w.at # "out" => w.patch \in Profiles \cup {Gone}

WriteShape ==
  /\ writes \in [Kinds -> Writes]
  /\ \A k \in Kinds : WriteFits(k, writes[k])

\* A write the API did and the page has not heard of.
Unheard == \E k \in Kinds : writes[k].at = "ok"

\* Unless the pool changed behind it, between its own writes the page holds, or is about to be given, what the API holds:
\* hearing of a write makes it deaf to every read that was out.
CopyIsFresh ==
  ~missed /\ ~Unheard =>
    /\ poolRead.at = "served" => poolRead.pool = srvPool /\ poolRead.default = srvDefault
    /\ pool.at = "ready" /\ poolRead.at = "none" =>
         pool.profiles = srvPool /\ pool.default = srvDefault

ProfilesShape == ApiShape /\ CopyShape /\ LookShape /\ WriteShape
PageFits == ProfilesShape /\ CopyIsFresh

LEMMA ProfileTypes ==
  /\ Gone \in [Fields -> 0..2] /\ Profiles \subseteq [Fields -> 0..2]
  /\ NoRead.pool \in Pools /\ NoRead \in PoolReads
  /\ \A at \in {"loading", "ready", "error"} : NoPool(at) \in PoolCopies
  /\ NoDialog \in Dialogs /\ NoDialog.kind = "none"
  /\ Idle \in Writes /\ Idle.at = "idle" /\ Idle.patch = Gone
<1>1. Gone \in [Fields -> 0..2] /\ Profiles \subseteq [Fields -> 0..2]
  BY DEF Gone, Profiles
<1>2. [i \in ProfileIds |-> Gone] \in Pools
  BY DEF Pools
<1>3. NoRead.pool \in Pools /\ NoRead \in PoolReads
  BY <1>2 DEF NoRead, PoolReads, IdOrNobody
<1>4. \A at \in {"loading", "ready", "error"} : NoPool(at) \in PoolCopies
  BY <1>3 DEF NoPool, PoolCopies, IdOrNobody
<1>5. NoDialog \in Dialogs /\ NoDialog.kind = "none"
  BY DEF NoDialog, Dialogs, IdOrNobody
<1>6. Idle \in Writes /\ Idle.at = "idle" /\ Idle.patch = Gone
  BY <1>1 DEF Idle, Writes, IdOrNobody, ProjectOrNobody
<1> QED
  BY <1>1, <1>3, <1>4, <1>5, <1>6

LEMMA ProfilesStart ==
  ASSUME ProfilesInit PROVE PageFits
<1>1. ApiShape
  <2>1. [f \in Fields |-> 0] \in Profiles
    BY DEF Profiles
  <2>2. srvPool \in Pools
    BY <2>1 DEF ProfilesInit, Pools
  <2>3. (CHOOSE i \in Presets : TRUE) \in ProfileIds
    BY ProfilesAssumption
  <2> QED BY <2>2, <2>3 DEF ProfilesInit, ApiShape, IdOrNobody
<1>2. CopyShape /\ poolRead.at = "out"
  <2>1. pool \in PoolCopies
    BY ProfileTypes DEF ProfilesInit
  <2>2. poolRead \in PoolReads /\ poolRead.at = "out"
    BY ProfileTypes DEF ProfilesInit, PoolReads
  <2> QED BY <2>1, <2>2 DEF ProfilesInit, CopyShape
<1>3. LookShape
  BY ProfileTypes DEF ProfilesInit, LookShape, IdOrNobody, ProjectOrNobody
<1>4. WriteShape
  <2>1. writes \in [Kinds -> Writes]
    BY ProfileTypes DEF ProfilesInit
  <2>2. \A k \in Kinds : WriteFits(k, writes[k])
    BY ProfileTypes DEF ProfilesInit, WriteFits
  <2> QED BY <2>1, <2>2 DEF WriteShape
<1>5. CopyIsFresh
  BY <1>2 DEF ProfilesInit, CopyIsFresh, NoPool
<1> QED
  BY <1>1, <1>2, <1>3, <1>4, <1>5 DEF PageFits, ProfilesShape

\* What the editor works on is a profile of the pool.
LEMMA SelectedIsShown ==
  ASSUME CopyShape, LookShape, PageShown
  PROVE  /\ selected \in ProfileIds /\ values \in Profiles
         /\ pool.profiles[selected] \in Profiles
         /\ pool.default \in IdOrNobody
<1>1. pool.profiles \in Pools /\ pool.default \in IdOrNobody
  BY DEF CopyShape, PoolCopies
<1>2. Effective \in IdOrNobody
  BY <1>1 DEF Effective, CopyShape, ProfileChoices, IdOrNobody
<1>3. selected \in ProfileIds
  BY <1>2 DEF selected, LookShape, PageShown, IdOrNobody
<1>4. pool.profiles[selected] \in Profiles
  BY <1>1, <1>3 DEF PageShown, Pools
<1>5. values \in Profiles
  BY <1>4 DEF values, DraftIsShown, LookShape, Drafts
<1> QED
  BY <1>1, <1>3, <1>4, <1>5

\* A write that moves: a click, an answer of the API, an answer that was heard.
LEMMA WriteMoves ==
  ASSUME WriteShape, NEW k \in Kinds, NEW w \in Writes, WriteFits(k, w),
         writes' = [writes EXCEPT ![k] = w]
  PROVE  /\ WriteShape'
         /\ writes'[k] = w /\ \A n \in Kinds \ {k} : writes'[n] = writes[n]
BY DEF WriteShape

\* The API serves a write: its answer carries a profile, and says what the API now holds
\* only by being unheard.
LEMMA WriteServed ==
  ASSUME PageFits, NEW k \in Kinds, Serve(k)
  PROVE  PageFits'
<1>0. ApiShape /\ CopyShape /\ LookShape /\ WriteShape /\ CopyIsFresh
  BY DEF PageFits, ProfilesShape
<1>1. PICK w \in Writes : w = writes[k] /\ WriteFits(k, w)
  BY <1>0 DEF WriteShape
<1>2. w.at = "out" /\ w.profile \in IdOrNobody /\ w.project \in ProjectOrNobody
      /\ w.patch \in [Fields -> 0..2] /\ w.seen \in SUBSET {"touched", "draft"}
  BY <1>1 DEF Serve, Writes
<1>3. /\ k \in {"save", "choose", "assign", "delete"} => w.profile \in ProfileIds
      /\ k \in {"assign", "clear"} => w.project \in ProjectIds
      /\ k = "create" => w.patch \in Profiles \cup {Gone}
  BY <1>1, <1>2 DEF WriteFits
<1>4. ApiShape'
  <2>1. \/ srvPool' = srvPool
        \/ \E i \in ProfileIds, v \in Profiles \cup {Gone} : srvPool' = [srvPool EXCEPT ![i] = v]
    <3>1. CASE k = "save" /\ srvPool' = [srvPool EXCEPT ![w.profile] = Patched(w.profile, w.patch)]
               /\ Known(w.profile)
      <4>1. w.profile \in ProfileIds /\ srvPool[w.profile] \in Profiles
        BY <1>0, <1>3, <3>1 DEF Known, ApiShape, Pools
      <4>2. Patched(w.profile, w.patch) \in Profiles
        BY <1>2, <4>1 DEF Patched, Profiles
      <4> QED BY <3>1, <4>1, <4>2
    <3>2. CASE \/ \E i \in ProfileIds : k = "create" /\ srvPool' = [srvPool EXCEPT ![i] = w.patch]
               \/ srvPool' = [srvPool EXCEPT ![w.profile] = Gone]
      BY <1>0, <1>3, <3>2 DEF ApiShape, Pools
    <3> QED BY <1>1, <3>1, <3>2 DEF Serve
  <2>2. srvPool' \in Pools
    BY <1>0, <2>1 DEF ApiShape, Pools
  <2>3. srvDefault' \in ProfileIds
    BY <1>0, <1>1, <1>3 DEF Serve, ApiShape
  <2>4. srvChoice' \in [ProjectIds -> IdOrNobody]
    BY <1>0, <1>1, <1>2 DEF Serve, ApiShape
  <2>5. missed' \in {TRUE, missed}
    BY DEF Serve, Answer
  <2> QED BY <1>0, <2>2, <2>3, <2>4, <2>5 DEF ApiShape
<1>5. PICK new : /\ writes' = [writes EXCEPT ![k] = new]
                 /\ new \in Writes /\ new.at \in {"ok", "refused"} /\ WriteFits(k, new)
                 /\ new.at # "ok" => missed' = TRUE \/ UNCHANGED <<srvPool, srvDefault, missed>>
                 /\ new.at = "ok" => UNCHANGED missed
  <2>1. CASE Refused(k) /\ (missed' = TRUE \/ UNCHANGED <<srvPool, srvDefault, missed>>)
    <3> DEFINE to == [Idle EXCEPT !.at = "refused", !.profile = w.profile]
    <3>1. writes' = [writes EXCEPT ![k] = to]
      BY <1>1, <2>1 DEF Refused
    <3>2. /\ to \in Writes /\ to.at = "refused" /\ to.profile = w.profile /\ to.patch = Gone
      BY <1>2, ProfileTypes DEF Idle, Writes, IdOrNobody, ProjectOrNobody
    <3>3. WriteFits(k, to)
      BY <1>3, <3>2 DEF WriteFits
    <3> HIDE DEF to
    <3> QED BY <2>1, <3>1, <3>2, <3>3
  <2>2. CASE \E i \in ProfileIds : Answer(k, i)
    <3>1. PICK i \in ProfileIds : Answer(k, i)
      BY <2>2
    <3>2. CASE Refused(k) /\ missed' = TRUE
      BY <2>1, <3>2
    <3>3. CASE /\ writes' = [writes EXCEPT ![k] =
                     [at |-> "ok", profile |-> i, project |-> @.project, seen |-> @.seen,
                      patch |-> srvPool'[i]]]
               /\ UNCHANGED <<missed, changes>>
      <4>1. PICK q \in Profiles \cup {Gone} : q = srvPool'[i]
        BY <1>4 DEF ApiShape, Pools
      <4>2. PICK to : to = [at |-> "ok", profile |-> i, project |-> w.project, patch |-> q,
                            seen |-> w.seen]
        OBVIOUS
      <4>3. writes' = [writes EXCEPT ![k] = to]
        BY <1>0, <1>1, <3>3, <4>1, <4>2 DEF WriteShape, Writes
      <4>4. to \in Writes /\ to.at = "ok" /\ to.profile = i
        BY <1>2, <4>1, <4>2, ProfileTypes DEF Writes, IdOrNobody
      <4>5. WriteFits(k, to)
        BY <1>3, <4>1, <4>2, <4>4 DEF WriteFits
      <4> QED BY <3>3, <4>3, <4>4, <4>5
    <3> QED BY <3>1, <3>2, <3>3 DEF Answer
  <2>3. srvDefault \in ProfileIds
    BY <1>0 DEF ApiShape
  <2>4. \/ Refused(k) /\ UNCHANGED <<srvPool, srvDefault, missed>>
        \/ \E i \in ProfileIds : Answer(k, i)
    <3>1. k = "save" \/ k = "choose" \/ k \in {"assign", "clear"} \/ k = "create" \/ k = "delete"
      BY DEF Kinds
    <3>2. k \in {"save", "choose", "assign", "delete"} =>
            (Answer(k, w.profile) => \E i \in ProfileIds : Answer(k, i))
      BY <1>3
    <3>3. Answer(k, srvDefault) => \E i \in ProfileIds : Answer(k, i)
      BY <2>3
    <3> QED BY <1>1, <3>1, <3>2, <3>3 DEF Serve
  <2> QED
    BY <2>1, <2>2, <2>4
<1>6. WriteShape' /\ writes'[k] = new /\ \A n \in Kinds \ {k} : writes'[n] = writes[n]
  BY <1>0, <1>5, WriteMoves
<1>7. CopyIsFresh'
  <2>1. UNCHANGED <<pool, poolRead>>
    BY DEF Serve, Reads
  <2>2. CASE new.at = "ok"
    BY <1>6, <2>2 DEF CopyIsFresh, Unheard
  <2>3. CASE new.at # "ok"
    <3>1. missed' = TRUE \/ UNCHANGED <<srvPool, srvDefault, missed>>
      BY <1>5, <2>3
    <3>2. Unheard => Unheard'
      BY <1>2, <1>1, <1>6, <2>3 DEF Unheard
    <3> QED BY <1>0, <2>1, <3>1, <3>2 DEF CopyIsFresh
  <2> QED BY <2>2, <2>3
<1> QED
  BY <1>0, <1>4, <1>6, <1>7 DEF PageFits, ProfilesShape, CopyShape, LookShape, Serve, Reads, Looks

\* What the user looks at changes; what was read and written does not.
LEMMA OnlyLooked ==
  ASSUME PageFits, LookShape', UNCHANGED <<serverVars, pool, poolRead, choice, writes>>
  PROVE  PageFits'
<1>1. ApiShape' /\ CopyShape'
  BY DEF PageFits, ProfilesShape, ApiShape, CopyShape, serverVars
<1>2. WriteShape'
  BY DEF PageFits, ProfilesShape, WriteShape
<1>3. CopyIsFresh'
  BY DEF PageFits, CopyIsFresh, Unheard, serverVars
<1> QED
  BY <1>1, <1>2, <1>3 DEF PageFits, ProfilesShape

LEMMA ProfilesLooked ==
  ASSUME PageFits,
         \/ Discard \/ ConfirmDiscard \/ CloseDialog \/ openCreate
         \/ \E f \in Fields, v \in 0..1 : editDraft(f, v)
         \/ \E i \in ProfileIds : selectProfile(i) \/ openDelete(i)
         \/ \E p \in ProjectOrNobody : selectScope(p) \/ FollowLink(p)
  PROVE  PageFits'
<1>0. CopyShape /\ LookShape
  BY DEF PageFits, ProfilesShape
<1>1. UNCHANGED <<serverVars, pool, poolRead, choice, writes>>
  BY DEF Discard, ConfirmDiscard, CloseDialog, openCreate, editDraft, selectProfile, openDelete,
         selectScope, FollowLink, Reads, NoWrite
<1>2. LookShape'
  <2>0. NoDialog \in Dialogs /\ NoDialog.kind = "none"
    BY ProfileTypes
  <2>1. CASE Discard
    BY <1>0, <2>1 DEF Discard, LookShape
  <2>2. CASE ConfirmDiscard
    BY <1>0, <2>0, <2>2 DEF ConfirmDiscard, LookShape, IdOrNobody
  <2>3. CASE CloseDialog
    BY <1>0, <2>0, <2>3 DEF CloseDialog, LookShape
  <2>4. CASE openCreate
    <3>1. dialog' \in Dialogs /\ dialog'.kind = "create"
      BY <2>4 DEF openCreate, NoDialog, Dialogs, IdOrNobody
    <3> QED BY <1>0, <2>4, <3>1 DEF openCreate, LookShape
  <2>5. ASSUME NEW f \in Fields, NEW v \in 0..1, editDraft(f, v) PROVE LookShape'
    <3>1. PageShown /\ selected \notin Presets
      BY <2>5 DEF editDraft, EditorOpen, Clickable, editable
    <3>2. selected \in ProfileIds /\ values \in Profiles
      BY <1>0, <3>1, SelectedIsShown
    <3>3. [values EXCEPT ![f] = v] \in Profiles
      BY <3>2 DEF Profiles
    <3>4. draft' \in Drafts
      BY <2>5, <3>1, <3>2, <3>3 DEF editDraft, Drafts
    <3> QED BY <1>0, <2>5, <3>4 DEF editDraft, LookShape
  <2>6. ASSUME NEW i \in ProfileIds, selectProfile(i) \/ openDelete(i) PROVE LookShape'
    <3>1. \A kind \in {"profile", "delete"} :
            [NoDialog EXCEPT !.kind = kind, !.to = i] \in Dialogs
            /\ [NoDialog EXCEPT !.kind = kind, !.to = i].to = i
            /\ [NoDialog EXCEPT !.kind = kind, !.to = i].kind = kind
      BY DEF NoDialog, Dialogs, IdOrNobody
    <3>2. CASE selectProfile(i)
      BY <1>0, <3>1, <3>2 DEF selectProfile, LookShape, IdOrNobody
    <3>3. CASE openDelete(i)
      BY <1>0, <3>1, <3>3 DEF openDelete, LookShape, IdOrNobody
    <3> QED BY <2>6, <3>2, <3>3
  <2>7. ASSUME NEW p \in ProjectOrNobody, selectScope(p) \/ FollowLink(p) PROVE LookShape'
    <3>1. PICK to : to = [NoDialog EXCEPT !.kind = "scope", !.to = p]
      OBVIOUS
    <3>2. to \in Dialogs /\ to.kind = "scope" /\ to.to = p
      BY <3>1 DEF NoDialog, Dialogs, IdOrNobody
    <3>3. CASE FollowLink(p)
      BY <1>0, <3>3 DEF FollowLink, applyScope, LookShape, IdOrNobody
    <3>4. CASE selectScope(p)
      BY <1>0, <3>1, <3>2, <3>4 DEF selectScope, applyScope, LookShape, IdOrNobody
    <3> QED BY <2>7, <3>3, <3>4
  <2> QED BY <2>1, <2>2, <2>3, <2>4, <2>5, <2>6, <2>7
<1> QED
  BY <1>1, <1>2, OnlyLooked

\* A click on a button captures what is shown.
LEMMA WriteAsked ==
  ASSUME PageFits, onSaveEdits \/ onSetDefault \/ onAssign \/ onClearOverride \/ onCreate \/ onDelete
  PROVE  PageFits'
<1>0. ApiShape /\ CopyShape /\ LookShape /\ WriteShape /\ CopyIsFresh
  BY DEF PageFits, ProfilesShape
<1>1. ASSUME NEW k \in Kinds, NEW w \in Writes, WriteFits(k, w), w.at = "out", Ask(k, w), LookShape'
      PROVE  PageFits'
  <2>1. WriteShape' /\ writes'[k] = w /\ \A n \in Kinds \ {k} : writes'[n] = writes[n]
    BY <1>0, <1>1, WriteMoves DEF Ask
  <2>2. UNCHANGED <<srvPool, srvDefault, srvChoice, missed, pool, poolRead, choice>>
    BY <1>1 DEF Ask, serverVars, Reads
  <2>3. writes[k].at = "idle"
    BY <1>1, ProfileTypes DEF Ask
  <2>4. Unheard => Unheard'
    BY <2>1, <2>3 DEF Unheard
  <2>5. CopyIsFresh'
    BY <1>0, <2>2, <2>4 DEF CopyIsFresh
  <2> QED BY <1>0, <1>1, <2>1, <2>2, <2>5 DEF PageFits, ProfilesShape, ApiShape, CopyShape
<1>2. ASSUME NEW k \in Kinds, NEW profile \in IdOrNobody, NEW project \in ProjectOrNobody,
             NEW patch \in [Fields -> 0..2], NEW known \in SUBSET {"touched", "draft"},
             k \in {"save", "choose", "assign", "delete"} => profile \in ProfileIds,
             k \in {"assign", "clear"} => project \in ProjectIds,
             k = "create" => patch \in Profiles,
             Ask(k, Write(profile, project, patch, known)), LookShape'
      PROVE  PageFits'
  <2>1. PICK w : w = Write(profile, project, patch, known)
    OBVIOUS
  <2>2. w \in Writes /\ w.at = "out" /\ w.profile = profile /\ w.project = project /\ w.patch = patch
    BY <1>2, <2>1 DEF Write, Writes
  <2>3. WriteFits(k, w)
    BY <1>2, <2>2 DEF WriteFits
  <2> QED BY <1>1, <1>2, <2>1, <2>2, <2>3
<1>3. Looks => LookShape'
  BY <1>0 DEF Looks, LookShape
<1>4. Gone \in [Fields -> 0..2] /\ Nobody \in IdOrNobody /\ Nobody \in ProjectOrNobody
      /\ {} \in SUBSET {"touched", "draft"} /\ scope \in ProjectOrNobody
  BY <1>0, ProfileTypes DEF IdOrNobody, ProjectOrNobody, LookShape
<1>5. PageShown => /\ selected \in ProfileIds /\ selected \in IdOrNobody /\ values \in Profiles
                   /\ pool.profiles[selected] \in Profiles
  BY <1>0, SelectedIsShown DEF IdOrNobody
<1>6. Clickable => PageShown
  BY DEF Clickable
<1>8. CASE onSaveEdits
  <2>1. PageShown
    BY <1>6, <1>8 DEF onSaveEdits, DraftActions, EditorOpen
  <2>2. patchFor(pool.profiles[selected], values) \in [Fields -> 0..2]
    BY <1>5, <2>1 DEF patchFor, Profiles
  <2>3. "save" \in Kinds
    BY DEF Kinds
  <2> QED BY <1>2, <1>3, <1>4, <1>5, <1>8, <2>1, <2>2, <2>3 DEF onSaveEdits
<1>9. CASE onSetDefault
  <2>1. PageShown /\ "choose" \in Kinds
    BY <1>6, <1>9 DEF onSetDefault, ScopeAction, Kinds
  <2> QED BY <1>2, <1>3, <1>4, <1>5, <1>9, <2>1 DEF onSetDefault
<1>10. CASE onAssign
  <2>1. PageShown /\ scope # Nobody /\ "assign" \in Kinds
    BY <1>6, <1>10 DEF onAssign, ScopeAction, Kinds
  <2>2. scope \in ProjectIds
    BY <1>4, <2>1 DEF ProjectOrNobody
  <2> QED BY <1>2, <1>3, <1>4, <1>5, <1>10, <2>1, <2>2 DEF onAssign
<1>11. CASE onClearOverride
  <2>1. scope \in ProjectIds /\ "clear" \in Kinds
    BY <1>4, <1>11 DEF onClearOverride, ClearOffered, Kinds, ProjectOrNobody
  <2> QED BY <1>2, <1>3, <1>4, <1>11, <2>1 DEF onClearOverride
<1>12. CASE onCreate
  <2>1. PageShown /\ "create" \in Kinds /\ dialog.kind = "create"
    BY <1>12 DEF onCreate, Kinds
  <2>2. LookShape'
    BY <1>3, <1>12 DEF onCreate
  <2>3. values \in [Fields -> 0..2]
    BY <1>5, <2>1, ProfileTypes
  <2> QED BY <1>2, <1>4, <1>5, <1>12, <2>1, <2>2, <2>3 DEF onCreate
<1>13. CASE onDelete
  <2>1. "delete" \in Kinds /\ dialog.kind = "delete" /\ dialog.to \in IdOrNobody
        /\ dialog.to \in ProfileIds
    BY <1>0, <1>13 DEF onDelete, Kinds, LookShape, IdOrNobody
  <2>2. LookShape'
    BY <1>3, <1>13 DEF onDelete
  <2>3. {n \in {"touched", "draft"} :
           IF n = "touched" THEN touched = dialog.to ELSE draft.profile = dialog.to}
          \in SUBSET {"touched", "draft"}
    OBVIOUS
  <2> QED BY <1>2, <1>4, <1>13, <2>1, <2>2, <2>3 DEF onDelete
<1> QED
  BY <1>8, <1>9, <1>10, <1>11, <1>12, <1>13

\* The pool is read, or asked for again.
LEMMA PoolMoves ==
  ASSUME PageFits, \/ ServePool \/ PoolRead \/ PoolFails \/ RetryPool
                   \/ \E p \in ProjectIds : ReadChoice(p)
  PROVE  PageFits'
<1>0. ApiShape /\ CopyShape /\ LookShape /\ WriteShape /\ CopyIsFresh
  BY DEF PageFits, ProfilesShape
<1>1. UNCHANGED <<srvPool, srvDefault, srvChoice, writes>> /\ Looks /\ missed' \in {missed, FALSE}
  BY DEF ServePool, PoolRead, PoolFails, RetryPool, ReadChoice, serverVars, NoWrite
<1>2. ApiShape' /\ LookShape' /\ WriteShape' /\ (Unheard' <=> Unheard)
  BY <1>0, <1>1 DEF ApiShape, LookShape, Looks, WriteShape, Unheard
<1>3. CopyShape' /\ CopyIsFresh'
  <2>1. CASE ServePool
    <3>1. poolRead' \in PoolReads /\ poolRead'.at = "served"
          /\ poolRead'.pool = srvPool /\ poolRead'.default = srvDefault
      BY <1>0, <2>1 DEF ServePool, PoolReads, ApiShape, IdOrNobody
    <3> QED BY <1>0, <1>1, <2>1, <3>1 DEF ServePool, CopyShape, CopyIsFresh
  <2>2. CASE PoolRead
    <3>1. poolRead.pool \in Pools /\ poolRead.default \in IdOrNobody
      BY <1>0 DEF CopyShape, PoolReads
    <3>2. pool' \in PoolCopies /\ pool'.profiles = poolRead.pool /\ pool'.default = poolRead.default
      BY <2>2, <3>1 DEF PoolRead, PoolCopies
    <3>3. poolRead' \in PoolReads /\ poolRead'.at = "none" /\ poolRead.at = "served"
      BY <2>2, ProfileTypes DEF PoolRead, NoRead
    <3>4. CopyShape'
      BY <1>0, <2>2, <3>2, <3>3 DEF PoolRead, CopyShape
    <3>5. CopyIsFresh'
      BY <1>0, <1>1, <1>2, <2>2, <3>2, <3>3 DEF CopyIsFresh, PoolRead, serverVars
    <3> QED BY <3>4, <3>5
  <2>3. CASE PoolFails \/ RetryPool
    <3>1. pool' \in PoolCopies /\ pool'.at # "ready"
      BY <2>3, ProfileTypes DEF PoolFails, RetryPool, NoPool
    <3>2. poolRead' \in PoolReads /\ poolRead'.at # "served"
      BY <2>3, ProfileTypes DEF PoolFails, RetryPool, reloadPool, NoRead, PoolReads
    <3> QED BY <1>0, <2>3, <3>1, <3>2 DEF PoolFails, RetryPool, CopyShape, CopyIsFresh
  <2>4. ASSUME NEW p \in ProjectIds, ReadChoice(p) PROVE CopyShape' /\ CopyIsFresh'
    <3>1. ChoiceOf(p) \in ProfileChoices
      BY <1>0 DEF ChoiceOf, EffectiveOf, ApiShape, ProfileChoices, IdOrNobody
    <3>2. choice' \in [ProjectIds -> ProfileChoices \cup {UnreadYet}]
      BY <1>0, <2>4, <3>1 DEF ReadChoice, CopyShape
    <3> QED BY <1>0, <1>1, <1>2, <2>4, <3>2 DEF ReadChoice, CopyShape, CopyIsFresh, serverVars
  <2> QED BY <2>1, <2>2, <2>3, <2>4
<1> QED
  BY <1>2, <1>3 DEF PageFits, ProfilesShape

LEMMA TeammateActed ==
  ASSUME PageFits, Teammate
  PROVE  PageFits'
<1>0. ApiShape /\ CopyShape /\ LookShape /\ WriteShape
  BY DEF PageFits, ProfilesShape
<1>1. srvPool' \in Pools
  <2>1. ASSUME NEW i \in Custom(srvPool), NEW f \in Fields, NEW v \in 0..1,
               srvPool' = [srvPool EXCEPT ![i][f] = v]
        PROVE  srvPool' \in Pools
    <3>1. i \in ProfileIds /\ srvPool[i] \in Profiles
      BY <1>0 DEF Custom, ApiShape, Pools
    <3>2. [srvPool[i] EXCEPT ![f] = v] \in Profiles
      BY <3>1 DEF Profiles
    <3> QED BY <1>0, <2>1, <3>1, <3>2 DEF ApiShape, Pools
  <2> QED BY <1>0, <2>1 DEF Teammate, ApiShape
<1>2. missed' = TRUE
  BY DEF Teammate
<1> QED
  BY <1>0, <1>1, <1>2 DEF Teammate, Reads, Looks, NoWrite, PageFits, ProfilesShape, ApiShape,
     CopyShape, LookShape, WriteShape, CopyIsFresh

\* An answer is heard: what it says is shown and the pool is read again.
LEMMA AnswerHeard ==
  ASSUME PageFits, Answers
  PROVE  PageFits'
<1>0. ApiShape /\ CopyShape /\ LookShape /\ WriteShape /\ CopyIsFresh
  BY DEF PageFits, ProfilesShape
<1>1. ASSUME NEW k \in Kinds, Back(k), LookShape', CopyShape',
             \/ poolRead'.at = "out"
             \/ writes[k].at # "ok" /\ UNCHANGED <<pool, poolRead>>
      PROVE  PageFits'
  <2>1. WriteFits(k, Idle)
    BY ProfileTypes DEF WriteFits, Idle
  <2>2. WriteShape' /\ writes'[k] = Idle /\ \A n \in Kinds \ {k} : writes'[n] = writes[n]
    BY <1>0, <1>1, <2>1, ProfileTypes, WriteMoves DEF Back
  <2>3. UNCHANGED <<srvPool, srvDefault, srvChoice, missed>>
    BY <1>1 DEF Back, serverVars
  <2>4. CopyIsFresh'
    <3>1. CASE poolRead'.at = "out"
      BY <3>1 DEF CopyIsFresh
    <3>2. CASE writes[k].at # "ok" /\ UNCHANGED <<pool, poolRead>>
      <4>1. Unheard => Unheard'
        BY <2>2, <3>2 DEF Unheard
      <4> QED BY <1>0, <2>3, <3>2, <4>1 DEF CopyIsFresh
    <3> QED BY <1>1, <3>1, <3>2
  <2> QED BY <1>0, <1>1, <2>2, <2>3, <2>4 DEF PageFits, ProfilesShape, ApiShape
<1>2. ASSUME NEW k \in Kinds, writes[k].at = "ok"
      PROVE  /\ writes[k].patch \in Profiles \cup {Gone} /\ writes[k].profile \in IdOrNobody
             /\ k \in {"assign", "clear"} => writes[k].profile \in ProfileIds
             /\ k \in {"assign", "clear"} => writes[k].project \in ProjectIds
  <2>1. writes[k] \in Writes /\ WriteFits(k, writes[k])
    BY <1>0 DEF WriteShape
  <2> QED BY <1>2, <2>1 DEF WriteFits, Writes
<1>3. /\ pool.profiles \in Pools /\ pool.default \in IdOrNobody
      /\ reloadPool => poolRead' \in PoolReads /\ poolRead'.at = "out"
  BY <1>0, ProfileTypes DEF CopyShape, PoolCopies, reloadPool, PoolReads
<1>4. ASSUME NEW id, NEW shown \in Profiles \cup {Gone}, NEW default \in IdOrNobody,
             \/ Shows([pool.profiles EXCEPT ![id] = shown], default)
             \/ Shows([pool.profiles EXCEPT ![id] = IF @ = Gone THEN Gone ELSE shown], default)
      PROVE  pool' \in PoolCopies
  <2>1. /\ [pool.profiles EXCEPT ![id] = shown] \in Pools
        /\ [pool.profiles EXCEPT ![id] = IF @ = Gone THEN Gone ELSE shown] \in Pools
    BY <1>3, <1>4 DEF Pools
  <2> QED BY <1>4, <2>1 DEF Shows, PoolCopies
<1>5. CASE Saved
  <2>1. /\ writes["save"].at = "ok" /\ Back("save") /\ "save" \in Kinds
        /\ adopt(writes["save"], pool.default)
        /\ draft' = NoDraft /\ UNCHANGED <<choice, scope, touched, dialog>>
    BY <1>5 DEF Saved, Kinds
  <2>2. CopyShape' /\ poolRead'.at = "out"
    BY <1>0, <1>2, <1>3, <1>4, <2>1 DEF adopt, CopyShape
  <2>3. LookShape'
    BY <1>0, <2>1 DEF LookShape
  <2> QED BY <1>1, <2>1, <2>2, <2>3
<1>6. CASE DefaultSet
  <2>1. /\ writes["choose"].at = "ok" /\ Back("choose") /\ "choose" \in Kinds
        /\ \E default \in {pool.default, writes["choose"].profile} :
             adopt(writes["choose"], default)
        /\ UNCHANGED <<choice, scope, touched, draft, dialog>>
    BY <1>6 DEF DefaultSet, Kinds
  <2>2. PICK default \in IdOrNobody : adopt(writes["choose"], default)
    BY <1>2, <1>3, <2>1
  <2>3. CopyShape' /\ poolRead'.at = "out"
    BY <1>0, <1>2, <1>3, <1>4, <2>1, <2>2 DEF adopt, CopyShape
  <2>4. LookShape'
    BY <1>0, <2>1 DEF LookShape
  <2> QED BY <1>1, <2>1, <2>3, <2>4
<1>7. CASE Assigned
  <2>1. /\ writes["assign"].at = "ok" /\ Back("assign") /\ "assign" \in Kinds
        /\ choice' = [choice EXCEPT ![writes["assign"].project] =
             [override |-> writes["assign"].profile, effective |-> writes["assign"].profile]]
        /\ reloadPool /\ UNCHANGED <<pool, scope, touched, draft, dialog>>
    BY <1>7 DEF Assigned, Kinds
  <2>2. [override |-> writes["assign"].profile, effective |-> writes["assign"].profile]
          \in ProfileChoices
    BY <1>2, <2>1 DEF ProfileChoices
  <2>3. CopyShape' /\ poolRead'.at = "out"
    BY <1>0, <1>3, <2>1, <2>2 DEF CopyShape
  <2>4. LookShape'
    BY <1>0, <2>1 DEF LookShape
  <2> QED BY <1>1, <2>1, <2>3, <2>4
<1>8. CASE OverrideCleared
  <2>1. /\ writes["clear"].at = "ok" /\ Back("clear") /\ "clear" \in Kinds
        /\ choice' = [choice EXCEPT ![writes["clear"].project] =
             [override |-> Nobody, effective |-> writes["clear"].profile]]
        /\ reloadPool /\ touched' = Nobody /\ draft' = NoDraft /\ UNCHANGED <<pool, scope, dialog>>
    BY <1>8 DEF OverrideCleared, Kinds
  <2>2. [override |-> Nobody, effective |-> writes["clear"].profile] \in ProfileChoices
    BY <1>2, <2>1 DEF ProfileChoices
  <2>3. CopyShape' /\ poolRead'.at = "out"
    BY <1>0, <1>3, <2>1, <2>2 DEF CopyShape
  <2>4. LookShape'
    BY <1>0, <2>1 DEF LookShape, IdOrNobody
  <2> QED BY <1>1, <2>1, <2>3, <2>4
<1>9. CASE Created
  <2>1. /\ writes["create"].at = "ok" /\ Back("create") /\ "create" \in Kinds
        /\ Shows([pool.profiles EXCEPT ![writes["create"].profile] = writes["create"].patch],
                 pool.default)
        /\ reloadPool /\ touched' = writes["create"].profile /\ draft' = NoDraft
        /\ dialog' = (IF dialog.kind = "create" THEN NoDialog ELSE dialog)
        /\ UNCHANGED <<choice, scope>>
    BY <1>9 DEF Created, Kinds
  <2>2. CopyShape' /\ poolRead'.at = "out"
    BY <1>0, <1>2, <1>3, <1>4, <2>1 DEF CopyShape
  <2>3. LookShape'
    BY <1>0, <1>2, <2>1, ProfileTypes DEF LookShape
  <2> QED BY <1>1, <2>1, <2>2, <2>3
<1>10. CASE Deleted
  <2>1. /\ writes["delete"].at = "ok" /\ Back("delete") /\ "delete" \in Kinds
        /\ Shows([pool.profiles EXCEPT ![writes["delete"].profile] = Gone], pool.default)
        /\ reloadPool /\ touched' \in {Nobody, touched} /\ draft' \in {NoDraft, draft}
        /\ dialog' = (IF dialog.kind = "delete" THEN NoDialog ELSE dialog)
        /\ UNCHANGED <<choice, scope>>
    BY <1>10 DEF Deleted, Kinds
  <2>2. CopyShape' /\ poolRead'.at = "out"
    BY <1>0, <1>2, <1>3, <1>4, <2>1 DEF CopyShape
  <2>3. LookShape'
    BY <1>0, <2>1, ProfileTypes DEF LookShape, IdOrNobody
  <2> QED BY <1>1, <2>1, <2>2, <2>3
<1>11. ASSUME NEW k \in Kinds, WriteFailed(k) PROVE PageFits'
  <2>1. writes[k].at # "ok" /\ Back(k) /\ UNCHANGED <<pool, poolRead, choice>> /\ Looks
    BY <1>11 DEF WriteFailed, Reads
  <2>2. LookShape' /\ CopyShape'
    BY <1>0, <2>1 DEF LookShape, CopyShape, Looks
  <2> QED BY <1>1, <2>1, <2>2
<1> QED
  BY <1>5, <1>6, <1>7, <1>8, <1>9, <1>10, <1>11 DEF Answers

\* Whatever is typed, sent, refused and read meanwhile, the page's copies keep their types, and
\* once its reads and writes are answered it shows what the API holds, unless a teammate wrote
\* or an applied write went unanswered since the pool was last read: a read that was out before
\* a write never brings the old pool back (profiles/page.tsx, use-profiles.ts).
THEOREM OwnWritesAreShown == ProfilesSpec => []ProfilesInv
<1>1. ProfilesInit => PageFits
  BY ProfilesStart
<1>2. PageFits /\ [ProfilesNext]_profilesVars => PageFits'
  <2>1. PageFits /\ UNCHANGED profilesVars => PageFits'
    <3>1. UNCHANGED profilesVars => UNCHANGED <<serverVars, pool, poolRead, choice, writes>>
                                    /\ UNCHANGED <<scope, touched, draft, dialog>>
      BY DEF profilesVars
    <3>2. PageFits /\ UNCHANGED profilesVars => LookShape'
      BY <3>1 DEF PageFits, ProfilesShape, LookShape
    <3> QED BY <3>1, <3>2, OnlyLooked
  <2>2. PageFits /\ ProfilesNext => PageFits'
    BY PoolMoves, ProfilesLooked, WriteAsked, WriteServed, AnswerHeard, TeammateActed
       DEF ProfilesNext, ProjectOrNobody
  <2> QED BY <2>1, <2>2
<1>3. PageFits => ProfilesInv
  <2> SUFFICES ASSUME PageFits PROVE ProfilesInv
    OBVIOUS
  <2>0. ApiShape /\ CopyShape /\ LookShape /\ WriteShape /\ CopyIsFresh
    BY DEF PageFits, ProfilesShape
  <2>1. ProfilesTypeOK
    <3>1. draft.profile \in (ProfileIds \ Presets) \cup {Nobody}
      BY <2>0 DEF LookShape, NoDraft, Drafts
    <3>2. dialog.kind \in {"none", "profile", "scope", "create", "delete"}
      BY <2>0 DEF LookShape, Dialogs
    <3>3. pool.at \in {"loading", "ready", "error"} /\ pool.profiles \in Pools
          /\ poolRead.at \in {"none", "out", "served"}
      BY <2>0 DEF CopyShape, PoolCopies, PoolReads
    <3>4. \A k \in Kinds : writes[k].at \in {"idle", "out", "ok", "refused"}
      BY <2>0 DEF WriteShape, Writes
    <3> QED BY <2>0, <3>1, <3>2, <3>3, <3>4
            DEF ProfilesTypeOK, ApiShape, CopyShape, LookShape, IdOrNobody, ProjectOrNobody
  <2>2. ShowsOwnWrites
    <3>1. (\A k \in Kinds : writes[k] = Idle) => ~Unheard
      BY ProfileTypes DEF Unheard
    <3>2. poolRead = NoRead => poolRead.at = "none"
      BY DEF NoRead
    <3> QED BY <2>0, <3>1, <3>2 DEF ShowsOwnWrites, CopyIsFresh
  <2> QED BY <2>1, <2>2 DEF ProfilesInv
<1> QED
  BY <1>1, <1>2, <1>3, PTL DEF ProfilesSpec

(***************************************************************************)
(* The overview: what it lists, ranks and sums up.                         *)
(***************************************************************************)
LEMMA UpTo ==
  ASSUME NEW n \in Nat, NEW S, 0 \in S, \A i \in 0..(n - 1) : i \in S => i + 1 \in S
  PROVE  0..n \subseteq S
<1> DEFINE R == StrictSubsetOrdering(0..n)
           T == {0..i : i \in (0..n) \ S}
<1> SUFFICES ASSUME T # {} PROVE FALSE
  OBVIOUS
<1>1. IsFiniteSet(0..n)
  <2>1. 0 \in Int /\ n \in Int
    OBVIOUS
  <2>2. QED  BY <2>1, FS_Interval
<1>2. IsWellFoundedOn(R, SUBSET (0..n))
  BY <1>1, FS_StrictSubsetOrderingWellFounded, FS_FiniteSubsetsOfFinite
<1>3. T \subseteq SUBSET (0..n)
  OBVIOUS
<1> HIDE DEF R, T
<1>4. \E A \in T : \A B \in T : ~(<<B, A>> \in R)
  BY <1>2, <1>3, WFMin
<1>5. PICK i \in (0..n) \ S : \A B \in T : ~(<<B, 0..i>> \in R)
  BY <1>4 DEF T
<1>6. i # 0 /\ i - 1 \in 0..(n - 1) /\ i - 1 \in 0..n /\ (i - 1) + 1 = i
  BY <1>5
<1>7. i - 1 \notin S
  BY <1>5, <1>6
<1>8. 0..(i - 1) \in T /\ 0..(i - 1) \in SUBSET (0..n) /\ 0..i \in SUBSET (0..n)
  BY <1>5, <1>6, <1>7 DEF T
<1>9. 0..(i - 1) \subseteq 0..i /\ i \in 0..i /\ i \notin 0..(i - 1)
  BY <1>5, <1>6
<1>10. <<0..(i - 1), 0..i>> \in R
  BY <1>8, <1>9 DEF R, StrictSubsetOrdering
<1>11. QED  BY <1>5, <1>8, <1>10

StrictOn(r, S) ==
  /\ \A x \in S : <<x, x>> \notin r
  /\ \A x, y, z \in S : <<x, y>> \in r /\ <<y, z>> \in r => <<x, z>> \in r

LEMMA SomeIsLast ==
  ASSUME NEW S, IsFiniteSet(S), S # {}, NEW r, StrictOn(r, S)
  PROVE  \E x \in S : \A y \in S : <<x, y>> \notin r
<1> DEFINE after(x) == {y \in S : <<x, y>> \in r}
           R == StrictSubsetOrdering(S)
           T == {after(x) : x \in S}
<1>1. IsWellFoundedOn(R, SUBSET S)
  BY FS_StrictSubsetOrderingWellFounded, FS_FiniteSubsetsOfFinite
<1>2. T \subseteq SUBSET S /\ T # {}
  OBVIOUS
<1> HIDE DEF R, T
<1>3. \E A \in T : \A B \in T : ~(<<B, A>> \in R)
  BY <1>1, <1>2, WFMin
<1>4. PICK x \in S : \A B \in T : ~(<<B, after(x)>> \in R)
  BY <1>3 DEF T
<1>5. ASSUME NEW y \in S, <<x, y>> \in r PROVE FALSE
  <2>1. after(y) \subseteq after(x) /\ y \in after(x) /\ y \notin after(y)
    BY <1>5 DEF StrictOn
  <2>2. after(y) \in T /\ after(x) \in SUBSET S /\ after(y) \in SUBSET S
    BY DEF T
  <2> HIDE DEF after
  <2>3. <<after(y), after(x)>> \in R
    BY <2>1, <2>2 DEF R, StrictSubsetOrdering
  <2>4. QED  BY <1>4, <2>2, <2>3
<1>6. QED  BY <1>5

\* A set has a list of its elements in the order of a relation that compares any two of them.
LEMMA SortedListExists ==
  ASSUME NEW U, NEW r, StrictOn(r, U),
         \A x, y \in U : x # y => <<x, y>> \in r \/ <<y, x>> \in r,
         NEW S \in SUBSET U, IsFiniteSet(S)
  PROVE  \E list \in [1..Cardinality(S) -> S] :
           \A i, j \in 1..Cardinality(S) : i < j => <<list[i], list[j]>> \in r
<1> DEFINE Sorted(T, list) ==
             \A i, j \in 1..Cardinality(T) : i < j => <<list[i], list[j]>> \in r
           Sizes == {n \in Nat : \A T \in SUBSET S : Cardinality(T) = n =>
                                   \E list \in [1..n -> T] : Sorted(T, list)}
<1>1. \A T \in SUBSET S : IsFiniteSet(T) /\ Cardinality(T) \in Nat
  BY FS_Subset, FS_CardinalityType
<1>2. 0 \in Sizes
  <2> SUFFICES ASSUME NEW T \in SUBSET S, Cardinality(T) = 0
               PROVE  \E list \in [1..0 -> T] : Sorted(T, list)
    OBVIOUS
  <2>1. [i \in 1..0 |-> 0] \in [1..0 -> T]
    OBVIOUS
  <2>2. Sorted(T, [i \in 1..0 |-> 0])
    OBVIOUS
  <2>3. QED  BY <2>1, <2>2
<1>3. ASSUME NEW n \in Nat, n \in Sizes PROVE n + 1 \in Sizes
  <2> SUFFICES ASSUME NEW T \in SUBSET S, Cardinality(T) = n + 1
               PROVE  \E list \in [1..(n + 1) -> T] : Sorted(T, list)
    OBVIOUS
  <2>1. T # {} /\ IsFiniteSet(T)
    BY <1>1, FS_EmptySet
  <2>2. StrictOn(r, T)
    BY DEF StrictOn
  <2>3. PICK x \in T : \A y \in T : <<x, y>> \notin r
    BY <2>1, <2>2, SomeIsLast
  <2>4. Cardinality(T \ {x}) = n /\ T \ {x} \in SUBSET S
    <3>1. Cardinality(T \ {x}) = Cardinality(T) - 1
      BY <2>1, FS_RemoveElement
    <3>2. QED  BY <3>1
  <2>5. \A less \in SUBSET S : Cardinality(less) = n =>
                              \E list \in [1..n -> less] : Sorted(less, list)
    BY <1>3
  <2> HIDE DEF Sorted
  <2>6. \E list \in [1..n -> T \ {x}] : Sorted(T \ {x}, list)
    BY <2>4, <2>5
  <2> USE DEF Sorted
  <2>7. PICK list \in [1..n -> T \ {x}] :
               \A i, j \in 1..n : i < j => <<list[i], list[j]>> \in r
    BY <2>4, <2>6
  <2> DEFINE longer == [i \in 1..(n + 1) |-> IF i = n + 1 THEN x ELSE list[i]]
  <2>8. longer \in [1..(n + 1) -> T]
    OBVIOUS
  <2>9. ASSUME NEW i \in 1..(n + 1), NEW j \in 1..(n + 1), i < j
        PROVE  <<longer[i], longer[j]>> \in r
    <3>1. i \in 1..n /\ longer[i] = list[i] /\ list[i] \in T \ {x}
      BY <2>9
    <3>2. CASE j = n + 1
      <4>1. longer[j] = x /\ list[i] \in U /\ x \in U /\ list[i] # x
        BY <3>1, <3>2
      <4>2. <<x, list[i]>> \notin r
        BY <2>3, <3>1
      <4>3. QED  BY <3>1, <4>1, <4>2
    <3>3. CASE j \in 1..n
      <4>1. <<list[i], list[j]>> \in r /\ longer[j] = list[j]
        BY <2>7, <2>9, <3>1, <3>3
      <4>2. QED  BY <3>1, <4>1
    <3>4. QED  BY <3>2, <3>3
  <2> HIDE DEF longer
  <2>10. Sorted(T, longer)
    BY <2>9
  <2>11. QED  BY <2>8, <2>10
<1> HIDE DEF Sizes
<1>4. Cardinality(S) \in Sizes
  BY <1>1, <1>2, <1>3, UpTo
<1>5. QED  BY <1>4 DEF Sizes

\* A list of as many different elements as a set has names all of them.
AllDifferent(list, n) == \A i, j \in 1..n : i < j => list[i] # list[j]
NamesAll(list, n, S)  == \A x \in S : \E i \in 1..n : list[i] = x

LEMMA DifferentOnesAreAll ==
  ASSUME NEW S, IsFiniteSet(S), NEW n, n = Cardinality(S),
         NEW list, list \in [1..n -> S], AllDifferent(list, n)
  PROVE  NamesAll(list, n, S)
<1>1. n \in Nat
  BY FS_CardinalityType
<1>2. IsFiniteSet(1..n) /\ Cardinality(1..n) = Cardinality(S)
  <2>1. 1 \in Int /\ n \in Int
    BY <1>1
  <2>2. QED  BY <1>1, <2>1, FS_Interval
<1>3. \A i, j \in 1..n : list[i] = list[j] => i = j
  <2> TAKE i, j \in 1..n
  <2>1. i < j \/ j < i \/ i = j
    BY <1>1
  <2>2. QED  BY <2>1 DEF AllDifferent
<1>4. list \in Injection(1..n, S)
  BY <1>3 DEF Injection, IsInjective
<1>5. list \in Surjection(1..n, S)
  BY <1>2, <1>4, FS_Injection
<1>6. QED  BY <1>5 DEF Surjection, NamesAll

\* What a fold goes through: each set's result is that of the set without the element that was
\* picked, and one more step.
Picks(pick, S) == \A s \in SUBSET S : s # {} => pick[s] \in s
Folded(g, S, base, pick, step) ==
  g = [s \in SUBSET S |-> IF s = {} THEN base ELSE step[<<pick[s], g[s \ {pick[s]}]>>]]

LEMMA FoldExists ==
  ASSUME NEW S, IsFiniteSet(S), NEW V, NEW base \in V,
         NEW pick, Picks(pick, S),
         NEW step \in [S \X V -> V]
  PROVE  \E g \in [SUBSET S -> V] : Folded(g, S, base, pick, step)
<1> DEFINE D(n) == {s \in SUBSET S : Cardinality(s) <= n}
           Next1(g, s) == IF s = {} THEN base ELSE step[<<pick[s], g[s \ {pick[s]}]>>]
           Sizes == {n \in Nat : \E g \in [D(n) -> V] : g = [s \in D(n) |-> Next1(g, s)]}
<1>1. \A s \in SUBSET S : /\ IsFiniteSet(s) /\ Cardinality(s) \in Nat
                          /\ Cardinality(s) <= Cardinality(S)
                          /\ Cardinality(s) = 0 <=> s = {}
  BY FS_Subset, FS_CardinalityType, FS_EmptySet
<1>2. \A s \in SUBSET S : s # {} => /\ Cardinality(s \ {pick[s]}) = Cardinality(s) - 1
                                    /\ s \ {pick[s]} \in SUBSET S /\ pick[s] \in S
  BY <1>1, FS_RemoveElement DEF Picks
<1>3. 0 \in Sizes
  <2>1. \A s \in D(0) : s = {}
    BY <1>1
  <2>2. [s \in D(0) |-> base] \in [D(0) -> V]
    OBVIOUS
  <2>3. [s \in D(0) |-> base] = [s \in D(0) |-> Next1([t \in D(0) |-> base], s)]
    BY <2>1
  <2>4. QED  BY <2>2, <2>3
<1>4. ASSUME NEW n \in Nat, n \in Sizes PROVE n + 1 \in Sizes
  <2>1. PICK g \in [D(n) -> V] : g = [s \in D(n) |-> Next1(g, s)]
    BY <1>4
  <2> DEFINE h == [s \in D(n + 1) |-> Next1(g, s)]
  <2>2. \A s \in D(n + 1) : s # {} => s \ {pick[s]} \in D(n) /\ pick[s] \in S
    BY <1>1, <1>2
  <2>3. \A s \in D(n + 1) : Next1(g, s) \in V
    <3> TAKE s \in D(n + 1)
    <3>1. CASE s = {}
      BY <3>1
    <3>2. CASE s # {}
      <4>1. g[s \ {pick[s]}] \in V /\ pick[s] \in S
        BY <2>2, <3>2
      <4>2. QED  BY <3>2, <4>1
    <3>3. QED  BY <3>1, <3>2
  <2>4. h \in [D(n + 1) -> V]
    BY <2>3
  <2>5. \A s \in D(n) : s \in D(n + 1) /\ h[s] = g[s]
    <3> TAKE s \in D(n)
    <3>1. s \in D(n + 1)
      BY <1>1
    <3>2. g[s] = Next1(g, s)
      BY <2>1
    <3> HIDE DEF D, Next1
    <3>3. QED  BY <3>1, <3>2
  <2>6. \A s \in D(n + 1) : Next1(g, s) = Next1(h, s)
    <3> TAKE s \in D(n + 1)
    <3>1. CASE s = {}
      BY <3>1
    <3>2. CASE s # {}
      <4>1. h[s \ {pick[s]}] = g[s \ {pick[s]}]
        BY <2>2, <2>5, <3>2
      <4> HIDE DEF h
      <4>2. QED  BY <3>2, <4>1
    <3>3. QED  BY <3>1, <3>2
  <2>7. h = [s \in D(n + 1) |-> Next1(h, s)]
    <3>1. h = [s \in D(n + 1) |-> Next1(g, s)]
      OBVIOUS
    <3> HIDE DEF h, D, Next1
    <3>2. QED  BY <2>6, <3>1
  <2> HIDE DEF h, D, Next1
  <2>8. QED  BY <2>4, <2>7
<1>5. Cardinality(S) \in Sizes
  <2> HIDE DEF Sizes
  <2>1. PICK n \in Nat : n = Cardinality(S)
    BY <1>1
  <2>2. \A i \in 0..(n - 1) : i \in Sizes => i + 1 \in Sizes
    BY <1>4
  <2>3. 0..n \subseteq Sizes
    BY <1>3, <2>2, UpTo
  <2>4. QED  BY <2>1, <2>3
<1>6. D(Cardinality(S)) = SUBSET S
  BY <1>1
<1>7. PICK g \in [D(Cardinality(S)) -> V] : g = [s \in D(Cardinality(S)) |-> Next1(g, s)]
  BY <1>5
<1> HIDE DEF D
<1>8. QED  BY <1>6, <1>7 DEF Folded

-----------------------------------------------------------------------------
(***************************************************************************)
(* What the overview knows of its projects.                                *)
(***************************************************************************)
OverviewShape ==
  /\ latestHealth \in [OverviewRepos -> HealthValues \cup {Unscanned}]
  /\ scansNow \subseteq OverviewRepos /\ knownScans \subseteq OverviewRepos
  /\ rescoringNow \subseteq OverviewRepos

LEMMA HealthOf ==
  ASSUME OverviewShape, NEW r \in OverviewRepos
  PROVE  isScanned(r) => /\ latestHealth[r] \in HealthValues
                         /\ latestHealth[r].score \in 0..100 /\ latestHealth[r].score \in Nat
                         /\ latestHealth[r].delta \in Int
                         /\ latestHealth[r].kloc \in Nat
BY OverviewAssumption DEF OverviewShape, isScanned, OverviewAssumption

LEMMA OverviewStarts == OverviewInit => OverviewShape
BY DEF OverviewInit, OverviewShape

\* The rows.
LEMMA RowsOrdered == OverviewShape => RowsHaveOneOrder
<1> SUFFICES ASSUME OverviewShape PROVE RowsHaveOneOrder
  OBVIOUS
<1>1. ProjectRows \subseteq OverviewRepos /\ OverviewRepos \subseteq Nat
  BY OverviewAssumption DEF ProjectRows, OverviewAssumption
<1> DEFINE scanned(r) == isScanned(r)
           score(r)   == latestHealth[r].score
           time(r)    == scanTime(r)
           name(r)    == NameOf[r]
<1>2. \A r \in ProjectRows : name(r) \in Nat /\ time(r) \in Nat /\ (scanned(r) => score(r) \in Nat)
  BY <1>1, HealthOf, OverviewAssumption DEF scanTime, OverviewAssumption
<1>3. \A mode, a, b : comesBefore(mode, a, b) <=>
        IF mode = "name" THEN name(a) < name(b)
        ELSE IF mode = "recent" THEN time(b) < time(a) \/ (time(b) = time(a) /\ name(a) < name(b))
        ELSE IF ~(scanned(a) <=> scanned(b)) THEN scanned(a)
        ELSE IF ~scanned(a) THEN name(a) < name(b)
        ELSE IF mode = "attention" THEN score(a) < score(b) \/ (score(a) = score(b) /\ name(a) < name(b))
        ELSE score(b) < score(a) \/ (score(b) = score(a) /\ name(a) < name(b))
  BY DEF comesBefore, byName, isScanned
<1> HIDE DEF scanned, score, time, name
<1>4. ASSUME NEW mode \in PROJECT_SORTS, NEW a \in ProjectRows, NEW b \in ProjectRows
      PROVE  ~(comesBefore(mode, a, b) /\ comesBefore(mode, b, a))
  <2>1. /\ name(a) \in Nat /\ time(a) \in Nat /\ (scanned(a) => score(a) \in Nat)
        /\ name(b) \in Nat /\ time(b) \in Nat /\ (scanned(b) => score(b) \in Nat)
    BY <1>2
  <2>2. CASE mode \in {"name", "recent"}
    BY <1>3, <2>1, <2>2
  <2>3. CASE mode \in {"attention", "health"} /\ scanned(a) /\ scanned(b)
    BY <1>3, <2>1, <2>3
  <2>4. CASE mode \in {"attention", "health"} /\ ~(scanned(a) /\ scanned(b))
    BY <1>3, <2>1, <2>4
  <2>5. QED  BY <2>2, <2>3, <2>4 DEF PROJECT_SORTS
<1>5. ASSUME NEW mode \in PROJECT_SORTS, NEW a \in ProjectRows, NEW b \in ProjectRows,
             NEW c \in ProjectRows, comesBefore(mode, a, b)
      PROVE  comesBefore(mode, a, c) \/ comesBefore(mode, c, b)
  <2>1. /\ name(a) \in Nat /\ time(a) \in Nat /\ (scanned(a) => score(a) \in Nat)
        /\ name(b) \in Nat /\ time(b) \in Nat /\ (scanned(b) => score(b) \in Nat)
        /\ name(c) \in Nat /\ time(c) \in Nat /\ (scanned(c) => score(c) \in Nat)
    BY <1>2
  <2>2. CASE mode \in {"name", "recent"}
    BY <1>3, <1>5, <2>1, <2>2
  <2>3. CASE mode \in {"attention", "health"} /\ scanned(a) /\ scanned(b) /\ scanned(c)
    BY <1>3, <1>5, <2>1, <2>3
  <2>4. CASE mode \in {"attention", "health"} /\ ~(scanned(a) /\ scanned(b) /\ scanned(c))
    BY <1>3, <1>5, <2>1, <2>4
  <2>5. QED  BY <2>2, <2>3, <2>4 DEF PROJECT_SORTS
<1>6. ASSUME NEW mode \in PROJECT_SORTS, NEW a \in ProjectRows, NEW b \in ProjectRows
      PROVE  comesBefore(mode, a, b) \/ comesBefore(mode, b, a) \/ NameOf[a] = NameOf[b]
  <2>1. /\ name(a) \in Nat /\ time(a) \in Nat /\ (scanned(a) => score(a) \in Nat)
        /\ name(b) \in Nat /\ time(b) \in Nat /\ (scanned(b) => score(b) \in Nat)
    BY <1>2
  <2>2. comesBefore(mode, a, b) \/ comesBefore(mode, b, a) \/ name(a) = name(b)
    <3>1. CASE mode \in {"name", "recent"}
      BY <1>3, <2>1, <3>1
    <3>2. CASE mode \in {"attention", "health"} /\ scanned(a) /\ scanned(b)
      BY <1>3, <2>1, <3>2
    <3>3. CASE mode \in {"attention", "health"} /\ ~(scanned(a) /\ scanned(b))
      BY <1>3, <2>1, <3>3
    <3>4. QED  BY <3>1, <3>2, <3>3 DEF PROJECT_SORTS
  <2>3. QED  BY <2>2 DEF name
<1>7. ASSUME NEW mode \in {"attention", "health"}, NEW a \in ProjectRows, NEW b \in ProjectRows,
             isScanned(a), ~isScanned(b)
      PROVE  comesBefore(mode, a, b)
  BY <1>3, <1>7 DEF scanned
<1>8. QED  BY <1>4, <1>5, <1>6, <1>7 DEF RowsHaveOneOrder

(***************************************************************************)
(* The candidates of the attention list.                                   *)
(***************************************************************************)
\* A set of projects has a list in the order of a number and, among equals, of the projects'.
LEMMA ListByKeyExists ==
  ASSUME NEW S \in SUBSET OverviewRepos, NEW key \in [S -> Int]
  PROVE  \E list \in [1..Cardinality(S) -> S] :
           \A i, j \in 1..Cardinality(S) :
             i < j => \/ key[list[i]] < key[list[j]]
                      \/ key[list[i]] = key[list[j]] /\ list[i] < list[j]
<1> DEFINE before(p) == key[p[1]] < key[p[2]] \/ (key[p[1]] = key[p[2]] /\ p[1] < p[2])
           r == {p \in S \X S : before(p)}
<1>1. S \subseteq Nat /\ IsFiniteSet(S)
  BY OverviewAssumption, FS_Subset DEF OverviewAssumption
<1>2. \A x, y \in S : <<x, y>> \in r <=>
                        key[x] < key[y] \/ (key[x] = key[y] /\ x < y)
  OBVIOUS
<1> HIDE DEF r
<1>3. \A x \in S : x \in Nat /\ key[x] \in Int
  BY <1>1
<1>4. StrictOn(r, S)
  BY <1>2, <1>3 DEF StrictOn
<1>5. \A x, y \in S : x # y => <<x, y>> \in r \/ <<y, x>> \in r
  BY <1>2, <1>3
<1>6. S \in SUBSET S
  OBVIOUS
<1>7. PICK list \in [1..Cardinality(S) -> S] :
             \A i, j \in 1..Cardinality(S) : i < j => <<list[i], list[j]>> \in r
  BY <1>1, <1>4, <1>5, <1>6, SortedListExists
<1>8. QED  BY <1>2, <1>7

\* A sorted set is a list that names every project of it.
LEMMA SortedByNamesAll ==
  ASSUME NEW S \in SUBSET OverviewRepos, NEW key \in [S -> Int]
  PROVE  /\ SortedBy(S, key) \in [1..Cardinality(S) -> S]
         /\ NamesAll(SortedBy(S, key), Cardinality(S), S)
<1> DEFINE sorted(list) == \A i, j \in 1..Cardinality(S) :
                             i < j => \/ key[list[i]] < key[list[j]]
                                      \/ key[list[i]] = key[list[j]] /\ list[i] < list[j]
           n == Cardinality(S)
           list == SortedBy(S, key)
<1>1. \E l \in [1..Cardinality(S) -> S] : sorted(l)
  BY ListByKeyExists
<1>2. list \in [1..Cardinality(S) -> S] /\ sorted(list)
  BY <1>1 DEF SortedBy
<1> HIDE DEF list
<1>3. S \subseteq Nat /\ IsFiniteSet(S)
  BY OverviewAssumption, FS_Subset DEF OverviewAssumption
<1>4. ASSUME NEW i \in 1..Cardinality(S), NEW j \in 1..Cardinality(S), i < j
      PROVE  list[i] # list[j]
  <2>1. list[i] \in S /\ list[j] \in S
    BY <1>2
  <2>2. list[i] \in Nat /\ list[j] \in Nat /\ key[list[i]] \in Int /\ key[list[j]] \in Int
    BY <1>3, <2>1
  <2>3. \/ key[list[i]] < key[list[j]]
        \/ key[list[i]] = key[list[j]] /\ list[i] < list[j]
    BY <1>2, <1>4
  <2>4. QED  BY <2>2, <2>3
<1>5. n = Cardinality(S) /\ list \in [1..n -> S] /\ AllDifferent(list, n)
  BY <1>2, <1>4 DEF AllDifferent
<1> HIDE DEF n
<1>6. NamesAll(list, n, S)
  BY <1>3, <1>5, DifferentOnesAreAll
<1>7. QED  BY <1>2, <1>6 DEF n, list

Items     == [kind : {kinds[k] : k \in 1..4}, repo : OverviewRepos]
rankOf(x) == CHOOSE k \in 1..4 : kinds[k] = x.kind

LEMMA RankOfKind ==
  /\ \A x \in Items : rankOf(x) \in 1..4 /\ kinds[rankOf(x)] = x.kind /\ x.repo \in OverviewRepos
  /\ \A k \in 1..4, r \in OverviewRepos : /\ [kind |-> kinds[k], repo |-> r] \in Items
                                          /\ rankOf([kind |-> kinds[k], repo |-> r]) = k
<1>1. \A j, k \in 1..4 : kinds[j] = kinds[k] => j = k
  BY DEF kinds
<1>2. \A x \in Items : rankOf(x) \in 1..4 /\ kinds[rankOf(x)] = x.kind
  <2> TAKE x \in Items
  <2>1. \E k \in 1..4 : kinds[k] = x.kind
    BY DEF Items
  <2>2. QED  BY <2>1 DEF rankOf
<1>3. \A x \in Items : x.repo \in OverviewRepos
  BY DEF Items
<1>4. ASSUME NEW k \in 1..4, NEW r \in OverviewRepos
      PROVE  /\ [kind |-> kinds[k], repo |-> r] \in Items
             /\ rankOf([kind |-> kinds[k], repo |-> r]) = k
  <2> DEFINE x == [kind |-> kinds[k], repo |-> r]
  <2>1. x \in Items /\ x.kind = kinds[k]
    BY DEF Items
  <2> HIDE DEF x
  <2>2. rankOf(x) \in 1..4 /\ kinds[rankOf(x)] = kinds[k]
    BY <1>2, <2>1
  <2>3. rankOf(x) = k
    BY <1>1, <2>2
  <2>4. QED  BY <2>1, <2>3 DEF x
<1>5. QED  BY <1>2, <1>3, <1>4

\* A list whose ranks rise from the lowest to the highest.
Rising(list, lo, hi) ==
  /\ list \in Seq(Items)
  /\ \A i \in DOMAIN list : rankOf(list[i]) \in lo..hi
  /\ \A i, j \in DOMAIN list : i < j => rankOf(list[i]) <= rankOf(list[j])
Names(list, x) == \E i \in DOMAIN list : list[i] = x

LEMMA JoinedRises ==
  ASSUME NEW a \in Nat, NEW b \in Nat, NEW c \in Nat, a <= b, b < c,
         NEW front, Rising(front, a, b), NEW back, Rising(back, c, c)
  PROVE  /\ Rising(front \o back, a, c)
         /\ \A x : Names(front \o back, x) <=> Names(front, x) \/ Names(back, x)
<1> DEFINE both == front \o back
<1>1. /\ front \in Seq(Items) /\ back \in Seq(Items) /\ both \in Seq(Items)
      /\ Len(front) \in Nat /\ Len(back) \in Nat
      /\ DOMAIN front = 1..Len(front) /\ DOMAIN back = 1..Len(back)
      /\ DOMAIN both = 1..(Len(front) + Len(back))
  BY DEF Rising
<1>2. /\ \A i \in 1..Len(front) : both[i] = front[i]
      /\ \A i \in 1..Len(back) : both[Len(front) + i] = back[i]
  BY <1>1
<1>3. \A i \in DOMAIN both : \/ i \in 1..Len(front)
                             \/ i - Len(front) \in 1..Len(back) /\ Len(front) + (i - Len(front)) = i
  BY <1>1
<1>4. \A i \in 1..Len(front) : rankOf(front[i]) \in a..b
  BY <1>1 DEF Rising
<1>5. \A i \in 1..Len(back) : rankOf(back[i]) = c
  BY <1>1 DEF Rising
<1> HIDE DEF both
<1>6. \A i \in DOMAIN both : \/ i \in 1..Len(front) /\ both[i] = front[i] /\ rankOf(both[i]) \in a..b
                             \/ i > Len(front) /\ rankOf(both[i]) = c
  <2> TAKE i \in DOMAIN both
  <2>1. CASE i \in 1..Len(front)
    BY <1>2, <1>4, <2>1
  <2>2. CASE i - Len(front) \in 1..Len(back) /\ Len(front) + (i - Len(front)) = i
    <3>1. both[i] = back[i - Len(front)]
      BY <1>2, <2>2
    <3>2. i > Len(front)
      BY <1>1, <2>2
    <3>3. QED  BY <1>5, <2>2, <3>1, <3>2
  <2>3. QED  BY <1>3, <2>1, <2>2
<1>7. \A i \in DOMAIN both : rankOf(both[i]) \in a..c
  BY <1>6
<1>8. ASSUME NEW i \in DOMAIN both, NEW j \in DOMAIN both, i < j
      PROVE  rankOf(both[i]) <= rankOf(both[j])
  <2>1. CASE j > Len(front) /\ rankOf(both[j]) = c
    BY <1>7, <2>1
  <2>2. CASE j \in 1..Len(front) /\ both[j] = front[j]
    <3>1. i \in 1..Len(front)
      BY <1>1, <1>8, <2>2
    <3>2. both[i] = front[i]
      BY <1>2, <3>1
    <3>3. QED  BY <1>1, <1>8, <2>2, <3>1, <3>2 DEF Rising
  <2>3. QED  BY <1>6, <2>1, <2>2
<1>9. ASSUME NEW x PROVE Names(both, x) <=> Names(front, x) \/ Names(back, x)
  <2>1. Names(both, x) => Names(front, x) \/ Names(back, x)
    <3> SUFFICES ASSUME NEW i \in DOMAIN both, both[i] = x
                 PROVE  Names(front, x) \/ Names(back, x)
      BY DEF Names
    <3>1. CASE i \in 1..Len(front)
      BY <1>1, <1>2, <3>1 DEF Names
    <3>2. CASE i - Len(front) \in 1..Len(back) /\ Len(front) + (i - Len(front)) = i
      <4>1. back[i - Len(front)] = x
        BY <1>2, <3>2
      <4>2. QED  BY <1>1, <3>2, <4>1 DEF Names
    <3>3. QED  BY <1>3, <3>1, <3>2
  <2>2. Names(front, x) => Names(both, x)
    <3> SUFFICES ASSUME NEW i \in DOMAIN front, front[i] = x PROVE Names(both, x)
      BY DEF Names
    <3>1. i \in DOMAIN both /\ both[i] = x
      BY <1>1, <1>2
    <3>2. QED  BY <3>1 DEF Names
  <2>3. Names(back, x) => Names(both, x)
    <3> SUFFICES ASSUME NEW i \in DOMAIN back, back[i] = x PROVE Names(both, x)
      BY DEF Names
    <3>1. Len(front) + i \in DOMAIN both /\ both[Len(front) + i] = x
      BY <1>1, <1>2
    <3>2. QED  BY <3>1 DEF Names
  <2>4. QED  BY <2>1, <2>2, <2>3
<1>10. QED  BY <1>1, <1>7, <1>8, <1>9 DEF Rising, both

\* The projects of one reason, in some order.
PartOf(k, list) == [i \in DOMAIN list |-> [kind |-> kinds[k], repo |-> list[i]]]
PartFits(part, k, S) ==
  /\ Rising(part, k, k)
  /\ \A r \in OverviewRepos, j \in 1..4 :
       Names(part, [kind |-> kinds[j], repo |-> r]) <=> j = k /\ r \in S

LEMMA PartRises ==
  ASSUME NEW k \in 1..4, NEW S \in SUBSET OverviewRepos, NEW list \in [1..Cardinality(S) -> S],
         NamesAll(list, Cardinality(S), S),
         NEW part, part = PartOf(k, list)
  PROVE  PartFits(part, k, S)
<1>1. IsFiniteSet(S) /\ Cardinality(S) \in Nat
  BY OverviewAssumption, FS_Subset, FS_CardinalityType DEF OverviewAssumption
<1>2. DOMAIN part = 1..Cardinality(S)
  BY <1>1 DEF PartOf
<1>3. \A i \in 1..Cardinality(S) : /\ part[i] = [kind |-> kinds[k], repo |-> list[i]]
                                   /\ list[i] \in S /\ list[i] \in OverviewRepos
  BY <1>1 DEF PartOf
<1>4. ASSUME NEW i \in 1..Cardinality(S) PROVE part[i] \in Items /\ rankOf(part[i]) = k
  <2>1. part[i] = [kind |-> kinds[k], repo |-> list[i]] /\ list[i] \in OverviewRepos
    BY <1>3
  <2>2. QED  BY <2>1, RankOfKind
<1>5. part \in Seq(Items)
  <2>1. part = [i \in 1..Cardinality(S) |-> part[i]]
    BY <1>2 DEF PartOf
  <2>2. part \in [1..Cardinality(S) -> Items]
    BY <1>4, <2>1
  <2>3. QED  BY <1>1, <2>2
<1>6. Rising(part, k, k)
  BY <1>2, <1>4, <1>5 DEF Rising
<1>7. ASSUME NEW r \in OverviewRepos, NEW j \in 1..4
      PROVE  Names(part, [kind |-> kinds[j], repo |-> r]) <=> j = k /\ r \in S
  <2>1. ASSUME NEW i \in 1..Cardinality(S), part[i] = [kind |-> kinds[j], repo |-> r]
        PROVE  j = k /\ r \in S
    <3>1. rankOf(part[i]) = j
      BY <2>1, RankOfKind
    <3>2. part[i] = [kind |-> kinds[k], repo |-> list[i]]
      BY <1>3
    <3>3. list[i] = r
      BY <2>1, <3>2
    <3>4. QED  BY <1>3, <1>4, <3>1, <3>3
  <2>2. ASSUME j = k, r \in S PROVE Names(part, [kind |-> kinds[j], repo |-> r])
    <3>1. PICK i \in 1..Cardinality(S) : list[i] = r
      BY <2>2 DEF NamesAll
    <3>2. QED  BY <1>2, <1>3, <2>2, <3>1 DEF Names
  <2>3. QED  BY <1>2, <2>1, <2>2 DEF Names
<1>8. QED  BY <1>6, <1>7 DEF PartFits

LEMMA SortedPart ==
  ASSUME NEW k \in 1..4, NEW S \in SUBSET OverviewRepos, NEW key \in [S -> Int]
  PROVE  PartFits(PartOf(k, SortedBy(S, key)), k, S)
<1> DEFINE list == SortedBy(S, key)
<1>1. list \in [1..Cardinality(S) -> S] /\ NamesAll(list, Cardinality(S), S)
  BY SortedByNamesAll
<1> HIDE DEF list
<1>2. PartFits(PartOf(k, list), k, S)
  BY <1>1, PartRises
<1>3. QED  BY <1>2 DEF list

\* The candidates are listed by reason, and a project once for each of its reasons.
LEMMA CandidatesRise ==
  ASSUME OverviewShape
  PROVE  /\ Rising(candidates, 1, 4)
         /\ \A r \in OverviewRepos, k \in 1..4 :
              Names(candidates, [kind |-> kinds[k], repo |-> r]) <=> k \in Reasons(r)
<1> DEFINE S1 == {r \in OverviewRepos : isDropped(r)}
           S2 == {r \in OverviewRepos : isLowGrade(r)}
           S3 == OverviewRepos \ ScannedRepos
           S4 == rescoringNow
           key1 == [r \in S1 |-> latestHealth[r].delta]
           key2 == [r \in S2 |-> latestHealth[r].score]
           P1 == PartOf(1, SortedBy(S1, key1))
           P2 == PartOf(2, SortedBy(S2, key2))
           P3 == PartOf(3, Listed(S3))
           P4 == PartOf(4, Listed(S4))
           item(k, r) == [kind |-> kinds[k], repo |-> r]
<1>1. candidates = ((P1 \o P2) \o P3) \o P4
  BY DEF candidates, PartOf, kinds
<1>2. S1 \in SUBSET OverviewRepos /\ S2 \in SUBSET OverviewRepos
      /\ S3 \in SUBSET OverviewRepos /\ S4 \in SUBSET OverviewRepos
  BY DEF OverviewShape
<1>3. key1 \in [S1 -> Int]
  BY HealthOf DEF isDropped
<1>4. key2 \in [S2 -> Int]
  BY HealthOf DEF isLowGrade
<1>5. \A r \in OverviewRepos : /\ r \in S1 <=> 1 \in Reasons(r)
                               /\ r \in S2 <=> 2 \in Reasons(r)
                               /\ r \in S3 <=> 3 \in Reasons(r)
                               /\ r \in S4 <=> 4 \in Reasons(r)
  BY DEF Reasons, ScannedRepos
<1>6. [r \in S3 |-> 0] \in [S3 -> Int] /\ [r \in S4 |-> 0] \in [S4 -> Int]
  OBVIOUS
<1> HIDE DEF S1, S2, S3, S4, key1, key2
<1>7. 1 \in 1..4 /\ 2 \in 1..4 /\ 3 \in 1..4 /\ 4 \in 1..4
  OBVIOUS
<1>8. PartFits(P1, 1, S1) /\ PartFits(P2, 2, S2)
  BY <1>2, <1>3, <1>4, <1>7, SortedPart
<1>9. PartFits(P3, 3, S3) /\ PartFits(P4, 4, S4)
  BY <1>2, <1>6, <1>7, SortedPart DEF Listed
<1> HIDE DEF P1, P2, P3, P4
<1>10. /\ Rising(P1 \o P2, 1, 2)
       /\ \A x : Names(P1 \o P2, x) <=> Names(P1, x) \/ Names(P2, x)
  BY <1>8, JoinedRises DEF PartFits
<1>11. /\ Rising((P1 \o P2) \o P3, 1, 3)
       /\ \A x : Names((P1 \o P2) \o P3, x) <=> Names(P1 \o P2, x) \/ Names(P3, x)
  BY <1>9, <1>10, JoinedRises DEF PartFits
<1>12. /\ Rising(candidates, 1, 4)
       /\ \A x : Names(candidates, x) <=> Names((P1 \o P2) \o P3, x) \/ Names(P4, x)
  BY <1>1, <1>9, <1>11, JoinedRises DEF PartFits
<1>13. ASSUME NEW r \in OverviewRepos, NEW k \in 1..4
       PROVE  Names(candidates, item(k, r)) <=> k \in Reasons(r)
  <2> DEFINE x == item(k, r)
  <2>1. /\ Names(P1, x) <=> k = 1 /\ r \in S1
        /\ Names(P2, x) <=> k = 2 /\ r \in S2
        /\ Names(P3, x) <=> k = 3 /\ r \in S3
        /\ Names(P4, x) <=> k = 4 /\ r \in S4
    BY <1>8, <1>9 DEF PartFits
  <2> HIDE DEF x
  <2>2. Names(candidates, x) <=> Names(P1, x) \/ Names(P2, x) \/ Names(P3, x) \/ Names(P4, x)
    BY <1>10, <1>11, <1>12
  <2>3. k = 1 \/ k = 2 \/ k = 3 \/ k = 4
    OBVIOUS
  <2>4. Names(candidates, x) <=> k \in Reasons(r)
    BY <1>5, <2>1, <2>2, <2>3
  <2>5. QED  BY <2>4 DEF x
<1>14. QED  BY <1>12, <1>13

(***************************************************************************)
(* The attention list: the candidates one after the other, those that are  *)
(* not listed yet while there is room.                                     *)
(***************************************************************************)
LEMMA LastOfSome ==
  ASSUME NEW S \in SUBSET Int, IsFiniteSet(S), S # {}
  PROVE  Max(S) \in S /\ \A y \in S : Max(S) >= y
<1> DEFINE up == {p \in S \X S : p[1] < p[2]}
<1>1. StrictOn(up, S)
  <2>1. \A x, y \in S : <<x, y>> \in up <=> x < y
    OBVIOUS
  <2> HIDE DEF up
  <2>2. QED  BY <2>1 DEF StrictOn
<1>2. \A x, y \in S : <<x, y>> \notin up => x >= y
  OBVIOUS
<1> HIDE DEF up
<1>3. \E x \in S : \A y \in S : <<x, y>> \notin up
  BY <1>1, SomeIsLast
<1>4. \E x \in S : \A y \in S : x >= y
  BY <1>2, <1>3
<1>5. QED  BY <1>4 DEF Max

LEMMA CandidateSeq ==
  ASSUME OverviewShape
  PROVE  /\ candidates \in Seq(Items) /\ Len(candidates) \in Nat
         /\ DOMAIN candidates = 1..Len(candidates)
         /\ \A m \in 1..Len(candidates) : candidates[m] \in Items
BY CandidatesRise DEF Rising

LEMMA AddedTo ==
  ASSUME NEW items \in Seq(Items), NEW item \in Items
  PROVE  add(items, item) \in Seq(Items)
BY DEF add

LEMMA AttentionFold ==
  ASSUME OverviewShape
  PROVE  \E chosen :
           /\ chosen[0] = <<>>
           /\ \A n \in 0..(Len(candidates) - 1) :
                chosen[n + 1] = add(chosen[n], candidates[n + 1])
           /\ needsAttention = chosen[Len(candidates)]
<1> DEFINE N == Len(candidates)
           S == 1..N
           V == Seq(Items)
           pick == [s \in SUBSET S |-> Max(s)]
           step == [p \in S \X V |-> add(p[2], candidates[p[1]])]
           Goes(g) == g = [s \in SUBSET S |->
                             IF s = {} THEN <<>> ELSE add(g[s \ {Max(s)}], candidates[Max(s)])]
           it == CHOOSE g : Goes(g)
<1>1. N \in Nat /\ DOMAIN candidates = S /\ \A m \in S : candidates[m] \in Items
  BY CandidateSeq
<1>2. IsFiniteSet(S)
  <2>1. 1 \in Int /\ N \in Int
    BY <1>1
  <2>2. QED  BY <2>1, FS_Interval
<1>3. \A s \in SUBSET S : s # {} => Max(s) \in s /\ \A y \in s : Max(s) >= y
  <2>1. S \subseteq Int
    BY <1>1
  <2>2. \A s \in SUBSET S : s \in SUBSET Int /\ IsFiniteSet(s)
    <3> HIDE DEF S
    <3> QED  BY <1>2, <2>1, FS_Subset
  <2>3. QED  BY <2>2, LastOfSome
<1>4. step \in [S \X V -> V]
  <2>1. \A p \in S \X V : add(p[2], candidates[p[1]]) \in V
    BY <1>1, AddedTo
  <2>2. QED  BY <2>1
<1>5. Picks(pick, S)
  BY <1>3 DEF Picks
<1>6. <<>> \in V
  OBVIOUS
<1> HIDE DEF S, V, pick, step
<1>7. PICK g \in [SUBSET S -> V] : Folded(g, S, <<>>, pick, step)
  BY <1>2, <1>4, <1>5, <1>6, FoldExists
<1>8. ASSUME NEW s \in SUBSET S, s # {}
      PROVE  step[<<pick[s], g[s \ {pick[s]}]>>] = add(g[s \ {Max(s)}], candidates[Max(s)])
  <2>1. pick[s] = Max(s)
    BY DEF pick
  <2>2. Max(s) \in S /\ s \ {Max(s)} \in SUBSET S
    BY <1>3, <1>8
  <2>3. g[s \ {Max(s)}] \in V
    BY <1>7, <2>2
  <2>4. <<Max(s), g[s \ {Max(s)}]>> \in S \X V
    BY <2>2, <2>3
  <2>5. QED  BY <2>1, <2>4 DEF step
<1>9. Goes(g)
  BY <1>7, <1>8 DEF Folded
<1>10. Goes(it)
  <2> HIDE DEF Goes
  <2>1. QED  BY <1>9
<1>11. needsAttention = it[DOMAIN candidates]
  BY <1>1 DEF needsAttention, FoldLeft, MapThenFoldSet
<1> HIDE DEF it
<1>12. \A n \in 0..N : 1..n \in SUBSET S
  BY <1>1 DEF S
<1>13. it[1..0] = <<>>
  <2>1. 1..0 = {} /\ 1..0 \in SUBSET S
    BY <1>1, <1>12
  <2>2. QED  BY <1>10, <2>1
<1>14. ASSUME NEW n \in 0..(N - 1)
       PROVE  it[1..(n + 1)] = add(it[1..n], candidates[n + 1])
  <2>1. n + 1 \in 0..N /\ n + 1 \in 1..(n + 1) /\ n \in Int
    BY <1>1
  <2>2. 1..(n + 1) \in SUBSET S /\ 1..(n + 1) # {}
    BY <1>12, <2>1
  <2>3. Max(1..(n + 1)) \in 1..(n + 1) /\ Max(1..(n + 1)) >= n + 1
    BY <1>3, <2>1, <2>2
  <2>4. Max(1..(n + 1)) = n + 1
    BY <2>1, <2>3
  <2>5. (1..(n + 1)) \ {n + 1} = 1..n
    BY <2>1
  <2>6. it[1..(n + 1)] = add(it[(1..(n + 1)) \ {Max(1..(n + 1))}], candidates[Max(1..(n + 1))])
    BY <1>10, <2>2
  <2>7. QED  BY <2>4, <2>5, <2>6
<1> DEFINE chosen == [n \in 0..N |-> it[1..n]]
<1>15. \A n \in 0..(N - 1) : n \in 0..N /\ n + 1 \in 0..N
  BY <1>1
<1>16. chosen[0] = <<>> /\ chosen[N] = it[S]
  BY <1>1, <1>13 DEF S
<1>17. \A n \in 0..(N - 1) : chosen[n + 1] = add(chosen[n], candidates[n + 1])
  BY <1>14, <1>15
<1> HIDE DEF chosen
<1>18. QED  BY <1>1, <1>11, <1>16, <1>17

\* What holds of the list after some of the candidates: no project twice, each for its most urgent
\* reason, the more urgent first; and whom it leaves out found no room behind more urgent ones.
Lowest(items)   == \A i \in DOMAIN items : \A k \in Reasons(items[i].repo) : rankOf(items[i]) <= k
Distinct(items) == \A i, j \in DOMAIN items : i # j => items[i].repo # items[j].repo
Ranked(items)   == \A i, j \in DOMAIN items : i < j => rankOf(items[i]) <= rankOf(items[j])
Chosen(items, n) == \A i \in DOMAIN items : \E m \in 1..n : items[i] = candidates[m]
LeftOut(items, n) ==
  \A m \in 1..n :
    \/ seen(items, candidates[m].repo)
    \/ /\ Len(items) = MaxAttention
       /\ \A i \in DOMAIN items : rankOf(items[i]) <= rankOf(candidates[m])
Fits(items, n) ==
  /\ items \in Seq(Items) /\ Len(items) <= MaxAttention
  /\ Lowest(items) /\ Distinct(items) /\ Ranked(items) /\ Chosen(items, n) /\ LeftOut(items, n)

\* A project's reasons below that of a candidate were candidates before it.
LEMMA EarlierReasons ==
  ASSUME OverviewShape, NEW n \in 1..Len(candidates), NEW k \in Reasons(candidates[n].repo),
         k < rankOf(candidates[n])
  PROVE  \E m \in 1..(n - 1) : candidates[m].repo = candidates[n].repo
<1> DEFINE r == candidates[n].repo
<1>1. candidates[n] \in Items /\ r \in OverviewRepos /\ rankOf(candidates[n]) \in 1..4
  BY CandidateSeq, RankOfKind
<1>2. k \in 1..4
  BY DEF Reasons
<1>3. Names(candidates, [kind |-> kinds[k], repo |-> r])
  BY <1>1, <1>2, CandidatesRise
<1>4. PICK m \in 1..Len(candidates) : candidates[m] = [kind |-> kinds[k], repo |-> r]
  BY <1>3, CandidateSeq DEF Names
<1>5. rankOf(candidates[m]) = k
  BY <1>1, <1>2, <1>4, RankOfKind
<1>6. m \in Int /\ n \in Int /\ Len(candidates) \in Nat
  BY CandidateSeq
<1>7. m < n
  <2> SUFFICES ASSUME n <= m PROVE FALSE
    BY <1>6
  <2>1. n # m
    <3> SUFFICES ASSUME n = m PROVE FALSE
      OBVIOUS
    <3>1. k < k
      BY <1>5
    <3>2. QED  BY <1>2, <3>1
  <2>2. n < m
    BY <1>6, <2>1
  <2>3. rankOf(candidates[n]) <= k
    BY <1>5, <2>2, CandidatesRise, CandidateSeq DEF Rising
  <2>4. QED  BY <1>1, <1>2, <2>3
<1>8. m \in 1..(n - 1)
  BY <1>6, <1>7
<1>9. candidates[m].repo = r
  BY <1>4
<1>10. QED  BY <1>8, <1>9

LEMMA ReasonOfCandidate ==
  ASSUME OverviewShape, NEW n \in 1..Len(candidates)
  PROVE  rankOf(candidates[n]) \in Reasons(candidates[n].repo)
<1> DEFINE x == candidates[n]
<1>1. x \in Items /\ x.repo \in OverviewRepos /\ rankOf(x) \in 1..4 /\ kinds[rankOf(x)] = x.kind
  BY CandidateSeq, RankOfKind
<1>2. x = [kind |-> kinds[rankOf(x)], repo |-> x.repo]
  BY <1>1 DEF Items
<1>3. Names(candidates, x)
  BY CandidateSeq DEF Names
<1> HIDE DEF x
<1>4. QED  BY <1>1, <1>2, <1>3, CandidatesRise DEF x

LEMMA AppendKeeps ==
  ASSUME NEW items \in Seq(Items), NEW x \in Items
  PROVE  /\ Append(items, x) \in Seq(Items) /\ Len(items) \in Nat
         /\ Len(Append(items, x)) = Len(items) + 1
         /\ DOMAIN items = 1..Len(items)
         /\ DOMAIN Append(items, x) = 1..(Len(items) + 1)
         /\ \A i \in 1..Len(items) : Append(items, x)[i] = items[i] /\ items[i] \in Items
         /\ Append(items, x)[Len(items) + 1] = x
OBVIOUS

LEMMA AddFits ==
  ASSUME OverviewShape, NEW n \in 0..(Len(candidates) - 1), NEW items, Fits(items, n)
  PROVE  Fits(add(items, candidates[n + 1]), n + 1)
<1> DEFINE x == candidates[n + 1]
<1>1. /\ Len(candidates) \in Nat /\ n \in Nat /\ n + 1 \in 1..Len(candidates) /\ x \in Items
      /\ \A m \in 1..n : m \in 1..Len(candidates) /\ m < n + 1
      /\ \A m \in 1..(n + 1) : m \in 1..n \/ m = n + 1
      /\ \A m \in 1..n : m \in 1..(n + 1)
      /\ MaxAttention \in Nat
  BY CandidateSeq, OverviewAssumption DEF OverviewAssumption
<1>2. /\ items \in Seq(Items) /\ Len(items) <= MaxAttention /\ Len(items) \in Nat
      /\ DOMAIN items = 1..Len(items)
      /\ \A i \in 1..Len(items) : items[i] \in Items /\ rankOf(items[i]) \in 1..4
  <2>1. items \in Seq(Items) /\ Len(items) <= MaxAttention
    BY DEF Fits
  <2>2. QED  BY <2>1, RankOfKind
<1>3. \A i \in 1..Len(items) : rankOf(items[i]) <= rankOf(x)
  <2> TAKE i \in 1..Len(items)
  <2>1. PICK m \in 1..n : items[i] = candidates[m]
    BY <1>2 DEF Fits, Chosen
  <2>2. m \in 1..Len(candidates) /\ m < n + 1
    BY <1>1
  <2>3. QED  BY <1>1, <2>1, <2>2, CandidatesRise, CandidateSeq DEF Rising
<1>4. CASE seen(items, x.repo) \/ Len(items) >= MaxAttention
  <2>1. add(items, x) = items
    BY <1>4 DEF add
  <2>2. Chosen(items, n + 1)
    BY <1>1 DEF Fits, Chosen
  <2>3. seen(items, x.repo) \/ Len(items) = MaxAttention
    <3>1. Len(items) \in Nat /\ MaxAttention \in Nat /\ Len(items) <= MaxAttention
      BY <1>1, <1>2
    <3>2. Len(items) >= MaxAttention => Len(items) = MaxAttention
      BY <3>1
    <3>3. QED  BY <1>4, <3>2
  <2>4. LeftOut(items, n + 1)
    <3> SUFFICES ASSUME NEW m \in 1..(n + 1)
                 PROVE  \/ seen(items, candidates[m].repo)
                        \/ /\ Len(items) = MaxAttention
                           /\ \A i \in DOMAIN items : rankOf(items[i]) <= rankOf(candidates[m])
      BY DEF LeftOut
    <3>1. CASE m \in 1..n
      BY <3>1 DEF Fits, LeftOut
    <3>2. CASE m = n + 1
      BY <1>2, <1>3, <2>3, <3>2
    <3>3. QED  BY <1>1, <3>1, <3>2
  <2>5. QED  BY <2>1, <2>2, <2>4 DEF Fits
<1>5. CASE ~(seen(items, x.repo) \/ Len(items) >= MaxAttention)
  <2> DEFINE longer == Append(items, x)
             L == Len(items)
  <2>1. add(items, x) = longer
    BY <1>5 DEF add
  <2>2. /\ longer \in Seq(Items) /\ Len(longer) = L + 1 /\ L \in Nat
        /\ DOMAIN longer = 1..(L + 1) /\ DOMAIN items = 1..L
        /\ \A i \in 1..L : longer[i] = items[i] /\ items[i] \in Items
        /\ longer[L + 1] = x
    BY <1>1, <1>2, AppendKeeps
  <2>3. Len(longer) <= MaxAttention
    BY <1>1, <1>2, <1>5, <2>2
  <2>4. \A i \in 1..L : items[i].repo # x.repo
    BY <1>5, <2>2 DEF seen
  <2> HIDE DEF longer, x
  <2>5. \A i \in 1..(L + 1) : i \in 1..L \/ i = L + 1
    BY <2>2
  <2>6. \A r : seen(items, r) => seen(longer, r)
    <3> SUFFICES ASSUME NEW r, NEW i \in 1..L, items[i].repo = r PROVE seen(longer, r)
      BY <2>2 DEF seen
    <3>1. i \in 1..(L + 1) /\ longer[i].repo = r
      BY <2>2
    <3>2. QED  BY <2>2, <3>1 DEF seen
  <2>7. seen(longer, x.repo)
    <3>1. L + 1 \in DOMAIN longer /\ longer[L + 1].repo = x.repo
      BY <2>2
    <3>2. QED  BY <3>1 DEF seen
  <2>8. ASSUME NEW k \in Reasons(x.repo) PROVE rankOf(x) <= k
    <3> SUFFICES ASSUME k < rankOf(x) PROVE FALSE
      <4>1. k \in 1..4 /\ rankOf(x) \in 1..4
        BY <1>1, RankOfKind DEF Reasons
      <4>2. QED  BY <4>1
    <3>1. PICK m \in 1..((n + 1) - 1) : candidates[m].repo = x.repo
      BY <1>1, <2>8, EarlierReasons DEF x
    <3>2. m \in 1..n
      BY <1>1
    <3>3. Len(items) # MaxAttention
      BY <1>1, <1>2, <1>5
    <3>4. seen(items, x.repo)
      BY <3>1, <3>2, <3>3 DEF Fits, LeftOut
    <3>5. QED  BY <1>5, <3>4
  <2>9. Lowest(longer)
    <3> SUFFICES ASSUME NEW i \in 1..(L + 1), NEW k \in Reasons(longer[i].repo)
                 PROVE  rankOf(longer[i]) <= k
      BY <2>2 DEF Lowest
    <3>1. CASE i \in 1..L
      BY <2>2, <3>1 DEF Fits, Lowest
    <3>2. CASE i = L + 1
      BY <2>2, <2>8, <3>2
    <3>3. QED  BY <2>5, <3>1, <3>2
  <2>10. Distinct(longer)
    <3> SUFFICES ASSUME NEW i \in 1..(L + 1), NEW j \in 1..(L + 1), i # j
                 PROVE  longer[i].repo # longer[j].repo
      BY <2>2 DEF Distinct
    <3>1. CASE i \in 1..L /\ j \in 1..L
      BY <2>2, <3>1 DEF Fits, Distinct
    <3>2. CASE i = L + 1 /\ j \in 1..L
      BY <2>2, <2>4, <3>2
    <3>3. CASE i \in 1..L /\ j = L + 1
      BY <2>2, <2>4, <3>3
    <3>4. QED  BY <2>5, <3>1, <3>2, <3>3
  <2>11. Ranked(longer)
    <3> SUFFICES ASSUME NEW i \in 1..(L + 1), NEW j \in 1..(L + 1), i < j
                 PROVE  rankOf(longer[i]) <= rankOf(longer[j])
      BY <2>2 DEF Ranked
    <3>1. i \in 1..L
      BY <2>2
    <3>2. CASE j \in 1..L
      BY <2>2, <3>1, <3>2 DEF Fits, Ranked
    <3>3. CASE j = L + 1
      BY <1>3, <2>2, <3>1, <3>3
    <3>4. QED  BY <2>5, <3>2, <3>3
  <2>12. Chosen(longer, n + 1)
    <3> SUFFICES ASSUME NEW i \in 1..(L + 1) PROVE \E m \in 1..(n + 1) : longer[i] = candidates[m]
      BY <2>2 DEF Chosen
    <3>1. CASE i \in 1..L
      <4>1. PICK m \in 1..n : items[i] = candidates[m]
        BY <2>2, <3>1 DEF Fits, Chosen
      <4>2. m \in 1..(n + 1) /\ longer[i] = candidates[m]
        BY <1>1, <2>2, <3>1, <4>1
      <4>3. QED  BY <4>2
    <3>2. CASE i = L + 1
      <4>1. n + 1 \in 1..(n + 1) /\ longer[i] = candidates[n + 1]
        BY <1>1, <2>2, <3>2 DEF x
      <4>2. QED  BY <4>1
    <3>3. QED  BY <2>5, <3>1, <3>2
  <2>13. LeftOut(longer, n + 1)
    <3> SUFFICES ASSUME NEW m \in 1..(n + 1) PROVE seen(longer, candidates[m].repo)
      BY DEF LeftOut
    <3>1. CASE m \in 1..n
      <4>1. Len(items) # MaxAttention
        BY <1>1, <1>2, <1>5
      <4>2. seen(items, candidates[m].repo)
        BY <3>1, <4>1 DEF Fits, LeftOut
      <4>3. QED  BY <2>6, <4>2
    <3>2. CASE m = n + 1
      BY <2>7, <3>2 DEF x
    <3>3. QED  BY <1>1, <3>1, <3>2
  <2>14. QED
    BY <2>1, <2>2, <2>3, <2>9, <2>10, <2>11, <2>12, <2>13 DEF Fits, x
<1>6. QED  BY <1>4, <1>5

LEMMA AttentionFits ==
  ASSUME OverviewShape
  PROVE  Fits(needsAttention, Len(candidates))
<1> DEFINE N == Len(candidates)
<1>1. N \in Nat
  BY CandidateSeq
<1>2. PICK chosen : /\ chosen[0] = <<>>
                    /\ \A n \in 0..(N - 1) : chosen[n + 1] = add(chosen[n], candidates[n + 1])
                    /\ needsAttention = chosen[N]
  BY AttentionFold
<1> DEFINE Good == {n \in 0..N : Fits(chosen[n], n)}
<1>3. 0 \in Good
  <2>1. Fits(<<>>, 0)
    <3>1. <<>> \in Seq(Items) /\ Len(<<>>) = 0 /\ DOMAIN <<>> = {} /\ MaxAttention \in Nat
      BY OverviewAssumption DEF OverviewAssumption
    <3>2. QED  BY <3>1 DEF Fits, Lowest, Distinct, Ranked, Chosen, LeftOut
  <2>2. QED  BY <1>1, <1>2, <2>1
<1>4. ASSUME NEW n \in 0..(N - 1), n \in Good PROVE n + 1 \in Good
  <2>1. Fits(chosen[n], n) /\ chosen[n + 1] = add(chosen[n], candidates[n + 1])
    BY <1>2, <1>4
  <2>2. Fits(chosen[n + 1], n + 1)
    BY <2>1, AddFits
  <2>3. QED  BY <1>1, <2>2
<1> HIDE DEF Good
<1>5. 0..N \subseteq Good
  <2> HIDE DEF N
  <2>1. QED  BY <1>1, <1>3, <1>4, UpTo
<1>6. N \in Good
  BY <1>1, <1>5
<1>7. QED  BY <1>2, <1>6 DEF Good

LEMMA ItemsAreProjects ==
  ASSUME OverviewShape, NEW item \in AttentionList
  PROVE  item.repo \in OverviewRepos
<1>1. PICK i \in DOMAIN needsAttention : item = needsAttention[i]
  BY DEF AttentionList
<1>2. needsAttention \in Seq(Items)
  BY AttentionFits DEF Fits
<1>3. item \in Items
  BY <1>1, <1>2
<1>4. QED  BY <1>3, RankOfKind

LEMMA OverviewMoves == OverviewShape /\ [OverviewNext]_overviewVars => OverviewShape'
<1> SUFFICES ASSUME OverviewShape, [OverviewNext]_overviewVars PROVE OverviewShape'
  OBVIOUS
<1>1. ASSUME NEW r \in OverviewRepos, ScanRow(r) PROVE OverviewShape'
  BY <1>1 DEF ScanRow, scan, OverviewShape
<1>2. ASSUME NEW r \in OverviewRepos, ScanOf(r) PROVE OverviewShape'
  BY <1>2 DEF ScanOf, OverviewShape
<1>3. ASSUME NEW r \in OverviewRepos, TeammateScansRow(r) PROVE OverviewShape'
  BY <1>3 DEF TeammateScansRow, OverviewShape
<1>4. ASSUME NEW r \in OverviewRepos, Rescored(r) PROVE OverviewShape'
  BY <1>4 DEF Rescored, OverviewShape
<1>5. ASSUME NEW page, open(page) PROVE OverviewShape'
  BY <1>5 DEF open, OverviewShape
<1>6. ASSUME NEW item \in AttentionList, act(item) PROVE OverviewShape'
  <2>1. item.repo \in OverviewRepos
    BY ItemsAreProjects
  <2>2. scan(item.repo) \/ open("findings") \/ open("dashboard")
    BY <1>6 DEF act
  <2>3. scan(item.repo) => OverviewShape'
    BY <2>1 DEF scan, OverviewShape
  <2>4. QED  BY <1>5, <2>2, <2>3
<1>7. CASE BackToOverview \/ ActivityKnown \/ UNCHANGED overviewVars
  BY <1>7 DEF BackToOverview, ActivityKnown, overviewVars, OverviewShape
<1>8. QED  BY <1>1, <1>2, <1>3, <1>4, <1>5, <1>6, <1>7 DEF OverviewNext

\* A number that is the lowest of some is their minimum.
LEMMA LowestIsMin ==
  ASSUME NEW S \in SUBSET Int, NEW x \in S, \A y \in S : x <= y
  PROVE  Min(S) = x
<1>1. Min(S) \in S /\ \A y \in S : Min(S) <= y
  BY DEF Min
<1>2. Min(S) <= x /\ x <= Min(S)
  BY <1>1
<1>3. Min(S) \in Int /\ x \in Int
  BY <1>1
<1>4. QED  BY <1>2, <1>3

LEMMA AttentionRanked == OverviewShape => AttentionIsRanked
<1> SUFFICES ASSUME OverviewShape PROVE AttentionIsRanked
  OBVIOUS
<1> DEFINE items   == needsAttention
           L       == Len(items)
           rank(i) == CHOOSE k \in 1..4 : kinds[k] = items[i].kind
           urgent  == {r \in OverviewRepos : Reasons(r) # {}}
<1>1. Fits(items, Len(candidates))
  BY AttentionFits
<1>2. /\ items \in Seq(Items) /\ L <= MaxAttention /\ L \in Nat /\ DOMAIN items = 1..L
      /\ Lowest(items) /\ Distinct(items) /\ Ranked(items) /\ MaxAttention \in Nat
      /\ Chosen(items, Len(candidates)) /\ LeftOut(items, Len(candidates))
  <2> HIDE DEF items
  <2>1. QED  BY <1>1, OverviewAssumption DEF Fits, OverviewAssumption
<1>3. \A i \in 1..L : /\ items[i] \in Items /\ rank(i) = rankOf(items[i]) /\ rank(i) \in 1..4
                      /\ items[i].repo \in OverviewRepos
  <2>1. \A i \in 1..L : rank(i) = rankOf(items[i])
    BY DEF rankOf
  <2> HIDE DEF items, rank
  <2>2. QED  BY <1>2, <2>1, RankOfKind
<1> HIDE DEF items, rank
<1>4. \A i \in 1..L : /\ rank(i) \in Reasons(items[i].repo)
                      /\ \A k \in Reasons(items[i].repo) : rank(i) <= k
  <2> TAKE i \in 1..L
  <2>1. PICK m \in 1..Len(candidates) : items[i] = candidates[m]
    BY <1>2 DEF Chosen
  <2>2. rankOf(items[i]) \in Reasons(items[i].repo)
    BY <2>1, ReasonOfCandidate
  <2>3. QED  BY <1>2, <1>3, <2>2 DEF Lowest
<1>5. \A r : Reasons(r) \in SUBSET Int
  BY DEF Reasons
<1>6. \A i \in 1..L : rank(i) = Min(Reasons(items[i].repo))
  <2> TAKE i \in 1..L
  <2> DEFINE S == Reasons(items[i].repo)
  <2>1. S \in SUBSET Int /\ rank(i) \in S /\ \A y \in S : rank(i) <= y
    BY <1>4, <1>5
  <2> HIDE DEF S
  <2>2. Min(S) = rank(i)
    BY <2>1, LowestIsMin
  <2>3. QED  BY <2>2 DEF S
<1>7. ASSUME NEW r \in urgent
      PROVE  \/ seen(items, r)
             \/ L = MaxAttention /\ \A i \in 1..L : rank(i) <= Min(Reasons(r))
  <2>1. r \in OverviewRepos /\ Reasons(r) # {} /\ Reasons(r) \subseteq 1..4
    BY DEF Reasons
  <2>2. PICK k \in Reasons(r) : \A y \in Reasons(r) : k <= y
    <3> DEFINE S == Reasons(r)
    <3>1. S \subseteq 1..4 /\ S # {}
      BY <2>1
    <3> HIDE DEF S
    <3>2. \E k \in S : \A y \in S : k <= y
      <4>1. CASE 1 \in S
        BY <3>1, <4>1
      <4>2. CASE 1 \notin S /\ 2 \in S
        BY <3>1, <4>2
      <4>3. CASE 1 \notin S /\ 2 \notin S /\ 3 \in S
        BY <3>1, <4>3
      <4>4. CASE 1 \notin S /\ 2 \notin S /\ 3 \notin S
        <5>1. \A y \in S : y = 4
          BY <3>1, <4>4
        <5>2. 4 \in S
          BY <3>1, <5>1
        <5>3. QED  BY <5>1, <5>2
      <4>5. QED  BY <4>1, <4>2, <4>3, <4>4
    <3>3. QED  BY <3>2 DEF S
  <2>3. Min(Reasons(r)) = k
    BY <1>5, <2>2, LowestIsMin
  <2>4. PICK m \in 1..Len(candidates) : candidates[m] = [kind |-> kinds[k], repo |-> r]
    BY <2>1, CandidatesRise, CandidateSeq DEF Names
  <2>5. candidates[m].repo = r /\ rankOf(candidates[m]) = k
    BY <2>1, <2>4, RankOfKind
  <2>6. QED  BY <1>2, <1>3, <2>3, <2>5 DEF LeftOut
<1>8. urgent \subseteq OverviewRepos /\ IsFiniteSet(urgent) /\ Cardinality(urgent) \in Nat
  <2>1. urgent \in SUBSET OverviewRepos
    OBVIOUS
  <2> HIDE DEF urgent
  <2>2. QED  BY <2>1, OverviewAssumption, FS_Subset, FS_CardinalityType DEF OverviewAssumption
<1>9. \A i \in 1..L : items[i].repo \in urgent
  BY <1>3, <1>4
<1> HIDE DEF urgent
<1> DEFINE repoAt == [i \in 1..L |-> items[i].repo]
<1>10. repoAt \in Injection(1..L, urgent)
  <2>1. repoAt \in [1..L -> urgent]
    BY <1>9
  <2>2. \A i, j \in 1..L : repoAt[i] = repoAt[j] => i = j
    BY <1>2 DEF Distinct
  <2> HIDE DEF repoAt
  <2>3. QED  BY <2>1, <2>2 DEF Injection, IsInjective
<1>11. Cardinality(1..L) = L
  <2>1. L \in Nat
    BY <1>2
  <2> HIDE DEF L
  <2>2. 1 \in Int /\ L \in Int
    BY <2>1
  <2>3. Cardinality(1..L) = IF 1 > L THEN 0 ELSE L - 1 + 1
    BY <2>2, FS_Interval
  <2>4. QED  BY <2>1, <2>3
<1>12. L <= Cardinality(urgent) /\ (L = Cardinality(urgent) <=> repoAt \in Surjection(1..L, urgent))
  <2> HIDE DEF repoAt
  <2>1. QED  BY <1>8, <1>10, <1>11, FS_Injection
<1>13. L # MaxAttention => L = Cardinality(urgent)
  <2> SUFFICES ASSUME L # MaxAttention PROVE repoAt \in Surjection(1..L, urgent)
    BY <1>12
  <2>1. \A r \in urgent : \E i \in 1..L : repoAt[i] = r
    BY <1>2, <1>7 DEF seen
  <2>2. repoAt \in [1..L -> urgent]
    BY <1>9
  <2> HIDE DEF repoAt
  <2>3. QED  BY <2>1, <2>2 DEF Surjection
<1>14. L = Min({MaxAttention, Cardinality(urgent)})
  <2> DEFINE C == Cardinality(urgent)
             S == {MaxAttention, C}
  <2>0. /\ L \in Nat /\ MaxAttention \in Nat /\ C \in Nat /\ L <= MaxAttention /\ L <= C
        /\ L # MaxAttention => L = C
    BY <1>2, <1>8, <1>12, <1>13
  <2> HIDE DEF C, L
  <2>1. S \in SUBSET Int /\ L \in S /\ \A y \in S : L <= y
    BY <2>0
  <2> HIDE DEF S
  <2>2. Min(S) = L
    BY <2>1, LowestIsMin
  <2>3. QED  BY <2>2 DEF S, C
<1>15. \A i, j \in DOMAIN items : i # j => items[i].repo # items[j].repo
  BY <1>2 DEF Distinct
<1>16. \A i, j \in DOMAIN items : i < j => rank(i) <= rank(j)
  BY <1>2, <1>3 DEF Ranked
<1>17. \A r \in urgent : seen(items, r) \/ \A i \in DOMAIN items : rank(i) <= Min(Reasons(r))
  BY <1>2, <1>7
<1>18. \A i \in DOMAIN items : rank(i) = Min(Reasons(items[i].repo))
  BY <1>2, <1>6
<1>19. QED
  BY <1>14, <1>15, <1>16, <1>17, <1>18 DEF AttentionIsRanked, items, rank, urgent

(***************************************************************************)
(* The health of the workspace.                                            *)
(***************************************************************************)
LEMMA Products ==
  ASSUME NEW low \in Nat, NEW score \in Nat, NEW w \in Nat, low <= score
  PROVE  low * w <= score * w
<1>1. score - low \in Nat /\ (score - low) * w \in Nat
  OBVIOUS
<1>2. score * w = low * w + (score - low) * w
  OBVIOUS
<1>3. low * w \in Nat
  OBVIOUS
<1>4. QED  BY <1>1, <1>2, <1>3

\* Sums that are taken in the same order: whatever is picked next, the sum of the weighted scores
\* stays between the lowest and the highest score times the sum of the weights.
Summed(g, S, pick, number) ==
  g = [s \in SUBSET S |-> IF s = {} THEN 0 ELSE g[s \ {pick[s]}] + number[pick[s]]]
Between(score, S, low, high) == \A x \in S : low <= score[x] /\ score[x] <= high

LEMMA SumsKeepBounds ==
  ASSUME NEW S, IsFiniteSet(S), NEW pick, Picks(pick, S),
         NEW weight \in [S -> Nat \ {0}], NEW score \in [S -> Nat],
         NEW low \in Nat, NEW high \in Nat, Between(score, S, low, high),
         NEW t, Summed(t, S, pick, weight),
         NEW h, NEW worth, worth = [x \in S |-> score[x] * weight[x]], Summed(h, S, pick, worth)
  PROVE  /\ t[S] \in Nat /\ h[S] \in Nat /\ (S # {} => t[S] > 0)
         /\ low * t[S] <= h[S] /\ h[S] <= high * t[S]
<1> DEFINE Ok(s) == /\ t[s] \in Nat /\ h[s] \in Nat /\ (s # {} => t[s] > 0)
                    /\ low * t[s] <= h[s] /\ h[s] <= high * t[s]
           Sizes == {n \in Nat : \A s \in SUBSET S : Cardinality(s) = n => Ok(s)}
<1>1. \A s \in SUBSET S : IsFiniteSet(s) /\ Cardinality(s) \in Nat
  BY FS_Subset, FS_CardinalityType
<1>2. \A s \in SUBSET S :
        /\ s = {} => t[s] = 0 /\ h[s] = 0
        /\ s # {} => /\ t[s] = t[s \ {pick[s]}] + weight[pick[s]]
                     /\ h[s] = h[s \ {pick[s]}] + score[pick[s]] * weight[pick[s]]
  <2> TAKE s \in SUBSET S
  <2>1. /\ t[s] = IF s = {} THEN 0 ELSE t[s \ {pick[s]}] + weight[pick[s]]
        /\ h[s] = IF s = {} THEN 0 ELSE h[s \ {pick[s]}] + worth[pick[s]]
    BY DEF Summed
  <2>2. s # {} => pick[s] \in S
    BY DEF Picks
  <2>3. QED  BY <2>1, <2>2
<1>3. 0 \in Sizes
  <2> SUFFICES ASSUME NEW s \in SUBSET S, Cardinality(s) = 0 PROVE Ok(s)
    OBVIOUS
  <2>1. s = {}
    BY <1>1, FS_EmptySet
  <2>2. t[s] = 0 /\ h[s] = 0
    BY <1>2, <2>1
  <2>3. low * 0 = 0 /\ high * 0 = 0
    OBVIOUS
  <2>4. QED  BY <2>1, <2>2, <2>3
<1>4. ASSUME NEW n \in Nat, n \in Sizes PROVE n + 1 \in Sizes
  <2> SUFFICES ASSUME NEW s \in SUBSET S, Cardinality(s) = n + 1 PROVE Ok(s)
    OBVIOUS
  <2> DEFINE x == pick[s]
             less == s \ {x}
             tl == t[less]
             hl == h[less]
             w == weight[x]
             c == score[x]
  <2>1. s # {}
    BY <1>1, FS_EmptySet
  <2>2. x \in s /\ x \in S /\ less \in SUBSET S
    BY <2>1 DEF Picks
  <2>3. Cardinality(less) = n
    <3>1. Cardinality(s \ {x}) = Cardinality(s) - 1
      BY <1>1, <2>2, FS_RemoveElement
    <3>2. QED  BY <3>1
  <2>4. Ok(less)
    BY <1>4, <2>2, <2>3
  <2>5. /\ t[s] = tl + w /\ h[s] = hl + c * w
    BY <1>2, <2>1
  <2>6. /\ w \in Nat /\ w > 0 /\ c \in Nat /\ low <= c /\ c <= high
        /\ tl \in Nat /\ hl \in Nat /\ low * tl <= hl /\ hl <= high * tl
    BY <2>2, <2>4 DEF Between
  <2> HIDE DEF tl, hl, w, c, less, x
  <2>7. low * w <= c * w /\ c * w <= high * w
    BY <2>6, Products
  <2>8. low * (tl + w) = low * tl + low * w /\ high * (tl + w) = high * tl + high * w
    BY <2>6
  <2>9. low * tl \in Nat /\ low * w \in Nat /\ high * tl \in Nat /\ high * w \in Nat /\ c * w \in Nat
    BY <2>6
  <2>10. low * (tl + w) <= hl + c * w /\ hl + c * w <= high * (tl + w)
    BY <2>6, <2>7, <2>8, <2>9
  <2>11. tl + w \in Nat /\ tl + w > 0 /\ hl + c * w \in Nat
    BY <2>6, <2>9
  <2>12. t[s] \in Nat /\ t[s] > 0 /\ h[s] \in Nat
    BY <2>5, <2>11
  <2>13. low * t[s] <= h[s] /\ h[s] <= high * t[s]
    BY <2>5, <2>10
  <2>14. QED  BY <2>12, <2>13
<1>5. Cardinality(S) \in Sizes
  <2> HIDE DEF Sizes
  <2>1. PICK n \in Nat : n = Cardinality(S)
    BY <1>1
  <2>2. \A i \in 0..(n - 1) : i \in Sizes => i + 1 \in Sizes
    BY <1>4
  <2>3. 0..n \subseteq Sizes
    BY <1>3, <2>2, UpTo
  <2>4. QED  BY <2>1, <2>3
<1>6. QED  BY <1>5

\* A fold that adds numbers up.
LEMMA SumExists ==
  ASSUME NEW S, IsFiniteSet(S), NEW pick, Picks(pick, S), NEW number \in [S -> Nat]
  PROVE  \E g : Summed(g, S, pick, number)
<1> DEFINE step == [p \in S \X Nat |-> p[2] + number[p[1]]]
<1>1. step \in [S \X Nat -> Nat] /\ 0 \in Nat
  OBVIOUS
<1>2. \A x \in S, n \in Nat : step[<<x, n>>] = n + number[x]
  OBVIOUS
<1> HIDE DEF step
<1>3. PICK g \in [SUBSET S -> Nat] : Folded(g, S, 0, pick, step)
  BY <1>1, FoldExists
<1>4. \A s \in SUBSET S : s # {} =>
        step[<<pick[s], g[s \ {pick[s]}]>>] = g[s \ {pick[s]}] + number[pick[s]]
  <2> TAKE s \in SUBSET S
  <2> HAVE s # {}
  <2>1. pick[s] \in S /\ s \ {pick[s]} \in SUBSET S
    BY DEF Picks
  <2>2. g[s \ {pick[s]}] \in Nat
    BY <1>3, <2>1
  <2>3. QED  BY <1>2, <2>1, <2>2
<1>5. g = [s \in SUBSET S |-> IF s = {} THEN 0 ELSE g[s \ {pick[s]}] + number[pick[s]]]
  BY <1>3, <1>4 DEF Folded
<1>6. QED  BY <1>5 DEF Summed

LEMMA HealthAverages == OverviewShape => HealthIsAnAverage
<1> SUFFICES ASSUME OverviewShape, ScannedRepos # {} PROVE HealthIsAnAverage
  BY DEF HealthIsAnAverage
<1> DEFINE S == ScannedRepos
           one(s) == CHOOSE x \in s : TRUE
           pick   == [s \in SUBSET S |-> one(s)]
           weight == [r \in S |-> weightOf(r)]
           score  == [r \in S |-> latestHealth[r].score]
           worth  == [r \in S |-> latestHealth[r].score * weightOf(r)]
           Weighs(g) == g = [s \in SUBSET S |->
                               IF s = {} THEN 0 ELSE g[s \ {one(s)}] + weightOf(one(s))]
           Worths(g) == g = [s \in SUBSET S |->
                               IF s = {} THEN 0
                               ELSE g[s \ {one(s)}] + latestHealth[one(s)].score * weightOf(one(s))]
           t == CHOOSE g : Weighs(g)
           h == CHOOSE g : Worths(g)
<1>1. totalWeight = t[S] /\ weightedSum = h[S]
  BY DEF totalWeight, weightedSum, FoldSet, MapThenFoldSet
<1>2. IsFiniteSet(S) /\ S \subseteq OverviewRepos /\ S # {}
  BY OverviewAssumption, FS_Subset DEF OverviewAssumption, ScannedRepos
<1>3. \A r \in S : /\ latestHealth[r].score \in Nat /\ latestHealth[r].kloc \in Nat
                   /\ weightOf(r) \in Nat \ {0}
  <2>1. \A r \in S : latestHealth[r].score \in Nat /\ latestHealth[r].kloc \in Nat
    BY HealthOf DEF ScannedRepos
  <2>2. \A r \in S : weightOf(r) \in Nat \ {0}
    BY <2>1 DEF weightOf, weighted
  <2>3. QED  BY <2>1, <2>2
<1>4. weight \in [S -> Nat \ {0}] /\ weight \in [S -> Nat] /\ score \in [S -> Nat]
  BY <1>3
<1>5. worth \in [S -> Nat]
  BY <1>3
<1>6. Picks(pick, S)
  BY DEF Picks
<1>7. \A s \in SUBSET S : s # {} => one(s) \in S /\ pick[s] = one(s)
  OBVIOUS
<1> HIDE DEF S, one, t, h
<1>8. Weighs(t)
  <2>1. \E g : Summed(g, S, pick, weight)
    <3> HIDE DEF pick, weight
    <3> QED  BY <1>2, <1>4, <1>6, SumExists
  <2>2. \E g : Weighs(g)
    BY <1>7, <2>1 DEF Summed
  <2> HIDE DEF Weighs
  <2>3. QED  BY <2>2 DEF t
<1>9. Worths(h)
  <2>1. \E g : Summed(g, S, pick, worth)
    <3> HIDE DEF pick, worth
    <3> QED  BY <1>2, <1>5, <1>6, SumExists
  <2>2. \E g : Worths(g)
    BY <1>7, <2>1 DEF Summed
  <2> HIDE DEF Worths
  <2>3. QED  BY <2>2 DEF h
<1>10. Summed(t, S, pick, weight) /\ Summed(h, S, pick, worth)
  BY <1>7, <1>8, <1>9 DEF Summed
<1>11. \E low \in S : \A r \in S : score[low] <= score[r]
  <2> DEFINE down == {p \in S \X S : score[p[2]] < score[p[1]]}
  <2>1. \A x, y \in S : <<x, y>> \in down <=> score[y] < score[x]
    OBVIOUS
  <2> HIDE DEF down, score
  <2>2. \A x \in S : score[x] \in Nat
    BY <1>4
  <2>3. StrictOn(down, S)
    BY <2>1, <2>2 DEF StrictOn
  <2>4. PICK low \in S : \A y \in S : <<low, y>> \notin down
    BY <1>2, <2>3, SomeIsLast
  <2>5. \A x, y \in S : score[y] < score[x] \/ score[x] <= score[y]
    BY <2>2
  <2>6. \A r \in S : score[low] <= score[r]
    BY <2>1, <2>4, <2>5
  <2>7. QED  BY <2>6
<1>12. \E high \in S : \A r \in S : score[r] <= score[high]
  <2> DEFINE up == {p \in S \X S : score[p[1]] < score[p[2]]}
  <2>1. \A x, y \in S : <<x, y>> \in up <=> score[x] < score[y]
    OBVIOUS
  <2> HIDE DEF up, score
  <2>2. \A x \in S : score[x] \in Nat
    BY <1>4
  <2>3. StrictOn(up, S)
    BY <2>1, <2>2 DEF StrictOn
  <2>4. PICK high \in S : \A y \in S : <<high, y>> \notin up
    BY <1>2, <2>3, SomeIsLast
  <2>5. \A x, y \in S : score[x] < score[y] \/ score[y] <= score[x]
    BY <2>2
  <2>6. \A r \in S : score[r] <= score[high]
    BY <2>1, <2>4, <2>5
  <2>7. QED  BY <2>6
<1>13. PICK low \in S, high \in S :
              \A r \in S : score[low] <= score[r] /\ score[r] <= score[high]
  BY <1>11, <1>12
<1>14. /\ t[S] > 0 /\ t[S] \in Nat /\ h[S] \in Nat
       /\ score[low] * t[S] <= h[S] /\ h[S] <= score[high] * t[S]
  <2>1. worth = [x \in S |-> score[x] * weight[x]]
    OBVIOUS
  <2> HIDE DEF pick, weight, score, worth
  <2>2. score[low] \in Nat /\ score[high] \in Nat /\ Between(score, S, score[low], score[high])
    BY <1>4, <1>13 DEF Between
  <2>3. QED  BY <1>2, <1>4, <1>6, <1>10, <2>1, <2>2, SumsKeepBounds
<1>15. score[low] = latestHealth[low].score /\ score[high] = latestHealth[high].score
  OBVIOUS
<1>16. /\ totalWeight > 0
       /\ latestHealth[low].score * totalWeight <= weightedSum
       /\ latestHealth[high].score * totalWeight >= weightedSum
  <2> DEFINE lo == latestHealth[low].score
             hi == latestHealth[high].score
  <2>1. lo \in Nat /\ hi \in Nat
    BY <1>3
  <2> HIDE DEF lo, hi
  <2>2. lo * t[S] \in Nat /\ hi * t[S] \in Nat
    BY <1>14, <2>1
  <2>3. lo * t[S] <= h[S] /\ h[S] <= hi * t[S]
    BY <1>14, <1>15 DEF lo, hi
  <2>4. hi * t[S] >= h[S]
    BY <1>14, <2>2, <2>3
  <2>5. QED  BY <1>1, <1>14, <2>3, <2>4 DEF lo, hi
<1>17. QED  BY <1>16 DEF HealthIsAnAverage, S

\* For any projects, whatever their scans say: the attention list is ranked, the rows have one
\* order, and the health of the workspace lies between those it averages.
THEOREM OverviewIsRight == OverviewSpec => []OverviewInv
<1>1. OverviewShape => OverviewInv
  BY AttentionRanked, RowsOrdered, HealthAverages DEF OverviewInv
<1>2. QED  BY <1>1, OverviewStarts, OverviewMoves, PTL DEF OverviewSpec

(***************************************************************************)
(* The pages together: whichever is showing, a step of the whole is a step *)
(* of each, or leaves it as it is.                                         *)
(***************************************************************************)
LEMMA PartsMove ==
  [Next]_allVars => /\ [ProjectsNext]_projectsVars /\ [SelectionNext]_selectionVars
                    /\ [ScopeNext]_scopeVars /\ [ProfilesNext]_profilesVars
                    /\ [OverviewNext]_overviewVars
<1> SUFFICES ASSUME [Next]_allVars
             PROVE  /\ [ProjectsNext]_projectsVars /\ [SelectionNext]_selectionVars
                    /\ [ScopeNext]_scopeVars /\ [ProfilesNext]_profilesVars
                    /\ [OverviewNext]_overviewVars
  OBVIOUS
<1>1. CASE Next
  BY <1>1 DEF Next, ProjectsSteps, SelectionSteps, ScopeSteps, ProfilesSteps, OverviewSteps
<1>2. CASE UNCHANGED allVars
  BY <1>2 DEF allVars
<1>3. QED  BY <1>1, <1>2

LEMMA PartsStart == Init => ProjectsInit /\ SelectionInit /\ ScopeInit /\ ProfilesInit /\ OverviewInit
BY DEF Init

\* The pages of the projects, together, are each of them.
LEMMA PagesAreTheirParts ==
  Spec => ProjectsSpec /\ SelectionSpec /\ ScopeSpec /\ ProfilesSpec /\ OverviewSpec
BY PartsStart, PartsMove, PTL
   DEF Spec, ProjectsSpec, SelectionSpec, ScopeSpec, ProfilesSpec, OverviewSpec

\* In the whole that is model-checked, for any projects, workspaces, files, profiles and scores:
\* the pages keep their promises.
THEOREM ProjectPagesAreRight ==
  Spec => /\ []ProjectsInv /\ []SavesOnlyWhatWasRead /\ []ProfilesInv /\ []OverviewInv
          /\ RedirectStaysInWorkspace
BY PagesAreTheirParts, FormsAreAnswered, NothingUnreadIsSaved, OwnWritesAreShown, OverviewIsRight,
   RedirectsStay, PTL
=============================================================================
