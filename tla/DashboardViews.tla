--------------------------- MODULE DashboardViews ---------------------------
(***************************************************************************)
(* The three views of a project's dashboard (dashboard-tabs.tsx): which    *)
(* one is open, from the address or from what this person last chose in    *)
(* this workspace, and the folders of the code map (file-tree.tsx), which  *)
(* open for a file that is selected.                                       *)
(***************************************************************************)
EXTENDS Integers, Sequences, FiniteSets, SequencesExt

CONSTANTS People, Workspaces,    \* who signs in, and where
          OldModes,              \* settings that an old release may have left
          Trees,                 \* the code map of each report: the folders above every file
          MaxBack                \* pages that the back button remembers

ASSUME ViewsAssumption == /\ OldModes \subseteq {"", "overview", "findings", "findings-detail", "findings-tree"}
                          /\ Trees # <<>> /\ MaxBack \in Nat

VARIABLES storage,               \* whether the browser's storage works, is full or is blocked
          stored, oldStored,     \* the storage: the choice, and the old release's setting
          reader,                \* who the session says is here, and in which workspace
          onDashboard, viewAddress, backTo,
          storedTab,             \* the page: the choice as its last render read it
          tree,                  \* the report on the page
          expanded, revealed,    \* the code map: open folders, the file it last opened them for
          lastChoice,            \* history: the last choice of each reader
          behind                 \* history: something was chosen elsewhere since the page's last render

viewsVars == <<storage, stored, oldStored, reader, onDashboard, viewAddress, backTo, storedTab, tree,
               expanded, revealed, lastChoice, behind>>

DASHBOARD_TABS == <<"overview", "findings", "code">>
DashboardTab == ToSet(DASHBOARD_TABS)
Readers  == People \X Workspaces
NoReader == <<>>
NoFile   == "no file"

Files(t)      == DOMAIN Trees[t]
Folders(t)    == UNION {ToSet(Trees[t][f]) : f \in Files(t)}
AllFiles      == UNION {Files(t) : t \in DOMAIN Trees}
Place(v, finding, file) == [view |-> v, finding |-> finding, file |-> file]
Plain         == Place("", FALSE, NoFile)

dashboardViewPreferenceKey(who) == who

fromOldMode(mode) ==
  CASE mode = "overview"                         -> "overview"
    [] mode \in {"findings", "findings-detail"}  -> "findings"
    [] mode = "findings-tree"                    -> "code"
    [] OTHER                                     -> ""

\* A setting that cannot be carried over is not used either.
readStoredDashboardTab(who) ==
  LET now == stored[dashboardViewPreferenceKey(who)]
      old == fromOldMode(oldStored[who])
  IN  IF storage = "blocked" THEN ""
      ELSE IF now # "" THEN now
      ELSE IF storage = "full" THEN ""
      ELSE old

tab ==
  IF viewAddress.view # "" THEN viewAddress.view
  ELSE IF viewAddress.finding THEN "findings"
  ELSE IF storedTab # "" THEN storedTab
  ELSE "overview"

selectedPath == IF viewAddress.file \in Files(tree) THEN viewAddress.file ELSE NoFile
panel(view)  == onDashboard /\ tab = view
treeOpen     == panel("code")
fileDetail   == treeOpen /\ selectedPath # NoFile
isShown(f)   == ToSet(Trees[tree][f]) \subseteq expanded

ViewsInit ==
  /\ storage \in {"works", "full", "blocked"}
  /\ stored = [who \in Readers |-> ""] /\ oldStored \in [Readers -> OldModes]
  /\ reader \in Readers /\ onDashboard = FALSE
  /\ viewAddress = Plain /\ backTo = <<>> /\ tree = 1 /\ expanded = {} /\ revealed = NoFile
  /\ storedTab = "" /\ lastChoice = [who \in Readers |-> ""] /\ behind = FALSE

(***************************************************************************)
(* A render: the choice is read, the old setting is carried over, and the  *)
(* code map opens the folders of a file that is newly selected.  It starts *)
(* with all open.                                                          *)
(***************************************************************************)
CarriedOver(choices) ==
  IF reader' # NoReader /\ onDashboard' /\ storage = "works"
     /\ choices[dashboardViewPreferenceKey(reader')] = ""
  THEN [choices EXCEPT ![dashboardViewPreferenceKey(reader')] = fromOldMode(oldStored[reader'])]
  ELSE choices

ancestorPaths(f) == ToSet(Trees[tree'][f])

Mounted ==
  /\ expanded' = Folders(tree') /\ revealed' = selectedPath'

ReadChoice ==
  /\ storedTab' = IF onDashboard' /\ reader' # NoReader THEN readStoredDashboardTab(reader)' ELSE ""
  /\ behind' = FALSE

Rendered(open) ==
  /\ ReadChoice
  /\ CASE ~treeOpen' -> expanded' = {} /\ revealed' = NoFile
       [] treeOpen' /\ ~treeOpen -> Mounted
       [] treeOpen' /\ treeOpen /\ selectedPath' \in {NoFile, revealed} ->
            expanded' = open /\ UNCHANGED revealed
       [] OTHER -> expanded' = open \cup ancestorPaths(selectedPath') /\ revealed' = selectedPath'

goView(to) ==
  /\ viewAddress' = to
  /\ backTo' = LET trail == Append(backTo, viewAddress)
               IN  SubSeq(trail, IF Len(trail) > MaxBack THEN 2 ELSE 1, Len(trail))

storeDashboardTab(choice) ==
  /\ IF storage = "works"
     THEN /\ stored' = [stored EXCEPT ![dashboardViewPreferenceKey(reader)] = choice]
          /\ lastChoice' = [lastChoice EXCEPT ![reader] = choice]
     ELSE UNCHANGED <<stored, lastChoice>>

KeepPage == UNCHANGED <<storage, oldStored, reader, onDashboard, tree>>

(***************************************************************************)
(* The reader.                                                             *)
(***************************************************************************)
chooseTab(choice) ==
  /\ onDashboard /\ storeDashboardTab(choice) /\ goView([viewAddress EXCEPT !.view = choice])
  /\ KeepPage /\ Rendered(expanded)

onKeyDown ==
  LET n     == Len(DASHBOARD_TABS)
      index == CHOOSE i \in 1..n : DASHBOARD_TABS[i] = tab
  IN  \E next \in {(index % n) + 1, ((index + n - 2) % n) + 1, 1, n} : chooseTab(DASHBOARD_TABS[next])

clickTab == \E choice \in DashboardTab : chooseTab(choice)

\* From the overview's list, the findings' list, or the detail of a file.
openFinding ==
  /\ panel("overview") \/ panel("findings") \/ fileDetail
  /\ storeDashboardTab("findings")
  /\ goView([viewAddress EXCEPT !.view = "findings", !.finding = TRUE])
  /\ KeepPage /\ Rendered(expanded)

closeFinding ==
  /\ panel("findings") /\ viewAddress.finding
  /\ goView([viewAddress EXCEPT !.view = "findings", !.finding = FALSE])
  /\ UNCHANGED <<stored, lastChoice>> /\ KeepPage /\ Rendered(expanded)

openFile(node) ==
  /\ storeDashboardTab("code") /\ goView([viewAddress EXCEPT !.view = "code", !.file = node]) /\ KeepPage

\* A hotspot of the overview, or a row of the code map.
openHotspot(f) == panel("overview") /\ openFile(f) /\ Rendered(expanded)
selectFile(f)  == treeOpen /\ isShown(f) /\ openFile(f) /\ Rendered(expanded)

\* A folder is opened or closed, and becomes the file of the address.
toggle(folder) ==
  /\ treeOpen
  /\ \E f \in Files(tree) : \E i \in DOMAIN Trees[tree][f] :
       /\ Trees[tree][f][i] = folder /\ \A k \in 1..(i - 1) : Trees[tree][f][k] \in expanded
  /\ openFile(folder)
  /\ Rendered(IF folder \in expanded THEN expanded \ {folder} ELSE expanded \cup {folder})

goBack ==
  /\ onDashboard /\ backTo # <<>>
  /\ viewAddress' = Last(backTo) /\ backTo' = Front(backTo)
  /\ KeepPage /\ stored' = CarriedOver(stored) /\ UNCHANGED lastChoice /\ Rendered(expanded)

openDashboard ==
  /\ ~onDashboard /\ onDashboard' = TRUE
  /\ viewAddress' \in {Plain, Place("", TRUE, NoFile)} \cup {Place("code", FALSE, f) : f \in AllFiles}
  /\ UNCHANGED <<storage, oldStored, reader, backTo, tree, lastChoice>>
  /\ stored' = CarriedOver(stored) /\ Rendered(expanded)

leaveDashboard ==
  /\ onDashboard /\ onDashboard' = FALSE /\ viewAddress' = Plain /\ backTo' = <<>>
  /\ UNCHANGED <<storage, stored, oldStored, reader, tree, lastChoice>> /\ Rendered(expanded)

\* Another person signs in, or another workspace is opened: away from this page.
changeReader ==
  /\ ~onDashboard /\ reader' \in Readers \ {reader}
  /\ UNCHANGED <<storage, stored, oldStored, onDashboard, viewAddress, backTo, tree, lastChoice>>
  /\ Rendered(expanded)

\* Another report is shown, whose files may differ.
newReport ==
  /\ onDashboard /\ tree' \in DOMAIN Trees \ {tree}
  /\ UNCHANGED <<storage, stored, oldStored, reader, onDashboard, viewAddress, backTo, lastChoice>>
  /\ Rendered(expanded) \/ (ReadChoice /\ treeOpen' /\ Mounted)     \* kept on the page, or loaded first

\* The same person chooses in another tab of the browser; this one is not told.
chosenElsewhere(choice) ==
  /\ storage = "works" /\ storeDashboardTab(choice) /\ behind' = onDashboard
  /\ UNCHANGED <<viewAddress, backTo, storedTab, expanded, revealed>> /\ KeepPage

\* The page renders again for another reason: an answer, a poll.
renderAgain ==
  /\ behind
  /\ UNCHANGED <<viewAddress, backTo, lastChoice>> /\ KeepPage
  /\ stored' = CarriedOver(stored) /\ Rendered(expanded)

ViewsNext ==
  \/ clickTab \/ \E choice \in DashboardTab : chosenElsewhere(choice)
  \/ onKeyDown \/ openFinding \/ closeFinding
  \/ \E f \in Files(tree) : openHotspot(f) \/ selectFile(f)
  \/ \E folder \in Folders(tree) : toggle(folder)
  \/ goBack \/ openDashboard \/ leaveDashboard \/ changeReader \/ newReport
  \/ renderAgain

ViewsSpec == ViewsInit /\ [][ViewsNext]_viewsVars

-----------------------------------------------------------------------------
\* While nothing is wrong with the storage, a dashboard whose address names neither a view
\* nor a finding opens in the view that this person chose last in this workspace, in any tab
\* of the browser; before any choice, in the one that the old setting meant.  What is chosen in
\* another tab while the page is open shows at its next render.
TabIsLastChoice ==
  onDashboard /\ storage = "works" /\ ~behind /\ viewAddress.view = "" /\ ~viewAddress.finding =>
    tab = IF lastChoice[reader] # "" THEN lastChoice[reader]
          ELSE IF fromOldMode(oldStored[reader]) # "" THEN fromOldMode(oldStored[reader])
          ELSE "overview"
=============================================================================
