--------------------------- MODULE ProjectSelection ---------------------------
(***************************************************************************)
(* Which project and which branch the application is looking at, and how a *)
(* tab remembers it (use-selected-project.ts, use-selected-branch.ts,       *)
(* use-active-branch.ts): per workspace and per project, in local storage.  *)
(* The top bar and the rail follow it and change it, the page of a project *)
(* is in the URL, and /dashboard and /history only redirect.               *)
(***************************************************************************)
EXTENDS Integers, FiniteSets

CONSTANTS Tenants,            \* the workspaces of the user
          Repos,              \* the repositories, each of one workspace
          HomeOf,             \* the workspace a repository belongs to
          Heads,              \* the branches of a repository
          MaxMoves            \* repositories and branches that come or go

ASSUME SelectionAssumption == /\ HomeOf \in [Repos -> Tenants] /\ MaxMoves \in Nat
                              /\ Cardinality(Heads) >= 1

VARIABLES connected, heads,   \* the API: the connected repositories, their branches
          moves,              \* counts what teammates and GitHub did
          here, going,        \* the active workspace, and the one being switched to
          listed, named,      \* the projects and the branches that were read
          path,               \* the URL
          stored, legacy,     \* local storage: per workspace; before workspaces
          remembered,         \* local storage: the branch per workspace and project
          due                 \* effects will run: something changed

selectionVars == <<connected, heads, moves, here, going, listed, named, path,
                   stored, legacy, remembered, due>>

Nil      == "nil"
Unread   == {"unread"}
Main     == CHOOSE b \in Heads : TRUE  \* the default branch
GoneHead == "gone"                     \* a branch a link names and nobody has

At(page, repo, branch) == [page |-> page, repo |-> repo, branch |-> branch]
IndexPages   == {"dashboard index", "history index"}
ProjectPages == {"dashboard", "history"}

(***************************************************************************)
(* The selection that follows from the URL, the storage and the list.      *)
(***************************************************************************)
urlRepo        == IF path.page \in ProjectPages THEN path.repo ELSE Nil
storedRepo     == IF here = Nil THEN Nil ELSE stored[here]
isAvailable(r) == listed = Unread \/ r \in listed

\* Mutant: what is stored is taken although the workspace has no such project.
resolveUnchecked(fallback) ==
  IF urlRepo # Nil /\ isAvailable(urlRepo) THEN urlRepo
  ELSE IF storedRepo # Nil THEN storedRepo
  ELSE IF fallback /\ listed \notin {Unread, {}} THEN CHOOSE r \in listed : TRUE
  ELSE Nil

resolveSelectedProjectId(fallback) ==
  IF urlRepo # Nil /\ isAvailable(urlRepo) THEN urlRepo
  ELSE IF storedRepo # Nil /\ isAvailable(storedRepo) THEN storedRepo
  ELSE IF fallback /\ listed \notin {Unread, {}} THEN CHOOSE r \in listed : TRUE
  ELSE Nil

\* The projects page alone shows "none" rather than the first project.
selectedProject == resolveSelectedProjectId(path.page # "projects")
followedProject == resolveSelectedProjectId(TRUE)  \* by the rail, on every page

(***************************************************************************)
(* The branch that follows from the URL, the storage and the list.         *)
(***************************************************************************)
branchKey(r)     == <<here, r>>
storedBranch(r)  == IF here = Nil THEN Nil ELSE remembered[branchKey(r)]
likelyBranch(r)  == IF storedBranch(r) # Nil THEN storedBranch(r)
                    ELSE IF listed # Unread /\ r \in listed THEN Main ELSE Nil
defaultBranch    == IF Main \in named THEN Main
                    ELSE IF named = {} THEN Nil ELSE CHOOSE b \in named : TRUE
activeBranch(r) ==
  IF path.branch # Nil /\ (named = Unread \/ path.branch \in named) THEN path.branch
  ELSE IF named # Unread /\ storedBranch(r) \in named THEN storedBranch(r)
  ELSE IF named # Unread THEN defaultBranch
  ELSE likelyBranch(r)
settledOnRealBranch(r) == named # Unread /\ activeBranch(r) \in named

(***************************************************************************)
(* What the rail and the top bar offer.                                    *)
(***************************************************************************)
ShowsProject == here # Nil /\ path.page \in ProjectPages
ShowsBranch  == ShowsProject /\ path.page = "dashboard"
RailPages ==
  {At(p, Nil, Nil) : p \in {"overview", "projects"}}  \* as profiles, team, help
  \cup IF followedProject # Nil THEN {At(p, followedProject, Nil) : p \in ProjectPages}
       ELSE IF here = Nil THEN {At(p, Nil, Nil) : p \in IndexPages} ELSE {}
NoProjectLink == IF path.page \in IndexPages /\ listed = {} THEN {At("projects", Nil, Nil)}
                 ELSE {}
\* The picker opens unless it is busy, and lists everything that was read.
TopBarPicker(items, busy) == IF busy \/ items = Unread THEN {} ELSE items
PickableWorkspaces == TopBarPicker(Tenants, going # Nil) \ {here}
PickableProjects   == IF ShowsProject THEN TopBarPicker(listed, FALSE) \ {urlRepo} ELSE {}
PickableBranches   == IF ShowsBranch
                        THEN TopBarPicker(named, FALSE) \ {activeBranch(path.repo)} ELSE {}

SelectionInit ==
  /\ connected = Repos /\ heads = Heads
  /\ here = Nil /\ going = CHOOSE w \in Tenants : TRUE
  /\ listed = Unread /\ named = Unread
  /\ path = At("overview", Nil, Nil)
  /\ stored = [w \in Tenants |-> Nil]
  \* (Bound: what an old release left counts as one of the moves.)
  /\ legacy \in Repos \cup {Nil} /\ moves = IF legacy = Nil THEN 0 ELSE 1
  /\ remembered = [k \in Tenants \X Repos |-> Nil]
  /\ due = FALSE

LeaveApi   == UNCHANGED <<connected, heads, moves>>
LeaveStore == UNCHANGED <<stored, legacy, remembered>>

\* The URL changes; the branches of another project are not read yet.
OpenPath(p) ==
  /\ path' = p
  /\ named' = IF p.repo = path.repo THEN named ELSE Unread

(***************************************************************************)
(* Reads, and what changes behind them.                                    *)
(***************************************************************************)
ListRead ==
  /\ here # Nil
  /\ listed' = {r \in connected : HomeOf[r] = here} /\ listed' # listed
  /\ due' = TRUE
  /\ LeaveApi /\ LeaveStore /\ UNCHANGED <<here, going, named, path>>

BranchesRead ==
  /\ urlRepo # Nil /\ here # Nil
  /\ named' = heads /\ named' # named /\ due' = TRUE
  /\ LeaveApi /\ LeaveStore /\ UNCHANGED <<here, going, listed, path>>

ProjectMoves(r) ==
  /\ moves < MaxMoves /\ moves' = moves + 1
  /\ connected' = IF r \in connected THEN connected \ {r} ELSE connected \cup {r}
  /\ LeaveStore /\ UNCHANGED <<heads, here, going, listed, named, path, due>>

BranchMoves(b) ==
  /\ moves < MaxMoves /\ moves' = moves + 1
  /\ heads' = IF b \in heads THEN heads \ {b} ELSE heads \cup {b}
  /\ LeaveStore /\ UNCHANGED <<connected, here, going, listed, named, path, due>>

(***************************************************************************)
(* The user.  React runs the effects of a render before the next click.    *)
(***************************************************************************)
writeSelectedProjectId(r, w) ==
  stored' = IF w = Nil THEN stored ELSE [stored EXCEPT ![w] = r]

writeSelectedBranch(r, b) ==
  remembered' = IF here = Nil \/ b = Nil THEN remembered
                ELSE [remembered EXCEPT ![branchKey(r)] = b]

FollowRail ==
  /\ ~due /\ \E p \in (RailPages \cup NoProjectLink) \ {path} : OpenPath(p)
  /\ due' = TRUE /\ LeaveApi /\ LeaveStore /\ UNCHANGED <<here, going, listed>>

\* A link or a bookmark of the workspace: also to a project or a branch that is gone.
\* (The branches that exist are opened with changeBranch.)
FollowDashboardLink(r, b) ==
  /\ ~due /\ here = HomeOf[r] /\ OpenPath(At("dashboard", r, b)) /\ path' # path /\ due' = TRUE
  /\ LeaveApi /\ LeaveStore /\ UNCHANGED <<here, going, listed>>

FollowIndexLink(p) ==
  /\ ~due /\ OpenPath(At(p, Nil, Nil)) /\ path' # path /\ due' = TRUE
  /\ LeaveApi /\ LeaveStore /\ UNCHANGED <<here, going, listed>>

\* ProjectSwitcher: the choice is written, then the same kind of page is opened.
SwitchProject(r) ==
  /\ ~due /\ r \in PickableProjects
  /\ writeSelectedProjectId(r, here)
  /\ OpenPath(At(path.page, r, Nil)) /\ due' = TRUE
  /\ LeaveApi /\ UNCHANGED <<here, going, listed, legacy, remembered>>

\* The overview's and the projects page's rows.
OpenProject(r) ==
  /\ ~due /\ path.page \in {"overview", "projects"} /\ listed # Unread /\ r \in listed
  /\ writeSelectedProjectId(r, here)
  /\ OpenPath(At("dashboard", r, Nil)) /\ due' = TRUE
  /\ LeaveApi /\ UNCHANGED <<here, going, listed, legacy, remembered>>

changeBranch(b) ==
  /\ ~due /\ b \in PickableBranches
  /\ writeSelectedBranch(path.repo, b)
  /\ OpenPath([path EXCEPT !.branch = b]) /\ due' = TRUE
  /\ LeaveApi /\ UNCHANGED <<here, going, listed, stored, legacy>>

onSwitch(w) ==
  /\ ~due /\ w \in PickableWorkspaces /\ going' = w
  /\ LeaveApi /\ LeaveStore /\ UNCHANGED <<here, listed, named, path, due>>

\* The workspace has changed; the page opens later.
SwitchLands ==
  /\ going # Nil /\ going # here
  /\ here' = going /\ listed' = Unread /\ named' = Unread /\ due' = TRUE
  /\ LeaveApi /\ LeaveStore /\ UNCHANGED <<going, path>>

SwitchOpens ==
  /\ going # Nil /\ going = here
  /\ going' = Nil /\ OpenPath(At("overview", Nil, Nil)) /\ due' = TRUE
  /\ LeaveApi /\ LeaveStore /\ UNCHANGED <<here, listed>>

SwitchRefused ==
  /\ going # Nil /\ going # here /\ here # Nil /\ going' = Nil
  /\ LeaveApi /\ LeaveStore /\ UNCHANGED <<here, listed, named, path, due>>

(***************************************************************************)
(* The effects of a render: they all see what it saw.                      *)
(***************************************************************************)
migrateLegacySelection ==
  IF here # Nil /\ listed # Unread /\ legacy # Nil
    THEN [gone |-> TRUE,
          moved |-> IF legacy \in listed /\ storedRepo = Nil
                      THEN [stored EXCEPT ![here] = legacy] ELSE stored]
    ELSE [gone |-> FALSE, moved |-> stored]

\* After the migration of the same render, with what was selected before it.
rememberSelection(to) ==
  IF here = Nil THEN to
  ELSE IF urlRepo # Nil THEN [to EXCEPT ![here] = urlRepo]
  ELSE IF followedProject # Nil /\ followedProject # storedRepo THEN
         [to EXCEPT ![here] = followedProject]
  ELSE to

rememberBranch ==
  IF path.page = "dashboard" /\ here # Nil /\ settledOnRealBranch(path.repo)
    THEN [remembered EXCEPT ![branchKey(path.repo)] = activeBranch(path.repo)]
    ELSE remembered

redirectTarget ==
  IF path.page \in IndexPages /\ listed # Unread /\ selectedProject # Nil
    THEN At(IF path.page = "history index" THEN "history" ELSE "dashboard",
            selectedProject, Nil)
    ELSE path

RunEffects ==
  /\ due
  /\ stored' = rememberSelection(migrateLegacySelection.moved)
  /\ legacy' = IF migrateLegacySelection.gone THEN Nil ELSE legacy
  /\ remembered' = rememberBranch
  /\ OpenPath(redirectTarget)
  /\ due' = (stored' # stored \/ path' # path)
  /\ LeaveApi /\ UNCHANGED <<here, going, listed>>

SelectionNext ==
  \/ ListRead \/ BranchesRead \/ RunEffects \/ FollowRail
  \/ \E r \in Repos : \/ ProjectMoves(r) \/ SwitchProject(r) \/ OpenProject(r)
                      \/ \E b \in {Nil, GoneHead} : FollowDashboardLink(r, b)
  \/ \E p \in IndexPages : FollowIndexLink(p)
  \/ \E b \in Heads : BranchMoves(b) \/ changeBranch(b)
  \/ \E w \in Tenants : onSwitch(w)
  \/ SwitchLands \/ SwitchOpens \/ SwitchRefused

SelectionSpec == SelectionInit /\ [][SelectionNext]_selectionVars

-----------------------------------------------------------------------------
\* /dashboard and /history open a project of the active workspace, whatever the
\* storage, links, other users and earlier workspaces have left behind.
RedirectStaysInWorkspace ==
  [][path.page \in IndexPages /\ path'.page \in ProjectPages /\ RunEffects =>
       HomeOf[path'.repo] = here]_selectionVars
=============================================================================
