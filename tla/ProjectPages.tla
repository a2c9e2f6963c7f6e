---------------------------- MODULE ProjectPages ----------------------------
(***************************************************************************)
(* The pages around the projects of a workspace, and the profiles they are *)
(* scored with. A behaviour picks one of them and leaves the others as     *)
(* they start: they share no state that a page changes while another is    *)
(* used, but one run checks them all.                                      *)
(***************************************************************************)
EXTENDS ProjectsPage, ProjectSelection, SourceScope, ProfilesPage,
        OverviewPage

VARIABLE showing

allVars == <<showing, projectsVars, selectionVars, scopeVars, profilesVars,
             overviewVars>>
Parts   == {"projects", "selection", "scope", "profiles", "overview"}

Init ==
  /\ showing \in Parts
  /\ ProjectsInit /\ SelectionInit /\ ScopeInit
  /\ ProfilesInit /\ OverviewInit
  /\ showing # "projects" => role = "manager"
  /\ showing # "selection" => legacy = Nil
  /\ showing # "overview" => opened = "dashboard"

ProjectsSteps ==
  /\ showing = "projects" /\ ProjectsNext
  /\ UNCHANGED <<showing, selectionVars, scopeVars, profilesVars, overviewVars>>

SelectionSteps ==
  /\ showing = "selection" /\ SelectionNext
  /\ UNCHANGED <<showing, projectsVars, scopeVars, profilesVars, overviewVars>>

ScopeSteps ==
  /\ showing = "scope" /\ ScopeNext
  /\ UNCHANGED <<showing, projectsVars, selectionVars, profilesVars, overviewVars>>

ProfilesSteps ==
  /\ showing = "profiles" /\ ProfilesNext
  /\ UNCHANGED <<showing, projectsVars, selectionVars, scopeVars, overviewVars>>

OverviewSteps ==
  /\ showing = "overview" /\ OverviewNext
  /\ UNCHANGED <<showing, projectsVars, selectionVars, scopeVars, profilesVars>>

Next ==
  \/ ProjectsSteps
  \/ SelectionSteps
  \/ ScopeSteps
  \/ ProfilesSteps
  \/ OverviewSteps

Spec == Init /\ [][Next]_allVars
=============================================================================
