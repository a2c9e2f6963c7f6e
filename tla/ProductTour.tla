----------------------------- MODULE ProductTour -----------------------------
(***************************************************************************)
(* The guided tour of a new user (product-tour.tsx): it starts by itself   *)
(* once, leads from page to page, can be skipped section by section or as  *)
(* a whole, and can be taken again from the support page.  Its steps       *)
(* depend on the workspace having a project.                               *)
(***************************************************************************)
EXTENDS Integers, Sequences, FiniteSets, FiniteSetsExt, SequencesExt

CONSTANTS MaxTourMoves       \* steps taken and lists read, over all

ASSUME TourAssumption == MaxTourMoves \in Nat

VARIABLES tourDone,          \* the API: the tour was finished
          tourEnd,           \* this browser's storage: how the tour ended, or ""
          tourSession,       \* the session: unread, or whether the tour is required
          tourRepo,          \* the project list: unread, none, some
          tourScope, stepIndex, confirmClose, autoStarted,
          tourPage, querySeen,   \* the page that is open; the project its query was seen to name
          tourMoves,
          toldEnd            \* history: a reader known to the page ended the tour

tourVars == <<tourDone, tourEnd, tourSession, tourRepo, autoStarted, toldEnd, tourScope, stepIndex, confirmClose, tourPage,
              querySeen, tourMoves>>

Step(section, project) == [section |-> section, project |-> project]
PRODUCT_TOUR_STEPS ==
  <<Step("workspace", FALSE), Step("workspace", FALSE), Step("projects", FALSE),
    Step("dashboard", FALSE), Step("dashboard", FALSE), Step("dashboard", FALSE), Step("dashboard", FALSE),
    Step("profiles", FALSE), Step("profiles", FALSE), Step("profiles", FALSE), Step("profiles", TRUE),
    Step("history", FALSE)>>
TOUR_SECTIONS == {PRODUCT_TOUR_STEPS[i].section : i \in DOMAIN PRODUCT_TOUR_STEPS}
NoStep == Step("none", FALSE)
Page(path, project) == [path |-> path, project |-> project]
Pages  == {Page(s, FALSE) : s \in TOUR_SECTIONS \cup {"support"}} \cup {Page("profiles", TRUE)}

\* What a tour shows; without a project, what can be done without one.
stepsOf(scope, repo) ==
  LET scoped(s) == scope = "full" \/ s.section = scope
      usable(s) == repo = "some" \/ (s.section \notin {"dashboard", "history"} /\ ~s.project)
  IN  SelectSeq(PRODUCT_TOUR_STEPS, LAMBDA s : scoped(s) /\ usable(s))
steps == stepsOf(tourScope, tourRepo)
step  == IF stepIndex \in DOMAIN steps THEN steps[stepIndex] ELSE NoStep

routeFor(s) ==
  IF s.section \in {"workspace", "projects"} THEN Page(s.section, FALSE)
  ELSE IF s.section = "profiles" THEN Page("profiles", s.project /\ tourRepo = "some")
  ELSE IF tourRepo # "some" THEN Page("projects", FALSE)
  ELSE Page(s.section, FALSE)

TourInit ==
  /\ tourDone \in BOOLEAN /\ tourEnd = "" /\ tourSession = "unread" /\ tourRepo = "unread"
  /\ tourScope = "none" /\ stepIndex = 1 /\ confirmClose = FALSE /\ autoStarted = FALSE
  /\ tourPage \in Pages /\ querySeen = "unread" /\ tourMoves = 0
  /\ toldEnd = FALSE

Moved    == tourMoves < MaxTourMoves /\ tourMoves' = tourMoves + 1
KeepUser  == UNCHANGED <<tourDone, tourEnd, tourSession, tourRepo, autoStarted, toldEnd>>
KeepPlace == UNCHANGED <<tourPage, querySeen>>
\* What the reader has said by pressing a button that ends the tour.
NoteEnd   == toldEnd' = (toldEnd \/ tourSession # "unread")

startTour(scope) == tourScope' = scope /\ stepIndex' = 1 /\ confirmClose' = FALSE

(***************************************************************************)
(* Reads, and the start by itself.                                         *)
(***************************************************************************)
ReadTourSession ==
  /\ tourSession = "unread" /\ tourSession' = (IF tourDone THEN "done" ELSE "required")
  /\ UNCHANGED <<tourDone, tourEnd, tourRepo, autoStarted, toldEnd, tourScope, stepIndex, confirmClose,
                 tourMoves>> /\ KeepPlace

AutoStart ==
  /\ tourSession = "required" /\ ~autoStarted /\ autoStarted' = TRUE
  /\ IF tourEnd # "" THEN UNCHANGED <<tourScope, stepIndex, confirmClose>> ELSE startTour("full")
  /\ UNCHANGED <<tourDone, tourEnd, tourSession, tourRepo, toldEnd, tourMoves>> /\ KeepPlace

\* A project is connected or removed, or the list of another workspace is read.
ReadTourProjects ==
  /\ Moved /\ tourRepo' \in {"unread", "none", "some"} \ {tourRepo}
  /\ UNCHANGED <<tourDone, tourEnd, tourSession, autoStarted, toldEnd>>
  /\ UNCHANGED <<tourScope, stepIndex, confirmClose>>
  /\ KeepPlace

Reload ==
  /\ Moved
  /\ tourSession' = "unread" /\ tourRepo' = "unread" /\ querySeen' = "unread" /\ autoStarted' = FALSE
  /\ tourScope' = "none" /\ stepIndex' = 1 /\ confirmClose' = FALSE
  /\ UNCHANGED <<tourDone, tourEnd, toldEnd, tourPage>>

(***************************************************************************)
(* The way to the page of the step.                                        *)
(***************************************************************************)
QuerySeen ==
  /\ querySeen # (IF tourPage.project THEN "project" ELSE "none")
  /\ querySeen' = (IF tourPage.project THEN "project" ELSE "none")
  /\ KeepUser /\ UNCHANGED <<tourScope, stepIndex, confirmClose, tourPage, tourMoves>>

PushDue ==
  LET to == routeFor(step) IN
  /\ step # NoStep
  /\ ~(step.section = "profiles" /\ tourPage.path = to.path /\ querySeen = "unread")
  /\ \/ tourPage.path # to.path
     \/ step.section = "profiles" /\ (querySeen = "project") # to.project

PushRoute ==
  /\ PushDue /\ tourPage' = routeFor(step)
  /\ KeepUser /\ UNCHANGED <<tourScope, stepIndex, confirmClose, querySeen, tourMoves>>

\* The reader follows a link of the page; the tour leads back.
Navigate ==
  /\ Moved /\ tourPage' \in Pages \ {tourPage}
  /\ KeepUser /\ UNCHANGED <<tourScope, stepIndex, confirmClose, querySeen>>

(***************************************************************************)
(* The card's buttons.                                                     *)
(***************************************************************************)
\* Mutant: only the API is told how the tour ended.
persistAtApiOnly(status) ==
  /\ tourScope' = "none" /\ stepIndex' = 1 /\ tourDone' \in {tourDone, TRUE}
  /\ UNCHANGED <<tourEnd, tourSession, tourRepo, autoStarted>>

persistEnd(status) ==
  /\ tourEnd' = (IF tourSession # "unread" THEN status ELSE tourEnd)
  /\ tourScope' = "none" /\ stepIndex' = 1
  /\ tourDone' \in {tourDone, TRUE}                \* the call may be lost
  /\ UNCHANGED <<tourSession, tourRepo, autoStarted>>

CardShown == step # NoStep /\ ~confirmClose

next ==
  /\ CardShown /\ Moved
  /\ \/ stepIndex >= Len(steps) /\ persistEnd("completed") /\ NoteEnd
     \/ stepIndex < Len(steps) /\ stepIndex' = stepIndex + 1 /\ UNCHANGED tourScope /\ KeepUser
  /\ UNCHANGED confirmClose /\ KeepPlace

onBack ==
  /\ CardShown /\ Moved /\ stepIndex > 1 /\ stepIndex' = stepIndex - 1
  /\ UNCHANGED <<tourScope, confirmClose>> /\ KeepUser /\ KeepPlace

laterSections == {i \in DOMAIN steps : i > stepIndex /\ steps[i].section # step.section}

skipSection ==
  /\ CardShown /\ Moved
  /\ \/ (tourScope # "full" \/ laterSections = {}) /\ persistEnd("completed") /\ NoteEnd
     \/ tourScope = "full" /\ laterSections # {} /\ stepIndex' = Min(laterSections)
        /\ UNCHANGED tourScope /\ KeepUser
  /\ UNCHANGED confirmClose /\ KeepPlace

\* The close button, or Escape.
onClose ==
  /\ step # NoStep /\ confirmClose' = TRUE
  /\ UNCHANGED <<tourScope, stepIndex, tourMoves>> /\ KeepUser /\ KeepPlace

KeepLearning ==
  /\ confirmClose /\ confirmClose' = FALSE
  /\ UNCHANGED <<tourScope, stepIndex, tourMoves>> /\ KeepUser /\ KeepPlace

SkipAll ==
  /\ confirmClose /\ confirmClose' = FALSE /\ persistEnd("skipped")
  /\ NoteEnd /\ UNCHANGED tourMoves /\ KeepPlace

\* The support page's lessons.
StartLesson ==
  /\ Moved /\ tourPage.path = "support" /\ ~CardShown /\ ~confirmClose
  /\ \E scope \in TOUR_SECTIONS \cup {"full"} : startTour(scope)
  /\ KeepUser /\ KeepPlace

TourNext ==
  \/ ReadTourSession \/ AutoStart \/ ReadTourProjects \/ Reload
  \/ QuerySeen \/ PushRoute \/ Navigate
  \/ next \/ onBack \/ skipSection \/ onClose \/ KeepLearning \/ SkipAll \/ StartLesson

TourSpec == TourInit /\ [][TourNext]_tourVars

-----------------------------------------------------------------------------
\* Whoever ended the tour in this browser is not shown it again unasked, even when the API
\* never learned of it and the page is loaded again.
EndedIsRemembered ==
  [][toldEnd /\ tourScope = "none" /\ tourScope' # "none" => StartLesson]_tourVars
=============================================================================
