--------------------------- MODULE WorkspacePages ---------------------------
(***************************************************************************)
(* The memory behind every read, sign-in, the activity that is polled, the *)
(* pages of a workspace, its people and its rules, the tour and the mock   *)
(* API. A behaviour picks one of them and leaves the others as they start: *)
(* they share no state that a page changes while another is used, but one  *)
(* run checks them all.                                                    *)
(***************************************************************************)
EXTENDS QueryCache, SignIn, ActivityFeed, WorkspacePage, TeamPanel,
        RulesPage, ProductTour, TourCard, MockWorkspaces, MockScans

VARIABLE showing

allVars == <<showing, queryVars, signInVars, feedVars, workspaceVars,
             teamVars, rulesVars, tourVars, cardVars, mockVars,
             mockScanVars>>
Parts   == {"cache", "signin", "activity", "workspace", "team", "rules", "tour", "card",
            "mock", "mockscans"}

TourAtRest == tourDone /\ tourPage = CHOOSE p \in Pages : TRUE
CardAtRest ==
  viewport = (CHOOSE v \in Viewports : TRUE) /\ cardSize = (CHOOSE c \in CardSizes : TRUE)

Init ==
  /\ showing \in Parts
  /\ QueryInit /\ SignInInit /\ FeedInit
  /\ WorkspaceInit /\ TeamInit /\ RulesInit
  /\ TourInit /\ CardInit /\ MockInit
  /\ MockScansInit
  /\ showing # "cache" => screen = CHOOSE s \in Screens : TRUE
  /\ showing # "signin" => ~cookie
  /\ showing # "activity" => feedSession = CHOOSE w \in FeedSpaces : TRUE
  /\ showing # "workspace" => bound = NoSpace
  /\ showing # "tour" => TourAtRest
  /\ showing # "card" => CardAtRest
  /\ showing # "mock" => activeWorkspaceId = NoMockSpace
  /\ showing # "mockscans" => rulesInForce = CHOOSE s \in Selections : TRUE

CacheSteps ==
  /\ showing = "cache" /\ QueryNext
  /\ UNCHANGED <<showing, signInVars, feedVars, workspaceVars, teamVars, rulesVars, tourVars,
                 cardVars, mockVars, mockScanVars>>

SigninSteps ==
  /\ showing = "signin" /\ SignInNext
  /\ UNCHANGED <<showing, queryVars, feedVars, workspaceVars, teamVars, rulesVars, tourVars,
                 cardVars, mockVars, mockScanVars>>

ActivitySteps ==
  /\ showing = "activity" /\ FeedNext
  /\ UNCHANGED <<showing, queryVars, signInVars, workspaceVars, teamVars, rulesVars, tourVars,
                 cardVars, mockVars, mockScanVars>>

WorkspaceSteps ==
  /\ showing = "workspace" /\ WorkspaceNext
  /\ UNCHANGED <<showing, queryVars, signInVars, feedVars, teamVars, rulesVars, tourVars,
                 cardVars, mockVars, mockScanVars>>

TeamSteps ==
  /\ showing = "team" /\ TeamNext
  /\ UNCHANGED <<showing, queryVars, signInVars, feedVars, workspaceVars, rulesVars, tourVars,
                 cardVars, mockVars, mockScanVars>>

RulesSteps ==
  /\ showing = "rules" /\ RulesNext
  /\ UNCHANGED <<showing, queryVars, signInVars, feedVars, workspaceVars, teamVars, tourVars,
                 cardVars, mockVars, mockScanVars>>

TourSteps ==
  /\ showing = "tour" /\ TourNext
  /\ UNCHANGED <<showing, queryVars, signInVars, feedVars, workspaceVars, teamVars, rulesVars,
                 cardVars, mockVars, mockScanVars>>

CardSteps ==
  /\ showing = "card" /\ CardNext
  /\ UNCHANGED <<showing, queryVars, signInVars, feedVars, workspaceVars, teamVars, rulesVars,
                 tourVars, mockVars, mockScanVars>>

MockSteps ==
  /\ showing = "mock" /\ MockNext
  /\ UNCHANGED <<showing, queryVars, signInVars, feedVars, workspaceVars, teamVars, rulesVars,
                 tourVars, cardVars, mockScanVars>>

MockscansSteps ==
  /\ showing = "mockscans" /\ MockScansNext
  /\ UNCHANGED <<showing, queryVars, signInVars, feedVars, workspaceVars, teamVars, rulesVars,
                 tourVars, cardVars, mockVars>>

Next ==
  \/ CacheSteps
  \/ SigninSteps
  \/ ActivitySteps
  \/ WorkspaceSteps
  \/ TeamSteps
  \/ RulesSteps
  \/ TourSteps
  \/ CardSteps
  \/ MockSteps
  \/ MockscansSteps

Spec == Init /\ [][Next]_allVars

-----------------------------------------------------------------------------
\* The panels on a workspace's people, its rules and the tour settle and fit; where the card
\* is put is looked at while it is shown.
PanelsInv == MembershipTypeOK /\ TeamSettles /\ RulesInv /\ (showing = "card" => CardInv)

\* The mock API's copies agree, its pool can be used and its stops are told of.
MockApiInv == MockInv /\ StopsAreTold
=============================================================================
