---------------------------- MODULE ActivityFeed ----------------------------
(***************************************************************************)
(* What runs in the workspace, as the top bar lists it (use-activity.ts,   *)
(* lib/activity.ts, activity-menu.tsx): one timer and at most one request  *)
(* per tab, asked again after a switch, an event or a return to the tab,   *)
(* and merged with the scans that the tab follows itself.                  *)
(***************************************************************************)
EXTENDS Integers, FiniteSets

CONSTANTS FeedSpaces,          \* workspaces, with one project each
          MaxFeedEpoch,        \* switches
          MaxFeedEvents        \* scans and profile changes, over all

ASSUME FeedAssumption == MaxFeedEpoch \in Nat /\ MaxFeedEvents \in Nat

VARIABLES feedServer,          \* the API: what runs in each workspace
          feedSession,         \* the API: the workspace of the session
          feedSpace,           \* activeWorkspaceId
          feedEpoch, feedMounted, feedHidden,
          feedTimer,           \* what is scheduled: nothing, an idle or a busy poll
          feedRequest,         \* the request that is out, if any (inFlight)
          feedState,           \* the last answer that was kept
          followed,            \* the scans this tab follows: what it thinks of each
          feedEvents

feedVars == <<feedServer, feedSession, feedSpace, feedEpoch, feedMounted, feedHidden, feedTimer,
              feedRequest, feedState, followed, feedEvents>>

NoFeedSpace   == "none"
NoActivity == [space |-> NoFeedSpace, scan |-> 0, rescoring |-> FALSE]
NoAnswer  == [epoch |-> -1, data |-> NoActivity]
NotAsked  == [epoch |-> -1, data |-> NoActivity, served |-> FALSE]
FeedScans == 1..MaxFeedEvents
Jobs      == {"starting", "scanning", "scoring", "ready"}

isBusy(data) == data.scan # 0 \/ data.rescoring
inFlight     == feedRequest # NotAsked

FeedInit ==
  /\ feedServer = [w \in FeedSpaces |-> [space |-> w, scan |-> 0, rescoring |-> FALSE]]
  /\ feedSession \in FeedSpaces /\ feedSpace = feedSession /\ feedEpoch = 0
  /\ feedMounted = FALSE /\ feedHidden = FALSE /\ feedTimer = "none"
  /\ feedRequest = NotAsked /\ feedState = NoAnswer /\ followed = <<>> /\ feedEvents = 0

KeepServer == UNCHANGED <<feedServer, feedSession, followed, feedEvents>>
Event      == feedEvents < MaxFeedEvents /\ feedEvents' = feedEvents + 1

\* Called with the scope and the tab as they are after the step.
poll ==
  CASE ~feedMounted' \/ inFlight         -> feedTimer' = "none" /\ UNCHANGED feedRequest
    [] feedMounted' /\ ~inFlight /\ (feedHidden' \/ feedSpace' = NoFeedSpace) ->
         feedTimer' = "idle" /\ UNCHANGED feedRequest
    [] OTHER -> feedTimer' = "none" /\ feedRequest' = [NotAsked EXCEPT !.epoch = feedEpoch']

refreshActivity == IF feedMounted' THEN poll ELSE UNCHANGED <<feedTimer, feedRequest>>

(***************************************************************************)
(* The API and the network.                                                *)
(***************************************************************************)
serveActivity ==
  /\ inFlight /\ ~feedRequest.served /\ feedSession # NoFeedSpace
  /\ feedRequest' = [feedRequest EXCEPT !.served = TRUE, !.data = feedServer[feedSession]]
  /\ UNCHANGED <<feedSpace, feedEpoch, feedMounted, feedHidden, feedTimer, feedState>> /\ KeepServer

scheduleAgain ==
  feedTimer' = CASE ~feedMounted                           -> feedTimer
                 [] feedMounted /\ isBusy(feedState'.data) -> "busy"
                 [] OTHER                                  -> "idle"

keptAnswer ==
  IF feedRequest.epoch = feedEpoch THEN [epoch |-> feedEpoch, data |-> feedRequest.data] ELSE feedState

PollAnswered ==
  /\ inFlight /\ feedRequest.served /\ feedRequest' = NotAsked
  /\ feedState' = keptAnswer /\ scheduleAgain
  /\ UNCHANGED <<feedSpace, feedEpoch, feedMounted, feedHidden>> /\ KeepServer

\* Mutant: the next poll is scheduled by an answer only.
PollGivenUp ==
  /\ inFlight /\ feedRequest' = NotAsked
  /\ UNCHANGED <<feedState, feedTimer, feedSpace, feedEpoch, feedMounted, feedHidden>> /\ KeepServer

PollFailed ==
  /\ inFlight /\ feedRequest' = NotAsked /\ UNCHANGED feedState /\ scheduleAgain
  /\ UNCHANGED <<feedSpace, feedEpoch, feedMounted, feedHidden>> /\ KeepServer

PollDue ==
  /\ feedTimer # "none"
  /\ UNCHANGED <<feedSpace, feedEpoch, feedMounted, feedHidden, feedState>> /\ KeepServer /\ poll

(***************************************************************************)
(* The tab and the workspace.                                              *)
(***************************************************************************)
subscribe ==
  /\ ~feedMounted /\ feedMounted' = TRUE
  /\ UNCHANGED <<feedSpace, feedEpoch, feedHidden, feedState>> /\ KeepServer /\ poll

unsubscribe ==
  /\ feedMounted /\ feedMounted' = FALSE /\ feedTimer' = "none"
  /\ UNCHANGED <<feedSpace, feedEpoch, feedHidden, feedState, feedRequest>> /\ KeepServer

visibilityChange ==
  /\ feedHidden' = ~feedHidden
  /\ UNCHANGED <<feedSpace, feedEpoch, feedMounted, feedState>> /\ KeepServer
  /\ IF feedHidden' THEN UNCHANGED <<feedTimer, feedRequest>> ELSE refreshActivity

\* A switch, in the API and then in the tab; or the active workspace is deleted, and another
\* one is opened.
serveSwitch ==
  /\ feedEpoch < MaxFeedEpoch /\ feedSession = feedSpace
  /\ feedSession' \in FeedSpaces \ {feedSession}
  /\ UNCHANGED <<feedServer, followed, feedEvents, feedSpace, feedEpoch, feedMounted, feedHidden,
                 feedTimer, feedRequest, feedState>>

switched ==
  /\ feedSession # feedSpace
  /\ feedSpace' = feedSession /\ feedEpoch' = feedEpoch + 1
  /\ UNCHANGED <<feedMounted, feedHidden, feedState>> /\ KeepServer /\ refreshActivity

leaveDeleted ==
  /\ feedEpoch < MaxFeedEpoch /\ feedSpace # NoFeedSpace /\ feedSession = feedSpace
  /\ feedSession' = NoFeedSpace /\ feedSpace' = NoFeedSpace /\ feedEpoch' = feedEpoch + 1
  /\ UNCHANGED <<feedServer, followed, feedEvents, feedMounted, feedHidden, feedState>>
  /\ refreshActivity

(***************************************************************************)
(* What runs, and what the tab follows of it.                              *)
(***************************************************************************)
AtApi(w, field, value) == feedServer' = [feedServer EXCEPT ![w] = [@ EXCEPT ![field] = value]]
KeepTab == UNCHANGED <<feedSession, feedSpace, feedEpoch, feedMounted, feedHidden, feedState>>
KeepPoll == UNCHANGED <<feedTimer, feedRequest>>

\* A scan, of a teammate or of this tab: the tab learns its id from the answer.
scanStarts(w) ==
  /\ Event /\ feedServer[w].scan = 0 /\ AtApi(w, "scan", feedEvents')
  /\ \/ UNCHANGED followed
     \/ w = feedSession /\ w = feedSpace
        /\ followed' = [i \in DOMAIN followed \cup {feedEvents'} |->
                          IF i = feedEvents' THEN [space |-> w, job |-> "starting"] ELSE followed[i]]
  /\ KeepTab /\ KeepPoll

\* What the tab hears of a scan it follows: started, waiting for its score, ready.
hears(i) ==
  /\ i \in DOMAIN followed
  /\ \/ followed[i].job = "starting" /\ followed' = [followed EXCEPT ![i].job = "scanning"]
     \/ followed[i].job = "scanning" /\ feedServer[followed[i].space].scan # i
        /\ followed' = [followed EXCEPT ![i].job = "scoring"]
     \/ followed[i].job = "scoring" /\ followed' = [followed EXCEPT ![i].job = "ready"]
  /\ UNCHANGED <<feedServer, feedEvents>> /\ KeepTab
  /\ IF followed'[i].job = "ready" THEN refreshActivity ELSE KeepPoll

acknowledgeScan(i) ==
  /\ i \in DOMAIN followed /\ followed[i].job = "ready"
  /\ followed' = [k \in DOMAIN followed \ {i} |-> followed[k]]
  /\ UNCHANGED <<feedServer, feedEvents>> /\ KeepTab /\ KeepPoll

scanEnds(w) ==
  /\ feedServer[w].scan # 0 /\ AtApi(w, "scan", 0)
  /\ UNCHANGED <<followed, feedEvents>> /\ KeepTab /\ KeepPoll

\* A profile is changed, here or by a teammate, and the worker catches up.
rescored(w) ==
  /\ feedServer[w].rescoring /\ AtApi(w, "rescoring", FALSE)
  /\ UNCHANGED <<followed, feedEvents>> /\ KeepTab /\ KeepPoll

profileChanges(w) ==
  /\ Event /\ AtApi(w, "rescoring", TRUE) /\ UNCHANGED followed /\ KeepTab
  /\ (w = feedSession /\ refreshActivity) \/ KeepPoll

FeedNext ==
  \/ serveActivity \/ PollAnswered \/ PollFailed \/ PollDue
  \/ subscribe \/ unsubscribe \/ visibilityChange
  \/ serveSwitch \/ switched \/ leaveDeleted
  \/ \E w \in FeedSpaces : scanStarts(w) \/ scanEnds(w) \/ rescored(w) \/ profileChanges(w)
  \/ \E i \in FeedScans : hears(i) \/ acknowledgeScan(i)

FeedSpec == FeedInit /\ [][FeedNext]_feedVars

(***************************************************************************)
(* What the menu lists.                                                    *)
(***************************************************************************)
useActivity == IF feedState.epoch = feedEpoch THEN feedState.data ELSE NoActivity
tracked     == {i \in DOMAIN followed : followed[i].space = feedSpace}
inProgress  == {i \in tracked : followed[i].job # "ready"}

followedScanIds == {i \in tracked : followed[i].job # "starting"}

activityItems ==
  {[kind |-> "job", scan |-> i] : i \in tracked}
    \cup {[kind |-> "scan", scan |-> i] : i \in {useActivity.scan} \ ({0} \cup followedScanIds)}
    \cup (IF useActivity.rescoring /\ inProgress = {} THEN {[kind |-> "rescoring", scan |-> 0]} ELSE {})

-----------------------------------------------------------------------------
\* After a switch the menu never lists what runs in the workspace that was left, however late
\* a poll of that time is answered.
FeedIsOfThisWorkspace ==
  feedSession = feedSpace /\ useActivity # NoActivity => useActivity.space = feedSpace

\* While the menu is there, it is asking or will ask: no lost answer, hidden tab, switch or
\* remount while a request is out ends the polling.
KeepsAsking == feedMounted => feedTimer # "none" \/ inFlight

\* A scan that this tab follows is listed once, also while the list of the API, read before,
\* says that it still runs.
ListedOnce ==
  \A i \in tracked :
    followed[i].job # "starting" => Cardinality({item \in activityItems : item.scan = i}) = 1

\* The menu asks on, lists this workspace only, and every scan once.
FeedInv == FeedIsOfThisWorkspace /\ KeepsAsking /\ ListedOnce
=============================================================================
