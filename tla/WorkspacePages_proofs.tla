------------------------ MODULE WorkspacePages_proofs ------------------------
(***************************************************************************)
(* What signing in, the list of what runs and the settings of a workspace  *)
(* promise, for any tabs, workspaces, switches and requests.               *)
(***************************************************************************)
EXTENDS WorkspacePages, FiniteSetTheorems, WellFoundedInduction, TLAPS

(***************************************************************************)
(* Signing in and accepting an invitation.                                 *)
(***************************************************************************)
Flows     == [state : Nat \ {0}, retry : BOOLEAN]
JoinCalls == [ask : Nat, kind : {"out", "joined", "gone", "error"}]
OldFlow   == {NoFlow} \cup Flows

\* Visits to the identity provider that the user began and that were not begun again.
FirstVisits == {t \in Tabs : place[t] = "idp" /\ ~flow[t].retry}

\* A session that the API knows has its cookie.
SessionFits == cookie \in BOOLEAN /\ sessionAlive \in BOOLEAN /\ (sessionAlive => cookie)

TabsShape ==
  /\ SessionFits
  /\ place \in [Tabs -> Places] /\ flow \in [Tabs -> OldFlow]
  /\ read \in [Tabs -> {"loading", "in", "out", "failed"}]
  /\ outcome \in [Tabs -> {"none", "joined", "unusable", "failed"}]
  /\ saved \in [Tabs -> BOOLEAN] /\ started \in [Tabs -> BOOLEAN]
  /\ asks \in [Tabs -> Nat] /\ joinAnswers \in [Tabs -> SUBSET JoinCalls]
  /\ starts \in Nat /\ retries \in Nat

\* A tab is at the identity provider exactly while its visit is remembered.
VisitFits(t) == place[t] = "idp" <=> flow[t] # NoFlow

\* A page has one request to accept, made on the page where its answer is awaited.
AskFits(t) ==
  /\ \A c, d \in joinAnswers[t] : c = d
  /\ joinAnswers[t] # {} => place[t] = "accept" /\ started[t] /\ outcome[t] = "none"
  /\ outcome[t] # "none" => started[t]
  /\ outcome[t] \in {"joined", "unusable"} => ~saved[t]

\* Every first visit that is out may be begun again once, and none twice.
VisitsCount ==
  /\ IsFiniteSet(FirstVisits)
  /\ Cardinality(FirstVisits) + retries <= starts

TabsFit   == \A t \in Tabs : VisitFits(t) /\ AskFits(t)
BrowserOK == TabsShape /\ TabsFit /\ VisitsCount

LEMMA SessionMoves ==
  ASSUME SessionFits,
         \/ UNCHANGED <<cookie, sessionAlive>>
         \/ cookie' = cookie /\ sessionAlive' = FALSE
         \/ cookie' = FALSE /\ sessionAlive' = FALSE
         \/ cookie' = TRUE /\ sessionAlive' = TRUE
  PROVE  SessionFits'
<1>1. CASE UNCHANGED <<cookie, sessionAlive>>
  BY <1>1 DEF SessionFits
<1>2. CASE cookie' = cookie /\ sessionAlive' = FALSE
  BY <1>2 DEF SessionFits
<1>3. CASE cookie' = FALSE /\ sessionAlive' = FALSE
  BY <1>3 DEF SessionFits
<1>4. CASE cookie' = TRUE /\ sessionAlive' = TRUE
  BY <1>4 DEF SessionFits
<1> QED
  BY <1>1, <1>2, <1>3, <1>4

LEMMA BrowserStarts ==
  ASSUME SignInInit PROVE BrowserOK
<1>1. TabsShape
  BY DEF SignInInit, TabsShape, SessionFits, entry, Places, OldFlow
<1>2. TabsFit
  BY DEF SignInInit, TabsFit, VisitFits, AskFits, entry
<1>3. VisitsCount
  <2>1. FirstVisits = {}
    BY DEF FirstVisits, SignInInit, entry
  <2> QED BY <2>1, FS_EmptySet DEF VisitsCount, SignInInit
<1> QED
  BY <1>1, <1>2, <1>3 DEF BrowserOK

\* A tab moves: the others stay as they are.
LEMMA OneTabMoves ==
  ASSUME TabsFit, NEW t \in Tabs, VisitFits(t)', AskFits(t)',
         \A u \in Tabs \ {t} : /\ place'[u] = place[u] /\ flow'[u] = flow[u]
                               /\ joinAnswers'[u] = joinAnswers[u] /\ started'[u] = started[u]
                               /\ outcome'[u] = outcome[u] /\ saved'[u] = saved[u]
  PROVE  TabsFit'
BY DEF TabsFit, VisitFits, AskFits

\* No first visit is added, unless the user began one.
LEMMA VisitsStay ==
  ASSUME VisitsCount, TabsShape, retries' = retries, starts' \in Nat, starts <= starts',
         FirstVisits' \subseteq FirstVisits
  PROVE  VisitsCount'
<1>1. IsFiniteSet(FirstVisits') /\ Cardinality(FirstVisits') <= Cardinality(FirstVisits)
  BY FS_Subset DEF VisitsCount
<1>2. Cardinality(FirstVisits) \in Nat /\ Cardinality(FirstVisits') \in Nat
  BY <1>1, FS_CardinalityType DEF VisitsCount
<1> QED
  BY <1>1, <1>2 DEF VisitsCount, TabsShape

\* A page of the app is loaded in a tab.
LEMMA PageLoads ==
  ASSUME BrowserOK, NEW t \in Tabs, NEW at \in {"login", "app", "accept"}, loaded(t, at),
         \/ flow' = [flow EXCEPT ![t] = NoFlow]
         \/ flow' = flow /\ place[t] # "idp",
         SessionFits',
         saved' \in [Tabs -> BOOLEAN] /\ (\A u \in Tabs \ {t} : saved'[u] = saved[u]),
         asks' = asks /\ retries' = retries /\ starts' \in Nat /\ starts <= starts'
  PROVE  BrowserOK'
<1>0. TabsShape /\ TabsFit /\ VisitsCount
  BY DEF BrowserOK
<1>1. /\ place' = [place EXCEPT ![t] = at] /\ outcome' = [outcome EXCEPT ![t] = "none"]
      /\ started' = [started EXCEPT ![t] = FALSE]
      /\ joinAnswers' = [joinAnswers EXCEPT ![t] = {}]
      /\ read' = [read EXCEPT ![t] = "loading"]
  BY DEF loaded
<1>2. flow' \in [Tabs -> OldFlow] /\ flow'[t] = NoFlow /\ \A u \in Tabs \ {t} : flow'[u] = flow[u]
  <2>1. place[t] # "idp" => flow[t] = NoFlow
    BY <1>0 DEF TabsFit, VisitFits
  <2> QED BY <1>0, <2>1 DEF TabsShape, OldFlow
<1>3. TabsShape'
  BY <1>0, <1>1, <1>2 DEF TabsShape, Places
<1>4. VisitFits(t)' /\ AskFits(t)'
  BY <1>0, <1>1, <1>2 DEF TabsShape, VisitFits, AskFits
<1>5. TabsFit'
  BY <1>0, <1>1, <1>2, <1>4, OneTabMoves DEF TabsShape
<1>6. FirstVisits' \subseteq FirstVisits
  BY <1>0, <1>1, <1>2 DEF FirstVisits, TabsShape
<1>7. VisitsCount'
  BY <1>0, <1>6, VisitsStay
<1> QED
  BY <1>3, <1>5, <1>7 DEF BrowserOK

\* A tab goes to the identity provider.
LEMMA VisitBegins ==
  ASSUME BrowserOK, NEW t \in Tabs, NEW invited \in BOOLEAN, NEW retry \in BOOLEAN,
         sent(t, invited, retry), UNCHANGED <<cookie, sessionAlive, saved, asks>>,
         \/ ~retry /\ place[t] # "idp" /\ starts' = starts + 1 /\ retries' = retries
         \/ retry /\ place[t] = "idp" /\ ~flow[t].retry /\ retries' = retries + 1 /\ starts' = starts
  PROVE  BrowserOK'
<1>0. TabsShape /\ TabsFit /\ VisitsCount
  BY DEF BrowserOK
<1>1. /\ place' = [place EXCEPT ![t] = "idp"] /\ outcome' = [outcome EXCEPT ![t] = "none"]
      /\ started' = [started EXCEPT ![t] = FALSE]
      /\ joinAnswers' = [joinAnswers EXCEPT ![t] = {}]
      /\ read' = [read EXCEPT ![t] = "loading"]
  BY DEF sent, loaded
<1>2. PICK visit : visit = [state |-> starts + retries + 1, retry |-> retry]
  OBVIOUS
<1>3. flow' = [flow EXCEPT ![t] = visit]
  BY <1>2 DEF sent, shake
<1>4. visit \in Flows /\ visit # NoFlow /\ visit.retry = retry
  BY <1>0, <1>2 DEF TabsShape, Flows, NoFlow
<1>5. flow' \in [Tabs -> OldFlow] /\ flow'[t] = visit
  BY <1>0, <1>3, <1>4 DEF TabsShape, OldFlow
<1>6. starts' \in Nat /\ retries' \in Nat /\ SessionFits'
  BY <1>0, SessionMoves DEF TabsShape
<1>7. TabsShape'
  BY <1>0, <1>1, <1>5, <1>6 DEF TabsShape, Places
<1>8. VisitFits(t)' /\ AskFits(t)'
  BY <1>0, <1>1, <1>4, <1>5 DEF TabsShape, VisitFits, AskFits
<1>9. TabsFit'
  BY <1>0, <1>1, <1>3, <1>8, OneTabMoves DEF TabsShape
<1>10. Cardinality(FirstVisits) \in Nat /\ IsFiniteSet(FirstVisits)
  BY <1>0, FS_CardinalityType DEF VisitsCount
<1>11. CASE ~retry
  <2>1. FirstVisits' = FirstVisits \cup {t} /\ t \notin FirstVisits
    BY <1>0, <1>1, <1>3, <1>4, <1>5, <1>11 DEF FirstVisits, TabsShape
  <2>2. IsFiniteSet(FirstVisits') /\ Cardinality(FirstVisits') = Cardinality(FirstVisits) + 1
    BY <1>10, <2>1, FS_AddElement
  <2> QED BY <1>0, <1>7, <1>9, <1>10, <1>11, <2>2 DEF BrowserOK, VisitsCount, TabsShape
<1>12. CASE retry
  <2>1. FirstVisits' = FirstVisits \ {t} /\ t \in FirstVisits
    BY <1>0, <1>1, <1>3, <1>4, <1>5, <1>12 DEF FirstVisits, TabsShape
  <2>2. IsFiniteSet(FirstVisits') /\ Cardinality(FirstVisits') = Cardinality(FirstVisits) - 1
    BY <1>10, <2>1, FS_RemoveElement
  <2> QED BY <1>0, <1>7, <1>9, <1>10, <1>12, <2>2 DEF BrowserOK, VisitsCount, TabsShape
<1> QED
  BY <1>11, <1>12

\* Everything else leaves places and visits alone.
LEMMA TabWorks ==
  ASSUME BrowserOK, NEW t \in Tabs, UNCHANGED <<place, flow, starts, retries>>,
         SessionFits',
         read' \in [Tabs -> {"loading", "in", "out", "failed"}],
         outcome' \in [Tabs -> {"none", "joined", "unusable", "failed"}],
         saved' \in [Tabs -> BOOLEAN] /\ started' \in [Tabs -> BOOLEAN],
         asks' \in [Tabs -> Nat] /\ joinAnswers' \in [Tabs -> SUBSET JoinCalls],
         \A u \in Tabs \ {t} :
           /\ joinAnswers'[u] = joinAnswers[u] /\ started'[u] = started[u]
           /\ outcome'[u] = outcome[u] /\ saved'[u] = saved[u],
         AskFits(t)'
  PROVE  BrowserOK'
<1>0. TabsShape /\ TabsFit /\ VisitsCount
  BY DEF BrowserOK
<1>1. TabsShape'
  BY <1>0 DEF TabsShape
<1>2. VisitFits(t)'
  BY <1>0 DEF TabsFit, VisitFits
<1>3. TabsFit'
  BY <1>0, <1>2, OneTabMoves
<1>4. VisitsCount'
  BY <1>0 DEF VisitsCount, FirstVisits
<1> QED
  BY <1>1, <1>3, <1>4 DEF BrowserOK

LEMMA BrowserMoves ==
  ASSUME BrowserOK, [SignInNext]_signInVars
  PROVE  BrowserOK'
<1>0. TabsShape /\ TabsFit /\ VisitsCount /\ SessionFits
  BY DEF BrowserOK, TabsShape
<1>a. entry \in {"login", "app", "accept"} /\ "app" \in {"login", "app", "accept"}
  BY DEF entry
<1>1. CASE SessionEnds \/ HandshakeAges \/ UNCHANGED signInVars
  <2>1. /\ UNCHANGED <<place, flow, saved, read, outcome, asks, joinAnswers, started, starts, retries>>
        /\ cookie' = cookie /\ (sessionAlive' = sessionAlive \/ sessionAlive' = FALSE)
    BY <1>1 DEF SessionEnds, HandshakeAges, signInVars, browserVars, acceptPage, countVars, ending
  <2>2. TabsShape'
    <3>1. SessionFits'
      BY <1>0, <2>1, SessionMoves
    <3> QED BY <1>0, <2>1, <3>1 DEF TabsShape
  <2>3. TabsFit' /\ VisitsCount'
    BY <1>0, <2>1 DEF TabsFit, VisitFits, AskFits, VisitsCount, FirstVisits
  <2> QED BY <2>2, <2>3 DEF BrowserOK
<1>2. ASSUME NEW t \in Tabs, OpenInvitation(t) \/ VisitApp(t) \/ SignOut(t) PROVE BrowserOK'
  <2>1. starts' \in Nat /\ starts <= starts' /\ retries' = retries
    BY <1>0, <1>2 DEF OpenInvitation, VisitApp, SignOut, begins, TabsShape
  <2>2. PICK at \in {"login", "app", "accept"} : loaded(t, at)
    BY <1>a, <1>2 DEF OpenInvitation, VisitApp, SignOut
  <2>3. flow' = [flow EXCEPT ![t] = NoFlow] \/ (flow' = flow /\ place[t] # "idp")
    BY <1>2 DEF OpenInvitation, VisitApp, SignOut
  <2>4. SessionFits'
    <3>1. UNCHANGED <<cookie, sessionAlive>> \/ (cookie' = FALSE /\ sessionAlive' = FALSE)
      BY <1>2 DEF OpenInvitation, VisitApp, SignOut, browserVars
    <3> QED BY <1>0, <3>1, SessionMoves
  <2>5. saved' \in [Tabs -> BOOLEAN] /\ (\A u \in Tabs \ {t} : saved'[u] = saved[u]) /\ asks' = asks
    BY <1>0, <1>2 DEF OpenInvitation, VisitApp, SignOut, TabsShape
  <2> QED BY <2>1, <2>2, <2>3, <2>4, <2>5, PageLoads
<1>3. ASSUME NEW t \in Tabs,
             Guard(t) \/ AlreadySignedIn(t) \/ SignedIn(t) \/ SignInFailed(t) \/ BackFromIdp(t)
               \/ GoOn(t)
      PROVE  BrowserOK'
  <2>1. starts' \in Nat /\ starts <= starts' /\ retries' = retries
    BY <1>0, <1>3 DEF Guard, AlreadySignedIn, SignedIn, SignInFailed, BackFromIdp, GoOn, countVars,
       KeepBrowser, TabsShape
  <2>2. PICK at \in {"login", "app", "accept"} : loaded(t, at)
    BY <1>a, <1>3 DEF Guard, AlreadySignedIn, SignedIn, SignInFailed, BackFromIdp, GoOn
  <2>3. flow' = [flow EXCEPT ![t] = NoFlow] \/ (flow' = flow /\ place[t] # "idp")
    BY <1>3 DEF Guard, AlreadySignedIn, SignedIn, SignInFailed, BackFromIdp, GoOn, KeepBrowser
  <2>4. SessionFits'
    <3>1. UNCHANGED <<cookie, sessionAlive>> \/ (cookie' = TRUE /\ sessionAlive' = TRUE)
      BY <1>3 DEF Guard, AlreadySignedIn, SignedIn, SignInFailed, BackFromIdp, GoOn, KeepBrowser,
         browserVars
    <3> QED BY <1>0, <3>1, SessionMoves
  <2>5. asks' = asks /\ (saved' = saved \/ \E b \in BOOLEAN : saved' = [saved EXCEPT ![t] = b])
    <3>1. CASE SignedIn(t)
      <4>1. (saved[t] \/ handshake.invited) \in BOOLEAN
        OBVIOUS
      <4> QED BY <3>1, <4>1 DEF SignedIn
    <3> QED BY <1>3, <3>1 DEF Guard, AlreadySignedIn, SignInFailed, BackFromIdp, GoOn
  <2>6. saved' \in [Tabs -> BOOLEAN] /\ (\A u \in Tabs \ {t} : saved'[u] = saved[u])
    BY <1>0, <2>5 DEF TabsShape
  <2> QED BY <2>1, <2>2, <2>3, <2>4, <2>5, <2>6, PageLoads
<1>4. ASSUME NEW t \in Tabs, beginSignIn(t) PROVE BrowserOK'
  <2>1. PICK invited \in BOOLEAN : sent(t, invited, FALSE)
    BY <1>4 DEF beginSignIn
  <2>2. place[t] # "idp" /\ starts' = starts + 1 /\ retries' = retries
    BY <1>4 DEF beginSignIn, fromPanel, fromInvitation, begins
  <2> QED BY <1>4, <2>1, <2>2, VisitBegins DEF beginSignIn
<1>5. ASSUME NEW t \in Tabs, retryOrBack(t) PROVE BrowserOK'
  <2>1. place[t] = "idp" /\ starts' = starts /\ UNCHANGED <<cookie, sessionAlive, saved, asks>>
    BY <1>5 DEF retryOrBack
  <2>2. CASE flow[t].retry
    <3>1. loaded(t, "login") /\ flow' = [flow EXCEPT ![t] = NoFlow] /\ retries' = retries
      BY <1>5, <2>2 DEF retryOrBack
    <3>2. starts' \in Nat /\ starts <= starts'
      BY <1>0, <2>1 DEF TabsShape
    <3>3. SessionFits'
      BY <1>0, <2>1, SessionMoves
    <3>4. saved' \in [Tabs -> BOOLEAN]
      BY <1>0, <2>1 DEF TabsShape
    <3> QED BY <2>1, <3>1, <3>2, <3>3, <3>4, PageLoads
  <2>3. CASE ~flow[t].retry
    <3>1. sent(t, FALSE, TRUE) /\ retries' = retries + 1
      BY <1>5, <2>3 DEF retryOrBack
    <3> QED BY <2>1, <2>3, <3>1, VisitBegins
  <2> QED BY <2>2, <2>3
<1>6. ASSUME NEW t \in Tabs, ReadSession(t) \/ TryAgain(t) PROVE BrowserOK'
  <2>1. /\ UNCHANGED <<place, flow, starts, retries, cookie, sessionAlive, saved, asks, joinAnswers>>
        /\ \/ outcome' = outcome /\ started' = started
           \/ /\ outcome[t] = "failed" /\ outcome' = [outcome EXCEPT ![t] = "none"]
              /\ started' = [started EXCEPT ![t] = FALSE]
    BY <1>6 DEF ReadSession, TryAgain, KeepBrowser, browserVars, countVars, acceptPage
  <2>2. read' \in [Tabs -> {"loading", "in", "out", "failed"}]
    BY <1>0, <1>6 DEF ReadSession, TryAgain, TabsShape
  <2>3. AskFits(t)'
    BY <1>0, <2>1 DEF TabsFit, AskFits, TabsShape
  <2>4. /\ outcome' \in [Tabs -> {"none", "joined", "unusable", "failed"}]
        /\ started' \in [Tabs -> BOOLEAN]
        /\ \A u \in Tabs \ {t} : started'[u] = started[u] /\ outcome'[u] = outcome[u]
    BY <1>0, <2>1 DEF TabsShape
  <2> QED BY <1>0, <2>1, <2>2, <2>3, <2>4, SessionMoves, TabWorks DEF TabsShape
<1>7. ASSUME NEW t \in Tabs, ask(t) PROVE BrowserOK'
  <2>1. PICK call : call = [ask |-> asks[t] + 1, kind |-> "out"]
    OBVIOUS
  <2>2. call \in JoinCalls /\ asks[t] \in Nat
    BY <1>0, <1>7, <2>1 DEF TabsShape, JoinCalls
  <2>3. /\ place[t] = "accept" /\ ~started[t]
        /\ started' = [started EXCEPT ![t] = TRUE] /\ asks' = [asks EXCEPT ![t] = @ + 1]
        /\ UNCHANGED <<place, flow, starts, retries, cookie, sessionAlive, saved, read, outcome>>
    BY <1>7 DEF ask, KeepBrowser, browserVars, countVars
  <2>4. asks' \in [Tabs -> Nat] /\ asks'[t] = asks[t] + 1
    BY <1>0, <2>2, <2>3 DEF TabsShape
  <2>5. joinAnswers' = [joinAnswers EXCEPT ![t] = @ \cup {call}]
    BY <1>7, <2>1, <2>4 DEF ask
  <2>6. joinAnswers[t] = {} /\ outcome[t] = "none"
    BY <1>0, <2>3 DEF TabsFit, AskFits, TabsShape
  <2>7. joinAnswers' \in [Tabs -> SUBSET JoinCalls] /\ joinAnswers'[t] = {call}
    BY <1>0, <2>2, <2>5, <2>6 DEF TabsShape
  <2>8. started' \in [Tabs -> BOOLEAN] /\ started'[t] /\ \A u \in Tabs \ {t} : started'[u] = started[u]
    BY <1>0, <2>3 DEF TabsShape
  <2>9. AskFits(t)'
    BY <2>3, <2>6, <2>7, <2>8 DEF AskFits
  <2>10. \A u \in Tabs \ {t} : joinAnswers'[u] = joinAnswers[u]
    BY <1>0, <2>5 DEF TabsShape
  <2> QED BY <1>0, <2>3, <2>4, <2>7, <2>8, <2>9, <2>10, SessionMoves, TabWorks DEF TabsShape
<1>8. ASSUME NEW t \in Tabs, ServeAsk(t) PROVE BrowserOK'
  <2>1. PICK call \in joinAnswers[t], kind \in {"joined", "gone", "error"} :
          joinAnswers' = [joinAnswers EXCEPT ![t] = (@ \ {call}) \cup {[call EXCEPT !.kind = kind]}]
    BY <1>8 DEF ServeAsk
  <2>2. UNCHANGED <<place, flow, starts, retries, cookie, sessionAlive, saved, read, outcome, asks,
                    started>>
    BY <1>8 DEF ServeAsk, KeepBrowser, browserVars, countVars
  <2>3. PICK done : done = [call EXCEPT !.kind = kind]
    OBVIOUS
  <2>4. done \in JoinCalls
    BY <1>0, <2>1, <2>3 DEF TabsShape, JoinCalls
  <2>5. joinAnswers[t] = {call}
    BY <1>0, <2>1 DEF TabsFit, AskFits
  <2>6. joinAnswers' \in [Tabs -> SUBSET JoinCalls] /\ joinAnswers'[t] = {done}
        /\ \A u \in Tabs \ {t} : joinAnswers'[u] = joinAnswers[u]
    BY <1>0, <2>1, <2>3, <2>4, <2>5 DEF TabsShape
  <2>7. AskFits(t)'
    BY <1>0, <2>1, <2>2, <2>6 DEF TabsFit, AskFits
  <2> QED BY <1>0, <2>2, <2>6, <2>7, SessionMoves, TabWorks DEF TabsShape
<1>9. ASSUME NEW t \in Tabs, Joined(t) \/ Unusable(t) \/ AskFailed(t) PROVE BrowserOK'
  <2>1. PICK call \in joinAnswers[t] :
          \/ loaded(t, "app") /\ saved' = [saved EXCEPT ![t] = FALSE]
          \/ /\ answered(t, call)
             /\ UNCHANGED <<place, read, token, started>>
             /\ \/ outcome' = [outcome EXCEPT ![t] = "failed"] /\ saved' = saved
                \/ /\ saved' = [saved EXCEPT ![t] = FALSE]
                   /\ \E how \in {"joined", "unusable"} : outcome' = [outcome EXCEPT ![t] = how]
    BY <1>9 DEF Joined, Unusable, AskFailed
  <2>2. UNCHANGED <<flow, starts, retries, cookie, sessionAlive, asks>>
    BY <1>9 DEF Joined, Unusable, AskFailed, KeepBrowser, browserVars, countVars
  <2>3. place[t] = "accept" /\ started[t] /\ joinAnswers[t] = {call}
    BY <1>0, <2>1 DEF TabsFit, AskFits
  <2>4. saved' \in [Tabs -> BOOLEAN] /\ \A u \in Tabs \ {t} : saved'[u] = saved[u]
    BY <1>0, <2>1 DEF TabsShape
  <2>5. CASE loaded(t, "app")
    <3>1. starts' \in Nat /\ starts <= starts'
      BY <1>0, <2>2 DEF TabsShape
    <3>2. SessionFits'
      BY <1>0, <2>2, SessionMoves
    <3> QED BY <2>2, <2>3, <2>4, <2>5, <3>1, <3>2, PageLoads
  <2>6. CASE ~loaded(t, "app")
    <3>1. /\ joinAnswers' = [joinAnswers EXCEPT ![t] = @ \ {call}] /\ UNCHANGED <<place, read, started>>
          /\ \/ outcome' = [outcome EXCEPT ![t] = "failed"] /\ saved' = saved
             \/ /\ saved' = [saved EXCEPT ![t] = FALSE]
                /\ \E how \in {"joined", "unusable"} : outcome' = [outcome EXCEPT ![t] = how]
      BY <2>1, <2>6 DEF answered
    <3>2. joinAnswers' \in [Tabs -> SUBSET JoinCalls] /\ joinAnswers'[t] = {}
          /\ \A u \in Tabs \ {t} : joinAnswers'[u] = joinAnswers[u]
      BY <1>0, <2>3, <3>1 DEF TabsShape
    <3>3. outcome' \in [Tabs -> {"none", "joined", "unusable", "failed"}]
          /\ \A u \in Tabs \ {t} : outcome'[u] = outcome[u]
      BY <1>0, <3>1 DEF TabsShape
    <3>4. AskFits(t)'
      BY <1>0, <2>3, <3>1, <3>2 DEF AskFits, TabsShape
    <3> QED BY <1>0, <2>2, <2>4, <3>1, <3>2, <3>3, <3>4, SessionMoves, TabWorks DEF TabsShape
  <2> QED BY <2>5, <2>6
<1> QED
  BY <1>1, <1>2, <1>3, <1>4, <1>5, <1>6, <1>7, <1>8, <1>9 DEF SignInNext

\* Whatever tabs overwrite each other's handshake, sessions end and answers come late, nobody
\* is sent to and fro, and an invitation is settled once, told as it was and then forgotten
\* (routers/auth.py, session-guard.tsx, invitations/accept/page.tsx).
THEOREM InvitationsAreSettled == SignInSpec => []SignInInv
<1>1. SignInInit => BrowserOK
  BY BrowserStarts
<1>2. BrowserOK /\ [SignInNext]_signInVars => BrowserOK'
  BY BrowserMoves
<1>3. BrowserOK => SignInInv
  <2> SUFFICES ASSUME BrowserOK PROVE SignInInv
    OBVIOUS
  <2>0. TabsShape /\ TabsFit /\ VisitsCount
    BY DEF BrowserOK
  <2>1. SignInTypeOK
    BY <2>0 DEF SignInTypeOK, TabsShape, SessionFits, TabsFit, VisitFits
  <2>2. NoRedirectLoop
    BY <2>0, FS_CardinalityType DEF NoRedirectLoop, VisitsCount, TabsShape
  <2>3. JoinedIsNotUnusable /\ SettledIsForgotten
    BY <2>0 DEF JoinedIsNotUnusable, SettledIsForgotten, TabsFit, AskFits
  <2> QED BY <2>1, <2>2, <2>3 DEF SignInInv
<1> QED
  BY <1>1, <1>2, <1>3, PTL DEF SignInSpec

-----------------------------------------------------------------------------
(***************************************************************************)
(* The list of what runs.                                                  *)
(***************************************************************************)
FeedHomes  == FeedSpaces \cup {NoFeedSpace}
Activities == [space : FeedHomes, scan : Nat, rescoring : BOOLEAN]
Requests   == [epoch : Nat \cup {-1}, data : Activities, served : BOOLEAN]
FeedCopies == [epoch : Nat \cup {-1}, data : Activities]

FeedShape ==
  /\ feedServer \in [FeedSpaces -> Activities]
  /\ feedSession \in FeedHomes /\ feedSpace \in FeedHomes
  /\ feedEpoch \in Nat /\ feedEvents \in Nat
  /\ feedRequest \in Requests /\ feedState \in FeedCopies
  /\ DOMAIN followed \subseteq Nat \ {0}

\* What runs in a workspace is of that workspace, and an answer of this epoch is of the one
\* that the tab shows: until the tab hears of a switch no second one is served.
AnswersAreOfHere ==
  /\ \A w \in FeedSpaces : feedServer[w].space = w
  /\ feedRequest.epoch <= feedEpoch /\ feedState.epoch <= feedEpoch
  /\ feedRequest.served => inFlight
  /\ feedSession = feedSpace =>
       /\ feedRequest.served /\ feedRequest.epoch = feedEpoch => feedRequest.data.space = feedSpace
       /\ feedState.epoch = feedEpoch => feedState.data.space = feedSpace \/ feedState.data = NoActivity

FeedOK == FeedShape /\ AnswersAreOfHere /\ KeepsAsking

LEMMA FeedTypes ==
  /\ NoActivity \in Activities /\ NotAsked \in Requests /\ NoAnswer \in FeedCopies
  /\ NotAsked.epoch = -1 /\ ~NotAsked.served /\ NoAnswer.epoch = -1
<1>1. NoActivity \in Activities
  BY DEF NoActivity, Activities, FeedHomes
<1> QED
  BY <1>1 DEF NotAsked, NoAnswer, Requests, FeedCopies

LEMMA FeedStarts ==
  ASSUME FeedInit PROVE FeedOK
<1>1. feedServer \in [FeedSpaces -> Activities] /\ \A w \in FeedSpaces : feedServer[w].space = w
  BY DEF FeedInit, Activities, FeedHomes
<1>2. DOMAIN followed = {}
  BY DEF FeedInit
<1>3. FeedShape
  BY <1>1, <1>2, FeedTypes DEF FeedInit, FeedShape, FeedHomes
<1>4. AnswersAreOfHere /\ KeepsAsking
  BY <1>1, FeedTypes DEF FeedInit, AnswersAreOfHere, KeepsAsking
<1> QED
  BY <1>3, <1>4 DEF FeedOK

\* A poll asks, waits for the answer that is out, or waits for its time.
LEMMA PollGoesOn ==
  ASSUME FeedShape, feedEpoch' \in Nat, poll
  PROVE  /\ feedMounted' => feedTimer' # "none" \/ feedRequest' # NotAsked
         /\ \/ feedRequest' = feedRequest
            \/ feedRequest' = [NotAsked EXCEPT !.epoch = feedEpoch']
         /\ feedRequest' \in Requests
<1>1. [NotAsked EXCEPT !.epoch = feedEpoch'] \in Requests
      /\ [NotAsked EXCEPT !.epoch = feedEpoch'] # NotAsked
  BY FeedTypes DEF Requests
<1>2. CASE ~feedMounted' \/ inFlight
  BY <1>1, <1>2 DEF poll, inFlight, FeedShape
<1>3. CASE feedMounted' /\ ~inFlight /\ (feedHidden' \/ feedSpace' = NoFeedSpace)
  BY <1>1, <1>3 DEF poll, FeedShape
<1>4. CASE ~(~feedMounted' \/ inFlight) /\ ~(feedHidden' \/ feedSpace' = NoFeedSpace)
  BY <1>1, <1>4 DEF poll, FeedShape
<1> QED
  BY <1>2, <1>3, <1>4

\* A step that may poll again, without a switch.
LEMMA StaysHere ==
  ASSUME FeedOK, UNCHANGED <<feedSession, feedSpace, feedEpoch, feedState>>,
         feedServer' \in [FeedSpaces -> Activities], \A w \in FeedSpaces : feedServer'[w].space = w,
         feedEvents' \in Nat, DOMAIN followed' \subseteq Nat \ {0},
         poll \/ UNCHANGED <<feedMounted, feedTimer, feedRequest>>
              \/ (~feedMounted' /\ feedRequest' = feedRequest)
  PROVE  FeedOK'
<1>0. FeedShape /\ AnswersAreOfHere /\ KeepsAsking /\ feedEpoch' \in Nat
  BY DEF FeedOK, FeedShape
<1>1. /\ feedRequest' \in Requests /\ KeepsAsking'
      /\ \/ feedRequest' = feedRequest
         \/ feedRequest' = [NotAsked EXCEPT !.epoch = feedEpoch']
  BY <1>0, PollGoesOn DEF KeepsAsking, inFlight, FeedShape
<1>2. FeedShape'
  BY <1>0, <1>1 DEF FeedShape
<1>3. AnswersAreOfHere'
  <2>1. CASE feedRequest' = feedRequest
    BY <1>0, <2>1 DEF AnswersAreOfHere, inFlight
  <2>2. CASE feedRequest' = [NotAsked EXCEPT !.epoch = feedEpoch']
    <3>1. feedRequest'.epoch = feedEpoch' /\ ~feedRequest'.served
      BY <2>2 DEF NotAsked
    <3> QED BY <1>0, <3>1 DEF AnswersAreOfHere
  <2> QED BY <1>1, <2>1, <2>2
<1> QED
  BY <1>1, <1>2, <1>3 DEF FeedOK

\* A switch or a deletion begins a new epoch, in which nothing has been answered.
LEMMA EpochBegins ==
  ASSUME FeedOK, UNCHANGED <<feedServer, feedMounted, feedState, feedEvents, followed>>,
         feedEpoch' = feedEpoch + 1, feedSession' \in FeedHomes, feedSpace' \in FeedHomes,
         refreshActivity
  PROVE  FeedOK'
<1>0. FeedShape /\ AnswersAreOfHere /\ KeepsAsking /\ feedEpoch' \in Nat
  BY DEF FeedOK, FeedShape
<1>1. /\ feedRequest' \in Requests /\ KeepsAsking'
      /\ \/ feedRequest' = feedRequest
         \/ feedRequest' = [NotAsked EXCEPT !.epoch = feedEpoch']
  BY <1>0, PollGoesOn DEF KeepsAsking, inFlight, FeedShape, refreshActivity
<1>2. FeedShape'
  BY <1>0, <1>1 DEF FeedShape
<1>3. feedState'.epoch <= feedEpoch' /\ feedState'.epoch # feedEpoch'
  BY <1>0 DEF FeedShape, FeedCopies, AnswersAreOfHere
<1>4. AnswersAreOfHere'
  <2>1. CASE feedRequest' = feedRequest
    <3>1. feedRequest'.epoch <= feedEpoch' /\ feedRequest'.epoch # feedEpoch'
      BY <1>0, <2>1 DEF FeedShape, Requests, AnswersAreOfHere
    <3> QED BY <1>0, <1>3, <2>1, <3>1 DEF AnswersAreOfHere, inFlight
  <2>2. CASE feedRequest' = [NotAsked EXCEPT !.epoch = feedEpoch']
    <3>1. feedRequest'.epoch <= feedEpoch' /\ ~feedRequest'.served
      BY <1>0, <2>2 DEF NotAsked
    <3> QED BY <1>0, <1>3, <3>1 DEF AnswersAreOfHere
  <2> QED BY <1>1, <2>1, <2>2
<1> QED
  BY <1>1, <1>2, <1>4 DEF FeedOK

LEMMA FeedMoves ==
  ASSUME FeedOK, [FeedNext]_feedVars
  PROVE  FeedOK'
<1>0. FeedShape /\ AnswersAreOfHere /\ KeepsAsking
  BY DEF FeedOK
<1>1. CASE UNCHANGED feedVars
  BY <1>0, <1>1 DEF feedVars, FeedOK, FeedShape, AnswersAreOfHere, KeepsAsking, inFlight
<1>2. CASE serveActivity
  <2>1. feedSession \in FeedSpaces /\ feedServer[feedSession] \in Activities
        /\ feedServer[feedSession].space = feedSession
    BY <1>0, <1>2 DEF serveActivity, FeedShape, FeedHomes, AnswersAreOfHere
  <2>2. feedRequest' \in Requests /\ feedRequest'.epoch = feedRequest.epoch
        /\ feedRequest'.data.space = feedSession /\ feedRequest'.served
    BY <1>0, <1>2, <2>1 DEF serveActivity, FeedShape, Requests
  <2>3. feedRequest' # NotAsked
    BY <2>2, FeedTypes
  <2>4. UNCHANGED <<feedServer, feedSession, feedSpace, feedEpoch, feedState, feedEvents, followed,
                    feedMounted, feedTimer>>
    BY <1>2 DEF serveActivity, KeepServer
  <2>5. FeedShape'
    BY <1>0, <2>2, <2>4 DEF FeedShape
  <2>6. AnswersAreOfHere' /\ KeepsAsking'
    BY <1>0, <2>2, <2>3, <2>4 DEF AnswersAreOfHere, KeepsAsking, inFlight
  <2> QED BY <2>5, <2>6 DEF FeedOK
<1>3. CASE PollAnswered \/ PollFailed
  <2>1. /\ UNCHANGED <<feedServer, feedSession, feedSpace, feedEpoch, feedEvents, followed, feedMounted>>
        /\ feedRequest' = NotAsked /\ scheduleAgain
    BY <1>3 DEF PollAnswered, PollFailed, KeepServer
  <2>2. \/ feedState' = feedState
        \/ /\ feedRequest.served /\ feedRequest.epoch = feedEpoch
           /\ feedState' = [epoch |-> feedEpoch, data |-> feedRequest.data]
    BY <1>3 DEF PollAnswered, PollFailed, keptAnswer
  <2>3. feedState' \in FeedCopies
    BY <1>0, <2>2 DEF FeedShape, FeedCopies, Requests
  <2>4. FeedShape'
    BY <1>0, <2>1, <2>3, FeedTypes DEF FeedShape
  <2>5. feedRequest'.epoch <= feedEpoch' /\ ~feedRequest'.served
    BY <1>0, <2>1, FeedTypes DEF FeedShape
  <2>6. AnswersAreOfHere'
    BY <1>0, <2>1, <2>2, <2>5 DEF AnswersAreOfHere, FeedShape
  <2>7. KeepsAsking'
    BY <2>1 DEF scheduleAgain, KeepsAsking
  <2> QED BY <2>4, <2>6, <2>7 DEF FeedOK
<1>4. CASE PollDue \/ subscribe \/ visibilityChange \/ unsubscribe
  <2>1. /\ UNCHANGED <<feedSession, feedSpace, feedEpoch, feedState, feedServer, feedEvents, followed>>
        /\ poll \/ UNCHANGED <<feedMounted, feedTimer, feedRequest>>
                \/ (~feedMounted' /\ feedRequest' = feedRequest)
    BY <1>4 DEF PollDue, subscribe, visibilityChange, unsubscribe, KeepServer, refreshActivity
  <2> QED BY <1>0, <2>1, StaysHere DEF FeedShape, AnswersAreOfHere
<1>5. CASE serveSwitch
  <2>1. /\ feedSession' \in FeedSpaces /\ feedSession' # feedSpace
        /\ UNCHANGED <<feedServer, followed, feedEvents, feedSpace, feedEpoch, feedMounted,
                       feedTimer, feedRequest, feedState>>
    BY <1>5 DEF serveSwitch
  <2>2. FeedShape'
    BY <1>0, <2>1 DEF FeedShape, FeedHomes
  <2>3. AnswersAreOfHere' /\ KeepsAsking'
    BY <1>0, <2>1 DEF AnswersAreOfHere, KeepsAsking, inFlight
  <2> QED BY <2>2, <2>3 DEF FeedOK
<1>6. CASE switched \/ leaveDeleted
  <2>1. /\ UNCHANGED <<feedServer, feedMounted, feedState, feedEvents, followed>>
        /\ feedEpoch' = feedEpoch + 1 /\ refreshActivity
        /\ feedSession' \in {feedSession, NoFeedSpace} /\ feedSpace' \in {feedSession, NoFeedSpace}
    BY <1>6 DEF switched, leaveDeleted, KeepServer
  <2>2. feedSession' \in FeedHomes /\ feedSpace' \in FeedHomes
    BY <1>0, <2>1 DEF FeedShape, FeedHomes
  <2> QED BY <2>1, <2>2, EpochBegins
<1>7. ASSUME NEW w \in FeedSpaces, scanStarts(w) \/ scanEnds(w) \/ rescored(w) \/ profileChanges(w)
      PROVE  FeedOK'
  <2>1. PICK now \in Activities : now.space = w /\ feedServer' = [feedServer EXCEPT ![w] = now]
    <3>1. feedServer[w] \in Activities /\ feedServer[w].space = w
      BY <1>0 DEF FeedShape, AnswersAreOfHere
    <3>2. feedEvents + 1 \in Nat
      BY <1>0 DEF FeedShape
    <3>3. \/ \E n \in Nat : feedServer' = [feedServer EXCEPT ![w] = [@ EXCEPT !["scan"] = n]]
          \/ \E b \in BOOLEAN : feedServer' = [feedServer EXCEPT ![w] = [@ EXCEPT !["rescoring"] = b]]
      BY <1>7, <3>2 DEF scanStarts, scanEnds, rescored, profileChanges, AtApi, Event
    <3>4. \A n \in Nat : [feedServer[w] EXCEPT !["scan"] = n] \in Activities
                         /\ [feedServer[w] EXCEPT !["scan"] = n].space = w
      BY <3>1 DEF Activities
    <3>5. \A b \in BOOLEAN : [feedServer[w] EXCEPT !["rescoring"] = b] \in Activities
                             /\ [feedServer[w] EXCEPT !["rescoring"] = b].space = w
      BY <3>1 DEF Activities
    <3> QED BY <1>0, <3>3, <3>4, <3>5 DEF FeedShape
  <2>2. feedServer' \in [FeedSpaces -> Activities] /\ \A v \in FeedSpaces : feedServer'[v].space = v
    BY <1>0, <2>1 DEF FeedShape, AnswersAreOfHere
  <2>3. feedEvents' \in Nat /\ DOMAIN followed' \subseteq Nat \ {0}
    <3>1. feedEvents' \in Nat /\ (feedEvents' = feedEvents + 1 => feedEvents' \in Nat \ {0})
      <4>1. feedEvents' = feedEvents \/ feedEvents' = feedEvents + 1
        BY <1>7 DEF scanStarts, scanEnds, rescored, profileChanges, Event
      <4> QED BY <1>0, <4>1 DEF FeedShape
    <3>2. \/ followed' = followed
          \/ feedEvents' = feedEvents + 1 /\ DOMAIN followed' = DOMAIN followed \cup {feedEvents'}
      BY <1>7 DEF scanStarts, scanEnds, rescored, profileChanges, Event
    <3> QED BY <1>0, <3>1, <3>2 DEF FeedShape
  <2>4. poll \/ UNCHANGED <<feedMounted, feedTimer, feedRequest>>
    BY <1>7 DEF scanStarts, scanEnds, rescored, profileChanges, KeepTab, KeepPoll, refreshActivity
  <2>5. UNCHANGED <<feedSession, feedSpace, feedEpoch, feedState>>
    BY <1>7 DEF scanStarts, scanEnds, rescored, profileChanges, KeepTab
  <2> QED BY <2>2, <2>3, <2>4, <2>5, StaysHere
<1>8. ASSUME NEW i \in FeedScans, hears(i) \/ acknowledgeScan(i) PROVE FeedOK'
  <2>1. /\ UNCHANGED <<feedSession, feedSpace, feedEpoch, feedState, feedServer, feedEvents>>
        /\ poll \/ UNCHANGED <<feedMounted, feedTimer, feedRequest>>
    BY <1>8 DEF hears, acknowledgeScan, KeepTab, KeepPoll, refreshActivity
  <2>2. DOMAIN followed' \subseteq Nat \ {0}
    BY <1>0, <1>8 DEF hears, acknowledgeScan, FeedShape
  <2> QED BY <1>0, <2>1, <2>2, StaysHere DEF FeedShape, AnswersAreOfHere
<1> QED
  BY <1>1, <1>2, <1>3, <1>4, <1>5, <1>6, <1>7, <1>8 DEF FeedNext

\* While the menu is there the tab goes on asking, it lists what runs in its workspace only,
\* and a scan it follows once, whatever switches, remounts, hidden tabs and lost answers do
\* (use-activity.ts, lib/activity.ts).
THEOREM FeedIsRight == FeedSpec => []FeedInv
<1>1. FeedInit => FeedOK
  BY FeedStarts
<1>2. FeedOK /\ [FeedNext]_feedVars => FeedOK'
  BY FeedMoves
<1>3. FeedOK => FeedInv
  <2> SUFFICES ASSUME FeedOK PROVE FeedInv
    OBVIOUS
  <2>0. FeedShape /\ AnswersAreOfHere /\ KeepsAsking
    BY DEF FeedOK
  <2>1. FeedIsOfThisWorkspace
    BY <2>0 DEF FeedIsOfThisWorkspace, useActivity, AnswersAreOfHere
  <2>2. ListedOnce
    <3> SUFFICES ASSUME NEW i \in tracked, followed[i].job # "starting"
                 PROVE  Cardinality({item \in activityItems : item.scan = i}) = 1
      BY DEF ListedOnce
    <3>1. i \in followedScanIds /\ i # 0
      BY <2>0 DEF followedScanIds, tracked, FeedShape
    <3>2. PICK listedJob : listedJob = [kind |-> "job", scan |-> i]
      OBVIOUS
    <3>3. {item \in activityItems : item.scan = i} = {listedJob}
      BY <3>1, <3>2 DEF activityItems
    <3> QED BY <3>3, FS_Singleton
  <2> QED BY <2>0, <2>1, <2>2 DEF FeedInv
<1> QED
  BY <1>1, <1>2, <1>3, PTL DEF FeedSpec

-----------------------------------------------------------------------------
(***************************************************************************)
(* The settings of the workspace.                                          *)
(***************************************************************************)
SpaceTexts  == SpaceNames \cup {""}
TextDialogs == [open : BOOLEAN, text : SpaceTexts]
SaveCalls   == [stage : {"sent", "done", "refused"}, space : Spaces \ {NoSpace},
                patch : SUBSET {"name", "about"}, values : SpaceFields, mine : BOOLEAN]
NewCalls    == [stage : {"sent", "refused"}, name : SpaceNames, mine : BOOLEAN]
MadeCalls   == [stage : {"done"}, space : Spaces, mine : BOOLEAN]
DeleteCalls == [stage : {"sent", "done", "refused"}, space : Spaces, named : SpaceTexts,
                mine : BOOLEAN]
SelectCalls == [stage : {"sent", "done", "refused"}, space : Spaces, from : {"bar", "selection"}]

ApiFits ==
  /\ spaces \in [Spaces -> SpaceFields \cup {Unborn, Deleted}]
  /\ bound \in LiveSpaces \cup {NoSpace}
\* A list that was read calls a workspace of its own active, or none.
ReadFits ==
  /\ listed # NotRead =>
       /\ DOMAIN listed.fields \subseteq Spaces
       /\ \A s \in DOMAIN listed.fields : listed.fields[s] \in SpaceFields
       /\ listed.active \in DOMAIN listed.fields \cup {NoSpace}
  /\ permitted \in BOOLEAN /\ noted \in Spaces \cup {NoSpace}
  /\ reading \subseteq {"list", "session"}
FormFits ==
  draft \in SpaceFields \cup {NoDraft} /\ newSpace \in TextDialogs /\ deletion \in TextDialogs
CallsFit ==
  /\ saveCall \in {Idle} \cup SaveCalls /\ createCall \in {Idle} \cup NewCalls \cup MadeCalls
  /\ deleteCall \in {Idle} \cup DeleteCalls /\ spaceCall \in {Idle} \cup SelectCalls

\* The session was bound anew, and the tab has not been told.
Untold == createCall.stage = "done" \/ deleteCall.stage = "done" \/ spaceCall.stage = "done"

\* What the tab was told or has read is of the session, or will be read again.
SessionIsShown ==
  ~tabSwitched /\ ~Untold =>
    /\ "session" \notin reading => noted = bound
    /\ "list" \notin reading => listed # NotRead /\ listed.active = bound

SpacesOK == ApiFits /\ ReadFits /\ FormFits /\ CallsFit /\ SessionIsShown

\* A workspace that is there has fields; a list, a request are not their absence.
LEMMA FieldsAreThere ==
  /\ \A v \in SpaceFields : v # Unborn /\ v # Deleted /\ v # NoDraft
  /\ \A f, a : [fields |-> f, active |-> a] # NotRead
  /\ \A n \in SpaceNames : [name |-> n, about |-> ""] \in SpaceFields
<1>1. \A v \in SpaceFields : v # Unborn /\ v # Deleted /\ v # NoDraft
  <2> SUFFICES ASSUME NEW v \in SpaceFields PROVE v # Unborn /\ v # Deleted /\ v # NoDraft
    OBVIOUS
  <2>1. DOMAIN v = {"name", "about"}
    BY DEF SpaceFields
  <2>2. DOMAIN Unborn = {"state"} /\ DOMAIN Deleted = {"state"} /\ DOMAIN NoDraft = {"state"}
    BY DEF Unborn, Deleted, NoDraft
  <2> QED BY <2>1, <2>2
<1>2. \A f, a : [fields |-> f, active |-> a] # NotRead
  <2> TAKE f, a
  <2>1. DOMAIN [fields |-> f, active |-> a] = {"fields", "active"} /\ DOMAIN NotRead = {"state"}
    BY DEF NotRead
  <2> QED BY <2>1
<1>3. \A n \in SpaceNames : [name |-> n, about |-> ""] \in SpaceFields
  BY SpaceAssumption DEF SpaceFields
<1> QED
  BY <1>1, <1>2, <1>3

LEMMA CallTypes ==
  /\ Idle.stage = "none" /\ Idle.stage # "done" /\ Closed \in TextDialogs
  /\ \A c \in {Idle} \cup SaveCalls : disowned(c) \in {Idle} \cup SaveCalls
  /\ \A c \in {Idle} \cup NewCalls \cup MadeCalls :
       disowned(c) \in {Idle} \cup NewCalls \cup MadeCalls /\ disowned(c).stage = c.stage
  /\ \A c \in {Idle} \cup DeleteCalls :
       disowned(c) \in {Idle} \cup DeleteCalls /\ disowned(c).stage = c.stage
<1>1. Idle.stage = "none" /\ Closed \in TextDialogs
  BY DEF Idle, Closed, TextDialogs, SpaceTexts
<1>2. \A c \in {Idle} \cup SaveCalls : disowned(c) \in {Idle} \cup SaveCalls
  BY <1>1 DEF disowned, pending, SaveCalls
<1>3. \A c \in {Idle} \cup NewCalls \cup MadeCalls :
        disowned(c) \in {Idle} \cup NewCalls \cup MadeCalls /\ disowned(c).stage = c.stage
  BY <1>1 DEF disowned, pending, NewCalls, MadeCalls
<1>4. \A c \in {Idle} \cup DeleteCalls :
        disowned(c) \in {Idle} \cup DeleteCalls /\ disowned(c).stage = c.stage
  BY <1>1 DEF disowned, pending, DeleteCalls
<1> QED
  BY <1>1, <1>2, <1>3, <1>4

LEMMA SpacesStart ==
  ASSUME WorkspaceInit PROVE SpacesOK
<1>1. \A s \in HomeSpaces : s \in Spaces /\ [name |-> s, about |-> ""] \in SpaceFields
  BY SpaceAssumption, FieldsAreThere
<1>2. ApiFits
  BY <1>1, FieldsAreThere DEF WorkspaceInit, ApiFits, LiveSpaces
<1>3. ReadFits
  BY <1>1 DEF WorkspaceInit, ReadFits
<1>4. FormFits /\ CallsFit
  BY CallTypes DEF WorkspaceInit, FormFits, CallsFit
<1>5. SessionIsShown
  BY DEF WorkspaceInit, SessionIsShown
<1> QED
  BY <1>2, <1>3, <1>4, <1>5 DEF SpacesOK

\* What the settings show is of the list that was read.
LEMMA ShownIsListed ==
  ASSUME ReadFits, FormFits, SettingsShown
  PROVE  activeSpace \in Spaces /\ activeSpace # NoSpace /\ shownValues \in SpaceFields
         /\ fieldsOf(activeSpace) \in SpaceFields
<1>1. listed # NotRead /\ activeSpace # NoSpace
  BY DEF SettingsShown
<1>2. activeSpace \in DOMAIN listed.fields
  BY <1>1 DEF activeSpace, ReadFits
<1>3. fieldsOf(activeSpace) \in SpaceFields /\ activeSpace \in Spaces
  BY <1>1, <1>2 DEF fieldsOf, ReadFits
<1>4. shownValues \in SpaceFields
  BY <1>3 DEF shownValues, FormFits
<1> QED
  BY <1>1, <1>3, <1>4

\* What the API holds is changed by others and by the calls it serves.
LEMMA ApiMoves ==
  ASSUME SpacesOK, [WorkspaceNext]_workspaceVars
  PROVE  ApiFits'
<1> USE DEF workspaceVars, spaceApi, spaceHosts, spaceRead, spaceForm
<1>0. ApiFits /\ ReadFits /\ FormFits /\ CallsFit
  BY DEF SpacesOK
<1>1. CASE \E s \in Spaces : (\E values \in [name : SpaceNames, about : Abouts] : OthersEdit(s, values))
  <2>1. PICK s \in LiveSpaces, values \in SpaceFields :
          spaces' = [spaces EXCEPT ![s] = values] /\ bound' = bound
    BY <1>1 DEF OthersEdit, SpaceFields
  <2>2. LiveSpaces' = LiveSpaces
    BY <1>0, <2>1, FieldsAreThere DEF LiveSpaces, ApiFits
  <2> QED BY <1>0, <2>1, <2>2 DEF ApiFits
<1>2. CASE ServeUpdate
  <2>1. CASE UNCHANGED <<spaces, bound>>
    BY <1>0, <2>1 DEF ApiFits, LiveSpaces
  <2>2. CASE ~UNCHANGED <<spaces, bound>>
    <3>1. /\ saveCall \in SaveCalls /\ saveCall.space = bound /\ bound' = bound
          /\ spaces' = [spaces EXCEPT ![bound] =
               [f \in DOMAIN @ |-> IF f \in saveCall.patch THEN saveCall.values[f] ELSE @[f]]]
      BY <1>0, <1>2, <2>2, CallTypes DEF ServeUpdate, CallsFit
    <3>2. bound \in LiveSpaces /\ saveCall.values \in SpaceFields
      BY <1>0, <3>1 DEF SaveCalls, ApiFits
    <3>3. ApiFits'
      <4>1. spaces[bound] \in SpaceFields
        BY <1>0, <3>2 DEF LiveSpaces, ApiFits
      <4>2. PICK old \in SpaceFields, new \in SpaceFields : old = spaces[bound] /\ new = saveCall.values
        BY <3>2, <4>1
      <4>3. PICK now : now = [f \in DOMAIN old |-> IF f \in saveCall.patch THEN new[f] ELSE old[f]]
        OBVIOUS
      <4>4. now \in SpaceFields
        BY <4>2, <4>3 DEF SpaceFields
      <4>5. spaces' = [spaces EXCEPT ![bound] = now]
        BY <3>1, <4>2, <4>3
      <4>6. LiveSpaces' = LiveSpaces
        BY <1>0, <3>2, <4>4, <4>5, FieldsAreThere DEF LiveSpaces, ApiFits
      <4> QED BY <1>0, <3>1, <3>2, <4>4, <4>5, <4>6 DEF ApiFits
    <3> QED BY <3>3
  <2> QED BY <2>1, <2>2
<1>3. CASE \E s \in Spaces : OtherTabSwitches(s)
  BY <1>0, <1>3 DEF OtherTabSwitches, ApiFits, LiveSpaces
<1>4. CASE ServeSelect
  BY <1>0, <1>4 DEF ServeSelect, ApiFits, LiveSpaces
<1>5. CASE \E s \in Spaces : ServeCreate(s)
  <2>1. PICK s \in Spaces : ServeCreate(s)
    BY <1>5
  <2>2. CASE UNCHANGED <<spaces, bound>>
    BY <1>0, <2>2 DEF ApiFits, LiveSpaces
  <2>3. CASE ~UNCHANGED <<spaces, bound>>
    <3>1. /\ createCall.stage = "sent" /\ bound' = s
          /\ spaces' = [spaces EXCEPT ![s] = [name |-> createCall.name, about |-> ""]]
      BY <2>1, <2>3 DEF ServeCreate
    <3>2. createCall.name \in SpaceNames
      BY <1>0, <3>1, CallTypes DEF CallsFit, NewCalls, MadeCalls
    <3>3. PICK fresh \in SpaceFields : fresh = [name |-> createCall.name, about |-> ""]
      BY <3>2, FieldsAreThere
    <3>4. spaces' = [spaces EXCEPT ![s] = fresh]
      BY <3>1, <3>3
    <3>5. s \in LiveSpaces'
      BY <1>0, <3>4, FieldsAreThere DEF LiveSpaces, ApiFits
    <3> QED BY <1>0, <3>1, <3>4, <3>5 DEF ApiFits
  <2> QED BY <2>2, <2>3
<1>6. CASE ServeDelete
  <2>1. \/ UNCHANGED <<spaces, bound>>
        \/ spaces' = [spaces EXCEPT ![bound] = Deleted] /\ bound' = NoSpace
    BY <1>6 DEF ServeDelete
  <2> QED BY <1>0, <2>1 DEF ApiFits, LiveSpaces
<1>7. CASE \/ UNCHANGED workspaceVars
           \/ ListRead \/ SessionRead \/ TeamWritten \/ LeaveSettings \/ OpenSettings
           \/ \E s \in Spaces : (\E from \in {"bar", "selection"} : SwitchSpace(s, from))
           \/ \E f \in {"name", "about"}, text \in SpaceNames \cup Abouts : EditField(f, text)
           \/ Discard \/ onSave \/ SettingsSaved \/ SettingsRefused
           \/ OpenCreate \/ CloseCreate \/ submitCreate \/ Created \/ CreateRefused
           \/ \E name \in SpaceNames : NameNewSpace(name) \/ TypeConfirmation(name)
           \/ OpenDeletion \/ CloseDeletion \/ confirmDelete \/ WorkspaceGone \/ DeleteRefused
           \/ SpaceSwitched \/ SwitchRefused
  <2>1. UNCHANGED <<spaces, bound>>
    BY <1>7 DEF ListRead, SessionRead, TeamWritten, LeaveSettings, OpenSettings, SwitchSpace,
      EditField, Discard, onSave, SettingsSaved, SettingsRefused, OpenCreate, CloseCreate,
      submitCreate, Created, CreateRefused, NameNewSpace, TypeConfirmation, OpenDeletion,
      CloseDeletion, confirmDelete, WorkspaceGone, DeleteRefused, SpaceSwitched, SwitchRefused,
      LeaveScope, LeavePageRest, LeaveCreate
  <2> QED BY <1>0, <2>1 DEF ApiFits, LiveSpaces
<1> QED
  BY <1>1, <1>2, <1>3, <1>4, <1>5, <1>6, <1>7 DEF WorkspaceNext

\* What the tab knows is read, or follows an answer.
LEMMA ReadMoves ==
  ASSUME SpacesOK, [WorkspaceNext]_workspaceVars
  PROVE  ReadFits'
<1> USE DEF workspaceVars, spaceApi, spaceHosts, spaceRead, spaceForm
<1>0. ApiFits /\ ReadFits /\ FormFits /\ CallsFit
  BY DEF SpacesOK
<1>1. CASE ListRead
  <2>1. \A s \in LiveSpaces : s \in Spaces /\ spaces[s] \in SpaceFields
    BY <1>0 DEF ApiFits, LiveSpaces
  <2>2. listed'.fields = [s \in LiveSpaces |-> spaces[s]] /\ listed'.active = bound
    BY <1>1 DEF ListRead
  <2>3. DOMAIN listed'.fields = LiveSpaces /\ \A s \in LiveSpaces : listed'.fields[s] = spaces[s]
    BY <2>2
  <2> QED BY <1>0, <1>1, <2>1, <2>2, <2>3 DEF ListRead, ReadFits, ApiFits
<1>2. CASE SessionRead
  <2>1. bound \in Spaces \cup {NoSpace}
    BY <1>0 DEF ApiFits, LiveSpaces
  <2> QED BY <1>0, <1>2, <2>1 DEF SessionRead, ReadFits
<1>3. CASE TeamWritten \/ onSave \/ SettingsSaved
  <2>1. UNCHANGED <<listed, permitted, noted>> /\ reading' \in {reading, reading \cup {"list"}}
    BY <1>3 DEF TeamWritten, onSave, SettingsSaved, settingsSaved, LeaveScope
  <2> QED BY <1>0, <2>1 DEF ReadFits
<1>4. CASE Created \/ WorkspaceGone \/ SpaceSwitched
  <2>1. Created => createCall.space \in Spaces
    BY <1>0, CallTypes DEF Created, CallsFit, NewCalls, MadeCalls
  <2>2. SpaceSwitched => spaceCall.space \in Spaces
    BY <1>0, CallTypes DEF SpaceSwitched, CallsFit, SelectCalls
  <2>3. invalidateScope /\ noted' \in Spaces \cup {NoSpace}
    BY <1>4, <2>1, <2>2 DEF Created, WorkspaceGone, SpaceSwitched
  <2> QED BY <2>3 DEF invalidateScope, ReadFits
<1>5. CASE \/ UNCHANGED workspaceVars \/ LeaveSettings \/ OpenSettings
           \/ \E s \in Spaces : \/ \E values \in [name : SpaceNames, about : Abouts] : OthersEdit(s, values)
                                \/ OtherTabSwitches(s)
                                \/ \E from \in {"bar", "selection"} : SwitchSpace(s, from)
                                \/ ServeCreate(s)
           \/ \E f \in {"name", "about"}, text \in SpaceNames \cup Abouts : EditField(f, text)
           \/ Discard \/ ServeUpdate \/ SettingsRefused
           \/ OpenCreate \/ CloseCreate \/ submitCreate \/ CreateRefused
           \/ \E name \in SpaceNames : NameNewSpace(name) \/ TypeConfirmation(name)
           \/ OpenDeletion \/ CloseDeletion \/ confirmDelete \/ ServeDelete \/ DeleteRefused
           \/ ServeSelect \/ SwitchRefused
  <2>1. UNCHANGED <<listed, permitted, noted, reading>>
    BY <1>5 DEF LeaveSettings, OpenSettings, OthersEdit, OtherTabSwitches, SwitchSpace, ServeCreate,
      EditField, Discard, ServeUpdate, SettingsRefused, OpenCreate, CloseCreate, submitCreate,
      CreateRefused, NameNewSpace, TypeConfirmation, OpenDeletion, CloseDeletion, confirmDelete,
      ServeDelete, DeleteRefused, ServeSelect, SwitchRefused, LeaveScope, LeaveTheTab
  <2> QED BY <1>0, <2>1 DEF ReadFits
<1> QED
  BY <1>1, <1>2, <1>3, <1>4, <1>5 DEF WorkspaceNext

\* What is typed.
LEMMA FormMoves ==
  ASSUME SpacesOK, [WorkspaceNext]_workspaceVars
  PROVE  FormFits'
<1> USE DEF workspaceVars, spaceApi, spaceHosts, spaceRead, spaceForm
<1>0. FormFits /\ Closed \in TextDialogs /\ Closed.open = FALSE
  BY CallTypes DEF SpacesOK, Closed
<1>1. CASE \E f \in {"name", "about"}, text \in SpaceNames \cup Abouts : EditField(f, text)
  BY <1>0, <1>1 DEF EditField, LeaveScope, FormFits
<1>2. CASE Discard \/ onSave \/ SettingsSaved
  BY <1>0, <1>2 DEF Discard, onSave, SettingsSaved, settingsSaved, LeaveScope, FormFits
<1>3. CASE SessionRead \/ LeaveSettings \/ OpenSettings \/ WorkspaceGone \/ SpaceSwitched
  BY <1>0, <1>3 DEF SessionRead, LeaveSettings, OpenSettings, WorkspaceGone, SpaceSwitched,
     ForgetSettings, KeepSettings, FormFits
<1>4. CASE OpenCreate \/ CloseCreate \/ Created \/ \E name \in SpaceNames : NameNewSpace(name)
  <2>1. draft' = draft /\ (deletion' = deletion \/ deletion' = Closed)
    BY <1>4 DEF OpenCreate, CloseCreate, Created, NameNewSpace, LeavePageRest
  <2>2. newSpace' \in TextDialogs
    <3>1. CASE Created
      <4>1. PICK open \in BOOLEAN : open <=> newSpace.open /\ ~createCall.mine
        OBVIOUS
      <4>2. newSpace' = [open |-> open, text |-> ""]
        BY <3>1, <4>1 DEF Created
      <4> QED BY <4>2 DEF TextDialogs, SpaceTexts
    <3> QED BY <1>0, <1>4, <3>1
            DEF OpenCreate, CloseCreate, NameNewSpace, FormFits, TextDialogs, SpaceTexts
  <2> QED BY <1>0, <2>1, <2>2 DEF FormFits
<1>5. CASE OpenDeletion \/ CloseDeletion \/ \E name \in SpaceNames : TypeConfirmation(name)
  <2>1. UNCHANGED <<draft, newSpace>>
    BY <1>5 DEF OpenDeletion, CloseDeletion, TypeConfirmation, LeaveCreate
  <2>2. deletion' \in TextDialogs
    BY <1>0, <1>5 DEF OpenDeletion, CloseDeletion, TypeConfirmation, FormFits, TextDialogs, SpaceTexts
  <2> QED BY <1>0, <2>1, <2>2 DEF FormFits
<1>6. CASE \/ UNCHANGED workspaceVars \/ ListRead \/ TeamWritten
           \/ \E s \in Spaces : \/ \E values \in [name : SpaceNames, about : Abouts] : OthersEdit(s, values)
                                \/ OtherTabSwitches(s)
                                \/ \E from \in {"bar", "selection"} : SwitchSpace(s, from)
                                \/ ServeCreate(s)
           \/ ServeUpdate \/ SettingsRefused \/ submitCreate \/ CreateRefused
           \/ confirmDelete \/ ServeDelete \/ DeleteRefused \/ ServeSelect \/ SwitchRefused
  <2>1. UNCHANGED <<draft, newSpace, deletion>>
    BY <1>6 DEF ListRead, TeamWritten, OthersEdit, OtherTabSwitches, SwitchSpace, ServeCreate,
      ServeUpdate, SettingsRefused, submitCreate, CreateRefused, confirmDelete, ServeDelete,
      DeleteRefused, ServeSelect, SwitchRefused, LeaveScope, LeaveTheTab, LeavePageRest, LeaveCreate
  <2> QED BY <1>0, <2>1 DEF FormFits
<1> QED
  BY <1>1, <1>2, <1>3, <1>4, <1>5, <1>6 DEF WorkspaceNext

\* The requests that are out; and that what the tab shows is the session's.
LEMMA CallsMove ==
  ASSUME SpacesOK, [WorkspaceNext]_workspaceVars
  PROVE  CallsFit' /\ SessionIsShown'
<1> USE DEF workspaceVars, spaceApi, spaceHosts, spaceRead, spaceForm
<1>0. ApiFits /\ ReadFits /\ FormFits /\ CallsFit /\ SessionIsShown
  BY DEF SpacesOK
\* Steps that tell the tab nothing and bind nothing.
<1>a. ASSUME UNCHANGED <<bound, tabSwitched, listed, noted>>, reading \subseteq reading',
             createCall'.stage = createCall.stage \/ (createCall.stage # "done" /\ createCall'.stage # "done"),
             deleteCall'.stage = deleteCall.stage \/ (deleteCall.stage # "done" /\ deleteCall'.stage # "done"),
             spaceCall'.stage = spaceCall.stage \/ (spaceCall.stage # "done" /\ spaceCall'.stage # "done")
      PROVE  SessionIsShown'
  BY <1>0, <1>a DEF SessionIsShown, Untold
<1>b. Untold' => SessionIsShown'
  BY DEF SessionIsShown
<1>c. reading' = {"list", "session"} => SessionIsShown'
  BY DEF SessionIsShown
<1>d. /\ disowned(saveCall) \in {Idle} \cup SaveCalls
      /\ disowned(createCall) \in {Idle} \cup NewCalls \cup MadeCalls
      /\ disowned(createCall).stage = createCall.stage
      /\ disowned(deleteCall) \in {Idle} \cup DeleteCalls
      /\ disowned(deleteCall).stage = deleteCall.stage /\ Idle.stage # "done"
  BY <1>0, CallTypes DEF CallsFit
<1>1. CASE ListRead
  <2>1. UNCHANGED <<saveCall, createCall, deleteCall, spaceCall, tabSwitched, bound, noted>>
        /\ listed' = [fields |-> [s \in LiveSpaces |-> spaces[s]], active |-> bound]
        /\ reading' = reading \ {"list"}
    BY <1>1 DEF ListRead
  <2>2. listed' # NotRead /\ listed'.active = bound'
    BY <2>1, FieldsAreThere
  <2> QED BY <1>0, <2>1, <2>2 DEF CallsFit, SessionIsShown, Untold
<1>2. CASE SessionRead
  <2>1. /\ UNCHANGED <<spaceCall, tabSwitched, bound, listed>> /\ noted' = bound
        /\ reading' = reading \ {"session"}
        /\ saveCall' \in {saveCall, disowned(saveCall)}
        /\ createCall' \in {createCall, disowned(createCall)}
        /\ deleteCall' \in {deleteCall, disowned(deleteCall)}
    BY <1>2 DEF SessionRead, ForgetSettings, KeepSettings
  <2>2. CallsFit' /\ createCall'.stage = createCall.stage /\ deleteCall'.stage = deleteCall.stage
    BY <1>0, <1>d, <2>1 DEF CallsFit
  <2> QED BY <1>0, <2>1, <2>2 DEF SessionIsShown, Untold
<1>3. CASE LeaveSettings
  <2>1. /\ UNCHANGED <<spaceCall, tabSwitched, bound, listed, noted, reading>>
        /\ saveCall' = disowned(saveCall) /\ createCall' = disowned(createCall)
        /\ deleteCall' = disowned(deleteCall)
    BY <1>3 DEF LeaveSettings, ForgetSettings
  <2>2. CallsFit' /\ createCall'.stage = createCall.stage /\ deleteCall'.stage = deleteCall.stage
    BY <1>0, <1>d, <2>1 DEF CallsFit
  <2> QED BY <1>a, <2>1, <2>2
<1>4. CASE onSave
  <2>1. /\ UNCHANGED <<createCall, deleteCall, spaceCall, tabSwitched, bound, listed, noted>>
        /\ reading \subseteq reading'
    BY <1>4 DEF onSave, LeaveScope, settingsSaved
  <2>2. saveCall' = saveCall
        \/ saveCall' = [stage |-> "sent", space |-> activeSpace,
                        patch |-> patchFor(activeSpace, shownValues),
                        values |-> shownValues, mine |-> TRUE]
    BY <1>4 DEF onSave
  <2>3. activeSpace \in Spaces \ {NoSpace} /\ shownValues \in SpaceFields
    BY <1>0, <1>4, ShownIsListed DEF onSave, InSettings
  <2>4. patchFor(activeSpace, shownValues) \in SUBSET {"name", "about"}
    BY <2>3 DEF patchFor, SpaceFields
  <2>5. saveCall' \in {Idle} \cup SaveCalls
    <3>1. \A s \in Spaces \ {NoSpace}, patch \in SUBSET {"name", "about"}, values \in SpaceFields :
            [stage |-> "sent", space |-> s, patch |-> patch, values |-> values, mine |-> TRUE]
              \in SaveCalls
      BY DEF SaveCalls
    <3>2. CASE saveCall' = saveCall
      BY <1>0, <3>2 DEF CallsFit
    <3> QED BY <2>2, <2>3, <2>4, <3>1, <3>2
  <2> QED BY <1>0, <1>a, <2>1, <2>5 DEF CallsFit
<1>5. CASE ServeUpdate
  <2>1. /\ UNCHANGED <<createCall, deleteCall, spaceCall, tabSwitched, bound, listed, noted, reading>>
        /\ saveCall.stage = "sent"
        /\ \/ saveCall' = [saveCall EXCEPT !.stage = "done"]
           \/ saveCall' = [saveCall EXCEPT !.stage = "refused"]
    BY <1>5 DEF ServeUpdate
  <2>2. saveCall' \in SaveCalls
    BY <1>0, <2>1, CallTypes DEF CallsFit, SaveCalls
  <2> QED BY <1>0, <1>a, <2>1, <2>2 DEF CallsFit
<1>6. CASE SettingsSaved \/ SettingsRefused
  <2>1. /\ UNCHANGED <<createCall, deleteCall, spaceCall, tabSwitched, bound, listed, noted>>
        /\ reading \subseteq reading' /\ saveCall' = Idle
    BY <1>6 DEF SettingsSaved, SettingsRefused, LeaveScope, settingsSaved
  <2> QED BY <1>0, <1>a, <2>1 DEF CallsFit
<1>7. CASE submitCreate
  <2>1. /\ UNCHANGED <<saveCall, deleteCall, spaceCall, tabSwitched, bound, listed, noted, reading>>
        /\ createCall.stage = "none" /\ newSpace.text # ""
        /\ createCall' = [stage |-> "sent", name |-> newSpace.text, mine |-> TRUE]
    BY <1>7 DEF submitCreate, LeavePageRest, send, pending
  <2>2. newSpace.text \in SpaceNames
    BY <1>0, <2>1 DEF FormFits, TextDialogs, SpaceTexts
  <2>3. createCall' \in NewCalls /\ createCall'.stage = "sent"
    BY <2>1, <2>2 DEF NewCalls
  <2> QED BY <1>0, <1>a, <2>1, <2>3 DEF CallsFit
<1>8. ASSUME NEW s \in Spaces, ServeCreate(s) PROVE CallsFit' /\ SessionIsShown'
  <2>1. UNCHANGED <<saveCall, deleteCall, spaceCall, tabSwitched, listed, noted, reading>>
        /\ createCall.stage = "sent"
    BY <1>8 DEF ServeCreate, LeavePageRest
  <2>2. createCall \in NewCalls
    BY <1>0, <2>1, CallTypes DEF CallsFit, MadeCalls
  <2>3. \/ createCall' = [stage |-> "done", space |-> s, mine |-> createCall.mine]
        \/ createCall' = [createCall EXCEPT !.stage = "refused"] /\ bound' = bound
    BY <1>8 DEF ServeCreate
  <2>4. \/ createCall' \in MadeCalls /\ createCall'.stage = "done"
        \/ createCall' \in NewCalls /\ createCall'.stage = "refused" /\ bound' = bound
    BY <2>2, <2>3 DEF NewCalls, MadeCalls
  <2>5. CallsFit'
    BY <1>0, <2>1, <2>4 DEF CallsFit
  <2>6. SessionIsShown'
    BY <1>0, <2>1, <2>4 DEF SessionIsShown, Untold
  <2> QED BY <2>5, <2>6
<1>9. CASE Created
  <2>1. UNCHANGED <<saveCall, deleteCall, spaceCall>> /\ createCall' = Idle
        /\ reading' = {"list", "session"}
    BY <1>9 DEF Created, LeavePageRest, invalidateScope
  <2> QED BY <1>0, <1>c, <2>1 DEF CallsFit
<1>10. CASE CreateRefused
  <2>1. UNCHANGED <<saveCall, deleteCall, spaceCall, tabSwitched, bound, listed, noted, reading>>
        /\ createCall.stage # "done" /\ createCall' = Idle
    BY <1>10 DEF CreateRefused, LeavePageRest
  <2> QED BY <1>0, <1>a, <1>d, <2>1 DEF CallsFit
<1>11. CASE confirmDelete
  <2>1. /\ UNCHANGED <<saveCall, createCall, spaceCall, tabSwitched, bound, listed, noted, reading>>
        /\ deleteCall.stage = "none"
        /\ deleteCall' = [stage |-> "sent", space |-> activeSpace, named |-> deletion.text, mine |-> TRUE]
    BY <1>11 DEF confirmDelete, LeaveCreate, send, pending
  <2>2. activeSpace \in Spaces /\ deletion.text \in SpaceTexts
    BY <1>0, <1>11, ShownIsListed DEF confirmDelete, FormFits, TextDialogs
  <2>3. deleteCall' \in DeleteCalls /\ deleteCall'.stage = "sent"
    BY <2>1, <2>2 DEF DeleteCalls
  <2> QED BY <1>0, <1>a, <2>1, <2>3 DEF CallsFit
<1>12. CASE ServeDelete
  <2>1. /\ UNCHANGED <<saveCall, createCall, spaceCall, tabSwitched, listed, noted, reading>>
        /\ deleteCall.stage = "sent"
        /\ \/ deleteCall' = [deleteCall EXCEPT !.stage = "done"]
           \/ deleteCall' = [deleteCall EXCEPT !.stage = "refused"] /\ bound' = bound
    BY <1>12 DEF ServeDelete, LeaveCreate
  <2>2. deleteCall' \in DeleteCalls
        /\ \/ deleteCall'.stage = "done"
           \/ deleteCall'.stage = "refused" /\ bound' = bound
    BY <1>0, <2>1, CallTypes DEF CallsFit, DeleteCalls
  <2>3. CallsFit'
    BY <1>0, <2>1, <2>2 DEF CallsFit
  <2>4. SessionIsShown'
    BY <1>0, <2>1, <2>2 DEF SessionIsShown, Untold
  <2> QED BY <2>3, <2>4
<1>13. CASE WorkspaceGone
  <2>1. /\ spaceCall' = spaceCall /\ deleteCall' = Idle /\ reading' = {"list", "session"}
        /\ saveCall' = disowned(saveCall) /\ createCall' = disowned(createCall)
    BY <1>13 DEF WorkspaceGone, invalidateScope, ForgetSettings
  <2> QED BY <1>0, <1>c, <1>d, <2>1 DEF CallsFit
<1>14. CASE DeleteRefused
  <2>1. UNCHANGED <<saveCall, createCall, spaceCall, tabSwitched, bound, listed, noted, reading>>
        /\ deleteCall.stage # "done" /\ deleteCall' = Idle
    BY <1>14 DEF DeleteRefused, LeaveCreate
  <2> QED BY <1>0, <1>a, <1>d, <2>1 DEF CallsFit
<1>15. ASSUME NEW s \in Spaces, NEW from \in {"bar", "selection"}, SwitchSpace(s, from)
       PROVE  CallsFit' /\ SessionIsShown'
  <2>1. /\ UNCHANGED <<saveCall, createCall, deleteCall, tabSwitched, bound, listed, noted, reading>>
        /\ spaceCall.stage = "none"
        /\ spaceCall' = [stage |-> "sent", space |-> s, from |-> from]
    BY <1>15 DEF SwitchSpace, send, pending
  <2>2. spaceCall' \in SelectCalls /\ spaceCall'.stage = "sent"
    BY <2>1 DEF SelectCalls
  <2> QED BY <1>0, <1>a, <2>1, <2>2 DEF CallsFit
<1>16. CASE ServeSelect
  <2>1. /\ UNCHANGED <<saveCall, createCall, deleteCall, tabSwitched, listed, noted, reading>>
        /\ spaceCall.stage = "sent"
        /\ \/ spaceCall' = [spaceCall EXCEPT !.stage = "done"]
           \/ spaceCall' = [spaceCall EXCEPT !.stage = "refused"] /\ bound' = bound
    BY <1>16 DEF ServeSelect
  <2>2. spaceCall' \in SelectCalls
        /\ \/ spaceCall'.stage = "done"
           \/ spaceCall'.stage = "refused" /\ bound' = bound
    BY <1>0, <2>1, CallTypes DEF CallsFit, SelectCalls
  <2>3. CallsFit'
    BY <1>0, <2>1, <2>2 DEF CallsFit
  <2>4. SessionIsShown'
    BY <1>0, <2>1, <2>2 DEF SessionIsShown, Untold
  <2> QED BY <2>3, <2>4
<1>17. CASE SpaceSwitched
  <2>1. /\ spaceCall' = Idle /\ reading' = {"list", "session"}
        /\ saveCall' \in {saveCall, disowned(saveCall)}
        /\ createCall' \in {createCall, disowned(createCall)}
        /\ deleteCall' \in {deleteCall, disowned(deleteCall)}
    BY <1>17 DEF SpaceSwitched, invalidateScope, ForgetSettings
  <2> QED BY <1>0, <1>c, <1>d, <2>1 DEF CallsFit
<1>18. CASE SwitchRefused
  <2>1. UNCHANGED <<saveCall, createCall, deleteCall, tabSwitched, bound, listed, noted, reading>>
        /\ spaceCall.stage # "done" /\ spaceCall' = Idle
    BY <1>18 DEF SwitchRefused
  <2> QED BY <1>0, <1>a, <1>d, <2>1 DEF CallsFit
<1>19. CASE \E s \in Spaces : OtherTabSwitches(s)
  <2>1. UNCHANGED <<saveCall, createCall, deleteCall, spaceCall>> /\ tabSwitched'
    BY <1>19 DEF OtherTabSwitches, LeaveTheTab
  <2> QED BY <1>0, <2>1 DEF CallsFit, SessionIsShown
<1>20. CASE \/ UNCHANGED workspaceVars \/ TeamWritten \/ OpenSettings
            \/ \E s \in Spaces : (\E values \in [name : SpaceNames, about : Abouts] : OthersEdit(s, values))
            \/ \E f \in {"name", "about"}, text \in SpaceNames \cup Abouts : EditField(f, text)
            \/ Discard \/ OpenCreate \/ CloseCreate
            \/ \E name \in SpaceNames : NameNewSpace(name) \/ TypeConfirmation(name)
            \/ OpenDeletion \/ CloseDeletion
  <2>1. UNCHANGED <<saveCall, createCall, deleteCall, spaceCall, tabSwitched, bound, listed, noted>>
        /\ reading \subseteq reading'
    BY <1>20 DEF TeamWritten, OpenSettings, OthersEdit, EditField, Discard, OpenCreate, CloseCreate,
      NameNewSpace, TypeConfirmation, OpenDeletion, CloseDeletion, KeepSettings, LeaveScope,
      LeaveTheTab, LeavePageRest, LeaveCreate
  <2> QED BY <1>0, <1>a, <2>1 DEF CallsFit
<1> QED
  BY <1>1, <1>2, <1>3, <1>4, <1>5, <1>6, <1>7, <1>8, <1>9, <1>10, <1>11, <1>12, <1>13, <1>14,
     <1>15, <1>16, <1>17, <1>18, <1>19, <1>20 DEF WorkspaceNext

\* A session is never bound to a workspace that is gone; and once every request is answered and
\* every read is back, the tab shows the workspace the session is bound to, in whatever order
\* creations, deletions and switches were answered (workspace/page.tsx, use-workspace-scope.ts).
THEOREM SessionIsOnThePage == WorkspaceSpec => []WorkspaceInv
<1>1. WorkspaceInit => SpacesOK
  BY SpacesStart
<1>2. SpacesOK /\ [WorkspaceNext]_workspaceVars => SpacesOK'
  BY ApiMoves, ReadMoves, FormMoves, CallsMove DEF SpacesOK
<1>3. SpacesOK => WorkspaceInv
  <2> SUFFICES ASSUME SpacesOK PROVE WorkspaceInv
    OBVIOUS
  <2>0. ApiFits /\ ReadFits /\ FormFits /\ SessionIsShown
    BY DEF SpacesOK
  <2>1. WorkspaceTypeOK
    BY <2>0 DEF WorkspaceTypeOK, ApiFits, ReadFits, FormFits
  <2>2. SettledPageShowsSession
    <3> SUFFICES ASSUME reading = {}, ~tabSwitched,
                        \A call \in {createCall, deleteCall, spaceCall} : ~pending(call)
                 PROVE  noted = bound /\ activeSpace = bound
      BY DEF SettledPageShowsSession
    <3>1. ~Untold
      BY DEF Untold, pending
    <3>2. noted = bound /\ listed # NotRead /\ listed.active = bound
      BY <2>0, <3>1 DEF SessionIsShown
    <3> QED BY <3>2 DEF activeSpace
  <2> QED BY <2>1, <2>2 DEF WorkspaceInv
<1> QED
  BY <1>1, <1>2, <1>3, PTL DEF WorkspaceSpec

(***************************************************************************)
(* The members of a workspace and its invitations.                         *)
(***************************************************************************)
LEMMA InitHasType == MembershipInit => MembershipTypeOK
BY MembershipAssumption
DEF MembershipInit, MembershipTypeOK, MemberRoles, InviteRoles, Stranger, Unsent

LEMMA StepKeepsType ==
  MembershipTypeOK /\ [MembershipNext]_membershipVars => MembershipTypeOK'
<1> SUFFICES ASSUME MembershipTypeOK, [MembershipNext]_membershipVars
             PROVE  MembershipTypeOK'
  OBVIOUS
<1> USE DEF MembershipTypeOK
<1>1. ASSUME NEW i \in Invites, InvitationExpires(i)
      PROVE  MembershipTypeOK'
  BY <1>1 DEF InvitationExpires
<1>2. ASSUME NEW u \in Users, NEW i \in Invites, accept(u, i)
      PROVE  MembershipTypeOK'
  <2>1. invites[i].role \in MemberRoles
    BY DEF MemberRoles, InviteRoles
  <2> QED BY <1>2, <2>1 DEF accept
<1>3. ASSUME NEW actor \in Users, NEW u \in Users, NEW i \in Invites,
             NEW role \in InviteRoles, createInvitation(actor, i, u, role)
      PROVE  MembershipTypeOK'
  BY <1>3 DEF createInvitation
<1>4. ASSUME NEW actor \in Users, NEW u \in Users, NEW role \in MemberRoles,
             changeRole(actor, u, role)
      PROVE  MembershipTypeOK'
  BY <1>4 DEF changeRole
<1>5. ASSUME NEW actor \in Users, NEW u \in Users, deactivate(actor, u)
      PROVE  MembershipTypeOK'
  BY <1>5 DEF deactivate
<1>6. ASSUME NEW actor \in Users, NEW i \in Invites, revokeInvitation(actor, i)
      PROVE  MembershipTypeOK'
  BY <1>6 DEF revokeInvitation
<1>7. ASSUME NEW u \in Users, DeletionChecked(u)
      PROVE  MembershipTypeOK'
  BY <1>7 DEF DeletionChecked
<1>8. ASSUME NEW u \in Users, AccountDeleted(u)
      PROVE  MembershipTypeOK'
  BY <1>8 DEF AccountDeleted, Stranger, MemberRoles
<1>9. CASE UNCHANGED membershipVars
  BY <1>9 DEF membershipVars
<1> QED
  BY <1>1, <1>2, <1>3, <1>4, <1>5, <1>6, <1>7, <1>8, <1>9 DEF MembershipNext

\* Every variable of the workspace's members has its type, for any accounts and invitations.
THEOREM MembershipHasType == MembershipSpec => []MembershipTypeOK
BY InitHasType, StepKeepsType, PTL DEF MembershipSpec


\* Taking an account out of the administrators leaves another when the count said there was
\* not exactly one.
LEMMA ProtectionLeavesAnother ==
  ASSUME NEW u \in Users, protectLastAdmin(u), activeAdmins # {}
  PROVE  activeAdmins \ {u} # {}
<1> SUFFICES ASSUME activeAdmins \subseteq {u}
             PROVE  FALSE
  OBVIOUS
<1>1. activeAdmins = {u}
  OBVIOUS
<1>2. Cardinality(activeAdmins) = 1
  BY <1>1, FS_Singleton
<1> QED BY <1>1, <1>2 DEF protectLastAdmin

LEMMA StepProtectsAdmins ==
  MembershipTypeOK /\ MembershipNext => AdminsProtected
<1> SUFFICES ASSUME MembershipTypeOK, MembershipNext, activeAdmins # {}, activeAdmins' = {}
             PROVE  \E u \in Users : leaving[u] # "gone" /\ leaving'[u] = "gone"
  BY DEF AdminsProtected
<1> USE DEF MembershipTypeOK
\* Steps that only write invitations or begin a deletion leave every administrator.
<1>1. members' # members
  BY DEF activeAdmins, isActive
<1>2. ASSUME NEW u \in Users, NEW i \in Invites, accept(u, i)
      PROVE  FALSE
  \* The account was no active member: no administrator is lost.
  <2>1. activeAdmins \subseteq activeAdmins'
    BY <1>2 DEF accept, activeAdmins, isActive
  <2> QED BY <2>1
<1>3. ASSUME NEW actor \in Users, NEW u \in Users, NEW role \in MemberRoles,
             changeRole(actor, u, role)
      PROVE  FALSE
  <2>1. activeAdmins \ {u} \subseteq activeAdmins'
    BY <1>3 DEF changeRole, activeAdmins, isActive
  <2>2. CASE members[u].role = "org-admin" /\ role # "org-admin"
    BY <1>3, <2>1, <2>2, ProtectionLeavesAnother DEF changeRole
  <2>3. CASE ~(members[u].role = "org-admin" /\ role # "org-admin")
    BY <1>3, <2>3 DEF changeRole, activeAdmins, isActive
  <2> QED BY <2>2, <2>3
<1>4. ASSUME NEW actor \in Users, NEW u \in Users, deactivate(actor, u)
      PROVE  FALSE
  <2>1. activeAdmins \ {u} \subseteq activeAdmins'
    BY <1>4 DEF deactivate, activeAdmins, isActive
  <2> QED BY <1>4, <2>1, ProtectionLeavesAnother DEF deactivate
<1>5. ASSUME NEW u \in Users, AccountDeleted(u)
      PROVE  leaving[u] # "gone" /\ leaving'[u] = "gone"
  BY <1>5 DEF AccountDeleted
<1> QED
  BY <1>1, <1>2, <1>3, <1>4, <1>5
  DEF MembershipNext, InvitationExpires, createInvitation, revokeInvitation, DeletionChecked

LEMMA StepAdmitsByInvitation ==
  MembershipTypeOK /\ MembershipNext => InvitationAdmitsOnce
<1> SUFFICES ASSUME MembershipTypeOK, MembershipNext,
                    NEW v \in Users, ~isActive(v), isActive(v)'
             PROVE  \E i \in Invites : /\ invites[i].state = "pending"
                                       /\ invites'[i].state = "accepted"
                                       /\ invites[i].to = v
  BY DEF InvitationAdmitsOnce
<1> USE DEF MembershipTypeOK, isActive
<1>1. members' # members
  OBVIOUS
\* Nobody but the one who accepts becomes active.
<1>2. ASSUME NEW u \in Users, NEW i \in Invites, accept(u, i)
      PROVE  /\ invites[i].state = "pending"
             /\ invites'[i].state = "accepted"
             /\ invites[i].to = v
  BY <1>2 DEF accept
<1>3. ASSUME NEW actor \in Users, NEW u \in Users, NEW role \in MemberRoles,
             changeRole(actor, u, role)
      PROVE  FALSE
  BY <1>3 DEF changeRole
<1>4. ASSUME NEW actor \in Users, NEW u \in Users, deactivate(actor, u)
      PROVE  FALSE
  BY <1>4 DEF deactivate
<1>5. ASSUME NEW u \in Users, AccountDeleted(u)
      PROVE  FALSE
  BY <1>5 DEF AccountDeleted, Stranger
<1> QED
  BY <1>1, <1>2, <1>3, <1>4, <1>5
  DEF MembershipNext, InvitationExpires, createInvitation, revokeInvitation, DeletionChecked

\* Nobody joins without an invitation of their own that is spent, and only the deletion of an
\* account takes the last administrator, in any order of steps.
THEOREM MembershipIsRight == MembershipSpec => MembershipChangesRightly
<1>1. MembershipTypeOK /\ [MembershipNext]_membershipVars
        => [AdminsProtected /\ InvitationAdmitsOnce]_membershipVars
  BY StepProtectsAdmins, StepAdmitsByInvitation
<1> QED
  BY <1>1, MembershipHasType, PTL DEF MembershipSpec, MembershipChangesRightly

(***************************************************************************)
(* The panel of the members.                                               *)
(***************************************************************************)
Stages    == {"sent", "done", "refused"}
RoleCalls == [kind : {"role"}, row : Users, role : MemberRoles, stage : Stages]
RemoveCalls == [kind : {"remove"}, row : Users, stage : Stages]
RevokeCalls == [kind : {"revoke"}, row : Invites, stage : Stages]
RowCalls  == {NoRowCall} \cup RoleCalls \cup RemoveCalls \cup RevokeCalls
Invitations == [kind : {"invite"}, to : Users, role : InviteRoles, stage : Stages]

PanelShape ==
  /\ rowCalls \in [Slots -> RowCalls]
  /\ inviteCall \in {NoRowCall} \cup Invitations
  /\ confirming \in {NoRow} \cup Users /\ inviteForm \in {NoRow} \cup Users
  /\ team.invites \subseteq Invites

\* The list that was read is the one there is, unless it will be read again, others acted, or a
\* request of the panel was done and its answer is not there yet.
AnswersAreOut == \/ \E s \in Slots : rowCalls[s] # NoRowCall /\ rowCalls[s].stage = "done"
                 \/ inviteCall # NoRowCall /\ inviteCall.stage = "done"
ListFits == team = listMembers \/ teamReading \/ teamStale \/ AnswersAreOut
PanelOK  == PanelShape /\ ListFits

\* A request that is out is of one kind, and what it asks for is known.
LEMMA RowCallKinds ==
  ASSUME NEW call \in RowCalls
  PROVE  /\ call # NoRowCall => call.kind \in {"role", "remove", "revoke"} /\ call.stage \in Stages
         /\ NoRowCall.kind = "none"
         /\ call.kind = "role" => call \in RoleCalls
         /\ call.kind = "remove" => call \in RemoveCalls
         /\ call.kind = "revoke" => call \in RevokeCalls
         /\ call # NoRowCall =>
              \A stage \in Stages : /\ [call EXCEPT !.stage = stage] \in RowCalls
                                    /\ [call EXCEPT !.stage = stage] # NoRowCall
                                    /\ [call EXCEPT !.stage = stage].stage = stage
<1>1. NoRowCall.kind = "none" /\ NoRowCall = [kind |-> "none"]
  BY DEF NoRowCall
<1>2. CASE call \in RoleCalls
  BY <1>1, <1>2 DEF RowCalls, RoleCalls, RemoveCalls, RevokeCalls
<1>3. CASE call \in RemoveCalls
  BY <1>1, <1>3 DEF RowCalls, RoleCalls, RemoveCalls, RevokeCalls
<1>4. CASE call \in RevokeCalls
  BY <1>1, <1>4 DEF RowCalls, RoleCalls, RemoveCalls, RevokeCalls
<1>5. CASE call = NoRowCall
  BY <1>1, <1>5
<1>6. QED  BY <1>2, <1>3, <1>4, <1>5 DEF RowCalls

\* What the panel asks for is served as the API serves everyone, and a request that was
\* served keeps its slot.
LEMMA RowIsServed ==
  ASSUME PanelShape, NEW s \in Slots, ServeRow(s)
  PROVE  /\ [MembershipNext]_membershipVars
         /\ rowCalls' \in [Slots -> RowCalls] /\ rowCalls'[s] # NoRowCall
         /\ UNCHANGED membershipVars \/ rowCalls'[s].stage = "done"
         /\ \A t \in Slots \ {s} : rowCalls'[t] = rowCalls[t]
         /\ rowCalls[s].stage = "sent"
<1> DEFINE call == rowCalls[s]
<1>1. call \in RowCalls /\ call # NoRowCall /\ call.stage = "sent" /\ me \in Users
  BY MembershipAssumption DEF ServeRow, PanelShape, MembershipAssumption, me
<1>2. PICK stage \in Stages :
        /\ rowCalls' = [rowCalls EXCEPT ![s] = [call EXCEPT !.stage = stage]]
        /\ \/ /\ stage = "done"
              /\ CASE call.kind = "role"   -> changeRole(me, call.row, call.role)
                   [] call.kind = "remove" -> deactivate(me, call.row)
                   [] call.kind = "revoke" -> revokeInvitation(me, call.row)
           \/ UNCHANGED membershipVars
  BY DEF ServeRow, Stages
<1> HIDE DEF call
<1>3. /\ rowCalls' \in [Slots -> RowCalls] /\ rowCalls'[s] # NoRowCall /\ rowCalls'[s].stage = stage
      /\ \A t \in Slots \ {s} : rowCalls'[t] = rowCalls[t]
  <2>1. /\ [call EXCEPT !.stage = stage] \in RowCalls /\ [call EXCEPT !.stage = stage] # NoRowCall
        /\ [call EXCEPT !.stage = stage].stage = stage
    BY <1>1, RowCallKinds
  <2>2. QED  BY <1>2, <2>1 DEF PanelShape
<1>4. CASE UNCHANGED membershipVars
  BY <1>1, <1>3, <1>4 DEF call
<1>5. CASE /\ stage = "done"
           /\ CASE call.kind = "role"   -> changeRole(me, call.row, call.role)
                [] call.kind = "remove" -> deactivate(me, call.row)
                [] call.kind = "revoke" -> revokeInvitation(me, call.row)
  <2>1. CASE call.kind = "role"
    <3>1. call.row \in Users /\ call.role \in MemberRoles
      BY <1>1, <2>1, RowCallKinds DEF RoleCalls
    <3>2. changeRole(me, call.row, call.role)
      BY <1>5, <2>1
    <3>3. MembershipNext
      BY <1>1, <3>1, <3>2 DEF MembershipNext
    <3>4. QED  BY <1>1, <1>3, <1>5, <3>3 DEF call
  <2>2. CASE call.kind = "remove"
    <3>1. call.row \in Users /\ deactivate(me, call.row)
      BY <1>1, <1>5, <2>2, RowCallKinds DEF RemoveCalls
    <3>2. MembershipNext
      BY <1>1, <3>1 DEF MembershipNext
    <3>3. QED  BY <1>1, <1>3, <1>5, <3>2 DEF call
  <2>3. CASE call.kind = "revoke"
    <3>1. call.row \in Invites /\ revokeInvitation(me, call.row)
      BY <1>1, <1>5, <2>3, RowCallKinds DEF RevokeCalls
    <3>2. MembershipNext
      BY <1>1, <3>1 DEF MembershipNext
    <3>3. QED  BY <1>1, <1>3, <1>5, <3>2 DEF call
  <2>4. QED  BY <1>1, <2>1, <2>2, <2>3, RowCallKinds
<1>6. QED  BY <1>2, <1>4, <1>5

LEMMA PanelStarts == TeamInit => PanelOK
<1> SUFFICES ASSUME TeamInit PROVE PanelOK
  OBVIOUS
<1>1. PanelShape
  BY DEF TeamInit, PanelShape, RowCalls, listMembers, pendingInvitations
<1>2. ListFits
  BY DEF TeamInit, ListFits
<1>3. QED  BY <1>1, <1>2 DEF PanelOK

LEMMA ListStays ==
  ASSUME ListFits, UNCHANGED <<membershipVars, teamRead>>, AnswersAreOut => AnswersAreOut'
  PROVE  ListFits'
BY DEF ListFits, listMembers, pendingInvitations, membershipVars, teamRead

\* A request is sent in a slot that was free.
LEMMA RowIsSent ==
  ASSUME PanelOK, NEW s \in Slots, NEW row, NEW call \in RowCalls, sendRow(s, row, call),
         call # NoRowCall, call.stage = "sent",
         UNCHANGED <<membershipVars, teamRead, inviteForm, inviteCall, confirming>>
  PROVE  PanelOK'
<1>1. /\ rowCalls' \in [Slots -> RowCalls] /\ rowCalls[s] = NoRowCall
      /\ \A t \in Slots : t # s => rowCalls'[t] = rowCalls[t]
  BY DEF PanelOK, PanelShape, sendRow
<1>2. PanelShape'
  BY <1>1 DEF PanelOK, PanelShape, teamRead
<1>3. AnswersAreOut => AnswersAreOut'
  BY <1>1 DEF AnswersAreOut
<1>4. QED  BY <1>2, <1>3, ListStays DEF PanelOK

LEMMA PanelMoves ==
  ASSUME PanelOK, [TeamNext]_teamVars
  PROVE  PanelOK' /\ [MembershipNext]_membershipVars
<1>1. PanelShape /\ ListFits /\ me \in Users
  BY MembershipAssumption DEF PanelOK, MembershipAssumption, me
<1>2. ASSUME UNCHANGED <<membershipVars, teamRead, inviteCall>>,
             confirming' \in {NoRow} \cup Users, inviteForm' \in {NoRow} \cup Users,
             rowCalls' = rowCalls
      PROVE  PanelOK' /\ [MembershipNext]_membershipVars
  <2>1. PanelShape'
    BY <1>1, <1>2 DEF PanelShape, teamRead
  <2>2. ListFits'
    BY <1>1, <1>2, ListStays DEF AnswersAreOut
  <2>3. QED  BY <1>2, <2>1, <2>2 DEF PanelOK
<1>3. CASE OthersAct
  BY <1>1, <1>3 DEF OthersAct, PanelOK, PanelShape, ListFits, teamRows, teamForm
<1>4. CASE TeamRead
  <2>1. PanelShape'
    BY <1>1, <1>4 DEF TeamRead, PanelShape, teamRows, teamForm, listMembers, pendingInvitations
  <2>2. team' = listMembers'
    BY <1>4 DEF TeamRead, listMembers, pendingInvitations, membershipVars
  <2>3. QED  BY <1>4, <2>1, <2>2 DEF TeamRead, PanelOK, ListFits
<1>5. CASE CancelRemove
  BY <1>1, <1>2, <1>5 DEF CancelRemove, KeepForm, teamForm, PanelShape
<1>6. ASSUME NEW s \in Slots, NEW u \in Users, NEW role \in MemberRoles, onRoleChange(s, u, role)
      PROVE  PanelOK' /\ [MembershipNext]_membershipVars
  <2> DEFINE call == [kind |-> "role", row |-> u, role |-> role, stage |-> "sent"]
  <2>1. call \in RoleCalls /\ call.stage = "sent" /\ call.kind = "role"
    BY DEF RoleCalls, Stages
  <2> HIDE DEF call
  <2>2. call \in RowCalls /\ call # NoRowCall
    BY <2>1 DEF RowCalls, NoRowCall
  <2>3. QED  BY <1>6, <2>1, <2>2, RowIsSent DEF onRoleChange, call, KeepForm, teamForm
<1>7. ASSUME NEW s \in Slots, NEW i \in Invites, onRevoke(s, i)
      PROVE  PanelOK' /\ [MembershipNext]_membershipVars
  <2> DEFINE call == [kind |-> "revoke", row |-> i, stage |-> "sent"]
  <2>1. call \in RevokeCalls /\ call.stage = "sent" /\ call.kind = "revoke"
    BY DEF RevokeCalls, Stages
  <2> HIDE DEF call
  <2>2. call \in RowCalls /\ call # NoRowCall
    BY <2>1 DEF RowCalls, NoRowCall
  <2>3. QED  BY <1>7, <2>1, <2>2, RowIsSent DEF onRevoke, call, KeepForm, teamForm
<1>8. ASSUME NEW s \in Slots, onRemoveMember(s)
      PROVE  PanelOK' /\ [MembershipNext]_membershipVars
  <2>1. confirming \in Users
    BY <1>1, <1>8 DEF onRemoveMember, PanelShape
  <2> DEFINE call == [kind |-> "remove", row |-> confirming, stage |-> "sent"]
  <2>2. call \in RemoveCalls /\ call.stage = "sent" /\ call.kind = "remove"
    BY <2>1 DEF RemoveCalls, Stages
  <2> HIDE DEF call
  <2>3. call \in RowCalls /\ call # NoRowCall
    BY <2>2 DEF RowCalls, NoRowCall
  <2>4. QED  BY <1>8, <2>2, <2>3, RowIsSent DEF onRemoveMember, call, KeepForm, teamForm
<1>9. ASSUME NEW s \in Slots, ServeRow(s) PROVE PanelOK' /\ [MembershipNext]_membershipVars
  <2>1. /\ [MembershipNext]_membershipVars
        /\ rowCalls' \in [Slots -> RowCalls] /\ rowCalls'[s] # NoRowCall
        /\ UNCHANGED membershipVars \/ rowCalls'[s].stage = "done"
        /\ \A t \in Slots \ {s} : rowCalls'[t] = rowCalls[t]
        /\ rowCalls[s].stage = "sent"
    BY <1>1, <1>9, RowIsServed
  <2>2. UNCHANGED <<teamRead, confirming, inviteForm, inviteCall>>
    BY <1>9 DEF ServeRow, teamForm
  <2>3. PanelShape'
    BY <1>1, <2>1, <2>2 DEF PanelShape, teamRead
  <2>4. ListFits'
    <3>1. CASE rowCalls'[s].stage = "done"
      BY <2>1, <3>1 DEF ListFits, AnswersAreOut
    <3>2. CASE UNCHANGED membershipVars
      <4>1. AnswersAreOut => AnswersAreOut'
        BY <2>1, <2>2 DEF AnswersAreOut
      <4>2. QED  BY <1>1, <2>2, <3>2, <4>1, ListStays
    <3>3. QED  BY <2>1, <3>1, <3>2
  <2>5. QED  BY <2>1, <2>3, <2>4 DEF PanelOK
<1>10. ASSUME NEW s \in Slots, RowAnswered(s) PROVE PanelOK' /\ [MembershipNext]_membershipVars
  <2>1. PanelShape'
    BY <1>1, <1>10 DEF RowAnswered, PanelShape, RowCalls, teamForm
  <2>2. ListFits'
    BY <1>10 DEF RowAnswered, ListFits
  <2>3. QED  BY <1>10, <2>1, <2>2 DEF RowAnswered, PanelOK
<1>11. ASSUME NEW u \in Users, AskRemove(u) \/ TypeAddress(u)
       PROVE  PanelOK' /\ [MembershipNext]_membershipVars
  BY <1>1, <1>2, <1>11 DEF AskRemove, TypeAddress, KeepForm, teamForm, teamRows, PanelShape
<1>12. ASSUME NEW role \in InviteRoles, SendInvitation(role)
       PROVE  PanelOK' /\ [MembershipNext]_membershipVars
  <2>1. inviteForm \in Users
    BY <1>1, <1>12 DEF SendInvitation, PanelShape
  <2>2. inviteCall' \in Invitations
    BY <1>12, <2>1 DEF SendInvitation, Invitations, Stages
  <2>3. PanelShape'
    BY <1>1, <1>12, <2>2 DEF SendInvitation, PanelShape, teamRead, teamRows
  <2>4. AnswersAreOut => AnswersAreOut'
    BY <1>12 DEF SendInvitation, AnswersAreOut, teamRows
  <2>5. QED  BY <1>1, <1>12, <2>3, <2>4, ListStays DEF SendInvitation, PanelOK
<1>13. CASE ServeInvitation
  <2>1. inviteCall \in Invitations /\ UNCHANGED <<teamRead, teamRows, inviteForm>>
    BY <1>1, <1>13 DEF ServeInvitation, PanelShape
  <2>2. PICK stage \in Stages : inviteCall' = [inviteCall EXCEPT !.stage = stage]
    BY <1>13 DEF ServeInvitation, Stages
  <2>3. inviteCall' \in Invitations /\ inviteCall'.stage = stage /\ inviteCall' # NoRowCall
    BY <2>1, <2>2 DEF Invitations, NoRowCall
  <2>4. PanelShape'
    BY <1>1, <2>1, <2>3 DEF PanelShape, teamRead, teamRows
  <2>5. CASE inviteCall' = [inviteCall EXCEPT !.stage = "done"]
    <3>1. inviteCall'.stage = "done"
      BY <2>1, <2>5 DEF Invitations
    <3>2. ListFits'
      BY <2>3, <3>1 DEF ListFits, AnswersAreOut
    <3>3. [MembershipNext]_membershipVars
      BY <1>1, <1>13, <2>1 DEF ServeInvitation, MembershipNext, Invitations
    <3>4. QED  BY <2>4, <3>2, <3>3 DEF PanelOK
  <2>6. CASE UNCHANGED membershipVars
    <3>1. inviteCall.stage = "sent"
      BY <1>13 DEF ServeInvitation
    <3>2. AnswersAreOut => AnswersAreOut'
      BY <2>1, <3>1 DEF AnswersAreOut, teamRows
    <3>3. QED  BY <1>1, <2>1, <2>4, <2>6, <3>2, ListStays DEF PanelOK
  <2>7. QED  BY <1>13, <2>5, <2>6 DEF ServeInvitation
<1>14. CASE InvitationSent
  BY <1>1, <1>14 DEF InvitationSent, PanelOK, PanelShape, ListFits, teamRows
<1>15. CASE InvitationRefused
  <2>1. PanelShape'
    BY <1>1, <1>15 DEF InvitationRefused, PanelShape, teamRead, teamRows
  <2>2. AnswersAreOut => AnswersAreOut'
    BY <1>15 DEF InvitationRefused, AnswersAreOut, teamRows
  <2>3. QED  BY <1>1, <1>15, <2>1, <2>2, ListStays DEF InvitationRefused, PanelOK
<1>16. CASE UNCHANGED teamVars
  BY <1>1, <1>2, <1>16 DEF teamVars, teamForm, teamRows, PanelShape
<1>17. QED
  BY <1>3, <1>4, <1>5, <1>6, <1>7, <1>8, <1>9, <1>10, <1>11, <1>12, <1>13, <1>14, <1>15, <1>16
  DEF TeamNext

LEMMA PanelOKSuffices == PanelOK => TeamSettles
BY DEF PanelOK, ListFits, AnswersAreOut, TeamSettles

\* For any rows, accounts and requests that overlap: once everything is answered, and nobody else
\* acted since, the panel lists the members there are.
THEOREM PanelSettles == TeamSpec => []TeamSettles
BY PanelStarts, PanelMoves, PanelOKSuffices, PTL DEF TeamSpec

\* The panel asks for nothing but what the API does for everyone: what holds of every history of
\* the members holds of one that this page takes part in.
THEOREM PanelIsMembership == TeamSpec => MembershipSpec
<1>1. TeamInit => MembershipInit
  BY DEF TeamInit
<1>2. QED  BY <1>1, PanelStarts, PanelMoves, PTL DEF TeamSpec, MembershipSpec

\* On the workspace's page, too, nobody joins without an invitation of their own, and only the
\* deletion of an account takes the last administrator.
THEOREM PanelChangesRightly == TeamSpec => MembershipChangesRightly
BY PanelIsMembership, MembershipIsRight, PTL

-----------------------------------------------------------------------------
(***************************************************************************)
(* The rules of a workspace.                                               *)
(***************************************************************************)
\* What holds at zero and at every wrote number holds up to any number.
LEMMA UpTo ==
  ASSUME NEW n \in Nat, NEW S, 0 \in S, \A i \in 0..(n - 1) : i \in S => i + 1 \in S
  PROVE  0..n \subseteq S
<1> DEFINE R == StrictSubsetOrdering(0..n)
           T == {0..i : i \in (0..n) \ S}
<1> SUFFICES ASSUME T # {} PROVE FALSE
  OBVIOUS
<1>1. IsFiniteSet(0..n)
  <2>1. 0 \in Int /\ n \in Int
    OBVIOUS
  <2>2. QED  BY <2>1, FS_Interval
<1>2. IsWellFoundedOn(R, SUBSET (0..n))
  BY <1>1, FS_StrictSubsetOrderingWellFounded, FS_FiniteSubsetsOfFinite
<1>3. T \subseteq SUBSET (0..n)
  OBVIOUS
<1> HIDE DEF R, T
<1>4. \E A \in T : \A B \in T : ~(<<B, A>> \in R)
  BY <1>2, <1>3, WFMin
<1>5. PICK i \in (0..n) \ S : \A B \in T : ~(<<B, 0..i>> \in R)
  BY <1>4 DEF T
<1>6. i # 0 /\ i - 1 \in 0..(n - 1) /\ i - 1 \in 0..n /\ (i - 1) + 1 = i
  BY <1>5
<1>7. i - 1 \notin S
  BY <1>5, <1>6
<1>8. 0..(i - 1) \in T /\ 0..(i - 1) \in SUBSET (0..n) /\ 0..i \in SUBSET (0..n)
  BY <1>5, <1>6, <1>7 DEF T
<1>9. 0..(i - 1) \subseteq 0..i /\ i \in 0..i /\ i \notin 0..(i - 1)
  BY <1>5, <1>6
<1>10. <<0..(i - 1), 0..i>> \in R
  BY <1>8, <1>9 DEF R, StrictSubsetOrdering
<1>11. QED  BY <1>5, <1>8, <1>10

\* The rules of a list stand in the order in which they were made, up to some rule.
RuleRows == [id : Nat, text : {"draft", "edited"}]
Ordered(list, last) ==
  /\ list \in Seq(RuleRows)
  /\ \A i \in DOMAIN list : list[i].id <= last
  /\ \A i, j \in DOMAIN list : i < j => list[i].id < list[j].id

LEMMA RowsOf ==
  ASSUME NEW list \in Seq(RuleRows)
  PROVE  /\ Len(list) \in Nat /\ DOMAIN list = 1..Len(list)
         /\ \A i \in DOMAIN list : list[i] \in RuleRows /\ list[i].id \in Nat
<1>1. Len(list) \in Nat /\ DOMAIN list = 1..Len(list) /\ \A i \in DOMAIN list : list[i] \in RuleRows
  OBVIOUS
<1>2. \A r \in RuleRows : r.id \in Nat
  BY DEF RuleRows
<1>3. QED  BY <1>1, <1>2

LEMMA OrderedRelaxes ==
  ASSUME NEW first \in Nat, NEW last \in Nat, first <= last, NEW list, Ordered(list, first)
  PROVE  Ordered(list, last)
<1>1. \A i \in DOMAIN list : list[i].id \in Nat
  BY RowsOf DEF Ordered
<1>2. QED  BY <1>1 DEF Ordered

\* A rule that was made after all rules of a list is added behind them.
LEMMA AppendedIsOrdered ==
  ASSUME NEW first \in Nat, NEW list, Ordered(list, first), NEW rule \in RuleRows,
         first < rule.id \/ list = <<>>
  PROVE  /\ Ordered(Append(list, rule), rule.id) /\ Len(Append(list, rule)) = Len(list) + 1
<1>1. list \in Seq(RuleRows) /\ Len(list) \in Nat /\ DOMAIN list = 1..Len(list)
  BY RowsOf DEF Ordered
<1>2. rule.id \in Nat
  BY DEF RuleRows
<1>3. \A i \in 1..Len(list) : list[i].id \in Nat /\ list[i].id < rule.id
  BY <1>1, <1>2, RowsOf DEF Ordered
<1>4. \A i, j \in 1..Len(list) : i < j => list[i].id < list[j].id
  BY <1>1 DEF Ordered
<1> DEFINE longer == Append(list, rule)
<1>5. /\ longer \in Seq(RuleRows) /\ Len(longer) = Len(list) + 1 /\ DOMAIN longer = 1..(Len(list) + 1)
      /\ \A i \in 1..Len(list) : longer[i] = list[i]
      /\ longer[Len(list) + 1] = rule
  BY <1>1
<1> HIDE DEF longer
<1>6. \A i \in DOMAIN longer : i \in 1..Len(list) \/ i = Len(list) + 1
  BY <1>1, <1>5
<1>7. \A i \in DOMAIN longer : longer[i].id <= rule.id
  BY <1>2, <1>3, <1>5, <1>6
<1>8. \A i, j \in DOMAIN longer : i < j => i \in 1..Len(list)
  BY <1>1, <1>5
<1>9. \A i, j \in DOMAIN longer : i < j => longer[i].id < longer[j].id
  BY <1>3, <1>4, <1>5, <1>6, <1>8
<1>10. Ordered(longer, rule.id) /\ Len(longer) = Len(list) + 1
  BY <1>5, <1>7, <1>9 DEF Ordered
<1>11. QED  BY <1>10 DEF longer

\* Without the rules that have an id a list stays in order, and gets no longer.
LEMMA FilteredIsOrdered ==
  ASSUME NEW last \in Nat, NEW rules, Ordered(rules, last), NEW id
  PROVE  Ordered(filtered(rules, id), last) /\ Len(filtered(rules, id)) <= Len(rules)
<1> DEFINE n == Len(rules)
           row(f, i) == IF i = 0 THEN <<>>
                        ELSE IF rules[i].id = id THEN f[i - 1] ELSE Append(f[i - 1], rules[i])
           Solves(f, m) == f = [i \in 0..m |-> row(f, i)]
           kept == CHOOSE f : Solves(f, n)
           S == {m \in 0..n : \E f : Solves(f, m)}
           upTo(i) == IF i = 0 THEN 0 ELSE rules[i].id
           Good == {i \in 0..n : Len(kept[i]) <= i /\ Ordered(kept[i], upTo(i))}
<1>1. n \in Nat /\ rules \in Seq(RuleRows) /\ DOMAIN rules = 1..n
  BY RowsOf DEF Ordered
<1>2. \A i \in 1..n : rules[i] \in RuleRows /\ rules[i].id \in Nat
  BY <1>1, RowsOf
<1>3. 0 \in S
  <2> DEFINE f == [i \in 0..0 |-> <<>>]
  <2>1. f = [i \in 0..0 |-> row(f, i)]
    OBVIOUS
  <2>2. 0 \in 0..n
    BY <1>1
  <2>3. QED  BY <2>1, <2>2
<1>4. ASSUME NEW m \in 0..(n - 1), m \in S PROVE m + 1 \in S
  <2>1. PICK f : f = [i \in 0..m |-> row(f, i)]
    BY <1>4
  <2> DEFINE g == [i \in 0..(m + 1) |-> IF i = m + 1 THEN row(f, m + 1) ELSE f[i]]
  <2>2. m \in Nat /\ m + 1 \in 0..n
    BY <1>1
  <2> HIDE DEF row
  <2>3. \A i \in 0..m : f[i] = row(f, i)
    BY <2>1
  <2>4. g[m + 1] = row(f, m + 1) /\ \A i \in 0..m : g[i] = f[i]
    BY <2>2
  <2>5. \A i \in 0..(m + 1) : g[i] = row(f, i)
    BY <2>2, <2>3, <2>4
  <2> HIDE DEF g
  <2>6. \A i \in 0..(m + 1) : row(g, i) = row(f, i)
    <3>1. \A i \in 0..(m + 1) : i # 0 => g[i - 1] = f[i - 1]
      BY <2>2, <2>4
    <3>2. QED  BY <3>1 DEF row
  <2>7. g = [i \in 0..(m + 1) |-> row(g, i)]
    <3>1. g = [i \in 0..(m + 1) |-> row(f, i)]
      BY <2>2, <2>3 DEF g
    <3>2. QED  BY <2>6, <3>1
  <2>8. QED  BY <2>2, <2>7
<1>5. \E f : Solves(f, n)
  <2> HIDE DEF Solves, n
  <2>1. 0..n \subseteq S
    BY <1>1, <1>3, <1>4, UpTo
  <2>2. QED  BY <1>1, <2>1
<1>6. Solves(kept, n)
  BY <1>5
<1>7. filtered(rules, id) = kept[n]
  BY DEF filtered
<1> HIDE DEF kept, S
<1>8. \A i \in 0..n : kept[i] = row(kept, i)
  <2> HIDE DEF row
  <2>1. QED  BY <1>6
<1>9. kept[0] = <<>> /\ \A i \in 1..n : kept[i] = IF rules[i].id = id THEN kept[i - 1]
                                                  ELSE Append(kept[i - 1], rules[i])
  BY <1>1, <1>8
<1> HIDE DEF Solves, row
<1>10. 0 \in Good
  <2>1. <<>> \in Seq(RuleRows) /\ DOMAIN <<>> = {} /\ Len(<<>>) = 0
    OBVIOUS
  <2>2. Ordered(<<>>, upTo(0))
    BY <2>1 DEF Ordered
  <2>3. kept[0] = <<>> /\ 0 \in 0..n
    BY <1>1, <1>9
  <2> HIDE DEF upTo, kept
  <2>4. QED  BY <2>1, <2>2, <2>3
<1>11. ASSUME NEW m \in 0..(n - 1), m \in Good PROVE m + 1 \in Good
  <2>1. m \in Nat /\ m + 1 \in 1..n /\ m + 1 \in 0..n /\ (m + 1) - 1 = m
    BY <1>1
  <2>2. Len(kept[m]) <= m /\ Ordered(kept[m], upTo(m))
    BY <1>11
  <2>3. kept[m] \in Seq(RuleRows) /\ Len(kept[m]) \in Nat
    BY <2>2, RowsOf DEF Ordered
  <2>4. /\ upTo(m) \in Nat /\ upTo(m + 1) = rules[m + 1].id /\ upTo(m + 1) \in Nat
        /\ m # 0 => upTo(m) < upTo(m + 1)
        /\ upTo(m) <= upTo(m + 1)
    BY <1>1, <1>2, <2>1 DEF Ordered
  <2> HIDE DEF upTo
  <2>5. CASE rules[m + 1].id = id
    <3>1. kept[m + 1] = kept[m]
      BY <1>9, <2>1, <2>5
    <3>2. Ordered(kept[m], upTo(m + 1))
      BY <2>2, <2>4, OrderedRelaxes
    <3>3. QED  BY <2>1, <2>2, <2>3, <3>1, <3>2
  <2>6. CASE rules[m + 1].id # id
    <3>1. kept[m + 1] = Append(kept[m], rules[m + 1])
      BY <1>9, <2>1, <2>6
    <3>2. rules[m + 1] \in RuleRows
      BY <1>2, <2>1
    <3>3. m = 0 => kept[m] = <<>>
      BY <1>9
    <3>4. /\ Ordered(kept[m + 1], upTo(m + 1)) /\ Len(kept[m + 1]) = Len(kept[m]) + 1
      BY <2>2, <2>4, <3>1, <3>2, <3>3, AppendedIsOrdered
    <3>5. QED  BY <2>1, <2>2, <2>3, <3>4
  <2>7. QED  BY <2>5, <2>6
<1>12. n \in Good
  <2> HIDE DEF Good, n
  <2>1. 0..n \subseteq Good
    BY <1>1, <1>10, <1>11, UpTo
  <2>2. QED  BY <1>1, <2>1
<1>13. upTo(n) \in Nat /\ upTo(n) <= last
  BY <1>1, <1>2 DEF Ordered
<1> HIDE DEF upTo
<1>14. Len(kept[n]) <= n /\ Ordered(kept[n], upTo(n))
  BY <1>12
<1>15. QED  BY <1>7, <1>13, <1>14, OrderedRelaxes

-----------------------------------------------------------------------------
Fits(list, last) == Ordered(list, last) /\ Len(list) <= MaxComments

\* What a request carries: a list that fits, or a rule to add to a list that has room for it.
CallOK(c, last) ==
  /\ DOMAIN c = {"n", "from", "kind", "list", "state"}
  /\ c.from = "editor" /\ c.kind # "test" => Fits(c.list, last)
  /\ c.from = "editor" /\ c.kind = "test" /\ c.list.add =>
       /\ Fits(c.list.rules, last) /\ c.list.editing \in Nat
       /\ c.list.editing = NewRule => Len(c.list.rules) < MaxComments

RulesShape ==
  /\ made \in Nat
  /\ DOMAIN selection = {"open", "read", "config", "disabled", "busy", "saved"}
  /\ DOMAIN button = {"open", "busy", "disabled"}
  /\ DOMAIN editor = {"open", "loaded", "rules", "dirty", "busy", "testing", "editing", "tab"}

ListsFit == Fits(comments, made) /\ Fits(editor.rules, made) /\ editor.editing \in Nat
RuleCallsFit == \A c \in ruleCalls : CallOK(c, made)

RulesOK == RulesShape /\ ListsFit /\ RuleCallsFit /\ NoDialogIsStuck

LEMMA FitsRelaxes ==
  ASSUME NEW first \in Nat, NEW last \in Nat, first <= last, NEW list, Fits(list, first)
  PROVE  Fits(list, last)
BY OrderedRelaxes DEF Fits

LEMMA CallRelaxes ==
  ASSUME NEW first \in Nat, NEW last \in Nat, first <= last, NEW c, CallOK(c, first)
  PROVE  CallOK(c, last)
BY FitsRelaxes DEF CallOK

LEMMA EmptyFits == ASSUME NEW last \in Nat PROVE Fits(<<>>, last)
<1>1. <<>> \in Seq(RuleRows) /\ DOMAIN <<>> = {} /\ Len(<<>>) = 0
  OBVIOUS
<1>2. MaxComments \in Nat
  BY RulesAssumption
<1>3. QED  BY <1>1, <1>2 DEF Fits, Ordered

\* One list behind another.
LEMMA Concatenated ==
  ASSUME NEW S, NEW a \in Seq(S), NEW b \in Seq(S)
  PROVE  /\ a \o b \in Seq(S) /\ Len(a \o b) = Len(a) + Len(b)
         /\ DOMAIN (a \o b) = 1..(Len(a) + Len(b))
         /\ \A i \in 1..(Len(a) + Len(b)) : (a \o b)[i] = IF i <= Len(a) THEN a[i] ELSE b[i - Len(a)]
<1>1. a \o b \in Seq(S) /\ Len(a \o b) = Len(a) + Len(b)
  OBVIOUS
<1>2. DOMAIN (a \o b) = 1..(Len(a) + Len(b))
  BY <1>1
<1>3. \A i \in 1..(Len(a) + Len(b)) : (a \o b)[i] = IF i <= Len(a) THEN a[i] ELSE b[i - Len(a)]
  OBVIOUS
<1>4. QED  BY <1>1, <1>2, <1>3

\* A list loses a rule.
LEMMA ShorterFits ==
  ASSUME NEW last \in Nat, NEW list, Fits(list, last), NEW k \in DOMAIN list
  PROVE  Fits(RemoveAt(list, k), last)
<1> DEFINE n == Len(list)
           rest == RemoveAt(list, k)
<1>1. list \in Seq(RuleRows) /\ n \in Nat /\ DOMAIN list = 1..n /\ k \in 1..n
  BY RowsOf DEF Fits, Ordered
<1>2. rest = SubSeq(list, 1, k - 1) \o SubSeq(list, k + 1, n)
  BY DEF RemoveAt
<1>3. /\ SubSeq(list, 1, k - 1) \in Seq(RuleRows) /\ Len(SubSeq(list, 1, k - 1)) = k - 1
      /\ \A i \in 1..(k - 1) : SubSeq(list, 1, k - 1)[i] = list[i]
  BY <1>1
<1>4. /\ SubSeq(list, k + 1, n) \in Seq(RuleRows) /\ Len(SubSeq(list, k + 1, n)) = n - k
      /\ \A i \in 1..(n - k) : SubSeq(list, k + 1, n)[i] = list[k + i]
  BY <1>1
<1> DEFINE a == SubSeq(list, 1, k - 1)
           b == SubSeq(list, k + 1, n)
<1> HIDE DEF a, b
<1>5. /\ rest = a \o b /\ a \in Seq(RuleRows) /\ b \in Seq(RuleRows) /\ Len(a) = k - 1 /\ Len(b) = n - k
      /\ \A i \in 1..(k - 1) : a[i] = list[i]
      /\ \A i \in 1..(n - k) : b[i] = list[k + i]
  BY <1>2, <1>3, <1>4 DEF a, b
<1> HIDE DEF rest
<1>6. /\ rest \in Seq(RuleRows) /\ Len(rest) = n - 1 /\ DOMAIN rest = 1..(n - 1)
      /\ \A i \in 1..(n - 1) : rest[i] = IF i <= k - 1 THEN a[i] ELSE b[i - (k - 1)]
  <2>1. /\ a \o b \in Seq(RuleRows) /\ Len(a \o b) = Len(a) + Len(b)
        /\ DOMAIN (a \o b) = 1..(Len(a) + Len(b))
        /\ \A i \in 1..(Len(a) + Len(b)) : (a \o b)[i] = IF i <= Len(a) THEN a[i] ELSE b[i - Len(a)]
    BY <1>5, Concatenated
  <2>2. (k - 1) + (n - k) = n - 1
    BY <1>1
  <2> HIDE DEF n
  <2>3. QED  BY <1>5, <2>1, <2>2
<1>7. \A i \in 1..(n - 1) : rest[i] = list[IF i < k THEN i ELSE i + 1]
  <2>1. ASSUME NEW i \in 1..(n - 1), i < k PROVE rest[i] = list[i]
    <3>1. i \in 1..(k - 1) /\ i <= k - 1
      BY <1>1, <2>1
    <3>2. QED  BY <1>5, <1>6, <3>1
  <2>2. ASSUME NEW i \in 1..(n - 1), ~(i < k) PROVE rest[i] = list[i + 1]
    <3>1. i - (k - 1) \in 1..(n - k) /\ k + (i - (k - 1)) = i + 1 /\ ~(i <= k - 1)
      BY <1>1, <2>2
    <3>2. QED  BY <1>5, <1>6, <3>1
  <2>3. QED  BY <2>1, <2>2
<1> DEFINE at(i) == IF i < k THEN i ELSE i + 1
<1>8. /\ \A i \in 1..(n - 1) : at(i) \in 1..n
      /\ \A i, j \in 1..(n - 1) : i < j => at(i) < at(j)
  BY <1>1
<1>9. \A i \in 1..(n - 1) : rest[i] = list[at(i)]
  BY <1>7
<1> HIDE DEF at, n
<1>10. /\ \A i \in 1..n : list[i].id <= last
       /\ \A i, j \in 1..n : i < j => list[i].id < list[j].id
       /\ n <= MaxComments
  BY <1>1 DEF Fits, Ordered, n
<1>11. n - 1 <= MaxComments
  BY <1>1, <1>10, RulesAssumption
<1>12. Ordered(rest, last) /\ Len(rest) <= MaxComments
  BY <1>6, <1>8, <1>9, <1>10, <1>11 DEF Ordered
<1>13. QED  BY <1>12 DEF Fits, rest

\* A list gets the rule that was tested: a new one behind the others, an edited one in place.
LEMMA AddedFits ==
  ASSUME NEW last \in Nat, NEW was, Fits(was.rules, last), was.editing \in Nat,
         was.editing = NewRule => Len(was.rules) < MaxComments
  PROVE  /\ was.editing = NewRule => Fits(added(was, last + 1), last + 1)
         /\ was.editing # NewRule => Fits(added(was, was.editing), last)
<1> DEFINE list == was.rules
<1>1. Ordered(list, last) /\ Len(list) <= MaxComments /\ MaxComments \in Nat
  BY RulesAssumption DEF Fits
<1>2. list \in Seq(RuleRows) /\ Len(list) \in Nat /\ DOMAIN list = 1..Len(list)
  BY <1>1, RowsOf DEF Ordered
<1>3. ASSUME was.editing = NewRule PROVE Fits(added(was, last + 1), last + 1)
  <2> DEFINE rule == [id |-> last + 1, text |-> "draft"]
  <2>1. rule \in RuleRows /\ rule.id = last + 1 /\ last < rule.id
    BY DEF RuleRows
  <2> HIDE DEF rule
  <2>2. Ordered(Append(list, rule), last + 1) /\ Len(Append(list, rule)) = Len(list) + 1
    BY <1>1, <2>1, AppendedIsOrdered
  <2>3. added(was, last + 1) = Append(list, rule)
    BY <1>3 DEF added, rule
  <2>4. Len(list) + 1 <= MaxComments
    BY <1>1, <1>2, <1>3
  <2> HIDE DEF list
  <2>5. Fits(Append(list, rule), last + 1)
    BY <2>2, <2>4 DEF Fits
  <2>6. QED  BY <2>3, <2>5
<1>4. ASSUME was.editing # NewRule PROVE Fits(added(was, was.editing), last)
  <2> DEFINE now == added(was, was.editing)
             rule(i) == IF list[i].id = was.editing THEN [id |-> was.editing, text |-> "edited"] ELSE list[i]
  <2>1. now = [i \in 1..Len(list) |-> rule(i)]
    BY <1>2, <1>4 DEF added
  <2>2. \A i \in 1..Len(list) : list[i] \in RuleRows
    BY <1>2, RowsOf
  <2>3. \A i \in 1..Len(list) : rule(i) \in RuleRows /\ rule(i).id = list[i].id
    BY <2>2 DEF RuleRows
  <2> HIDE DEF now, rule
  <2>4. now \in Seq(RuleRows) /\ Len(now) = Len(list) /\ DOMAIN now = 1..Len(list)
    BY <1>2, <2>1, <2>3
  <2>5. \A i \in 1..Len(list) : now[i].id = list[i].id
    BY <2>1, <2>3
  <2> HIDE DEF list
  <2>6. Ordered(now, last)
    BY <1>1, <1>2, <2>4, <2>5 DEF Ordered
  <2>7. QED  BY <1>1, <2>4, <2>6 DEF Fits, now
<1>5. QED  BY <1>3, <1>4

LEMMA ServedKeeps ==
  ASSUME RulesOK, NEW call \in ruleCalls, NEW state, NEW list, served(call, state, list), KeepRulePage,
         Fits(comments', made),
         call.from = "editor" /\ call.kind # "test" => Fits(list, made),
         call.kind = "test" => list = call.list
  PROVE  RulesOK'
<1> DEFINE answer == [call EXCEPT !.state = state, !.list = list]
<1>1. DOMAIN call = {"n", "from", "kind", "list", "state"} /\ CallOK(call, made)
  BY DEF RulesOK, RuleCallsFit, CallOK
<1>2. /\ DOMAIN answer = {"n", "from", "kind", "list", "state"}
      /\ answer.from = call.from /\ answer.kind = call.kind /\ answer.list = list
  BY <1>1
<1>3. ruleCalls' = (ruleCalls \ {call}) \cup {answer}
  BY DEF served
<1> HIDE DEF answer
<1>4. CallOK(answer, made)
  BY <1>1, <1>2 DEF CallOK
<1>5. UNCHANGED <<selection, button, editor, made>>
  BY DEF KeepRulePage
<1>6. RulesShape' /\ ListsFit'
  BY <1>5 DEF RulesOK, RulesShape, ListsFit, Fits, Ordered
<1>7. RuleCallsFit'
  <2>1. \A c \in ruleCalls' : CallOK(c, made)
    BY <1>3, <1>4 DEF RulesOK, RuleCallsFit
  <2>2. QED  BY <1>5, <2>1 DEF RuleCallsFit
<1>8. \A c \in ruleCalls : \E d \in ruleCalls' : d.from = c.from /\ d.kind = c.kind
  BY <1>2, <1>3
<1>9. NoDialogIsStuck'
  BY <1>5, <1>8 DEF RulesOK, NoDialogIsStuck
<1>10. QED  BY <1>6, <1>7, <1>9 DEF RulesOK

LEMMA CalledFits ==
  ASSUME RulesOK, NEW from, NEW kind, NEW list, called(from, kind, list),
         from = "editor" /\ kind # "test" => Fits(list, made),
         from = "editor" /\ kind = "test" /\ list.add =>
           /\ Fits(list.rules, made) /\ list.editing \in Nat
           /\ list.editing = NewRule => Len(list.rules) < MaxComments
  PROVE  /\ \A c \in ruleCalls' : CallOK(c, made)
         /\ ruleCalls \subseteq ruleCalls'
         /\ \E c \in ruleCalls' : c.from = from /\ c.kind = kind
<1> DEFINE call == [n |-> asked + 1, from |-> from, kind |-> kind, list |-> list, state |-> "out"]
<1>1. ruleCalls' = ruleCalls \cup {call}
  BY DEF called
<1>2. /\ DOMAIN call = {"n", "from", "kind", "list", "state"}
      /\ call.from = from /\ call.kind = kind /\ call.list = list
  OBVIOUS
<1> HIDE DEF call
<1>3. CallOK(call, made)
  BY <1>2 DEF CallOK
<1>4. QED  BY <1>1, <1>2, <1>3 DEF RulesOK, RuleCallsFit

LEMMA RulesStart == RulesInit => RulesOK
<1> SUFFICES ASSUME RulesInit PROVE RulesOK
  OBVIOUS
<1>1. made = 0 /\ comments = <<>> /\ ruleCalls = {}
  BY DEF RulesInit
<1>2. RulesShape
  BY DEF RulesInit, RulesShape
<1>3. Fits(comments, made)
  BY <1>1, EmptyFits
<1>4. editor.rules = comments /\ editor.editing = NewRule
  BY DEF RulesInit
<1>5. ListsFit
  BY <1>3, <1>4 DEF ListsFit, NewRule
<1>6. RuleCallsFit
  BY <1>1 DEF RuleCallsFit
<1>7. NoDialogIsStuck
  BY DEF RulesInit, NoDialogIsStuck
<1>8. QED  BY <1>2, <1>5, <1>6, <1>7 DEF RulesOK

LEMMA RulesStay == ASSUME RulesOK, UNCHANGED rulesVars PROVE RulesOK'
<1>1. UNCHANGED <<comments, selection, button, editor, ruleCalls, made>>
  BY DEF rulesVars
<1>2. RulesShape' /\ ListsFit' /\ RuleCallsFit'
  BY <1>1 DEF RulesOK, RulesShape, ListsFit, RuleCallsFit, CallOK, Fits, Ordered
<1>3. NoDialogIsStuck'
  BY <1>1 DEF RulesOK, NoDialogIsStuck
<1>4. QED  BY <1>2, <1>3 DEF RulesOK

LEMMA ServingKeeps == ASSUME RulesOK, ServeRules PROVE RulesOK'
<1>1. PICK call \in ruleCalls : ServeRulesRead(call) \/ ServeSelection(call) \/ ServeComments(call)
                                \/ ServeTest(call) \/ ServeFails(call)
  BY DEF ServeRules
<1>2. /\ call.from = "editor" /\ call.kind # "test" => Fits(call.list, made)
      /\ Fits(comments, made)
  BY DEF RulesOK, RuleCallsFit, CallOK, ListsFit
<1>3. CASE ServeRulesRead(call)
  <2>1. call.kind # "test" /\ KeepRulePage /\ comments' = comments
        /\ served(call, "done", IF call.from = "editor" THEN comments ELSE disabledIds)
    BY <1>3 DEF ServeRulesRead
  <2>2. QED  BY <1>2, <2>1, ServedKeeps
<1>4. CASE ServeSelection(call)
  <2>1. call.from # "editor" /\ call.kind # "test" /\ served(call, "done", call.list) /\ KeepRulePage
        /\ comments' = comments
    BY <1>4 DEF ServeSelection
  <2>2. QED  BY <1>2, <2>1, ServedKeeps
<1>5. CASE ServeComments(call)
  <2>1. call.from = "editor" /\ call.kind # "test" /\ served(call, "done", call.list) /\ KeepRulePage
        /\ comments' = call.list
    BY <1>5 DEF ServeComments
  <2>2. QED  BY <1>2, <2>1, ServedKeeps
<1>6. CASE ServeTest(call)
  <2>1. call.kind = "test" /\ served(call, "done", call.list) /\ KeepRulePage /\ comments' = comments
    BY <1>6 DEF ServeTest
  <2>2. QED  BY <1>2, <2>1, ServedKeeps
<1>7. CASE ServeFails(call)
  <2>1. served(call, "failed", call.list) /\ KeepRulePage /\ comments' = comments
    BY <1>7 DEF ServeFails
  <2>2. QED  BY <1>2, <2>1, ServedKeeps
<1>8. QED  BY <1>1, <1>3, <1>4, <1>5, <1>6, <1>7

LEMMA OthersKeep == ASSUME RulesOK, OthersSave PROVE RulesOK'
<1>1. UNCHANGED <<selection, button, editor, ruleCalls>>
  BY DEF OthersSave
<1>2. made \in Nat /\ Fits(comments, made) /\ Fits(editor.rules, made)
  BY DEF RulesOK, RulesShape, ListsFit
<1>3. made' \in Nat /\ made <= made' /\ Fits(comments', made')
  <2>1. CASE UNCHANGED <<comments, made>>
    BY <1>2, <2>1 DEF Fits, Ordered
  <2>2. CASE /\ made' = made + 1 /\ Len(comments) < MaxComments
             /\ comments' = Append(comments, [id |-> made + 1, text |-> "draft"])
    <3> DEFINE rule == [id |-> made + 1, text |-> "draft"]
    <3>1. rule \in RuleRows /\ rule.id = made + 1 /\ made < rule.id
      BY <1>2 DEF RuleRows
    <3>2. Ordered(comments, made) /\ Len(comments) \in Nat /\ MaxComments \in Nat
      BY <1>2, RulesAssumption, RowsOf DEF Fits, Ordered
    <3> HIDE DEF rule
    <3>3. Ordered(Append(comments, rule), made + 1) /\ Len(Append(comments, rule)) = Len(comments) + 1
      BY <1>2, <3>1, <3>2, AppendedIsOrdered
    <3>4. Len(comments) + 1 <= MaxComments
      BY <2>2, <3>2
    <3>5. Fits(Append(comments, rule), made + 1)
      BY <3>3, <3>4 DEF Fits
    <3>6. comments' = Append(comments, rule) /\ made' = made + 1
      BY <2>2 DEF rule
    <3>7. QED  BY <1>2, <3>5, <3>6
  <2>3. CASE (\E i \in DOMAIN comments : comments' = RemoveAt(comments, i)) /\ made' = made
    BY <1>2, <2>3, ShorterFits
  <2>4. QED  BY <2>1, <2>2, <2>3 DEF OthersSave
<1>4. RulesShape'
  BY <1>1, <1>3 DEF RulesOK, RulesShape
<1>5. ListsFit'
  <2>1. Fits(editor.rules, made')
    BY <1>2, <1>3, FitsRelaxes
  <2>2. QED  BY <1>1, <1>3, <2>1 DEF RulesOK, ListsFit
<1>6. RuleCallsFit'
  <2>1. \A c \in ruleCalls : CallOK(c, made')
    BY <1>2, <1>3, CallRelaxes DEF RulesOK, RuleCallsFit
  <2>2. QED  BY <1>1, <2>1 DEF RuleCallsFit
<1>7. NoDialogIsStuck'
  BY <1>1 DEF RulesOK, NoDialogIsStuck
<1>8. QED  BY <1>4, <1>5, <1>6, <1>7 DEF RulesOK

\* The selection dialog and the button touch no comment rule; what they wait for comes.
LEMMA SelectionKeeps ==
  ASSUME RulesOK, \/ ChangeSelectionOpen \/ SelectionLoaded \/ SaveSelection \/ SelectionSaved
                  \/ \E r \in RuleIds : TickRule(r)
  PROVE  RulesOK'
<1>1. UNCHANGED <<comments, button, editor, made>>
  BY DEF ChangeSelectionOpen, SelectionLoaded, SaveSelection, SelectionSaved, TickRule, KeepWorkspace, readAnswer
<1>2. DOMAIN selection = {"open", "read", "config", "disabled", "busy", "saved"}
  BY DEF RulesOK, RulesShape
<1>3. /\ DOMAIN selection' = DOMAIN selection
      /\ \A c \in ruleCalls' : CallOK(c, made)
      /\ \A c \in ruleCalls : c.from # "selection" => c \in ruleCalls'
      /\ selection'.busy => \E c \in ruleCalls' : c.from = "selection"
  <2>1. CASE ChangeSelectionOpen
    <3>1. CASE selection.open
      <4>1. selection' = [selection EXCEPT !.open = FALSE] /\ ruleCalls' = ruleCalls
        BY <2>1, <3>1 DEF ChangeSelectionOpen
      <4>2. QED  BY <1>2, <4>1 DEF RulesOK, RuleCallsFit, NoDialogIsStuck
    <3>2. CASE ~selection.open
      <4>1. called("selection", "read", {}) /\ DOMAIN selection' = DOMAIN selection
        BY <2>1, <3>2 DEF ChangeSelectionOpen
      <4>2. QED  BY <4>1, CalledFits
    <3>3. QED  BY <3>1, <3>2
  <2>2. CASE SelectionLoaded
    <3>1. PICK call \in answersOf("selection", "read") :
            /\ ruleCalls' = ruleCalls \ {call}
            /\ selection' = IF call.state = "failed" THEN [selection EXCEPT !.busy = FALSE]
                    ELSE [selection EXCEPT !.busy = FALSE, !.read = TRUE, !.config = call.list,
                                           !.disabled = call.list]
      BY <2>2 DEF SelectionLoaded, readAnswer
    <3>2. DOMAIN selection' = DOMAIN selection /\ selection'.busy = FALSE /\ call.from = "selection"
      BY <1>2, <3>1 DEF answersOf
    <3>3. QED  BY <3>1, <3>2 DEF RulesOK, RuleCallsFit
  <2>3. CASE SaveSelection
    <3>1. called("selection", "write", selection.disabled) /\ DOMAIN selection' = DOMAIN selection
      BY <2>3 DEF SaveSelection
    <3>2. QED  BY <3>1, CalledFits
  <2>4. CASE SelectionSaved
    <3>1. PICK call \in answersOf("selection", "write") :
            /\ ruleCalls' = ruleCalls \ {call}
            /\ selection' = IF call.state = "failed" THEN [selection EXCEPT !.busy = FALSE]
                    ELSE [selection EXCEPT !.busy = FALSE, !.read = TRUE, !.config = call.list,
                                           !.disabled = call.list, !.saved = TRUE]
      BY <2>4 DEF SelectionSaved, readAnswer
    <3>2. DOMAIN selection' = DOMAIN selection /\ selection'.busy = FALSE /\ call.from = "selection"
      BY <1>2, <3>1 DEF answersOf
    <3>3. QED  BY <3>1, <3>2 DEF RulesOK, RuleCallsFit
  <2>5. CASE \E r \in RuleIds : TickRule(r)
    <3>1. ~selection.busy /\ ruleCalls' = ruleCalls
      BY <2>5 DEF TickRule
    <3>2. DOMAIN selection' = DOMAIN selection /\ selection'.busy = selection.busy
      BY <1>2, <2>5 DEF TickRule
    <3>3. QED  BY <3>1, <3>2 DEF RulesOK, RuleCallsFit
  <2>6. QED  BY <2>1, <2>2, <2>3, <2>4, <2>5
<1>4. RulesShape' /\ ListsFit'
  BY <1>1, <1>3 DEF RulesOK, RulesShape, ListsFit, Fits, Ordered
<1>5. RuleCallsFit'
  BY <1>1, <1>3 DEF RuleCallsFit, CallOK, Fits, Ordered
<1>6. NoDialogIsStuck'
  BY <1>1, <1>3 DEF RulesOK, NoDialogIsStuck
<1>7. QED  BY <1>4, <1>5, <1>6 DEF RulesOK

LEMMA ButtonKeeps == ASSUME RulesOK, OpenButton \/ DisableRule \/ DisableAnswered PROVE RulesOK'
<1>1. UNCHANGED <<comments, selection, editor, made>>
  BY DEF OpenButton, DisableRule, DisableAnswered, KeepWorkspace
<1>2. DOMAIN button = {"open", "busy", "disabled"}
  BY DEF RulesOK, RulesShape
<1>3. /\ DOMAIN button' = DOMAIN button
      /\ \A c \in ruleCalls' : CallOK(c, made)
      /\ \A c \in ruleCalls : c.from # "button" => c \in ruleCalls'
      /\ button'.busy => \E c \in ruleCalls' : c.from = "button"
  <2>1. CASE OpenButton
    <3>1. ruleCalls' = ruleCalls /\ ~button.busy /\ button' = [button EXCEPT !.open = ~@]
      BY <2>1 DEF OpenButton
    <3>2. DOMAIN button' = DOMAIN button /\ button'.busy = button.busy
      BY <1>2, <3>1
    <3>3. QED  BY <3>1, <3>2 DEF RulesOK, RuleCallsFit
  <2>2. CASE DisableRule
    <3>1. called("button", "read", {}) /\ DOMAIN button' = DOMAIN button
      BY <2>2 DEF DisableRule
    <3>2. QED  BY <3>1, CalledFits
  <2>3. CASE DisableAnswered
    <3> DEFINE wrote(c) == [n |-> asked + 1, from |-> "button", kind |-> "write",
                           list |-> c.list \cup {buttonRule}, state |-> "out"]
    <3>1. PICK call \in answersOf("button", "read") \cup answersOf("button", "write") :
            \/ button' = button /\ ruleCalls' = (ruleCalls \ {call}) \cup {wrote(call)}
            \/ /\ ruleCalls' = ruleCalls \ {call}
               /\ button' = [button EXCEPT !.busy = FALSE, !.disabled = @ \/ call.state = "done",
                                          !.open = call.state = "failed"]
      BY <2>3 DEF DisableAnswered
    <3>2. call.from = "button"
      BY DEF answersOf
    <3>3. /\ DOMAIN wrote(call) = {"n", "from", "kind", "list", "state"}
          /\ wrote(call).from = "button"
      OBVIOUS
    <3> HIDE DEF wrote
    <3>4. CallOK(wrote(call), made)
      BY <3>3 DEF CallOK
    <3>5. CASE button' = button /\ ruleCalls' = (ruleCalls \ {call}) \cup {wrote(call)}
      BY <3>2, <3>3, <3>4, <3>5 DEF RulesOK, RuleCallsFit
    <3>6. CASE /\ ruleCalls' = ruleCalls \ {call}
               /\ button' = [button EXCEPT !.busy = FALSE, !.disabled = @ \/ call.state = "done",
                                          !.open = call.state = "failed"]
      <4>1. DOMAIN button' = DOMAIN button /\ button'.busy = FALSE
        BY <1>2, <3>6
      <4>2. QED  BY <3>2, <3>6, <4>1 DEF RulesOK, RuleCallsFit
    <3>7. QED  BY <3>1, <3>5, <3>6
  <2>4. QED  BY <2>1, <2>2, <2>3
<1>4. RulesShape' /\ ListsFit'
  BY <1>1, <1>3 DEF RulesOK, RulesShape, ListsFit, Fits, Ordered
<1>5. RuleCallsFit'
  BY <1>1, <1>3 DEF RuleCallsFit, CallOK, Fits, Ordered
<1>6. NoDialogIsStuck'
  BY <1>1, <1>3 DEF RulesOK, NoDialogIsStuck
<1>7. QED  BY <1>4, <1>5, <1>6 DEF RulesOK

\* What a step of the comment rules' dialog must keep, for the invariant to hold after it.
LEMMA EditorFits ==
  ASSUME RulesOK, UNCHANGED <<comments, selection, button>>, made' \in Nat, made <= made',
         DOMAIN editor' = DOMAIN editor, Fits(editor'.rules, made'), editor'.editing \in Nat,
         \A c \in ruleCalls' : CallOK(c, made),
         \A c \in ruleCalls : c.from # "editor" => c \in ruleCalls',
         editor'.busy => \E c \in ruleCalls' : c.from = "editor" /\ c.kind # "test",
         editor'.testing => \E c \in ruleCalls' : c.from = "editor" /\ c.kind = "test"
  PROVE  RulesOK'
<1>1. made \in Nat /\ Fits(comments, made)
  BY DEF RulesOK, RulesShape, ListsFit
<1>2. Fits(comments', made')
  <2>1. Fits(comments, made')
    BY <1>1, FitsRelaxes
  <2>2. QED  BY <2>1
<1>3. RulesShape' /\ ListsFit'
  BY <1>2 DEF RulesOK, RulesShape, ListsFit
<1>4. RuleCallsFit'
  BY <1>1, CallRelaxes DEF RuleCallsFit
<1>5. NoDialogIsStuck'
  BY DEF RulesOK, NoDialogIsStuck
<1>6. QED  BY <1>3, <1>4, <1>5 DEF RulesOK

\* The dialog's requests, whose answers may come when it was closed and opened again.
LEMMA EditorAsks ==
  ASSUME RulesOK, ChangeEditorOpen \/ TestPattern \/ AddRule \/ SaveComments
  PROVE  RulesOK'
<1>1. UNCHANGED <<comments, selection, button, made>>
  BY DEF ChangeEditorOpen, TestPattern, AddRule, SaveComments, KeepWorkspace, KeepOthers
<1>2. /\ DOMAIN editor = {"open", "loaded", "rules", "dirty", "busy", "testing", "editing", "tab"}
      /\ made \in Nat /\ Fits(editor.rules, made) /\ editor.editing \in Nat
      /\ editor.busy => \E c \in ruleCalls : c.from = "editor" /\ c.kind # "test"
      /\ editor.testing => \E c \in ruleCalls : c.from = "editor" /\ c.kind = "test"
      /\ \A c \in ruleCalls : CallOK(c, made)
  BY DEF RulesOK, RulesShape, ListsFit, RuleCallsFit, NoDialogIsStuck
<1>3. /\ DOMAIN editor' = DOMAIN editor /\ editor'.rules = editor.rules /\ editor'.editing \in Nat
      /\ \A c \in ruleCalls' : CallOK(c, made)
      /\ ruleCalls \subseteq ruleCalls'
      /\ editor'.busy => \E c \in ruleCalls' : c.from = "editor" /\ c.kind # "test"
      /\ editor'.testing => \E c \in ruleCalls' : c.from = "editor" /\ c.kind = "test"
  <2>1. CASE ChangeEditorOpen
    <3>1. CASE editor.open
      <4>1. editor' = [editor EXCEPT !.open = FALSE] /\ ruleCalls' = ruleCalls
        BY <2>1, <3>1 DEF ChangeEditorOpen
      <4>2. /\ DOMAIN editor' = DOMAIN editor /\ editor'.rules = editor.rules
            /\ editor'.editing = editor.editing /\ editor'.busy = editor.busy
            /\ editor'.testing = editor.testing
        BY <1>2, <4>1
      <4>3. QED  BY <1>2, <4>1, <4>2
    <3>2. CASE ~editor.open
      <4>1. called("editor", "read", <<>>)
            /\ editor' = [editor EXCEPT !.open = TRUE, !.tab = "rules", !.loaded = FALSE, !.busy = TRUE,
                                        !.dirty = FALSE, !.editing = NewRule]
        BY <2>1, <3>2 DEF ChangeEditorOpen
      <4>2. /\ DOMAIN editor' = DOMAIN editor /\ editor'.rules = editor.rules
            /\ editor'.editing \in Nat /\ editor'.testing = editor.testing
        BY <1>2, <4>1 DEF NewRule
      <4>3. Fits(<<>>, made)
        BY <1>2, EmptyFits
      <4>4. /\ \A c \in ruleCalls' : CallOK(c, made)
            /\ ruleCalls \subseteq ruleCalls'
            /\ \E c \in ruleCalls' : c.from = "editor" /\ c.kind = "read"
        BY <4>1, <4>3, CalledFits
      <4>5. QED  BY <1>2, <4>2, <4>4
    <3>3. QED  BY <3>1, <3>2
  <2>2. CASE TestPattern
    <3>1. called("editor", "test", [add |-> FALSE]) /\ editor' = [editor EXCEPT !.testing = TRUE]
      BY <2>2 DEF TestPattern
    <3>2. /\ DOMAIN editor' = DOMAIN editor /\ editor'.rules = editor.rules
          /\ editor'.editing = editor.editing /\ editor'.busy = editor.busy
      BY <1>2, <3>1
    <3>3. [add |-> FALSE].add = FALSE
      OBVIOUS
    <3>4. /\ \A c \in ruleCalls' : CallOK(c, made)
          /\ ruleCalls \subseteq ruleCalls'
          /\ \E c \in ruleCalls' : c.from = "editor" /\ c.kind = "test"
      BY <3>1, <3>3, CalledFits
    <3>5. QED  BY <1>2, <3>2, <3>4
  <2>3. CASE AddRule
    <3> DEFINE addition == [add |-> TRUE, rules |-> editor.rules, editing |-> editor.editing]
    <3>1. /\ called("editor", "test", addition) /\ editor' = [editor EXCEPT !.testing = TRUE]
          /\ editor.editing = NewRule => Len(editor.rules) < MaxComments
      BY <2>3 DEF AddRule
    <3>2. /\ DOMAIN editor' = DOMAIN editor /\ editor'.rules = editor.rules
          /\ editor'.editing = editor.editing /\ editor'.busy = editor.busy
      BY <1>2, <3>1
    <3>3. addition.rules = editor.rules /\ addition.editing = editor.editing
      OBVIOUS
    <3> HIDE DEF addition
    <3>4. /\ \A c \in ruleCalls' : CallOK(c, made)
          /\ ruleCalls \subseteq ruleCalls'
          /\ \E c \in ruleCalls' : c.from = "editor" /\ c.kind = "test"
      BY <1>2, <3>1, <3>3, CalledFits
    <3>5. QED  BY <1>2, <3>2, <3>4
  <2>4. CASE SaveComments
    <3>1. called("editor", "write", editor.rules) /\ editor' = [editor EXCEPT !.busy = TRUE]
      BY <2>4 DEF SaveComments
    <3>2. /\ DOMAIN editor' = DOMAIN editor /\ editor'.rules = editor.rules
          /\ editor'.editing = editor.editing /\ editor'.testing = editor.testing
      BY <1>2, <3>1
    <3>3. /\ \A c \in ruleCalls' : CallOK(c, made)
          /\ ruleCalls \subseteq ruleCalls'
          /\ \E c \in ruleCalls' : c.from = "editor" /\ c.kind = "write"
      BY <1>2, <3>1, CalledFits
    <3>4. QED  BY <1>2, <3>2, <3>3
  <2>5. QED  BY <2>1, <2>2, <2>3, <2>4
<1>4. made' = made /\ Fits(editor'.rules, made') /\ made' \in Nat /\ made <= made'
  BY <1>1, <1>2, <1>3
<1>5. QED  BY <1>1, <1>3, <1>4, EditorFits

LEMMA EditorEdits ==
  ASSUME RulesOK, \/ OpenEditorTab \/ CancelEditing
                  \/ \E i \in DOMAIN editor.rules : Inspect(editor.rules[i]) \/ RemoveRule(editor.rules[i])
  PROVE  RulesOK'
<1>1. UNCHANGED <<comments, selection, button, made, ruleCalls>>
  BY DEF OpenEditorTab, CancelEditing, Inspect, RemoveRule, KeepWorkspace, KeepOthers
<1>2. /\ DOMAIN editor = {"open", "loaded", "rules", "dirty", "busy", "testing", "editing", "tab"}
      /\ made \in Nat /\ Fits(editor.rules, made) /\ editor.editing \in Nat
      /\ editor.busy => \E c \in ruleCalls : c.from = "editor" /\ c.kind # "test"
      /\ editor.testing => \E c \in ruleCalls : c.from = "editor" /\ c.kind = "test"
      /\ \A c \in ruleCalls : CallOK(c, made)
  BY DEF RulesOK, RulesShape, ListsFit, RuleCallsFit, NoDialogIsStuck
<1>3. /\ DOMAIN editor' = DOMAIN editor /\ Fits(editor'.rules, made) /\ editor'.editing \in Nat
      /\ editor'.busy = editor.busy /\ editor'.testing = editor.testing
  <2>1. CASE OpenEditorTab \/ CancelEditing
    <3>1. /\ DOMAIN editor' = DOMAIN editor /\ editor'.rules = editor.rules
          /\ editor'.editing = editor.editing \/ editor'.editing = NewRule
          /\ editor'.busy = editor.busy /\ editor'.testing = editor.testing
      BY <1>2, <2>1 DEF OpenEditorTab, CancelEditing
    <3>2. QED  BY <1>2, <3>1 DEF NewRule
  <2>2. CASE \E i \in DOMAIN editor.rules : Inspect(editor.rules[i]) \/ RemoveRule(editor.rules[i])
    <3>1. PICK i \in DOMAIN editor.rules : Inspect(editor.rules[i]) \/ RemoveRule(editor.rules[i])
      BY <2>2
    <3>2. Ordered(editor.rules, made) /\ Len(editor.rules) <= MaxComments /\ MaxComments \in Nat
      BY <1>2, RulesAssumption DEF Fits
    <3>3. editor.rules[i].id \in Nat /\ Len(editor.rules) \in Nat
      BY <3>2, RowsOf DEF Ordered
    <3> DEFINE less == filtered(editor.rules, editor.rules[i].id)
    <3>4. Ordered(less, made) /\ Len(less) <= Len(editor.rules)
      BY <1>2, <3>2, FilteredIsOrdered
    <3>5. Len(less) \in Nat
      BY <3>4, RowsOf DEF Ordered
    <3>6. CASE Inspect(editor.rules[i])
      <4>1. editor' = [editor EXCEPT !.tab = "editor", !.editing = editor.rules[i].id]
        BY <3>6 DEF Inspect
      <4>2. QED  BY <1>2, <3>3, <4>1
    <3>7. CASE RemoveRule(editor.rules[i])
      <4>1. editor' = [editor EXCEPT !.dirty = TRUE, !.rules = less,
                          !.editing = IF @ = editor.rules[i].id THEN NewRule ELSE @]
        BY <3>7 DEF RemoveRule
      <4> HIDE DEF less
      <4>2. Fits(less, made)
        BY <3>2, <3>3, <3>4, <3>5 DEF Fits
      <4>3. QED  BY <1>2, <4>1, <4>2 DEF NewRule
    <3>8. QED  BY <3>1, <3>6, <3>7
  <2>3. QED  BY <2>1, <2>2
<1>4. made' = made /\ made' \in Nat /\ made <= made'
  BY <1>1, <1>2
<1>5. QED  BY <1>1, <1>2, <1>3, <1>4, EditorFits

\* Answers that the dialog reads, whatever became of it since it asked.
LEMMA EditorReads ==
  ASSUME RulesOK, EditorLoaded \/ TestAnswered \/ CommentsSaved
  PROVE  RulesOK'
<1>1. UNCHANGED <<comments, selection, button>>
  BY DEF EditorLoaded, TestAnswered, CommentsSaved, readAnswer, KeepOthers
<1>2. /\ DOMAIN editor = {"open", "loaded", "rules", "dirty", "busy", "testing", "editing", "tab"}
      /\ made \in Nat /\ Fits(editor.rules, made) /\ editor.editing \in Nat
      /\ editor.busy => \E c \in ruleCalls : c.from = "editor" /\ c.kind # "test"
      /\ editor.testing => \E c \in ruleCalls : c.from = "editor" /\ c.kind = "test"
      /\ \A c \in ruleCalls : CallOK(c, made)
  BY DEF RulesOK, RulesShape, ListsFit, RuleCallsFit, NoDialogIsStuck
<1>3. CASE EditorLoaded \/ CommentsSaved
  <2>1. PICK call \in answersOf("editor", "read") \cup answersOf("editor", "write") :
          /\ ruleCalls' = ruleCalls \ {call} /\ made' = made
          /\ \/ editor' = [editor EXCEPT !.busy = FALSE]
             \/ editor' = [editor EXCEPT !.busy = FALSE, !.loaded = TRUE, !.rules = call.list]
             \/ editor' = [editor EXCEPT !.busy = FALSE, !.rules = call.list, !.dirty = FALSE]
    BY <1>3 DEF EditorLoaded, CommentsSaved, readAnswer
  <2>2. call \in ruleCalls /\ call.from = "editor" /\ call.kind # "test"
    BY DEF answersOf
  <2>3. Fits(call.list, made)
    BY <1>2, <2>2 DEF CallOK
  <2>4. /\ DOMAIN editor' = DOMAIN editor /\ editor'.rules \in {editor.rules, call.list}
        /\ editor'.editing = editor.editing /\ editor'.busy = FALSE /\ editor'.testing = editor.testing
    BY <1>2, <2>1
  <2>5. Fits(editor'.rules, made') /\ made' \in Nat /\ made <= made'
    BY <1>2, <2>1, <2>3, <2>4
  <2>6. QED  BY <1>1, <1>2, <2>1, <2>2, <2>4, <2>5, EditorFits
<1>4. CASE TestAnswered
  <2>1. PICK call \in answersOf("editor", "test") :
          /\ ruleCalls' = ruleCalls \ {call}
          /\ IF call.state = "done" /\ call.list.add
             THEN LET id == IF call.list.editing = NewRule THEN made + 1 ELSE call.list.editing IN
                  /\ made' = IF call.list.editing = NewRule THEN made + 1 ELSE made
                  /\ editor' = [editor EXCEPT !.testing = FALSE, !.dirty = TRUE, !.tab = "rules",
                                              !.editing = NewRule, !.rules = added(call.list, id)]
             ELSE editor' = [editor EXCEPT !.testing = FALSE] /\ made' = made
    BY <1>4 DEF TestAnswered, readAnswer
  <2>2. call \in ruleCalls /\ call.from = "editor" /\ call.kind = "test"
    BY DEF answersOf
  <2>3. call.list.add =>
           /\ Fits(call.list.rules, made) /\ call.list.editing \in Nat
           /\ call.list.editing = NewRule => Len(call.list.rules) < MaxComments
    BY <1>2, <2>2 DEF CallOK
  <2>4. /\ DOMAIN editor' = DOMAIN editor /\ editor'.busy = editor.busy /\ editor'.testing = FALSE
        /\ editor'.editing \in {editor.editing, NewRule}
    BY <1>2, <2>1
  <2>5. made' \in Nat /\ made <= made' /\ Fits(editor'.rules, made')
    <3>1. CASE ~(call.state = "done" /\ call.list.add)
      <4>1. editor'.rules = editor.rules /\ made' = made
        BY <1>2, <2>1, <3>1
      <4>2. QED  BY <1>2, <4>1
    <3>2. CASE call.state = "done" /\ call.list.add
      <4>1. CASE call.list.editing = NewRule
        <5>1. made' = made + 1 /\ editor'.rules = added(call.list, made + 1)
          BY <1>2, <2>1, <3>2, <4>1
        <5>2. Fits(added(call.list, made + 1), made + 1)
          BY <1>2, <2>3, <3>2, <4>1, AddedFits
        <5>3. QED  BY <1>2, <5>1, <5>2
      <4>2. CASE call.list.editing # NewRule
        <5>1. made' = made /\ editor'.rules = added(call.list, call.list.editing)
          BY <1>2, <2>1, <3>2, <4>2
        <5>2. Fits(added(call.list, call.list.editing), made)
          BY <1>2, <2>3, <3>2, <4>2, AddedFits
        <5>3. QED  BY <1>2, <5>1, <5>2
      <4>3. QED  BY <4>1, <4>2
    <3>3. QED  BY <3>1, <3>2
  <2>6. editor'.editing \in Nat
    BY <1>2, <2>4 DEF NewRule
  <2>7. QED  BY <1>1, <1>2, <2>1, <2>2, <2>4, <2>5, <2>6, EditorFits
<1>5. QED  BY <1>3, <1>4

LEMMA RulesMove == ASSUME RulesOK, RulesNext PROVE RulesOK'
<1>1. CASE ServeRules \/ OthersSave
  BY <1>1, ServingKeeps, OthersKeep
<1>2. CASE \/ ChangeSelectionOpen \/ SelectionLoaded \/ SaveSelection \/ SelectionSaved
           \/ \E r \in RuleIds : TickRule(r)
  BY <1>2, SelectionKeeps
<1>3. CASE OpenButton \/ DisableRule \/ DisableAnswered
  BY <1>3, ButtonKeeps
<1>4. CASE ChangeEditorOpen \/ TestPattern \/ AddRule \/ SaveComments
  BY <1>4, EditorAsks
<1>5. CASE \/ OpenEditorTab \/ CancelEditing
           \/ \E i \in DOMAIN editor.rules : Inspect(editor.rules[i]) \/ RemoveRule(editor.rules[i])
  BY <1>5, EditorEdits
<1>6. CASE EditorLoaded \/ TestAnswered \/ CommentsSaved
  BY <1>6, EditorReads
<1>7. QED  BY <1>1, <1>2, <1>3, <1>4, <1>5, <1>6 DEF RulesNext

\* Whatever answers of the three places overlap, and whatever other administrators save in
\* between, the comment rules of every list stand in the order they were made, no list is
\* longer than the API takes, and no dialog is busy with nothing to wait for.
THEOREM RulesStayInOrder == RulesSpec => []RulesInv
<1>1. RulesOK => RulesInv
  <2>1. RulesOK => \A list \in commentLists : Fits(list, made)
    BY DEF RulesOK, ListsFit, RuleCallsFit, CallOK, commentLists
  <2>2. RulesOK => RulesInOrderMade /\ ListFitsTheApi
    BY <2>1 DEF RulesInOrderMade, ListFitsTheApi, Fits, Ordered
  <2>3. QED  BY <2>2 DEF RulesOK, RulesInv
<1>2. QED  BY RulesStart, RulesStay, RulesMove, <1>1, PTL DEF RulesSpec

-----------------------------------------------------------------------------
(***************************************************************************)
(* The guided tour.                                                        *)
(***************************************************************************)
\* What the reader said is in the storage of the browser.
EndIsKept == toldEnd \in BOOLEAN /\ (toldEnd => tourEnd # "")

LEMMA TourStarts == TourInit => EndIsKept
BY DEF TourInit, EndIsKept

\* However the tour is ended, its end is kept if the user is known.
LEMMA EndingKeeps ==
  ASSUME EndIsKept, NEW status, status # "", persistEnd(status), NoteEnd
  PROVE  EndIsKept' /\ tourScope' = "none"
<1>1. tourEnd' = (IF tourSession # "unread" THEN status ELSE tourEnd) /\ tourScope' = "none"
  BY DEF persistEnd
<1>2. toldEnd' = (toldEnd \/ tourSession # "unread")
  BY DEF NoteEnd
<1>3. QED  BY <1>1, <1>2 DEF EndIsKept

\* A step keeps the end of the tour, and begins the tour again only when a lesson is asked for.
LEMMA TourMoves ==
  ASSUME EndIsKept, [TourNext]_tourVars
  PROVE  EndIsKept' /\ (toldEnd /\ tourScope = "none" /\ tourScope' # "none" => StartLesson)
<1>1. ASSUME KeepUser \/ UNCHANGED <<toldEnd, tourEnd>> PROVE EndIsKept'
  <2>1. toldEnd' = toldEnd /\ tourEnd' = tourEnd
    BY <1>1 DEF KeepUser
  <2>2. QED  BY <2>1 DEF EndIsKept
<1>2. ASSUME KeepUser \/ UNCHANGED <<toldEnd, tourEnd>>, tourScope' = tourScope
      PROVE  EndIsKept' /\ (tourScope = "none" => tourScope' = "none")
  BY <1>1, <1>2
<1>3. CASE UNCHANGED tourVars
  BY <1>2, <1>3 DEF tourVars
<1>4. CASE ReadTourSession \/ ReadTourProjects
  BY <1>2, <1>4 DEF ReadTourSession, ReadTourProjects
<1>5. CASE AutoStart
  <2>1. UNCHANGED <<toldEnd, tourEnd>> /\ (tourEnd # "" => tourScope' = tourScope)
    BY <1>5 DEF AutoStart
  <2>2. QED  BY <1>1, <2>1 DEF EndIsKept
<1>6. CASE Reload
  BY <1>1, <1>6 DEF Reload
<1>7. CASE QuerySeen \/ PushRoute \/ Navigate \/ onBack \/ onClose \/ KeepLearning
  BY <1>2, <1>7 DEF QuerySeen, PushRoute, Navigate, onBack, onClose, KeepLearning
<1>8. CASE next
  <2>1. CASE persistEnd("completed") /\ NoteEnd
    BY <2>1, EndingKeeps
  <2>2. CASE UNCHANGED tourScope /\ KeepUser
    BY <1>2, <2>2
  <2>3. QED  BY <1>8, <2>1, <2>2 DEF next
<1>9. CASE skipSection
  <2>1. CASE persistEnd("completed") /\ NoteEnd
    BY <2>1, EndingKeeps
  <2>2. CASE UNCHANGED tourScope /\ KeepUser
    BY <1>2, <2>2
  <2>3. QED  BY <1>9, <2>1, <2>2 DEF skipSection
<1>10. CASE SkipAll
  BY <1>10, EndingKeeps DEF SkipAll
<1>11. CASE StartLesson
  BY <1>1, <1>11 DEF StartLesson
<1>12. QED
  BY <1>3, <1>4, <1>5, <1>6, <1>7, <1>8, <1>9, <1>10, <1>11 DEF TourNext

\* For tours of any length: who ended the tour in this browser is not shown it again unasked,
\* whatever of it the API learned, and however often the page is loaded again.
THEOREM TourEndIsRemembered == TourSpec => EndedIsRemembered
<1>1. TourSpec => []EndIsKept
  BY TourStarts, TourMoves, PTL DEF TourSpec
<1>2. EndIsKept /\ [TourNext]_tourVars
        => [toldEnd /\ tourScope = "none" /\ tourScope' # "none" => StartLesson]_tourVars
  BY TourMoves
<1>3. QED  BY <1>1, <1>2, PTL DEF TourSpec, EndedIsRemembered

-----------------------------------------------------------------------------
(***************************************************************************)
(* The card of the tour.                                                   *)
(***************************************************************************)
Sizes == [width : Nat, height : Nat]
Rects == [left : Int, top : Int, right : Int, bottom : Int]

CardShape == viewport \in Sizes /\ cardSize \in Sizes /\ targetRect \in Rects \cup {NoRect}

\* The card fits into the window.
RoomForCard == lastLeft >= gap /\ lastTop >= gap

\* How far a card of some length, put at some place, lies over what goes from one end to another.
Over(at, length, from, to) == Narrowest(at + length, to) - Widest(at, from)

LEMMA SidesAreInt ==
  ASSUME CardShape
  PROVE  /\ cardSize.width \in Nat /\ cardSize.height \in Nat /\ lastLeft \in Int /\ lastTop \in Int
         /\ targetRect # NoRect => /\ targetRect.left \in Int /\ targetRect.right \in Int
                                   /\ targetRect.top \in Int /\ targetRect.bottom \in Int
BY DEF CardShape, Sizes, Rects, lastLeft, lastTop, gap

\* A place covers some of the target if it does so both ways.
LEMMA CoversBothWays ==
  ASSUME CardShape, NEW left \in Int, NEW top \in Int, targetRect # NoRect
  PROVE  /\ overlapArea(At(left, top)) \in Nat
         /\ overlapArea(At(left, top)) > 0
              <=> /\ Over(left, cardSize.width, targetRect.left, targetRect.right) > 0
                  /\ Over(top, cardSize.height, targetRect.top, targetRect.bottom) > 0
<1> DEFINE width  == Over(left, cardSize.width, targetRect.left, targetRect.right)
           height == Over(top, cardSize.height, targetRect.top, targetRect.bottom)
<1>1. overlapArea(At(left, top)) = Widest(0, width) * Widest(0, height)
  BY DEF overlapArea, At, Over
<1>2. width \in Int /\ height \in Int
  BY SidesAreInt DEF Over, Narrowest, Widest
<1> HIDE DEF width, height
<1>3. Widest(0, width) \in Nat /\ (Widest(0, width) > 0 <=> width > 0)
  BY <1>2 DEF Widest
<1>4. Widest(0, height) \in Nat /\ (Widest(0, height) > 0 <=> height > 0)
  BY <1>2 DEF Widest
<1>5. \A a, b \in Nat : a * b \in Nat /\ (a * b > 0 <=> a > 0 /\ b > 0)
  OBVIOUS
<1>6. QED  BY <1>1, <1>3, <1>4, <1>5 DEF width, height

\* Along one side: where a place does not reach over the target, the first or the last does not.
LEMMA AnEndIsFree ==
  ASSUME NEW first \in Int, NEW last \in Int, NEW at \in first..last, NEW length \in Nat,
         NEW from \in Int, NEW to \in Int, ~(Over(at, length, from, to) > 0)
  PROVE  ~(Over(first, length, from, to) > 0) \/ ~(Over(last, length, from, to) > 0)
BY DEF Over, Narrowest, Widest

\* Beside the target nothing is covered.
LEMMA BesideIsFree ==
  ASSUME CardShape, NEW i \in DOMAIN candidates
  PROVE  overlapArea(candidates[i]) = 0
<1>1. targetRect # NoRect /\ targetIsUsable
  BY DEF candidates, targetIsUsable
<1> DEFINE t      == targetRect
           middle == clamp(t.left + (t.right - t.left - cardSize.width) \div 2, gap, lastLeft)
           side   == clamp(t.top, gap, lastTop)
<1>2. /\ t.left \in Int /\ t.right \in Int /\ t.top \in Int /\ t.bottom \in Int
      /\ cardSize.width \in Nat /\ cardSize.height \in Nat /\ lastLeft \in Int /\ lastTop \in Int
  BY <1>1, SidesAreInt
<1>3. middle \in Int /\ side \in Int
  BY <1>2 DEF clamp, Narrowest, Widest, gap
<1>4. candidates = <<At(t.right + gap, side), At(t.left - cardSize.width - gap, side),
                     At(middle, t.bottom + gap), At(middle, t.top - cardSize.height - gap)>>
  BY <1>1 DEF candidates
<1> HIDE DEF middle, side
<1>5. \E left, top \in Int :
        /\ candidates[i] = At(left, top)
        /\ \/ ~(Over(left, cardSize.width, t.left, t.right) > 0)
           \/ ~(Over(top, cardSize.height, t.top, t.bottom) > 0)
  <2>1. i \in 1..4
    BY <1>4
  <2>2. CASE i = 1
    BY <1>2, <1>3, <1>4, <2>2 DEF Over, Narrowest, Widest, gap
  <2>3. CASE i = 2
    BY <1>2, <1>3, <1>4, <2>3 DEF Over, Narrowest, Widest, gap
  <2>4. CASE i = 3
    BY <1>2, <1>3, <1>4, <2>4 DEF Over, Narrowest, Widest, gap
  <2>5. CASE i = 4
    BY <1>2, <1>3, <1>4, <2>5 DEF Over, Narrowest, Widest, gap
  <2>6. QED  BY <2>1, <2>2, <2>3, <2>4, <2>5
<1>6. PICK left, top \in Int :
        /\ candidates[i] = At(left, top)
        /\ \/ ~(Over(left, cardSize.width, t.left, t.right) > 0)
           \/ ~(Over(top, cardSize.height, t.top, t.bottom) > 0)
  BY <1>5
<1>7. overlapArea(At(left, top)) \in Nat /\ ~(overlapArea(At(left, top)) > 0)
  BY <1>1, <1>6, CoversBothWays
<1>8. QED  BY <1>6, <1>7

LEMMA EarliestIsOne ==
  ASSUME NEW S, S # {}, S \subseteq 1..4
  PROVE  earliest(S) \in S
<1>1. \E i \in S : \A j \in S : i <= j
  <2>1. CASE 1 \in S
    BY <2>1
  <2>2. CASE 1 \notin S /\ 2 \in S
    BY <2>2
  <2>3. CASE S \cap {1, 2} = {} /\ 3 \in S
    BY <2>3
  <2>4. CASE S \cap {1, 2, 3} = {} /\ 4 \in S
    BY <2>4
  <2>5. PICK i \in S : i \in 1..4
    OBVIOUS
  <2>6. i \in {1, 2, 3, 4}
    BY <2>5
  <2>7. QED  BY <2>1, <2>2, <2>3, <2>4, <2>6
<1>2. QED  BY <1>1 DEF earliest

LEMMA CornersFit ==
  ASSUME CardShape, RoomForCard
  PROVE  /\ DOMAIN corners = 1..4 /\ fitting(corners) = 1..4
         /\ \A i \in 1..4 : /\ corners[i].left \in {gap, lastLeft} /\ corners[i].top \in {gap, lastTop}
                            /\ corners[i] = At(corners[i].left, corners[i].top)
         /\ corners[1] = At(gap, gap) /\ corners[2] = At(lastLeft, gap)
         /\ corners[3] = At(gap, lastTop) /\ corners[4] = At(lastLeft, lastTop)
<1>1. lastLeft \in Int /\ lastTop \in Int /\ gap \in Int
  BY SidesAreInt DEF gap
<1>2. /\ corners[1] = At(gap, gap) /\ corners[2] = At(lastLeft, gap)
      /\ corners[3] = At(gap, lastTop) /\ corners[4] = At(lastLeft, lastTop)
      /\ DOMAIN corners = 1..4
  BY DEF corners
<1>3. \A i \in 1..4 : /\ corners[i].left \in {gap, lastLeft} /\ corners[i].top \in {gap, lastTop}
                      /\ corners[i] = At(corners[i].left, corners[i].top)
  BY <1>2 DEF At
<1>4. \A i \in 1..4 : fits(corners[i])
  BY <1>1, <1>3 DEF fits, RoomForCard
<1>5. QED  BY <1>2, <1>3, <1>4 DEF fitting

\* The corner that is taken covers no more than any other.
LEMMA CornerIsLeast ==
  ASSUME CardShape, RoomForCard
  PROVE  /\ \E i \in 1..4 : leastObstructiveCorner = corners[i]
         /\ \A j \in 1..4 : overlapArea(leastObstructiveCorner) <= overlapArea(corners[j])
<1> DEFINE area(i) == overlapArea(corners[i])
           S == {i \in 1..4 : \A j \in 1..4 : area(i) <= area(j)}
<1>1. \A i \in 1..4 : area(i) \in Nat
  <2>1. CASE targetRect = NoRect
    BY <2>1 DEF overlapArea
  <2>2. CASE targetRect # NoRect
    <3>1. \A i \in 1..4 : corners[i].left \in Int /\ corners[i].top \in Int
      BY CornersFit, SidesAreInt DEF gap
    <3>2. QED  BY <2>2, <3>1, CornersFit, CoversBothWays
  <2>3. QED  BY <2>1, <2>2
<1>2. leastObstructiveCorner = corners[earliest(S)]
  BY CornersFit DEF leastObstructiveCorner
<1> HIDE DEF area
<1>3. S # {}
  <2>1. area(1) \in Nat /\ area(2) \in Nat /\ area(3) \in Nat /\ area(4) \in Nat
    BY <1>1
  <2>2. \E m \in {area(1), area(2), area(3), area(4)} :
          m <= area(1) /\ m <= area(2) /\ m <= area(3) /\ m <= area(4)
    BY <2>1
  <2>3. QED  BY <2>2
<1>4. earliest(S) \in S
  BY <1>3, EarliestIsOne
<1>5. QED  BY <1>2, <1>4 DEF area

\* A card that fits is whole.
LEMMA CardIsWhole == ASSUME CardShape PROVE CardIsInside
<1> SUFFICES ASSUME RoomForCard
             PROVE  position.left \in gap..lastLeft /\ position.top \in gap..lastTop
  BY DEF CardIsInside, RoomForCard
<1>1. CASE fitting(candidates) # {}
  <2>1. fitting(candidates) \subseteq 1..4
    BY DEF fitting, candidates
  <2>2. earliest(fitting(candidates)) \in fitting(candidates)
    BY <1>1, <2>1, EarliestIsOne
  <2>3. QED  BY <1>1, <2>2 DEF position, fitting, fits
<1>2. CASE fitting(candidates) = {}
  <2>1. position = leastObstructiveCorner
    BY <1>2, CornersFit DEF position
  <2>2. \E i \in 1..4 : position = corners[i]
    BY <2>1, CornerIsLeast
  <2>3. \A i \in 1..4 : fits(corners[i])
    BY CornersFit DEF fitting
  <2>4. QED  BY <2>2, <2>3 DEF fits
<1>3. QED  BY <1>1, <1>2

\* What a step points at stays visible where it can.
LEMMA TargetIsVisible == ASSUME CardShape PROVE TargetIsLeftVisible
<1> SUFFICES ASSUME RoomForCard, overlapArea(position) > 0,
                    NEW left \in gap..lastLeft, NEW top \in gap..lastTop,
                    ~(overlapArea(At(left, top)) > 0)
             PROVE  FALSE
  BY DEF TargetIsLeftVisible, RoomForCard
<1>1. targetRect # NoRect
  BY DEF overlapArea
<1>2. fitting(candidates) = {}
  <2>1. SUFFICES ASSUME fitting(candidates) # {} PROVE FALSE
    OBVIOUS
  <2>2. fitting(candidates) \subseteq 1..4
    BY DEF fitting, candidates
  <2>3. earliest(fitting(candidates)) \in DOMAIN candidates
    BY <2>1, <2>2, EarliestIsOne DEF fitting
  <2>4. overlapArea(position) = 0
    BY <2>1, <2>3, BesideIsFree DEF position
  <2>5. QED  BY <2>4
<1>3. position = leastObstructiveCorner
  BY <1>2, CornersFit DEF position
<1>4. /\ lastLeft \in Int /\ lastTop \in Int /\ gap \in Int /\ left \in Int /\ top \in Int
      /\ gap \in gap..lastLeft /\ lastLeft \in gap..lastLeft
      /\ cardSize.width \in Nat /\ cardSize.height \in Nat
      /\ targetRect.left \in Int /\ targetRect.right \in Int
      /\ targetRect.top \in Int /\ targetRect.bottom \in Int
  BY <1>1, SidesAreInt DEF gap, RoomForCard
<1>5. \A j \in 1..4 : overlapArea(corners[j]) > 0
  <2>1. \A j \in 1..4 : overlapArea(position) <= overlapArea(corners[j]) /\ overlapArea(corners[j]) \in Nat
    <3>1. \A j \in 1..4 : corners[j].left \in Int /\ corners[j].top \in Int
      BY <1>4, CornersFit
    <3>2. \A j \in 1..4 : overlapArea(corners[j]) \in Nat
      BY <1>1, <3>1, CornersFit, CoversBothWays
    <3>3. QED  BY <1>3, <3>2, CornerIsLeast
  <2>2. overlapArea(position) \in Nat
    BY <1>3, <2>1, CornerIsLeast
  <2>3. QED  BY <2>1, <2>2
<1>6. /\ overlapArea(At(gap, gap)) > 0 /\ overlapArea(At(lastLeft, gap)) > 0
      /\ overlapArea(At(gap, lastTop)) > 0 /\ overlapArea(At(lastLeft, lastTop)) > 0
  BY <1>5, CornersFit
<1>7. /\ Over(gap, cardSize.width, targetRect.left, targetRect.right) > 0
      /\ Over(lastLeft, cardSize.width, targetRect.left, targetRect.right) > 0
      /\ Over(gap, cardSize.height, targetRect.top, targetRect.bottom) > 0
      /\ Over(lastTop, cardSize.height, targetRect.top, targetRect.bottom) > 0
  BY <1>1, <1>4, <1>6, CoversBothWays
<1>8. CASE ~(Over(left, cardSize.width, targetRect.left, targetRect.right) > 0)
  BY <1>4, <1>7, <1>8, AnEndIsFree
<1>9. CASE ~(Over(top, cardSize.height, targetRect.top, targetRect.bottom) > 0)
  BY <1>4, <1>7, <1>9, AnEndIsFree
<1>10. QED  BY <1>1, <1>4, <1>8, <1>9, CoversBothWays

\* For any windows, cards and targets, also those scrolled out of the window: a card that fits is
\* shown whole, and covers its target only where every place in the window would.
THEOREM CardIsPlacedWell == CardSpec => []CardInv
<1>1. CardInit => CardShape
  BY TourCardAssumption DEF CardInit, CardShape, Sizes
<1>2. CardShape /\ [CardNext]_cardVars => CardShape'
  BY TourCardAssumption DEF CardShape, Sizes, Rects, CardNext, resize, measure, locate, cardVars
<1>3. CardShape => CardInv
  BY CardIsWhole, TargetIsVisible DEF CardInv
<1>4. QED  BY <1>1, <1>2, <1>3, PTL DEF CardSpec

-----------------------------------------------------------------------------
(***************************************************************************)
(* The workspaces of the mock API.                                         *)
(***************************************************************************)
OwnedOK(o) ==
  /\ DOMAIN o = {"repos", "pool", "default", "assigned"}
  /\ IsFiniteSet(o.repos) /\ o.default \in o.pool
  /\ DOMAIN o.assigned \subseteq o.repos
  /\ \A r \in DOMAIN o.assigned : o.assigned[r] \in o.pool
  /\ Cardinality(o.pool \cap Customs) <= MaxCustomProfiles

MembersOK(people) ==
  /\ \A p \in DOMAIN people : DOMAIN people[p] = {"role", "active"}
  /\ \E p \in DOMAIN people : isActiveAdmin(people[p])

RecordOK(rec) ==
  /\ DOMAIN rec = {"role", "members", "invited", "disabled", "owned"}
  /\ MembersOK(rec.members) /\ OwnedOK(rec.owned)

\* A project is connected in one workspace.
NoSharedRepos(recs) == \A v, w \in DOMAIN recs : v # w => recs[v].owned.repos \cap recs[w].owned.repos = {}

RecordsOK(recs) ==
  /\ DOMAIN recs \subseteq MockSpaces
  /\ \A w \in DOMAIN recs : RecordOK(recs[w])
  /\ NoSharedRepos(recs)

\* The repositories of a workspace, other workspaces having none of them.
ReposAreOwn(recs, w, repos) == \A v \in DOMAIN recs : v # w => recs[v].owned.repos \cap repos = {}

MockOK ==
  /\ RecordsOK(records) /\ activeWorkspaceId \in DOMAIN records \cup {NoMockSpace}
  /\ OneTruth
  /\ store = <<>> => records = seedWorkspaces

LEMMA OwnedEmptyOK ==
  ASSUME NEW repos, IsFiniteSet(repos) PROVE OwnedOK(Owned(repos)) /\ Owned(repos).repos = repos
<1>1. Balanced \in Presets
  BY MockWorkspacesAssumption DEF Balanced
<1>2. Presets \cap Customs = {} /\ Cardinality({}) = 0 /\ MaxCustomProfiles \in Nat
  BY MockWorkspacesAssumption, FS_EmptySet
<1>3. DOMAIN NoneAssigned = {}
  BY DEF NoneAssigned
<1> DEFINE o == Owned(repos)
<1>4. /\ DOMAIN o = {"repos", "pool", "default", "assigned"} /\ o.repos = repos /\ o.pool = Presets
      /\ o.default = Balanced /\ o.assigned = NoneAssigned
  BY DEF Owned
<1> HIDE DEF o
<1>5. Cardinality(o.pool \cap Customs) <= MaxCustomProfiles
  BY <1>2, <1>4
<1>6. OwnedOK(o)
  BY <1>1, <1>3, <1>4, <1>5 DEF OwnedOK
<1>7. QED  BY <1>4, <1>6 DEF o

\* The only active administrator cannot step down, so another one remains.
LEMMA NotLastMeansOther ==
  ASSUME NEW people, MembersOK(people), NEW who \in DOMAIN people, ~isLastAdmin(people, who)
  PROVE  \E p \in DOMAIN people : p # who /\ isActiveAdmin(people[p])
<1>1. PICK p \in DOMAIN people : isActiveAdmin(people[p])
  BY DEF MembersOK
<1>2. CASE p # who
  BY <1>1, <1>2
<1>3. CASE p = who
  <2>1. {q \in DOMAIN people : isActiveAdmin(people[q])} # {who} /\ isActiveAdmin(people[who])
    BY <1>1, <1>3 DEF isLastAdmin
  <2>2. PICK q \in DOMAIN people : isActiveAdmin(people[q]) /\ q # who
    BY <2>1
  <2>3. QED  BY <2>2
<1>4. QED  BY <1>2, <1>3

LEMMA CreatorsOK == ASSUME NEW role, role = "org-admin" PROVE MembersOK(creatorMembership(role))
<1>1. /\ DOMAIN creatorMembership(role) = {Me}
      /\ creatorMembership(role)[Me] = [role |-> "org-admin", active |-> TRUE]
  BY DEF creatorMembership, Member
<1>2. QED  BY <1>1 DEF MembersOK, isActiveAdmin

LEMMA JoinedOK == ASSUME NEW role PROVE MembersOK(joinedMembers(role))
<1> DEFINE ms == joinedMembers(role)
<1>1. /\ DOMAIN ms = {Me, Owner}
      /\ ms[Owner] = [role |-> "org-admin", active |-> TRUE]
      /\ ms[Me] = [role |-> role, active |-> TRUE]
  BY DEF joinedMembers, creatorMembership, With, Member, Me, Owner
<1> HIDE DEF ms
<1>2. MembersOK(ms)
  BY <1>1 DEF MembersOK, isActiveAdmin
<1>3. QED  BY <1>2 DEF ms

LEMMA MockMembersOK == MembersOK(mockMembers)
<1>1. DOMAIN mockMembers = Mates \cup {Me}
  BY DEF mockMembers
<1>2. \A p \in Mates \cup {Me} : mockMembers[p] = [role |-> IF p = Me THEN "org-admin" ELSE "viewer", active |-> TRUE]
  BY DEF mockMembers, Member
<1>3. isActiveAdmin(mockMembers[Me])
  <2>1. mockMembers[Me] = [role |-> "org-admin", active |-> TRUE]
    BY <1>2
  <2>2. QED  BY <2>1 DEF isActiveAdmin
<1>4. QED  BY <1>1, <1>2, <1>3 DEF MembersOK

LEMMA RecordMade ==
  ASSUME NEW role, NEW people, MembersOK(people), NEW repos, IsFiniteSet(repos)
  PROVE  RecordOK(Record(role, people, repos)) /\ Record(role, people, repos).owned.repos = repos
<1> DEFINE rec == Record(role, people, repos)
<1>1. /\ DOMAIN rec = {"role", "members", "invited", "disabled", "owned"}
      /\ rec.members = people /\ rec.owned = Owned(repos)
  BY DEF Record
<1> HIDE DEF rec
<1>2. RecordOK(rec) /\ rec.owned.repos = repos
  BY <1>1, OwnedEmptyOK DEF RecordOK
<1>3. QED  BY <1>2 DEF rec

LEMMA SeedIsOK == RecordsOK(seedWorkspaces) /\ Home \in DOMAIN seedWorkspaces
<1>1. Home # Nimbus /\ SeededRepos[Home] \cap SeededRepos[Nimbus] = {}
      /\ IsFiniteSet(SeededRepos[Home]) /\ IsFiniteSet(SeededRepos[Nimbus])
  BY MockWorkspacesAssumption
<1>2. /\ DOMAIN seedWorkspaces = {Home, Nimbus}
      /\ seedWorkspaces[Home] = Record("org-admin", mockMembers, SeededRepos[Home])
      /\ seedWorkspaces[Nimbus] = Record("viewer", joinedMembers("viewer"), SeededRepos[Nimbus])
  BY <1>1 DEF seedWorkspaces
<1>3. /\ RecordOK(seedWorkspaces[Home]) /\ seedWorkspaces[Home].owned.repos = SeededRepos[Home]
      /\ RecordOK(seedWorkspaces[Nimbus]) /\ seedWorkspaces[Nimbus].owned.repos = SeededRepos[Nimbus]
  BY <1>1, <1>2, RecordMade, MockMembersOK, JoinedOK
<1>4. NoSharedRepos(seedWorkspaces)
  BY <1>1, <1>2, <1>3 DEF NoSharedRepos
<1>5. QED  BY <1>2, <1>3, <1>4 DEF RecordsOK, MockSpaces

-----------------------------------------------------------------------------
\* Packing what the handlers work on into the record of its workspace.
LEMMA PackIs ==
  ASSUME NEW recs, NEW w, NEW un, \A v \in DOMAIN recs : "owned" \in DOMAIN recs[v]
  PROVE  LET packed == packWorkspace(recs, w, un) IN
         /\ DOMAIN packed = DOMAIN recs
         /\ \A v \in DOMAIN recs : v # w => packed[v] = recs[v]
         /\ w \in DOMAIN recs =>
              /\ packed[w].owned = un /\ DOMAIN packed[w] = DOMAIN recs[w]
              /\ packed[w].members = recs[w].members
<1>1. CASE w \notin DOMAIN recs
  BY <1>1 DEF packWorkspace
<1>2. CASE w \in DOMAIN recs
  <2>1. packWorkspace(recs, w, un) = [recs EXCEPT ![w] = [recs[w] EXCEPT !.owned = un]]
    BY <1>2 DEF packWorkspace
  <2>2. "owned" \in DOMAIN recs[w]
    BY <1>2
  <2> DEFINE rec == [recs[w] EXCEPT !.owned = un]
  <2>3. rec.owned = un /\ DOMAIN rec = DOMAIN recs[w] /\ rec.members = recs[w].members
    BY <2>2
  <2> HIDE DEF rec
  <2>4. packWorkspace(recs, w, un) = [recs EXCEPT ![w] = rec]
    BY <2>1 DEF rec
  <2>5. QED  BY <1>2, <2>3, <2>4
<1>3. QED  BY <1>1, <1>2

LEMMA PackKeeps ==
  ASSUME NEW recs, RecordsOK(recs), NEW w, NEW un,
         w \in DOMAIN recs => OwnedOK(un) /\ ReposAreOwn(recs, w, un.repos)
  PROVE  RecordsOK(packWorkspace(recs, w, un))
<1> DEFINE packed == packWorkspace(recs, w, un)
<1>1. \A v \in DOMAIN recs : RecordOK(recs[v]) /\ "owned" \in DOMAIN recs[v]
  BY DEF RecordsOK, RecordOK
<1>2. /\ DOMAIN packed = DOMAIN recs
      /\ \A v \in DOMAIN recs : v # w => packed[v] = recs[v]
      /\ w \in DOMAIN recs =>
           /\ packed[w].owned = un /\ DOMAIN packed[w] = DOMAIN recs[w]
           /\ packed[w].members = recs[w].members
  BY <1>1, PackIs
<1> HIDE DEF packed
<1>3. \A v \in DOMAIN packed : RecordOK(packed[v])
  <2>1. w \in DOMAIN recs => RecordOK(packed[w])
    BY <1>1, <1>2 DEF RecordOK
  <2>2. QED  BY <1>1, <1>2, <2>1
<1>4. NoSharedRepos(packed)
  <2>1. NoSharedRepos(recs)
    BY DEF RecordsOK
  <2>2. QED  BY <1>2, <2>1 DEF NoSharedRepos, ReposAreOwn
<1>5. DOMAIN packed \subseteq MockSpaces
  BY <1>2 DEF RecordsOK
<1>6. RecordsOK(packed)
  BY <1>3, <1>4, <1>5 DEF RecordsOK
<1>7. QED  BY <1>6 DEF packed

\* Every way a handler ends: what it worked on is packed and stored.
LEMMA PersistKeeps ==
  ASSUME NEW recs, RecordsOK(recs), NEW w \in DOMAIN recs \cup {NoMockSpace}, NEW un,
         w \in DOMAIN recs => OwnedOK(un) /\ ReposAreOwn(recs, w, un.repos),
         w \notin DOMAIN recs => un = NothingOwned,
         persistState(recs, w, un)
  PROVE  MockOK'
<1> DEFINE packed == packWorkspace(recs, w, un)
<1>1. records' = packed /\ activeWorkspaceId' = w /\ unpacked' = un /\ store' = <<packed, w>>
  BY DEF persistState
<1>2. RecordsOK(packed)
  BY PackKeeps
<1>3. \A v \in DOMAIN recs : "owned" \in DOMAIN recs[v]
  BY DEF RecordsOK, RecordOK
<1>4. w \in DOMAIN recs => packed[w].owned = un
  BY <1>3, PackIs
<1>5. DOMAIN packed = DOMAIN recs
  BY <1>3, PackIs
<1> HIDE DEF packed
<1>6. unpackWorkspace(packed, w) = un
  BY <1>4, <1>5 DEF unpackWorkspace
<1>7. <<packed, w>> # <<>>
  OBVIOUS
<1>8. OneTruth'
  BY <1>1, <1>6 DEF OneTruth
<1>9. (RecordsOK(records) /\ activeWorkspaceId \in DOMAIN records \cup {NoMockSpace})'
  BY <1>1, <1>2, <1>5
<1>10. (store = <<>> => records = seedWorkspaces)'
  BY <1>1, <1>7
<1>11. QED  BY <1>8, <1>9, <1>10 DEF MockOK

\* What the handlers work on is what the active workspace owns, and can be used.
LEMMA UnpackedFits ==
  ASSUME MockOK
  PROVE  /\ activeWorkspaceId \in DOMAIN records =>
              /\ OwnedOK(unpacked) /\ unpacked = records[activeWorkspaceId].owned
              /\ ReposAreOwn(records, activeWorkspaceId, unpacked.repos)
         /\ activeWorkspaceId \notin DOMAIN records => unpacked = NothingOwned
<1>1. unpacked = unpackWorkspace(records, activeWorkspaceId) /\ RecordsOK(records)
  BY DEF MockOK, OneTruth
<1>2. CASE activeWorkspaceId \in DOMAIN records
  <2>1. unpacked = records[activeWorkspaceId].owned /\ OwnedOK(unpacked)
    BY <1>1, <1>2 DEF unpackWorkspace, RecordsOK, RecordOK
  <2>2. ReposAreOwn(records, activeWorkspaceId, unpacked.repos)
    BY <1>1, <1>2, <2>1 DEF RecordsOK, NoSharedRepos, ReposAreOwn
  <2>3. QED  BY <1>2, <2>1, <2>2
<1>3. CASE activeWorkspaceId \notin DOMAIN records
  BY <1>1, <1>3 DEF unpackWorkspace
<1>4. QED  BY <1>2, <1>3

\* Another workspace becomes active.
LEMMA LoadKeeps ==
  ASSUME NEW recs, RecordsOK(recs), NEW w \in DOMAIN recs \cup {NoMockSpace},
         activeWorkspaceId \in DOMAIN recs =>
           OwnedOK(unpacked) /\ ReposAreOwn(recs, activeWorkspaceId, unpacked.repos),
         loadWorkspace(recs, w)
  PROVE  MockOK'
<1> DEFINE packed == packWorkspace(recs, activeWorkspaceId, unpacked)
           un == unpackWorkspace(packed, w)
<1>1. persistState(packed, w, un)
  BY DEF loadWorkspace
<1>2. RecordsOK(packed)
  BY PackKeeps
<1>3. \A v \in DOMAIN recs : "owned" \in DOMAIN recs[v]
  BY DEF RecordsOK, RecordOK
<1>4. DOMAIN packed = DOMAIN recs
  BY <1>3, PackIs
<1> HIDE DEF packed
<1>5. w \in DOMAIN packed => OwnedOK(un) /\ ReposAreOwn(packed, w, un.repos)
  BY <1>2 DEF unpackWorkspace, RecordsOK, RecordOK, NoSharedRepos, ReposAreOwn
<1>6. w \notin DOMAIN packed => un = NothingOwned
  BY DEF unpackWorkspace
<1> HIDE DEF un
<1>7. w \in DOMAIN packed \cup {NoMockSpace}
  BY <1>4
<1>8. QED  BY <1>1, <1>2, <1>5, <1>6, <1>7, PersistKeeps

\* A workspace that begins without projects joins the others.
LEMMA WithKeeps ==
  ASSUME MockOK, NEW w \in MockSpaces, w \notin DOMAIN records, NEW rec, RecordOK(rec), rec.owned.repos = {}
  PROVE  LET recs == With(records, w, rec) IN
         /\ RecordsOK(recs) /\ DOMAIN recs = DOMAIN records \cup {w}
         /\ activeWorkspaceId \in DOMAIN recs /\ activeWorkspaceId \in DOMAIN records =>
              OwnedOK(unpacked) /\ ReposAreOwn(recs, activeWorkspaceId, unpacked.repos)
         /\ activeWorkspaceId \in DOMAIN recs => activeWorkspaceId \in DOMAIN records \/ activeWorkspaceId = w
<1> DEFINE recs == With(records, w, rec)
<1>1. /\ DOMAIN recs = DOMAIN records \cup {w}
      /\ recs[w] = rec
      /\ \A v \in DOMAIN records : recs[v] = records[v]
  BY DEF With
<1>2. RecordsOK(records)
  BY DEF MockOK
<1> HIDE DEF recs
<1>3. \A v \in DOMAIN recs : RecordOK(recs[v])
  BY <1>1, <1>2 DEF RecordsOK
<1>4. NoSharedRepos(recs)
  BY <1>1, <1>2 DEF RecordsOK, NoSharedRepos
<1>5. RecordsOK(recs)
  BY <1>1, <1>2, <1>3, <1>4 DEF RecordsOK
<1>6. activeWorkspaceId \in DOMAIN records => OwnedOK(unpacked) /\ ReposAreOwn(recs, activeWorkspaceId, unpacked.repos)
  BY <1>1, UnpackedFits DEF ReposAreOwn
<1>7. QED  BY <1>1, <1>5, <1>6 DEF recs

-----------------------------------------------------------------------------
LEMMA MockStarts == MockInit => MockOK
<1> SUFFICES ASSUME MockInit PROVE MockOK
  OBVIOUS
<1>1. /\ records = seedWorkspaces /\ activeWorkspaceId \in {NoMockSpace, Home} /\ store = <<>>
      /\ unpacked = unpackWorkspace(seedWorkspaces, activeWorkspaceId)
  BY DEF MockInit
<1>2. OneTruth
  BY <1>1 DEF OneTruth
<1>3. QED  BY <1>1, <1>2, SeedIsOK DEF MockOK

LEMMA MockStay == ASSUME MockOK, UNCHANGED mockVars PROVE MockOK'
<1>1. UNCHANGED <<records, activeWorkspaceId, unpacked, store>>
  BY DEF mockVars
<1>2. OneTruth'
  BY <1>1 DEF MockOK, OneTruth
<1>3. QED  BY <1>1, <1>2 DEF MockOK

LEMMA ReloadKeeps == ASSUME MockOK, ReloadMock PROVE MockOK'
<1>1. store' = store
  BY DEF ReloadMock
<1>2. /\ records' = records \/ records' = seedWorkspaces
      /\ activeWorkspaceId' = activeWorkspaceId
      /\ unpacked' = unpackWorkspace(records', activeWorkspaceId')
      /\ store = <<>> => records' = seedWorkspaces
      /\ store # <<>> => store = <<records', activeWorkspaceId'>>
      /\ records' = records
  <2>1. CASE store = <<>>
    <3>1. /\ records' = seedWorkspaces /\ activeWorkspaceId' = activeWorkspaceId
          /\ unpacked' = unpackWorkspace(seedWorkspaces, activeWorkspaceId)
      BY <2>1 DEF ReloadMock, restore
    <3>2. records = seedWorkspaces
      BY <2>1 DEF MockOK
    <3>3. QED  BY <2>1, <3>1, <3>2
  <2>2. CASE store # <<>>
    <3>1. store = <<records, activeWorkspaceId>>
      BY <2>2 DEF MockOK, OneTruth
    <3>2. /\ records' = store[1] /\ activeWorkspaceId' = store[2]
          /\ unpacked' = unpackWorkspace(store[1], store[2])
      BY <2>2 DEF ReloadMock, restore
    <3>3. store[1] = records /\ store[2] = activeWorkspaceId
      BY <3>1
    <3>4. QED  BY <2>2, <3>1, <3>2, <3>3
  <2>3. QED  BY <2>1, <2>2
<1>3. OneTruth'
  BY <1>1, <1>2 DEF OneTruth
<1>4. QED  BY <1>1, <1>2, <1>3 DEF MockOK

LEMMA CreatingKeeps == ASSUME MockOK, NEW w, CreateWorkspace(w) PROVE MockOK'
<1> DEFINE rec == Record("org-admin", creatorMembership("org-admin"), {})
           recs == With(records, w, rec)
<1>1. w \in MockSpaces /\ w \notin DOMAIN records /\ loadWorkspace(recs, w)
  BY DEF CreateWorkspace, MockSpaces
<1>2. RecordOK(rec) /\ rec.owned.repos = {}
  <2>1. IsFiniteSet({}) /\ MembersOK(creatorMembership("org-admin"))
    BY FS_EmptySet, CreatorsOK
  <2>2. QED  BY <2>1, RecordMade
<1> HIDE DEF rec
<1>3. /\ RecordsOK(recs) /\ DOMAIN recs = DOMAIN records \cup {w}
      /\ activeWorkspaceId \in DOMAIN recs /\ activeWorkspaceId \in DOMAIN records =>
           OwnedOK(unpacked) /\ ReposAreOwn(recs, activeWorkspaceId, unpacked.repos)
  BY <1>1, <1>2, WithKeeps
<1>4. activeWorkspaceId # w
  BY <1>1, MockWorkspacesAssumption DEF MockOK
<1> HIDE DEF recs
<1>5. QED  BY <1>1, <1>3, <1>4, LoadKeeps

LEMMA SwitchingKeeps == ASSUME MockOK, NEW w, SwitchWorkspace(w) PROVE MockOK'
<1>1. w \in DOMAIN records /\ loadWorkspace(records, w)
  BY DEF SwitchWorkspace
<1>2. QED  BY <1>1, UnpackedFits, LoadKeeps DEF MockOK

LEMMA DeletingKeeps == ASSUME MockOK, DeleteWorkspace PROVE MockOK'
<1> DEFINE recs == Restrict(records, DOMAIN records \ {activeWorkspaceId})
<1>1. loadWorkspace(recs, NoMockSpace)
  BY DEF DeleteWorkspace
<1>2. /\ DOMAIN recs = DOMAIN records \ {activeWorkspaceId}
      /\ \A v \in DOMAIN recs : recs[v] = records[v]
  BY DEF Restrict
<1> HIDE DEF recs
<1>3. RecordsOK(recs)
  <2>1. NoSharedRepos(recs)
    BY <1>2 DEF MockOK, RecordsOK, NoSharedRepos
  <2>2. QED  BY <1>2, <2>1 DEF MockOK, RecordsOK
<1>4. QED  BY <1>1, <1>2, <1>3, LoadKeeps

LEMMA AcceptingKeeps == ASSUME MockOK, AcceptInvitation PROVE MockOK'
<1> DEFINE rec == Record("developer", joinedMembers("developer"), {})
           recs == With(records, Orbit, rec)
<1>1. Orbit \notin DOMAIN records /\ persistState(recs, activeWorkspaceId, unpacked)
  BY DEF AcceptInvitation
<1>2. RecordOK(rec) /\ rec.owned.repos = {}
  <2>1. IsFiniteSet({}) /\ MembersOK(joinedMembers("developer"))
    BY FS_EmptySet, JoinedOK
  <2>2. QED  BY <2>1, RecordMade
<1> HIDE DEF rec
<1>3. Orbit \in MockSpaces
  BY DEF MockSpaces
<1>4. /\ RecordsOK(recs) /\ DOMAIN recs = DOMAIN records \cup {Orbit}
      /\ activeWorkspaceId \in DOMAIN recs /\ activeWorkspaceId \in DOMAIN records =>
           OwnedOK(unpacked) /\ ReposAreOwn(recs, activeWorkspaceId, unpacked.repos)
  BY <1>1, <1>2, <1>3, WithKeeps
<1>5. /\ activeWorkspaceId \in DOMAIN records \cup {NoMockSpace}
      /\ activeWorkspaceId \notin DOMAIN records => activeWorkspaceId = NoMockSpace
      /\ NoMockSpace # Orbit
  BY <1>3, MockWorkspacesAssumption DEF MockOK
<1> HIDE DEF recs
<1>6. activeWorkspaceId \notin DOMAIN recs => unpacked = NothingOwned
  BY <1>4, UnpackedFits
<1>7. QED  BY <1>1, <1>4, <1>5, <1>6, PersistKeeps

-----------------------------------------------------------------------------
\* A handler that changes the record of the active workspace.
LEMMA ChangeKeeps ==
  ASSUME MockOK, activeWorkspaceId \in DOMAIN records, NEW rec, RecordOK(rec),
         rec.owned = records[activeWorkspaceId].owned, ChangeRecord(rec)
  PROVE  MockOK'
<1> DEFINE recs == [records EXCEPT ![activeWorkspaceId] = rec]
<1>1. persistState(recs, activeWorkspaceId, unpacked)
  BY DEF ChangeRecord
<1>2. /\ DOMAIN recs = DOMAIN records /\ recs[activeWorkspaceId] = rec
      /\ \A v \in DOMAIN records : v # activeWorkspaceId => recs[v] = records[v]
  OBVIOUS
<1> HIDE DEF recs
<1>3. \A v \in DOMAIN records : recs[v].owned = records[v].owned
  BY <1>2
<1>4. RecordsOK(recs)
  <2>1. NoSharedRepos(recs)
    BY <1>2, <1>3 DEF MockOK, RecordsOK, NoSharedRepos
  <2>2. \A v \in DOMAIN recs : RecordOK(recs[v])
    BY <1>2 DEF MockOK, RecordsOK
  <2>3. QED  BY <1>2, <2>1, <2>2 DEF MockOK, RecordsOK
<1>5. OwnedOK(unpacked) /\ ReposAreOwn(recs, activeWorkspaceId, unpacked.repos)
  BY <1>2, <1>3, UnpackedFits DEF ReposAreOwn
<1>6. QED  BY <1>1, <1>2, <1>4, <1>5, PersistKeeps

LEMMA AdminsActive ==
  ASSUME MockOK, Administers
  PROVE  activeWorkspaceId \in DOMAIN records /\ RecordOK(records[activeWorkspaceId])
BY DEF Administers, MockOK, RecordsOK

LEMMA InvitationsKeep ==
  ASSUME MockOK, NEW who, InviteMate(who) \/ RevokeInvitation(who) PROVE MockOK'
<1> DEFINE rec == records[activeWorkspaceId]
<1>1. Administers
  BY DEF InviteMate, RevokeInvitation
<1>2. activeWorkspaceId \in DOMAIN records /\ RecordOK(rec)
  BY <1>1, AdminsActive
<1> HIDE DEF rec
<1>3. PICK invited : ChangeRecord([rec EXCEPT !.invited = invited])
  BY DEF InviteMate, RevokeInvitation, rec
<1> DEFINE changed == [rec EXCEPT !.invited = invited]
<1>4. DOMAIN changed = DOMAIN rec /\ changed.members = rec.members /\ changed.owned = rec.owned
  BY <1>2 DEF RecordOK
<1> HIDE DEF changed
<1>5. RecordOK(changed)
  BY <1>2, <1>4 DEF RecordOK
<1>6. ChangeRecord(changed)
  BY <1>3 DEF changed
<1>7. changed.owned = records[activeWorkspaceId].owned
  BY <1>4 DEF rec
<1>8. QED  BY <1>2, <1>5, <1>6, <1>7, ChangeKeeps

LEMMA RulesChangeKeeps == ASSUME MockOK, ChangeRules PROVE MockOK'
<1> DEFINE rec == records[activeWorkspaceId]
<1>1. activeWorkspaceId \in DOMAIN records /\ RecordOK(rec)
  BY AdminsActive DEF ChangeRules
<1> DEFINE changed == [rec EXCEPT !.disabled = ~@]
<1>2. ChangeRecord(changed)
  BY DEF ChangeRules
<1> HIDE DEF rec
<1>3. DOMAIN changed = DOMAIN rec /\ changed.members = rec.members /\ changed.owned = rec.owned
  BY <1>1 DEF RecordOK
<1> HIDE DEF changed
<1>4. RecordOK(changed) /\ changed.owned = records[activeWorkspaceId].owned
  BY <1>1, <1>3 DEF RecordOK, rec
<1>5. QED  BY <1>1, <1>2, <1>4, ChangeKeeps

\* A member gets another role or leaves, another administrator remaining.
LEMMA MemberChangeKeeps ==
  ASSUME MockOK, Administers, NEW who \in DOMAIN records[activeWorkspaceId].members,
         NEW member, DOMAIN member = {"role", "active"},
         \/ isActiveAdmin(records[activeWorkspaceId].members[who]) => isActiveAdmin(member)
         \/ ~isLastAdmin(records[activeWorkspaceId].members, who),
         NEW changed, ChangeRecord(changed), DOMAIN changed = DOMAIN records[activeWorkspaceId],
         changed.members = [records[activeWorkspaceId].members EXCEPT ![who] = member],
         changed.owned = records[activeWorkspaceId].owned
  PROVE  MockOK'
<1> DEFINE rec == records[activeWorkspaceId]
           people == rec.members
<1>1. activeWorkspaceId \in DOMAIN records /\ RecordOK(rec)
  BY AdminsActive
<1>2. MembersOK(people)
  BY <1>1 DEF RecordOK
<1>3. /\ DOMAIN changed.members = DOMAIN people /\ changed.members[who] = member
      /\ \A p \in DOMAIN people : p # who => changed.members[p] = people[p]
  OBVIOUS
<1>4. MembersOK(changed.members)
  <2>1. \A p \in DOMAIN changed.members : DOMAIN changed.members[p] = {"role", "active"}
    BY <1>2, <1>3 DEF MembersOK
  <2>2. \E p \in DOMAIN people : isActiveAdmin(changed.members[p])
    <3>1. CASE isActiveAdmin(people[who]) => isActiveAdmin(member)
      BY <1>2, <1>3, <3>1 DEF MembersOK
    <3>2. CASE ~isLastAdmin(people, who)
      <4>1. PICK p \in DOMAIN people : p # who /\ isActiveAdmin(people[p])
        BY <1>2, <3>2, NotLastMeansOther
      <4>2. QED  BY <1>3, <4>1
    <3>3. QED  BY <3>1, <3>2
  <2>3. QED  BY <1>3, <2>1, <2>2 DEF MembersOK
<1>5. RecordOK(changed)
  BY <1>1, <1>4 DEF RecordOK
<1>6. QED  BY <1>1, <1>5, ChangeKeeps

LEMMA RolesKeep == ASSUME MockOK, NEW who, NEW role, ChangeRole(who, role) PROVE MockOK'
<1> DEFINE rec == records[activeWorkspaceId]
           member == [rec.members[who] EXCEPT !.role = role]
           changed == [rec EXCEPT !.members[who].role = role, !.role = IF who = Me THEN role ELSE @]
<1>1. /\ Administers /\ who \in DOMAIN rec.members /\ ChangeRecord(changed)
      /\ role # "org-admin" => ~isLastAdmin(rec.members, who)
  BY DEF ChangeRole
<1> HIDE DEF member, changed
<1>2. RecordOK(rec) /\ DOMAIN rec.members[who] = {"role", "active"}
  <2>1. RecordOK(rec)
    BY <1>1, AdminsActive
  <2> HIDE DEF rec
  <2>2. QED  BY <1>1, <2>1 DEF RecordOK, MembersOK
<1> USE DEF member, changed
<1>3. /\ DOMAIN member = {"role", "active"}
      /\ role = "org-admin" => (isActiveAdmin(rec.members[who]) => isActiveAdmin(member))
  BY <1>2 DEF isActiveAdmin
<1>4. DOMAIN changed = DOMAIN rec /\ changed.owned = rec.owned /\ changed.members = [rec.members EXCEPT ![who] = member]
  <2> HIDE DEF rec
  <2>1. DOMAIN rec = {"role", "members", "invited", "disabled", "owned"}
    BY <1>2 DEF RecordOK
  <2>2. QED  BY <1>1, <1>2, <2>1
<1> HIDE DEF member, changed
<1>5. \/ isActiveAdmin(rec.members[who]) => isActiveAdmin(member)
      \/ ~isLastAdmin(rec.members, who)
  BY <1>1, <1>3
<1>6. QED  BY <1>1, <1>3, <1>4, <1>5, MemberChangeKeeps

LEMMA RemovalsKeep == ASSUME MockOK, NEW who, RemoveMember(who) PROVE MockOK'
<1> DEFINE rec == records[activeWorkspaceId]
           member == [rec.members[who] EXCEPT !.active = FALSE]
           changed == [rec EXCEPT !.members[who].active = FALSE]
<1>1. Administers /\ who \in DOMAIN rec.members /\ ChangeRecord(changed) /\ ~isLastAdmin(rec.members, who)
  BY DEF RemoveMember
<1>2. RecordOK(rec) /\ DOMAIN rec.members[who] = {"role", "active"}
  BY <1>1, AdminsActive DEF RecordOK, MembersOK
<1>3. DOMAIN member = {"role", "active"}
  BY <1>2
<1>4. DOMAIN changed = DOMAIN rec /\ changed.owned = rec.owned /\ changed.members = [rec.members EXCEPT ![who] = member]
  <2> HIDE DEF rec
  <2>1. DOMAIN rec = {"role", "members", "invited", "disabled", "owned"}
    BY <1>2 DEF RecordOK
  <2>2. QED  BY <1>1, <1>2, <2>1
<1> HIDE DEF member, changed
<1>5. QED  BY <1>1, <1>3, <1>4, MemberChangeKeeps

-----------------------------------------------------------------------------
\* A handler that changes what the active workspace owns.
LEMMA WorksKeeps ==
  ASSUME MockOK, NEW un, Works(un), OwnedOK(un), ReposAreOwn(records, activeWorkspaceId, un.repos)
  PROVE  MockOK'
<1>1. activeWorkspaceId \in DOMAIN records /\ persistState(records, activeWorkspaceId, un)
  BY DEF Works
<1>2. QED  BY <1>1, PersistKeeps DEF MockOK

LEMMA ProjectsKeep ==
  ASSUME MockOK, NEW r, ConnectProject(r) \/ RemoveProject(r) \/ ClearProfile(r)
  PROVE  MockOK'
<1>1. activeWorkspaceId \in DOMAIN records
  BY DEF ConnectProject, RemoveProject, ClearProfile, Works
<1>2. /\ OwnedOK(unpacked) /\ ReposAreOwn(records, activeWorkspaceId, unpacked.repos)
      /\ unpacked = records[activeWorkspaceId].owned
  BY <1>1, UnpackedFits
<1>3. CASE ConnectProject(r)
  <2> DEFINE un == [unpacked EXCEPT !.repos = @ \cup {r}]
  <2>1. Works(un) /\ \A w \in DOMAIN records : r \notin records[w].owned.repos
    BY <1>3 DEF ConnectProject, Connected
  <2>2. /\ DOMAIN un = DOMAIN unpacked /\ un.repos = unpacked.repos \cup {r} /\ un.pool = unpacked.pool
        /\ un.default = unpacked.default /\ un.assigned = unpacked.assigned
    BY <1>2 DEF OwnedOK
  <2> HIDE DEF un
  <2>3. IsFiniteSet(unpacked.repos \cup {r})
    BY <1>2, FS_AddElement DEF OwnedOK
  <2>4. OwnedOK(un)
    BY <1>2, <2>2, <2>3 DEF OwnedOK
  <2>5. ReposAreOwn(records, activeWorkspaceId, un.repos)
    BY <1>2, <2>1, <2>2 DEF ReposAreOwn
  <2>6. QED  BY <2>1, <2>4, <2>5, WorksKeeps
<1>4. CASE RemoveProject(r) \/ ClearProfile(r)
  <2>1. PICK repos : /\ repos = unpacked.repos \/ repos = unpacked.repos \ {r}
                     /\ Works([unpacked EXCEPT !.repos = repos,
                                !.assigned = Restrict(unpacked.assigned, DOMAIN unpacked.assigned \ {r})])
    <3>1. CASE RemoveProject(r)
      BY <3>1 DEF RemoveProject
    <3>2. CASE ClearProfile(r)
      <4>1. Works([unpacked EXCEPT !.assigned = Restrict(@, DOMAIN @ \ {r})])
        BY <3>2 DEF ClearProfile
      <4> DEFINE kept == Restrict(unpacked.assigned, DOMAIN unpacked.assigned \ {r})
      <4>2. Works([unpacked EXCEPT !.assigned = kept])
        BY <4>1
      <4> HIDE DEF kept
      <4>3. [unpacked EXCEPT !.assigned = kept] = [unpacked EXCEPT !.repos = unpacked.repos, !.assigned = kept]
        BY <1>2 DEF OwnedOK
      <4>4. QED  BY <4>2, <4>3 DEF kept
    <3>3. QED  BY <1>4, <3>1, <3>2
  <2> DEFINE kept == Restrict(unpacked.assigned, DOMAIN unpacked.assigned \ {r})
             un == [unpacked EXCEPT !.repos = repos, !.assigned = kept]
  <2>2. /\ DOMAIN kept = DOMAIN unpacked.assigned \ {r}
        /\ \A q \in DOMAIN kept : kept[q] = unpacked.assigned[q]
    BY DEF Restrict
  <2>3. Works(un)
    BY <2>1
  <2> HIDE DEF kept
  <2>4. /\ DOMAIN un = DOMAIN unpacked /\ un.repos = repos /\ un.pool = unpacked.pool
        /\ un.default = unpacked.default /\ un.assigned = kept
    BY <1>2 DEF OwnedOK
  <2> HIDE DEF un
  <2>5. IsFiniteSet(repos) /\ repos \subseteq unpacked.repos
    BY <1>2, <2>1, FS_Subset DEF OwnedOK
  <2>6. DOMAIN kept \subseteq repos
    BY <1>2, <2>1, <2>2 DEF OwnedOK
  <2>7. OwnedOK(un)
    BY <1>2, <2>2, <2>4, <2>5, <2>6 DEF OwnedOK
  <2>8. ReposAreOwn(records, activeWorkspaceId, un.repos)
    BY <1>2, <2>4, <2>5 DEF ReposAreOwn
  <2>9. QED  BY <2>3, <2>7, <2>8, WorksKeeps
<1>5. QED  BY <1>3, <1>4

\* The built-in profiles do not count as custom ones, and there are finitely many of those.
LEMMA CustomsCount ==
  ASSUME NEW had
  PROVE  /\ IsFiniteSet(had \cap Customs) /\ Cardinality(had \cap Customs) \in Nat
         /\ \A p \in Presets : (had \cup {p}) \cap Customs = had \cap Customs
         /\ \A p \in Customs \ had : Cardinality((had \cup {p}) \cap Customs) = Cardinality(had \cap Customs) + 1
         /\ \A p : Cardinality((had \ {p}) \cap Customs) <= Cardinality(had \cap Customs)
<1>1. IsFiniteSet(Customs) /\ Presets \cap Customs = {}
  BY MockWorkspacesAssumption
<1>2. IsFiniteSet(had \cap Customs)
  BY <1>1, FS_Subset
<1>3. Cardinality(had \cap Customs) \in Nat
  BY <1>2, FS_CardinalityType
<1>4. ASSUME NEW p \in Customs \ had
      PROVE  Cardinality((had \cup {p}) \cap Customs) = Cardinality(had \cap Customs) + 1
  <2>1. (had \cup {p}) \cap Customs = (had \cap Customs) \cup {p} /\ p \notin had \cap Customs
    OBVIOUS
  <2>2. QED  BY <1>2, <2>1, FS_AddElement
<1>5. ASSUME NEW p PROVE Cardinality((had \ {p}) \cap Customs) <= Cardinality(had \cap Customs)
  <2>1. (had \ {p}) \cap Customs \subseteq had \cap Customs
    OBVIOUS
  <2>2. QED  BY <1>2, <2>1, FS_Subset
<1>6. QED  BY <1>1, <1>2, <1>3, <1>4, <1>5

LEMMA ProfilesKeep ==
  ASSUME MockOK, \/ applyToWorkspace \/ \E p : CreateProfile(p) \/ DeleteProfile(p) \/ SetDefault(p)
  PROVE  MockOK'
<1>1. activeWorkspaceId \in DOMAIN records
  BY DEF applyToWorkspace, CreateProfile, DeleteProfile, SetDefault, Works
<1>2. /\ OwnedOK(unpacked) /\ ReposAreOwn(records, activeWorkspaceId, unpacked.repos)
      /\ unpacked = records[activeWorkspaceId].owned
  BY <1>1, UnpackedFits
<1> DEFINE Repooled(had, def) == [unpacked EXCEPT !.pool = had, !.default = def]
           Usable(had, def) ==
             /\ def \in had /\ \A r \in DOMAIN unpacked.assigned : unpacked.assigned[r] \in had
             /\ Cardinality(had \cap Customs) <= MaxCustomProfiles
<1>3. /\ DOMAIN unpacked = {"repos", "pool", "default", "assigned"}
      /\ unpacked.default \in unpacked.pool /\ IsFiniteSet(unpacked.repos)
      /\ DOMAIN unpacked.assigned \subseteq unpacked.repos
      /\ \A r \in DOMAIN unpacked.assigned : unpacked.assigned[r] \in unpacked.pool
      /\ Cardinality(unpacked.pool \cap Customs) <= MaxCustomProfiles
      /\ MaxCustomProfiles \in Nat \ {0}
  BY <1>2, MockWorkspacesAssumption DEF OwnedOK
<1>4. ASSUME NEW had, NEW def, Usable(had, def), Works(Repooled(had, def)) PROVE MockOK'
  <2> DEFINE un == Repooled(had, def)
  <2>1. /\ DOMAIN un = DOMAIN unpacked /\ un.repos = unpacked.repos /\ un.pool = had
        /\ un.default = def /\ un.assigned = unpacked.assigned
    BY <1>3
  <2>2. Works(un)
    BY <1>4
  <2> HIDE DEF un
  <2>3. OwnedOK(un)
    BY <1>3, <1>4, <2>1 DEF OwnedOK
  <2>4. ReposAreOwn(records, activeWorkspaceId, un.repos)
    BY <1>2, <2>1
  <2>5. QED  BY <2>2, <2>3, <2>4, WorksKeeps
<1>5. /\ \A had : [unpacked EXCEPT !.pool = had] = Repooled(had, unpacked.default)
      /\ \A def : [unpacked EXCEPT !.default = def] = Repooled(unpacked.pool, def)
  BY <1>3
<1>6. ASSUME NEW p, CreateProfile(p) PROVE MockOK'
  <2>1. /\ p \in Customs \ unpacked.pool /\ Cardinality(unpacked.pool \cap Customs) < MaxCustomProfiles
        /\ Works([unpacked EXCEPT !.pool = @ \cup {p}])
    BY <1>6 DEF CreateProfile, customProfiles, pool
  <2>2. Works(Repooled(unpacked.pool \cup {p}, unpacked.default))
    BY <1>5, <2>1
  <2>3. Cardinality((unpacked.pool \cup {p}) \cap Customs) <= MaxCustomProfiles
    <3>1. /\ Cardinality((unpacked.pool \cup {p}) \cap Customs) = Cardinality(unpacked.pool \cap Customs) + 1
          /\ Cardinality(unpacked.pool \cap Customs) \in Nat
      BY <2>1, CustomsCount
    <3>2. QED  BY <1>3, <2>1, <3>1
  <2>4. Usable(unpacked.pool \cup {p}, unpacked.default)
    BY <1>3, <2>3
  <2>5. QED  BY <1>4, <2>2, <2>4
<1>7. ASSUME NEW p, DeleteProfile(p) PROVE MockOK'
  <2>1. /\ p # unpacked.default /\ Cardinality({r \in DOMAIN unpacked.assigned : unpacked.assigned[r] = p}) = 0
        /\ Works([unpacked EXCEPT !.pool = @ \ {p}])
    BY <1>7 DEF DeleteProfile, usageCount, assignments
  <2>2. Works(Repooled(unpacked.pool \ {p}, unpacked.default))
    BY <1>5, <2>1
  <2>3. \A r \in DOMAIN unpacked.assigned : unpacked.assigned[r] # p
    <3> DEFINE users == {r \in DOMAIN unpacked.assigned : unpacked.assigned[r] = p}
    <3>1. IsFiniteSet(users)
      <4>1. users \subseteq unpacked.repos
        BY <1>3
      <4>2. QED  BY <1>3, <4>1, FS_Subset
    <3>2. users = {}
      BY <2>1, <3>1, FS_EmptySet
    <3>3. QED  BY <3>2
  <2>4. Cardinality((unpacked.pool \ {p}) \cap Customs) <= MaxCustomProfiles
    <3>1. /\ Cardinality((unpacked.pool \ {p}) \cap Customs) <= Cardinality(unpacked.pool \cap Customs)
          /\ Cardinality(unpacked.pool \cap Customs) \in Nat
          /\ Cardinality((unpacked.pool \ {p}) \cap Customs) \in Nat
      BY CustomsCount
    <3>2. QED  BY <1>3, <3>1
  <2>5. Usable(unpacked.pool \ {p}, unpacked.default)
    BY <1>3, <2>1, <2>3, <2>4
  <2>6. QED  BY <1>4, <2>2, <2>5
<1>8. ASSUME NEW p, SetDefault(p) PROVE MockOK'
  <2>1. p \in unpacked.pool /\ Works(Repooled(unpacked.pool, p))
    BY <1>5, <1>8 DEF SetDefault, pool
  <2>2. Usable(unpacked.pool, p)
    BY <1>3, <2>1
  <2>3. QED  BY <1>4, <2>1, <2>2
<1>9. ASSUME applyToWorkspace PROVE MockOK'
  <2>1. PICK p \in legacyCustomTarget \cup Presets : Works([unpacked EXCEPT !.pool = @ \cup {p}, !.default = p])
    BY <1>9 DEF applyToWorkspace
  <2>2. Works(Repooled(unpacked.pool \cup {p}, p))
    BY <2>1
  <2>3. Cardinality((unpacked.pool \cup {p}) \cap Customs) <= MaxCustomProfiles
    <3>1. CASE p \in unpacked.pool
      <4>1. unpacked.pool \cup {p} = unpacked.pool
        BY <3>1
      <4>2. QED  BY <1>3, <4>1
    <3>2. CASE p \in Presets
      BY <1>3, <3>2, CustomsCount
    <3>3. CASE p \notin unpacked.pool /\ p \notin Presets
      <4>1. unpacked.pool \cap Customs = {} /\ p \in Customs
        BY <1>3, <3>3 DEF legacyCustomTarget, customProfiles, pool
      <4>2. Cardinality({}) = 0
        BY FS_EmptySet
      <4>3. Cardinality((unpacked.pool \cup {p}) \cap Customs) = Cardinality(unpacked.pool \cap Customs) + 1
        BY <3>3, <4>1, CustomsCount
      <4>4. QED  BY <1>3, <4>1, <4>2, <4>3
    <3>4. QED  BY <3>1, <3>2, <3>3
  <2>4. Usable(unpacked.pool \cup {p}, p)
    BY <1>3, <2>3
  <2>5. QED  BY <1>4, <2>2, <2>4
<1>10. QED  BY <1>6, <1>7, <1>8, <1>9

LEMMA AssigningKeeps == ASSUME MockOK, NEW r, NEW p, AssignProfile(r, p) PROVE MockOK'
<1> DEFINE given == With(unpacked.assigned, r, p)
           un == [unpacked EXCEPT !.assigned = given]
<1>1. r \in unpacked.repos /\ p \in unpacked.pool /\ Works(un)
  BY DEF AssignProfile, connected, pool
<1>2. activeWorkspaceId \in DOMAIN records
  BY <1>1 DEF Works
<1>3. OwnedOK(unpacked) /\ ReposAreOwn(records, activeWorkspaceId, unpacked.repos)
  BY <1>2, UnpackedFits
<1>4. /\ DOMAIN given = DOMAIN unpacked.assigned \cup {r} /\ given[r] = p
      /\ \A q \in DOMAIN unpacked.assigned : q # r => given[q] = unpacked.assigned[q]
  BY DEF With
<1> HIDE DEF given
<1>5. /\ DOMAIN un = DOMAIN unpacked /\ un.repos = unpacked.repos /\ un.pool = unpacked.pool
      /\ un.default = unpacked.default /\ un.assigned = given
  BY <1>3 DEF OwnedOK
<1> HIDE DEF un
<1>6. OwnedOK(un)
  BY <1>1, <1>3, <1>4, <1>5 DEF OwnedOK
<1>7. QED  BY <1>1, <1>3, <1>5, <1>6, WorksKeeps

LEMMA MockMoves == ASSUME MockOK, MockNext PROVE MockOK'
<1>1. CASE ReloadMock \/ DeleteWorkspace \/ AcceptInvitation \/ ChangeRules
  BY <1>1, ReloadKeeps, DeletingKeeps, AcceptingKeeps, RulesChangeKeeps
<1>2. CASE \E w \in MockSpaces : CreateWorkspace(w) \/ SwitchWorkspace(w)
  BY <1>2, CreatingKeeps, SwitchingKeeps
<1>3. CASE \E who \in Mates : InviteMate(who) \/ RevokeInvitation(who)
  BY <1>3, InvitationsKeep
<1>4. CASE \E who \in Mates \cup {Me, Owner} : RemoveMember(who)
  BY <1>4, RemovalsKeep
<1>5. CASE \E who \in Mates \cup {Me, Owner}, role \in {"org-admin", "viewer"} : ChangeRole(who, role)
  BY <1>5, RolesKeep
<1>6. CASE \E r \in FreshRepos \cup Connected : ConnectProject(r) \/ RemoveProject(r) \/ ClearProfile(r)
  BY <1>6, ProjectsKeep
<1>7. CASE applyToWorkspace \/ \E p \in Presets \cup Customs : CreateProfile(p) \/ DeleteProfile(p) \/ SetDefault(p)
  BY <1>7, ProfilesKeep
<1>8. CASE \E r \in Connected, p \in Presets \cup Customs : AssignProfile(r, p)
  BY <1>8, AssigningKeeps
<1>9. QED  BY <1>1, <1>2, <1>3, <1>4, <1>5, <1>6, <1>7, <1>8 DEF MockNext

\* Through every request and reload, the three copies of the mock API's state say the same,
\* every workspace's profiles can be used, and each keeps an active administrator.
THEOREM MockIsOneState == MockSpec => []MockInv
<1>1. MockOK => MockInv
  <2> SUFFICES ASSUME MockOK PROVE MockInv
    OBVIOUS
  <2>1. RecordsOK(records) /\ OneTruth
    BY DEF MockOK
  <2>2. \A w \in DOMAIN records : OwnedOK(records[w].owned) /\ MembersOK(records[w].members)
    BY <2>1 DEF RecordsOK, RecordOK
  <2>3. PoolIsUsable
    <3>1. \A w \in DOMAIN records : Range(records[w].owned.assigned) \subseteq records[w].owned.pool
      BY <2>2 DEF OwnedOK, Range
    <3>2. QED  BY <2>1, <2>2, <3>1 DEF PoolIsUsable, OwnedOK, RecordsOK, NoSharedRepos
  <2>4. MockAdminRemains
    BY <2>2 DEF MockAdminRemains, MembersOK
  <2>5. QED  BY <2>1, <2>3, <2>4 DEF MockInv
<1>2. QED  BY MockStarts, MockStay, MockMoves, <1>1, PTL DEF MockSpec

-----------------------------------------------------------------------------
(***************************************************************************)
(* The scans of the mock API.                                              *)
(***************************************************************************)
\* A flag is of a project whose scan runs and says that it is being stopped; what is known of a
\* scan is kept by its project.
FlagsOK ==
  /\ cancelRequested \subseteq ScanRepos /\ DOMAIN mockScans = ScanRepos
  /\ \A r \in ScanRepos : "stopping" \in DOMAIN mockScans[r]
  /\ StopsAreTold

\* The scans of other projects stay, and the flag of one that moves is taken.
LEMMA FlagsStay ==
  ASSUME FlagsOK, NEW r \in ScanRepos, NEW scan, "stopping" \in DOMAIN scan,
         cancelRequested' \subseteq cancelRequested \ {r},
         mockScans' = [mockScans EXCEPT ![r] = scan]
  PROVE  FlagsOK'
<1>1. \A q \in ScanRepos \ {r} : mockScans'[q] = mockScans[q]
  BY DEF FlagsOK
<1>2. DOMAIN mockScans' = ScanRepos
  BY DEF FlagsOK
<1>3. mockScans'[r] = scan
  BY DEF FlagsOK
<1>4. QED  BY <1>1, <1>2, <1>3 DEF FlagsOK, StopsAreTold, Active

LEMMA FlagsStart == MockScansInit => FlagsOK
<1>1. "stopping" \in DOMAIN NoScan
  BY DEF NoScan
<1>2. QED  BY <1>1 DEF MockScansInit, FlagsOK, StopsAreTold

LEMMA FlagsMove == FlagsOK /\ [MockScansNext]_mockScanVars => FlagsOK'
<1> SUFFICES ASSUME FlagsOK, [MockScansNext]_mockScanVars PROVE FlagsOK'
  OBVIOUS
<1>1. CASE UNCHANGED <<mockScans, cancelRequested>>
  BY <1>1 DEF FlagsOK, StopsAreTold, Active
<1>2. CASE DeleteProjects
  <2>1. \A q \in ScanRepos \ known : mockScans'[q] = mockScans[q]
    BY <1>2 DEF DeleteProjects
  <2>2. cancelRequested' = cancelRequested \ known /\ DOMAIN mockScans' = ScanRepos
    BY <1>2 DEF DeleteProjects
  <2>3. \A q \in ScanRepos : "stopping" \in DOMAIN mockScans'[q]
    BY <1>2, <2>1 DEF DeleteProjects, NoScan, FlagsOK
  <2>4. QED  BY <2>1, <2>2, <2>3 DEF FlagsOK, StopsAreTold, Active
<1>3. CASE ForgetScans
  BY <1>3 DEF ForgetScans, NoScan, FlagsOK, StopsAreTold
<1>4. ASSUME NEW r \in ScanRepos, NEW id, StopMockScan(r, id) PROVE FlagsOK'
  <2>1. /\ cancelRequested' = cancelRequested \cup {r} /\ Active(r)
        /\ mockScans' = [mockScans EXCEPT ![r] = [mockScans[r] EXCEPT !.stopping = TRUE]]
    BY <1>4 DEF StopMockScan
  <2>2. "stopping" \in DOMAIN mockScans[r]
    BY DEF FlagsOK
  <2>3. /\ mockScans'[r].stopping = TRUE /\ mockScans'[r].phase = mockScans[r].phase
        /\ DOMAIN mockScans'[r] = DOMAIN mockScans[r]
        /\ DOMAIN mockScans' = ScanRepos /\ \A q \in ScanRepos \ {r} : mockScans'[q] = mockScans[q]
    BY <2>1, <2>2 DEF FlagsOK
  <2>4. QED  BY <2>1, <2>2, <2>3 DEF FlagsOK, StopsAreTold, Active
<1>5. ASSUME NEW r \in ScanRepos, NEW id, NEW turn, tick(r, id, turn) PROVE FlagsOK'
  <2>1. cancelRequested' = cancelRequested \ {r}
    BY <1>5 DEF tick, takenFlag
  <2>2. \E scan : DOMAIN scan = DOMAIN mockScans[r] /\ mockScans' = [mockScans EXCEPT ![r] = scan]
    <3>1. tickCancelled(r) \/ tickOn(r, turn) \/ tickDone(r, turn)
      BY <1>5 DEF tick
    <3> DEFINE s == mockScans[r]
               cancelled == [s EXCEPT !.phase = "cancelled", !.stopping = FALSE]
               on == [s EXCEPT !.progress = @ + turn]
               done == [s EXCEPT !.phase = "done", !.progress = 100, !.stopping = FALSE]
    <3>2. DOMAIN cancelled = DOMAIN s /\ DOMAIN on = DOMAIN s /\ DOMAIN done = DOMAIN s
      OBVIOUS
    <3>3. \/ mockScans' = [mockScans EXCEPT ![r] = cancelled]
          \/ mockScans' = [mockScans EXCEPT ![r] = on]
          \/ mockScans' = [mockScans EXCEPT ![r] = done]
      BY <3>1 DEF tickCancelled, tickOn, tickDone, FlagsOK
    <3> HIDE DEF cancelled, on, done
    <3>4. QED  BY <3>2, <3>3
  <2>3. "stopping" \in DOMAIN mockScans[r]
    BY DEF FlagsOK
  <2>4. QED  BY <2>1, <2>2, <2>3, FlagsStay
<1>6. ASSUME NEW k \in MockKeys, StartMockScan(k[1], k[2]) PROVE FlagsOK'
  <2>1. k[1] \in ScanRepos /\ ~Active(k[1]) /\ cancelRequested' = cancelRequested
    BY <1>6 DEF StartMockScan, MockKeys
  <2> DEFINE skipped == unchanged(<<k[1], k[2]>>)
             scan == [id |-> startedScans', branch |-> k[2], stopping |-> FALSE,
                      phase |-> IF skipped THEN "done" ELSE "running",
                      progress |-> IF skipped THEN 100 ELSE 0,
                      rules |-> IF skipped THEN NoRules ELSE rulesInForce]
  <2>2. "stopping" \in DOMAIN scan /\ mockScans' = [mockScans EXCEPT ![k[1]] = scan]
    BY <1>6 DEF StartMockScan
  <2> HIDE DEF scan
  <2>3. k[1] \notin cancelRequested
    BY <2>1 DEF FlagsOK, StopsAreTold
  <2>4. QED  BY <2>1, <2>2, <2>3, FlagsStay
<1>7. QED
  BY <1>1, <1>2, <1>3, <1>4, <1>5, <1>6
     DEF MockScansNext, mockScanVars, RescoreEnds, DisconnectProject, AskHealth, SelectRules,
         markRescoring

\* Whatever scans are started, stopped under whatever id, polled, forgotten or deleted with their
\* projects: no flag outlives its scan, and only a scan whose answers say so is ended as cancelled.
THEOREM StopsAreToldOf == MockScansSpec => []StopsAreTold
<1>1. FlagsOK => StopsAreTold
  BY DEF FlagsOK
<1>2. QED  BY <1>1, FlagsStart, FlagsMove, PTL DEF MockScansSpec

-----------------------------------------------------------------------------
(***************************************************************************)
(* The pages together: whichever is showing, a step of the whole is a step *)
(* of each, or leaves it as it is.                                         *)
(***************************************************************************)
LEMMA PartsMove ==
  [Next]_allVars => /\ [QueryNext]_queryVars /\ [SignInNext]_signInVars /\ [FeedNext]_feedVars
                    /\ [WorkspaceNext]_workspaceVars /\ [TeamNext]_teamVars /\ [RulesNext]_rulesVars
                    /\ [TourNext]_tourVars /\ [CardNext]_cardVars /\ [MockNext]_mockVars
                    /\ [MockScansNext]_mockScanVars
<1> SUFFICES ASSUME [Next]_allVars
             PROVE  /\ [QueryNext]_queryVars /\ [SignInNext]_signInVars /\ [FeedNext]_feedVars
                    /\ [WorkspaceNext]_workspaceVars /\ [TeamNext]_teamVars /\ [RulesNext]_rulesVars
                    /\ [TourNext]_tourVars /\ [CardNext]_cardVars /\ [MockNext]_mockVars
                    /\ [MockScansNext]_mockScanVars
  OBVIOUS
<1>1. CASE Next
  BY <1>1 DEF Next, CacheSteps, SigninSteps, ActivitySteps, WorkspaceSteps, TeamSteps, RulesSteps,
              TourSteps, CardSteps, MockSteps, MockscansSteps
<1>2. CASE UNCHANGED allVars
  BY <1>2 DEF allVars
<1>3. QED  BY <1>1, <1>2

LEMMA PartsStart ==
  Init => /\ QueryInit /\ SignInInit /\ FeedInit /\ WorkspaceInit /\ TeamInit
          /\ RulesInit /\ TourInit /\ CardInit /\ MockInit /\ MockScansInit
BY DEF Init

\* The pages of a workspace, together, are each of them.
LEMMA PagesAreTheirParts ==
  Spec => /\ QuerySpec /\ SignInSpec /\ FeedSpec /\ WorkspaceSpec /\ TeamSpec /\ RulesSpec
          /\ TourSpec /\ CardSpec /\ MockSpec /\ MockScansSpec
BY PartsStart, PartsMove, PTL DEF Spec, QuerySpec, SignInSpec, FeedSpec, WorkspaceSpec, TeamSpec,
   RulesSpec, TourSpec, CardSpec, MockSpec, MockScansSpec

\* In the whole that is model-checked, for any tabs, workspaces, accounts and requests: signing in,
\* the list of what runs, the settings and the members keep their promises.
THEOREM WorkspacePagesAreRight ==
  Spec => []SignInInv /\ []FeedInv /\ []WorkspaceInv /\ MembershipChangesRightly /\ EndedIsRemembered
BY PagesAreTheirParts, InvitationsAreSettled, FeedIsRight, SessionIsOnThePage, PanelChangesRightly,
   TourEndIsRemembered, PTL

\* The people of a workspace, its rules and the tour: what the panels of the whole show settles,
\* for any members, lists of rules, windows and targets.
THEOREM PanelsAreRight == Spec => []PanelsInv
<1>1. TeamSpec => []MembershipTypeOK
  BY PanelIsMembership, MembershipHasType, PTL
<1>2. QED  BY PagesAreTheirParts, <1>1, PanelSettles, RulesStayInOrder, CardIsPlacedWell, PTL
           DEF PanelsInv

\* The mock API of the whole is one state in three copies, and its stops are told of.
THEOREM MockApiIsRight == Spec => []MockApiInv
BY PagesAreTheirParts, MockIsOneState, StopsAreToldOf, PTL DEF MockApiInv

=============================================================================
