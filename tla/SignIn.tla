-------------------------------- MODULE SignIn --------------------------------
(***************************************************************************)
(* Signing in and accepting an invitation, in several tabs of one browser  *)
(* (middleware.ts, lib/sign-in.ts, sign-in-panel.tsx, session-guard.tsx,   *)
(* pending-invitation.ts, invitations/accept/page.tsx, account-menu.tsx;   *)
(* routers/auth.py).  The tabs share the session cookie and the handshake  *)
(* cookie; each remembers an invitation in its own session storage.        *)
(***************************************************************************)
EXTENDS Integers

CONSTANTS Tabs,
          MaxStarts,         \* sign-ins and visits that the user begins
          MaxEnds,           \* sessions that end, handshakes that age
          MaxAsks            \* attempts of a tab to accept

ASSUME SignInAssumption == {MaxStarts, MaxEnds, MaxAsks} \subseteq Nat

VARIABLES cookie, sessionAlive,     \* the session cookie; whether the API knows its session
          handshake,         \* the signed handshake cookie of a sign-in that is not finished
          invitation,        \* the API: pending or used
          place, flow,       \* where each tab is; its visit to the identity provider
          saved,             \* session storage: an invitation waits
          token, read, outcome,     \* the accept page: its token, the session it read
          asks, joinAnswers,     \* requests to accept: how many; answers that are out
          started,           \* an attempt was started
          starts, retries, ends     \* history: begun by the user, by the API; ended

browserVars == <<cookie, sessionAlive, handshake>>
acceptPage  == <<token, outcome, asks, joinAnswers, started>>
countVars   == <<starts, retries, ends>>
signInVars  == <<browserVars, invitation, place, flow, saved, read, acceptPage, countVars>>

Places   == {"login", "app", "accept", "idp"}
NoShake  == [state |-> 0]
NoFlow   == [state |-> 0]
signedIn == cookie /\ sessionAlive

\* A page is loaded: what the previous one held is gone, its requests are not.
loaded(t, at) ==
  /\ place' = [place EXCEPT ![t] = at] /\ read' = [read EXCEPT ![t] = "loading"]
  /\ token' = [token EXCEPT ![t] = (at = "accept")]
  /\ outcome' = [outcome EXCEPT ![t] = "none"] /\ started' = [started EXCEPT ![t] = FALSE]
  /\ joinAnswers' = [joinAnswers EXCEPT ![t] = {}]

\* middleware: with a cookie, whatever it is worth, the app is shown.
entry == IF cookie THEN "app" ELSE "login"

SignInInit ==
  /\ cookie \in BOOLEAN /\ sessionAlive = cookie /\ handshake = NoShake
  /\ invitation = "pending"
  /\ place = [t \in Tabs |-> entry] /\ flow = [t \in Tabs |-> NoFlow]
  /\ saved = [t \in Tabs |-> FALSE] /\ token = [t \in Tabs |-> FALSE]
  /\ read = [t \in Tabs |-> "loading"] /\ outcome = [t \in Tabs |-> "none"]
  /\ asks = [t \in Tabs |-> 0] /\ joinAnswers = [t \in Tabs |-> {}]
  /\ started = [t \in Tabs |-> FALSE]
  /\ starts = 0 /\ retries = 0 /\ ends = 0

(***************************************************************************)
(* The user's visits, and what ends by itself.                             *)
(***************************************************************************)
begins == starts < MaxStarts /\ starts' = starts + 1 /\ UNCHANGED <<retries, ends>>
ending == ends < MaxEnds /\ ends' = ends + 1 /\ UNCHANGED <<starts, retries>>

\* The link of the mail: the token goes to the session storage and out of the address.
OpenInvitation(t) ==
  /\ begins /\ loaded(t, "accept") /\ saved' = [saved EXCEPT ![t] = TRUE]
  /\ flow' = [flow EXCEPT ![t] = NoFlow]
  /\ UNCHANGED <<browserVars, invitation, asks>>

VisitApp(t) ==
  /\ begins /\ loaded(t, entry) /\ flow' = [flow EXCEPT ![t] = NoFlow]
  /\ UNCHANGED <<browserVars, invitation, saved, asks>>

SessionEnds ==
  /\ ending /\ sessionAlive /\ sessionAlive' = FALSE
  /\ UNCHANGED <<cookie, handshake, invitation, place, flow, saved, read, acceptPage>>

\* After ten minutes the handshake is no longer honoured, after an hour it is gone.
HandshakeAges ==
  /\ ending /\ handshake # NoShake
  /\ IF handshake.old THEN handshake' = NoShake
                      ELSE handshake' = [handshake EXCEPT !.old = TRUE]
  /\ UNCHANGED <<cookie, sessionAlive, invitation, place, flow, saved, read, acceptPage>>

SignOut(t) ==
  /\ place[t] = "app" /\ read[t] = "in" /\ begins
  /\ cookie' = FALSE /\ sessionAlive' = FALSE /\ loaded(t, "login")
  /\ UNCHANGED <<handshake, invitation, flow, saved, asks>>

(***************************************************************************)
(* What a page does with the session it reads.                             *)
(***************************************************************************)
ReadSession(t) ==
  /\ place[t] # "idp" /\ read[t] # (IF signedIn THEN "in" ELSE "out")
  /\ \/ read' = [read EXCEPT ![t] = IF signedIn THEN "in" ELSE "out"]
     \/ read[t] = "loading" /\ read' = [read EXCEPT ![t] = "failed"]
  /\ UNCHANGED <<browserVars, invitation, place, flow, saved, acceptPage, countVars>>

\* SessionGuard: a session that ended, then an invitation that waits.
Guard(t) ==
  /\ place[t] = "app"
  /\ \/ read[t] = "out" /\ loaded(t, "login")
     \/ read[t] = "in" /\ saved[t] /\ loaded(t, "accept")
  /\ UNCHANGED <<browserVars, invitation, flow, saved, asks, countVars>>

\* SignInPanel: whoever is signed in already goes on.
AlreadySignedIn(t) ==
  /\ place[t] = "login" /\ read[t] = "in" /\ loaded(t, "app")
  /\ UNCHANGED <<browserVars, invitation, flow, saved, asks, countVars>>

(***************************************************************************)
(* Signing in.                                                             *)
(***************************************************************************)
\* Where to return to, or else where an unfinished sign-in of this browser was to return.
shake(invited, retry) ==
  [state |-> starts + retries + 1, retry |-> retry, old |-> FALSE,
   invited |-> invited \/ (handshake # NoShake /\ handshake.invited)]

sent(t, invited, retry) ==
  /\ handshake' = shake(invited, retry)
  /\ loaded(t, "idp")
  /\ flow' = [flow EXCEPT ![t] = [state |-> handshake'.state, retry |-> retry]]

\* The panel's one link.
fromPanel(t) == place[t] = "login"

\* The accept page offers it to whoever is signed out, and carries itself along.
fromInvitation(t) == place[t] = "accept" /\ token[t] /\ read[t] = "out"

beginSignIn(t) ==
  /\ fromPanel(t) \/ fromInvitation(t)
  /\ begins /\ sent(t, place[t] = "accept", FALSE)
  /\ UNCHANGED <<cookie, sessionAlive, invitation, saved, asks>>

honoured(t) == handshake # NoShake /\ ~handshake.old /\ handshake.state = flow[t].state

\* complete_sign_in; the handshake is spent.
SignedIn(t) ==
  /\ place[t] = "idp" /\ honoured(t)
  /\ cookie' = TRUE /\ sessionAlive' = TRUE /\ handshake' = NoShake
  /\ loaded(t, IF handshake.invited THEN "accept" ELSE "app")
  /\ saved' = [saved EXCEPT ![t] = @ \/ handshake.invited]
  /\ flow' = [flow EXCEPT ![t] = NoFlow] /\ UNCHANGED <<invitation, asks, countVars>>

SignInFailed(t) ==
  /\ place[t] = "idp" /\ honoured(t) /\ loaded(t, "login")
  /\ flow' = [flow EXCEPT ![t] = NoFlow]
  /\ UNCHANGED <<browserVars, invitation, saved, asks, countVars>>

\* Without a handshake that is honoured the sign-in is begun once more, and only once.
retryOrBack(t) ==
  /\ place[t] = "idp" /\ ~honoured(t)
  /\ IF flow[t].retry
       THEN loaded(t, "login") /\ flow' = [flow EXCEPT ![t] = NoFlow]
            /\ UNCHANGED <<handshake, retries>>
       ELSE retries' = retries + 1 /\ sent(t, FALSE, TRUE)
  /\ UNCHANGED <<cookie, sessionAlive, invitation, saved, asks, starts, ends>>

BackFromIdp(t) ==
  /\ place[t] = "idp" /\ loaded(t, "login") /\ flow' = [flow EXCEPT ![t] = NoFlow]
  /\ UNCHANGED <<browserVars, invitation, saved, asks, countVars>>

(***************************************************************************)
(* Accepting.                                                              *)
(***************************************************************************)
KeepBrowser == UNCHANGED <<browserVars, flow, countVars>>

\* Mutant: every session that is read starts the attempt again.
askEachTime(t) ==
  /\ place[t] = "accept" /\ token[t] /\ read[t] = "in" /\ asks[t] < MaxAsks
  /\ started' = [started EXCEPT ![t] = TRUE] /\ asks' = [asks EXCEPT ![t] = @ + 1]
  /\ joinAnswers' = [joinAnswers EXCEPT ![t] = @ \cup {[ask |-> asks'[t], kind |-> "out"]}]
  /\ KeepBrowser /\ UNCHANGED <<invitation, place, saved, read, token, outcome>>

\* Once per attempt, whatever the session's reads bring.
ask(t) ==
  /\ place[t] = "accept" /\ token[t] /\ read[t] = "in" /\ ~started[t] /\ asks[t] < MaxAsks
  /\ started' = [started EXCEPT ![t] = TRUE] /\ asks' = [asks EXCEPT ![t] = @ + 1]
  /\ joinAnswers' = [joinAnswers EXCEPT ![t] = @ \cup {[ask |-> asks'[t], kind |-> "out"]}]
  /\ KeepBrowser /\ UNCHANGED <<invitation, place, saved, read, token, outcome>>

\* 401 without a session, and any other failure before the effect, read alike.
ServeAsk(t) ==
  \E call \in joinAnswers[t] :
    /\ call.kind = "out"
    /\ \E kind \in {IF ~signedIn THEN "error" ELSE IF invitation = "pending" THEN "joined" ELSE "gone",
                    "error"} :
         /\ joinAnswers' = [joinAnswers EXCEPT ![t] = (@ \ {call}) \cup {[call EXCEPT !.kind = kind]}]
         /\ invitation' = IF kind = "joined" THEN "used" ELSE invitation
    /\ KeepBrowser /\ UNCHANGED <<place, saved, read, token, outcome, asks, started>>

answered(t, call) == call \in joinAnswers[t] /\ joinAnswers' = [joinAnswers EXCEPT ![t] = @ \ {call}]

\* The invitation is forgotten; then the workspace is switched to, or that is offered.
Joined(t) ==
  \E call \in joinAnswers[t] :
    /\ call.kind = "joined" /\ saved' = [saved EXCEPT ![t] = FALSE]
    /\ \/ loaded(t, "app")
       \/ /\ answered(t, call) /\ outcome' = [outcome EXCEPT ![t] = "joined"]
          /\ UNCHANGED <<place, read, token, started>>
    /\ KeepBrowser /\ UNCHANGED <<invitation, asks>>

Unusable(t) ==
  \E call \in joinAnswers[t] :
    /\ call.kind = "gone" /\ answered(t, call) /\ outcome' = [outcome EXCEPT ![t] = "unusable"]
    /\ saved' = [saved EXCEPT ![t] = FALSE]
    /\ KeepBrowser /\ UNCHANGED <<invitation, place, read, token, asks, started>>

AskFailed(t) ==
  \E call \in joinAnswers[t] :
    /\ call.kind = "error" /\ answered(t, call) /\ outcome' = [outcome EXCEPT ![t] = "failed"]
    /\ KeepBrowser /\ UNCHANGED <<invitation, place, saved, read, token, asks, started>>

TryAgain(t) ==
  /\ place[t] = "accept" /\ outcome[t] = "failed" /\ read[t] # "out"
  /\ outcome' = [outcome EXCEPT ![t] = "none"] /\ started' = [started EXCEPT ![t] = FALSE]
  /\ KeepBrowser /\ UNCHANGED <<invitation, place, saved, read, token, asks, joinAnswers>>

\* "Enter workspace" and "Go to CodeSage".
GoOn(t) ==
  /\ place[t] = "accept" /\ read[t] # "out"
  /\ outcome[t] \in {"joined", "unusable"} \/ ~token[t]
  /\ loaded(t, entry) /\ KeepBrowser /\ UNCHANGED <<invitation, saved, asks>>

SignInNext ==
  \/ SessionEnds \/ HandshakeAges
  \/ \E t \in Tabs : \/ OpenInvitation(t) \/ VisitApp(t) \/ SignOut(t) \/ ReadSession(t)
                     \/ Guard(t) \/ AlreadySignedIn(t)
                     \/ beginSignIn(t) \/ SignedIn(t) \/ SignInFailed(t) \/ retryOrBack(t)
                     \/ BackFromIdp(t)
                     \/ ask(t) \/ ServeAsk(t) \/ Joined(t) \/ Unusable(t) \/ AskFailed(t)
                     \/ TryAgain(t) \/ GoOn(t)

SignInSpec == SignInInit /\ [][SignInNext]_signInVars

-----------------------------------------------------------------------------
\* Every variable has its type; a handshake is never for a sign-in nobody began.
SignInTypeOK ==
  /\ cookie \in BOOLEAN /\ sessionAlive \in BOOLEAN /\ (sessionAlive => cookie)
  /\ place \in [Tabs -> Places]
  /\ read \in [Tabs -> {"loading", "in", "out", "failed"}]
  /\ outcome \in [Tabs -> {"none", "joined", "unusable", "failed"}]
  /\ \A t \in Tabs : place[t] = "idp" <=> flow[t] # NoFlow

\* However tabs overwrite each other's handshake, the API begins a sign-in again at most
\* once for each that the user began: no tab is sent to and fro.
NoRedirectLoop == retries <= starts

\* A tab whose own attempt joined is not told that the invitation cannot be used.
JoinedIsNotUnusable ==
  \A t \in Tabs : outcome[t] = "unusable" => ~\E call \in joinAnswers[t] : call.kind = "joined"

\* An invitation that was settled is forgotten: the guard does not send the tab back to it.
SettledIsForgotten ==
  \A t \in Tabs : outcome[t] \in {"joined", "unusable"} => ~saved[t]

\* Whatever tabs, handshakes and lost answers do, an invitation is settled once, told as it
\* was, and never sends a tab in circles.
SignInInv == SignInTypeOK /\ NoRedirectLoop /\ JoinedIsNotUnusable /\ SettledIsForgotten
=============================================================================
