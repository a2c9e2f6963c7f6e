------------------------------ MODULE QueryCache ------------------------------
(***************************************************************************)
(* The memory behind every read hook of the web application                *)
(* (lib/query-cache.ts) with the components that read through it            *)
(* (hooks/use-query.ts, use-health-report.ts), the session that says which *)
(* workspace is active, and the switch to another one                      *)
(* (use-workspace-scope.ts, use-workspace.ts, use-session.ts).             *)
(***************************************************************************)
EXTENDS Integers, FiniteSets

CONSTANTS Workspaces,      \* the workspaces the user may be a member of
          ListReaders,     \* the useProjects consumers
          Screens,         \* sets of components that are rendered together
          FailingParts,    \* what the API may fail to answer
          MaxAnswers,      \* MAX_ANSWERS of the cache
          MaxReads,        \* requests that are out at the same time
          MaxEpoch,        \* workspace switches
          MaxChanges,      \* projects connected or removed by the user
          MaxRemovals,     \* an administrator removes the user
          MaxEvents,       \* of these three together
          AnswersMayBeLost \* an answer to a switch may never arrive

ASSUME QueryAssumption == /\ Workspaces # {} /\ Workspaces \cap {"none", "unknown", "out"} = {}
                          /\ ListReaders \cap {"guard", "report"} = {}
                          /\ MaxAnswers \in Nat \ {0} /\ MaxReads \in Nat
                          /\ MaxEpoch \in Nat /\ MaxChanges \in Nat
                          /\ MaxRemovals \in Nat /\ MaxEvents \in Nat
                          /\ AnswersMayBeLost \in BOOLEAN

VARIABLES screen,    \* the components that may be mounted
          session,   \* the API: the workspace this session is bound to
          version,   \* the API: what a workspace's projects are
          removals,  \* counts what an administrator did
          epoch, active,     \* use-workspace-scope: its two variables
          answers, inflight, \* query-cache: its two maps
          reads,     \* the requests that were sent
          readers,   \* the components that read
          switch,    \* the switch that is out
          change,    \* the connection or removal of a project that is out
          shownChange \* history: the last change of each workspace a list was told of

apiVars   == <<session, version, removals>>
epochVars == <<epoch, active>>
cacheVars == <<answers, inflight>>
userVars  == <<switch, change, shownChange>>
queryVars == <<screen, apiVars, epochVars, cacheVars, reads, readers, userVars>>

Changed     == {c \in Workspaces \X (1..MaxChanges) : c[2] <= version[c[1]]}
MoreEvents  == epoch + removals + Cardinality(Changed) < MaxEvents

NoWorkspace == "none"
Unknown     == "unknown"  \* the session has not been read yet
Readers     == ListReaders \cup {"guard", "report"}
Requested   == {"session", "projects", "health"}
PartOf(r)   == CASE r = "guard" -> "session" [] r = "report" -> "health"
                 [] OTHER -> "projects"
Keys        == (0..MaxEpoch) \X Requested
ReadIds     == 1..MaxReads

\* Whose it is, and which change of the projects it has seen.
Data   == [ws : Workspaces \cup {NoWorkspace}, v : 0..MaxChanges]
NoData == [ws |-> Unknown, v |-> 0]

NoResult == [epoch |-> 0, kind |-> "none", data |-> NoData]
Absent   == [mounted |-> FALSE, due |-> FALSE, fresh |-> FALSE, asked |-> 0,
             waits |-> FALSE, result |-> NoResult]
Free     == [at |-> "free", key |-> <<0, "session">>, data |-> NoData, callers |-> {}]
NoSwitch == [at |-> "none", to |-> NoWorkspace]

(***************************************************************************)
(* query-cache.ts.  The map keeps its answers in the order they were put   *)
(* in: of each, how many were put after it.                                *)
(***************************************************************************)
NotCached         == [data |-> NoData, age |-> MaxAnswers]
Cached(cache, k)  == cache[k].age < MaxAnswers
readCached(key)   == IF Cached(answers, key) THEN {answers[key].data} ELSE {}

\* Put last; the oldest goes when there is one too many.
remember(cache, key, data) ==
  [k \in Keys |-> IF k = key THEN [data |-> data, age |-> 0]
                  ELSE IF cache[k].age >= cache[key].age THEN cache[k]
                  ELSE IF cache[k].age + 1 = MaxAnswers THEN NotCached
                  ELSE [cache[k] EXCEPT !.age = @ + 1]]

without(cache, keys) ==
  [k \in Keys |-> IF k \in keys \/ ~Cached(cache, k) THEN NotCached
                  ELSE [cache[k] EXCEPT !.age =
                          Cardinality({j \in Keys \ keys : cache[j].age < cache[k].age})]]

KeysOf(parts)        == {k \in Keys : k[2] \in parts}
joinable(flight, ks) == [k \in Keys |-> IF k \in ks THEN 0 ELSE flight[k]]

forgetQueries(parts) ==
  /\ answers'  = without(answers, KeysOf(parts))
  /\ inflight' = joinable(inflight, KeysOf(parts))

clearQueryCache == forgetQueries(Requested)

\* A request is sent, unless one may be joined; r is told of the answer.
fetchShared(r, key, fresh) ==
  IF ~fresh /\ inflight[key] # 0
    THEN /\ reads' = [reads EXCEPT ![inflight[key]].callers = @ \cup {r}]
         /\ UNCHANGED inflight
    ELSE \E q \in ReadIds :
           /\ \A p \in 1..q : (reads[p] = Free) = (p = q)
           /\ reads' = [reads EXCEPT ![q] = [at |-> "out", key |-> key, data |-> NoData,
                                             callers |-> {r}]]
           /\ inflight' = [inflight EXCEPT ![key] = q]

(***************************************************************************)
(* What a component shows: useQuery prefers its own result, the report the *)
(* cache.                                                                  *)
(***************************************************************************)
blocked(r)  == r # "guard" /\ active \notin Workspaces
keyOf(r)    == <<epoch, PartOf(r)>>
CachedOf(r) == IF blocked(r) THEN {} ELSE readCached(keyOf(r))
settled(r)  == readers[r].result.kind # "none" /\ readers[r].result.epoch = epoch
OwnData(r)  == IF settled(r) /\ readers[r].result.kind = "data"
                 THEN {readers[r].result.data} ELSE {}
shown(r) ==
  IF r = "report" THEN IF CachedOf(r) # {} THEN CachedOf(r) ELSE OwnData(r)
                  ELSE IF settled(r) THEN OwnData(r) ELSE CachedOf(r)
loading(r) == ~settled(r) /\ CachedOf(r) = {}

\* After a change of the epoch or of the active workspace: the effect of every
\* component whose key or gate changed will run again.
rerender(rs) ==
  [r \in Readers |->
     IF rs[r].mounted /\ \/ epoch' # epoch
                         \/ r # "guard" /\ (active \in Workspaces) # (active' \in Workspaces)
       THEN [rs[r] EXCEPT !.due = TRUE] ELSE rs[r]]

noteActiveWorkspace(w) == active' = w
\* noteWorkspaceMissing also has the session read again.
sessionStale(rs) == [rs EXCEPT !["guard"].due = TRUE, !["guard"].fresh = TRUE]

QueryInit ==
  /\ screen \in Screens
  /\ session = CHOOSE w \in Workspaces : TRUE
  /\ version = [w \in Workspaces |-> 0] /\ removals = 0
  /\ epoch = 0 /\ active = Unknown
  /\ answers = [k \in Keys |-> NotCached] /\ inflight = [k \in Keys |-> 0]
  /\ reads = [q \in ReadIds |-> Free]
  /\ readers = [r \in Readers |-> IF r = "guard" THEN [Absent EXCEPT !.mounted = TRUE,
                                                                     !.due = TRUE]
                                                 ELSE Absent]
  /\ switch = NoSwitch /\ change = "none"
  /\ shownChange = [w \in Workspaces |-> 0]

(***************************************************************************)
(* A component's life.                                                     *)
(***************************************************************************)
Mount(r) ==
  /\ ~readers[r].mounted /\ r \in screen
  /\ readers' = [readers EXCEPT ![r] = [Absent EXCEPT !.mounted = TRUE, !.due = TRUE]]
  /\ UNCHANGED <<screen, apiVars, epochVars, cacheVars, reads, userVars>>

Unmount(r) ==
  /\ r # "guard" /\ readers[r].mounted
  /\ readers' = [readers EXCEPT ![r] = Absent]
  /\ UNCHANGED <<screen, apiVars, epochVars, cacheVars, reads, userVars>>

\* The effect: whatever was asked before is not listened to any more.
RunEffect(r) ==
  LET old == readers[r] IN
  /\ old.due
  /\ IF blocked(r)
       THEN /\ readers' = [readers EXCEPT ![r] = [old EXCEPT !.due = FALSE, !.asked = 0,
                                                             !.waits = FALSE]]
            /\ UNCHANGED <<reads, inflight>>
       ELSE /\ fetchShared(r, keyOf(r), old.fresh)
            /\ readers' = [readers EXCEPT ![r] =
                 [old EXCEPT !.due = FALSE, !.fresh = FALSE, !.waits = FALSE,
                             !.asked = inflight'[keyOf(r)]]]
  /\ UNCHANGED <<screen, apiVars, epochVars, answers, userVars>>

\* A timer of the report: the score was still being computed.
AskAgain ==
  LET old == readers["report"] IN
  /\ old.waits
  /\ fetchShared("report", <<old.result.epoch, "health">>, FALSE)
  /\ readers' = [readers EXCEPT !["report"] =
       [old EXCEPT !.waits = FALSE, !.asked = inflight'[<<old.result.epoch, "health">>]]]
  /\ UNCHANGED <<screen, apiVars, epochVars, answers, userVars>>

\* A project's settings were saved: every list on screen reads again (useProjects).
onSettingsChanged ==
  LET ears == {r \in ListReaders : readers[r].mounted} IN
  /\ ears # {}
  /\ readers' = [r \in Readers |-> IF r \in ears THEN [readers[r] EXCEPT !.due = TRUE, !.fresh = TRUE]
                                   ELSE readers[r]]
  /\ UNCHANGED <<screen, apiVars, epochVars, cacheVars, reads, userVars>>

\* The Retry button of an error.
refetch(r) ==
  /\ settled(r) /\ readers[r].result.kind = "error"
  /\ forgetQueries({PartOf(r)})
  /\ readers' = [readers EXCEPT ![r].due = TRUE, ![r].fresh = TRUE, ![r].result = NoResult]
  /\ UNCHANGED <<screen, apiVars, epochVars, reads, userVars>>

\* prefetch-project.ts: the pointer rests on a link to the project.
warm ==
  /\ "link" \in screen /\ active \in Workspaces /\ readCached(<<epoch, "health">>) = {}
  /\ inflight[<<epoch, "health">>] = 0
  /\ fetchShared("link", <<epoch, "health">>, FALSE)
  /\ UNCHANGED <<screen, apiVars, epochVars, answers, readers, userVars>>

(***************************************************************************)
(* The API answers a read for the workspace its session is bound to then.  *)
(***************************************************************************)
Answered(q, at, data) == reads' = [reads EXCEPT ![q].at = at, ![q].data = data]

ServeRead(q) ==
  /\ reads[q].at = "out"
  /\ LET part == reads[q].key[2] IN
     \/ part = "session" /\ Answered(q, "data", [ws |-> session, v |-> 0])
     \/ /\ part # "session" /\ session \in Workspaces
        /\ Answered(q, "data", [ws |-> session,
                                v |-> IF part = "projects" THEN version[session] ELSE 0])
     \/ part = "health" /\ session \in Workspaces /\ Answered(q, "pending", NoData)
     \/ part # "session" /\ session = NoWorkspace /\ Answered(q, "required", NoData)
     \/ part \in FailingParts /\ Answered(q, "error", NoData)
  /\ UNCHANGED <<screen, apiVars, epochVars, cacheVars, readers, userVars>>

\* Mutant: the next ask about a pending score is not scheduled.
toldOnce(r, q, gaveUp) ==
  LET old == readers[r]
      read == reads[q]
  IN  [old EXCEPT !.asked = 0,
                  !.result = [epoch |-> read.key[1], data |-> read.data,
                              kind |-> IF read.at = "data" THEN "data"
                                       ELSE IF read.at = "pending" THEN "none" ELSE "error"]]

\* What a component makes of the answer to the request it listens to.  A pending
\* score is waited for, until SCORE_TIMEOUT_MS have passed.
told(r, q, gaveUp) ==
  LET old == readers[r]
      read == reads[q]
      waits == r = "report" /\ read.at = "pending" /\ ~gaveUp
  IN  [old EXCEPT !.asked = 0, !.waits = waits,
                  !.result = [epoch |-> read.key[1], data |-> read.data,
                              kind |-> IF read.at = "data" THEN "data"
                                       ELSE IF waits THEN "pending" ELSE "error"]]

Told(q, gaveUp) ==
  [r \in Readers |-> IF readers[r].asked = q THEN told(r, q, gaveUp) ELSE readers[r]]

\* useSession: the workspace is noted when the data changed; the same answer read
\* again is the same object, and no effect runs.
NotesSession(q) == /\ readers["guard"].asked = q /\ reads[q].at = "data"
                   /\ reads[q].key = keyOf("guard") /\ shown("guard") # {reads[q].data}

\* useQuery notes a missing workspace even when nobody listens any more.
NotesMissing(q) == /\ reads[q].at = "required"
                   /\ reads[q].callers \cap ListReaders # {}
                      \/ readers["report"].asked = q

\* Mutant: an answer fills the cache whether or not it is still wanted.
AnswerAlwaysKept(q, gaveUp) ==
  /\ reads[q].at \notin {"free", "out"}
  /\ reads' = [reads EXCEPT ![q] = Free]
  /\ inflight' = [k \in Keys |-> IF inflight[k] = q THEN 0 ELSE inflight[k]]
  /\ answers' = IF reads[q].at = "data" THEN remember(answers, reads[q].key, reads[q].data)
                ELSE without(answers, {reads[q].key})
  /\ IF NotesSession(q) THEN noteActiveWorkspace(reads[q].data.ws)
     ELSE IF NotesMissing(q) THEN noteActiveWorkspace(NoWorkspace) ELSE UNCHANGED active
  /\ UNCHANGED epoch
  /\ readers' = LET rs == rerender(Told(q, gaveUp))
                IN  IF NotesMissing(q) THEN sessionStale(rs) ELSE rs
  /\ UNCHANGED <<screen, apiVars, userVars>>

AnswerRead(q, gaveUp) ==
  LET kept == inflight[reads[q].key] = q IN
  /\ reads[q].at \notin {"free", "out"}
  /\ reads' = [reads EXCEPT ![q] = Free]
  /\ inflight' = IF kept THEN [inflight EXCEPT ![reads[q].key] = 0] ELSE inflight
  /\ answers' = IF ~kept THEN answers
                ELSE IF reads[q].at = "data" THEN remember(answers, reads[q].key, reads[q].data)
                ELSE without(answers, {reads[q].key})
  /\ IF NotesSession(q) THEN noteActiveWorkspace(reads[q].data.ws)
     ELSE IF NotesMissing(q) THEN noteActiveWorkspace(NoWorkspace) ELSE UNCHANGED active
  /\ UNCHANGED epoch
  /\ readers' = LET rs == rerender(Told(q, gaveUp))
                IN  IF NotesMissing(q) THEN sessionStale(rs) ELSE rs
  /\ UNCHANGED <<screen, apiVars, userVars>>

(***************************************************************************)
(* A project is connected or removed: the mounted lists show it at once,   *)
(* then read again (useProjects).                                          *)
(***************************************************************************)
AskChange ==
  /\ change = "none" /\ active \in Workspaces /\ \E r \in ListReaders : shown(r) # {}
  /\ change' = "out"
  /\ UNCHANGED <<screen, apiVars, epochVars, cacheVars, reads, readers, switch, shownChange>>

ServeChange ==
  /\ change = "out"
  /\ \/ /\ session \in Workspaces /\ version[session] < MaxChanges /\ MoreEvents
        /\ version' = [version EXCEPT ![session] = @ + 1] /\ change' = session
     \/ change' = "none" /\ UNCHANGED version
  /\ UNCHANGED <<screen, session, removals, epochVars, cacheVars, reads, readers, switch, shownChange>>

\* update: the cached copy is replaced and a read that is out no longer counts.
onProjectsChanged ==
  LET now  == [ws |-> change, v |-> version[change]]
      ears == {r \in ListReaders : readers[r].mounted}
  IN
  /\ change \in Workspaces /\ change' = "none"
  /\ readers' = [r \in Readers |->
       IF r \in ears THEN [readers[r] EXCEPT !.asked = 0, !.due = TRUE, !.fresh = TRUE,
                             !.result = [epoch |-> epoch, kind |-> "data", data |-> now]]
                     ELSE readers[r]]
  /\ IF ears = {} THEN UNCHANGED <<cacheVars, shownChange>>
     ELSE /\ shownChange' = [shownChange EXCEPT ![change] = version[change]]
          /\ answers' = remember(answers, <<epoch, "projects">>, now)
          /\ inflight' = joinable(inflight, {<<epoch, "projects">>})
  /\ UNCHANGED <<screen, apiVars, epochVars, reads, switch>>

(***************************************************************************)
(* Switching, creating, joining or deleting a workspace.                   *)
(***************************************************************************)
switchTo(w) ==
  /\ switch = NoSwitch /\ epoch < MaxEpoch /\ MoreEvents
  /\ active # Unknown /\ w # active
  /\ switch' = [at |-> "out", to |-> w]
  /\ UNCHANGED <<screen, apiVars, epochVars, cacheVars, reads, readers, change, shownChange>>

ServeSwitch ==
  /\ switch.at = "out"
  /\ switch' = [switch EXCEPT !.at = "served"] /\ session' = switch.to
  /\ UNCHANGED <<screen, version, removals, epochVars, cacheVars, reads, readers, change, shownChange>>

invalidateWorkspaceScope == clearQueryCache /\ epoch' = epoch + 1

\* switchTo, adoptWorkspace and leaveDeletedWorkspace.
Switched ==
  /\ switch.at = "served" /\ switch' = NoSwitch
  /\ noteActiveWorkspace(switch.to) /\ invalidateWorkspaceScope
  /\ readers' = rerender(readers)
  /\ UNCHANGED <<screen, apiVars, reads, change, shownChange>>

SwitchFails ==
  /\ switch.at = "out" \/ (AnswersMayBeLost /\ switch.at = "served")
  /\ switch' = NoSwitch
  /\ UNCHANGED <<screen, apiVars, epochVars, cacheVars, reads, readers, change, shownChange>>

RemovedByAdmin ==
  /\ removals < MaxRemovals /\ MoreEvents /\ session \in Workspaces /\ switch = NoSwitch
  /\ removals' = removals + 1 /\ session' = NoWorkspace
  /\ UNCHANGED <<screen, version, epochVars, cacheVars, reads, readers, userVars>>

QueryNext ==
  \/ \E r \in Readers : Mount(r) \/ Unmount(r) \/ RunEffect(r) \/ refetch(r)
  \/ AskAgain \/ warm \/ onSettingsChanged
  \/ \E q \in ReadIds : ServeRead(q) \/ \E gaveUp \in BOOLEAN : AnswerRead(q, gaveUp)
  \/ AskChange \/ ServeChange \/ onProjectsChanged
  \/ \E w \in Workspaces \cup {NoWorkspace} : switchTo(w)
  \/ ServeSwitch \/ Switched \/ SwitchFails \/ RemovedByAdmin

QuerySpec == QueryInit /\ [][QueryNext]_queryVars

-----------------------------------------------------------------------------
\* Every variable has its type, and the cache its bound.
QueryTypeOK ==
  /\ session \in Workspaces \cup {NoWorkspace}
  /\ version \in [Workspaces -> 0..MaxChanges] /\ removals \in 0..MaxRemovals
  /\ epoch \in 0..MaxEpoch /\ active \in Workspaces \cup {NoWorkspace, Unknown}
  /\ answers \in [Keys -> [data : Data \cup {NoData}, age : 0..MaxAnswers]]
  /\ Cardinality({k \in Keys : Cached(answers, k)}) <= MaxAnswers
  /\ inflight \in [Keys -> 0..MaxReads]
  /\ \A q \in ReadIds : reads[q].key \in Keys /\ reads[q].data \in Data \cup {NoData}
  /\ \A r \in Readers : /\ readers[r].asked \in 0..MaxReads
                        /\ readers[r].result.epoch \in 0..MaxEpoch
                        /\ readers[r].result.data \in Data \cup {NoData}

\* What a component shows once its reads have settled was read from the workspace
\* that is active, whatever was out when the user switched: only between the moment
\* the API has switched and the moment the page knows may it be of the next one.
NothingCrossesASwitch ==
  switch.at # "served" /\ active \in Workspaces =>
    \A r \in Readers \ {"guard"} :
      readers[r].mounted /\ ~readers[r].due /\ readers[r].asked = 0 =>
        \A d \in shown(r) : d.ws = active

\* Once a project that was connected or removed is shown so by a list, no list on screen
\* shows the project list of before again, whatever reads, joins and switches are out.
ChangesStayShown ==
  \A r \in ListReaders : readers[r].mounted =>
    \A d \in shown(r) : d.ws \in Workspaces => shownChange[d.ws] <= d.v

\* A component that shows a skeleton has asked, or is about to: no interleaving of
\* shared requests, forgetting and switching leaves one waiting for nothing.
NobodyWaitsInVain ==
  \A r \in Readers : readers[r].mounted /\ ~blocked(r) =>
    /\ loading(r) => readers[r].due \/ readers[r].asked # 0
    /\ settled(r) /\ readers[r].result.kind = "pending" =>
         readers[r].due \/ readers[r].asked # 0 \/ readers[r].waits

\* The cache keeps its bound, nothing read under one workspace settles under another, and
\* nobody waits for a read that nobody made.
CacheInv == QueryTypeOK /\ NothingCrossesASwitch /\ NobodyWaitsInVain
=============================================================================
