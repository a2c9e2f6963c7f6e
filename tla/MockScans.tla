----------------------------- MODULE MockScans -----------------------------
(***************************************************************************)
(* The scans of the mock API (lib/mocks/handlers.ts): a scan moves on with *)
(* every poll, a stop takes effect at a later poll or comes too late, an   *)
(* unchanged branch is not scanned again, a score follows its scan after a *)
(* number of asks, and none of this survives a reload.                     *)
(***************************************************************************)
EXTENDS Integers, FiniteSets

CONSTANTS ScanRepos,    \* the projects of the workspace
          MockBranches, \* their branches, each at a commit that stays
          MainBranch,   \* the default one
          Headed,       \* those whose commit is known
          Selections,   \* what rules may be in force
          MaxMockScans, \* scans that are started
          MaxMockEdits  \* changes of rules, profiles and projects

ASSUME MockScansAssumption ==
  /\ Headed \subseteq MockBranches /\ MainBranch \in MockBranches /\ Selections # {}
  /\ MaxMockScans \in Nat /\ MaxMockEdits \in Nat

VARIABLES mockScans,       \* the last scan of each project, NoScan before the first; stopping:
                           \* its answers say that a stop was asked for
          cancelRequested, \* the projects whose scan is to stop
          lastSuccessful,  \* per branch: the rules of the last successful scan, or NoRules
          newestSnapshot,  \* per branch: the rules its newest snapshot was made under, or NoRules
          pendingScores,   \* per branch: how many asks still answer SCORE_PENDING
          rescoring,       \* the projects whose score follows a changed profile
          rulesInForce,       \* the rules in force
          known,           \* the projects that are connected
          startedScans, edits

mockScanVars == <<mockScans, cancelRequested, lastSuccessful, newestSnapshot, pendingScores,
                  rescoring, rulesInForce, known, startedScans, edits>>

Steps                   == {17, 4}  \* percent per poll, also slowed down
FINALIZE_AT             == 85
PENDING_ASKS_AFTER_SCAN == 2
NoRules  == "none"
MockKeys == ScanRepos \X MockBranches
NoScan   == [id |-> 0, phase |-> "idle", progress |-> 0, branch |-> "", rules |-> NoRules,
             stopping |-> FALSE]
Emptied(repos, map, empty) == [k \in MockKeys |-> IF k[1] \in repos THEN empty ELSE map[k]]

MockScansInit ==
  /\ mockScans = [r \in ScanRepos |-> NoScan] /\ cancelRequested = {}
  /\ lastSuccessful = [k \in MockKeys |-> NoRules] /\ newestSnapshot = [k \in MockKeys |-> NoRules]
  /\ pendingScores = [k \in MockKeys |-> 0] /\ rescoring = {}
  /\ rulesInForce \in Selections /\ known = ScanRepos
  /\ startedScans = 0 /\ edits = 0

Active(r) == mockScans[r].phase = "running"

unchanged(k) == lastSuccessful[k] = rulesInForce

\* POST /scan: refused while one runs, skipped when nothing has changed.
StartMockScan(r, b) ==
  /\ startedScans < MaxMockScans /\ r \in known /\ ~Active(r)
  /\ startedScans' = startedScans + 1
  /\ LET skipped == unchanged(<<r, b>>) IN
     mockScans' = [mockScans EXCEPT ![r] =
       [id |-> startedScans', branch |-> b, stopping |-> FALSE,
        phase |-> IF skipped THEN "done" ELSE "running", progress |-> IF skipped THEN 100 ELSE 0,
        rules |-> IF skipped THEN NoRules ELSE rulesInForce]]
  /\ UNCHANGED <<cancelRequested, lastSuccessful, newestSnapshot, pendingScores, rescoring,
                 rulesInForce, known, edits>>

\* POST /scan/{id}/stop: whatever scan the request names, the one that runs now is flagged, and the
\* answer is that scan.
StopMockScan(r, scanId) ==
  /\ r \in known /\ Active(r)
  /\ cancelRequested' = cancelRequested \cup {r}
  /\ mockScans' = [mockScans EXCEPT ![r].stopping = TRUE]
  /\ UNCHANGED <<lastSuccessful, newestSnapshot, pendingScores, rescoring, rulesInForce,
                 known, startedScans, edits>>

\* Mutant: a flag that comes too late is left behind.
takenFlagInTime(r) == IF mockScans[r].progress < FINALIZE_AT THEN cancelRequested \ {r} ELSE cancelRequested

takenFlag(r) == cancelRequested \ {r}

stops(r) == r \in cancelRequested /\ mockScans[r].progress < FINALIZE_AT

tickCancelled(r) ==
  /\ stops(r)
  /\ mockScans' = [mockScans EXCEPT ![r].phase = "cancelled", ![r].stopping = FALSE]
  /\ UNCHANGED <<lastSuccessful, newestSnapshot, pendingScores>>

tickOn(r, step) ==
  /\ ~stops(r) /\ mockScans[r].progress + step < 100
  /\ mockScans' = [mockScans EXCEPT ![r].progress = @ + step]
  /\ UNCHANGED <<lastSuccessful, newestSnapshot, pendingScores>>

\* The snapshot is stored the moment the scan finishes; the score is not.
tickDone(r, step) ==
  /\ ~stops(r) /\ mockScans[r].progress + step >= 100
  /\ LET k == <<r, mockScans[r].branch>> IN
     /\ mockScans' = [mockScans EXCEPT ![r].phase = "done", ![r].progress = 100,
                                   ![r].stopping = FALSE]
     /\ lastSuccessful' = [lastSuccessful EXCEPT ![k] = IF k[2] \in Headed THEN mockScans[r].rules ELSE @]
     /\ newestSnapshot' = [newestSnapshot EXCEPT ![k] = mockScans[r].rules]
     /\ pendingScores' = [pendingScores EXCEPT ![k] = PENDING_ASKS_AFTER_SCAN]

\* GET /scan/{id}: whatever scan the request names, the project's last one is where this poll
\* brings it.
tick(r, scanId, step) ==
  /\ r \in known /\ Active(r)
  /\ cancelRequested' = takenFlag(r)
  /\ tickCancelled(r) \/ tickOn(r, step) \/ tickDone(r, step)
  /\ UNCHANGED <<rescoring, rulesInForce, known, startedScans, edits>>

\* GET /health: pending until the score is there.
AskHealth(k) ==
  /\ k[1] \in known /\ pendingScores[k] > 0
  /\ k[1] \in rescoring => k[2] # MainBranch
  /\ pendingScores' = [pendingScores EXCEPT ![k] = @ - 1]
  /\ UNCHANGED <<mockScans, cancelRequested, lastSuccessful, newestSnapshot, rescoring, rulesInForce,
                 known, startedScans, edits>>

Edit == edits < MaxMockEdits /\ edits' = edits + 1

\* Rules are switched; a running scan keeps the ones it was queued with.
SelectRules(s) ==
  /\ Edit /\ s # rulesInForce
  /\ rulesInForce' = s
  /\ UNCHANGED <<mockScans, cancelRequested, lastSuccessful, newestSnapshot, pendingScores, rescoring,
                 known, startedScans>>

\* A profile is changed, and its score is there after a while.
markRescoring(repos) ==
  /\ Edit /\ repos \subseteq known /\ repos # {}
  /\ rescoring' = rescoring \cup repos
  /\ UNCHANGED <<mockScans, cancelRequested, lastSuccessful, newestSnapshot, pendingScores, rulesInForce,
                 known, startedScans>>

RescoreEnds ==
  /\ rescoring # {} /\ rescoring' = {}
  /\ UNCHANGED <<mockScans, cancelRequested, lastSuccessful, newestSnapshot, pendingScores, rulesInForce,
                 known, startedScans, edits>>

\* DELETE /projects/{id}: what is known of its scans stays.
DisconnectProject(r) ==
  /\ Edit /\ r \in known
  /\ known' = known \ {r}
  /\ UNCHANGED <<mockScans, cancelRequested, lastSuccessful, newestSnapshot, pendingScores, rescoring,
                 rulesInForce, startedScans>>

\* DELETE /auth/workspaces/{id}: refused while one of its projects is being scanned.
DeleteProjects ==
  /\ Edit /\ known # {} /\ \A r \in known : ~Active(r)
  /\ known' = {}
  /\ mockScans' = [r \in ScanRepos |-> IF r \in known THEN NoScan ELSE mockScans[r]]
  /\ rescoring' = rescoring \ known /\ cancelRequested' = cancelRequested \ known
  /\ lastSuccessful' = Emptied(known, lastSuccessful, NoRules)
  /\ newestSnapshot' = Emptied(known, newestSnapshot, NoRules)
  /\ pendingScores' = Emptied(known, pendingScores, 0)
  /\ UNCHANGED <<rulesInForce, startedScans>>

\* A reload of the page: only what session storage keeps is left.
ForgetScans ==
  /\ mockScans' = [r \in ScanRepos |-> NoScan] /\ cancelRequested' = {}
  /\ lastSuccessful' = [k \in MockKeys |-> NoRules] /\ newestSnapshot' = [k \in MockKeys |-> NoRules]
  /\ pendingScores' = [k \in MockKeys |-> 0] /\ rescoring' = {}
  /\ UNCHANGED <<rulesInForce, known, startedScans, edits>>

MockScansNext ==
  \/ RescoreEnds \/ DeleteProjects \/ ForgetScans
  \/ \E r \in ScanRepos : DisconnectProject(r)
  \/ \E r \in ScanRepos, scanId \in 1..startedScans :
       StopMockScan(r, scanId) \/ \E step \in Steps : tick(r, scanId, step)
  \/ \E k \in MockKeys : AskHealth(k) \/ StartMockScan(k[1], k[2])
  \/ \E s \in Selections : SelectRules(s)
  \/ \E repos \in SUBSET ScanRepos : markRescoring(repos)

MockScansSpec == MockScansInit /\ [][MockScansNext]_mockScanVars

-----------------------------------------------------------------------------
\* A flag that is left is of a scan that runs and whose answers say that it is being stopped: none
\* outlives its scan, where a poll would end the next one as cancelled though nobody was told.  (It
\* need not be the scan that the request named: the handlers do not look at the id.)
StopsAreTold == \A r \in cancelRequested : Active(r) /\ mockScans[r].stopping
=============================================================================
