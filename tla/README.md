# Verification of CodeSage

TLA+ models of CodeSage, model-checked with TLC and proved with TLAPS.
CodeSage scans the Java code of GitHub repositories and shows teams their
technical debt: a FastAPI service, Celery workers, PostgreSQL, Redis, and a Next.js client.

Paths of Python files below are relative to `src/apps/api/src/codesage_api/`, those of TypeScript files
to `src/apps/web/src/`, unless they start with `src/`.

## 1. Inventory

| Component | State it keeps | Operations | Talks to |
|---|---|---|---|
| Scan API (`services/analysis.py`, `routers/scans.py`) | `analysis_attempt` rows, through `db/repositories/attempts.py` | start, status, active, activity, stop, history | PostgreSQL, Redis keys, broker, GitHub |
| Scan worker (`tasks/scan_pipeline.py`) | its clone directory, the message it has not acknowledged | claim a slot, wait, retry, run the stages, finalize, end | broker (late acknowledgement), PostgreSQL, Redis, disk, ML service |
| Progress keys (`tasks/progress.py`, `tasks/cancel.py`) | Redis: percentage, stage, cancel flag, waiting mark, grace, demand list | set, read, expire, clear | API and workers; KEDA reads the demand list |
| Score cache (`tasks/score_cache.py`, `services/dashboard.py`, `db/models/score.py`) | one row per snapshot and profile fingerprint: pending, running, ready, error | prepare, calculate, warm | API reads, score workers, Redis enqueue claim |
| HTTP response cache (`services/response_cache.py`) | an LRU of rendered bodies under a byte budget, per process | get, put, evict | health and findings routes, triage versions |
| Quality profiles (`services/profiles.py`, `app/(app)/profiles/page.tsx`) | pool of custom profiles, default, project assignments; the page's copy, draft and writes | create, update, delete, assign, clear, set default | score cache (re-scoring), teammates |
| Membership (`services/member_admin.py`, `components/workspace/team-panel.tsx`) | members, roles, invitations; the panel's list and requests | invite, revoke, accept, change role, remove | authorization |
| Accounts and workspaces (`services/auth.py`, `routers/auth.py`, sign-in and workspace pages) | users, sessions, handshake cookie, workspaces | sign in, accept, switch, create, rename, delete, sign out | every request |
| Repositories (`services/repositories.py`) | repositories, branches | connect, disconnect, refresh branches, scope | GitHub, scans |
| Scoring (`scoring/`) | none | rank findings, visibility floor, health | score cache |
| Detection and identity (`detection/`, `services/finding_diff.py`) | none | rules, fingerprints, diff of two snapshots | scan worker, dashboard |
| Extractors, ML client, GitHub, e-mail | none | external calls | scan worker |
| Web scan center (`hooks/use-scan-center.ts`) | tracked jobs, timers, requests that are out, what a refresh resumes | start, attach, stop, poll, resume, await score | scan API |
| Web query cache (`lib/query-cache.ts`, `hooks/use-query.ts`, `hooks/use-workspace*.ts`) | answers, requests in flight, the epoch of a switch | fetch, forget, write, switch | every page |
| Web pages (`app/`, `components/`, `hooks/` below `src/apps/web/src/`) | dialogs, drafts, what was read, requests that are out, local storage | see the modules | query cache, scan center, API |
| Mock API (`lib/mocks/`) | three copies of a workspace, running scans | every handler that changes state | the web app in development and tests |
| Authorization, calibration scripts, deployment | static tables, configuration | | |

### What is hard in it

* **Two sources of truth and no common lock.** A status lives in PostgreSQL, the stop flag and the
  waiting mark in Redis, the work in a broker message. `start()` takes the repository lock, a claim
  the workspace's slot lock, `mark_error`, `_set_terminal` and `_finalize` neither.
* **At-least-once delivery.** Messages are acknowledged when the task returns (`tasks/app.py:30`);
  Redis delivers one again an hour after it was handed out, and a worker that is scaled down gives
  its message back. `begin_for_worker` claims a RUNNING row again on purpose.
* **Workers that vanish.** The hard time limit and the kernel kill the child without running its
  `finally`; the row stays RUNNING, the clone stays on disk. Recovery is done by reads: every status
  poll tidies up (`_heal`).
* **Judging by absence.** A queued scan without a waiting mark is ended on the second sighting.
* **Limits.** Running slots and queue places per workspace must be freed by every way a scan can end.
* **Rows written back late.** The ORM reads a score row once in a transaction and writes the columns it
  changed at the commit. Score workers, dashboard reads and the projects page do so without a lock, so a
  status may be decided on one state of the row and written over another.
* **Late answers in the client.** JavaScript runs one callback at a time, so a step is what happens between
  two awaits; everything else interleaves. Polls, starts and stops overlap, and their answers may arrive after the
  scan was stopped, replaced or forgotten, after the user went to another workspace, or never.
* **Copies.** A page shows what it read, with what it wrote since laid over it; a read that was out before a
  write answers after it. A teammate, another tab and the provider of the session change the original meanwhile.
* **Numbers at a boundary.** A bar that must not pass a step, an axis that must hold its points, an average over
  projects without a size, a card that must stay inside a small window.

### What makes each component correct

* Scans: one active scan per branch; never more running than allowed; an ended scan is never
  restarted and its ending never changes; a result exists exactly for the scans that are done; a stop is
  honoured; every scan ends; only abandoned scans are ended by the tidy-up.
* Scan demand: the autoscaler's list settles on the number of slots that can be used.
* Score cache: a message is sent only for a committed row; a score says running only while a worker
  is at it; a pending score is in somebody's hands or can be queued again; a score that is asked for becomes ready.
* Response cache: a body served is the body of the current versions; the byte budget holds.
* Profiles: at most five custom profiles, exactly one default, no assignment to a deleted profile.
* Membership: an active workspace keeps an administrator.
* Workspaces: nothing is created in a workspace that is gone; a session never points at one.
* Repositories: a removal leaves no running scan without its row.
* Scoring, identity: the floor keeps what it must; a fingerprint names one finding of a snapshot.
* Scan center: a followed scan is always polled, once; it is called finished only when it is done; a stop stays shown.
* Query cache: nothing read under one workspace is shown under another; a change that was shown is not undone by
  an older read; nobody waits in vain.
* Pages: once everything is answered the page shows what the API holds; no form saves what it has not read; no
  dialog waits for nothing; no new results come without the reader while their score is awaited; what was chosen is remembered.
* Mock API: its three copies agree, and no stop is left for a later scan.

## 2. Modules

| Module | Models |
|---|---|
| `ScanLifecycle` | the scans of one workspace: API, rows, slot lock, broker, workers, Redis keys, clones, faults |
| `ScanLedger` | what the scan endpoints promise (abstract specification of `ScanLifecycle`) |
| `ScoreCache` | the cached scores of snapshots: rows, requests and warming tasks, enqueue claim, broker, score workers, faults |
| `ScanCenter` | the scans one tab follows, their polls, the API as their environment |
| `QueryCache` | the memory behind every read, its readers, and the switch of the workspace |
| `ProjectsPage`, `ProjectSelection`, `SourceScope`, `ProfilesPage`, `OverviewPage` | connecting and removing projects; which project is looked at; what is scanned; scoring profiles; the overview |
| `DashboardPage`, `DashboardViews`, `FindingsTab`, `FindingDetail`, `HealthTrend`, `ScanBar` | a project's page: results and the scan above them, views, findings, code, trend, progress |
| `Membership` | members and invitations on the API (abstract specification of `TeamPanel`) |
| `SignIn`, `ActivityFeed`, `WorkspacePage`, `TeamPanel`, `RulesPage`, `ProductTour`, `TourCard` | signing in and accepting; the activity menu; settings, creation, deletion; the team; the rules; the tour and its card |
| `MockWorkspaces`, `MockScans` | the mock API that the web app is developed and tested against |
| `ProjectPages`, `DashboardPages`, `WorkspacePages` | compositions of the pages (below) |
| `MCScan`, `MCScore`, `MCScanCenter`, `MCProjectPages`, `MCDashboardPages`, `MCWorkspacePages` | finite instances for TLC |
| `*_proofs` | theorems about the module they are named after, and about the parts of a composition |

Each definition carries the name its code has wherever TLA+ allows it. A database transaction, or what a
browser does between two awaits, is one action; a request is a record that is sent, served, answered, and
may be lost where the code can meet that. A counter with a bound (`MaxCalls`, `MaxMoves`, ...) stops an input from
being given for ever; nothing else depends on it.

### ScanLifecycle

| Variable | Code |
|---|---|
| `status`, `ended`, `snapshots` | `analysis_attempt.status`, a set `completion_time`, a `snapshot` row |
| `stale` | RUNNING rows whose `start_time` is before the cutoff of `expire_stale_running` |
| `flag`, `waiting`, `graced` | Redis keys: cancel flag; waiting mark with its pickup (3 h) or heartbeat (120 s) life; grace (three heartbeats) |
| `queue` | broker: for each message (attempt, claim failures) the number of copies it may deliver |
| `pc`, `msg`, `seen` | each worker process: where it is, the message it holds, the status it read when claiming |
| `clones` | directories below the clone root of each volume |
| `publishing`, `stopping` | start requests between commit and publication, stop requests that have read the row |
| `faults` | bound on faults |

A database transaction is one action. The claim is the exception, because the code separates its steps:
`ClaimRead` takes the slot lock and reads the row (`attempts.py:492-504`), `ClaimCount` expires and
counts (`:506-509`), `Claim` writes and commits (`:511-516`). The workers that are `Locking` hold the
lock, and everything else that takes it waits (`SlotFree`) or, for a tidy-up, is skipped.
`mark_error`, `_set_terminal` and `_finalize` do not take it and run in between.

Decisions worth knowing when reading the module:

* *The tidy-up is part of its caller.* `start()` and the three reads run `_heal` first. A refused
  `start()` rolls its rows back but not what it did to Redis (`StartRolledBack`): it notes the grace and renews
  the mark, or drops both for a scan it then fails to end.
* *`Conflicts`.* `begin_for_worker` writes `completion_time = None` through the ORM. When the row
  it read had none, nothing is written for that column, so a row that got a completion time meanwhile (it
  ended, or it is itself the stale row the same transaction has just expired) refuses the new
  `start_time` (`valid_time_range`, `db/models/analysis.py:70`). The claim is then retried as a database error, and
  the next claim finds the row ended. This constraint is what keeps ended scans from being restarted.
* *A message is a pair* of an attempt and its claim failures; a retry is a new message sent before the
  old one is acknowledged. The retry delay is not modelled: a message in the queue may be delivered at any time.
* *Time.* `Age` makes a RUNNING row stale only when no worker is past its claim of it, because the hard
  limit (31 min) is below the cutoff (31 min and a grace). `MarkRunsOut` lets a heartbeat mark run out
  only if the message is gone or no worker is free to ask (workers ask every 15 s), and a pickup mark only
  if the message is gone.
* *Faults.* `kill` (child killed, message acknowledged), `pod` (worker gone, message redelivered),
  `redeliver` (visibility timeout), `redis` (restart: keys lost, perhaps the queue), `db` (a
  transaction fails), `publish` (`delay` raises, the broker may have the message), `api` (process dies before it
  publishes), `limit` (soft limit after the commit). `MaxFaults` bounds them.
* *Abstracted:* what stages compute (they succeed, fail, or meet a guardrail), the percentage, the
  skip of an unchanged commit (a start that creates nothing: `Poll`), audit rows.

### ScanLedger

Scans are idle, queued, running, then done, error or cancelled for good; results exist exactly for
the done; one active scan per branch; bounded queue and slots. `ScanLifecycle` implements it under
`phase <- status, results <- snapshots` (`ImplementsLedger`) where its promise can be kept at all: as long as a
message has one copy, the claims of a message do not all fail, and no soft limit strikes after the commit (section 5).

### ScoreCache

A row is one snapshot under one profile fingerprint and engine version (`uq_snapshot_score_inputs`).

| Variable | Code |
|---|---|
| `row` | `snapshot_score.status` and how old `started_at` is: none, fresh, or older than twice the time limit; `absent` before the insert, `gone` with its snapshot |
| `claims` | the Redis keys of `claim_score_enqueue` that have not run out |
| `queue` | copies of `codesage.score_snapshot` in the broker, per row |
| `req` | each request or warming task: kind, rows still to read, and what its session will write (`inserts`, `resets` of the status, `clears` of `started_at`) and send (`jobs`) |
| `pc`, `job`, `seen` | each score worker: where it is in `score_snapshot`, for which row, the status its first transaction read |
| `faults` | bound on faults |

The steps are the points at which others can act. A request reads its rows one by one (`Read`: a missing row is
added, an error becomes pending, and `needs_enqueue` decides whether to queue), commits (`Commit`), or is
rolled back (`Rollback`, `InsertRefused`), and only then sends (`Send`, `SendFails`). `score_snapshot` is
three transactions: `Begin` and `MarkRunning` are the read and the commit of the first, `Calculate` and `Finish`
of the second, and `RecordError` is the third.

* *Kinds of requests.* `poll` is a report or findings page (claims; sends if it queued, else is rolled back with
  ScorePending), `batch` is trend, history and warming (claims, many rows), `list` is the projects page, which
  queues what it created without a claim and marks errors when sending fails.
* *Written columns only.* `MarkRunning` writes the status only if it differs from the one read; a reset of an error writes
  `started_at = None` only if the error it read had a start time. Autoflush is abstracted: a change becomes visible at the
  commit, but an insert blocks other inserts of the row from when it is made.
* *The projects page's error path* reads each row again with `session.get`, which hands back the session's own copy:
  the test for "still pending" is always true, and rows already sent are marked too (`SendFails`).
* *Faults.* `claim` (Redis is away, the claim is granted), `send` (sending raises, the broker may have the
  message), `api` (a request dies), `mark` and `raise` (a worker's first transaction, or anything later, fails, or
  the soft limit strikes, also after the second commit), `db` (recording the error fails), `kill`, `pod`,
  `redis`, `remove` (the repository is disconnected).
* *Left out:* redelivery after the visibility timeout (an hour; a score task lives at most five and a half minutes),
  what is calculated, and how a report is rendered from a ready row.

### ScanCenter

| Variable | Code |
|---|---|
| `server`, `scored`, `session` | the API: where each scan is, whose score is ready, which workspace the session reads |
| `here`, `resumeDue` | `activeWorkspaceId` of the tab; the effect that resumes the scans of a workspace |
| `scans`, `timers` | the two maps of the module: jobs (id, phase, stopping, ...) and pending timeouts |
| `requests` | what is out (start, poll, stop, score read, discovery, resumption) and the answer once given |
| `saved`, `discovered` | session storage; the targets asked about in the last seconds |
| `said` | the event of this step: what a toast or a page hears |

An action is a callback: `Tick` (a timeout fires and asks), `PollActive`, `PollDone`, `PollOver`, `PollMissing`, `PollBlip`,
`PollUnfollowed` (the branches of `poll`), `ScoreAnswered` and its siblings, `Start*`, `Attach`, `Stop*`, `Discovered`, `Resume`, `Reload`.
The API serves a request, or the network loses it (`MaxBlips`), at any time. `forked` remembers the targets for which a job was
started or resumed while an older question was out: two chains of polls are then possible, and two properties except them.

### QueryCache

`answers` and `inflight` are the two maps of `query-cache.ts`; `epoch` and `active` are the variables of `use-workspace-scope.ts`; `reads`
are the requests that were sent, `readers` the components with what they show, whether they wait and which request they listen to.
`Screens` are the sets of components that are rendered together: the switcher of the top bar with a list, or the report with the link to a project.
A switch forgets everything and moves the epoch; `session` is what the API has, so that an answer may come from the workspace that was left.
A health report that is being calculated keeps its reader asking again; a failed read is forgotten.
`AnswersMayBeLost` lets the answer to a switch never arrive: the page may then stay in the workspace it was in while the session is in the other.
The run and `CacheKeepsItsPromises` assume that it arrives; `NobodyWaits` does without.

### The pages of projects

* `ProjectsPage`: the form waits for its promise (`settle`) while the Java-only dialog is open and the connection is asked for; then the source
  scope is configured or skipped, and the first scan is asked for if it was chosen. Requests keep what the page showed when they were sent.
  Leaving the page drops what its component holds, the mark that it is connecting too, while the requests stay out.
  Opened again, the page may ask for the same connection once more (`MaxActs`).
* `ProjectSelection`: the URL, the stored project per workspace and the branch per project; effects run when something changed, in the order of the code.
* `SourceScope`: the dialog's patterns against the saved configuration; one directory of files and some beside it. `checked` and `toggled`
  are the three states of a box and what a click makes of the patterns. A dialog that is closed while it saves and opened again may save a second time (`saves` has each).
* `ProfilesPage`: the API's pool, default and choices, the page's copies, one draft, and for each kind of write what it captured. Teammates write too. A write may be applied although its answer is lost, and the API's answer carries the values of when it was served.
* `OverviewPage`: the order of the rows in the four ways to sort them, with projects of one name, what needs attention first, and the average, as pure
  definitions over what was read.

### The pages of a dashboard

* `DashboardPage`: a report is the number of its snapshot. Which branch and snapshot the address names, what was read for it, what the shared
  cache keeps, the job on the branch, and the pinned results that wait behind "new results". The polling of the scan center is cut down to its outcomes.
  `reading` notes what the reader reads while a scan is followed, also while the page is without results in between; `GaveUp` is the one step of the page's own that
  drops it: the score timed out, or its read was answered with an error.
* `DashboardViews`: the view and the finding or file in the address, the stored choice of each reader and workspace, the setting of an old
  release, storage that is full or blocked, and the folders of the code map. There is no listener: what another tab stores is read at the next render
  (`storedTab` is what was read last, `behind` says that it is old, `renderAgain` is a render for any other reason).
* `FindingsTab`: filters, order and pages of the list, and the status of a finding: an override per snapshot and finding until the answer, which may be lost after the status was written.
* `FindingDetail`: files per URL (asked for, failed, read), who waits for them, and the lines that are cut out.
* `HealthTrend`: `trendScale`, in units of a twentieth of a point, so that 15 % of a range is whole.
* `ScanBar`: the worker's last status, the last one polled, and the bar, which creeps inside its step by an amount the model leaves open. A job that
  a refresh resumed is running at 0 until a poll (`Unread`), and may turn out to be queued still; scoring begins from any status.

### The pages of a workspace

* `SignIn`: tabs share the session cookie and the handshake cookie; each may hold an invitation. The identity provider returns any tab's visit at any time.
* `ActivityFeed`: one timer and at most one request per tab, asked again after a switch, an event or a return; merged with the scans the tab follows.
* `WorkspacePage`: the fields of each workspace on the API, the session bound to one, what was read, the drafts and dialogs, and the four requests.
  Another tab may switch the session.
* `Membership`: a role change or removal holds the row of the workspace while it counts administrators; deleting an account is two steps
  (`app_anonymize_user` in `src/apps/api/alembic`), without that lock.
* `TeamPanel`: the list that was read, the one busy row, the removal that is being confirmed, and the requests that overlap.
* `RulesPage`: rules that are off and comment rules in order, on the API and in three places of the page that each send a whole list.
* `ProductTour`, `TourCard`: the steps from page to page, what ends the tour and who remembers; where the card is put. Lengths of the card are even, so that
  a half is whole.
* `MockWorkspaces`, `MockScans`: the records of all workspaces, the active one unpacked into variables of their own, and session storage; scans that
  move on with every poll. A poll and a stop carry the id of a scan, and the handlers ignore it.

### Compositions

The pages of one composition share no state that one of them changes while another is in use: what they share (the query cache, the scan center,
the API) is inside each of them, as that page's environment. A behaviour of `ProjectPages`, `DashboardPages` or `WorkspacePages` therefore picks one
(`showing`) and leaves the others as they start; one run checks all of them, instead of a run for each. In `DashboardPages` the findings and the code are
looked at while they are shown (`ListInv`, `ExcerptInv`). That the theorems of the parts hold in the whole is proved: it
implements each of its parts (`PagesAreTheirParts`).

## 3. Runs

| Run | Instance | States | Shows |
|---|---|---|---|
| `scan_faults` | 2 scans on 2 branches, 2 workers, 1 slot, any two faults but `publish` | 2.3 M | `TypeOK`, `RunningWithinLimit`, `StopNeverWaitsInQueue`, `NeverRestarted` |
| `scan_ledger` | 2 scans of one branch beside one of another, 2 workers, 2 slots, 1 fault of `kill`, `claim`, `db` | 1.7 M | `OneActivePerBranch`, `DoneHasSnapshot`, `CheckoutIsPrivate`, `FailedScanLeavesNoResult`, `EndingIsFinal`, and the refinement `ImplementsLedger` |
| `scan_live` | 2 scans, 1 worker, 1 slot, 1 fault of any kind, polled, fair | 49 k | `EveryScanEnds`, `StopIsHonoured` |
| `score_batch` | 2 scores, 1 worker, 2 requests, 1 fault of `send`, `mark`, `raise` | 3.8 M | `SentRowsExist`, `RunningHasWorker` |
| `score_live` | 1 score, 1 worker, 2 requests, 1 fault of all kinds but `send` and `mark`, fair | | `NoScoreOverlooked`, `ScoresBecomeReady` |
| `score_overlooked` | 1 score, one failed send; violation | | `NoScoreOverlooked` does not hold (section 5) |
| `center_two` | 1 branch, 2 scans, 2 questions out, 1 refresh | 1.5 M | `TypeOK`, `NothingGoesUnpolled`, `OneChainUnlessForked`, `FinishedMeansDoneUnlessForked`, `StopStaysShown` |
| `center_live` | 1 branch, 2 scans, 1 question out, 1 lost answer, 1 switch, fair | 0.2 M | `FollowedScanIsSettled` |
| `pages_project` | the five pages of projects | 2.0 M | `ProjectsInv`, `RedirectStaysInWorkspace`, `SavesOnlyWhatWasRead`, `ProfilesInv`, `OverviewInv` |
| `pages_dashboard` | the six parts of a dashboard | 0.7 M | `NewResultsWait`, `ListInv`, `ExcerptInv`, `PanesInv` (`DashboardInv`, `TabIsLastChoice`, `TrendFits`, `BarInv`) |
| `pages_workspace` | query cache, sign-in, activity, settings, team, rules, tour, card, mock API | 0.7 M | `CacheInv`, `ChangesStayShown`, `SignInInv`, `FeedInv`, `WorkspaceInv`, `MembershipChangesRightly`, `EndedIsRemembered`, `PanelsInv` (`MembershipTypeOK`, `TeamSettles`, `RulesInv`, `CardInv`), `MockApiInv` (`MockInv`, `StopsAreTold`) |
| `dashboard_swaps` | 1 branch, 2 snapshots; violation | | `NeverSwapsByItself` does not hold (section 5) |

Why the bounds are enough:

* *Scans.* Two attempts and two workers are the smallest system in which two claims, a claim and a stop, a second
  delivery, and a waiting scan beside a running one occur; two faults let a recovery fail as well. A second attempt on
  a branch needs a third one to compete with it for the slot. The clone volume is shared, as Docker Compose does
  (on Kubernetes each worker has its own, which only removes behaviours). `MaxRunning = 1` is the deployed default.
* `scan_ledger` allows fewer faults than `ClaimAttempts`: with as many database errors in a row as a message has claims, `_retry_claim`
  ends the scan through `_set_terminal` without looking at its row. The deployed value is 5. `CheckoutIsPrivate` is checked without
  redelivery: two workers on one attempt share its directory.
* `StopIsHonoured` lets go of a scan whose flag a Redis restart removed, and is checked with one worker: a second delivery to another one defeats it.
* *Scores.* One row and two requests are the smallest system in which a second poll and a late write meet; a second row adds refused inserts
  between requests in different orders and sends that fail half way. `MaxCopies` keeps requests from starting on a score with that many messages.
  `score_live` leaves out the kinds that leave an error without a start time (`send`, `mark`): one of those is enough to overlook a score.
* *Scan center.* Two questions out at once are what overlaps: a poll and a stop, a start and a poll, an old poll and a new chain. A second scan on the branch
  is needed for an answer about the one before, a refresh for a chain that is taken up again (`center_two`), and a switch for an answer of the
  workspace before (`center_live`, one question at a time). The invariants are proved for any number of each.
* *Pages.* Two of whatever is compared: workspaces, projects, tabs, branches, people who act; two answers kept, so that the cache must drop one;
  two to three requests out, so that one answers for the state before the other: `MaxActs` (what is connected or removed), `MaxSaves`, `MaxChanges`. What teammates, other tabs and the network do is bounded by one
  or two events, which is enough for every property that a mutant must break. Two snapshots are those that are read and those that
  come, which is what `NewResultsWait` and `dashboard_swaps` are about; others start scans as long as their
  results have a number.
* `PanelsInv` looks at where the card is put while the card is what is used, as the other parts leave it as it starts.
* Where a number matters it keeps its range: all 101 scores for both ends of the trend's axis, the worker's percentages at the ends and the middle of its bands,
  cards and targets smaller, larger and outside of the window.

`CHECK_DEADLOCK FALSE` everywhere: once all scans have ended, or every input has been given, nothing need happen.

### Fairness

`ScanLifecycle`: `FairSpec` assumes that a worker goes on with what it holds and that Celery delivers what is queued
(weak); that whoever waits for the slot lock gets it, PostgreSQL granting advisory locks in order (strong);
that a request finishes publishing; that time passes; and that someone polls: the web client asks once a second
while a scan is active, and `_heal` only tries the lock, so some poll must find it free (strong). Faults,
starts and stops are not fair. The last assumption about `Poll` says that not every poll that would end a
scan is preceded by someone else's refused `start()`, which drops the grace and rolls the ending back.
Without any poll nothing is recovered: that is how the code is built. `Watched = TRUE` says polls come at least once per heartbeat; only
then is a missing mark met twice within the grace.

`ScoreCache`: requests and workers go on with what they have begun, a claim runs out and a running row grows
old (weak); the broker is first in, first out, so a message is delivered if workers are free again and again; and the
dashboard polls a score it is shown as pending again and again (strong, since a poll may find it busy). Faults and the
projects page are not fair.

`ScanCenter`: the API serves what it was asked and the tab runs the callback of what was answered; effects run (`NoteWorkspace`, `Resume`);
scans start to run and end (weak). A timeout fires although the workspace may be left in between (strong). Lost answers, refreshes,
switches, starts and stops are not fair. A browser delivers an answer or an error for every request it has sent, which is all that is assumed of it.

The pages state no liveness of their own: what a page must do in the end is said by invariants of its quiet states ("once everything is
answered ..."), which need no fairness.

## 4. Proofs

Every theorem holds for all values of the constants that satisfy the named `ASSUME`s of its module; TLC evaluates those on every run. Where a
theorem needs more, it says so as a hypothesis, which is repeated here.

**Scans** (`ScanLifecycle_proofs`, `ScanLedger_proofs`; any number of attempts, branches, workers, any limits, any bound on faults)

* `TypeCorrect`; `LimitHolds`: `RunningWithinLimit` is not inductive, because a claim writes after it counted. `LimitInv` adds that one
  worker at a time holds the slot lock and that for a worker that has counted there is still room; only claims add running scans (`OnlyClaimsRun`).
* `NoStopWaitsInQueue`, `DoneMeansSnapshot`: from `AttemptInv`: whatever is mentioned by a request, flag, message or worker has a row.
  Their steps follow from `StatusChanges`: a status is only changed by a start, a claim, or an ending.
* `BranchScannedOnce`, `EndedStaysEnded`: when publishing does not raise (`"publish" \notin FaultKinds`). `EndedInv`
  adds that every ended row has a completion time, which makes the database refuse a late claim.
* `CheckoutsArePrivate`: without redelivery. `OneCopy` counts the copies of a message over request, queue and worker.
* `NoResultOfAFailure`, `EndingsAreFinal` and the refinement `LedgerImplemented` (`Spec => LedgerSpec` under the mapping): under `LedgerFaults`, that is
  without redelivery, failing claims, failing publications and late soft limits. `LedgerInv` says of each row what its worker may still do to it.

**Scores** (`ScoreCache_proofs`; any number of scores, workers, requests)

* `TypeCorrect`; `SentAfterCommit`: what a request is to send has a row or is among its inserts, and so has what a worker
  holds, since it may give its message back (`SentInv`).
* `RunningIsWorkedOn`: when workers do not vanish (`NoVanish`: none of `db`, `kill`, `pod`), for any number of duplicates, late writes and failures.
* `NothingOverlooked`: with at most one fault and none of `send` and `mark` (`SingleFault`). The hypothesis is tight: TLC violates the property
  with one fault of `send` or `mark`, or with two of `raise`.

**Scan center** (`ScanCenter_proofs`): `ScanCenterHasType`, `JobsArePolled`, `ChainsAreSingle`, `FinishedMeansDone`, `StopsStayShown`. The inductive
invariant has a part for what is known (ids in use were given out by the API), one for the session storage, and `TargetInv` for each target: it is polled,
what is out was asked for it, at most one chain unless it forked, its answers fit what the API may have said since, starts come before what they start.

**Query cache** (`QueryCache_proofs`): `NobodyWaits` and the bound without any hypothesis; `CacheKeepsItsPromises`
when the answer to a switch arrives (`~AnswersMayBeLost`); `ChangesAreKept`: a change that a list was told of is never undone on screen by a read that was out, joined or
cached. The invariant relates every answer, request and reader to the epoch it belongs to and the version it has seen (`Inv`).

**Pages of projects** (`ProjectPages_proofs`): `FormsAreAnswered`, `RedirectsStay`, `NothingUnreadIsSaved`, `OwnWritesAreShown` (the page's copy is that of the API, with
the writes that are out and the read that is out accounted for: `CopyIsFresh`), `OverviewIsRight`, and `ProjectPagesAreRight` for the whole. The overview
sorts and folds: what `CHOOSE` picks is known once something is there to pick, so a sorted list is shown to exist for every finite set with a total order
(`SortedListExists`), and a fold to be a function that takes one element off each set (`FoldExists`). Then the attention list has an invariant over its candidates
(`Fits`: the most urgent reason of each, the more urgent first, whoever is left out found no room), and every partial sum of the average stays within its bounds (`SumsKeepBounds`).

**Pages of a dashboard** (`DashboardPages_proofs`): `FirstScanIsOfferedRightly`, `ReaderKeepsResults` (`NewResultsWait`), `ListIsRight` (with a lemma that ranks are the
positions of a total order, so that pages have rows), `CodeIsRight`, `LastChoiceOpens`, `AxisHoldsHistory` (integer
arithmetic over all pairs of scores), `BarIsRight`, and `PanesAreRight` for the whole.

**Pages of a workspace** (`WorkspacePages_proofs`): `InvitationsAreSettled`, `FeedIsRight`, `SessionIsOnThePage`, `MembershipHasType`, `MembershipIsRight`, `PanelSettles`, the refinement
`PanelIsMembership` (`TeamSpec => MembershipSpec`), `RulesStayInOrder` (a filtered list stays in order; by induction over finite sets, with the
set of lengths for which it holds), `TourEndIsRemembered`, `CardIsPlacedWell`, `MockIsOneState`, `StopsAreToldOf`, and
`WorkspacePagesAreRight`, `PanelsAreRight`, `MockApiIsRight` for the whole.

Only model-checked: liveness (`EveryScanEnds`, `StopIsHonoured`, `ScoresBecomeReady`, `FollowedScanIsSettled`), since fairness and `ENABLED` are beyond the prover.

## 5. What the checks found

Two runs show the code doing what a test or comment says it does not:

1. `score_overlooked`. A request that makes an error pending clears `started_at` only if the row it read had one. When a failed send left an error
   that never started and a worker starts it between the read and the commit, the row is pending with a start time:
   `needs_enqueue` takes it neither for new nor for stalled, and nothing queues it again.
2. `dashboard_swaps`. `pinScanResults` notes what to keep when a scan begins to be followed and never again for that scan (`hooks/use-scan-center.ts:605`), and the page
   reads what was kept only once the scan is done (`components/dashboard/dashboard-view.tsx:114`). The reader leaves the page while the scan runs and opens it again; the scan ends and
   is scored, and the page's own read shows its results. Then the scan center begins to wait for the score, and the page goes back to the results from before the scan.
   `components/dashboard/dashboard-view.test.tsx:860` says that the page never swaps by itself. The results that come so are older ones; of newer ones see the next list.

Known behaviours that were met while modelling and that the properties except, each at its line:

* *Scans.* A soft time limit raised after `_finalize` has committed ends a finished scan as an error and keeps its snapshot (`tasks/scan_pipeline.py:424`;
  `LedgerFaults` excludes `limit`). When `delay` raises although the broker has the message, `mark_error` runs without the slot lock and leaves no completion time, and
  a worker in the middle of its claim restarts the ended scan (`services/analysis.py:204`, `db/repositories/attempts.py:511`). A second delivery of a
  running scan honours a stop while the first worker finalizes: cancelled, then done (`tasks/scan_pipeline.py:857`). A queued scan whose worker went
  away while the others are busy for more than two heartbeats is ended as lost with its message still queued (`tasks/progress.py:308`). When all claims of
  a message fail, an ended row is overwritten with an error. Nothing but a poll recovers a lost scan.
* *Scores.* `list_projects` queues without the enqueue claim, so two workers may calculate one score, and the one that fails writes its error over the ready score of the other.
* *Scan center.* A timeout that is left over polls a job that is ready already, which is then scored again (`hooks/use-scan-center.ts:379`; only where two chains of polls ran). After a refresh, resuming the scans of the first workspace overwrites what was saved for another (`hooks/use-scan-center.ts:639`).
* *Query cache.* A `WORKSPACE_REQUIRED` answer that is late makes the tab forget the workspace it has adopted since; with two lists on screen one may
  for a moment show a change that the other has read and go back, before the change's own answer.
* *Dashboard.* When the score of a scan does not come within `SCORE_TIMEOUT_MS`, or its read is answered with an error, the job is dropped with the results it kept
  (`hooks/use-scan-center.ts:478`, `:510`): the page reads the latest report, and the new results come without the reader once they are there, against the same test
  (`dashboard-view.test.tsx:860`). `NewResultsWait` excepts this step (`GaveUp`). `getHealthReport` reads the report and the pages of its findings by branch, in separate requests (`lib/api/client.ts:227`): a scan that ends in between may mix two
  snapshots (not modelled). On a first scan a report that is read during scoring may be replaced by the center's own read. "Latest scan" does nothing while
  new results wait. "Clear filter" brings nothing back when only excluded findings are left; two writes of one status that overlap may roll back to the
  first. A named file may not be shown (`components/dashboard/file-tree/file-tree.tsx:77`); with storage that is full the old release's setting is ignored.
  A view that is chosen in another tab shows at the next render only.
* *Projects.* Leaving the page while connecting loses the chosen first scan, and the page that is opened again offers to connect the same repository (`app/(app)/projects/page.tsx:76`); closing the source scope while it is being saved still starts it; a late read of the
  source scope drops ticks. With two repositories the selection of an old release is not moved.
* *Profiles, rules, settings.* What is typed while a save is out is dropped by its answer; a list of rules is written as a whole and takes another
  administrator's changes with it; a comment rule whose answer comes after the editor was closed and opened again
  puts the list as it was before over the one last read (`components/workspace/workspace-comment-rules.tsx:125`); a write of a profile whose answer is lost is not read again
  (`app/(app)/profiles/page.tsx:365`); settings typed for one workspace may be sent to another when another tab switches in between.
* *Membership.* An invitation that has run out still blocks a new one; a removed member may come back by an older invitation; deleting an account may take the last
  administrator. A removal's answer closes the dialog of another. An acceptance whose answer is lost says that the invitation cannot be used.
* *Tour.* Steps move when the list of projects changes during the tour.
* *Mock API.* The id of the scan in a request is not looked at (`lib/mocks/handlers.ts:1901`, `:1908`): a stop that names a scan that has ended stops the one that runs now.
  Scans are not stored, so a reload loses one that runs; a second scan of a repository is refused also on another branch, though the message speaks of the branch;
  an active profile that is changed may be duplicated under its name.

## 6. What is not modelled

* The HTTP response cache, the demand list that KEDA reads (`tasks/scan_pipeline.py:219`), deletion of branches under a running scan
  (`services/repositories.py:215`), and a scan that is started in a workspace that is being deleted (`services/auth.py:367`): the next modules to write. They are listed as hazards.
* Scoring, detection, fingerprints and the diff of findings: pure functions over floating-point numbers, source text and rules that are data.
* External programs and services (git, PMD, CK, the ML service, GitHub, e-mail, Asgardeo): an outcome the caller must handle, nothing more.
* Authorization is a static table; rendering, wording, layout, help pages, the component library and generated types have no state of their own.
