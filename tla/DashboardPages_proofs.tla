------------------------ MODULE DashboardPages_proofs ------------------------
(***************************************************************************)
(* Theorems about the dashboard and what is on it: for any files, reports, *)
(* findings, branches and answers that come late.                          *)
(***************************************************************************)
EXTENDS DashboardPages, FiniteSetTheorems, WellFoundedInduction, TLAPS

(***************************************************************************)
(* The code under a finding.                                               *)
(***************************************************************************)
Shas      == Commits \ {NoCommit}
FileStates == {"absent", "pending", "read"}
Waiters   == [url : Urls, live : BOOLEAN]

DetailShape ==
  /\ finding \in PanelFindings \cup {NoDetail} /\ commit \in Commits /\ repoKnown \in BOOLEAN
  /\ files \in [Urls -> FileStates] /\ waiting \subseteq Waiters
  /\ excerpt \in [url : Urls \cup {NoUrl}, lines : Urls \cup {NoUrl}, failed : BOOLEAN]

\* Only the effect of the file on display may still set the state.
LiveIsHere == \A w \in waiting : w.live => w.url = excerpt.url

LinesAreOfUrl == excerpt.lines # NoUrl => excerpt.lines = excerpt.url
ExcerptIsHere == excerpt.url = githubLocation(finding, commit, repoKnown)

DetailOK == DetailShape /\ ExcerptIsHere /\ LinesAreOfUrl /\ LiveIsHere /\ SkeletonIsAwaited

\* A file of a report is a pair, and none is not.
LEMMA UrlsArePairs ==
  /\ Urls = Shas \X {f.file : f \in PanelFindings}
  /\ NoUrl \notin Urls
  /\ \A u \in Urls : FileLength[u] \in Nat
<1>1. Urls = Shas \X {f.file : f \in PanelFindings} /\ \A u \in Urls : FileLength[u] \in Nat
  BY FindingDetailAssumption DEF FindingDetailAssumption, Urls, Shas
<1>2. NoUrl \notin Shas \X {f.file : f \in PanelFindings}
  BY DEF NoUrl
<1>3. QED  BY <1>1, <1>2

\* What a finding of the report points at is a file of the report, or none.
LEMMA LocationIsUrl ==
  ASSUME NEW f \in PanelFindings \cup {NoDetail}, NEW sha \in Commits, NEW known \in BOOLEAN
  PROVE  /\ githubLocation(f, sha, known) \in Urls \cup {NoUrl}
         /\ githubLocation(f, sha, known) # NoUrl => f \in PanelFindings /\ f.line >= 1
<1>1. CASE f \in PanelFindings
  <2>1. f.file \in {g.file : g \in PanelFindings}
    BY <1>1
  <2>2. sha # NoCommit => <<sha, f.file>> \in Urls
    BY <2>1, UrlsArePairs DEF Shas
  <2>3. QED  BY <1>1, <2>2 DEF githubLocation
<1>2. CASE f = NoDetail
  BY <1>2 DEF githubLocation, NoDetail
<1>3. QED  BY <1>1, <1>2

LEMMA DetailStarts == DetailInit => DetailOK
<1> SUFFICES ASSUME DetailInit PROVE DetailOK
  OBVIOUS
<1> USE DEF DetailInit
<1>1. excerpt = [url |-> NoUrl, lines |-> NoUrl, failed |-> FALSE]
  BY DEF Unmounted, Loading
<1>2. githubLocation(finding, commit, repoKnown) = NoUrl
  BY DEF githubLocation, NoDetail
<1>3. DetailShape
  BY <1>1 DEF DetailShape, FileStates, Waiters
<1>4. QED
  BY <1>1, <1>2, <1>3 DEF DetailOK, ExcerptIsHere, LinesAreOfUrl, LiveIsHere, SkeletonIsAwaited,
                         Skeleton, Unmounted, Loading

\* Whatever is displayed next, only its own file is awaited.
LEMMA DisplayKeeps ==
  ASSUME DetailOK, NEW f \in PanelFindings \cup {NoDetail}, NEW sha \in Commits,
         NEW known \in BOOLEAN, Display(f, sha, known)
  PROVE  DetailOK'
<1> DEFINE url == githubLocation(f, sha, known)
           was == githubLocation(finding, commit, repoKnown)
<1>1. url \in Urls \cup {NoUrl} /\ was \in Urls \cup {NoUrl}
  BY LocationIsUrl DEF DetailOK, DetailShape
<1>2. finding' = f /\ commit' = sha /\ repoKnown' = known /\ excerpt' = render(excerpt, url)
  BY DEF Display
<1>3. ExcerptIsHere' /\ LinesAreOfUrl'
  BY <1>2 DEF ExcerptIsHere, LinesAreOfUrl, render, Loading, DetailOK, githubLocation
<1>4. CASE url = was
  <2>1. excerpt' = excerpt /\ files' = files /\ waiting' = waiting
    BY <1>4, <1>2 DEF Display, DetailOK, ExcerptIsHere, render
  <2>2. QED
    BY <2>1, <1>2, <1>3 DEF DetailOK, DetailShape, LiveIsHere, SkeletonIsAwaited, Skeleton, Unmounted
<1>5. CASE url # was
  <2>1. files' = fileLines(url) /\ waiting' = cleanup(url) /\ excerpt' = Loading(url)
    BY <1>5, <1>2 DEF Display, DetailOK, ExcerptIsHere, render
  <2>2. waiting' \subseteq Waiters
    <3>1. ASSUME NEW w \in waiting PROVE [w EXCEPT !.live = FALSE] \in Waiters
      BY DEF DetailOK, DetailShape, Waiters
    <3>2. \A u \in {url} \ {NoUrl} : [url |-> u, live |-> TRUE] \in Waiters
      <4>1. \A u \in Urls : [url |-> u, live |-> TRUE] \in Waiters
        BY DEF Waiters
      <4> HIDE DEF url
      <4>2. QED  BY <1>1, <4>1
    <3>3. QED  BY <2>1, <3>1, <3>2 DEF cleanup
  <2>3. files' \in [Urls -> FileStates] /\ (url # NoUrl => files'[url] # "absent")
    BY <2>1, <1>1 DEF fileLines, DetailOK, DetailShape, FileStates
  <2>4. DetailShape'
    BY <2>1, <2>2, <2>3, <1>1, <1>2 DEF DetailShape, Loading
  <2>5. LiveIsHere'
    <3>1. ASSUME NEW w \in waiting PROVE [w EXCEPT !.live = FALSE].live = FALSE
      BY DEF DetailOK, DetailShape, Waiters
    <3>2. excerpt'.url = url
      BY <2>1 DEF Loading
    <3>3. ASSUME NEW w \in waiting', w.live PROVE w.url = url
      <4> HIDE DEF url
      <4>1. \/ \E v \in waiting : w = [v EXCEPT !.live = FALSE]
            \/ \E u \in {url} \ {NoUrl} : w = [url |-> u, live |-> TRUE]
        BY <2>1 DEF cleanup
      <4>2. ASSUME NEW v \in waiting, w = [v EXCEPT !.live = FALSE] PROVE FALSE
        <5>1. w.live = FALSE
          BY <3>1, <4>2
        <5>2. QED  BY <5>1, <3>3
      <4>3. ASSUME NEW u \in {url} \ {NoUrl}, w = [url |-> u, live |-> TRUE] PROVE w.url = url
        BY <4>3
      <4>4. QED  BY <4>1, <4>2, <4>3
    <3>4. QED  BY <3>2, <3>3 DEF LiveIsHere
  <2>6. SkeletonIsAwaited'
    BY <2>1, <2>3 DEF SkeletonIsAwaited, Skeleton, cleanup, Loading, Unmounted
  <2>7. QED  BY <2>4, <2>5, <2>6, <1>3 DEF DetailOK
<1>6. QED  BY <1>4, <1>5

\* The callbacks of a read tell the file on display, or nobody.
LEMMA ToldKeeps ==
  ASSUME DetailOK, NEW url \in Urls, NEW outcome,
         outcome \in {[Loading(url) EXCEPT !.lines = url], [Loading(url) EXCEPT !.failed = TRUE]},
         files' \in [Urls -> FileStates],
         \A u \in Urls \ {url} : files'[u] = files[u],
         Told(url, outcome), UNCHANGED <<finding, commit, repoKnown>>
  PROVE  DetailOK'
<1> DEFINE told == [url |-> url, live |-> TRUE] \in waiting /\ excerpt # Unmounted
<1>1. outcome \in [url : Urls \cup {NoUrl}, lines : Urls \cup {NoUrl}, failed : BOOLEAN]
      /\ outcome.url = url /\ (outcome.lines # NoUrl => outcome.lines = url)
      /\ (outcome.lines # NoUrl \/ outcome.failed)
  BY UrlsArePairs DEF Loading
<1>2. waiting' = {w \in waiting : w.url # url} /\ excerpt' = IF told THEN outcome ELSE excerpt
  BY DEF Told
<1>3. told => excerpt.url = url
  BY DEF DetailOK, LiveIsHere
<1>4. DetailShape'
  BY <1>1, <1>2 DEF DetailShape, DetailOK
<1>5. ExcerptIsHere' /\ LinesAreOfUrl' /\ LiveIsHere'
  BY <1>1, <1>2, <1>3 DEF DetailOK, ExcerptIsHere, LinesAreOfUrl, LiveIsHere, githubLocation
<1>6. SkeletonIsAwaited'
  <2>1. CASE told
    BY <2>1, <1>1, <1>2 DEF SkeletonIsAwaited, Skeleton
  <2>2. CASE ~told
    <3>1. excerpt' = excerpt
      BY <2>2, <1>2
    <3>2. Skeleton => excerpt.url # url
      BY <2>2 DEF Skeleton, DetailOK, SkeletonIsAwaited
    <3>3. Skeleton => excerpt.url \in Urls
      BY DEF Skeleton, DetailOK, SkeletonIsAwaited, DetailShape, Waiters
    <3>4. QED
      BY <3>1, <3>2, <3>3, <1>2 DEF SkeletonIsAwaited, Skeleton, Unmounted, DetailOK
  <2>3. QED  BY <2>1, <2>2
<1>7. QED  BY <1>4, <1>5, <1>6 DEF DetailOK

LEMMA DetailMoves == DetailOK /\ [DetailNext]_detailVars => DetailOK'
<1> SUFFICES ASSUME DetailOK, [DetailNext]_detailVars PROVE DetailOK'
  OBVIOUS
<1>1. CASE SelectFinding
  BY <1>1, DisplayKeeps DEF SelectFinding, DetailOK, DetailShape
<1>2. CASE ShowReport
  BY <1>2, DisplayKeeps DEF ShowReport, DetailOK, DetailShape
<1>3. CASE RepositoryKnown
  BY <1>3, DisplayKeeps DEF RepositoryKnown, DetailOK, DetailShape
<1>4. ASSUME NEW url \in Urls, FileRead(url) PROVE DetailOK'
  BY <1>4, ToldKeeps DEF FileRead, DetailOK, DetailShape, FileStates
<1>5. ASSUME NEW url \in Urls, FileKnown(url) PROVE DetailOK'
  BY <1>5, ToldKeeps DEF FileKnown, DetailOK, DetailShape
<1>6. ASSUME NEW url \in Urls, FileFails(url) PROVE DetailOK'
  BY <1>6, ToldKeeps DEF FileFails, DetailOK, DetailShape, FileStates
<1>7. CASE UNCHANGED detailVars
  BY <1>7 DEF detailVars, DetailOK, DetailShape, ExcerptIsHere, LinesAreOfUrl, LiveIsHere,
              SkeletonIsAwaited, Skeleton, Unmounted, githubLocation
<1>8. QED
  BY <1>1, <1>2, <1>3, <1>4, <1>5, <1>6, <1>7 DEF DetailNext

\* The lines that are cut out of a file hold the finding, and are few.
LEMMA WindowFits ==
  ASSUME NEW f \in PanelFindings, f.line >= 1, NEW length \in Nat
  PROVE  /\ f.line <= length => f.line \in marked(f, length)
         /\ Cardinality(figure(f, length)) <= MAX_LINES
         /\ marked(f, length) = githubRange(f) \cap figure(f, length)
<1>1. f.line \in Nat /\ f.end \in Nat
  BY FindingDetailAssumption DEF FindingDetailAssumption
<1> PICK line \in Nat, end \in Nat : line = f.line /\ end = f.end
  BY <1>1
<1> USE DEF last, from, to, figure, marked, githubRange, Lesser, Greater, CONTEXT, MAX_LINES
<1>2. line >= 1 /\ from(f) \in Nat /\ to(f, length) \in Int /\ to(f, length) <= from(f) + 13
  OBVIOUS
<1>3. f.line <= length => f.line \in marked(f, length)
  BY <1>2
<1>4. Cardinality(figure(f, length)) <= 14
  <2>1. CASE from(f) > length
    BY <2>1, FS_EmptySet
  <2>2. CASE ~(from(f) > length)
    <3> DEFINE a == from(f)  b == to(f, length)
    <3>1. a \in Int /\ b \in Int /\ b <= a + 13
      BY <1>2
    <3>2. figure(f, length) = a..b
      BY <2>2
    <3> HIDE DEF a, b
    <3>3. Cardinality(a..b) = IF a > b THEN 0 ELSE b - a + 1
      BY <3>1, FS_Interval
    <3>4. QED  BY <3>1, <3>2, <3>3
  <2>3. QED  BY <2>1, <2>2
<1>5. marked(f, length) = githubRange(f) \cap figure(f, length)
  BY <1>2
<1>6. QED  BY <1>3, <1>4, <1>5

LEMMA DetailOKSuffices == DetailOK => DetailInv
<1> SUFFICES ASSUME DetailOK PROVE DetailInv
  OBVIOUS
<1>1. CodeShown => excerpt.lines = excerpt.url /\ excerpt.url \in Urls
  BY DEF CodeShown, DetailOK, LinesAreOfUrl, DetailShape
<1>2. CodeShown => finding \in PanelFindings /\ finding.line >= 1 /\ FileLength[excerpt.lines] \in Nat
  BY <1>1, LocationIsUrl, UrlsArePairs DEF DetailOK, DetailShape, ExcerptIsHere
<1>3. WindowHoldsFinding
  BY <1>2, WindowFits DEF WindowHoldsFinding
<1>4. QED
  BY <1>1, <1>3 DEF DetailInv, ExcerptIsOfThisFile, DetailOK, ExcerptIsHere

\* For any files, reports and findings, the code under a finding is that finding's, a
\* skeleton is awaited, and the lines cut out hold the finding.
THEOREM ExcerptIsRight == DetailSpec => []DetailInv
<1>1. DetailInit => DetailOK
  BY DetailStarts
<1>2. DetailOK /\ [DetailNext]_detailVars => DetailOK'
  BY DetailMoves
<1>3. DetailOK => DetailInv
  BY DetailOKSuffices
<1>4. QED  BY <1>1, <1>2, <1>3, PTL DEF DetailSpec

(***************************************************************************)
(* The views of a project.                                                 *)
(***************************************************************************)
\* What is stored is the last choice; before any, nothing, or what the old setting meant.
StoredIsChoice ==
  /\ reader \in Readers
  /\ stored = [who \in Readers |-> stored[who]]
  /\ lastChoice = [who \in Readers |-> lastChoice[who]]
  /\ \A who \in Readers :
       IF lastChoice[who] # "" THEN stored[who] = lastChoice[who]
       ELSE stored[who] \in {"", fromOldMode(oldStored[who])}

LEMMA NobodyIsNoReader == NoReader \notin Readers
  BY DEF NoReader, Readers

LEMMA ChoiceIsStored ==
  ASSUME StoredIsChoice, NEW choice, storeDashboardTab(choice), UNCHANGED <<reader, oldStored>>
  PROVE  StoredIsChoice'
<1>1. CASE storage = "works"
  <2>1. stored' = [stored EXCEPT ![reader] = choice] /\ lastChoice' = [lastChoice EXCEPT ![reader] = choice]
    BY <1>1 DEF storeDashboardTab, dashboardViewPreferenceKey
  <2>2. QED  BY <2>1 DEF StoredIsChoice
<1>2. CASE storage # "works"
  BY <1>2 DEF storeDashboardTab, StoredIsChoice
<1>3. QED  BY <1>1, <1>2

LEMMA CarriedOverKeeps ==
  ASSUME StoredIsChoice, stored' = CarriedOver(stored), UNCHANGED <<reader, oldStored, lastChoice>>
  PROVE  StoredIsChoice'
<1>1. \/ stored' = stored
      \/ stored[reader] = "" /\ stored' = [stored EXCEPT ![reader] = fromOldMode(oldStored[reader])]
  BY DEF CarriedOver, dashboardViewPreferenceKey
<1>2. QED  BY <1>1 DEF StoredIsChoice

LEMMA ChoiceStarts == ViewsInit => StoredIsChoice
  BY DEF ViewsInit, StoredIsChoice

LEMMA ChoiceMoves == StoredIsChoice /\ [ViewsNext]_viewsVars => StoredIsChoice'
<1> SUFFICES ASSUME StoredIsChoice, [ViewsNext]_viewsVars PROVE StoredIsChoice'
  OBVIOUS
<1>1. ASSUME NEW choice, chooseTab(choice) PROVE StoredIsChoice'
  BY <1>1, ChoiceIsStored DEF chooseTab, KeepPage
<1>2. CASE clickTab \/ onKeyDown
  BY <1>1, <1>2 DEF clickTab, onKeyDown
<1>3. ASSUME NEW choice, chosenElsewhere(choice) PROVE StoredIsChoice'
  BY <1>3, ChoiceIsStored DEF chosenElsewhere, KeepPage
<1>4. CASE openFinding
  BY <1>4, ChoiceIsStored DEF openFinding, KeepPage
<1>5. ASSUME NEW f, openFile(f) PROVE StoredIsChoice'
  BY <1>5, ChoiceIsStored DEF openFile, KeepPage
<1>6. ASSUME NEW f, openHotspot(f) \/ selectFile(f) \/ toggle(f) PROVE StoredIsChoice'
  BY <1>5, <1>6 DEF openHotspot, selectFile, toggle
<1>7. CASE goBack \/ openDashboard
  BY <1>7, CarriedOverKeeps DEF goBack, openDashboard, KeepPage
<1>8. CASE changeReader
  BY <1>8 DEF changeReader, StoredIsChoice
<1>9. CASE UNCHANGED <<stored, oldStored, reader, lastChoice>>
  BY <1>9 DEF StoredIsChoice
<1>12. CASE renderAgain
  BY <1>12, CarriedOverKeeps DEF renderAgain, KeepPage
<1>10. closeFinding \/ leaveDashboard \/ newReport \/ UNCHANGED viewsVars
         => UNCHANGED <<stored, oldStored, reader, lastChoice>>
  BY DEF closeFinding, leaveDashboard, newReport, KeepPage, viewsVars
<1>11. QED
  BY <1>2, <1>3, <1>4, <1>6, <1>7, <1>8, <1>9, <1>10, <1>12 DEF ViewsNext

\* The page has read what is stored, unless something was chosen elsewhere since.
ReadIsStored ==
  onDashboard /\ storage = "works" /\ ~behind =>
    storedTab = IF stored[reader] # "" THEN stored[reader] ELSE fromOldMode(oldStored[reader])

LEMMA ViewsStart == ViewsInit => StoredIsChoice /\ ReadIsStored
  BY ChoiceStarts DEF ViewsInit, ReadIsStored

LEMMA ViewsMove ==
  StoredIsChoice /\ ReadIsStored /\ [ViewsNext]_viewsVars => (StoredIsChoice /\ ReadIsStored)'
<1> SUFFICES ASSUME StoredIsChoice, ReadIsStored, [ViewsNext]_viewsVars
             PROVE  (StoredIsChoice /\ ReadIsStored)'
  OBVIOUS
<1>1. StoredIsChoice'
  BY ChoiceMoves
<1>2. CASE ReadChoice
  <2>1. reader' # NoReader
    BY <1>1, NobodyIsNoReader DEF StoredIsChoice
  <2>2. readStoredDashboardTab(reader)' =
          IF storage' = "blocked" THEN ""
          ELSE IF stored'[reader'] # "" THEN stored'[reader']
          ELSE IF storage' = "full" THEN "" ELSE fromOldMode(oldStored'[reader'])
    BY DEF readStoredDashboardTab, dashboardViewPreferenceKey
  <2>3. ReadIsStored'
    BY <1>2, <2>1, <2>2 DEF ReadChoice, ReadIsStored
  <2>4. QED  BY <1>1, <2>3
<1>3. ASSUME NEW choice, chosenElsewhere(choice) PROVE ReadIsStored'
  BY <1>3 DEF chosenElsewhere, KeepPage, ReadIsStored
<1>4. CASE UNCHANGED viewsVars
  BY <1>1, <1>4 DEF viewsVars, ReadIsStored
<1>5. ASSUME NEW open, Rendered(open) PROVE ReadChoice
  BY <1>5 DEF Rendered
<1>6. clickTab \/ onKeyDown \/ openFinding \/ closeFinding => ReadChoice
  BY <1>5 DEF clickTab, onKeyDown, chooseTab, openFinding, closeFinding
<1>7. \A f : openHotspot(f) \/ selectFile(f) \/ toggle(f) => ReadChoice
  BY <1>5 DEF openHotspot, selectFile, toggle
<1>8. goBack \/ openDashboard \/ leaveDashboard \/ changeReader \/ newReport \/ renderAgain => ReadChoice
  BY <1>5 DEF goBack, openDashboard, leaveDashboard, changeReader, newReport, renderAgain
<1>9. QED  BY <1>1, <1>2, <1>3, <1>4, <1>6, <1>7, <1>8 DEF ViewsNext

LEMMA StoredSuffices == StoredIsChoice /\ ReadIsStored => TabIsLastChoice
<1> SUFFICES ASSUME StoredIsChoice, ReadIsStored,
                    onDashboard, storage = "works", ~behind, viewAddress.view = "",
                    ~viewAddress.finding
             PROVE  tab = IF lastChoice[reader] # "" THEN lastChoice[reader]
                          ELSE IF fromOldMode(oldStored[reader]) # "" THEN fromOldMode(oldStored[reader])
                          ELSE "overview"
  BY DEF TabIsLastChoice
<1>2. storedTab = IF stored[reader] # "" THEN stored[reader] ELSE fromOldMode(oldStored[reader])
  BY DEF ReadIsStored
<1>3. IF lastChoice[reader] # "" THEN stored[reader] = lastChoice[reader]
      ELSE stored[reader] \in {"", fromOldMode(oldStored[reader])}
  BY DEF StoredIsChoice
<1>4. QED  BY <1>2, <1>3 DEF tab

\* For any people, workspaces and old settings, a dashboard opens in the view last chosen.
THEOREM LastChoiceOpens == ViewsSpec => []TabIsLastChoice
<1>1. ViewsInit => StoredIsChoice /\ ReadIsStored
  BY ViewsStart
<1>2. StoredIsChoice /\ ReadIsStored /\ [ViewsNext]_viewsVars => (StoredIsChoice /\ ReadIsStored)'
  BY ViewsMove
<1>3. StoredIsChoice /\ ReadIsStored => TabIsLastChoice
  BY StoredSuffices
<1>4. QED  BY <1>1, <1>2, <1>3, PTL DEF ViewsSpec

(***************************************************************************)
(* The trend.                                                              *)
(***************************************************************************)
RangeFits == \/ lowest = NoScore /\ highest = NoScore
             \/ lowest \in 0..100 /\ highest \in 0..100 /\ lowest <= highest

Steps == {5, 10, 20, 25}

LEMMA LeastStep ==
  ASSUME NEW S \in SUBSET Steps, S # {}
  PROVE  Min(S) \in S
<1>1. 5 \in S \/ 10 \in S \/ 20 \in S \/ 25 \in S
  BY DEF Steps
<1>2. \E x \in S : \A y \in S : x <= y
  <2>1. CASE 5 \in S
    BY <2>1 DEF Steps
  <2>2. CASE 5 \notin S /\ 10 \in S
    BY <2>2 DEF Steps
  <2>3. CASE 5 \notin S /\ 10 \notin S /\ 20 \in S
    BY <2>3 DEF Steps
  <2>4. CASE 5 \notin S /\ 10 \notin S /\ 20 \notin S
    BY <2>4, <1>1 DEF Steps
  <2>5. QED  BY <2>1, <2>2, <2>3, <2>4
<1>3. QED  BY <1>2 DEF Min

LEMMA LowerHigher ==
  ASSUME NEW a \in 0..100, NEW b \in 0..100
  PROVE  Lower(a, b) \in 0..100 /\ Higher(a, b) \in 0..100 /\ Lower(a, b) <= b /\ b <= Higher(a, b)
  BY DEF Lower, Higher

LEMMA TrendStarts == TrendInit => RangeFits
BY DEF TrendInit, RangeFits

LEMMA TrendMoves == RangeFits /\ [TrendNext]_trendVars => RangeFits'
<1> SUFFICES ASSUME RangeFits, [TrendNext]_trendVars PROVE RangeFits'
  OBVIOUS
<1>1. ASSUME NEW score \in TrendScores, HealthPoint(score) PROVE RangeFits'
  <2>1. score \in 0..100
    BY TrendAssumption DEF TrendAssumption
  <2>2. CASE lowest = NoScore /\ highest = NoScore
    BY <1>1, <2>1, <2>2 DEF HealthPoint, RangeFits
  <2>3. CASE lowest \in 0..100 /\ highest \in 0..100
    <3>1. lowest # NoScore /\ highest # NoScore
      BY <2>3 DEF NoScore
    <3>2. lowest' = Lower(lowest, score) /\ highest' = Higher(highest, score)
      BY <1>1, <3>1 DEF HealthPoint
    <3>3. lowest' \in 0..100 /\ highest' \in 0..100 /\ lowest' <= score /\ score <= highest'
      BY <2>1, <2>3, <3>2, LowerHigher
    <3>4. QED  BY <2>1, <3>3 DEF RangeFits
  <2>4. QED  BY <2>2, <2>3 DEF RangeFits
<1>2. CASE UNCHANGED trendVars
  BY <1>2 DEF trendVars, RangeFits
<1>3. QED  BY <1>1, <1>2 DEF TrendNext

\* The axis of a range that is cut into steps.
AxisFits(axis, step, low, high) ==
  /\ axis.step = step /\ axis.from \in 0..100 /\ axis.to \in 0..100
  /\ axis.from <= low /\ high <= axis.to
  /\ \E n \in 2..100 : axis.to = axis.from + n * step

\* Both ends of the range, in twentieths, lie between multiples of the step.
CutFits(a, b, step, low, high) ==
  /\ a \in 0..100 /\ b \in 0..100 /\ a <= low /\ high <= b
  /\ b = 100 \/ b + step <= 100
  /\ b - a = step \/ b - a >= 2 * step
  /\ \E n \in 1..100 : b - a = n * step

LEMMA CutsFit ==
  ASSUME NEW step \in Steps, NEW lo \in Nat, NEW hi \in Nat, lo <= hi, lo # hi, hi <= 2000,
         NEW low \in Nat, NEW high \in Nat, lo <= 20 * low, 20 * high <= hi
  PROVE  CutFits(floorTo(lo, step), ceilTo(hi, step), step, low, high)
<1>1. CASE step = 5
  <2>1. PICK a \in Int : floorTo(lo, 5) = a * 5 /\ 100 * a <= lo /\ lo <= 100 * a + 99
    BY DEF floorTo
  <2>2. PICK b \in Int : ceilTo(hi, 5) = b * 5 /\ hi <= 100 * b /\ 100 * b <= hi + 99
    BY DEF ceilTo
  <2>3. 0 <= a /\ b <= 20 /\ b - a \in 1..100
    <3>1. 0 <= a
      BY <2>1
    <3>2. b <= 20
      BY <2>2
    <3>3. b - a \in 1..100
      BY <2>1, <2>2, <3>1, <3>2
    <3>4. QED  BY <3>1, <3>2, <3>3
  <2>4. b * 5 - a * 5 = (b - a) * 5
    OBVIOUS
  <2>5. a * 5 \in 0..100 /\ b * 5 \in 0..100
    BY <2>3
  <2>6. a * 5 <= low /\ high <= b * 5
    BY <2>1, <2>2
  <2>7. b * 5 = 100 \/ b * 5 + 5 <= 100
    BY <2>3
  <2>8. b * 5 - a * 5 = 5 \/ b * 5 - a * 5 >= 2 * 5
    BY <2>3
  <2>9. CutFits(a * 5, b * 5, 5, low, high)
    BY <2>3, <2>4, <2>5, <2>6, <2>7, <2>8 DEF CutFits
  <2>10. QED  BY <1>1, <2>1, <2>2, <2>9
<1>2. CASE step = 10
  <2>1. PICK a \in Int : floorTo(lo, 10) = a * 10 /\ 200 * a <= lo /\ lo <= 200 * a + 199
    BY DEF floorTo
  <2>2. PICK b \in Int : ceilTo(hi, 10) = b * 10 /\ hi <= 200 * b /\ 200 * b <= hi + 199
    BY DEF ceilTo
  <2>3. 0 <= a /\ b <= 10 /\ b - a \in 1..100
    <3>1. 0 <= a
      BY <2>1
    <3>2. b <= 10
      BY <2>2
    <3>3. b - a \in 1..100
      BY <2>1, <2>2, <3>1, <3>2
    <3>4. QED  BY <3>1, <3>2, <3>3
  <2>4. b * 10 - a * 10 = (b - a) * 10
    OBVIOUS
  <2>5. a * 10 \in 0..100 /\ b * 10 \in 0..100
    BY <2>3
  <2>6. a * 10 <= low /\ high <= b * 10
    BY <2>1, <2>2
  <2>7. b * 10 = 100 \/ b * 10 + 10 <= 100
    BY <2>3
  <2>8. b * 10 - a * 10 = 10 \/ b * 10 - a * 10 >= 2 * 10
    BY <2>3
  <2>9. CutFits(a * 10, b * 10, 10, low, high)
    BY <2>3, <2>4, <2>5, <2>6, <2>7, <2>8 DEF CutFits
  <2>10. QED  BY <1>2, <2>1, <2>2, <2>9
<1>3. CASE step = 20
  <2>1. PICK a \in Int : floorTo(lo, 20) = a * 20 /\ 400 * a <= lo /\ lo <= 400 * a + 399
    BY DEF floorTo
  <2>2. PICK b \in Int : ceilTo(hi, 20) = b * 20 /\ hi <= 400 * b /\ 400 * b <= hi + 399
    BY DEF ceilTo
  <2>3. 0 <= a /\ b <= 5 /\ b - a \in 1..100
    <3>1. 0 <= a
      BY <2>1
    <3>2. b <= 5
      BY <2>2
    <3>3. b - a \in 1..100
      BY <2>1, <2>2, <3>1, <3>2
    <3>4. QED  BY <3>1, <3>2, <3>3
  <2>4. b * 20 - a * 20 = (b - a) * 20
    OBVIOUS
  <2>5. a * 20 \in 0..100 /\ b * 20 \in 0..100
    BY <2>3
  <2>6. a * 20 <= low /\ high <= b * 20
    BY <2>1, <2>2
  <2>7. b * 20 = 100 \/ b * 20 + 20 <= 100
    BY <2>3
  <2>8. b * 20 - a * 20 = 20 \/ b * 20 - a * 20 >= 2 * 20
    BY <2>3
  <2>9. CutFits(a * 20, b * 20, 20, low, high)
    BY <2>3, <2>4, <2>5, <2>6, <2>7, <2>8 DEF CutFits
  <2>10. QED  BY <1>3, <2>1, <2>2, <2>9
<1>4. CASE step = 25
  <2>1. PICK a \in Int : floorTo(lo, 25) = a * 25 /\ 500 * a <= lo /\ lo <= 500 * a + 499
    BY DEF floorTo
  <2>2. PICK b \in Int : ceilTo(hi, 25) = b * 25 /\ hi <= 500 * b /\ 500 * b <= hi + 499
    BY DEF ceilTo
  <2>3. 0 <= a /\ b <= 4 /\ b - a \in 1..100
    <3>1. 0 <= a
      BY <2>1
    <3>2. b <= 4
      BY <2>2
    <3>3. b - a \in 1..100
      BY <2>1, <2>2, <3>1, <3>2
    <3>4. QED  BY <3>1, <3>2, <3>3
  <2>4. b * 25 - a * 25 = (b - a) * 25
    OBVIOUS
  <2>5. a * 25 \in 0..100 /\ b * 25 \in 0..100
    BY <2>3
  <2>6. a * 25 <= low /\ high <= b * 25
    BY <2>1, <2>2
  <2>7. b * 25 = 100 \/ b * 25 + 25 <= 100
    BY <2>3
  <2>8. b * 25 - a * 25 = 25 \/ b * 25 - a * 25 >= 2 * 25
    BY <2>3
  <2>9. CutFits(a * 25, b * 25, 25, low, high)
    BY <2>3, <2>4, <2>5, <2>6, <2>7, <2>8 DEF CutFits
  <2>10. QED  BY <1>4, <2>1, <2>2, <2>9
<1>5. QED  BY <1>1, <1>2, <1>3, <1>4 DEF Steps

LEMMA WidenedFits ==
  ASSUME NEW step \in Steps, NEW a, NEW b, NEW low \in Nat, NEW high \in Nat,
         CutFits(a, b, step, low, high)
  PROVE  AxisFits(widened(a, b, step), step, low, high)
<1>1. a \in 0..100 /\ b \in 0..100 /\ a <= low /\ high <= b /\ step \in 5..25
  BY DEF CutFits, Steps
<1>2. PICK n \in 1..100 : b - a = n * step
  BY DEF CutFits
<1>3. CASE b - a >= 2 * step
  <2>1. widened(a, b, step) = [from |-> a, to |-> b, step |-> step]
    <3>1. ~(b - a < 2 * step)
      BY <1>1, <1>3
    <3>2. QED  BY <1>3, <3>1, Zenon DEF widened
  <2>2. n # 1
    BY <1>1, <1>2, <1>3
  <2>3. b = a + n * step
    BY <1>1, <1>2
  <2>4. QED  BY <1>1, <1>2, <2>1, <2>2, <2>3 DEF AxisFits
<1>4. CASE b - a = step /\ b + step <= 100
  <2>1. widened(a, b, step) = [from |-> a, to |-> b + step, step |-> step]
    <3>1. ~(b - a >= 2 * step) /\ b - a < 2 * step
      BY <1>1, <1>4
    <3>2. QED  BY <1>4, <3>1, Zenon DEF widened
  <2>2. b + step = a + 2 * step
    BY <1>1, <1>4
  <2>3. b + step \in 0..100 /\ high <= b + step
    BY <1>1, <1>4
  <2>4. QED  BY <1>1, <2>1, <2>2, <2>3 DEF AxisFits
<1>5. CASE b - a = step /\ b = 100
  <2>1. widened(a, b, step) = [from |-> a - step, to |-> b, step |-> step]
    <3>1. ~(b + step <= 100) /\ ~(b - a >= 2 * step)
      BY <1>1, <1>5
    <3>2. Higher(0, a - step) = a - step
      BY <1>1, <1>5 DEF Higher
    <3>3. QED  BY <3>1, <3>2, Zenon DEF widened
  <2>2. a - step \in 0..100 /\ a - step <= low /\ b = (a - step) + 2 * step
    BY <1>1, <1>5
  <2>3. QED  BY <1>1, <2>1, <2>2 DEF AxisFits
<1>6. QED  BY <1>3, <1>4, <1>5 DEF CutFits

LEMMA ScaleFits == RangeFits => TrendFits
<1> SUFFICES ASSUME RangeFits PROVE TrendFits
  OBVIOUS
<1>1. CASE trendScale = Whole
  <2>1. (100 - 0) \div 25 = 4
    OBVIOUS
  <2>2. QED  BY <1>1, <2>1 DEF TrendFits, Whole, RangeFits, NoScore
<1>2. CASE trendScale # Whole
  <2> DEFINE pad20 == Higher(100, 3 * (highest - lowest))
             lo20  == Higher(0, 20 * lowest - pad20)
             hi20  == Lower(2000, 20 * highest + pad20)
             axis(step) == widened(floorTo(lo20, step), ceilTo(hi20, step), step)
             fits  == {step \in Steps : axis(step).to - axis(step).from <= 4 * step}
  <2>1. lowest \in Nat /\ highest \in Nat /\ highest <= 100 /\ lowest <= highest
    BY <1>2 DEF trendScale, RangeFits
  <2>2. lo20 \in Nat /\ hi20 \in Nat /\ hi20 <= 2000 /\ lo20 <= hi20 /\ lo20 # hi20
        /\ lo20 <= 20 * lowest /\ 20 * highest <= hi20
    <3>1. pad20 \in Int /\ pad20 >= 100
      BY <2>1 DEF Higher
    <3> HIDE DEF pad20
    <3>2. lo20 \in Nat /\ lo20 <= 20 * lowest /\ (lo20 = 0 \/ lo20 = 20 * lowest - pad20)
      BY <2>1, <3>1 DEF Higher
    <3>3. hi20 \in Nat /\ hi20 <= 2000 /\ 20 * highest <= hi20 /\ (hi20 = 2000 \/ hi20 = 20 * highest + pad20)
      BY <2>1, <3>1 DEF Lower
    <3> HIDE DEF lo20, hi20
    <3>4. lo20 <= 1900 /\ hi20 >= 100
      BY <2>1, <3>1, <3>2, <3>3
    <3>5. lo20 # hi20 /\ lo20 <= hi20
      BY <2>1, <3>1, <3>2, <3>3, <3>4
    <3>6. QED  BY <3>2, <3>3, <3>5
  <2>3. fits # {} /\ trendScale = axis(Min(fits))
    BY <1>2 DEF trendScale, Steps
  <2> HIDE DEF lo20, hi20
  <2>4. ASSUME NEW step \in Steps PROVE AxisFits(axis(step), step, lowest, highest)
    <3>1. CutFits(floorTo(lo20, step), ceilTo(hi20, step), step, lowest, highest)
      BY <2>1, <2>2, CutsFit
    <3>2. QED  BY <2>1, <3>1, WidenedFits
  <2> HIDE DEF axis
  <2>5. Min(fits) \in fits
    BY <2>3, LeastStep
  <2>6. PICK step \in Steps : step = Min(fits) /\ axis(step).to - axis(step).from <= 4 * step
    BY <2>5
  <2>7. AxisFits(trendScale, step, lowest, highest) /\ trendScale.to - trendScale.from <= 4 * step
    BY <2>3, <2>4, <2>6
  <2>8. PICK n \in 2..100 : trendScale.to = trendScale.from + n * step
    BY <2>7 DEF AxisFits
  <2>9. n \in 2..4 /\ (trendScale.to - trendScale.from) \div step = n
    BY <2>7, <2>8 DEF AxisFits, Steps
  <2>10. trendScale.step = step /\ 0 <= trendScale.from /\ trendScale.to <= 100
         /\ trendScale.from <= lowest /\ highest <= trendScale.to
         /\ trendScale.from + n * step = trendScale.to
    BY <2>7, <2>8 DEF AxisFits
  <2>11. QED  BY <2>9, <2>10 DEF TrendFits
<1>3. QED  BY <1>1, <1>2

\* For any scores the axis holds every point, within 0 and 100, in two to four intervals.
THEOREM AxisHoldsHistory == TrendSpec => []TrendFits
BY TrendStarts, TrendMoves, ScaleFits, PTL DEF TrendSpec

(***************************************************************************)
(* The bar and the card.                                                   *)
(***************************************************************************)
\* The step at a percentage.
StepNo(p) ==
  IF p < 25 THEN 1 ELSE IF p < 37 THEN 2 ELSE IF p < 52 THEN 3 ELSE IF p < 60 THEN 4
  ELSE IF p < 70 THEN 5 ELSE IF p < 85 THEN 6 ELSE 7

LEMMA StepNumbers ==
  /\ DOMAIN STEPS = 1..7
  /\ \A k \in 1..7 : stepIndex(STEPS[k]) = k
  /\ \A k \in 1..7 : From[k] \in Nat /\ To[k] \in Nat /\ From[k] <= To[k] /\ To[k] <= 100
  /\ \A k, n \in 1..7 : k <= n => To[k] <= To[n]
  /\ \A k, n \in 1..7 : k <= n /\ k # n => To[k] <= From[n]
<1>1. DOMAIN STEPS = 1..7
  BY DEF STEPS
<1>2. \A k, n \in 1..7 : STEPS[k] = STEPS[n] => k = n
  BY DEF STEPS
<1>3. ASSUME NEW k \in 1..7 PROVE stepIndex(STEPS[k]) = k
  <2> DEFINE i == stepIndex(STEPS[k])
  <2>1. i \in 1..7 /\ STEPS[i] = STEPS[k]
    BY <1>1 DEF stepIndex
  <2>2. QED  BY <2>1, <1>2
<1>4. \A k \in 1..7 : From[k] \in Nat /\ To[k] \in Nat /\ From[k] <= To[k] /\ To[k] <= 100
  BY DEF From, To
<1>5. \A k, n \in 1..7 : k <= n => To[k] <= To[n]
  BY DEF To
<1>6. \A k, n \in 1..7 : k <= n /\ k # n => To[k] <= From[n]
  BY DEF From, To
<1>7. QED  BY <1>1, <1>3, <1>4, <1>5, <1>6

LEMMA StepNoGrows ==
  /\ \A p \in Nat : StepNo(p) \in 1..7
  /\ \A p, q \in Nat : p <= q => StepNo(p) <= StepNo(q)
  /\ \A p \in Nat : p <= 100 => p <= To[StepNo(p)]
<1>1. \A p \in Nat : StepNo(p) \in 1..7
  BY DEF StepNo
<1>2. \A p, q \in Nat : p <= q => StepNo(p) <= StepNo(q)
  BY DEF StepNo
<1>3. \A p \in Nat : p <= 100 => p <= To[StepNo(p)]
  BY DEF StepNo, To
<1>4. QED  BY <1>1, <1>2, <1>3

LEMMA StepAtIs == \A p \in Nat : 5 <= p => StepAt(p) = STEPS[StepNo(p)]
<1> SUFFICES ASSUME NEW p \in Nat, 5 <= p PROVE StepAt(p) = STEPS[StepNo(p)]
  OBVIOUS
<1> DEFINE Is(k) == From[k] <= p /\ \A n \in DOMAIN STEPS : From[n] <= p => n <= k
<1>1. StepNo(p) \in DOMAIN STEPS /\ Is(StepNo(p))
  <2>1. From[StepNo(p)] <= p
    BY DEF From, StepNo
  <2>2. \A n \in 1..7 : From[n] <= p => n <= StepNo(p)
    BY DEF From, StepNo
  <2>3. QED  BY <2>1, <2>2, StepNumbers, StepNoGrows
<1>2. \A k \in DOMAIN STEPS : Is(k) => k = StepNo(p)
  <2>1. ASSUME NEW k \in DOMAIN STEPS, Is(k) PROVE k = StepNo(p)
    <3>1. k \in Nat /\ StepNo(p) \in Nat /\ k <= StepNo(p) /\ StepNo(p) <= k
      BY <1>1, <2>1, StepNumbers, StepNoGrows
    <3>2. QED  BY <3>1
  <2>2. QED  BY <2>1
<1>3. StepAt(p) = STEPS[CHOOSE k \in DOMAIN STEPS : Is(k)]
  BY DEF StepAt
<1> HIDE DEF Is
<1>4. (CHOOSE k \in DOMAIN STEPS : Is(k)) = StepNo(p)
  BY <1>1, <1>2
<1>5. QED  BY <1>3, <1>4

\* A worker's word is about the step that its percentage is in.
LEMMA VouchedSteps ==
  ASSUME NEW s \in Vouched
  PROVE  /\ s.phase = "running" /\ s.progress \in Nat /\ 5 <= s.progress /\ s.progress <= 100
         /\ s.done \in Nat /\ s.total \in Nat
         /\ stepOf(s) = STEPS[StepNo(s.progress)]
<1>1. PICK p \in Reports : \E n \in Named(p), c \in Counts \X Totals :
        s = [phase |-> "running", stage |-> n[1], step |-> n[2],
             progress |-> p, done |-> c[1], total |-> c[2]]
  BY DEF Vouched
<1> PICK n \in Named(p), c \in Counts \X Totals :
        s = [phase |-> "running", stage |-> n[1], step |-> n[2],
             progress |-> p, done |-> c[1], total |-> c[2]]
  BY <1>1
<1>2. p \in Nat /\ 5 <= p /\ p <= 100 /\ c[1] \in Nat /\ c[2] \in Nat
  BY <1>1, ScanBarAssumption DEF ScanBarAssumption
<1>3. n \in {<<StageAt(p), StepAt(p)>>, <<StageAt(p), Unsent>>, <<Unsent, Unsent>>}
  BY <1>1 DEF Named
<1>4. n[1] \in {StageAt(p), Unsent} /\ n[2] \in {StepAt(p), Unsent}
  BY <1>3
<1>5. stageOf(s) = StageAt(p)
  BY <1>1, <1>4 DEF stageOf
<1>6. s.step # Unsent => s.step = StepAt(p)
  BY <1>1, <1>4
<1>7. stepOf(s) = STEPS[StepNo(p)]
  <2>1. CASE p < 25
    <3>1. StageAt(p) = "cloning" /\ StepNo(p) = 1
      BY <2>1 DEF StageAt, StepNo
    <3>2. QED  BY <3>1, <1>5 DEF stepOf, STEPS
  <2>2. CASE ~(p < 25) /\ p < 60
    <3>1. StageAt(p) = "reading_code"
      BY <2>2 DEF StageAt
    <3>2. stepOf(s) = StepAt(p)
      BY <3>1, <1>1, <1>5, <1>6 DEF stepOf
    <3>3. QED  BY <3>2, <1>2, StepAtIs
  <2>3. CASE ~(p < 60) /\ p < 70
    <3>1. StageAt(p) = "finding_debt" /\ StepNo(p) = 5
      BY <2>3, <1>2 DEF StageAt, StepNo
    <3>2. QED  BY <3>1, <1>5 DEF stepOf, STEPS
  <2>4. CASE ~(p < 70) /\ p < 85
    <3>1. StageAt(p) = "predicting_risk" /\ StepNo(p) = 6
      BY <2>4, <1>2 DEF StageAt, StepNo
    <3>2. QED  BY <3>1, <1>5 DEF stepOf, STEPS
  <2>5. CASE ~(p < 85)
    <3>1. StageAt(p) \in {"scoring", "finishing"} /\ StepNo(p) = 7
      BY <2>5, <1>2 DEF StageAt, StepNo
    <3>2. QED  BY <3>1, <1>5 DEF stepOf, STEPS
  <2>6. QED  BY <2>1, <2>2, <2>3, <2>4, <2>5, <1>2
<1>8. QED  BY <1>1, <1>2, <1>7

\* A part of a whole is no more than the whole, in whole numbers.
LEMMA ShareFits ==
  ASSUME NEW width \in Nat, NEW part \in Nat, NEW total \in Nat, part <= total, total >= 1
  PROVE  (width * part) \div total \in Nat /\ (width * part) \div total <= width
<1>1. width * part \in Nat /\ width * part <= width * total
  OBVIOUS
<1> DEFINE q == (width * part) \div total
<1>2. q \in Int /\ total * q <= width * part /\ width * part < total * q + total
  BY <1>1
<1> HIDE DEF q
<1>3. q <= width
  BY <1>1, <1>2
<1>4. q >= 0
  BY <1>1, <1>2
<1>5. QED  BY <1>2, <1>3, <1>4 DEF q

\* What the server has vouched for lies within the step.
LEMMA ReportedFits ==
  ASSUME NEW s \in Vouched
  PROVE  /\ reportedProgress(s) \in Nat /\ reportedProgress(s) <= To[StepNo(s.progress)]
         /\ creepTarget(s) \in Nat /\ creepTarget(s) <= To[StepNo(s.progress)]
<1> DEFINE k == StepNo(s.progress)
<1>1. /\ s.progress \in Nat /\ s.progress <= 100 /\ s.done \in Nat /\ s.total \in Nat
      /\ stepIndex(stepOf(s)) = k /\ k \in 1..7
  BY VouchedSteps, StepNumbers, StepNoGrows
<1>2. From[k] \in Nat /\ To[k] \in Nat /\ From[k] <= To[k] /\ To[k] <= 100 /\ 1 <= To[k]
  <2>1. 1 <= To[k]
    BY <1>1 DEF To
  <2>2. QED  BY <1>1, <2>1, StepNumbers
<1>3. s.progress <= To[k]
  BY <1>1, StepNoGrows
<1> DEFINE value == Larger(From[k], s.progress)
           width == To[k] - From[k]
           part  == Least(s.done, s.total)
           share == From[k] + (width * part) \div s.total
<1>4. value \in Nat /\ value <= To[k]
  BY <1>1, <1>2, <1>3 DEF Larger
<1>5. s.total > 0 => share \in Nat /\ share <= To[k]
  <2>1. width \in Nat /\ part \in Nat /\ part <= s.total
    BY <1>1, <1>2 DEF Least
  <2> HIDE DEF width, part
  <2>2. s.total > 0 => (width * part) \div s.total \in Nat /\ (width * part) \div s.total <= width
    <3>1. PICK total \in Nat : total = s.total
      BY <1>1
    <3>2. total > 0 => total >= 1 /\ part <= total
      BY <2>1, <3>1
    <3>3. total >= 1 /\ part <= total
            => (width * part) \div total \in Nat /\ (width * part) \div total <= width
      BY <2>1, ShareFits
    <3>4. QED  BY <3>1, <3>2, <3>3
  <2> DEFINE q == (width * part) \div s.total
  <2> HIDE DEF q
  <2>3. s.total > 0 => q \in Nat /\ q <= To[k] - From[k]
    BY <2>2 DEF q, width
  <2>4. s.total > 0 => From[k] + q \in Nat /\ From[k] + q <= To[k]
    BY <2>3, <1>2
  <2>5. QED  BY <2>4 DEF q
<1> HIDE DEF share, value
<1>6. reportedProgress(s) = Least(100, IF stepOf(s) \in {"history", "comments"} /\ s.total > 0
                                         THEN Larger(value, share) ELSE value)
  BY <1>1 DEF reportedProgress, value, share
<1>7. reportedProgress(s) \in Nat /\ reportedProgress(s) <= To[k]
  BY <1>2, <1>4, <1>5, <1>6 DEF Least, Larger
<1>8. creepTarget(s) = Larger(reportedProgress(s), To[k] - 1)
  BY <1>1 DEF creepTarget
<1>9. QED  BY <1>2, <1>7, <1>8 DEF Larger

\* A failed read reads as a scan at its start.
LEMMA UnreadFits ==
  /\ Unread.phase = "running"
  /\ reportedProgress(Unread) = 5 /\ creepTarget(Unread) = 24
<1>1. Unread = [phase |-> "running", stage |-> Unsent, step |-> Unsent,
                progress |-> 0, done |-> 0, total |-> 0]
  BY DEF Unread, NoStatus
<1>2. stepOf(Unread) = "clone"
  BY <1>1 DEF stepOf, stageOf, StageAt
<1>3. STEPS[1] = "clone" /\ From[1] = 5 /\ To[1] = 25
  BY DEF STEPS, From, To
<1>4. stepIndex("clone") = 1
  BY <1>3, StepNumbers
<1>5. reportedProgress(Unread) = 5
  BY <1>1, <1>2, <1>3, <1>4 DEF reportedProgress, Least, Larger
<1>6. QED  BY <1>1, <1>2, <1>3, <1>4, <1>5 DEF creepTarget, Larger

LEMMA ToBarGrows ==
  /\ \A p \in Nat : toBar(p) \in Nat /\ toBar(p) <= SCAN_SHARE
  /\ \A p, q \in Nat : p <= q => toBar(p) <= toBar(q)
  /\ \A p \in Nat : p <= 85 => toBar(p) = p
<1> USE DEF toBar, SCAN_SHARE, Least
<1>1. \A p \in Nat : toBar(p) \in Nat /\ toBar(p) <= 92
  OBVIOUS
<1>2. \A p, q \in Nat : p <= q => toBar(p) <= toBar(q)
  OBVIOUS
<1>3. \A p \in Nat : p <= 85 => toBar(p) = p
  OBVIOUS
<1>4. QED  BY <1>1, <1>2, <1>3

\* What a tick shows: what was shown, or more, but no more than what it aims at.
LEMMA TickFits ==
  ASSUME NEW was \in Nat, NEW target \in Nat, NEW goal \in Nat, was <= goal, target <= goal
  PROVE  /\ \A n \in nextShown(was, target) : n \in Nat /\ n <= goal
         /\ Larger(was, target) \in Nat /\ Larger(was, target) <= goal
  BY DEF nextShown, Larger

BarShape ==
  /\ worker \in Vouched \cup {Queued, Unread, Finished, NoStatus} /\ status \in {worker, Unread}
  /\ job \in {"none", "scanning", "scoring"} /\ reduced \in BOOLEAN
  /\ bar = NoBar \/ (bar \in Nat /\ bar <= CEILING)

\* A bar that is shown has a job, and a scan's bar stays within the worker's step, which is the
\* first one until it is told.
BarStays ==
  /\ job = "none" => bar = NoBar
  /\ job = "scanning" => worker \in Vouched \cup {Queued, Unread}
  /\ job = "scoring" => worker = Finished
  /\ worker = Queued => status = Queued
  /\ job = "scanning" /\ bar # NoBar /\ worker \in Vouched => bar <= toBar(To[StepNo(worker.progress)])
  /\ job = "scanning" /\ bar # NoBar /\ worker \notin Vouched => bar <= 24

BarOK == BarShape /\ BarStays

LEMMA OtherStatuses ==
  /\ NoStatus.phase = "none" /\ Queued.phase = "queued" /\ Unread.phase = "running"
  /\ NoStatus.progress = 0 /\ Queued.progress = 0 /\ Unread.progress = 0
  /\ NoStatus \notin Vouched /\ Queued \notin Vouched /\ Unread \notin {Queued, NoStatus} \cup Vouched
  /\ Queued # NoStatus
  /\ Finished.phase = "done" /\ Finished \notin Vouched \cup {Queued, Unread, NoStatus}
<1>1. /\ NoStatus.phase = "none" /\ Queued.phase = "queued" /\ Unread.phase = "running"
      /\ NoStatus.progress = 0 /\ Queued.progress = 0 /\ Unread.progress = 0
      /\ Finished.phase = "done"
  BY DEF NoStatus, Queued, Unread, Finished
<1>2. \A s \in Vouched : s.phase = "running" /\ s.progress # 0
  BY VouchedSteps
<1>3. QED  BY <1>1, <1>2

LEMMA BarStarts == BarInit => BarOK
  BY OtherStatuses DEF BarInit, BarOK, BarShape, BarStays

\* The bar of a step that the worker is in.
LEMMA GoalFits ==
  ASSUME NEW s \in Vouched
  PROVE  /\ toBar(To[StepNo(s.progress)]) \in Nat /\ toBar(To[StepNo(s.progress)]) <= CEILING
         /\ toBar(reportedProgress(s)) \in Nat /\ toBar(creepTarget(s)) \in Nat
         /\ toBar(reportedProgress(s)) <= toBar(To[StepNo(s.progress)])
         /\ toBar(creepTarget(s)) <= toBar(To[StepNo(s.progress)])
         /\ 24 <= toBar(To[StepNo(s.progress)])
<1>1. s.progress \in Nat
  BY VouchedSteps
<1>2. StepNo(s.progress) \in 1..7 /\ To[StepNo(s.progress)] \in Nat /\ 25 <= To[StepNo(s.progress)]
  <2>1. StepNo(s.progress) \in 1..7
    BY <1>1, StepNoGrows
  <2>2. \A k \in 1..7 : To[k] \in Nat /\ 25 <= To[k]
    BY DEF To
  <2>3. QED  BY <2>1, <2>2
<1>3. toBar(25) = 25 /\ toBar(25) <= toBar(To[StepNo(s.progress)])
  BY <1>2, ToBarGrows
<1>4. toBar(To[StepNo(s.progress)]) \in Nat /\ toBar(To[StepNo(s.progress)]) <= 92
  BY <1>2, ToBarGrows DEF SCAN_SHARE
<1>5. /\ toBar(reportedProgress(s)) \in Nat /\ toBar(creepTarget(s)) \in Nat
      /\ toBar(reportedProgress(s)) <= toBar(To[StepNo(s.progress)])
      /\ toBar(creepTarget(s)) <= toBar(To[StepNo(s.progress)])
  BY <1>2, ReportedFits, ToBarGrows
<1>6. QED  BY <1>3, <1>4, <1>5 DEF CEILING

LEMMA AdvanceKeeps == BarOK /\ advanceLive => BarOK'
<1> SUFFICES ASSUME BarOK, advanceLive PROVE BarOK'
  OBVIOUS
<1> USE DEF BarOK
<1>1. worker' = worker /\ status' = status /\ job' = job /\ reduced' = reduced
  BY DEF advanceLive
<1>2. Shown \in Nat /\ Shown <= CEILING
  BY DEF Shown, BarShape, NoBar, CEILING
<1>3. CASE AdvanceScan
  <2> DEFINE goal == IF worker \in Vouched THEN toBar(To[StepNo(worker.progress)]) ELSE 24
  <2>1. worker \in Vouched \cup {Unread} /\ job = "scanning"
    BY <1>3, OtherStatuses DEF AdvanceScan, BarShape, BarStays
  <2>2. goal \in Nat /\ goal <= CEILING /\ 24 <= goal
    BY <2>1, GoalFits DEF CEILING
  <2>3. Shown <= goal
    BY <2>1, <2>2 DEF Shown, BarStays
  <2>4. /\ toBar(reportedProgress(status)) \in Nat /\ toBar(reportedProgress(status)) <= goal
        /\ toBar(creepTarget(status)) \in Nat /\ toBar(creepTarget(status)) <= goal
    <3>1. CASE status = worker /\ worker \in Vouched
      BY <3>1, GoalFits
    <3>2. CASE status = Unread
      <4>1. toBar(5) = 5 /\ toBar(24) = 24
        BY ToBarGrows
      <4> HIDE DEF goal
      <4>2. QED  BY <3>2, <4>1, <2>2, UnreadFits
    <3>3. QED  BY <2>1, <3>1, <3>2 DEF BarShape
  <2>5. \/ bar' = Larger(Shown, toBar(reportedProgress(status)))
        \/ bar' \in nextShown(Shown, toBar(creepTarget(status)))
    BY <1>3 DEF AdvanceScan, ReducedShown
  <2>6. bar' \in Nat /\ bar' <= goal
    <3> HIDE DEF goal
    <3>1. QED  BY <2>2, <2>3, <2>4, <2>5, <1>2, TickFits
  <2>7. bar' <= CEILING
    <3> HIDE DEF goal
    <3>1. QED  BY <2>2, <2>6 DEF CEILING
  <2>8. worker \in Vouched => bar' <= toBar(To[StepNo(worker.progress)])
    BY <2>6
  <2>9. worker \notin Vouched => bar' <= 24
    BY <2>6
  <2>10. QED  BY <2>1, <2>6, <2>7, <2>8, <2>9, <1>1 DEF BarShape, BarStays
<1>4. CASE AdvanceScore
  <2>1. worker = Finished /\ job = "scoring"
    BY <1>4 DEF AdvanceScore, BarShape, BarStays
  <2>2. bar' = Larger(Shown, 92) \/ bar' \in nextShown(Shown, 99)
    BY <1>4 DEF AdvanceScore, ReducedShown, SCAN_SHARE, CEILING
  <2>3. bar' \in Nat /\ bar' <= 99
    BY <2>2, <1>2 DEF Larger, nextShown, CEILING
  <2>4. QED  BY <2>1, <2>3, <1>1, OtherStatuses DEF BarShape, BarStays, CEILING
<1>5. QED  BY <1>3, <1>4 DEF advanceLive

LEMMA BarMoves == BarOK /\ [BarNext]_barVars => BarOK'
<1> SUFFICES ASSUME BarOK, [BarNext]_barVars PROVE BarOK'
  OBVIOUS
<1> USE DEF BarOK
<1>1. ASSUME NEW s \in Vouched \cup {Queued, Unread}, FollowBar(s) PROVE BarOK'
  <2>1. /\ worker' = s /\ status' = s /\ job' = "scanning" /\ reduced' \in BOOLEAN
        /\ bar' = IF s.phase = "running" THEN 0 ELSE NoBar
    BY <1>1 DEF FollowBar, ensureLive
  <2>2. CASE s \in Vouched
    <3>1. bar' = 0 /\ s # NoStatus
      BY <2>1, <2>2, VouchedSteps, OtherStatuses
    <3>2. 0 <= toBar(To[StepNo(s.progress)])
      BY <2>2, GoalFits
    <3>3. QED  BY <2>1, <2>2, <3>1, <3>2 DEF BarShape, BarStays, CEILING
  <2>3. CASE s = Queued
    BY <2>1, <2>3, OtherStatuses DEF BarShape, BarStays
  <2>4. CASE s = Unread
    BY <2>1, <2>4, OtherStatuses DEF BarShape, BarStays, CEILING
  <2>5. QED  BY <2>2, <2>3, <2>4
<1>2. ASSUME NEW s \in Vouched, ReportBar(s) PROVE BarOK'
  <2>1. /\ worker' = s /\ status' = s /\ job' = job /\ bar' = bar /\ reduced' = reduced
        /\ job = "scanning" /\ s.progress >= worker.progress
    BY <1>2 DEF ReportBar
  <2>2. s # Queued
    BY OtherStatuses
  <2>3. bar # NoBar => bar <= toBar(To[StepNo(s.progress)])
    <3>1. CASE worker \in Vouched
      <4>1. PICK p \in Nat, q \in Nat : p = worker.progress /\ q = s.progress
        BY <3>1, VouchedSteps
      <4>2. StepNo(p) \in 1..7 /\ StepNo(q) \in 1..7 /\ StepNo(p) <= StepNo(q)
        BY <4>1, <2>1, StepNoGrows
      <4>3. To[StepNo(p)] \in Nat /\ To[StepNo(q)] \in Nat /\ To[StepNo(p)] <= To[StepNo(q)]
        BY <4>2, StepNumbers
      <4>4. toBar(To[StepNo(p)]) \in Nat /\ toBar(To[StepNo(q)]) \in Nat
            /\ toBar(To[StepNo(p)]) <= toBar(To[StepNo(q)])
        BY <4>3, ToBarGrows
      <4>5. bar # NoBar => bar \in Nat /\ bar <= toBar(To[StepNo(p)])
        BY <2>1, <3>1, <4>1 DEF BarShape, BarStays
      <4>6. QED  BY <4>1, <4>4, <4>5
    <3>2. CASE worker \notin Vouched
      <4>1. toBar(To[StepNo(s.progress)]) \in Nat /\ 24 <= toBar(To[StepNo(s.progress)])
        BY GoalFits
      <4>2. bar # NoBar => bar \in Nat /\ bar <= 24
        BY <2>1, <3>2 DEF BarShape, BarStays
      <4>3. QED  BY <4>1, <4>2
    <3>3. QED  BY <3>1, <3>2
  <2>4. QED  BY <2>1, <2>2, <2>3 DEF BarShape, BarStays
<1>3. CASE ReportUnread \/ ReportQueued
  BY <1>3, OtherStatuses DEF ReportUnread, ReportQueued, BarShape, BarStays
<1>4. CASE ScoreBar
  BY <1>4, OtherStatuses DEF ScoreBar, BarShape, BarStays
<1>5. CASE EndBar
  BY <1>5 DEF EndBar, BarShape, BarStays
<1>6. CASE advanceLive
  BY <1>6, AdvanceKeeps
<1>7. CASE UNCHANGED barVars
  BY <1>7 DEF barVars, BarShape, BarStays
<1>8. QED
  BY <1>1, <1>2, <1>3, <1>4, <1>5, <1>6, <1>7 DEF BarNext

LEMMA BarOKSuffices == BarOK => BarInv
<1> SUFFICES ASSUME BarOK PROVE BarInv
  OBVIOUS
<1> USE DEF BarOK
<1>1. BarTypeOK
  BY DEF BarTypeOK, BarShape, CEILING
<1>2. CardAgrees
  <2> SUFFICES ASSUME job # "none", status # Unread
               PROVE  LET card == ScanProgressCard IN
                      /\ \A k \in DOMAIN STEPS : card.dots[k] = "upcoming" => card.percent <= toBar(From[k])
                      /\ card.count # NoCount => card.count \in 1..status.total
    BY DEF CardAgrees
  <2>1. status = worker /\ worker \in Vouched \cup {Queued, Finished}
    BY DEF BarShape, BarStays
  <2>2. \A k \in 1..7 : From[k] \in Nat /\ toBar(From[k]) \in Nat
    BY StepNumbers, ToBarGrows
  <2>3. CASE worker = Queued
    <3>1. cardQueued
      BY <2>1, <2>3, OtherStatuses DEF cardQueued, BarStays, BarShape
    <3>2. ScanProgressCard = [mode |-> "queued", count |-> NoCount, dots |-> Stepper(0), percent |-> NoBar]
      BY <3>1 DEF ScanProgressCard
    <3>3. \A k \in 1..7 : NoBar <= toBar(From[k])
      BY <2>2 DEF NoBar
    <3>4. QED  BY <3>2, <3>3, StepNumbers
  <2>4. CASE worker \in Vouched
    <3>1. ScanProgressCard = [mode |-> cardStep, count |-> countLabel(cardStep, status),
                              dots |-> Stepper(stepIndex(cardStep)), percent |-> bar]
      BY <2>1, <2>4, VouchedSteps DEF ScanProgressCard, cardQueued
    <3>2. countLabel(cardStep, status) # NoCount => countLabel(cardStep, status) \in 1..status.total
      <4>1. status.done \in Nat /\ status.total \in Nat
        BY <2>1, <2>4, VouchedSteps
      <4>2. countLabel(cardStep, status) \in {NoCount, Least(status.done, status.total)}
        BY DEF countLabel
      <4>3. Least(status.done, status.total) # 0
              => Least(status.done, status.total) \in 1..status.total
        BY <4>1 DEF Least
      <4>4. QED  BY <4>2, <4>3 DEF NoCount
    <3> DEFINE at == stepIndex(cardStep)
    <3>3. \A k \in 1..7 : Stepper(at)[k] = "upcoming" => ~(k < at) /\ k # at
      BY StepNumbers DEF Stepper
    <3>4. \A k \in 1..7 : Stepper(at)[k] = "upcoming" => bar <= toBar(From[k])
      <4>1. CASE job = "scoring"
        <5>1. at = 7
          <6>1. STEPS[7] = "score"
            BY DEF STEPS
          <6>2. QED  BY <4>1, <6>1, StepNumbers DEF cardStep
        <5> HIDE DEF at
        <5>2. QED  BY <3>3, <5>1
      <4>2. CASE job = "scanning"
        <5>1. worker.progress \in Nat /\ at = StepNo(worker.progress) /\ at \in 1..7
          BY <2>1, <2>4, <4>2, VouchedSteps, StepNumbers, StepNoGrows DEF cardStep
        <5>2. bar # NoBar => bar \in Nat /\ bar <= toBar(To[at])
          BY <2>1, <2>4, <4>2, <5>1 DEF BarShape, BarStays
        <5> HIDE DEF at
        <5>3. ASSUME NEW k \in 1..7, Stepper(at)[k] = "upcoming" PROVE bar <= toBar(From[k])
          <6>1. at <= k /\ at # k
            BY <3>3, <5>1, <5>3
          <6>2. To[at] \in Nat /\ From[k] \in Nat /\ To[at] <= From[k]
            BY <5>1, <6>1, StepNumbers
          <6>3. toBar(To[at]) \in Nat /\ toBar(From[k]) \in Nat /\ toBar(To[at]) <= toBar(From[k])
            BY <6>2, ToBarGrows
          <6>4. QED  BY <5>2, <6>3 DEF NoBar
        <5>4. QED  BY <5>3
      <4>3. QED  BY <4>1, <4>2 DEF BarShape
    <3>5. QED  BY <3>1, <3>2, <3>4, StepNumbers
  <2>5. CASE worker = Finished
    <3>1. job = "scoring" /\ cardStep = "score" /\ stepIndex("score") = 7
      <4>1. STEPS[7] = "score"
        BY DEF STEPS
      <4>2. QED  BY <2>5, <4>1, OtherStatuses, StepNumbers DEF BarStays, BarShape, cardStep
    <3>2. countLabel("score", status) = NoCount
      BY DEF countLabel
    <3>3. ScanProgressCard = [mode |-> "score", count |-> NoCount, dots |-> Stepper(7), percent |-> bar]
      BY <3>1, <3>2 DEF ScanProgressCard, cardQueued
    <3>4. \A k \in 1..7 : Stepper(7)[k] # "upcoming"
      BY StepNumbers DEF Stepper
    <3>5. QED  BY <3>3, <3>4, StepNumbers
  <2>6. QED  BY <2>1, <2>3, <2>4, <2>5
<1>3. QED  BY <1>1, <1>2 DEF BarInv

\* For any percentages and counts the bar stays out of steps that the worker has not begun.
THEOREM BarIsRight == BarSpec => []BarInv
<1>1. BarInit => BarOK
  BY BarStarts
<1>2. BarOK /\ [BarNext]_barVars => BarOK'
  BY BarMoves
<1>3. BarOK => BarInv
  BY BarOKSuffices
<1>4. QED  BY <1>1, <1>2, <1>3, PTL DEF BarSpec

(***************************************************************************)
(* The findings.                                                           *)
(***************************************************************************)
Places == (1..Snapshots) \X Keys

LEMMA FindingTypes ==
  /\ IsFiniteSet(Keys) /\ Keys \subseteq Nat /\ NoFinding \notin Keys
  /\ PageSize \in Nat /\ PageSize >= 1 /\ Snapshots \in Nat /\ Snapshots >= 1
  /\ \A f \in Keys : /\ Findings[f].severity \in {"critical", "high", "medium", "low"}
                     /\ Rank[Findings[f].severity] \in 1..4
                     /\ sortKey[f] \in Int
                     /\ Findings[f].priority \in Int
  /\ \A f, g \in Keys : Rank[Findings[f].severity] = Rank[Findings[g].severity]
                          => Findings[f].severity = Findings[g].severity
<1> USE FindingsAssumption DEF FindingsAssumption
<1>1. IsFiniteSet(Keys) /\ Keys \subseteq Nat /\ NoFinding \notin Keys
  <2>1. Cardinality(Keys) \in Nat
    BY FS_CardinalityType
  <2>2. QED  BY <2>1 DEF NoFinding
<1>2. PageSize \in Nat /\ PageSize >= 1 /\ Snapshots \in Nat /\ Snapshots >= 1
  OBVIOUS
<1>3. \A f \in Keys : Findings[f].severity \in {"critical", "high", "medium", "low"}
  BY DEF Severities, Rank
<1>4. \A f \in Keys : Rank[Findings[f].severity] \in 1..4
  BY <1>3 DEF Rank
<1>5. \A f \in Keys : sortKey[f] \in Int
  BY <1>4 DEF sortKey
<1>6. \A f, g \in Keys : Rank[Findings[f].severity] = Rank[Findings[g].severity]
                          => Findings[f].severity = Findings[g].severity
  BY <1>3 DEF Rank
<1>7. QED  BY <1>1, <1>2, <1>3, <1>4, <1>5, <1>6

\* The order of the list is strict and total.
LEMMA BeforeOrders ==
  ASSUME NEW f \in Keys, NEW g \in Keys
  PROVE  /\ ~before(f, f)
         /\ f # g => before(f, g) \/ before(g, f)
         /\ \A h \in Keys : before(f, g) /\ before(g, h) => before(f, h)
<1> PICK a \in Int, b \in Int : a = sortKey[f] /\ b = sortKey[g]
  BY FindingTypes
<1> PICK r \in 1..4, s \in 1..4 : r = Rank[Findings[f].severity] /\ s = Rank[Findings[g].severity]
  BY FindingTypes
<1>1. f \in Nat /\ g \in Nat
  BY FindingTypes
<1>2. ~before(f, f)
  BY <1>1 DEF before
<1>3. f # g => before(f, g) \/ before(g, f)
  BY <1>1, FindingTypes DEF before
<1>4. ASSUME NEW h \in Keys, before(f, g), before(g, h) PROVE before(f, h)
  <2> PICK c \in Int : c = sortKey[h]
    BY FindingTypes
  <2> PICK t \in 1..4 : t = Rank[Findings[h].severity]
    BY FindingTypes
  <2>1. h \in Nat
    BY FindingTypes
  <2>2. a > b \/ (a = b /\ (r > s \/ (Findings[f].severity = Findings[g].severity /\ f < g)))
    BY <1>4 DEF before
  <2>3. b > c \/ (b = c /\ (s > t \/ (Findings[g].severity = Findings[h].severity /\ g < h)))
    BY <1>4 DEF before
  <2>4. a > c \/ (a = c /\ (r > t \/ (Findings[f].severity = Findings[h].severity /\ f < h)))
    BY <2>1, <2>2, <2>3, <1>1
  <2>5. QED  BY <2>4 DEF before
<1>5. QED  BY <1>2, <1>3, <1>4

\* A row has a place of its own among the rows.
LEMMA PlacesDiffer ==
  ASSUME NEW S \in SUBSET Keys, NEW f \in S
  PROVE  /\ IsFiniteSet(S) /\ Cardinality(S) \in Nat
         /\ place(f, S) \in 0..(Cardinality(S) - 1)
         /\ \A g \in S : before(f, g) => place(f, S) + 1 <= place(g, S)
<1> DEFINE Ahead(g) == {h \in S : before(h, g)}
<1>1. IsFiniteSet(S) /\ Cardinality(S) \in Nat
  BY FindingTypes, FS_Subset, FS_CardinalityType
<1>2. ASSUME NEW g \in S
      PROVE  IsFiniteSet(Ahead(g)) /\ Cardinality(Ahead(g)) \in Nat /\ place(g, S) = Cardinality(Ahead(g))
  <2>1. IsFiniteSet(Ahead(g))
    BY <1>1, FS_Subset
  <2>2. Cardinality(Ahead(g)) \in Nat
    BY <2>1, FS_CardinalityType
  <2>3. QED  BY <2>1, <2>2 DEF place
<1>3. ASSUME NEW A \in SUBSET S, NEW x \in S, x \notin A
      PROVE  Cardinality(A) \in Nat /\ Cardinality(A) + 1 <= Cardinality(S)
  <2>1. IsFiniteSet(A) /\ Cardinality(A) \in Nat /\ Cardinality(A) <= Cardinality(S)
        /\ (Cardinality(A) = Cardinality(S) => A = S)
    BY <1>1, FS_Subset, FS_CardinalityType
  <2>2. QED  BY <2>1, <1>1, <1>3
<1>4. place(f, S) \in 0..(Cardinality(S) - 1)
  <2>1. f \notin Ahead(f)
    BY BeforeOrders
  <2>2. Cardinality(Ahead(f)) \in Nat /\ Cardinality(Ahead(f)) + 1 <= Cardinality(S)
    BY <2>1, <1>3
  <2>3. QED  BY <2>2, <1>1, <1>2
<1>5. ASSUME NEW g \in S, before(f, g) PROVE place(f, S) + 1 <= place(g, S)
  <2>1. Ahead(f) \subseteq Ahead(g)
    BY <1>5, BeforeOrders
  <2>2. f \in Ahead(g) /\ f \notin Ahead(f)
    BY <1>5, BeforeOrders
  <2>3. IsFiniteSet(Ahead(g)) /\ Cardinality(Ahead(g)) \in Nat /\ Cardinality(Ahead(f)) \in Nat
    BY <1>2
  <2> HIDE DEF Ahead
  <2>4. Cardinality(Ahead(f)) <= Cardinality(Ahead(g))
        /\ (Cardinality(Ahead(f)) = Cardinality(Ahead(g)) => Ahead(f) = Ahead(g))
    BY <2>1, <2>3, FS_Subset
  <2>5. Cardinality(Ahead(f)) # Cardinality(Ahead(g))
    BY <2>2, <2>4
  <2>6. QED  BY <2>3, <2>4, <2>5, <1>2
<1>6. QED  BY <1>1, <1>4, <1>5

\* Every place among the rows is taken.
LEMMA PlacesAreTaken ==
  ASSUME NEW S \in SUBSET Keys, NEW n \in Nat, n + 1 <= Cardinality(S)
  PROVE  \E f \in S : place(f, S) = n
<1> DEFINE T  == 0..(Cardinality(S) - 1)
           at == [f \in S |-> place(f, S)]
<1>1. IsFiniteSet(S) /\ Cardinality(S) \in Nat
  BY FindingTypes, FS_Subset, FS_CardinalityType
<1>2. IsFiniteSet(T) /\ Cardinality(T) = Cardinality(S)
  <2>1. PICK k \in Int : k = Cardinality(S) - 1
    BY <1>1
  <2>2. 0 \in Int
    OBVIOUS
  <2>3. IsFiniteSet(0..k) /\ Cardinality(0..k) = IF 0 > k THEN 0 ELSE k - 0 + 1
    BY <2>2, FS_Interval
  <2>4. k + 1 = Cardinality(S) /\ 0 <= k + 1 /\ T = 0..k
    BY <1>1, <2>1
  <2>5. 0 > k => k + 1 = 0
    BY <2>4
  <2>6. Cardinality(0..k) = k + 1
    BY <2>3, <2>5
  <2>7. QED  BY <2>3, <2>4, <2>6
<1>3. at \in [S -> T]
  BY PlacesDiffer
<1>4. ASSUME NEW f \in S, NEW g \in S, f # g PROVE at[f] # at[g]
  <2>1. before(f, g) \/ before(g, f)
    BY <1>4, BeforeOrders
  <2>2. place(f, S) \in Int /\ place(g, S) \in Int
    BY PlacesDiffer
  <2>3. place(f, S) + 1 <= place(g, S) \/ place(g, S) + 1 <= place(f, S)
    BY <2>1, PlacesDiffer
  <2>4. QED  BY <2>2, <2>3
<1>5. n \in T
  BY <1>1
<1> HIDE DEF T, at
<1>6. at \in Injection(S, T)
  BY <1>3, <1>4 DEF Injection, IsInjective
<1>7. at \in Surjection(S, T)
  BY <1>2, <1>6, FS_Injection
<1>8. PICK f \in S : at[f] = n
  BY <1>5, <1>7 DEF Surjection
<1>9. QED  BY <1>8 DEF at

\* The page that is shown lies within the list, and it is the one asked for while that lies
\* within the list.
LEMMA PageLiesWithin ==
  ASSUME NEW n \in Nat, NEW p \in Nat, NEW count \in Int, NEW safe,
         1 <= n, count = (n + PageSize - 1) \div PageSize,
         safe = IF p < count THEN p ELSE count - 1
  PROVE  /\ safe \in Nat /\ safe * PageSize \in Nat /\ safe * PageSize + 1 <= n
         /\ \A k \in Nat : k + 1 <= n /\ p = k \div PageSize
                             => safe * PageSize <= k /\ k <= safe * PageSize + PageSize - 1
<1> PICK size \in Nat : size = PageSize /\ 1 <= size
  BY FindingTypes
<1> PICK m \in Nat : m = n + size - 1
  OBVIOUS
<1>1. count = m \div size
  OBVIOUS
<1>2. count \in Nat /\ count * size <= m /\ m + 1 <= count * size + size
  BY <1>1
<1>3. n <= count * size
  BY <1>2
<1>4. 1 <= count
  <2>1. count = 0 => count * size = 0
    OBVIOUS
  <2>2. QED  BY <1>2, <1>3, <2>1
<1>5. safe \in Nat /\ safe + 1 <= count
  BY <1>2, <1>4
<1>6. safe * size \in Nat
  BY <1>5
<1>7. safe * size + size <= count * size
  BY <1>5, <1>2
<1>8. safe * size + 1 <= n
  BY <1>2, <1>6, <1>7
<1>9. ASSUME NEW k \in Nat, k + 1 <= n, p = k \div size
      PROVE  safe * size <= k /\ k <= safe * size + size - 1
  <2>1. p * size <= k /\ k + 1 <= p * size + size /\ p * size \in Nat
    BY <1>9
  <2>2. p + 1 <= count
    <3>1. SUFFICES ASSUME count <= p PROVE FALSE
      BY <1>2
    <3>2. count * size <= p * size
      BY <3>1, <1>2
    <3>3. QED  BY <3>2, <2>1, <1>2, <1>3, <1>9
  <2>3. safe = p
    BY <2>2, <1>2
  <2>4. QED  BY <2>1, <2>3
<1>10. QED  BY <1>5, <1>6, <1>8, <1>9

\* A page of a list that has rows shows some, and the page of a row shows it.
LEMMA PagesShowRows ==
  ASSUME page \in Nat, rows # {}
  PROVE  /\ visibleRows # {}
         /\ \A f \in rows : page = place(f, rows) \div PageSize => f \in visibleRows
<1> DEFINE n == Cardinality(rows)
           start == safePage(n) * PageSize
<1>1. rows \in SUBSET Keys
  BY DEF rows, rowsOf
<1>2. n \in Nat /\ 1 <= n
  <2>1. IsFiniteSet(rows)
    BY <1>1, FindingTypes, FS_Subset
  <2>2. Cardinality(rows) \in Nat /\ (Cardinality(rows) = 0 <=> rows = {})
    BY <2>1, FS_CardinalityType, FS_EmptySet
  <2>3. QED  BY <2>2
<1>3. PageSize \in Nat /\ 1 <= PageSize
  BY FindingTypes
<1>4. /\ start \in Nat /\ start + 1 <= n
      /\ \A k \in Nat : k + 1 <= n /\ page = k \div PageSize
                          => start <= k /\ k <= start + PageSize - 1
  <2> DEFINE count == (n + PageSize - 1) \div PageSize
  <2> HIDE DEF n
  <2>1. count \in Int
    BY <1>2, <1>3
  <2>2. pageCount(n) = count
    BY <1>2 DEF pageCount
  <2>3. safePage(n) = IF page < count THEN page ELSE count - 1
    BY <2>2 DEF safePage
  <2> HIDE DEF count
  <2>4. QED  BY <2>1, <2>3, <1>2, PageLiesWithin DEF count
<1> HIDE DEF start, n
<1>5. visibleRows = {f \in rows : place(f, rows) \in start..(start + PageSize - 1)}
  BY DEF visibleRows, start, n
<1>6. PICK first \in rows : place(first, rows) = start
  BY <1>1, <1>4, PlacesAreTaken DEF n
<1>7. visibleRows # {}
  BY <1>3, <1>4, <1>5, <1>6
<1>8. ASSUME NEW f \in rows, page = place(f, rows) \div PageSize PROVE f \in visibleRows
  <2>1. PICK k \in Nat : k = place(f, rows) /\ k + 1 <= n
    BY <1>1, <1>2, PlacesDiffer DEF n
  <2>2. start <= k /\ k <= start + PageSize - 1
    BY <2>1, <1>4, <1>8
  <2>3. QED  BY <2>1, <2>2, <1>3, <1>4, <1>5
<1>9. QED  BY <1>7, <1>8

\* The overview ranks as the list does, and counts what the list shows.
LEMMA OverviewCounts == OverviewAgrees
<1> DEFINE opens  == rowsOf(NoFilters(includeTest))
           all    == rowsOf([NoFilters(includeTest) EXCEPT !.showDone = TRUE])
           scoped == {f \in Keys : inDefaultScope(f)}
           grave  == rowsOf([NoFilters(includeTest) EXCEPT !.severities =
                              Severities \cap {"critical", "high"}])
<1>1. \A f \in Keys : Findings[f].severity \in Severities
  BY DEF Severities
<1>2. openInScope = opens
  BY <1>1 DEF openInScope, inDefaultScope, rowsOf, matches, NoFilters
<1>3. scoped = all
  BY <1>1 DEF inDefaultScope, rowsOf, matches, NoFilters
<1>4. {f \in openInScope : Findings[f].severity \in {"critical", "high"}} = grave
  BY <1>1 DEF openInScope, inDefaultScope, rowsOf, matches, NoFilters
<1>5. ASSUME NEW f \in Keys, NEW g \in Keys PROVE byPriority(f, g) <=> before(f, g)
  <2>1. PICK r \in 1..4, s \in 1..4 : r = Rank[Findings[f].severity] /\ s = Rank[Findings[g].severity]
    BY FindingTypes
  <2>2. PICK a \in Int, b \in Int : a = sortKey[f] /\ b = sortKey[g]
    BY FindingTypes
  <2>3. Findings[f].priority \in Int /\ Findings[g].priority \in Int
    BY FindingTypes
  <2>4. priorityKey[f] = <<a, r>> /\ priorityKey[g] = <<b, s>>
    BY <2>1, <2>2, <2>3 DEF priorityKey, sortKey
  <2>5. byPriority(f, g) <=> a > b \/ (a = b /\ r > s) \/ (<<a, r>> = <<b, s>> /\ f < g)
    BY <2>4 DEF byPriority
  <2>6. r = s <=> Findings[f].severity = Findings[g].severity
    BY <2>1, FindingTypes
  <2>7. before(f, g) <=> a > b \/ (a = b /\ (r > s \/ (r = s /\ f < g)))
    BY <2>1, <2>2, <2>6 DEF before
  <2>8. QED  BY <2>5, <2>7
<1>6. topFindings = {f \in opens : place(f, opens) < TopCount}
  <2>1. \A f \in opens : {g \in opens : byPriority(g, f)} = {g \in opens : before(g, f)}
    BY <1>5 DEF rowsOf
  <2>2. \A f \in opens : place(f, opens) = Cardinality({g \in opens : byPriority(g, f)})
    BY <2>1 DEF place
  <2>3. topFindings = {f \in opens : Cardinality({g \in opens : byPriority(g, f)}) < TopCount}
    BY <1>2 DEF topFindings
  <2> HIDE DEF opens
  <2>4. QED  BY <2>2, <2>3
<1>7. Cardinality(all \ opens) = Cardinality(all) - Cardinality(opens)
  <2>1. opens \subseteq all /\ all \subseteq Keys
    BY <1>1, <1>2, <1>3 DEF openInScope, rowsOf
  <2> HIDE DEF opens, all
  <2>2. IsFiniteSet(all) /\ all \cap opens = opens
    BY <2>1, FindingTypes, FS_Subset
  <2>3. QED  BY <2>2, FS_Difference
<1>8. findingSummary = [total |-> Cardinality(all), open |-> Cardinality(opens),
                        done |-> Cardinality(all \ opens)]
  BY <1>2, <1>3, <1>7 DEF findingSummary
<1>9. criticalAndHigh = Cardinality(grave)
  BY <1>4 DEF criticalAndHigh
<1>10. QED  BY <1>6, <1>8, <1>9 DEF OverviewAgrees

(***************************************************************************)
(* The statuses: whatever is stored, read, given or on its way as "done"   *)
(* was marked done in its snapshot.                                        *)
(***************************************************************************)
Scans   == 1..Snapshots
Changes == [n : Nat, snapshot : Scans, f : Keys, key : Scans \X Keys, status : Statuses,
            previous : Statuses, state : {"out", "done", "failed"}]

TriageShape ==
  /\ latest \in Scans /\ writesMade \in Nat
  /\ storedStatus \in [Scans \X Keys -> Statuses]
  /\ readReport \in [snapshot : Scans, status : [Keys -> Statuses]]
  /\ overrides \in [Scans \X Keys -> Statuses \cup {"none"}]
  /\ writes \subseteq Changes
  /\ chosen \in Keys \cup {NoFinding} /\ page \in Nat

StoredIsMarked == \A s \in Scans, f \in Keys : storedStatus[<<s, f>>] = "done" => <<s, f>> \in doneIn
ReadIsMarked   == \A f \in Keys : readReport.status[f] = "done" => <<readReport.snapshot, f>> \in doneIn
GivenIsMarked  == \A s \in Scans, f \in Keys : overrides[<<s, f>>] = "done" => <<s, f>> \in doneIn
SentIsMarked   ==
  \A w \in writes : /\ w.key = <<w.snapshot, w.f>>
                    /\ w.status = "done" \/ w.previous = "done" => <<w.snapshot, w.f>> \in doneIn

TriageOK == TriageShape /\ StoredIsMarked /\ ReadIsMarked /\ GivenIsMarked /\ SentIsMarked

FindingsOK == TriageOK /\ LinkedFindingIsShown

LEMMA ShownIsMarked ==
  ASSUME TriageOK
  PROVE  /\ \A f \in Keys : shownStatus(f) \in Statuses
         /\ NeverCarriesOver
<1> USE DEF TriageOK, TriageShape
<1>1. readReport.snapshot \in Scans /\ readReport.status \in [Keys -> Statuses]
  OBVIOUS
<1>2. ASSUME NEW f \in Keys
      PROVE  shownStatus(f) \in Statuses
             /\ (shownStatus(f) = "done" => <<readReport.snapshot, f>> \in doneIn)
  <2>1. overrides[<<readReport.snapshot, f>>] \in Statuses \cup {"none"}
    BY <1>1
  <2>2. readReport.status[f] \in Statuses
    BY <1>1
  <2>3. overrides[<<readReport.snapshot, f>>] = "done" => <<readReport.snapshot, f>> \in doneIn
    BY <1>1 DEF GivenIsMarked
  <2>4. readReport.status[f] = "done" => <<readReport.snapshot, f>> \in doneIn
    BY DEF ReadIsMarked
  <2>5. QED  BY <2>1, <2>2, <2>3, <2>4 DEF shownStatus, overrideKey
<1>3. QED  BY <1>2 DEF NeverCarriesOver

LEMMA FindingsStart == FindingsInit => FindingsOK
<1> SUFFICES ASSUME FindingsInit PROVE FindingsOK
  OBVIOUS
<1> USE DEF FindingsInit
<1>1. 1 \in Scans
  BY FindingTypes DEF Scans
<1>2. TriageShape
  BY <1>1 DEF TriageShape, Scans, Statuses, Changes
<1>3. StoredIsMarked /\ ReadIsMarked /\ GivenIsMarked /\ SentIsMarked
  BY <1>1 DEF StoredIsMarked, ReadIsMarked, GivenIsMarked, SentIsMarked, Scans
<1>4. LinkedFindingIsShown
  BY DEF LinkedFindingIsShown
<1>5. QED  BY <1>2, <1>3, <1>4 DEF FindingsOK, TriageOK

\* A finding is given the other status, at once and before the API has it.
LEMMA GivenKeeps ==
  ASSUME TriageOK, NEW f \in Keys, changeFindingStatus(f)
  PROVE  TriageOK'
<1> DEFINE snapshot == readReport.snapshot
           turned   == IF shownStatus(f) = "done" THEN "open" ELSE "done"
           w        == [n |-> writesMade + 1, snapshot |-> snapshot, f |-> f,
                        key |-> <<snapshot, f>>, status |-> turned, previous |-> shownStatus(f),
                        state |-> "out"]
<1> USE DEF TriageOK, TriageShape
<1>1. snapshot \in Scans /\ readReport \in [snapshot : Scans, status : [Keys -> Statuses]]
  OBVIOUS
<1>2. shownStatus(f) \in Statuses /\ turned \in Statuses
      /\ (shownStatus(f) = "done" => <<snapshot, f>> \in doneIn)
  BY ShownIsMarked DEF NeverCarriesOver, Statuses
<1>3. /\ overrides' = [overrides EXCEPT ![<<snapshot, f>>] = turned]
      /\ writes' = writes \cup {w} /\ writesMade' = writesMade + 1
      /\ doneIn' = IF turned = "done" THEN doneIn \cup {<<snapshot, f>>} ELSE doneIn
      /\ UNCHANGED <<latest, storedStatus, readReport, page, chosen>>
  BY DEF changeFindingStatus, overrideKey, listVars
<1>4. w \in Changes
  BY <1>1, <1>2 DEF Changes
<1>5. doneIn \subseteq doneIn' /\ (turned = "done" => <<snapshot, f>> \in doneIn')
  BY <1>3
<1>6. /\ w.status \in Statuses
      /\ w.key = <<w.snapshot, w.f>>
      /\ (w.status = "done" \/ w.previous = "done" => <<w.snapshot, w.f>> \in doneIn')
  BY <1>2, <1>5
<1> HIDE DEF w, turned, snapshot
<1>7. TriageShape'
  BY <1>1, <1>2, <1>3, <1>4
<1>8. StoredIsMarked'
  BY <1>3, <1>5 DEF StoredIsMarked
<1>9. ReadIsMarked'
  BY <1>3, <1>5 DEF ReadIsMarked
<1>10. GivenIsMarked'
  <2>1. SUFFICES ASSUME NEW s \in Scans, NEW g \in Keys, overrides'[<<s, g>>] = "done"
                 PROVE  <<s, g>> \in doneIn'
    BY DEF GivenIsMarked
  <2>2. CASE <<s, g>> = <<snapshot, f>>
    BY <2>1, <2>2, <1>3, <1>5, <1>2 DEF Statuses
  <2>3. CASE <<s, g>> # <<snapshot, f>>
    <3>1. overrides'[<<s, g>>] = overrides[<<s, g>>]
      BY <2>3, <1>3
    <3>2. QED  BY <2>1, <3>1, <1>5 DEF GivenIsMarked
  <2>4. QED  BY <2>2, <2>3
<1>11. SentIsMarked'
  BY <1>3, <1>5, <1>6 DEF SentIsMarked
<1>12. QED  BY <1>7, <1>8, <1>9, <1>10, <1>11

\* The API writes a status, or does not; its answer takes a status back.
LEMMA ServedKeeps == TriageOK /\ ServeStatus => TriageOK'
<1> SUFFICES ASSUME TriageOK, ServeStatus PROVE TriageOK'
  OBVIOUS
<1> USE DEF TriageOK, TriageShape
<1>1. PICK w \in {x \in writes : x.state = "out"}, answer \in {"done", "failed"} :
        /\ \/ storedStatus' = [storedStatus EXCEPT ![<<w.snapshot, w.f>>] = w.status]
           \/ answer = "failed" /\ UNCHANGED storedStatus
        /\ writes' = (writes \ {w}) \cup {[w EXCEPT !.state = answer]}
  BY DEF ServeStatus
<1>2. UNCHANGED <<latest, readReport, overrides, writesMade, doneIn, page, chosen>>
  BY DEF ServeStatus, listVars
<1>3. w \in writes /\ w \in Changes
  OBVIOUS
<1>4. /\ w.snapshot \in Scans /\ w.f \in Keys /\ w.status \in Statuses
      /\ w.key = <<w.snapshot, w.f>>
      /\ (w.status = "done" \/ w.previous = "done" => <<w.snapshot, w.f>> \in doneIn)
  BY <1>3 DEF Changes, SentIsMarked
<1>5. /\ writes' = (writes \ {w}) \cup {[w EXCEPT !.state = answer]}
      /\ storedStatus' \in {storedStatus, [storedStatus EXCEPT ![<<w.snapshot, w.f>>] = w.status]}
  BY <1>1
<1> DEFINE v == [w EXCEPT !.state = answer]
<1>6. v \in Changes /\ v.snapshot = w.snapshot /\ v.f = w.f /\ v.key = w.key
      /\ v.status = w.status /\ v.previous = w.previous
  BY <1>3 DEF Changes
<1> HIDE DEF v
<1>7. writes' \subseteq writes \cup {v}
  BY <1>5 DEF v
<1>8. TriageShape'
  BY <1>2, <1>4, <1>5, <1>6, <1>7
<1>9. StoredIsMarked'
  <2>1. SUFFICES ASSUME NEW s \in Scans, NEW g \in Keys, storedStatus'[<<s, g>>] = "done"
                 PROVE  <<s, g>> \in doneIn
    BY <1>2 DEF StoredIsMarked
  <2>2. CASE <<s, g>> = <<w.snapshot, w.f>>
    BY <2>1, <2>2, <1>4, <1>5 DEF StoredIsMarked
  <2>3. CASE <<s, g>> # <<w.snapshot, w.f>>
    <3>1. storedStatus'[<<s, g>>] = storedStatus[<<s, g>>]
      BY <2>3, <1>5
    <3>2. QED  BY <2>1, <3>1 DEF StoredIsMarked
  <2>4. QED  BY <2>2, <2>3
<1>10. ReadIsMarked' /\ GivenIsMarked'
  BY <1>2 DEF ReadIsMarked, GivenIsMarked
<1>11. SentIsMarked'
  BY <1>2, <1>4, <1>6, <1>7 DEF SentIsMarked
<1>12. QED  BY <1>8, <1>9, <1>10, <1>11

LEMMA AnsweredKeeps == TriageOK /\ StatusAnswered => TriageOK'
<1> SUFFICES ASSUME TriageOK, StatusAnswered PROVE TriageOK'
  OBVIOUS
<1> USE DEF TriageOK, TriageShape
<1>1. PICK w \in writes :
        /\ writes' = writes \ {w}
        /\ overrides' = IF w.state = "failed" THEN [overrides EXCEPT ![w.key] = w.previous] ELSE overrides
  BY DEF StatusAnswered
<1>2. UNCHANGED <<latest, storedStatus, readReport, writesMade, doneIn, page, chosen>>
  BY DEF StatusAnswered, listVars
<1>3. /\ w.snapshot \in Scans /\ w.f \in Keys /\ w.previous \in Statuses
      /\ w.key = <<w.snapshot, w.f>>
      /\ (w.previous = "done" => <<w.snapshot, w.f>> \in doneIn)
  BY DEF Changes, SentIsMarked
<1>4. overrides' \in {overrides, [overrides EXCEPT ![<<w.snapshot, w.f>>] = w.previous]}
  BY <1>1, <1>3
<1>5. TriageShape'
  BY <1>1, <1>2, <1>3, <1>4
<1>6. GivenIsMarked'
  <2>1. SUFFICES ASSUME NEW s \in Scans, NEW g \in Keys, overrides'[<<s, g>>] = "done"
                 PROVE  <<s, g>> \in doneIn
    BY <1>2 DEF GivenIsMarked
  <2>2. CASE <<s, g>> = <<w.snapshot, w.f>>
    BY <2>1, <2>2, <1>3, <1>4 DEF GivenIsMarked
  <2>3. CASE <<s, g>> # <<w.snapshot, w.f>>
    <3>1. overrides'[<<s, g>>] = overrides[<<s, g>>]
      BY <2>3, <1>4
    <3>2. QED  BY <2>1, <3>1 DEF GivenIsMarked
  <2>4. QED  BY <2>2, <2>3
<1>7. StoredIsMarked' /\ ReadIsMarked' /\ SentIsMarked'
  BY <1>1, <1>2 DEF StoredIsMarked, ReadIsMarked, SentIsMarked
<1>8. QED  BY <1>5, <1>6, <1>7

\* Somebody else gives a finding a status or scans again; the report is read again.
LEMMA OthersKeep == TriageOK /\ OthersTriage => TriageOK'
<1> SUFFICES ASSUME TriageOK, OthersTriage PROVE TriageOK'
  OBVIOUS
<1> USE DEF TriageOK, TriageShape
<1>1. UNCHANGED <<readReport, overrides, writes, writesMade, page, chosen>>
  BY DEF OthersTriage, listVars
<1>2. ASSUME NEW f \in Keys, NEW given \in Statuses,
             storedStatus' = [storedStatus EXCEPT ![<<latest, f>>] = given],
             doneIn' = IF given = "done" THEN doneIn \cup {<<latest, f>>} ELSE doneIn,
             UNCHANGED latest
      PROVE  TriageOK'
  <2>1. doneIn \subseteq doneIn' /\ (given = "done" => <<latest, f>> \in doneIn')
    BY <1>2
  <2>2. TriageShape'
    BY <1>1, <1>2
  <2>3. StoredIsMarked'
    <3>1. SUFFICES ASSUME NEW s \in Scans, NEW g \in Keys, storedStatus'[<<s, g>>] = "done"
                   PROVE  <<s, g>> \in doneIn'
      BY DEF StoredIsMarked
    <3>2. CASE <<s, g>> = <<latest, f>>
      BY <3>1, <3>2, <1>2, <2>1
    <3>3. CASE <<s, g>> # <<latest, f>>
      <4>1. storedStatus'[<<s, g>>] = storedStatus[<<s, g>>]
        BY <3>3, <1>2
      <4>2. QED  BY <3>1, <4>1, <2>1 DEF StoredIsMarked
    <3>4. QED  BY <3>2, <3>3
  <2>4. ReadIsMarked'
    BY <1>1, <2>1 DEF ReadIsMarked
  <2>5. GivenIsMarked'
    BY <1>1, <2>1 DEF GivenIsMarked
  <2>6. SentIsMarked'
    BY <1>1, <2>1 DEF SentIsMarked
  <2>7. QED  BY <2>2, <2>3, <2>4, <2>5, <2>6
<1>3. ASSUME latest < Snapshots, latest' = latest + 1, UNCHANGED <<storedStatus, doneIn>>
      PROVE  TriageOK'
  <2>1. latest' \in Scans
    BY <1>3, FindingTypes DEF Scans
  <2>2. TriageShape'
    BY <1>1, <1>3, <2>1
  <2>3. StoredIsMarked' /\ ReadIsMarked' /\ GivenIsMarked' /\ SentIsMarked'
    BY <1>1, <1>3 DEF StoredIsMarked, ReadIsMarked, GivenIsMarked, SentIsMarked
  <2>4. QED  BY <2>2, <2>3
<1>4. QED  BY <1>2, <1>3 DEF OthersTriage

LEMMA ReadKeeps == TriageOK /\ ReadReport => TriageOK'
<1> SUFFICES ASSUME TriageOK, ReadReport PROVE TriageOK'
  OBVIOUS
<1> USE DEF TriageOK, TriageShape
<1>1. PICK s \in 1..latest :
        readReport' = [snapshot |-> s, status |-> [f \in Keys |-> storedStatus[<<s, f>>]]]
  BY DEF ReadReport
<1>2. UNCHANGED <<latest, storedStatus, overrides, writes, writesMade, doneIn, page, chosen>>
  BY DEF ReadReport, listVars
<1>3. s \in Scans
  BY FindingTypes DEF Scans
<1>4. [f \in Keys |-> storedStatus[<<s, f>>]] \in [Keys -> Statuses]
  BY <1>3
<1>5. TriageShape'
  BY <1>1, <1>2, <1>3, <1>4
<1>6. ReadIsMarked'
  <2>1. \A f \in Keys : storedStatus[<<s, f>>] = "done" => <<s, f>> \in doneIn
    BY <1>3 DEF StoredIsMarked
  <2>2. QED  BY <1>1, <1>2, <2>1 DEF ReadIsMarked
<1>7. StoredIsMarked' /\ GivenIsMarked' /\ SentIsMarked'
  BY <1>2 DEF StoredIsMarked, GivenIsMarked, SentIsMarked
<1>8. QED  BY <1>5, <1>6, <1>7

\* The list alone moves: the statuses stay as they are.
LEMMA ListKeeps ==
  ASSUME TriageOK, UNCHANGED triageVars, page' \in Nat, chosen' \in Keys \cup {NoFinding}
  PROVE  TriageOK'
<1> USE DEF TriageOK, TriageShape, triageVars
<1>1. TriageShape'
  OBVIOUS
<1>2. StoredIsMarked' /\ ReadIsMarked' /\ GivenIsMarked' /\ SentIsMarked'
  BY DEF StoredIsMarked, ReadIsMarked, GivenIsMarked, SentIsMarked
<1>3. QED  BY <1>1, <1>2

\* A list that opens for a finding opens on the page where it stands.
LEMMA LinkIsFollowed ==
  ASSUME TriageOK, OpenFindings
  PROVE  page' \in Nat /\ LinkedFindingIsShown'
<1> DEFINE at == rowsOf(NoFilters(includeTest))
<1>1. UNCHANGED triageVars /\ UNCHANGED includeTest
      /\ filters' = NoFilters(includeTest)
      /\ page' = IF chosen' = NoFinding THEN 0 ELSE linkedAt(chosen') \div PageSize
  BY DEF OpenFindings
<1>2. PageSize \in Nat /\ 1 <= PageSize
  BY FindingTypes
<1>3. at \in SUBSET Keys
  BY DEF rowsOf
<1>4. page' \in Nat
  <2>1. CASE chosen' = NoFinding
    BY <1>1, <2>1
  <2>2. CASE chosen' # NoFinding
    <3>1. PICK k \in Nat : k = linkedAt(chosen')
      <4>1. CASE chosen' \in at
        <5>1. place(chosen', at) \in Nat
          BY <1>3, <4>1, PlacesDiffer
        <5>2. linkedAt(chosen') = place(chosen', at)
          BY <4>1 DEF linkedAt
        <5>3. QED  BY <5>1, <5>2
      <4>2. CASE chosen' \notin at
        <5>1. linkedAt(chosen') = 0
          BY <4>2 DEF linkedAt
        <5>2. QED  BY <5>1
      <4>3. QED  BY <4>1, <4>2
    <3>2. k \div PageSize \in Nat
      BY <1>2
    <3>3. QED  BY <1>1, <2>2, <3>1, <3>2
  <2>3. QED  BY <2>1, <2>2
<1>5. filters'.tests = includeTest /\ filters'.source = "all" /\ filters'.severities = Severities
      /\ filters'.category = "all" /\ filters'.query = FALSE /\ filters'.showDone = FALSE
  BY <1>1 DEF NoFilters
<1>6. \A f \in Keys : shownStatus(f)' = shownStatus(f)
  BY <1>1 DEF shownStatus, overrideKey, triageVars
<1>7. rows' = at
  BY <1>5, <1>6 DEF rows, rowsOf, matches, NoFilters
<1>8. ASSUME chosen' # NoFinding, chosen' \in rows'
      PROVE  chosen' \in visibleRows'
  <2>1. linkedAt(chosen') = place(chosen', at)
    BY <1>7, <1>8 DEF linkedAt
  <2>2. page' = place(chosen', rows') \div PageSize
    BY <1>1, <1>7, <1>8, <2>1
  <2>3. (page \in Nat /\ rows # {}
          => \A f \in rows : page = place(f, rows) \div PageSize => f \in visibleRows)'
    BY PagesShowRows, PTL
  <2>4. QED  BY <1>4, <1>8, <2>2, <2>3
<1>9. QED  BY <1>4, <1>8 DEF LinkedFindingIsShown

LEMMA PagesExist == \A n \in Nat : pageCount(n) \in Nat /\ 1 <= pageCount(n)
<1> SUFFICES ASSUME NEW n \in Nat PROVE pageCount(n) \in Nat /\ 1 <= pageCount(n)
  OBVIOUS
<1>1. CASE n = 0
  BY <1>1 DEF pageCount
<1>2. CASE n # 0
  <2> PICK size \in Nat : size = PageSize /\ 1 <= size
    BY FindingTypes
  <2> PICK m \in Nat : m = n + size - 1 /\ size <= m
    BY <1>2
  <2>1. pageCount(n) = m \div size
    BY <1>2 DEF pageCount
  <2>2. m \div size \in Nat /\ m + 1 <= (m \div size) * size + size
    OBVIOUS
  <2>3. m \div size = 0 => (m \div size) * size = 0
    OBVIOUS
  <2>4. QED  BY <2>1, <2>2, <2>3
<1>3. QED  BY <1>1, <1>2

LEMMA FindingsMove == FindingsOK /\ [FindingsNext]_findingsVars => FindingsOK'
<1> SUFFICES ASSUME FindingsOK, [FindingsNext]_findingsVars PROVE FindingsOK'
  OBVIOUS
<1>1. TriageOK
  BY DEF FindingsOK
<1>2. ASSUME TriageOK', fresh' = FALSE PROVE FindingsOK'
  BY <1>2 DEF FindingsOK, LinkedFindingIsShown
<1>3. ASSUME UNCHANGED triageVars, page' \in Nat, chosen' \in Keys \cup {NoFinding}, fresh' = FALSE
      PROVE  FindingsOK'
  BY <1>1, <1>2, <1>3, ListKeeps
<1>4. page \in Nat /\ chosen \in Keys \cup {NoFinding}
  BY <1>1 DEF TriageOK, TriageShape
<1>5. \A n \in Nat : safePage(n) \in Int
  BY <1>4, FindingTypes DEF safePage, pageCount
<1>6. CASE ServeStatus
  BY <1>1, <1>2, <1>6, ServedKeeps DEF ServeStatus
<1>7. CASE StatusAnswered
  BY <1>1, <1>2, <1>7, AnsweredKeeps DEF StatusAnswered
<1>8. CASE OthersTriage
  BY <1>1, <1>2, <1>8, OthersKeep DEF OthersTriage
<1>9. CASE ReadReport
  BY <1>1, <1>2, <1>9, ReadKeeps DEF ReadReport
<1>10. ASSUME NEW f \in Keys, changeFindingStatus(f) PROVE FindingsOK'
  BY <1>1, <1>2, <1>10, GivenKeeps DEF changeFindingStatus
<1>11. CASE MarkChosen
  BY <1>4, <1>10, <1>11 DEF MarkChosen
<1>12. ASSUME NEW f \in Keys, MarkRow(f) \/ onSelect(f) PROVE FindingsOK'
  <2>1. CASE MarkRow(f)
    BY <1>10, <2>1 DEF MarkRow
  <2>2. CASE onSelect(f)
    BY <1>3, <1>4, <2>2 DEF onSelect, filterMove
  <2>3. QED  BY <1>12, <2>1, <2>2
<1>13. CASE OpenFindings
  <2>1. page' \in Nat /\ LinkedFindingIsShown'
    BY <1>1, <1>13, LinkIsFollowed
  <2>2. TriageOK'
    BY <1>1, <1>13, <2>1, ListKeeps DEF OpenFindings
  <2>3. QED  BY <2>1, <2>2 DEF FindingsOK
<1>14. CASE LeaveFindings
  BY <1>3, <1>4, <1>14 DEF LeaveFindings
<1>15. CASE closeDetail
  BY <1>3, <1>4, <1>15 DEF closeDetail, filterMove
<1>16. ASSUME NEW how, filtered(how) PROVE FindingsOK'
  BY <1>3, <1>4, <1>16 DEF filtered, filterMove, KeepList
<1>17. ASSUME NEW s \in Severities, toggleSeverity(s) PROVE FindingsOK'
  BY <1>16, <1>17 DEF toggleSeverity
<1>18. ASSUME NEW s, chooseSource(s) PROVE FindingsOK'
  BY <1>16, <1>18 DEF chooseSource
<1>19. ASSUME NEW c, chooseCategory(c) PROVE FindingsOK'
  BY <1>16, <1>19 DEF chooseCategory
<1>20. CASE search \/ toggleDone \/ toggleTests \/ clearFilters
  BY <1>16, <1>20 DEF search, toggleDone, toggleTests, clearFilters
<1>21. CASE showDoneFindings
  BY <1>3, <1>4, <1>21 DEF showDoneFindings, filterMove, KeepList
<1>22. CASE Previous \/ NextPage
  <2>1. PICK n \in Nat : n = Cardinality(rows)
    BY FindingTypes, FS_Subset, FS_CardinalityType DEF rows, rowsOf
  <2>2. PICK p \in Int : p = safePage(n)
    BY <1>5
  <2>3. p \in Nat
    <3>1. PICK q \in Int : q = pageCount(n) /\ 1 <= q
      BY <2>1, PagesExist
    <3>2. p = IF page < q THEN page ELSE q - 1
      BY <3>1, <2>2 DEF safePage
    <3>3. QED  BY <3>1, <3>2, <1>4
  <2>4. page' \in {p - 1, p + 1} /\ (page' = p - 1 => p > 0) /\ p \in Nat
    BY <1>22, <2>1, <2>2, <2>3 DEF Previous, NextPage
  <2>5. page' \in Nat
    BY <2>4
  <2>6. QED  BY <1>3, <1>4, <1>22, <2>5 DEF Previous, NextPage, filterMove, KeepList
<1>23. CASE IncludeTestChanges
  BY <1>3, <1>4, <1>23 DEF IncludeTestChanges
<1>24. CASE UNCHANGED findingsVars
  <2>1. TriageOK'
    BY <1>1, <1>4, <1>24, ListKeeps DEF findingsVars, listVars
  <2>2. LinkedFindingIsShown'
    BY <1>24 DEF FindingsOK, LinkedFindingIsShown, visibleRows, rows, rowsOf, matches, shownStatus,
                 overrideKey, safePage, findingsVars, triageVars, listVars
  <2>3. QED  BY <2>1, <2>2 DEF FindingsOK
<1>25. QED
  BY <1>6, <1>7, <1>8, <1>9, <1>11, <1>12, <1>13, <1>14, <1>15, <1>17, <1>18, <1>19, <1>20, <1>21,
     <1>22, <1>23, <1>24 DEF FindingsNext

LEMMA FindingsOKSuffices == FindingsOK => FindingsInv
<1> SUFFICES ASSUME FindingsOK PROVE FindingsInv
  OBVIOUS
<1>1. NeverCarriesOver
  BY ShownIsMarked DEF FindingsOK
<1>2. PageHasRows
  BY PagesShowRows DEF FindingsOK, TriageOK, TriageShape, PageHasRows
<1>3. QED  BY <1>1, <1>2, OverviewCounts DEF FindingsInv, FindingsOK

\* For any findings, snapshots and size of a page: a status shows only in the snapshot that it
\* was given in, a list that has rows shows some, a link opens the page of its finding, and the
\* overview ranks and counts what the list shows.
THEOREM FindingsAreRight == FindingsSpec => []FindingsInv
<1>1. FindingsSpec => []FindingsOK
  BY FindingsStart, FindingsMove, PTL DEF FindingsSpec
<1>2. QED  BY <1>1, FindingsOKSuffices, PTL

(***************************************************************************)
(* The newest and the oldest of some snapshots.                            *)
(***************************************************************************)
StrictOn(r, S) ==
  /\ \A x \in S : <<x, x>> \notin r
  /\ \A x, y, z \in S : <<x, y>> \in r /\ <<y, z>> \in r => <<x, z>> \in r

LEMMA SomeIsLast ==
  ASSUME NEW S, IsFiniteSet(S), S # {}, NEW r, StrictOn(r, S)
  PROVE  \E x \in S : \A y \in S : <<x, y>> \notin r
<1> DEFINE after(x) == {y \in S : <<x, y>> \in r}
           R == StrictSubsetOrdering(S)
           T == {after(x) : x \in S}
<1>1. IsWellFoundedOn(R, SUBSET S)
  BY FS_StrictSubsetOrderingWellFounded, FS_FiniteSubsetsOfFinite
<1>2. T \subseteq SUBSET S /\ T # {}
  OBVIOUS
<1> HIDE DEF R, T
<1>3. \E A \in T : \A B \in T : ~(<<B, A>> \in R)
  BY <1>1, <1>2, WFMin
<1>4. PICK x \in S : \A B \in T : ~(<<B, after(x)>> \in R)
  BY <1>3 DEF T
<1>5. ASSUME NEW y \in S, <<x, y>> \in r PROVE FALSE
  <2>1. after(y) \subseteq after(x) /\ y \in after(x) /\ y \notin after(y)
    BY <1>5 DEF StrictOn
  <2>2. after(y) \in T /\ after(x) \in SUBSET S /\ after(y) \in SUBSET S
    BY DEF T
  <2> HIDE DEF after
  <2>3. <<after(y), after(x)>> \in R
    BY <2>1, <2>2 DEF R, StrictSubsetOrdering
  <2>4. QED  BY <1>4, <2>2, <2>3
<1>6. QED  BY <1>5

LEMMA SomeAreFirstAndLast ==
  ASSUME NEW S \in SUBSET Int, IsFiniteSet(S), S # {}
  PROVE  /\ \E x \in S : \A y \in S : x >= y
         /\ \E x \in S : \A y \in S : x <= y
<1> DEFINE up   == {p \in S \X S : p[1] < p[2]}
           down == {p \in S \X S : p[2] < p[1]}
<1>1. \E x \in S : \A y \in S : <<x, y>> \notin up
  <2>1. \A x \in S : <<x, x>> \notin up
    OBVIOUS
  <2>2. \A x, y, z \in S : <<x, y>> \in up /\ <<y, z>> \in up => <<x, z>> \in up
    OBVIOUS
  <2> HIDE DEF up
  <2>3. QED  BY <2>1, <2>2, SomeIsLast DEF StrictOn
<1>2. \E x \in S : \A y \in S : <<x, y>> \notin down
  <2>1. \A x \in S : <<x, x>> \notin down
    OBVIOUS
  <2>2. \A x, y, z \in S : <<x, y>> \in down /\ <<y, z>> \in down => <<x, z>> \in down
    OBVIOUS
  <2> HIDE DEF down
  <2>3. QED  BY <2>1, <2>2, SomeIsLast DEF StrictOn
<1>3. \A x, y \in S : <<x, y>> \notin up => x >= y
  OBVIOUS
<1>4. \A x, y \in S : <<x, y>> \notin down => x <= y
  OBVIOUS
<1>5. QED  BY <1>1, <1>2, <1>3, <1>4

LEMMA NewestIsLast ==
  ASSUME NEW S \in SUBSET Numbers
  PROVE  /\ IsFiniteSet(S) /\ Newest(S) \in Nat
         /\ S # {} => Newest(S) \in S /\ Max(S) \in S /\ Min(S) \in S
         /\ \A x \in S : x <= Newest(S)
         /\ S = {} => Newest(S) = 0
<1>1. S \in SUBSET Int /\ Numbers \subseteq Nat
  BY DashboardAssumption DEF DashboardAssumption, Numbers
<1>2. IsFiniteSet(S)
  <2>1. 1 \in Int /\ MaxSnapshots \in Int
    BY DashboardAssumption DEF DashboardAssumption
  <2>2. IsFiniteSet(Numbers)
    BY <2>1, FS_Interval DEF Numbers
  <2>3. QED  BY <2>2, FS_Subset
<1>3. CASE S = {}
  BY <1>2, <1>3 DEF Newest
<1>4. CASE S # {}
  <2>1. \E x \in S : \A y \in S : x >= y
    BY <1>1, <1>2, <1>4, SomeAreFirstAndLast
  <2>2. Max(S) \in S /\ \A y \in S : Max(S) >= y
    BY <2>1 DEF Max
  <2>3. \E x \in S : \A y \in S : x <= y
    BY <1>1, <1>2, <1>4, SomeAreFirstAndLast
  <2>4. Min(S) \in S
    BY <2>3 DEF Min
  <2>5. Newest(S) = Max(S)
    BY <1>4 DEF Newest
  <2>6. \A y \in S : y <= Max(S)
    BY <1>1, <2>2
  <2>7. QED  BY <1>1, <1>2, <1>4, <2>2, <2>4, <2>5, <2>6
<1>5. QED  BY <1>3, <1>4

(***************************************************************************)
(* The dashboard.                                                          *)
(***************************************************************************)
DashboardShape ==
  /\ connectedRepo \in BOOLEAN /\ branchOf \in [Numbers -> ProjectBranches \cup {NoBranch}]
  /\ scored \subseteq Numbers /\ kept \subseteq Numbers
  /\ scanOf \in [ProjectBranches -> {"none", "on", "over", "done"}]
  /\ jobOf \in [ProjectBranches -> {"none", "scanning", "scoring", "ready"}]
  /\ pinned \in [ProjectBranches -> Nat] /\ latestKept \in [ProjectBranches -> Nat]
  /\ shownPage \in {"elsewhere", "dashboard"} /\ reposRead \in {"unread", "here", "gone"}
  /\ branchesRead \in {"unread", "read", "failed"}
  /\ rememberedBranch \in ProjectBranches \cup {NoBranch}
  /\ {address, askedFor, waitingFor.key, result.key} \subseteq ReportKeys
  /\ waitingFor \in [key : ReportKeys, shared : BOOLEAN]
  /\ result \in [key : ReportKeys, is : Reads, snapshot : Nat]

\* A snapshot is of a branch; what is kept, named and read of a branch is of that branch.
ScoredAreMade == \A s \in scored : branchOf[s] # NoBranch
KeptFits == \A b \in ProjectBranches : {pinned[b], latestKept[b]} \subseteq {0} \cup Snapshotted(b)
Names(key) == key.snapshot \in Numbers => key.branch \in ProjectBranches /\ branchOf[key.snapshot] = key.branch
NamesFit == Names(address) /\ Names(askedFor) /\ Names(waitingFor.key) /\ Names(result.key)
ResultFits ==
  /\ result.is = "report" => /\ result.key.branch \in ProjectBranches
                             /\ result.snapshot \in Snapshotted(result.key.branch)
                             /\ result.key.snapshot \in {0, result.snapshot}
  /\ result.is # "report" => result.snapshot = 0
  /\ result.is = "missing" => result.key.snapshot \notin Numbers
  /\ result.is = "nothing" => result = Unasked

\* A read is out for what the page asked, or it was answered.
ReadsFit ==
  /\ waitingFor = NotWaiting \/ waitingFor.key = askedFor
  /\ waitingFor = NotWaiting /\ askedFor # Unasked.key => result.key = askedFor

ShownWereMade == \A b \in everShown : b \in ProjectBranches /\ Snapshotted(b) # {}

\* A branch was not scanned when the page last read it: then it was not shown, or its results
\* are kept, or the page is about to ask for others.
MissedAt(b) == result.is = "missing" /\ result.key = AtBranch(b, 0)
MissedOver(B) ==
  \A b \in B : MissedAt(b) /\ waitingFor = NotWaiting /\ askedFor = AtBranch(b, 0)
                  => latestKept[b] # 0 \/ AskDue
ScoringIsRead == \A b \in ProjectBranches : jobOf[b] = "scoring" /\ latestKept[b] # 0 => ~MissedAt(b)

DashboardCore == /\ DashboardShape /\ ScoredAreMade /\ KeptFits /\ NamesFit /\ ResultFits /\ ReadsFit
                 /\ ScoringIsRead
DashboardOK   == DashboardCore /\ ShownWereMade /\ MissedOver(everShown)

LEMMA BranchNames ==
  /\ NoBranch \notin ProjectBranches /\ GoneBranch \notin ProjectBranches
  /\ DefaultBranch \in ProjectBranches /\ MaxSnapshots \in Nat
  /\ \A b : AtBranch(b, 0) = Unasked.key => b = NoBranch
BY DashboardAssumption DEF DashboardAssumption, AtBranch, Unasked

\* The branch on the page is the one of the address, if the project has it.
LEMMA BranchIsNamed ==
  ASSUME DashboardShape
  PROVE  /\ activeBranch \in ProjectBranches \cup {NoBranch, GoneBranch}
         /\ branchesRead = "read" => activeBranch \in ProjectBranches
         /\ address.branch \in ProjectBranches => activeBranch = address.branch
         /\ activeBranch = NoBranch => reposRead # "here"
<1>1. address.branch \in ProjectBranches \cup {NoBranch, GoneBranch}
  BY DEF DashboardShape, ReportKeys
<1>2. rememberedBranch \in ProjectBranches \cup {NoBranch}
  BY DEF DashboardShape
<1>3. likelyBranch \in ProjectBranches \cup {NoBranch} /\ (likelyBranch = NoBranch => reposRead # "here")
  BY <1>2, BranchNames DEF likelyBranch
<1>4. QED  BY <1>1, <1>2, <1>3, BranchNames DEF activeBranch, urlBranchAvailable

LEMMA KeyIsNamed ==
  ASSUME DashboardShape, KeptFits, NamesFit
  PROVE  /\ healthKey \in ReportKeys /\ healthKey = AtBranch(activeBranch, readSnapshotId)
         /\ healthKey.branch = activeBranch /\ healthKey.snapshot = readSnapshotId
         /\ Names(healthKey)
         /\ readSnapshotId = IF address.snapshot # 0 THEN address.snapshot ELSE pinnedSnapshotId
         /\ pinnedSnapshotId # 0 => activeBranch \in ProjectBranches
                                    /\ trackedJob = jobOf[activeBranch]
                                    /\ pinnedSnapshotId = pinned[activeBranch]
                                    /\ pinnedSnapshotId \in Snapshotted(activeBranch)
<1>1. address.snapshot \in Nat
  BY DEF DashboardShape, ReportKeys
<1>2. pinnedSnapshotId # 0 => activeBranch \in ProjectBranches /\ pinnedSnapshotId = pinned[activeBranch]
                              /\ trackedJob = jobOf[activeBranch]
  BY DEF pinnedSnapshotId, trackedJob
<1>3. pinnedSnapshotId # 0 => pinnedSnapshotId \in Snapshotted(activeBranch)
  BY <1>2 DEF KeptFits
<1>4. Numbers \subseteq Nat
  BY BranchNames DEF Numbers
<1>5. readSnapshotId \in Nat
  BY <1>1, <1>3, <1>4 DEF readSnapshotId, Snapshotted
<1>6. Names(healthKey)
  <2>1. CASE address.snapshot # 0
    BY <2>1, BranchIsNamed DEF NamesFit, Names, healthKey, readSnapshotId, AtBranch
  <2>2. CASE address.snapshot = 0
    <3>1. readSnapshotId = pinnedSnapshotId
      BY <2>2 DEF readSnapshotId
    <3>2. 0 \notin Numbers
      BY BranchNames DEF Numbers
    <3>3. QED  BY <1>2, <1>3, <3>1, <3>2 DEF Names, healthKey, AtBranch, Snapshotted
  <2>3. QED  BY <2>1, <2>2
<1>7. QED
  BY <1>2, <1>3, <1>5, <1>6, BranchIsNamed DEF healthKey, AtBranch, ReportKeys, readSnapshotId

\* What is shown of the key of the page, and the body that shows it.
LEMMA ShownIs ==
  ASSUME healthKey \in ReportKeys
  PROVE  shown = IF ~readsEnabled THEN [is |-> "loading", snapshot |-> 0]
                 ELSE IF cachedReport(healthKey) # 0
                      THEN [is |-> "report", snapshot |-> cachedReport(healthKey)]
                 ELSE IF result.key = healthKey THEN [is |-> result.is, snapshot |-> result.snapshot]
                 ELSE [is |-> "loading", snapshot |-> 0]
BY DEF shown, readOf

LEMMA BodyIs ==
  ASSUME DashboardShape, healthKey \in ReportKeys
  PROVE  /\ shown.is \in Reads \cup {"loading"}
         /\ body = IF reposRead = "gone" THEN "project gone"
                   ELSE IF jobActive /\ shown.is \notin {"loading", "report"} THEN "scan card"
                   ELSE IF shown.is = "pending" THEN "calculating"
                   ELSE IF reposRead = "unread" \/ shown.is = "loading" \/ guessUnconfirmed(shown.is)
                        THEN "skeleton"
                   ELSE IF shown.is = "missing" THEN "first scan"
                   ELSE IF shown.is = "error" THEN "error"
                   ELSE "results"
<1>1. result.is \in Reads /\ "report" \in Reads
  BY DEF DashboardShape, Reads
<1>2. shown.is \in Reads \cup {"loading"}
  BY <1>1, ShownIs
<1>3. QED  BY <1>2 DEF body, bodyFor

\* A report that is shown is of the branch on the page.
LEMMA ShownFits ==
  ASSUME DashboardShape, KeptFits, NamesFit, ResultFits
  PROVE  /\ report \in Nat /\ (shown.is # "report" => report = 0)
         /\ shown.is = "report" => /\ readsEnabled /\ activeBranch \in ProjectBranches
                                   /\ report \in Snapshotted(activeBranch) /\ report # 0
                                   /\ readSnapshotId # 0 => report = readSnapshotId
         /\ body = "results" => shown.is = "report"
<1> DEFINE cached == cachedReport(healthKey)
<1>1. /\ healthKey \in ReportKeys /\ Names(healthKey)
      /\ healthKey.branch = activeBranch /\ healthKey.snapshot = readSnapshotId
  BY KeyIsNamed
<1>2. 0 \notin Numbers /\ Numbers \subseteq Nat
  BY BranchNames DEF Numbers
<1>3. cached # 0 => /\ activeBranch \in ProjectBranches /\ cached \in Snapshotted(activeBranch)
                    /\ readSnapshotId # 0 => cached = readSnapshotId
  <2>1. cached # 0 => activeBranch \in ProjectBranches
    BY <1>1 DEF cachedReport
  <2>2. cached # 0 /\ readSnapshotId = 0 => cached = latestKept[activeBranch]
    BY <1>1 DEF cachedReport
  <2>3. cached # 0 /\ readSnapshotId # 0
          => cached = readSnapshotId /\ cached \in kept /\ branchOf[cached] = activeBranch
    BY <1>1 DEF cachedReport
  <2> HIDE DEF cached
  <2>4. cached # 0 /\ readSnapshotId = 0 => cached \in Snapshotted(activeBranch)
    BY <2>1, <2>2 DEF KeptFits
  <2>5. cached # 0 /\ readSnapshotId # 0 => cached \in Snapshotted(activeBranch)
    BY <2>3 DEF DashboardShape, Snapshotted
  <2>6. QED  BY <2>1, <2>3, <2>4, <2>5
<1>4. result.is = "report" /\ result.key = healthKey
        => /\ activeBranch \in ProjectBranches /\ result.snapshot \in Snapshotted(activeBranch)
           /\ readSnapshotId # 0 => result.snapshot = readSnapshotId
  BY <1>1 DEF ResultFits
<1>5. shown = IF ~readsEnabled THEN [is |-> "loading", snapshot |-> 0]
              ELSE IF cached # 0 THEN [is |-> "report", snapshot |-> cached]
              ELSE IF result.key = healthKey THEN [is |-> result.is, snapshot |-> result.snapshot]
              ELSE [is |-> "loading", snapshot |-> 0]
  BY <1>1, ShownIs
<1>6. result.is \in Reads /\ (result.is # "report" => result.snapshot = 0)
  BY DEF ResultFits, DashboardShape
<1> HIDE DEF cached
<1>7. shown.is = "report" => /\ readsEnabled /\ activeBranch \in ProjectBranches
                             /\ report \in Snapshotted(activeBranch)
                             /\ readSnapshotId # 0 => report = readSnapshotId
  BY <1>3, <1>4, <1>5 DEF report
<1>8. shown.is # "report" => report = 0
  BY <1>5, <1>6 DEF report
<1>9. shown.is = "report" => report \in Nat /\ report # 0
  BY <1>2, <1>7 DEF Snapshotted
<1>10. ASSUME body = "results" PROVE shown.is = "report"
  <2>1. shown.is \notin {"loading", "pending", "missing", "error"} /\ reposRead \notin {"gone", "unread"}
    BY <1>1, <1>10, BodyIs DEF guessUnconfirmed
  <2>2. shown.is = "nothing" => result = Unasked /\ result.key = healthKey
    BY <1>5, <1>6 DEF ResultFits
  <2>3. shown.is = "nothing" => activeBranch = NoBranch
    BY <2>2, KeyIsNamed, BranchNames DEF Unasked, AtBranch
  <2>4. shown.is # "nothing"
    BY <2>1, <2>3, BranchIsNamed DEF DashboardShape
  <2>5. shown.is \in Reads \cup {"loading"}
    BY <1>1, BodyIs
  <2>6. QED  BY <2>1, <2>4, <2>5 DEF Reads
<1>11. QED  BY <1>7, <1>8, <1>9, <1>10

\* Results on the page are of a branch that was scanned.
LEMMA ResultsAreMade ==
  ASSUME DashboardCore, body = "results"
  PROVE  /\ activeBranch \in ProjectBranches /\ Snapshotted(activeBranch) # {}
         /\ MissedOver({activeBranch})
<1>1. /\ DashboardShape /\ KeptFits /\ NamesFit /\ ResultFits
  BY DEF DashboardCore
<1>2. shown.is = "report" /\ readsEnabled /\ activeBranch \in ProjectBranches
      /\ report \in Snapshotted(activeBranch)
  BY <1>1, ShownFits
<1>3. ASSUME MissedAt(activeBranch), askedFor = AtBranch(activeBranch, 0), latestKept[activeBranch] = 0
      PROVE  AskDue
  <2>1. SUFFICES ASSUME askedFor = healthKey PROVE FALSE
    BY <1>2 DEF AskDue
  <2>2. cachedReport(healthKey) = 0
    BY <1>2, <1>3, <2>1 DEF cachedReport, AtBranch
  <2>3. result.key = healthKey /\ result.is = "missing"
    BY <1>3, <2>1 DEF MissedAt
  <2>4. QED  BY <1>1, <1>2, <2>2, <2>3, KeyIsNamed, ShownIs
<1>4. QED  BY <1>2, <1>3 DEF MissedOver

\* What a step puts on the page is noted.
LEMMA NoteKeeps ==
  ASSUME ShownWereMade, DashboardCore', NoteShown, NEW B, B = everShown, MissedOver(B)',
         \A b \in ProjectBranches : Snapshotted(b) # {} => Snapshotted(b)' # {}
  PROVE  DashboardOK'
<1>1. (DashboardCore /\ body = "results"
         => activeBranch \in ProjectBranches /\ Snapshotted(activeBranch) # {} /\ MissedOver({activeBranch}))'
  BY ResultsAreMade, PTL
<1>2. \A b \in B : b \in ProjectBranches /\ Snapshotted(b)' # {}
  BY DEF ShownWereMade
<1>3. CASE body' = "results"
  <2>1. everShown' = B \cup {activeBranch'}
    BY <1>3 DEF NoteShown
  <2>2. ShownWereMade'
    BY <1>1, <1>2, <1>3, <2>1 DEF ShownWereMade
  <2>3. MissedOver(everShown)'
    BY <1>1, <1>3, <2>1 DEF MissedOver
  <2>4. QED  BY <2>2, <2>3 DEF DashboardOK
<1>4. CASE body' # "results"
  <2>1. everShown' = B
    BY <1>4 DEF NoteShown
  <2>2. ShownWereMade'
    BY <1>2, <2>1 DEF ShownWereMade
  <2>3. MissedOver(everShown)'
    BY <2>1 DEF MissedOver
  <2>4. QED  BY <2>2, <2>3 DEF DashboardOK
<1>5. QED  BY <1>3, <1>4

\* A step of the page alone: what is stored and what was read stay as they are.
LEMMA PageKeeps ==
  ASSUME DashboardCore, UNCHANGED <<branchOf, latestKept, readVars>>,
         DashboardShape', ScoredAreMade', KeptFits', Names(address)',
         \A b \in ProjectBranches : jobOf'[b] = "scoring" => jobOf[b] = "scoring"
  PROVE  DashboardCore' /\ \A b : Snapshotted(b)' = Snapshotted(b)
<1> USE DEF DashboardCore, readVars
<1>1. \A b : Snapshotted(b)' = Snapshotted(b)
  BY DEF Snapshotted
<1>3. NamesFit'
  BY DEF NamesFit, Names
<1>4. ResultFits'
  BY <1>1 DEF ResultFits
<1>5. ReadsFit'
  BY DEF ReadsFit
<1>6. ScoringIsRead'
  BY DEF ScoringIsRead, MissedAt
<1>7. QED  BY <1>1, <1>3, <1>4, <1>5, <1>6

LEMMA SettledKeeps ==
  ASSUME NEW B, MissedOver(B), Settled, UNCHANGED readVars,
         \A b \in B : latestKept[b] # 0 => latestKept'[b] # 0
  PROVE  MissedOver(B)'
BY DEF MissedOver, MissedAt, Settled, readVars

LEMMA DashboardStarts == DashboardInit => DashboardOK
<1> SUFFICES ASSUME DashboardInit PROVE DashboardOK
  OBVIOUS
<1> USE DEF DashboardInit
<1>1. branchOf \in [Numbers -> ProjectBranches \cup {NoBranch}]
  <2>1. PICK had \in SUBSET ScannedBranches :
          \E order \in [ProjectBranches -> 1..Cardinality(ProjectBranches)] :
            branchOf = [s \in Numbers |->
                          IF \E b \in had : Cardinality({c \in had : order[c] <= order[b]}) = s
                          THEN CHOOSE b \in had : Cardinality({c \in had : order[c] <= order[b]}) = s
                          ELSE NoBranch]
    BY Zenon
  <2> HIDE DEF DashboardInit
  <2>2. had \subseteq ProjectBranches
    BY DashboardAssumption DEF DashboardAssumption
  <2>3. QED  BY <2>1, <2>2
<1>2. AtBranch(NoBranch, 0) \in ReportKeys
  BY DEF AtBranch, ReportKeys
<1>3. DashboardShape
  <2>1. connectedRepo \in BOOLEAN /\ scored \subseteq Numbers /\ kept \subseteq Numbers
        /\ scanOf \in [ProjectBranches -> {"none", "on"}]
    OBVIOUS
  <2>2. /\ jobOf = [b \in ProjectBranches |-> "none"] /\ pinned = [b \in ProjectBranches |-> 0]
        /\ latestKept = [b \in ProjectBranches |-> 0]
        /\ shownPage = "elsewhere" /\ address = AtBranch(NoBranch, 0)
        /\ reposRead = "unread" /\ branchesRead = "unread" /\ rememberedBranch = NoBranch
        /\ askedFor = Unasked.key /\ waitingFor = NotWaiting /\ result = Unasked
    OBVIOUS
  <2>3. Unasked.key = AtBranch(NoBranch, 0) /\ NotWaiting \in [key : ReportKeys, shared : BOOLEAN]
        /\ NotWaiting.key = AtBranch(NoBranch, 0)
        /\ Unasked \in [key : ReportKeys, is : Reads, snapshot : Nat]
    BY <1>2 DEF Unasked, NotWaiting, Reads
  <2>4. scanOf \in [ProjectBranches -> {"none", "on", "over", "done"}]
    BY <2>1
  <2> HIDE DEF DashboardInit
  <2>5. QED  BY <1>1, <1>2, <2>1, <2>2, <2>3, <2>4 DEF DashboardShape
<1>4. ScoredAreMade /\ KeptFits
  BY DEF ScoredAreMade, KeptFits
<1>5. 0 \notin Numbers
  BY BranchNames DEF Numbers
<1>6. NamesFit
  BY <1>5 DEF NamesFit, Names, Unasked, NotWaiting, AtBranch
<1>7. ResultFits /\ ReadsFit /\ ScoringIsRead /\ MissedOver(everShown) /\ ShownWereMade
  BY <1>5 DEF ResultFits, ReadsFit, ScoringIsRead, MissedOver, MissedAt, ShownWereMade, Unasked, NotWaiting
<1>8. QED  BY <1>3, <1>4, <1>6, <1>7 DEF DashboardOK, DashboardCore

LEMMA PageStepKeeps ==
  ASSUME DashboardOK, Settled, NoteShown, UNCHANGED <<branchOf, latestKept, readVars>>,
         DashboardShape', ScoredAreMade', KeptFits', Names(address)',
         \A b \in ProjectBranches : jobOf'[b] = "scoring" => jobOf[b] = "scoring"
  PROVE  DashboardOK'
<1> PICK B : B = everShown
  OBVIOUS
<1>1. DashboardCore' /\ \A b : Snapshotted(b)' = Snapshotted(b)
  BY PageKeeps DEF DashboardOK
<1>2. MissedOver(B)'
  BY SettledKeeps DEF DashboardOK
<1>3. QED  BY <1>1, <1>2, NoteKeeps DEF DashboardOK

\* The page alone moves on: nothing that is stored, followed or read changes.
LEMMA MovedKeeps ==
  ASSUME DashboardOK, Settled, NoteShown, UNCHANGED <<apiVars, jobVars, latestKept, kept, readVars>>,
         address' \in ReportKeys, Names(address)',
         rememberedBranch' \in ProjectBranches \cup {NoBranch},
         shownPage' \in {"elsewhere", "dashboard"}, reposRead' \in {"unread", "here", "gone"},
         branchesRead' \in {"unread", "read", "failed"}
  PROVE  DashboardOK'
<1> USE DEF DashboardOK, DashboardCore, apiVars, jobVars, readVars
<1>1. DashboardShape'
  BY DEF DashboardShape
<1>2. ScoredAreMade' /\ KeptFits'
  BY DEF ScoredAreMade, KeptFits, Snapshotted
<1>3. QED  BY <1>1, <1>2, PageStepKeeps

\* The places that the reader goes to: a snapshot is named with its branch.
LEMMA NoSnapshotNamed ==
  /\ 0 \notin Numbers /\ (MaxSnapshots + 1) \notin Numbers /\ Numbers \subseteq Nat
  /\ \A b, s : AtBranch(b, s).branch = b /\ AtBranch(b, s).snapshot = s
  /\ \A b \in ProjectBranches \cup {NoBranch, GoneBranch}, s \in Nat : AtBranch(b, s) \in ReportKeys
BY BranchNames DEF Numbers, AtBranch, ReportKeys

LEMMA OpensKeep ==
  ASSUME DashboardOK, Settled, NoteShown, OpenLink \/ ScanRow \/ OpenLatestScan
  PROVE  DashboardOK'
<1>1. DashboardShape
  BY DEF DashboardOK, DashboardCore
<1>2. ASSUME NEW link \in ReportKeys, opensAt(link), Names(link) PROVE DashboardOK'
  <2>1. UNCHANGED <<apiVars, jobVars, latestKept, kept, reposRead, rememberedBranch, readVars>>
        /\ address' = link /\ shownPage' = "dashboard"
        /\ branchesRead' \in {"unread", "read", "failed"}
    BY <1>1, <1>2 DEF opensAt, DashboardShape
  <2>2. Names(address)'
    BY <1>2, <2>1 DEF Names, apiVars
  <2>3. QED  BY <1>1, <2>1, <2>2, MovedKeeps DEF DashboardShape
<1>3. CASE OpenLink
  <2>1. PICK link \in Links : opensAt(link)
    BY <1>3 DEF OpenLink
  <2>2. link \in ReportKeys /\ link.snapshot \notin Numbers
    BY NoSnapshotNamed, BranchNames DEF Links
  <2>3. QED  BY <1>2, <2>1, <2>2 DEF Names
<1>5. \A filter : historyPageRows(filter) \subseteq Numbers
                  /\ \A s \in historyPageRows(filter) : branchOf[s] # NoBranch
  BY DEF historyPageRows
<1>6. CASE ScanRow
  <2>1. PICK s \in Numbers : branchOf[s] # NoBranch /\ opensAt(AtBranch(branchOf[s], s))
    BY <1>5, <1>6 DEF ScanRow
  <2>2. AtBranch(branchOf[s], s) \in ReportKeys /\ Names(AtBranch(branchOf[s], s))
    BY <1>1, <2>1, NoSnapshotNamed DEF Names, DashboardShape
  <2>3. QED  BY <1>2, <2>1, <2>2
<1>7. CASE OpenLatestScan
  <2>1. PICK filter : historyPageRows(filter) # {}
                      /\ opensAt(AtBranch(branchOf[Newest(historyPageRows(filter))], 0))
    BY <1>7 DEF OpenLatestScan
  <2>2. PICK s \in historyPageRows(filter) : s = Newest(historyPageRows(filter))
    BY <1>5, <2>1, NewestIsLast
  <2>3. s \in Numbers /\ branchOf[s] # NoBranch
    BY <1>5, <2>2
  <2>4. branchOf[s] \in ProjectBranches
    BY <1>1, <2>3 DEF DashboardShape
  <2>5. AtBranch(branchOf[s], 0) \in ReportKeys /\ Names(AtBranch(branchOf[s], 0))
    BY <2>4, NoSnapshotNamed DEF Names
  <2>6. QED  BY <1>2, <2>1, <2>2, <2>5
<1>8. QED  BY <1>3, <1>6, <1>7

LEMMA GoesKeep ==
  ASSUME DashboardOK, Settled, NoteShown,
         onOlder \/ onNewer \/ onLatest \/ \E b \in ProjectBranches : changeBranch(b)
  PROVE  DashboardOK'
<1>1. DashboardShape
  BY DEF DashboardOK, DashboardCore
<1>2. ASSUME NEW s \in Nat, activeBranch \in ProjectBranches, go(AtBranch(activeBranch, s)),
             s \in {0} \cup Snapshotted(activeBranch)
      PROVE  DashboardOK'
  <2>1. UNCHANGED <<apiVars, jobVars, latestKept, kept, shownPage, reposRead, branchesRead,
                    rememberedBranch, readVars>>
        /\ address' = AtBranch(activeBranch, s)
    BY <1>2 DEF go
  <2>2. address' \in ReportKeys /\ address'.branch = activeBranch /\ address'.snapshot = s
    BY <1>2, <2>1, NoSnapshotNamed
  <2>3. Names(address)'
    BY <1>2, <2>1, <2>2, NoSnapshotNamed DEF Names, apiVars, Snapshotted
  <2>4. QED  BY <1>1, <2>1, <2>2, <2>3, MovedKeeps DEF DashboardShape
<1>3. /\ olderScans \subseteq Snapshotted(activeBranch) /\ newerScans \subseteq Snapshotted(activeBranch)
      /\ (olderScans # {} \/ newerScans # {} => activeBranch \in ProjectBranches)
      /\ Snapshotted(activeBranch) \subseteq Numbers
  BY DEF olderScans, newerScans, historyRows, Snapshotted
<1>4. CASE onOlder
  <2>1. Max(olderScans) \in olderScans
    BY <1>3, <1>4, NewestIsLast DEF onOlder
  <2>2. QED  BY <1>2, <1>3, <1>4, <2>1, NoSnapshotNamed DEF onOlder
<1>5. CASE onNewer
  <2>1. Min(newerScans) \in newerScans
    BY <1>3, <1>5, NewestIsLast DEF onNewer
  <2>2. QED  BY <1>2, <1>3, <1>5, <2>1, NoSnapshotNamed DEF onNewer
<1>6. CASE onLatest
  BY <1>2, <1>3, <1>6 DEF onLatest
<1>7. ASSUME NEW b \in ProjectBranches, changeBranch(b) PROVE DashboardOK'
  <2>1. UNCHANGED <<apiVars, jobVars, latestKept, kept, shownPage, reposRead, branchesRead, readVars>>
        /\ address' = AtBranch(b, 0) /\ rememberedBranch' = b
    BY <1>7 DEF changeBranch
  <2>2. address' \in ReportKeys /\ Names(address)'
    BY <2>1, NoSnapshotNamed DEF Names
  <2>3. QED  BY <1>1, <2>1, <2>2, MovedKeeps DEF DashboardShape
<1>8. QED  BY <1>4, <1>5, <1>6, <1>7

\* The page asks anew, or asks for nothing any more.
LEMMA ReadAgainKeeps ==
  ASSUME DashboardOK, NoteShown,
         UNCHANGED <<apiVars, jobVars, latestKept, kept, reposRead, branchesRead, rememberedBranch>>,
         shownPage' \in {"elsewhere", "dashboard"}, address' \in {address, AtBranch(NoBranch, 0)},
         result' \in {result, Unasked}, NEW key \in ReportKeys, Names(key), askedFor' = key,
         \/ waitingFor' = [key |-> key, shared |-> TRUE]
         \/ waitingFor' = NotWaiting /\ key = Unasked.key
  PROVE  DashboardOK'
<1> PICK B : B = everShown
  OBVIOUS
<1>1. /\ DashboardShape /\ ScoredAreMade /\ KeptFits /\ NamesFit /\ ResultFits /\ ScoringIsRead
      /\ ShownWereMade
  BY DEF DashboardOK, DashboardCore
<1>2. /\ Unasked.key = AtBranch(NoBranch, 0) /\ Unasked.is = "nothing" /\ Unasked.snapshot = 0
      /\ NotWaiting.key = AtBranch(NoBranch, 0) /\ NotWaiting.shared = FALSE
      /\ AtBranch(NoBranch, 0) \in ReportKeys /\ AtBranch(NoBranch, 0).snapshot = 0
      /\ Unasked \in [key : ReportKeys, is : Reads, snapshot : Nat]
      /\ NotWaiting \in [key : ReportKeys, shared : BOOLEAN]
  BY NoSnapshotNamed DEF Unasked, NotWaiting, Reads
<1>3. waitingFor'.key = key /\ waitingFor' \in [key : ReportKeys, shared : BOOLEAN]
      /\ (waitingFor' = NotWaiting => key = Unasked.key)
  <2>1. CASE waitingFor' = [key |-> key, shared |-> TRUE]
    <3>1. waitingFor'.shared = TRUE /\ waitingFor'.key = key
      BY <2>1
    <3>2. QED  BY <1>2, <2>1, <3>1
  <2>2. CASE waitingFor' = NotWaiting /\ key = Unasked.key
    BY <1>2, <2>2
  <2>3. QED  BY <2>1, <2>2
<1>4. \A b : Snapshotted(b)' = Snapshotted(b)
  BY DEF Snapshotted, apiVars
<1>5. DashboardShape'
  BY <1>1, <1>2, <1>3 DEF DashboardShape, apiVars, jobVars
<1>6. ScoredAreMade' /\ KeptFits'
  BY <1>1, <1>4 DEF ScoredAreMade, KeptFits, apiVars, jobVars
<1>7. NamesFit'
  BY <1>1, <1>2, <1>3, NoSnapshotNamed DEF NamesFit, Names, apiVars
<1>8. ResultFits'
  BY <1>1, <1>2, <1>4 DEF ResultFits
<1>9. ReadsFit'
  BY <1>3 DEF ReadsFit
<1>10. ScoringIsRead'
  BY <1>1, <1>2 DEF ScoringIsRead, MissedAt, jobVars
<1>11. ASSUME NEW b \in B, waitingFor' = NotWaiting, askedFor' = AtBranch(b, 0) PROVE FALSE
  BY <1>1, <1>3, <1>11, BranchNames DEF ShownWereMade
<1>12. MissedOver(B)'
  BY <1>11 DEF MissedOver
<1>13. DashboardCore'
  BY <1>5, <1>6, <1>7, <1>8, <1>9, <1>10 DEF DashboardCore
<1>14. QED  BY <1>1, <1>4, <1>12, <1>13, NoteKeeps

LEMMA ReadsKeep ==
  ASSUME DashboardOK, Settled, NoteShown, Leave \/ refetch \/ AskAgain
  PROVE  DashboardOK'
<1>1. DashboardShape /\ KeptFits /\ NamesFit
  BY DEF DashboardOK, DashboardCore
<1>2. healthKey \in ReportKeys /\ Names(healthKey) /\ askedFor \in ReportKeys /\ Names(askedFor)
  BY <1>1, KeyIsNamed DEF DashboardShape, NamesFit
<1>3. CASE Leave
  <2>1. PICK key \in ReportKeys : key = Unasked.key /\ Names(key)
    BY NoSnapshotNamed DEF Unasked, Names
  <2>2. QED  BY <1>3, <2>1, ReadAgainKeeps DEF Leave
<1>4. CASE refetch
  <2>1. readsEnabled
    <3>1. shown.is = "error"
      BY <1>1, <1>2, <1>4, BodyIs DEF refetch
    <3>2. QED  BY <1>2, <3>1, ShownIs
  <2>2. askedFor = healthKey
    BY <2>1 DEF Settled, AskDue
  <2>3. QED  BY <1>1, <1>2, <1>4, <2>2, ReadAgainKeeps DEF refetch, pageVars, DashboardShape
<1>5. CASE AskAgain
  BY <1>1, <1>2, <1>5, ReadAgainKeeps DEF AskAgain, pageVars, DashboardShape
<1>6. QED  BY <1>3, <1>4, <1>5

LEMMA AskKeeps ==
  ASSUME DashboardOK, NoteShown, Ask
  PROVE  DashboardOK'
<1>1. DashboardShape /\ KeptFits /\ NamesFit
  BY DEF DashboardOK, DashboardCore
<1>2. healthKey \in ReportKeys /\ Names(healthKey)
  BY <1>1, KeyIsNamed
<1>3. PICK key \in ReportKeys : key = (IF readsEnabled THEN healthKey ELSE Unasked.key) /\ Names(key)
  BY <1>2, NoSnapshotNamed DEF Unasked, Names
<1>4. /\ askedFor' = key
      /\ \/ waitingFor' = [key |-> key, shared |-> TRUE]
         \/ waitingFor' = NotWaiting /\ key = Unasked.key
  BY <1>3 DEF Ask
<1>5. QED  BY <1>1, <1>3, <1>4, ReadAgainKeeps DEF Ask, pageVars, DashboardShape

\* A scan is followed, or not any more.
LEMMA JobStepKeeps ==
  ASSUME DashboardOK, Settled, NoteShown,
         NEW b \in ProjectBranches, NEW j \in {"none", "scanning"}, jobOf' = [jobOf EXCEPT ![b] = j],
         pinned' \in {pinned, [pinned EXCEPT ![b] = 0]},
         scanOf' \in [ProjectBranches -> {"none", "on", "over", "done"}],
         UNCHANGED <<connectedRepo, branchOf, scored, latestKept, kept, shownPage, reposRead, branchesRead,
                     rememberedBranch, readVars>>,
         address' \in ReportKeys, Names(address)'
  PROVE  DashboardOK'
<1>1. DashboardShape /\ ScoredAreMade /\ KeptFits
  BY DEF DashboardOK, DashboardCore
<1>2. jobOf' \in [ProjectBranches -> {"none", "scanning", "scoring", "ready"}]
      /\ pinned' \in [ProjectBranches -> Nat]
      /\ \A c \in ProjectBranches : pinned'[c] \in {0, pinned[c]} /\ jobOf'[c] \in {j, jobOf[c]}
  BY <1>1 DEF DashboardShape
<1>3. DashboardShape'
  BY <1>1, <1>2 DEF DashboardShape, readVars
<1>4. ScoredAreMade' /\ KeptFits'
  BY <1>1, <1>2 DEF ScoredAreMade, KeptFits, Snapshotted
<1>5. \A c \in ProjectBranches : jobOf'[c] = "scoring" => jobOf[c] = "scoring"
  BY <1>2
<1>6. QED  BY <1>3, <1>4, <1>5, PageStepKeeps

LEMMA JobsKeep ==
  ASSUME DashboardOK, Settled, NoteShown,
         \/ startTrackedScan \/ showNewResults
         \/ \E b \in ProjectBranches : Discovered(b) \/ ScanOver(b)
  PROVE  DashboardOK'
<1>1. DashboardShape /\ NamesFit
  BY DEF DashboardOK, DashboardCore
<1>2. Names(address) /\ address \in ReportKeys
      /\ scanOf \in [ProjectBranches -> {"none", "on", "over", "done"}]
  BY <1>1 DEF NamesFit, DashboardShape
<1>3. CASE startTrackedScan
  <2>1. activeBranch \in ProjectBranches
    BY <1>3, DashboardAssumption DEF startTrackedScan, DashboardAssumption
  <2>2. UNCHANGED <<connectedRepo, branchOf, scored, latestKept, kept, pageVars, readVars>>
    BY <1>3 DEF startTrackedScan
  <2>3. /\ scanOf' \in [ProjectBranches -> {"none", "on", "over", "done"}]
        /\ \E j \in {"none", "scanning"} : jobOf' = [jobOf EXCEPT ![activeBranch] = j]
        /\ pinned' = [pinned EXCEPT ![activeBranch] = 0]
    BY <1>2, <1>3, <2>1 DEF startTrackedScan, forget
  <2>4. Names(address)' /\ address' \in ReportKeys
    BY <1>2, <2>2 DEF Names, pageVars
  <2>5. QED  BY <2>1, <2>2, <2>3, <2>4, JobStepKeeps DEF pageVars
<1>4. CASE showNewResults
  <2>1. activeBranch \in ProjectBranches
    BY <1>4 DEF showNewResults, trackedJob
  <2>2. address' \in ReportKeys /\ Names(address)'
    BY <1>2, <1>4, NoSnapshotNamed DEF showNewResults, ReportKeys, Names
  <2>3. QED  BY <1>2, <1>4, <2>1, <2>2, JobStepKeeps DEF showNewResults, forget, apiVars
<1>5. ASSUME NEW b \in ProjectBranches, Discovered(b) PROVE DashboardOK'
  <2>1. Names(address)'
    BY <1>2, <1>5 DEF Names, Discovered, apiVars, pageVars
  <2>2. QED  BY <1>2, <1>5, <2>1, JobStepKeeps DEF Discovered, apiVars, pageVars
<1>6. ASSUME NEW b \in ProjectBranches, ScanOver(b) PROVE DashboardOK'
  <2>1. Names(address)'
    BY <1>2, <1>6 DEF Names, ScanOver, apiVars, pageVars
  <2>2. QED  BY <1>2, <1>6, <2>1, JobStepKeeps DEF ScanOver, forget, apiVars, pageVars
<1>7. QED  BY <1>3, <1>4, <1>5, <1>6

LEMMA PageReadsKeep ==
  ASSUME DashboardOK, Settled, NoteShown,
         \/ ReadRepos \/ ReadBranches \/ ReadHistory \/ ScoreWorker
         \/ \E b \in ProjectBranches : StartedElsewhere(b)
  PROVE  DashboardOK'
<1>1. DashboardShape /\ ScoredAreMade /\ KeptFits /\ NamesFit
  BY DEF DashboardOK, DashboardCore
<1>2. CASE ReadRepos \/ ReadBranches \/ ReadHistory
  <2>1. UNCHANGED <<apiVars, jobVars, latestKept, kept, shownPage, address, rememberedBranch, readVars>>
        /\ reposRead' \in {"unread", "here", "gone"} /\ branchesRead' \in {"unread", "read", "failed"}
    BY <1>1, <1>2 DEF ReadRepos, ReadBranches, ReadHistory, pageVars, DashboardShape
  <2>2. address' \in ReportKeys /\ Names(address)'
    BY <1>1, <2>1 DEF NamesFit, Names, apiVars, DashboardShape
  <2>3. QED  BY <1>1, <2>1, <2>2, MovedKeeps DEF DashboardShape
<1>3. CASE ScoreWorker \/ \E b \in ProjectBranches : StartedElsewhere(b)
  <2>1. UNCHANGED <<connectedRepo, branchOf, jobVars, latestKept, kept, pageVars, readVars>>
    BY <1>3 DEF ScoreWorker, StartedElsewhere
  <2>2. /\ scanOf' \in [ProjectBranches -> {"none", "on", "over", "done"}]
        /\ scored' \subseteq Numbers /\ ScoredAreMade'
    <3>1. CASE ScoreWorker
      BY <1>1, <3>1 DEF ScoreWorker, ScoredAreMade, DashboardShape
    <3>2. CASE \E b \in ProjectBranches : StartedElsewhere(b)
      BY <1>1, <3>2 DEF StartedElsewhere, ScoredAreMade, DashboardShape
    <3>3. QED  BY <1>3, <3>1, <3>2
  <2>3. DashboardShape'
    BY <1>1, <2>1, <2>2 DEF DashboardShape, jobVars, pageVars, readVars
  <2>4. KeptFits' /\ Names(address)'
    BY <1>1, <2>1 DEF KeptFits, Snapshotted, NamesFit, Names, jobVars, pageVars
  <2>5. QED  BY <2>1, <2>2, <2>3, <2>4, PageStepKeeps DEF jobVars
<1>4. QED  BY <1>2, <1>3

\* What a read of a key is answered with is of that key.
LEMMA ServedFits ==
  ASSUME DashboardShape, ScoredAreMade, NEW key \in ReportKeys, Names(key)
  PROVE  /\ served(key).is \in Reads \ {"nothing"} /\ served(key).snapshot \in Nat
         /\ served(key).is = "report" => /\ key.branch \in ProjectBranches
                                         /\ served(key).snapshot \in Snapshotted(key.branch)
                                         /\ key.snapshot \in {0, served(key).snapshot}
         /\ served(key).is # "report" => served(key).snapshot = 0
         /\ served(key).is = "missing" => /\ key.snapshot \notin Numbers
                                          /\ \A b \in ProjectBranches :
                                               key = AtBranch(b, 0) => Snapshotted(b) = {}
<1> DEFINE of == IF key.branch \in ProjectBranches THEN Snapshotted(key.branch) ELSE {}
           s  == IF key.snapshot = 0 THEN Newest(of) ELSE key.snapshot
<1>1. of \in SUBSET Numbers
  BY DEF Snapshotted
<1>2. Newest(of) \in Nat /\ (of # {} => Newest(of) \in of)
  BY <1>1, NewestIsLast
<1>3. served(key) = IF s \notin of THEN [is |-> "missing", snapshot |-> 0]
                    ELSE IF s \notin scored THEN [is |-> "pending", snapshot |-> 0]
                    ELSE [is |-> "report", snapshot |-> s]
  BY DEF served
<1>4. s \notin of => /\ key.snapshot \notin Numbers
                     /\ \A b \in ProjectBranches : key = AtBranch(b, 0) => Snapshotted(b) = {}
  <2>1. key.snapshot \in Numbers => s = key.snapshot /\ s \in of
    BY NoSnapshotNamed DEF Names, Snapshotted
  <2>2. ASSUME NEW b \in ProjectBranches, key = AtBranch(b, 0), s \notin of PROVE Snapshotted(b) = {}
    <3>1. of = Snapshotted(b) /\ s = Newest(of)
      BY <2>2, NoSnapshotNamed
    <3>2. QED  BY <1>2, <2>2, <3>1
  <2>3. QED  BY <2>1, <2>2
<1>5. s \in of => /\ key.branch \in ProjectBranches /\ s \in Snapshotted(key.branch)
                  /\ key.snapshot \in {0, s} /\ s \in Nat
  BY <1>1, NoSnapshotNamed
<1> HIDE DEF s, of
<1>6. QED  BY <1>3, <1>4, <1>5 DEF Reads

LEMMA PageAnswerKeeps ==
  ASSUME DashboardOK, Settled, NoteShown, Answered
  PROVE  DashboardOK'
<1> PICK B : B = everShown
  OBVIOUS
<1>1. /\ DashboardShape /\ ScoredAreMade /\ KeptFits /\ NamesFit /\ ReadsFit /\ ScoringIsRead
      /\ ShownWereMade
  BY DEF DashboardOK, DashboardCore
<1>2. PICK key \in ReportKeys : key = waitingFor.key /\ Names(key)
  BY <1>1 DEF DashboardShape, NamesFit
<1>3. PICK answer \in {served(key), [is |-> "error", snapshot |-> 0]} :
        /\ result' = [key |-> key, is |-> answer.is, snapshot |-> answer.snapshot]
        /\ IF waitingFor.shared THEN keepAnswer(key, answer.snapshot)
                                ELSE UNCHANGED <<latestKept, kept>>
  BY <1>2 DEF Answered
<1>4. /\ waitingFor' = NotWaiting /\ waitingFor # NotWaiting
      /\ UNCHANGED <<apiVars, jobVars, pageVars, askedFor>>
  BY DEF Answered
<1>5. /\ answer.is \in Reads \ {"nothing"} /\ answer.snapshot \in Nat
      /\ answer.is = "report" => /\ key.branch \in ProjectBranches
                                 /\ answer.snapshot \in Snapshotted(key.branch)
                                 /\ key.snapshot \in {0, answer.snapshot}
      /\ answer.is # "report" => answer.snapshot = 0
      /\ answer.is = "missing" => /\ key.snapshot \notin Numbers
                                  /\ \A b \in ProjectBranches :
                                       key = AtBranch(b, 0) => Snapshotted(b) = {}
  <2>1. CASE answer = served(key)
    BY <1>1, <1>2, <2>1, ServedFits
  <2>2. CASE answer = [is |-> "error", snapshot |-> 0]
    BY <2>2 DEF Reads
  <2>3. QED  BY <1>3, <2>1, <2>2
<1>6. \A b : Snapshotted(b)' = Snapshotted(b)
  BY <1>4 DEF Snapshotted, apiVars
<1>7. /\ latestKept' \in [ProjectBranches -> Nat] /\ kept' \subseteq Numbers
      /\ \A b \in ProjectBranches : latestKept'[b] \in {0} \cup Snapshotted(b)
  <2>1. /\ \A b \in ProjectBranches : latestKept[b] \in {0} \cup Snapshotted(b)
        /\ latestKept \in [ProjectBranches -> Nat] /\ kept \subseteq Numbers
    BY <1>1 DEF KeptFits, DashboardShape
  <2>2. CASE ~waitingFor.shared
    BY <1>3, <2>1, <2>2
  <2>3. CASE waitingFor.shared /\ key.snapshot = 0
    <3>1. /\ latestKept' = [b \in ProjectBranches |->
                              IF b = key.branch THEN answer.snapshot ELSE latestKept[b]]
          /\ kept' = kept
      BY <1>3, <2>3 DEF keepAnswer
    <3>2. \A b \in ProjectBranches : b = key.branch => answer.snapshot \in {0} \cup Snapshotted(b)
      BY <1>5
    <3>3. QED  BY <1>5, <2>1, <3>1, <3>2
  <2>4. CASE waitingFor.shared /\ key.snapshot # 0
    <3>1. /\ kept' = (IF answer.snapshot = 0 THEN kept \ {key.snapshot}
                                             ELSE kept \cup {answer.snapshot})
          /\ latestKept' = latestKept
      BY <1>3, <2>4 DEF keepAnswer
    <3>2. answer.snapshot # 0 => answer.snapshot \in Numbers
      BY <1>5 DEF Snapshotted
    <3>3. QED  BY <2>1, <3>1, <3>2
  <2>5. QED  BY <2>2, <2>3, <2>4
<1>8. /\ result'.key = key /\ result'.is = answer.is /\ result'.snapshot = answer.snapshot
      /\ result' \in [key : ReportKeys, is : Reads, snapshot : Nat]
  BY <1>3, <1>5
<1>9. ASSUME NEW b \in ProjectBranches, MissedAt(b)' PROVE Snapshotted(b) = {} /\ latestKept'[b] = 0
  <2>1. Snapshotted(b) = {}
    BY <1>5, <1>8, <1>9 DEF MissedAt
  <2>2. QED  BY <1>7, <2>1
<1>10. NotWaiting \in [key : ReportKeys, shared : BOOLEAN] /\ NotWaiting.key.snapshot = 0
       /\ NotWaiting.key \in ReportKeys
  BY NoSnapshotNamed DEF NotWaiting
<1>11. DashboardShape'
  BY <1>1, <1>2, <1>4, <1>7, <1>8, <1>10 DEF DashboardShape, apiVars, jobVars, pageVars
<1>12. ScoredAreMade' /\ KeptFits'
  BY <1>1, <1>4, <1>6, <1>7 DEF ScoredAreMade, KeptFits, apiVars, jobVars
<1>13. NamesFit'
  BY <1>1, <1>2, <1>4, <1>8, <1>10, NoSnapshotNamed DEF NamesFit, Names, apiVars, pageVars
<1>14. ResultFits'
  BY <1>5, <1>6, <1>8 DEF ResultFits
<1>15. ReadsFit'
  BY <1>1, <1>2, <1>4, <1>8 DEF ReadsFit
<1>16. ScoringIsRead'
  BY <1>9 DEF ScoringIsRead
<1>17. MissedOver(B)'
  BY <1>1, <1>9 DEF MissedOver, ShownWereMade
<1>18. DashboardCore'
  BY <1>11, <1>12, <1>13, <1>14, <1>15, <1>16 DEF DashboardCore
<1>19. QED  BY <1>1, <1>6, <1>17, <1>18, NoteKeeps

\* The scan is done: the results are forgotten, but for those that stay on the page.
LEMMA BeginScoringKeeps ==
  ASSUME DashboardOK, Settled, NoteShown, NEW b \in ProjectBranches, beginScoring(b)
  PROVE  DashboardOK'
<1> PICK B : B = everShown
  OBVIOUS
<1>1. /\ DashboardShape /\ ScoredAreMade /\ KeptFits /\ NamesFit /\ ResultFits /\ ReadsFit
      /\ ScoringIsRead /\ ShownWereMade /\ MissedOver(B)
  BY DEF DashboardOK, DashboardCore
<1>2. PICK pin \in Nat : /\ pin = (IF pinned[b] # 0 THEN pinned[b] ELSE latestKept[b])
                         /\ pinned' = [pinned EXCEPT ![b] = pin]
                         /\ kept' = (kept \ Snapshotted(b))
                                      \cup ({pin} \cap (kept \cup {latestKept[b]}) \cap Numbers)
  BY <1>1 DEF beginScoring, DashboardShape
<1>3. /\ jobOf' = [jobOf EXCEPT ![b] = "scoring"] /\ latestKept' = [latestKept EXCEPT ![b] = 0]
      /\ waitingFor' = [waitingFor EXCEPT !.shared = @ /\ waitingFor.key.branch # b]
      /\ UNCHANGED <<apiVars, pageVars, askedFor, result>>
  BY DEF beginScoring
<1>4. \A c : Snapshotted(c)' = Snapshotted(c)
  BY <1>3 DEF Snapshotted, apiVars
<1>5. waitingFor'.key = waitingFor.key /\ waitingFor' \in [key : ReportKeys, shared : BOOLEAN]
      /\ waitingFor \in [key : ReportKeys, shared : BOOLEAN]
  BY <1>1, <1>3 DEF DashboardShape
<1>6. waitingFor' = NotWaiting => waitingFor = NotWaiting \/ askedFor = Unasked.key
  <2>1. NotWaiting.key = Unasked.key
    BY DEF NotWaiting, Unasked
  <2>2. QED  BY <1>1, <1>5, <2>1 DEF ReadsFit
<1>7. /\ jobOf' \in [ProjectBranches -> {"none", "scanning", "scoring", "ready"}]
      /\ pinned' \in [ProjectBranches -> Nat] /\ latestKept' \in [ProjectBranches -> Nat]
      /\ kept' \subseteq Numbers
      /\ \A c \in ProjectBranches \ {b} : jobOf'[c] = jobOf[c] /\ latestKept'[c] = latestKept[c]
                                          /\ pinned'[c] = pinned[c]
      /\ jobOf'[b] = "scoring" /\ latestKept'[b] = 0 /\ pinned'[b] = pin
  BY <1>1, <1>2, <1>3 DEF DashboardShape
<1>8. DashboardShape'
  BY <1>1, <1>3, <1>5, <1>7 DEF DashboardShape, apiVars, pageVars
<1>9. KeptFits'
  <2>1. pin \in {0} \cup Snapshotted(b)
    BY <1>1, <1>2 DEF KeptFits
  <2>2. ASSUME NEW c \in ProjectBranches
        PROVE  {pinned'[c], latestKept'[c]} \subseteq {0} \cup Snapshotted(c)
    <3>1. CASE c = b
      BY <1>7, <2>1, <3>1
    <3>2. CASE c # b
      BY <1>1, <1>7, <3>2 DEF KeptFits
    <3>3. QED  BY <3>1, <3>2
  <2>3. QED  BY <1>4, <2>2 DEF KeptFits
<1>10. ScoredAreMade' /\ NamesFit'
  BY <1>1, <1>3, <1>5 DEF ScoredAreMade, NamesFit, Names, apiVars, pageVars
<1>11. ResultFits'
  BY <1>1, <1>3, <1>4 DEF ResultFits
<1>12. ReadsFit'
  <2>1. ASSUME waitingFor = NotWaiting PROVE waitingFor' = NotWaiting
    <3>1. waitingFor.shared = FALSE /\ waitingFor.key = AtBranch(NoBranch, 0)
      BY <2>1 DEF NotWaiting
    <3>2. waitingFor'.shared = FALSE
      BY <1>3, <1>5, <3>1
    <3>3. QED  BY <1>5, <3>1, <3>2 DEF NotWaiting
  <2>2. QED  BY <1>1, <1>3, <1>5, <1>6, <2>1 DEF ReadsFit
<1>13. ScoringIsRead'
  BY <1>1, <1>3, <1>7 DEF ScoringIsRead, MissedAt
<1>14. ASSUME NEW c \in B, MissedAt(c), waitingFor' = NotWaiting, askedFor = AtBranch(c, 0)
       PROVE  latestKept'[c] # 0 \/ AskDue'
  <2>1. c \in ProjectBranches /\ c # NoBranch
    BY <1>1, BranchNames DEF ShownWereMade
  <2>2. askedFor # Unasked.key
    BY <1>14, <2>1, BranchNames
  <2>3. latestKept[c] # 0
    BY <1>1, <1>6, <1>14, <2>2 DEF MissedOver, Settled
  <2>4. CASE c # b
    BY <1>7, <2>1, <2>3, <2>4
  <2>5. CASE c = b
    <3>1. readsEnabled /\ healthKey = AtBranch(b, 0)
      BY <1>14, <2>2, <2>5 DEF Settled, AskDue
    <3>2. activeBranch = b /\ address.snapshot = 0
      BY <1>1, <3>1, KeyIsNamed, NoSnapshotNamed
    <3>3. activeBranch' = b /\ readsEnabled' = readsEnabled
      BY <1>3, <3>2 DEF pageVars, activeBranch, urlBranchAvailable, likelyBranch, readsEnabled,
                        branchResolved, settledOnRealBranch
    <3>4. pin # 0
      BY <1>2, <2>3, <2>5
    <3>5. pinnedSnapshotId' = pin
      <4>1. jobOf'[b] = "scoring" /\ pinned'[b] = pin
        BY <1>7
      <4>2. activeBranch' = b
        BY <3>3
      <4>3. trackedJob' = "scoring"
        BY <4>1, <4>2 DEF trackedJob
      <4>4. QED  BY <4>1, <4>2, <4>3 DEF pinnedSnapshotId
    <3>6. healthKey' = AtBranch(b, pin)
      BY <1>3, <3>2, <3>3, <3>5 DEF healthKey, readSnapshotId, pageVars
    <3>7. healthKey' # askedFor'
      BY <1>3, <1>14, <2>5, <3>4, <3>6, NoSnapshotNamed
    <3>8. QED  BY <3>1, <3>3, <3>7 DEF AskDue
  <2>6. QED  BY <2>4, <2>5
<1>15. MissedOver(B)'
  BY <1>3, <1>14 DEF MissedOver, MissedAt
<1>16. DashboardCore'
  BY <1>8, <1>9, <1>10, <1>11, <1>12, <1>13 DEF DashboardCore
<1>17. QED  BY <1>1, <1>4, <1>15, <1>16, NoteKeeps

\* The scan that was followed is through: its results, or none, are the latest.
LEMMA CacheStepKeeps ==
  ASSUME DashboardOK, Settled, NoteShown, NEW b \in ProjectBranches, NEW s \in {0} \cup Snapshotted(b),
         s = 0 => jobOf[b] = "scoring", latestKept' = [latestKept EXCEPT ![b] = s],
         NEW j \in {"none", "ready"}, jobOf' = [jobOf EXCEPT ![b] = j],
         pinned' \in {pinned, [pinned EXCEPT ![b] = 0]},
         UNCHANGED <<apiVars, kept, pageVars, readVars>>
  PROVE  DashboardOK'
<1> PICK B : B = everShown
  OBVIOUS
<1>1. /\ DashboardShape /\ ScoredAreMade /\ KeptFits /\ NamesFit /\ ResultFits /\ ReadsFit
      /\ ScoringIsRead /\ ShownWereMade /\ MissedOver(B)
  BY DEF DashboardOK, DashboardCore
<1>2. /\ jobOf' \in [ProjectBranches -> {"none", "scanning", "scoring", "ready"}]
      /\ pinned' \in [ProjectBranches -> Nat] /\ latestKept' \in [ProjectBranches -> Nat]
      /\ \A c \in ProjectBranches : pinned'[c] \in {0, pinned[c]}
      /\ \A c \in ProjectBranches \ {b} : jobOf'[c] = jobOf[c] /\ latestKept'[c] = latestKept[c]
      /\ jobOf'[b] = j /\ latestKept'[b] = s
  <2>1. s \in Nat
    <3>1. Snapshotted(b) \subseteq Numbers
      BY DEF Snapshotted
    <3>2. QED  BY <3>1, NoSnapshotNamed
  <2>2. QED  BY <1>1, <2>1 DEF DashboardShape
<1>3. \A c : Snapshotted(c)' = Snapshotted(c)
  BY DEF Snapshotted, apiVars
<1>4. DashboardShape'
  BY <1>1, <1>2 DEF DashboardShape, apiVars, pageVars, readVars
<1>5. KeptFits'
  <2>1. \A c \in ProjectBranches : {pinned'[c], latestKept'[c]} \subseteq {0} \cup Snapshotted(c)
    BY <1>1, <1>2 DEF KeptFits
  <2>2. QED  BY <1>3, <2>1 DEF KeptFits
<1>6. ScoredAreMade' /\ NamesFit'
  BY <1>1 DEF ScoredAreMade, NamesFit, Names, apiVars, pageVars, readVars
<1>7. ResultFits'
  BY <1>1, <1>3 DEF ResultFits, readVars
<1>8. ReadsFit'
  BY <1>1 DEF ReadsFit, readVars
<1>9. ScoringIsRead'
  BY <1>1, <1>2 DEF ScoringIsRead, MissedAt, readVars
<1>10. ASSUME NEW c \in B, MissedAt(c), waitingFor = NotWaiting, askedFor = AtBranch(c, 0)
       PROVE  latestKept'[c] # 0
  <2>1. c \in ProjectBranches /\ latestKept[c] # 0
    BY <1>1, <1>10 DEF MissedOver, Settled, ShownWereMade
  <2>2. c = b => s # 0
    BY <1>1, <1>10, <2>1 DEF ScoringIsRead
  <2>3. QED  BY <1>2, <2>1, <2>2
<1>11. MissedOver(B)'
  BY <1>10 DEF MissedOver, MissedAt, readVars
<1>12. DashboardCore'
  BY <1>4, <1>5, <1>6, <1>7, <1>8, <1>9 DEF DashboardCore
<1>13. QED  BY <1>1, <1>3, <1>11, <1>12, NoteKeeps

LEMMA FinishKeeps ==
  ASSUME DashboardOK, Settled, NoteShown, NEW b \in ProjectBranches, finishJob(b) \/ finishWithoutReport(b)
  PROVE  DashboardOK'
<1>1. DashboardShape
  BY DEF DashboardOK, DashboardCore
<1>2. CASE finishJob(b)
  <2>1. PICK s : s = Newest(Snapshotted(b)) /\ s \in scored /\ latestKept' = [latestKept EXCEPT ![b] = s]
    BY <1>2 DEF finishJob
  <2>2. s \in Snapshotted(b) /\ s # 0
    <3>1. s \in Numbers
      BY <1>1, <2>1 DEF DashboardShape
    <3>2. Snapshotted(b) \in SUBSET Numbers
      BY DEF Snapshotted
    <3>3. QED  BY <2>1, <3>1, <3>2, NewestIsLast, NoSnapshotNamed
  <2>3. \E j \in {"none", "ready"} : /\ jobOf' = [jobOf EXCEPT ![b] = j]
                                     /\ pinned' \in {pinned, [pinned EXCEPT ![b] = 0]}
    BY <1>2 DEF finishJob, forget
  <2>4. QED  BY <1>2, <2>1, <2>2, <2>3, CacheStepKeeps DEF finishJob
<1>3. CASE finishWithoutReport(b)
  BY <1>3, CacheStepKeeps DEF finishWithoutReport, forget
<1>4. QED  BY <1>2, <1>3

\* A scan ends, with a snapshot or without: what was made of each branch stays.
LEMMA ScanEndsKeeps ==
  ASSUME DashboardOK, Settled, NoteShown, NEW b \in ProjectBranches, ScanEnds(b)
  PROVE  DashboardOK'
<1> PICK B : B = everShown
  OBVIOUS
<1>1. /\ DashboardShape /\ ScoredAreMade /\ KeptFits /\ NamesFit /\ ResultFits /\ ReadsFit
      /\ ScoringIsRead /\ ShownWereMade /\ MissedOver(B)
  BY DEF DashboardOK, DashboardCore
<1>2. UNCHANGED <<connectedRepo, scored, jobVars, latestKept, kept, pageVars, readVars>>
      /\ scanOf' \in [ProjectBranches -> {"none", "on", "over", "done"}]
  BY <1>1 DEF ScanEnds, DashboardShape
<1>3. \E s : /\ branchOf' \in {branchOf, [branchOf EXCEPT ![s] = b]}
             /\ s \in Numbers => branchOf[s] = NoBranch
  <2> DEFINE made == {n \in Numbers : branchOf[n] # NoBranch}
             s    == Newest(made) + 1
  <2>1. made \in SUBSET Numbers
    OBVIOUS
  <2>2. Newest(made) \in Nat /\ \A n \in made : n <= Newest(made)
    BY <2>1, NewestIsLast
  <2>3. s \notin made
    <3>1. PICK newest \in Nat : newest = Newest(made) /\ \A n \in made : n <= newest
      BY <2>2
    <3>2. newest + 1 \notin made
      <4> HIDE DEF made
      <4>1. QED  BY <3>1
    <3>3. QED  BY <3>1, <3>2
  <2>4. branchOf' \in {branchOf, [branchOf EXCEPT ![s] = b]}
    BY DEF ScanEnds
  <2>5. QED  BY <2>3, <2>4
<1>4. /\ branchOf' \in [Numbers -> ProjectBranches \cup {NoBranch}]
      /\ \A n \in Numbers : branchOf[n] # NoBranch => branchOf'[n] = branchOf[n]
  BY <1>1, <1>3 DEF DashboardShape
<1>5. \A c \in ProjectBranches : Snapshotted(c) \subseteq Snapshotted(c)'
  BY <1>4, BranchNames DEF Snapshotted
<1>6. DashboardShape'
  BY <1>1, <1>2, <1>4 DEF DashboardShape, jobVars, pageVars, readVars
<1>7. ScoredAreMade'
  BY <1>1, <1>2, <1>4 DEF ScoredAreMade, DashboardShape
<1>8. KeptFits'
  BY <1>1, <1>2, <1>5 DEF KeptFits, jobVars
<1>9. NamesFit'
  <2>1. ASSUME NEW key, Names(key)
        PROVE  key.snapshot \in Numbers => key.branch \in ProjectBranches
                                           /\ branchOf'[key.snapshot] = key.branch
    BY <1>4, <2>1, BranchNames DEF Names
  <2>2. QED  BY <1>1, <1>2, <2>1 DEF NamesFit, Names, pageVars, readVars
<1>10. ResultFits'
  BY <1>1, <1>2, <1>5 DEF ResultFits, readVars
<1>11. ReadsFit' /\ ScoringIsRead'
  BY <1>1, <1>2 DEF ReadsFit, ScoringIsRead, MissedAt, jobVars, readVars
<1>12. MissedOver(B)'
  BY <1>1, <1>2, SettledKeeps
<1>13. DashboardCore'
  BY <1>6, <1>7, <1>8, <1>9, <1>10, <1>11 DEF DashboardCore
<1>14. QED  BY <1>1, <1>5, <1>12, <1>13, NoteKeeps

\* What a render brings about: the page stays on its branch and its key.
LEMMA EffectsKeep ==
  ASSUME DashboardOK, NoteShown, pinScanResults \/ Remember
  PROVE  DashboardOK'
<1> PICK B : B = everShown
  OBVIOUS
<1>1. /\ DashboardShape /\ ScoredAreMade /\ KeptFits /\ NamesFit /\ ResultFits /\ ShownWereMade
      /\ MissedOver(B)
  BY DEF DashboardOK, DashboardCore
<1>2. /\ UNCHANGED <<apiVars, jobOf, latestKept, shownPage, address, reposRead, branchesRead, readVars>>
      /\ activeBranch' = activeBranch /\ readsEnabled' = readsEnabled /\ healthKey' = healthKey
      /\ DashboardShape' /\ KeptFits'
  <2>1. CASE pinScanResults
    <3>1. UNCHANGED <<apiVars, jobOf, latestKept, pageVars, readVars>>
      BY <2>1 DEF pinScanResults
    <3>2. activeBranch' = activeBranch /\ readsEnabled' = readsEnabled
      BY <3>1 DEF pageVars, activeBranch, urlBranchAvailable, likelyBranch, readsEnabled,
                  branchResolved, settledOnRealBranch
    <3>3. trackedJob = "scanning" /\ trackedJob' = "scanning"
      BY <2>1, <3>1, <3>2 DEF pinScanResults, PinDue, trackedJob
    <3>4. pinnedSnapshotId = 0 /\ pinnedSnapshotId' = 0
      BY <3>3 DEF pinnedSnapshotId
    <3>5. healthKey' = healthKey
      BY <3>1, <3>2, <3>4 DEF healthKey, readSnapshotId, pageVars
    <3>6. shown.is = "report"
      BY <1>1, <2>1, ShownFits DEF pinScanResults, PinDue
    <3>7. /\ activeBranch \in ProjectBranches /\ report \in Snapshotted(activeBranch)
          /\ report \in Nat /\ report \in Numbers
      BY <1>1, <3>6, ShownFits DEF Snapshotted
    <3>8. /\ pinned' \in [ProjectBranches -> Nat] /\ kept' \subseteq Numbers
          /\ \A c \in ProjectBranches : pinned'[c] \in {0} \cup Snapshotted(c)
      BY <1>1, <2>1, <3>7 DEF pinScanResults, DashboardShape, KeptFits
    <3>9. DashboardShape'
      BY <1>1, <3>1, <3>8 DEF DashboardShape, apiVars, pageVars, readVars
    <3>10. KeptFits'
      BY <1>1, <3>1, <3>8 DEF KeptFits, Snapshotted, apiVars
    <3>11. QED  BY <3>1, <3>2, <3>5, <3>9, <3>10 DEF pageVars
  <2>2. CASE Remember
    <3>1. UNCHANGED <<apiVars, jobVars, latestKept, kept, shownPage, address, reposRead, branchesRead,
                      readVars>>
          /\ rememberedBranch' = activeBranch /\ activeBranch \in ProjectBranches /\ branchesRead = "read"
      BY <2>2 DEF Remember, RememberDue, settledOnRealBranch
    <3>2. activeBranch' = activeBranch
      BY <3>1 DEF activeBranch, urlBranchAvailable
    <3>3. readsEnabled' = readsEnabled
      BY <3>1, <3>2 DEF readsEnabled, branchResolved, settledOnRealBranch
    <3>4. healthKey' = healthKey
      BY <3>1, <3>2 DEF healthKey, readSnapshotId, pinnedSnapshotId, trackedJob, jobVars
    <3>5. DashboardShape' /\ KeptFits'
      BY <1>1, <3>1 DEF DashboardShape, KeptFits, Snapshotted, apiVars, jobVars, readVars
    <3>6. QED  BY <3>1, <3>2, <3>3, <3>4, <3>5 DEF jobVars
  <2>3. QED  BY <2>1, <2>2
<1>3. ScoredAreMade' /\ Names(address)'
  BY <1>1, <1>2 DEF ScoredAreMade, NamesFit, Names, apiVars
<1>4. DashboardCore' /\ \A c : Snapshotted(c)' = Snapshotted(c)
  BY <1>2, <1>3, PageKeeps DEF DashboardOK, apiVars
<1>5. AskDue' = AskDue
  BY <1>2 DEF AskDue, readVars
<1>6. MissedOver(B)'
  BY <1>1, <1>2, <1>5 DEF MissedOver, MissedAt, readVars
<1>7. QED  BY <1>1, <1>4, <1>6, NoteKeeps

LEMMA DashboardMoves == DashboardOK /\ [DashboardNext]_dashboardVars => DashboardOK'
<1> SUFFICES ASSUME DashboardOK, [DashboardNext]_dashboardVars PROVE DashboardOK'
  OBVIOUS
<1>1. CASE Effects /\ NoteShown
  BY <1>1, AskKeeps, EffectsKeep DEF Effects
<1>2. CASE Settled /\ Reader /\ NoteShown
  BY <1>2, OpensKeep, GoesKeep, ReadsKeep, JobsKeep DEF Reader
<1>3. CASE Settled /\ Answers /\ NoteShown
  BY <1>3, PageAnswerKeeps, ReadsKeep, PageReadsKeep DEF Answers
<1>4. CASE Settled /\ Follower /\ NoteShown
  BY <1>4, JobsKeep, BeginScoringKeeps, FinishKeeps DEF Follower
<1>5. CASE Settled /\ Elsewhere /\ NoteShown
  BY <1>5, PageReadsKeep, ScanEndsKeeps DEF Elsewhere
<1>6. CASE UNCHANGED dashboardVars
  <2>1. UNCHANGED <<apiVars, jobVars, latestKept, kept, pageVars, readVars, everShown>>
    BY <1>6 DEF dashboardVars
  <2>2. DashboardCore' /\ \A b : Snapshotted(b)' = Snapshotted(b)
    <3>1. DashboardShape' /\ ScoredAreMade' /\ KeptFits' /\ Names(address)'
      BY <2>1 DEF DashboardOK, DashboardCore, DashboardShape, ScoredAreMade, KeptFits, NamesFit, Names,
                  Snapshotted, apiVars, jobVars, pageVars, readVars
    <3>2. QED  BY <2>1, <3>1, PageKeeps DEF DashboardOK, apiVars, jobVars
  <2>3. AskDue' = AskDue
    BY <2>1 DEF AskDue, healthKey, readSnapshotId, pinnedSnapshotId, trackedJob, activeBranch,
                urlBranchAvailable, likelyBranch, readsEnabled, branchResolved, settledOnRealBranch,
                jobVars, pageVars, readVars
  <2>4. MissedOver(everShown)' /\ ShownWereMade'
    BY <2>1, <2>2, <2>3 DEF DashboardOK, MissedOver, MissedAt, ShownWereMade, readVars
  <2>5. QED  BY <2>2, <2>4 DEF DashboardOK
<1>7. QED  BY <1>1, <1>2, <1>3, <1>4, <1>5, <1>6 DEF DashboardNext

LEMMA DashboardOKSuffices == DashboardOK => DashboardInv
<1> SUFFICES ASSUME DashboardOK PROVE DashboardInv
  OBVIOUS
<1>1. /\ DashboardShape /\ KeptFits /\ NamesFit /\ ResultFits /\ ReadsFit
      /\ ShownWereMade /\ MissedOver(everShown)
  BY DEF DashboardOK, DashboardCore
<1>2. ASSUME body = "first scan" PROVE shown.is = "missing" /\ branchesRead # "unread" /\ readsEnabled
  <2>1. shown.is = "missing" /\ ~guessUnconfirmed(shown.is)
    BY <1>1, <1>2, KeyIsNamed, BodyIs
  <2>2. branchesRead # "unread"
    BY <2>1 DEF guessUnconfirmed
  <2>3. QED  BY <1>1, <2>1, <2>2, KeyIsNamed, ShownIs
<1>3. FirstScanNamesARealBranch
  BY <1>1, <1>2, BranchIsNamed DEF FirstScanNamesARealBranch, DashboardShape
<1>4. NeverAFirstScanAgain
  <2>1. SUFFICES ASSUME body = "first scan", Settled, waitingFor = NotWaiting, address.snapshot = 0,
                        activeBranch \in everShown
                 PROVE  FALSE
    BY DEF NeverAFirstScanAgain
  <2>2. shown.is = "missing" /\ readsEnabled
    BY <1>2, <2>1
  <2>3. cachedReport(healthKey) = 0 /\ result.key = healthKey /\ result.is = "missing"
    BY <1>1, <2>2, KeyIsNamed, ShownIs
  <2>4. askedFor = healthKey
    BY <2>1, <2>2 DEF Settled, AskDue
  <2>5. activeBranch \in ProjectBranches
    BY <1>1, <2>1 DEF ShownWereMade
  <2>6. readSnapshotId \notin Numbers
    BY <1>1, <2>3, KeyIsNamed DEF ResultFits
  <2>7. readSnapshotId = 0
    BY <1>1, <2>1, <2>6, KeyIsNamed DEF Snapshotted
  <2>8. healthKey = AtBranch(activeBranch, 0)
    BY <1>1, <2>7, KeyIsNamed
  <2>9. latestKept[activeBranch] = 0
    BY <2>3, <2>5, <2>8, NoSnapshotNamed DEF cachedReport
  <2>10. QED  BY <1>1, <2>1, <2>3, <2>4, <2>8, <2>9 DEF MissedOver, MissedAt, Settled
<1>5. QED  BY <1>3, <1>4 DEF DashboardInv

\* For any branches and snapshots, and whatever is answered late: a first scan is offered only for
\* a branch that is there, and not for one whose results were on the page.
THEOREM FirstScanIsOfferedRightly == DashboardSpec => []DashboardInv
<1>1. DashboardSpec => []DashboardOK
  BY DashboardStarts, DashboardMoves, PTL DEF DashboardSpec
<1>2. QED  BY <1>1, DashboardOKSuffices, PTL

\* Where no snapshot is named, the latest is shown that is kept, or that was read.
LEMMA LatestShown ==
  ASSUME readSnapshotId = 0, activeBranch \in ProjectBranches
  PROVE  /\ report \in {0, latestKept[activeBranch], result.snapshot}
         /\ ~readsEnabled => report = 0
         /\ readsEnabled /\ latestKept[activeBranch] # 0 => report = latestKept[activeBranch]
         /\ readsEnabled /\ latestKept[activeBranch] = 0
              => report = IF result.key = AtBranch(activeBranch, 0) THEN result.snapshot ELSE 0
<1>1. healthKey = AtBranch(activeBranch, 0) /\ healthKey \in ReportKeys
  BY DEF healthKey, AtBranch, ReportKeys
<1>2. cachedReport(healthKey) = latestKept[activeBranch]
  BY <1>1, NoSnapshotNamed DEF cachedReport
<1>3. shown = IF ~readsEnabled THEN [is |-> "loading", snapshot |-> 0]
              ELSE IF latestKept[activeBranch] # 0
                   THEN [is |-> "report", snapshot |-> latestKept[activeBranch]]
              ELSE IF result.key = AtBranch(activeBranch, 0)
                   THEN [is |-> result.is, snapshot |-> result.snapshot]
              ELSE [is |-> "loading", snapshot |-> 0]
  BY <1>1, <1>2, ShownIs
<1>4. QED  BY <1>3 DEF report

LEMMA NamedIsShown ==
  ASSUME DashboardShape, KeptFits, NamesFit, ResultFits
  PROVE  report \in {0, readSnapshotId} \/ readSnapshotId = 0
BY ShownFits

\* What the branch on the page goes through without its reader.
LEMMA BranchStep ==
  ASSUME DashboardShape, DashboardNext, ~Reader, NEW a, a = activeBranch, a \in ProjectBranches
  PROVE  /\ address' = address
         /\ waitingFor = NotWaiting => result' = result
         /\ \/ /\ waitingFor = NotWaiting => latestKept'[a] = latestKept[a]
               /\ jobOf'[a] = jobOf[a]
               /\ pinned'[a] = pinned[a] \/ PinDue
            \/ /\ Settled
               /\ \/ Discovered(a) \/ beginScoring(a) \/ ScanOver(a) \/ finishJob(a)
                  \/ finishWithoutReport(a)
<1>1. /\ latestKept \in [ProjectBranches -> Nat] /\ pinned \in [ProjectBranches -> Nat]
      /\ jobOf \in [ProjectBranches -> {"none", "scanning", "scoring", "ready"}]
  BY DEF DashboardShape
<1>2. CASE Effects
  BY <1>2 DEF Effects, Ask, pinScanResults, Remember, jobVars, pageVars, readVars
<1>3. CASE Settled /\ Answers
  BY <1>3 DEF Answers, Answered, AskAgain, ReadRepos, ReadBranches, ReadHistory, jobVars, pageVars, readVars
<1>4. CASE Settled /\ Elsewhere
  BY <1>4 DEF Elsewhere, ScoreWorker, ScanEnds, StartedElsewhere, jobVars, pageVars, readVars
<1>5. ASSUME NEW b \in ProjectBranches, Settled,
             \/ Discovered(b) \/ beginScoring(b) \/ ScanOver(b) \/ finishJob(b)
             \/ finishWithoutReport(b)
      PROVE  /\ address' = address /\ result' = result
             /\ b # a => /\ latestKept'[a] = latestKept[a] /\ jobOf'[a] = jobOf[a]
                         /\ pinned'[a] = pinned[a]
  <2>1. address' = address /\ result' = result
    BY <1>5 DEF Discovered, beginScoring, ScanOver, finishJob, finishWithoutReport, pageVars, readVars
  <2>2. /\ \E j : jobOf' = [jobOf EXCEPT ![b] = j]
        /\ \E p : pinned' \in {pinned, [pinned EXCEPT ![b] = p]}
        /\ \E s : latestKept' \in {latestKept, [latestKept EXCEPT ![b] = s]}
    <3>1. CASE Discovered(b)
      BY <3>1 DEF Discovered
    <3>2. CASE beginScoring(b)
      BY <3>2 DEF beginScoring
    <3>3. CASE ScanOver(b)
      BY <3>3 DEF ScanOver, forget
    <3>4. CASE finishJob(b)
      BY <3>4 DEF finishJob, forget
    <3>5. CASE finishWithoutReport(b)
      BY <3>5 DEF finishWithoutReport, forget
    <3>6. QED  BY <1>5, <3>1, <3>2, <3>3, <3>4, <3>5
  <2>3. QED  BY <1>1, <2>1, <2>2
<1>6. CASE Settled /\ Follower
  <2>1. PICK b \in ProjectBranches : \/ Discovered(b) \/ beginScoring(b) \/ ScanOver(b) \/ finishJob(b)
                                     \/ finishWithoutReport(b)
    BY <1>6 DEF Follower
  <2>2. CASE b = a
    BY <1>5, <1>6, <2>1, <2>2
  <2>3. CASE b # a
    BY <1>5, <1>6, <2>1, <2>3
  <2>4. QED  BY <2>2, <2>3
<1>7. QED  BY <1>2, <1>3, <1>4, <1>6 DEF DashboardNext

\* What the page reads goes on without its reader.
LEMMA ReadStep ==
  ASSUME DashboardNext, ~Reader
  PROVE  /\ shownPage' = shownPage /\ (reposRead # "unread" => reposRead' = reposRead)
         /\ readOver /\ readsEnabled => waitingFor' = NotWaiting /\ askedFor' = askedFor
<1> USE DEF pageVars, readVars
<1>1. CASE Effects
  BY <1>1 DEF Effects, Ask, AskDue, pinScanResults, Remember, readOver
<1>2. CASE Settled /\ Answers
  BY <1>2 DEF Answers, Answered, AskAgain, ReadRepos, ReadBranches, ReadHistory, readOver
<1>3. CASE Settled /\ Elsewhere
  BY <1>3 DEF Elsewhere, ScoreWorker, ScanEnds, StartedElsewhere, readOver
<1>4. CASE Settled /\ Follower
  <2>1. PICK b \in ProjectBranches : \/ Discovered(b) \/ beginScoring(b) \/ ScanOver(b) \/ finishJob(b)
                                     \/ finishWithoutReport(b)
    BY <1>4 DEF Follower
  <2>2. CASE beginScoring(b)
    <3>1. waitingFor' = [waitingFor EXCEPT !.shared = @ /\ waitingFor.key.branch # b]
          /\ askedFor' = askedFor /\ shownPage' = shownPage /\ reposRead' = reposRead
      BY <2>2 DEF beginScoring
    <3>2. ASSUME waitingFor = NotWaiting PROVE waitingFor' = NotWaiting
      <4>1. (NotWaiting.shared /\ waitingFor.key.branch # b) = FALSE
        BY DEF NotWaiting
      <4>2. waitingFor' = [NotWaiting EXCEPT !.shared = FALSE]
        BY <3>1, <3>2, <4>1
      <4>3. QED  BY <4>2 DEF NotWaiting
    <3>3. QED  BY <3>1, <3>2 DEF readOver
  <2>3. CASE Discovered(b) \/ ScanOver(b) \/ finishJob(b) \/ finishWithoutReport(b)
    BY <2>3 DEF Discovered, ScanOver, finishJob, finishWithoutReport, readOver
  <2>4. QED  BY <2>1, <2>2, <2>3
<1>5. QED  BY <1>1, <1>2, <1>3, <1>4 DEF DashboardNext

LEMMA ResultsStay ==
  ASSUME DashboardOK, DashboardNext, readingResults, activeBranch' = activeBranch, ~Reader
  PROVE  report' \in {0, report, pinned[activeBranch]}
<1> PICK a : a = activeBranch
  OBVIOUS
<1>1. /\ DashboardShape /\ KeptFits /\ NamesFit /\ ResultFits /\ ReadsFit
  BY DEF DashboardOK, DashboardCore
<1>2. (DashboardShape /\ KeptFits /\ NamesFit /\ ResultFits)'
  BY DashboardMoves DEF DashboardOK, DashboardCore
<1>3. /\ readsEnabled /\ a \in ProjectBranches /\ report # 0 /\ report \in Nat
      /\ readSnapshotId # 0 => report = readSnapshotId
  BY <1>1, ShownFits DEF readingResults
<1>4. /\ trackedJob = jobOf[a] /\ jobOf[a] # "none" /\ waitingFor = NotWaiting
      /\ address.snapshot # 0 \/ pinned[a] # 0
  BY <1>3 DEF readingResults, readOver, trackedJob
<1>5. /\ address' = address
      /\ \/ /\ result' = result /\ latestKept'[a] = latestKept[a] /\ jobOf'[a] = jobOf[a]
            /\ pinned'[a] = pinned[a] \/ PinDue
         \/ /\ Settled
            /\ beginScoring(a) \/ ScanOver(a) \/ finishJob(a) \/ finishWithoutReport(a)
  <2>1. ~Discovered(a)
    BY <1>4 DEF Discovered
  <2>2. QED  BY <1>1, <1>3, <1>4, <2>1, BranchStep
<1>6. trackedJob' = jobOf'[a] /\ activeBranch' = a
  BY <1>3 DEF trackedJob
<1>7. (DashboardShape /\ KeptFits /\ NamesFit /\ ResultFits
         => report \in {0, readSnapshotId} \/ readSnapshotId = 0)'
  BY NamedIsShown, PTL
<1>8. report' \in {0, readSnapshotId'} \/ readSnapshotId' = 0
  BY <1>2, <1>7
<1>9. CASE address.snapshot # 0
  BY <1>3, <1>5, <1>8, <1>9 DEF readSnapshotId
<1>10. CASE address.snapshot = 0
  <2>1. pinned[a] # 0 /\ ~PinDue
    BY <1>4, <1>10 DEF PinDue
  <2>2. readSnapshotId = (IF jobOf[a] \in {"scoring", "ready"} THEN pinned[a] ELSE 0)
    BY <1>4, <1>10 DEF readSnapshotId, pinnedSnapshotId
  <2>3. readSnapshotId' = (IF jobOf'[a] \in {"scoring", "ready"} THEN pinned'[a] ELSE 0)
    BY <1>5, <1>6, <1>10 DEF readSnapshotId, pinnedSnapshotId
  <2>4. readSnapshotId = 0 =>
          /\ report \in {0, latestKept[a], result.snapshot}
          /\ latestKept[a] # 0 => report = latestKept[a]
          /\ latestKept[a] = 0 => report = IF result.key = AtBranch(a, 0) THEN result.snapshot ELSE 0
    BY <1>3, LatestShown
  <2>5. readSnapshotId' = 0 =>
          /\ report' = 0 \/ latestKept'[a] # 0 => report' \in {0, latestKept'[a]}
          /\ latestKept'[a] = 0 => report' \in {0, IF result'.key = AtBranch(a, 0)
                                                   THEN result'.snapshot ELSE 0}
    <3>1. (readSnapshotId = 0 /\ activeBranch \in ProjectBranches
            => /\ ~readsEnabled => report = 0
               /\ readsEnabled /\ latestKept[activeBranch] # 0 => report = latestKept[activeBranch]
               /\ readsEnabled /\ latestKept[activeBranch] = 0
                    => report = IF result.key = AtBranch(activeBranch, 0) THEN result.snapshot ELSE 0)'
      BY LatestShown, PTL
    <3>2. QED  BY <1>3, <1>6, <3>1
  <2>6. CASE /\ result' = result /\ latestKept'[a] = latestKept[a] /\ jobOf'[a] = jobOf[a]
             /\ pinned'[a] = pinned[a]
    <3>1. readSnapshotId' = readSnapshotId
      BY <2>2, <2>3, <2>6
    <3>2. QED  BY <1>3, <1>8, <2>4, <2>5, <2>6, <3>1
  <2>7. CASE Settled /\ beginScoring(a)
    <3>1. jobOf'[a] = "scoring" /\ pinned'[a] = pinned[a]
      BY <1>1, <1>3, <2>1, <2>7 DEF beginScoring, DashboardShape
    <3>2. QED  BY <1>8, <2>1, <2>3, <3>1
  <2>8. CASE Settled /\ ScanOver(a)
    <3>1. jobOf[a] = "scanning" /\ jobOf'[a] = "none" /\ latestKept' = latestKept /\ result' = result
      BY <1>1, <1>3, <2>8 DEF ScanOver, forget, DashboardShape, readVars
    <3>2. QED  BY <2>2, <2>3, <2>4, <2>5, <3>1
  <2>9. CASE Settled /\ finishJob(a)
    <3>1. PICK s : s = Newest(Snapshotted(a)) /\ s \in scored
      BY <2>9 DEF finishJob
    <3>2. latestKept'[a] = s /\ s # 0
      BY <1>1, <1>3, <2>9, <3>1, NoSnapshotNamed DEF finishJob, DashboardShape
    <3>3. CASE pinned[a] # s
      <4>1. jobOf'[a] = "ready" /\ pinned'[a] = pinned[a]
        BY <1>1, <1>3, <2>1, <2>9, <3>1, <3>3 DEF finishJob, DashboardShape
      <4>2. QED  BY <1>8, <2>1, <2>3, <4>1
    <3>4. CASE pinned[a] = s
      <4>1. jobOf'[a] = "none"
        BY <1>1, <1>3, <2>9, <3>1, <3>4 DEF finishJob, forget, DashboardShape
      <4>2. QED  BY <2>3, <2>5, <3>2, <3>4, <4>1
    <3>5. QED  BY <3>3, <3>4
  <2>10. CASE Settled /\ finishWithoutReport(a)
    <3>1. jobOf[a] = "scoring" /\ jobOf'[a] = "none" /\ latestKept'[a] = 0 /\ result' = result
      BY <1>1, <1>3, <2>10 DEF finishWithoutReport, forget, DashboardShape, readVars
    <3>2. healthKey = AtBranch(a, pinned[a])
      BY <2>2, <3>1 DEF healthKey
    <3>3. askedFor = healthKey /\ healthKey # Unasked.key
      <4>1. healthKey.snapshot # 0 /\ Unasked.key.snapshot = 0
        BY <2>1, <3>2, NoSnapshotNamed DEF Unasked
      <4>2. QED  BY <1>3, <2>10, <4>1 DEF Settled, AskDue
    <3>4. result.key = AtBranch(a, pinned[a])
      BY <1>1, <1>4, <3>2, <3>3 DEF ReadsFit
    <3>5. result'.key # AtBranch(a, 0)
      BY <2>1, <3>1, <3>4, NoSnapshotNamed
    <3>6. QED  BY <2>3, <2>5, <3>1, <3>5
  <2>11. QED  BY <1>5, <2>1, <2>6, <2>7, <2>8, <2>9, <2>10
<1>11. QED  BY <1>9, <1>10

\* A report that is there is on the page, once the projects are read.
LEMMA ReportIsOnPage ==
  ASSUME DashboardShape, KeptFits, NamesFit, ResultFits, report # 0, reposRead \notin {"unread", "gone"}
  PROVE  body = "results"
<1>1. shown.is = "report"
  BY ShownFits
<1>2. healthKey \in ReportKeys
  BY KeyIsNamed
<1>3. QED  BY <1>1, <1>2, BodyIs DEF guessUnconfirmed

\* What is noted as being read is named, or it is kept for the reader while its scan is followed;
\* while the scan runs, it is on the page.
ReadingHolds ==
  reading # 0 =>
    /\ activeBranch \in ProjectBranches /\ readsEnabled /\ reposRead # "unread"
    /\ address.snapshot # 0 => reading = address.snapshot
    /\ address.snapshot = 0 =>
         /\ pinned[activeBranch] # 0 /\ jobOf[activeBranch] # "none"
         /\ jobOf[activeBranch] = "scanning" => readingResults /\ report = reading

LEMMA ReadingIs ==
  ASSUME DashboardOK, readingResults
  PROVE  /\ activeBranch \in ProjectBranches /\ readsEnabled /\ reposRead # "unread" /\ report # 0
         /\ address.snapshot # 0 => report = address.snapshot
         /\ address.snapshot = 0 => pinned[activeBranch] # 0 /\ jobOf[activeBranch] # "none"
<1>1. /\ DashboardShape /\ KeptFits /\ NamesFit /\ ResultFits
  BY DEF DashboardOK, DashboardCore
<1>2. shown.is = "report" /\ body = "results"
  BY <1>1, ShownFits DEF readingResults
<1>3. reposRead # "unread"
  BY <1>1, <1>2, KeyIsNamed, BodyIs
<1>4. readSnapshotId = IF address.snapshot # 0 THEN address.snapshot ELSE pinnedSnapshotId
  BY DEF readSnapshotId
<1>5. QED  BY <1>1, <1>2, <1>3, <1>4, ShownFits DEF readingResults, trackedJob

LEMMA NotedAfresh ==
  ASSUME DashboardOK', reading' = IF readingResults' THEN report' ELSE 0
  PROVE  ReadingHolds'
<1>1. (DashboardOK /\ readingResults
         => /\ activeBranch \in ProjectBranches /\ readsEnabled /\ reposRead # "unread" /\ report # 0
            /\ address.snapshot # 0 => report = address.snapshot
            /\ address.snapshot = 0 => pinned[activeBranch] # 0 /\ jobOf[activeBranch] # "none")'
  BY ReadingIs, PTL
<1>2. QED  BY <1>1 DEF ReadingHolds

\* What is being read, through a step that is not the reader's.
LEMMA ReadingStays ==
  ASSUME DashboardOK, DashboardOK', DashboardNext, ~Reader, ~GaveUp, ReadingHolds, reading # 0,
         activeBranch' = activeBranch
  PROVE  /\ body' = "results" => report' \in {reading, pinned[activeBranch]}
         /\ ~(body' = "results" /\ trackedJob' = "none") /\ reading' \in {reading, report'}
              => ReadingHolds' \/ readingResults'
<1> PICK a : a = activeBranch
  OBVIOUS
<1>1. /\ DashboardShape /\ KeptFits /\ NamesFit /\ ResultFits /\ ReadsFit
  BY DEF DashboardOK, DashboardCore
<1>2. (DashboardShape /\ KeptFits /\ NamesFit /\ ResultFits)'
  BY DEF DashboardOK, DashboardCore
<1>3. a \in ProjectBranches /\ readsEnabled /\ reposRead = "here"
  BY <1>1 DEF ReadingHolds, readsEnabled, DashboardShape
<1>4. address' = address /\ shownPage' = "dashboard" /\ reposRead' = "here"
  BY <1>1, <1>3, BranchStep, ReadStep DEF readsEnabled
<1>5. readsEnabled'
  BY <1>2, <1>3, <1>4, BranchNames DEF readsEnabled, branchResolved, settledOnRealBranch, DashboardShape
<1>6. trackedJob' = jobOf'[a] /\ activeBranch' = a
  BY <1>3 DEF trackedJob
<1>7. /\ report' \in Nat /\ (body' = "results" => report' # 0)
      /\ report' # 0 /\ readSnapshotId' # 0 => report' = readSnapshotId'
  <2>1. (DashboardShape /\ KeptFits /\ NamesFit /\ ResultFits
           => /\ report \in Nat /\ (shown.is # "report" => report = 0)
              /\ shown.is = "report" => /\ readsEnabled /\ activeBranch \in ProjectBranches
                                        /\ report \in Snapshotted(activeBranch) /\ report # 0
                                        /\ readSnapshotId # 0 => report = readSnapshotId
              /\ body = "results" => shown.is = "report")'
    BY ShownFits, PTL
  <2>2. QED  BY <1>2, <2>1
<1>8. CASE address.snapshot # 0
  <2>1. reading = address.snapshot /\ readSnapshotId' = address.snapshot
    BY <1>4, <1>8 DEF ReadingHolds, readSnapshotId
  <2>2. body' = "results" => report' = reading
    BY <1>7, <1>8, <2>1
  <2>3. reading' \in {reading, report'} => ReadingHolds' \/ readingResults'
    BY <1>3, <1>4, <1>5, <1>6, <1>7, <1>8, <2>1 DEF ReadingHolds
  <2>4. QED  BY <2>2, <2>3
<1>9. CASE address.snapshot = 0
  <2>1. /\ pinned[a] # 0 /\ jobOf[a] # "none" /\ ~PinDue
        /\ jobOf[a] = "scanning" => readingResults /\ report = reading
    BY <1>9 DEF ReadingHolds, PinDue
  <2>2. readSnapshotId' = IF jobOf'[a] \in {"scoring", "ready"} THEN pinned'[a] ELSE 0
    BY <1>4, <1>6, <1>9 DEF readSnapshotId, pinnedSnapshotId
  <2>3. \/ jobOf'[a] = jobOf[a] /\ pinned'[a] = pinned[a]
        \/ Settled /\ (beginScoring(a) \/ ScanOver(a) \/ finishJob(a))
    <3>1. ~Discovered(a)
      BY <2>1 DEF Discovered
    <3>2. ~finishWithoutReport(a)
      BY <1>3, <1>9 DEF GaveUp
    <3>3. QED  BY <1>1, <1>3, <2>1, <3>1, <3>2, BranchStep
  \* The scan runs: what is read is on the page.
  <2>4. CASE jobOf[a] = "scanning"
    <3>1. report' \in {0, reading, pinned[a]} /\ readingResults /\ report = reading
      BY <2>1, <2>4, ResultsStay
    <3>2. body' = "results" => report' \in {reading, pinned[a]}
      BY <1>7, <3>1
    <3>3. waitingFor = NotWaiting /\ readOver
      BY <3>1 DEF readingResults, readOver
    <3>4. CASE beginScoring(a)
      <4>1. jobOf'[a] = "scoring" /\ pinned'[a] = pinned[a]
        BY <1>1, <1>3, <2>1, <3>4 DEF beginScoring, DashboardShape
      <4>2. ReadingHolds' \/ reading' # reading
        BY <1>3, <1>4, <1>5, <1>6, <1>9, <2>1, <4>1 DEF ReadingHolds
      <4>3. reading' = report' => ReadingHolds'
        BY <1>3, <1>4, <1>5, <1>6, <1>9, <2>1, <4>1 DEF ReadingHolds
      <4>4. QED  BY <3>2, <4>2, <4>3
    <3>5. CASE ~beginScoring(a) /\ ~finishJob(a)
      <4>1. jobOf'[a] \in {"scanning", "none"} /\ latestKept'[a] = latestKept[a] /\ result' = result
            /\ (jobOf'[a] = "scanning" => pinned'[a] = pinned[a])
        <5>1. /\ result' = result
              /\ \/ latestKept'[a] = latestKept[a] /\ jobOf'[a] = jobOf[a] /\ (pinned'[a] = pinned[a] \/ PinDue)
                 \/ Discovered(a) \/ ScanOver(a) \/ finishWithoutReport(a)
          BY <1>1, <1>3, <3>3, <3>5, BranchStep
        <5>2. ~Discovered(a) /\ ~finishWithoutReport(a)
          BY <2>4 DEF Discovered, finishWithoutReport
        <5>3. ScanOver(a) => jobOf'[a] = "none" /\ latestKept' = latestKept
          BY <1>1, <1>3 DEF ScanOver, forget, DashboardShape
        <5>4. QED  BY <2>1, <2>4, <5>1, <5>2, <5>3
      <4>2. readSnapshotId = 0 /\ readSnapshotId' = 0
        BY <1>3, <1>9, <2>2, <2>4, <4>1 DEF readSnapshotId, pinnedSnapshotId, trackedJob
      <4>3. report # 0
        BY <1>1, <3>1, ShownFits DEF readingResults
      <4>4. report' = report
        <5>1. report = IF latestKept[a] # 0 THEN latestKept[a]
                       ELSE IF result.key = AtBranch(a, 0) THEN result.snapshot ELSE 0
          BY <1>3, <4>2, LatestShown
        <5>2. (readSnapshotId = 0 /\ activeBranch \in ProjectBranches
                 => /\ readsEnabled /\ latestKept[activeBranch] # 0 => report = latestKept[activeBranch]
                    /\ readsEnabled /\ latestKept[activeBranch] = 0
                         => report = IF result.key = AtBranch(activeBranch, 0)
                                     THEN result.snapshot ELSE 0)'
          BY LatestShown, PTL
        <5>3. report' = IF latestKept'[a] # 0 THEN latestKept'[a]
                        ELSE IF result'.key = AtBranch(a, 0) THEN result'.snapshot ELSE 0
          BY <1>3, <1>5, <1>6, <4>2, <5>2
        <5>4. QED  BY <4>1, <5>1, <5>3
      <4>5. body' = "results"
        <5>1. (DashboardShape /\ KeptFits /\ NamesFit /\ ResultFits /\ report # 0
                 /\ reposRead \notin {"unread", "gone"} => body = "results")'
          BY ReportIsOnPage, PTL
        <5>2. QED  BY <1>2, <1>4, <4>3, <4>4, <5>1
      <4>6. CASE jobOf'[a] = "none"
        BY <1>6, <3>2, <4>5, <4>6
      <4>7. CASE jobOf'[a] = "scanning"
        <5>1. healthKey' = healthKey /\ askedFor' = askedFor /\ waitingFor' = NotWaiting
          BY <1>3, <1>6, <3>3, <4>2, ReadStep DEF healthKey
        <5>2. readOver'
          BY <3>3, <4>1, <5>1 DEF readOver
        <5>3. readingResults'
          BY <1>6, <2>1, <4>1, <4>5, <4>7, <5>2 DEF readingResults
        <5>4. QED  BY <3>2, <5>3
      <4>8. QED  BY <4>1, <4>6, <4>7
    <3>6. ~finishJob(a)
      BY <2>4 DEF finishJob
    <3>7. QED  BY <3>4, <3>5, <3>6
  \* The scan is done: what is read is what is kept, also when its score has come.
  <2>5. CASE jobOf[a] # "scanning"
    <3>1. jobOf[a] \in {"scoring", "ready"} /\ ~beginScoring(a) /\ ~ScanOver(a)
      BY <1>1, <1>3, <2>1, <2>5 DEF DashboardShape, beginScoring, ScanOver
    <3>2. CASE jobOf'[a] \in {"scoring", "ready"} /\ pinned'[a] = pinned[a]
      <4>1. body' = "results" => report' = pinned[a]
        BY <1>7, <2>1, <2>2, <3>2
      <4>2. reading' # 0 => ReadingHolds'
        BY <1>3, <1>4, <1>5, <1>6, <1>9, <2>1, <3>2 DEF ReadingHolds
      <4>3. reading' = 0 => ReadingHolds'
        BY DEF ReadingHolds
      <4>4. QED  BY <4>1, <4>2, <4>3
    <3>3. CASE finishJob(a)
      <4>1. PICK s : s = Newest(Snapshotted(a)) /\ s \in scored
        BY <3>3 DEF finishJob
      <4>2. latestKept'[a] = s /\ s # 0
        BY <1>1, <1>3, <3>3, <4>1, NoSnapshotNamed DEF finishJob, DashboardShape
      <4>3. CASE pinned[a] # s
        <5>1. jobOf'[a] = "ready" /\ pinned'[a] = pinned[a]
          BY <1>1, <1>3, <2>1, <3>3, <4>1, <4>3 DEF finishJob, DashboardShape
        <5>2. QED  BY <3>2, <5>1
      <4>4. CASE pinned[a] = s
        <5>1. jobOf'[a] = "none"
          BY <1>1, <1>3, <3>3, <4>1, <4>4 DEF finishJob, forget, DashboardShape
        <5>2. (readSnapshotId = 0 /\ activeBranch \in ProjectBranches
                 => (readsEnabled /\ latestKept[activeBranch] # 0 => report = latestKept[activeBranch]))'
          BY LatestShown, PTL
        <5>3. report' = pinned[a] /\ report' # 0
          BY <1>3, <1>5, <1>6, <2>2, <4>2, <4>4, <5>1, <5>2
        <5>4. (DashboardShape /\ KeptFits /\ NamesFit /\ ResultFits /\ report # 0
                 /\ reposRead \notin {"unread", "gone"} => body = "results")'
          BY ReportIsOnPage, PTL
        <5>5. body' = "results"
          BY <1>2, <1>4, <5>3, <5>4
        <5>6. QED  BY <1>6, <5>1, <5>3, <5>5
      <4>5. QED  BY <4>3, <4>4
    <3>4. QED  BY <2>3, <3>1, <3>2, <3>3
  <2>6. QED  BY <2>4, <2>5
<1>10. address.snapshot \in Nat
  BY <1>1 DEF DashboardShape, ReportKeys
<1>11. QED  BY <1>8, <1>9

LEMMA ReadingMoves ==
  ASSUME DashboardOK, ReadingHolds, [DashboardNext]_dashboardVars
  PROVE  /\ DashboardOK' /\ ReadingHolds'
         /\ [reading # 0 /\ activeBranch' = activeBranch /\ body' = "results"
               /\ report' \notin {reading, pinned[activeBranch]} => Reader \/ GaveUp]_dashboardVars
<1>1. DashboardOK'
  BY DashboardMoves
<1>2. CASE DashboardNext /\ (readingResults' \/ reading' = 0)
  <2>1. ReadingHolds'
    <3>1. CASE readingResults'
      BY <1>1, <1>2, <3>1, NotedAfresh DEF DashboardNext, NoteRead
    <3>2. CASE reading' = 0
      BY <3>2 DEF ReadingHolds
    <3>3. QED  BY <1>2, <3>1, <3>2
  <2>2. reading # 0 /\ activeBranch' = activeBranch /\ body' = "results" /\ ~Reader /\ ~GaveUp
          => report' \in {reading, pinned[activeBranch]}
    BY <1>1, <1>2, ReadingStays
  <2>3. QED  BY <1>1, <2>1, <2>2
<1>3. CASE DashboardNext /\ ~readingResults' /\ reading' # 0
  <2>1. /\ reading' = reading /\ ~Reader /\ ~GaveUp /\ activeBranch' = activeBranch
        /\ ~(body' = "results" /\ trackedJob' = "none")
    BY <1>3 DEF DashboardNext, NoteRead
  <2>2. ReadingHolds' /\ (body' = "results" => report' \in {reading, pinned[activeBranch]})
    BY <1>1, <1>3, <2>1, ReadingStays
  <2>3. QED  BY <1>1, <2>1, <2>2
<1>4. CASE UNCHANGED dashboardVars
  <2>1. UNCHANGED <<apiVars, jobVars, latestKept, kept, pageVars, readVars, reading>>
    BY <1>4 DEF dashboardVars
  <2>2. activeBranch' = activeBranch /\ trackedJob' = trackedJob
    BY <2>1 DEF activeBranch, urlBranchAvailable, likelyBranch, trackedJob, jobVars, pageVars
  <2>3. readsEnabled' = readsEnabled /\ healthKey' = healthKey
    BY <2>1, <2>2 DEF readsEnabled, branchResolved, settledOnRealBranch, healthKey, readSnapshotId,
                      pinnedSnapshotId, jobVars, pageVars
  <2>4. readOf' = readOf
    BY <2>1 DEF readOf, cachedReport, apiVars, readVars
  <2>5. shown' = shown
    BY <2>3, <2>4 DEF shown
  <2>6. bodyFor' = bodyFor
    BY <2>1, <2>2 DEF bodyFor, jobActive, guessUnconfirmed, pageVars
  <2>7. report' = report /\ body' = body
    BY <2>1, <2>5, <2>6 DEF report, body, pageVars
  <2>8. ReadingHolds'
    BY <2>1, <2>2, <2>3, <2>7 DEF ReadingHolds, readingResults, readOver, jobVars, pageVars, readVars
  <2>9. QED  BY <1>1, <1>4, <2>8
<1>5. QED  BY <1>2, <1>3, <1>4

\* For any branches and snapshots: while a scan is followed, results that are being read come back,
\* or those that were kept for the reader, also after a page without results, unless he acts or the
\* score of the scan never comes.
THEOREM ReaderKeepsResults == DashboardSpec => NewResultsWait
<1>1. DashboardInit => ReadingHolds
  BY DEF DashboardInit, ReadingHolds
<1>2. DashboardSpec => [](DashboardOK /\ ReadingHolds)
  BY <1>1, DashboardStarts, ReadingMoves, PTL DEF DashboardSpec
<1>3. QED  BY <1>2, ReadingMoves, PTL DEF DashboardSpec, NewResultsWait

(***************************************************************************)
(* The pages together: whichever is showing, a step of the whole is a step *)
(* of each, or leaves it as it is.                                         *)
(***************************************************************************)
LEMMA PartsStart ==
  Init => /\ DashboardInit /\ FindingsInit /\ DetailInit
          /\ ViewsInit /\ TrendInit /\ BarInit
BY DEF Init

LEMMA PartsMove ==
  [Next]_allVars => /\ [DashboardNext]_dashboardVars /\ [FindingsNext]_findingsVars
                    /\ [DetailNext]_detailVars /\ [ViewsNext]_viewsVars
                    /\ [TrendNext]_trendVars /\ [BarNext]_barVars
<1> SUFFICES ASSUME [Next]_allVars
             PROVE  /\ [DashboardNext]_dashboardVars /\ [FindingsNext]_findingsVars
                    /\ [DetailNext]_detailVars /\ [ViewsNext]_viewsVars
                    /\ [TrendNext]_trendVars /\ [BarNext]_barVars
  OBVIOUS
<1>1. CASE Next
  BY <1>1 DEF Next, DashboardSteps, FindingsSteps, DetailSteps, ViewsSteps, TrendSteps, BarSteps
<1>2. CASE UNCHANGED allVars
  BY <1>2 DEF allVars
<1>3. QED  BY <1>1, <1>2

\* The dashboard and what is on it, together, are each of them.
LEMMA PagesAreTheirParts ==
  Spec => DashboardSpec /\ FindingsSpec /\ DetailSpec /\ ViewsSpec /\ TrendSpec /\ BarSpec
BY PartsStart, PartsMove, PTL
   DEF Spec, DashboardSpec, FindingsSpec, DetailSpec, ViewsSpec, TrendSpec, BarSpec

\* In the whole that is model-checked, for any branches, snapshots, findings, files, readers and
\* scores: the results, the views, the trend and the bar keep their promises, and no new results
\* come without the reader.
THEOREM PanesAreRight == Spec => []PanesInv /\ NewResultsWait
<1>1. Spec => []DashboardInv /\ []TabIsLastChoice /\ []TrendFits /\ []BarInv
  BY PagesAreTheirParts, FirstScanIsOfferedRightly, LastChoiceOpens, AxisHoldsHistory, BarIsRight, PTL
<1>2. DashboardInv /\ TabIsLastChoice /\ TrendFits /\ BarInv => PanesInv
  BY DEF PanesInv
<1>3. QED
  BY <1>1, <1>2, PagesAreTheirParts, ReaderKeepsResults, PTL

\* In the whole, for any findings and snapshots: the list keeps its promises, on the page or off it.
THEOREM ListIsRight == Spec => []FindingsInv /\ []ListInv
<1>1. FindingsInv => ListInv
  BY DEF ListInv
<1>2. QED  BY <1>1, PagesAreTheirParts, FindingsAreRight, PTL

\* In the whole, for any files and findings: the code under a finding is its own.
THEOREM CodeIsRight == Spec => []DetailInv /\ []ExcerptInv
<1>1. DetailInv => ExcerptInv
  BY DEF ExcerptInv
<1>2. QED  BY <1>1, PagesAreTheirParts, ExcerptIsRight, PTL
=============================================================================
