--------------------------- MODULE FindingDetail ---------------------------
(***************************************************************************)
(* The code shown with a finding (finding-detail-panel.tsx and             *)
(* code-excerpt.tsx): the file at the analysed commit is read from GitHub  *)
(* once per session, a failed read is forgotten, and the lines around the  *)
(* finding are cut out of it.  PanelFindings, the report and with it the commit *)
(* change under a read that is still on its way.                           *)
(***************************************************************************)
EXTENDS Integers, FiniteSets

CONSTANTS PanelFindings, \* records of file, plain (a safe path), line and end (0: none)
          Commits,       \* the commits of the reports, NoCommit where it is unknown
          FileLength,    \* how many lines a file has at a commit
          MaxMoves       \* how often the finding or the report changes

NoCommit  == "unknown"
NoUrl     == <<>>
NoDetail  == [file |-> "", line |-> 0, end |-> 0, plain |-> FALSE]

ASSUME FindingDetailAssumption ==
  /\ \A f \in PanelFindings : f.line \in Nat /\ f.end \in Nat /\ f.plain \in BOOLEAN
  /\ FileLength \in [(Commits \ {NoCommit}) \X {f.file : f \in PanelFindings} -> Nat]
  /\ MaxMoves \in Nat

VARIABLES finding,   \* the finding on display, or NoDetail
          commit,    \* the commit of the report on display
          repoKnown, \* the project list, and with it the repository's address, is here
          files,     \* per URL: never asked for (or failed), on its way, or read
          waiting,   \* who waits for a file: the URL, and whether still on display
          excerpt,   \* the excerpt's state, or Unmounted
          moves

detailVars == <<finding, commit, repoKnown, files, waiting, excerpt, moves>>

CONTEXT   == 2
MAX_LINES == 14
Urls      == DOMAIN FileLength

Lesser(a, b)  == IF a < b THEN a ELSE b
Greater(a, b) == IF a > b THEN a ELSE b

\* The file at the analysed commit, or none when the metadata cannot be trusted.
githubLocation(f, sha, known) ==
  IF known /\ sha # NoCommit /\ f.plain /\ f.line >= 1 THEN <<sha, f.file>> ELSE NoUrl

\* The lines the GitHub link names.
githubRange(f) == f.line..Greater(f.line, f.end)

Loading(url) == [url |-> url, lines |-> NoUrl, failed |-> FALSE]
Unmounted == Loading(NoUrl)

\* A new file starts from its own loading state.
render(held, url) == IF held.url # url THEN Loading(url) ELSE held

\* Mutant: the effect of the last file still counts.
cleanupForgotten(url) == waiting \cup {[url |-> u, live |-> TRUE] : u \in {url} \ {NoUrl}}

\* The last file's effect is no longer live; the new file's effect waits for its lines.
cleanup(url) ==
  {[w EXCEPT !.live = FALSE] : w \in waiting} \cup {[url |-> u, live |-> TRUE] : u \in {url} \ {NoUrl}}

\* One request per file and commit for the whole session.
fileLines(url) ==
  IF url # NoUrl /\ files[url] = "absent" THEN [files EXCEPT ![url] = "pending"] ELSE files

\* The panel renders, and the excerpt's effect runs when its file has changed.
Display(f, sha, known) ==
  LET url == githubLocation(f, sha, known)
      was == githubLocation(finding, commit, repoKnown)
  IN  /\ finding' = f /\ commit' = sha /\ repoKnown' = known
      /\ excerpt' = render(excerpt, url)
      /\ IF url = was THEN UNCHANGED <<files, waiting>>
                      ELSE files' = fileLines(url) /\ waiting' = cleanup(url)

DetailInit ==
  /\ finding = NoDetail /\ commit \in Commits /\ repoKnown \in BOOLEAN
  /\ files = [u \in Urls |-> "absent"]
  /\ waiting = {} /\ excerpt = Unmounted /\ moves = 0

Move == moves < MaxMoves /\ moves' = moves + 1

\* A finding is opened, or the panel is closed.
SelectFinding ==
  /\ Move
  /\ \E f \in (PanelFindings \cup {NoDetail}) \ {finding} : Display(f, commit, repoKnown)

\* Another report is shown, with the same finding or one without it.
ShowReport ==
  /\ Move
  /\ \E sha \in Commits \ {commit}, f \in {finding, NoDetail} : Display(f, sha, repoKnown)

\* The project list arrives.
RepositoryKnown ==
  /\ ~repoKnown
  /\ Display(finding, commit, TRUE) /\ UNCHANGED moves

\* The callbacks of a settled read: only an effect that is still live sets the state.
Told(url, outcome) ==
  /\ waiting' = {w \in waiting : w.url # url}
  /\ excerpt' = IF [url |-> url, live |-> TRUE] \in waiting /\ excerpt # Unmounted
                  THEN outcome ELSE excerpt

FileRead(url) ==
  /\ files[url] = "pending"
  /\ files' = [files EXCEPT ![url] = "read"]
  /\ Told(url, [Loading(url) EXCEPT !.lines = url])
  /\ UNCHANGED <<finding, commit, repoKnown, moves>>

\* A file read before: its lines are there at once, but a callback later.
FileKnown(url) ==
  /\ files[url] = "read" /\ \E w \in waiting : w.url = url
  /\ Told(url, [Loading(url) EXCEPT !.lines = url])
  /\ UNCHANGED <<finding, commit, repoKnown, files, moves>>

\* Private, moved or offline: the failure is shown, and not remembered.
FileFails(url) ==
  /\ files[url] = "pending"
  /\ files' = [files EXCEPT ![url] = "absent"]
  /\ Told(url, [Loading(url) EXCEPT !.failed = TRUE])
  /\ UNCHANGED <<finding, commit, repoKnown, moves>>

DetailNext ==
  \/ SelectFinding \/ ShowReport \/ RepositoryKnown
  \/ \E url \in Urls : FileRead(url) \/ FileKnown(url) \/ FileFails(url)

DetailSpec == DetailInit /\ [][DetailNext]_detailVars

(***************************************************************************)
(* The lines cut out of a file of a given length.                          *)
(***************************************************************************)
last(f) == IF f.end > f.line THEN f.end ELSE f.line
from(f) == Greater(1, f.line - CONTEXT)

to(f, length) == Lesser(Lesser(length, last(f) + CONTEXT), from(f) + MAX_LINES - 1)

figure(f, length) == IF from(f) > length THEN {} ELSE from(f)..to(f, length)
marked(f, length) == {n \in figure(f, length) : n >= f.line /\ n <= last(f)}

Skeleton == excerpt # Unmounted /\ excerpt.lines = NoUrl /\ ~excerpt.failed
CodeShown == excerpt # Unmounted /\ excerpt.lines # NoUrl /\ ~excerpt.failed

-----------------------------------------------------------------------------
\* The code shown under a finding is that finding's file at that report's commit, whatever
\* order reads are answered in.
ExcerptIsOfThisFile ==
  /\ excerpt.url = githubLocation(finding, commit, repoKnown)
  /\ CodeShown => excerpt.lines = excerpt.url

\* A skeleton is never shown for good: its file is on its way, or read, and the effect that
\* waits for it is live, also after an earlier read failed or came late.
SkeletonIsAwaited ==
  Skeleton => /\ files[excerpt.url] # "absent"
              /\ [url |-> excerpt.url, live |-> TRUE] \in waiting

\* The lines cut out hold the finding's own line whenever the file has it, never more than
\* MAX_LINES, and what is marked is what the GitHub link names, as far as it is shown.
WindowHoldsFinding ==
  CodeShown =>
    LET length == FileLength[excerpt.lines] IN
    /\ finding.line <= length => finding.line \in marked(finding, length)
    /\ Cardinality(figure(finding, length)) <= MAX_LINES
    /\ marked(finding, length) = githubRange(finding) \cap figure(finding, length)

\* The code under a finding is its own, is waited for while it is missing, and holds its line.
DetailInv == ExcerptIsOfThisFile /\ SkeletonIsAwaited /\ WindowHoldsFinding
=============================================================================
