----------------------------- MODULE SourceScope ------------------------------
(***************************************************************************)
(* The "Directory exclusions" dialog (source-scope-settings.tsx) over the  *)
(* saved classification of one repository: patterns of test files, and     *)
(* patterns that make files production code again.  The repository is one   *)
(* directory of files and some files next to it.  (The line that says an    *)
(* error is left out.)                                                     *)
(***************************************************************************)
EXTENDS Integers, FiniteSets

CONSTANTS FolderFiles, TopFiles,  \* the files of the directory, and the others
          DetectedFiles,          \* the files of the directory detected as tests
          MaxLoads,               \* reads that are out
          MaxSaves                \* saves, which may be out together

ASSUME ScopeAssumption == /\ FolderFiles \cap TopFiles = {} /\ MaxLoads \in Nat /\ MaxSaves \in Nat
                          /\ DetectedFiles \subseteq FolderFiles

VARIABLES saved,     \* the API: the repository's configuration
          config,    \* the dialog's patterns
          panel,     \* is it open, loaded, busy; did a read ever arrive?
          loads,     \* the reads that are out
          saves      \* the saves: not asked yet, out, answered, heard

scopeVars == <<saved, config, panel, loads, saves>>

Folder   == "folder"
Detected == "detected"  \* a pattern of the API's own, as "**/test/**"
Files    == FolderFiles \cup TopFiles
Nodes    == Files \cup {Folder}
Patterns == Nodes \cup {Detected}

leafPaths(node) == IF node = Folder THEN FolderFiles ELSE {node}
matches(p)      == IF p = Detected THEN DetectedFiles ELSE leafPaths(p)
Below(node)     == IF node = Folder THEN FolderFiles ELSE {}

Configs  == [tests : SUBSET Patterns, overrides : SUBSET Patterns]
Empty    == [tests |-> {}, overrides |-> {}]
NoLoad   == [at |-> "none", value |-> Empty]
NoSave   == [at |-> "none", value |-> Empty]

(***************************************************************************)
(* What is ticked.                                                         *)
(***************************************************************************)
matchesAny(f, ps) == \E p \in ps : f \in matches(p)
selectedIn(c, f)  == matchesAny(f, c.tests) /\ ~matchesAny(f, c.overrides)
checked(c, node)  == leafPaths(node) # {} /\ \A f \in leafPaths(node) : selectedIn(c, f)

toggled(c, node) ==
  IF checked(c, node)
    THEN [c EXCEPT !.tests = @ \ {node}, !.overrides = @ \cup {node}]
    ELSE [c EXCEPT !.tests = @ \cup {node}, !.overrides = @ \ ({node} \cup Below(node))]

\* Every box may come on screen: directories are opened and searched freely.
Enabled == panel.open /\ panel.loaded /\ ~panel.busy

ScopeInit ==
  /\ saved = Empty /\ config = Empty
  /\ panel = [open |-> FALSE, loaded |-> FALSE, busy |-> FALSE, read |-> FALSE]
  /\ loads = [l \in 1..MaxLoads |-> NoLoad]
  /\ saves = [n \in 1..MaxSaves |-> NoSave]

(***************************************************************************)
(* Opening and loading.  A read is not given up when the dialog closes.    *)
(***************************************************************************)
OpenScope ==
  /\ ~panel.open
  /\ \E l \in 1..MaxLoads :
       /\ \A m \in 1..l : (loads[m] = NoLoad) = (m = l)
       /\ loads' = [loads EXCEPT ![l].at = "out"]
  /\ panel' = [panel EXCEPT !.open = TRUE, !.busy = TRUE, !.loaded = FALSE]
  /\ UNCHANGED <<saved, config, saves>>

CloseScope ==
  /\ panel.open /\ panel' = [panel EXCEPT !.open = FALSE]
  /\ UNCHANGED <<saved, config, loads, saves>>

\* No patterns are answered as the API's own.
ScopeOutput == [saved EXCEPT !.tests = IF @ = {} THEN {Detected} ELSE @]

ServeLoad(l) ==
  /\ loads[l].at = "out"
  /\ \E at \in {"ok", "failed"} :
       loads' = [loads EXCEPT ![l] = [at |-> at, value |-> IF at = "ok" THEN ScopeOutput ELSE Empty]]
  /\ UNCHANGED <<saved, config, panel, saves>>

\* Mutant: an answer that failed enables the form as well.
LoadedAnyway(l) ==
  /\ loads[l].at \in {"ok", "failed"} /\ loads' = [loads EXCEPT ![l] = NoLoad]
  /\ IF loads[l].at = "ok"
       THEN config' = loads[l].value
            /\ panel' = [panel EXCEPT !.loaded = TRUE, !.busy = FALSE, !.read = TRUE]
       ELSE panel' = [panel EXCEPT !.loaded = TRUE, !.busy = FALSE]
            /\ UNCHANGED config
  /\ UNCHANGED <<saved, saves>>

Loaded(l) ==
  /\ loads[l].at \in {"ok", "failed"} /\ loads' = [loads EXCEPT ![l] = NoLoad]
  /\ IF loads[l].at = "ok"
       THEN config' = loads[l].value
            /\ panel' = [panel EXCEPT !.loaded = TRUE, !.busy = FALSE, !.read = TRUE]
       ELSE panel' = [panel EXCEPT !.busy = FALSE]
            /\ UNCHANGED config
  /\ UNCHANGED <<saved, saves>>

(***************************************************************************)
(* Editing and saving.                                                     *)
(***************************************************************************)
toggle(node) ==
  /\ Enabled /\ config' = toggled(config, node)
  /\ UNCHANGED <<saved, panel, loads, saves>>

\* A dialog that was closed over a save and opened again saves once more, as soon as its read
\* is back.
save ==
  /\ Enabled
  /\ \E n \in 1..MaxSaves :
       /\ \A m \in 1..MaxSaves : saves[m].at = "none" <=> m >= n
       /\ saves' = [saves EXCEPT ![n] = [at |-> "out", value |-> config]]
  /\ panel' = [panel EXCEPT !.busy = TRUE]
  /\ UNCHANGED <<saved, config, loads>>

\* A lost answer is a refusal to the dialog.
ServeSave(n) ==
  /\ saves[n].at = "out"
  /\ \E at \in {"ok", "failed"} :
       /\ saves' = [saves EXCEPT ![n] = [at |-> at, value |-> Empty]]
       /\ saved' \in {saved, saves[n].value} /\ (at = "ok" => saved' = saves[n].value)
  /\ UNCHANGED <<config, panel, loads>>

Heard(n) == saves' = [saves EXCEPT ![n] = [at |-> "heard", value |-> Empty]]

\* The dialog is closed, whether it is the one that was saved or one opened since.
ScopeSaved(n) ==
  /\ saves[n].at = "ok" /\ Heard(n)
  /\ panel' = [panel EXCEPT !.open = FALSE, !.busy = FALSE]
  /\ UNCHANGED <<saved, config, loads>>

ScopeSaveFailed(n) ==
  /\ saves[n].at = "failed" /\ Heard(n)
  /\ panel' = [panel EXCEPT !.busy = FALSE]
  /\ UNCHANGED <<saved, config, loads>>

ScopeNext ==
  \/ OpenScope \/ CloseScope \/ save
  \/ \E n \in 1..MaxSaves : ServeSave(n) \/ ScopeSaved(n) \/ ScopeSaveFailed(n)
  \/ \E l \in 1..MaxLoads : ServeLoad(l) \/ Loaded(l)
  \/ \E node \in Nodes : toggle(node)

ScopeSpec == ScopeInit /\ [][ScopeNext]_scopeVars

-----------------------------------------------------------------------------
\* A configuration that was never read does not overwrite the saved one: every save
\* sends what a read brought, with the user's ticks, also after a read that failed,
\* a dialog that was closed over a read or a save, and reads and saves answered in any order.
SavesOnlyWhatWasRead ==
  /\ saved \in Configs /\ config \in Configs
  /\ \A n \in 1..MaxSaves : saves[n].at # "none" => panel.read
=============================================================================
