----------------------------- MODULE WorkspacePage -----------------------------
(***************************************************************************)
(* The settings of the workspace (app/(app)/workspace/page.tsx with        *)
(* workspace-form.tsx, create-workspace-dialog.tsx, delete-workspace-      *)
(* section.tsx), the selection shown without a workspace (no-workspace-    *)
(* state.tsx) and the switcher of the top bar.  The API binds a browser's  *)
(* session to one workspace; the tab learns of it by answers and reads.    *)
(***************************************************************************)
EXTENDS Integers

CONSTANTS Spaces,        \* workspace ids
          HomeSpaces,    \* those that exist at first; the user is their org-admin
          SpaceNames, Abouts,  \* names; texts of the optional fields, "" among them
          MaxSpaceEdits, \* edits of other administrators, switches by another tab
          MaxSpaceCalls, \* requests of the tab
          MaxSpaceEvents, \* of these two together
          OtherTab       \* whether another tab of the browser may switch the session

ASSUME SpaceAssumption == HomeSpaces \subseteq Spaces /\ "" \notin SpaceNames /\ "" \in Abouts
                          /\ HomeSpaces \subseteq SpaceNames  \* a first name of each
                          /\ {MaxSpaceEdits, MaxSpaceCalls, MaxSpaceEvents} \subseteq Nat
                          /\ OtherTab \in BOOLEAN

VARIABLES spaces,        \* the API: the fields of each, or that there is none
          bound,         \* the API: the workspace of the session
          spaceEdits, tabSwitched,   \* history: their count; whether another tab switched
          listed,        \* the list that was read, with the one it calls active
          permitted,     \* the permission that was read: workspace:update and delete
          noted,         \* use-workspace-scope's active workspace
          reading,       \* reads asked for
          onSettings,    \* /workspace is the address
          draft,                   \* what was typed
          newSpace, deletion,      \* the two dialogs, with what is typed in them
          saveCall, createCall, deleteCall, spaceCall, \* requests that are out
          callsSent                \* how many there were

spaceHosts == <<spaces, bound, spaceEdits, tabSwitched>>
spaceApi  == <<spaceHosts, callsSent>>
spaceRead == <<listed, permitted, noted, reading>>
spaceForm == <<onSettings, draft, newSpace, deletion>>
workspaceVars == <<spaceApi, spaceRead, spaceForm, saveCall, createCall, deleteCall, spaceCall>>

NoSpace  == "no workspace"
Unborn   == [state |-> "not created"]
Deleted  == [state |-> "deleted"]
NotRead  == [state |-> "loading"]
NoDraft  == [state |-> "no draft"]
Idle     == [stage |-> "none"]
Closed   == [open |-> FALSE, text |-> ""]
\* `about` stands for the description and the website: both optional, "" for none.
SpaceFields == [name : SpaceNames \cup {""}, about : Abouts]
LiveSpaces  == {s \in Spaces : spaces[s] \notin {Unborn, Deleted}}

\* useActiveWorkspace: the one the list calls active, else the one that was noted.
activeSpace ==
  IF listed = NotRead THEN NoSpace
  ELSE IF listed.active # NoSpace THEN listed.active
  ELSE IF noted \in DOMAIN listed.fields THEN noted
  ELSE NoSpace
fieldsOf(s) == listed.fields[s]
shownValues == IF draft # NoDraft THEN draft ELSE fieldsOf(activeSpace)

\* "Only what changed."
patchFor(s, values) == {f \in DOMAIN values : values[f] # fieldsOf(s)[f]}

\* WorkspaceGate and the page's own conditions.
SettingsShown == onSettings /\ noted # NoSpace /\ listed # NotRead /\ activeSpace # NoSpace
GateShown     == onSettings /\ noted = NoSpace
SpaceDialog   == SettingsShown /\ (newSpace.open \/ deletion.open)
InSettings    == SettingsShown /\ ~newSpace.open /\ ~deletion.open

MoreSpaceEvents == callsSent + spaceEdits < MaxSpaceEvents

\* A request belongs to the page that sent it, until that page is left.
pending(call) == call.stage # "none"
\* (Bound: one request of each kind at a time, also of a page opened again.)
send(call)    == ~pending(call) /\ callsSent < MaxSpaceCalls /\ MoreSpaceEvents
                 /\ callsSent' = callsSent + 1
busy(call)    == pending(call) /\ call.mine
disowned(call) == IF pending(call) THEN [call EXCEPT !.mine = FALSE] ELSE call

WorkspaceInit ==
  /\ spaces = [s \in Spaces |-> IF s \in HomeSpaces THEN [name |-> s, about |-> ""] ELSE Unborn]
  /\ bound \in HomeSpaces \cup {NoSpace} /\ noted = bound
  /\ spaceEdits = 0 /\ tabSwitched = FALSE
  /\ listed = NotRead /\ permitted = FALSE /\ reading = {"list", "session"}
  /\ onSettings = TRUE /\ draft = NoDraft
  /\ newSpace = Closed /\ deletion = Closed
  /\ saveCall = Idle /\ createCall = Idle /\ deleteCall = Idle /\ spaceCall = Idle
  /\ callsSent = 0

(***************************************************************************)
(* What the others do, and what the tab reads.                             *)
(***************************************************************************)
LeaveTheTab == UNCHANGED <<spaceRead, spaceForm, saveCall, createCall, deleteCall, spaceCall>>

OthersEdit(s, values) ==
  /\ s \in LiveSpaces /\ spaceEdits < MaxSpaceEdits /\ MoreSpaceEvents
  /\ spaceEdits' = spaceEdits + 1
  /\ values # spaces[s] /\ spaces' = [spaces EXCEPT ![s] = values]
  /\ LeaveTheTab /\ UNCHANGED <<bound, tabSwitched, callsSent>>

OtherTabSwitches(s) ==
  /\ OtherTab /\ spaceEdits < MaxSpaceEdits /\ MoreSpaceEvents
  /\ spaceEdits' = spaceEdits + 1
  /\ s \in LiveSpaces /\ bound # s /\ bound' = s /\ tabSwitched' = TRUE
  /\ LeaveTheTab /\ UNCHANGED <<spaces, callsSent>>

ForgetSettings ==
  /\ draft' = NoDraft /\ newSpace' = Closed /\ deletion' = Closed
  /\ saveCall' = disowned(saveCall) /\ createCall' = disowned(createCall)
KeepSettings == UNCHANGED <<draft, newSpace, deletion, saveCall, createCall>>

ListRead ==
  /\ "list" \in reading /\ reading' = reading \ {"list"}
  /\ listed' = [fields |-> [s \in LiveSpaces |-> spaces[s]], active |-> bound]
  /\ UNCHANGED <<spaceApi, permitted, noted, spaceForm, saveCall, createCall, deleteCall, spaceCall>>

\* Without a workspace the gate replaces the page.
SessionRead ==
  /\ "session" \in reading /\ reading' = reading \ {"session"}
  /\ permitted' = (bound # NoSpace) /\ noted' = bound
  /\ IF bound = NoSpace THEN ForgetSettings /\ deleteCall' = disowned(deleteCall)
                        ELSE KeepSettings /\ UNCHANGED deleteCall
  /\ UNCHANGED <<spaceApi, listed, onSettings, spaceCall>>

\* Mutant: the reads of the account are kept.
invalidateReads == UNCHANGED <<listed, permitted, reading>>

\* invalidateWorkspaceScope: what was read is dropped and read again.
invalidateScope == listed' = NotRead /\ permitted' = FALSE /\ reading' = {"list", "session"}

\* A teammate was invited, changed or removed: the counts are read again.
TeamWritten ==
  /\ SettingsShown /\ permitted /\ reading' = reading \cup {"list"} /\ reading' # reading
  /\ UNCHANGED <<spaceApi, listed, permitted, noted, spaceForm, saveCall, createCall, deleteCall,
                 spaceCall>>

LeaveSettings ==
  /\ onSettings /\ onSettings' = FALSE /\ ForgetSettings /\ deleteCall' = disowned(deleteCall)
  /\ UNCHANGED <<spaceApi, spaceRead, spaceCall>>
OpenSettings ==
  /\ ~onSettings /\ onSettings' = TRUE /\ KeepSettings
  /\ UNCHANGED <<spaceApi, spaceRead, deleteCall, spaceCall>>

(***************************************************************************)
(* The settings.                                                           *)
(***************************************************************************)
LeaveScope == UNCHANGED <<spaceHosts, noted, onSettings, newSpace, deletion, createCall, deleteCall,
                          spaceCall>>

\* The fields are not locked while a save is out.
EditField(f, text) ==
  /\ InSettings /\ permitted /\ draft' = [shownValues EXCEPT ![f] = text] /\ draft' \in SpaceFields
  /\ LeaveScope /\ UNCHANGED <<callsSent, listed, permitted, reading, saveCall>>

Discard ==
  /\ InSettings /\ draft # NoDraft /\ ~busy(saveCall) /\ draft' = NoDraft
  /\ LeaveScope /\ UNCHANGED <<callsSent, listed, permitted, reading, saveCall>>

\* reload() and publishWorkspacesChanged(), then the draft is dropped.
settingsSaved ==
  /\ reading' = reading \cup {"list"} /\ draft' = NoDraft

\* Nothing is sent when nothing changed.
onSave ==
  /\ InSettings /\ permitted /\ shownValues.name # ""
  /\ LET patch == patchFor(activeSpace, shownValues)
     IN  IF patch = {}
           THEN settingsSaved /\ ~busy(saveCall) /\ UNCHANGED <<saveCall, callsSent>>
           ELSE /\ send(saveCall)
                /\ saveCall' = [stage |-> "sent", space |-> activeSpace, patch |-> patch,
                                values |-> shownValues, mine |-> TRUE]
                /\ UNCHANGED <<reading, draft>>
  /\ LeaveScope /\ UNCHANGED <<listed, permitted>>

\* Only of the workspace the session is bound to.
ServeUpdate ==
  /\ saveCall.stage = "sent"
  /\ \/ /\ saveCall.space = bound
        /\ spaces' = [spaces EXCEPT ![bound] =
             [f \in DOMAIN @ |-> IF f \in saveCall.patch THEN saveCall.values[f] ELSE @[f]]]
        /\ saveCall' = [saveCall EXCEPT !.stage = "done"]
     \/ saveCall' = [saveCall EXCEPT !.stage = "refused"] /\ UNCHANGED spaces
  /\ UNCHANGED <<bound, spaceEdits, tabSwitched, callsSent, spaceRead, spaceForm, createCall, deleteCall,
                 spaceCall>>

\* The list is published also when the page has been left.
SettingsSaved ==
  /\ saveCall.stage = "done" /\ saveCall' = Idle
  /\ IF saveCall.mine THEN settingsSaved
                      ELSE reading' = reading \cup {"list"} /\ UNCHANGED draft
  /\ LeaveScope /\ UNCHANGED <<callsSent, listed, permitted>>

SettingsRefused ==
  /\ saveCall.stage = "refused" /\ saveCall' = Idle
  /\ LeaveScope /\ UNCHANGED <<callsSent, listed, permitted, reading, draft>>

(***************************************************************************)
(* A new workspace: from the page, or where there is none.                 *)
(***************************************************************************)
LeavePageRest == UNCHANGED <<onSettings, draft, saveCall, deleteCall, spaceCall>>
CreateOffered == (SettingsShown /\ newSpace.open) \/ GateShown

OpenCreate ==
  /\ InSettings /\ permitted /\ newSpace' = [newSpace EXCEPT !.open = TRUE]
  /\ LeavePageRest /\ UNCHANGED <<spaceApi, spaceRead, deletion, createCall>>

NameNewSpace(name) ==
  /\ CreateOffered /\ newSpace.text # name /\ newSpace' = [newSpace EXCEPT !.text = name]
  /\ LeavePageRest /\ UNCHANGED <<spaceApi, spaceRead, deletion, createCall>>

\* Also while the request is out, which goes on.
CloseCreate ==
  /\ SettingsShown /\ newSpace.open /\ newSpace' = Closed
  /\ LeavePageRest /\ UNCHANGED <<spaceApi, spaceRead, deletion, createCall>>

submitCreate ==
  /\ CreateOffered /\ newSpace.text # "" /\ send(createCall)
  /\ createCall' = [stage |-> "sent", name |-> newSpace.text, mine |-> TRUE]
  /\ LeavePageRest /\ UNCHANGED <<spaceHosts, spaceRead, newSpace, deletion>>

\* The new workspace is selected for the session in the same transaction.
ServeCreate(s) ==
  /\ createCall.stage = "sent"
  /\ \/ /\ spaces[s] = Unborn
        /\ spaces' = [spaces EXCEPT ![s] = [name |-> createCall.name, about |-> ""]]
        /\ bound' = s /\ createCall' = [stage |-> "done", space |-> s, mine |-> createCall.mine]
     \/ createCall' = [createCall EXCEPT !.stage = "refused"] /\ UNCHANGED <<spaces, bound>>
  /\ LeavePageRest /\ UNCHANGED <<spaceEdits, tabSwitched, callsSent, spaceRead, newSpace, deletion>>

\* adoptWorkspace: while the list loads again the page shows a skeleton, so what its
\* dialogs held is gone; what the page itself holds, the draft, is not.
Created ==
  /\ createCall.stage = "done" /\ createCall' = Idle
  /\ noted' = createCall.space /\ invalidateScope
  /\ newSpace' = [open |-> newSpace.open /\ ~createCall.mine, text |-> ""] /\ deletion' = Closed
  /\ LeavePageRest /\ UNCHANGED spaceApi

CreateRefused ==
  /\ createCall.stage = "refused" /\ createCall' = Idle
  /\ LeavePageRest /\ UNCHANGED <<spaceApi, spaceRead, newSpace, deletion>>

(***************************************************************************)
(* Deletion.                                                               *)
(***************************************************************************)
LeaveCreate == UNCHANGED <<draft, newSpace, saveCall, createCall, spaceCall>>

OpenDeletion ==
  /\ InSettings /\ permitted /\ deletion' = [deletion EXCEPT !.open = TRUE]
  /\ LeaveCreate /\ UNCHANGED <<spaceApi, spaceRead, onSettings, deleteCall>>

TypeConfirmation(name) ==
  /\ SettingsShown /\ deletion.open /\ ~busy(deleteCall) /\ deletion.text # name
  /\ deletion' = [deletion EXCEPT !.text = name]
  /\ LeaveCreate /\ UNCHANGED <<spaceApi, spaceRead, onSettings, deleteCall>>

\* The Cancel button keeps what was typed, dismissing the dialog does not.
CloseDeletion ==
  /\ SettingsShown /\ deletion.open /\ ~busy(deleteCall)
  /\ deletion' \in {Closed, [deletion EXCEPT !.open = FALSE]}
  /\ LeaveCreate /\ UNCHANGED <<spaceApi, spaceRead, onSettings, deleteCall>>

confirmDelete ==
  /\ SettingsShown /\ deletion.open /\ send(deleteCall)
  /\ deletion.text = fieldsOf(activeSpace).name
  /\ deleteCall' = [stage |-> "sent", space |-> activeSpace, named |-> deletion.text, mine |-> TRUE]
  /\ LeaveCreate /\ UNCHANGED <<spaceHosts, spaceRead, onSettings, deletion>>

\* Refused by another name, when a scan runs, and when it is not the session's.
ServeDelete ==
  /\ deleteCall.stage = "sent"
  /\ \/ /\ deleteCall.space = bound /\ spaces[bound].name = deleteCall.named
        /\ spaces' = [spaces EXCEPT ![bound] = Deleted] /\ bound' = NoSpace
        /\ deleteCall' = [deleteCall EXCEPT !.stage = "done"]
     \/ deleteCall' = [deleteCall EXCEPT !.stage = "refused"] /\ UNCHANGED <<spaces, bound>>
  /\ LeaveCreate /\ UNCHANGED <<spaceEdits, tabSwitched, callsSent, spaceRead, onSettings, deletion>>

\* leaveDeletedWorkspace, then /workspace shows what is left to select.
WorkspaceGone ==
  /\ deleteCall.stage = "done" /\ deleteCall' = Idle
  /\ noted' = NoSpace /\ invalidateScope /\ ForgetSettings /\ onSettings' = TRUE
  /\ UNCHANGED <<spaceApi, spaceCall>>

DeleteRefused ==
  /\ deleteCall.stage = "refused" /\ deleteCall' = Idle
  /\ LeaveCreate /\ UNCHANGED <<spaceApi, spaceRead, onSettings, deletion>>

(***************************************************************************)
(* Switching: the top bar goes to the overview, the selection stays.       *)
(***************************************************************************)
SwitchSpace(s, from) ==
  /\ send(spaceCall) /\ listed # NotRead /\ s \in DOMAIN listed.fields
  /\ CASE from = "bar"       -> ~SpaceDialog /\ s # activeSpace
       [] from = "selection" -> GateShown
  /\ spaceCall' = [stage |-> "sent", space |-> s, from |-> from]
  /\ UNCHANGED <<spaceHosts, spaceRead, spaceForm, saveCall, createCall, deleteCall>>

ServeSelect ==
  /\ spaceCall.stage = "sent"
  /\ \/ spaceCall.space \in LiveSpaces /\ bound' = spaceCall.space
        /\ spaceCall' = [spaceCall EXCEPT !.stage = "done"]
     \/ spaceCall' = [spaceCall EXCEPT !.stage = "refused"] /\ UNCHANGED bound
  /\ UNCHANGED <<spaces, spaceEdits, tabSwitched, callsSent, spaceRead, spaceForm, saveCall, createCall,
                 deleteCall>>

SpaceSwitched ==
  /\ spaceCall.stage = "done" /\ spaceCall' = Idle
  /\ noted' = spaceCall.space /\ invalidateScope
  /\ IF spaceCall.from = "bar"
       THEN /\ ForgetSettings /\ deleteCall' = disowned(deleteCall) /\ onSettings' = FALSE
       ELSE /\ newSpace' = Closed /\ deletion' = Closed /\ onSettings' = TRUE
            /\ UNCHANGED <<draft, saveCall, createCall, deleteCall>>
  /\ UNCHANGED spaceApi

\* The bar says so; the selection does nothing more.
SwitchRefused ==
  /\ spaceCall.stage = "refused" /\ spaceCall' = Idle
  /\ UNCHANGED <<spaceApi, spaceRead, spaceForm, saveCall, createCall, deleteCall>>

WorkspaceNext ==
  \/ ListRead \/ SessionRead \/ TeamWritten \/ LeaveSettings \/ OpenSettings
  \/ \E s \in Spaces : \/ \E values \in [name : SpaceNames, about : Abouts] : OthersEdit(s, values)
                       \/ OtherTabSwitches(s)
                       \/ \E from \in {"bar", "selection"} : SwitchSpace(s, from)
                       \/ ServeCreate(s)
  \/ \E f \in {"name", "about"}, text \in SpaceNames \cup Abouts : EditField(f, text)
  \/ Discard \/ onSave \/ ServeUpdate \/ SettingsSaved \/ SettingsRefused
  \/ OpenCreate \/ CloseCreate \/ submitCreate \/ Created \/ CreateRefused
  \/ \E name \in SpaceNames : NameNewSpace(name) \/ TypeConfirmation(name)
  \/ OpenDeletion \/ CloseDeletion \/ confirmDelete \/ ServeDelete \/ WorkspaceGone \/ DeleteRefused
  \/ ServeSelect \/ SpaceSwitched \/ SwitchRefused

WorkspaceSpec == WorkspaceInit /\ [][WorkspaceNext]_workspaceVars

-----------------------------------------------------------------------------
\* Every variable of the page has its type; a session is never bound to a workspace
\* that is gone.
WorkspaceTypeOK ==
  /\ spaces \in [Spaces -> SpaceFields \cup {Unborn, Deleted}]
  /\ bound \in LiveSpaces \cup {NoSpace} /\ noted \in Spaces \cup {NoSpace}
  /\ permitted \in BOOLEAN /\ reading \subseteq {"list", "session"}
  /\ draft \in SpaceFields \cup {NoDraft}

\* When every request has been answered, the tab shows the workspace the session is bound
\* to, in whatever order creations, deletions and switches were answered.
SettledPageShowsSession ==
  (reading = {} /\ ~tabSwitched /\ \A call \in {createCall, deleteCall, spaceCall} : ~pending(call))
    => noted = bound /\ activeSpace = bound

\* The page is well formed, and once it is quiet it shows the workspace the session is in.
WorkspaceInv == WorkspaceTypeOK /\ SettledPageShowsSession
=============================================================================
