---------------------------- MODULE ProfilesPage ----------------------------
(***************************************************************************)
(* The scoring profiles page (app/(app)/profiles/page.tsx) of one user,    *)
(* while teammates work on the same pool.  The page keeps a copy of the    *)
(* pool and of each project's choice, one draft, and what its five kinds of *)
(* writes have captured while they are out.  A profile is a name and its   *)
(* weights; one value stands for all weights.                              *)
(***************************************************************************)
EXTENDS Integers, FiniteSets

CONSTANTS ProfileIds, Presets,  \* the ids of the pool, the built-in ones
          ProjectIds,           \* the connected projects
          MaxCustom,            \* MAX_CUSTOM_PROFILES
          Fields,               \* what a profile holds: its name, its weights
          MaxChanges            \* together: writes of the page, which may be out at the same
                                \* time, writes of teammates, and answers that are lost

ASSUME ProfilesAssumption == Presets \subseteq ProfileIds /\ Presets # {}
                            /\ MaxCustom \in Nat /\ MaxChanges \in Nat

VARIABLES srvPool, srvDefault, srvChoice,  \* the API: profiles, default, overrides
          pool,       \* the page's copy of the pool and the default
          poolRead,   \* the last read of the pool that is out
          choice,     \* the page's copy of each project's profile
          scope, touched, draft, dialog,
          writes,     \* what each kind of write has captured and been answered
          changes,    \* counts writes and lost answers
          missed      \* history: the pool changed since it was read, and the page is not told

serverVars   == <<srvPool, srvDefault, srvChoice, missed>>
profilesVars == <<serverVars, changes, pool, poolRead, choice, scope, touched, draft, dialog,
                  writes>>

Nobody   == "nobody"
Profiles == [Fields -> 0..1]
Gone     == [f \in Fields |-> 2]
Pools    == [ProfileIds -> Profiles \cup {Gone}]
ProfileChoices  == [override : ProfileIds \cup {Nobody}, effective : ProfileIds]
UnreadYet   == [override |-> Nobody, effective |-> Nobody]
NoDraft  == [profile |-> Nobody, values |-> Gone]
NoDialog == [kind |-> "none", to |-> Nobody]

Kinds == {"save", "choose", "assign", "clear", "create", "delete"}
Idle  == [at |-> "idle", profile |-> Nobody, project |-> Nobody, patch |-> Gone, seen |-> {}]
NoRead == [at |-> "none", pool |-> [i \in ProfileIds |-> Gone], default |-> Nobody]

NoPool(at) == [at |-> at, profiles |-> NoRead.pool, default |-> Nobody]

Write(profile, project, patch, seen) ==
  [at |-> "out", profile |-> profile, project |-> project, patch |-> patch, seen |-> seen]

Custom(profiles) == {i \in ProfileIds \ Presets : profiles[i] # Gone}
EffectiveOf(p)   == IF srvChoice[p] = Nobody THEN srvDefault ELSE srvChoice[p]
ChoiceOf(p)      == [override |-> srvChoice[p], effective |-> EffectiveOf(p)]

(***************************************************************************)
(* What the page derives from its state.                                   *)
(***************************************************************************)
Effective == IF scope \in ProjectIds /\ choice[scope] # UnreadYet
               THEN choice[scope].effective ELSE pool.default
selected  == IF touched # Nobody /\ pool.profiles[touched] # Gone THEN touched ELSE Effective

PageShown == pool.at = "ready" /\ selected # Nobody /\ pool.profiles[selected] # Gone

DraftIsShown == draft # NoDraft /\ draft.profile = selected
values   == IF DraftIsShown THEN draft.values ELSE pool.profiles[selected]
dirty    == PageShown /\ DraftIsShown /\ draft.values # pool.profiles[selected]

\* canManage is what the session said when the page opened.
editable == PageShown /\ selected \notin Presets
Clickable == PageShown /\ dialog = NoDialog
atLimit  == Cardinality(Custom(pool.profiles)) >= MaxCustom

\* What the page offers: the editor's fields and its two buttons, the choice for
\* this scope, clearing an override, a new profile, and the actions of a card.
EditorOpen    == Clickable /\ editable
DraftActions  == IF EditorOpen /\ dirty /\ writes["save"] = Idle THEN {"save", "discard"} ELSE {}
Choosing      == writes["choose"] # Idle \/ writes["assign"] # Idle
ScopeAction   == IF ~Clickable \/ Choosing THEN "none"
                 ELSE IF scope = Nobody THEN IF selected = pool.default THEN "none" ELSE "choose"
                 ELSE IF choice[scope].override = selected THEN "none" ELSE "assign"
ClearOffered  == /\ Clickable /\ scope # Nobody /\ choice[scope].override # Nobody
                 /\ writes["clear"] = Idle
CreateOffered == Clickable /\ ~atLimit
CardActions(i) ==
  IF ~Clickable \/ pool.profiles[i] = Gone THEN {}
  ELSE {"select"} \cup (IF atLimit THEN {} ELSE {"duplicate"})
                  \cup (IF i \in Presets THEN {} ELSE {"edit"})
                  \cup (IF i \in Presets \/ writes["delete"].profile = i THEN {} ELSE {"delete"})

\* patchFor: the fields of the draft that differ from the profile as it is shown.
patchFor(profile, next) ==
  [f \in Fields |-> IF next[f] # profile[f] THEN next[f] ELSE 2]

ProfilesInit ==
  /\ srvPool = [i \in ProfileIds |-> [f \in Fields |-> 0]]
  /\ srvDefault = CHOOSE i \in Presets : TRUE
  /\ srvChoice = [p \in ProjectIds |-> Nobody]
  /\ changes = 0 /\ missed = FALSE
  /\ pool = NoPool("loading")
  /\ poolRead = [NoRead EXCEPT !.at = "out"]
  /\ choice = [p \in ProjectIds |-> UnreadYet]
  /\ scope = Nobody /\ touched = Nobody /\ draft = NoDraft
  /\ dialog = NoDialog
  /\ writes = [k \in Kinds |-> Idle]

Reads   == UNCHANGED <<pool, poolRead, choice>>
OneMore == changes < MaxChanges /\ changes' = changes + 1
Looks   == UNCHANGED <<scope, touched, draft, dialog>>
NoWrite == UNCHANGED <<writes, changes>>

(***************************************************************************)
(* Reading.  A new read of the pool makes the page deaf to the last one.   *)
(***************************************************************************)
reloadPool == poolRead' = [NoRead EXCEPT !.at = "out"]

ServePool ==
  /\ poolRead.at = "out"
  /\ poolRead' = [at |-> "served", pool |-> srvPool, default |-> srvDefault]
  /\ missed' = FALSE
  /\ UNCHANGED <<srvPool, srvDefault, srvChoice, pool, choice>> /\ Looks /\ NoWrite

PoolRead ==
  /\ poolRead.at = "served"
  /\ pool' = [at |-> "ready", profiles |-> poolRead.pool, default |-> poolRead.default]
  /\ poolRead' = NoRead
  /\ UNCHANGED <<serverVars, choice>> /\ Looks /\ NoWrite

PoolFails ==
  /\ poolRead.at \in {"out", "served"}
  /\ pool' = NoPool("error") /\ poolRead' = NoRead
  /\ UNCHANGED <<serverVars, choice>> /\ Looks /\ NoWrite

RetryPool ==
  /\ pool.at = "error"
  /\ pool' = NoPool("loading") /\ reloadPool
  /\ UNCHANGED <<serverVars, choice>> /\ Looks /\ NoWrite

\* The rail and the page read a project's profile; a write that is out is told by
\* its own answer.
ReadChoice(p) ==
  /\ choice' = [choice EXCEPT ![p] = ChoiceOf(p)]
  /\ UNCHANGED <<serverVars, pool, poolRead>> /\ Looks /\ NoWrite

(***************************************************************************)
(* Editing and moving the selection.                                       *)
(***************************************************************************)
editDraft(f, v) ==
  /\ EditorOpen
  /\ draft' = [profile |-> selected, values |-> [values EXCEPT ![f] = v]]
  /\ UNCHANGED <<serverVars, scope, touched, dialog>> /\ Reads /\ NoWrite

Discard ==
  /\ "discard" \in DraftActions
  /\ draft' = NoDraft
  /\ UNCHANGED <<serverVars, scope, touched, dialog>> /\ Reads /\ NoWrite

selectProfile(i) ==
  /\ "select" \in CardActions(i) /\ i # selected
  /\ IF dirty THEN dialog' = [NoDialog EXCEPT !.kind = "profile", !.to = i]
                   /\ UNCHANGED <<touched, draft>>
              ELSE touched' = i /\ draft' = NoDraft /\ UNCHANGED dialog
  /\ UNCHANGED <<serverVars, scope>> /\ Reads /\ NoWrite

applyScope(p) == scope' = p /\ IF p = scope THEN UNCHANGED <<touched, draft>>
                                             ELSE touched' = Nobody /\ draft' = NoDraft

selectScope(p) ==
  /\ Clickable /\ p # scope
  /\ IF dirty THEN dialog' = [NoDialog EXCEPT !.kind = "scope", !.to = p]
                   /\ UNCHANGED <<scope, touched, draft>>
              ELSE applyScope(p) /\ UNCHANGED dialog
  /\ UNCHANGED <<serverVars>> /\ Reads /\ NoWrite

\* A link to another scope changes the page's URL without asking.
FollowLink(p) ==
  /\ p # scope /\ applyScope(p)
  /\ UNCHANGED <<serverVars, dialog>> /\ Reads /\ NoWrite

ConfirmDiscard ==
  /\ PageShown /\ dialog.kind \in {"profile", "scope"}
  /\ dialog' = NoDialog
  /\ IF dialog.kind = "profile" THEN touched' = dialog.to /\ draft' = NoDraft /\ UNCHANGED scope
                                ELSE /\ scope' = dialog.to /\ draft' = NoDraft
                                     /\ touched' = IF scope = dialog.to THEN touched ELSE Nobody
  /\ UNCHANGED <<serverVars>> /\ Reads /\ NoWrite

CloseDialog ==
  /\ PageShown /\ dialog # NoDialog /\ dialog' = NoDialog
  /\ UNCHANGED <<serverVars, scope, touched, draft>> /\ Reads /\ NoWrite

(***************************************************************************)
(* Writing.  A click captures what is shown; its button is disabled until   *)
(* the answer, the rest of the page is not.                                *)
(***************************************************************************)
Ask(k, write) ==
  /\ writes[k] = Idle /\ OneMore
  /\ writes' = [writes EXCEPT ![k] = write]
  /\ UNCHANGED serverVars /\ Reads

onSaveEdits ==
  /\ "save" \in DraftActions
  /\ Ask("save", Write(selected, Nobody, patchFor(pool.profiles[selected], values), {}))
  /\ Looks

onSetDefault ==
  /\ ScopeAction = "choose"
  /\ Ask("choose", Write(selected, Nobody, Gone, {})) /\ Looks

onAssign ==
  /\ ScopeAction = "assign"
  /\ Ask("assign", Write(selected, scope, Gone, {})) /\ Looks

onClearOverride ==
  /\ ClearOffered
  /\ Ask("clear", Write(Nobody, scope, Gone, {})) /\ Looks

openCreate ==
  /\ CreateOffered \/ \E i \in ProfileIds : "duplicate" \in CardActions(i)
  /\ dialog' = [NoDialog EXCEPT !.kind = "create"]
  /\ UNCHANGED <<serverVars, scope, touched, draft>> /\ Reads /\ NoWrite

onCreate ==
  /\ PageShown /\ dialog.kind = "create"
  /\ Ask("create", Write(Nobody, Nobody, values, {}))
  /\ Looks

openDelete(i) ==
  /\ "delete" \in CardActions(i)
  /\ dialog' = [NoDialog EXCEPT !.kind = "delete", !.to = i]
  /\ UNCHANGED <<serverVars, scope, touched, draft>> /\ Reads /\ NoWrite

onDelete ==
  /\ PageShown /\ dialog.kind = "delete"
  /\ Ask("delete", Write(dialog.to, Nobody, Gone,
                        {n \in {"touched", "draft"} :
                           IF n = "touched" THEN touched = dialog.to ELSE draft.profile = dialog.to}))
  /\ Looks

(***************************************************************************)
(* The API.                                                                *)
(***************************************************************************)
\* A refusal (a limit, a profile in use, the permission that is gone, a write that did not
\* arrive) says nothing of the pool; the buttons wait for it as for any answer.
Refused(k) ==
  writes' = [writes EXCEPT ![k] = [Idle EXCEPT !.at = "refused", !.profile = writes[k].profile]]
\* An answer carries the profile as it is then, or it is lost, and the page takes the write
\* for a refused one.
Answer(k, i) ==
  \/ /\ writes' = [writes EXCEPT ![k] =
                     [at |-> "ok", profile |-> i, project |-> @.project, seen |-> @.seen,
                      patch |-> srvPool'[i]]]
     /\ UNCHANGED <<missed, changes>>
  \/ Refused(k) /\ missed' = TRUE /\ OneMore
Known(i) == srvPool[i] # Gone
InUse(i) == i = srvDefault \/ \E p \in ProjectIds : srvChoice[p] = i
Patched(i, patch) == [f \in Fields |-> IF patch[f] = 2 THEN srvPool[i][f] ELSE patch[f]]

Serve(k) ==
  LET w == writes[k] IN
  /\ w.at = "out"
  /\ \/ UNCHANGED <<srvPool, srvDefault, srvChoice, missed, changes>> /\ Refused(k)
     \/ /\ k = "save" /\ Known(w.profile) /\ w.profile \notin Presets
        /\ srvPool' = [srvPool EXCEPT ![w.profile] = Patched(w.profile, w.patch)]
        /\ Answer(k, w.profile) /\ UNCHANGED <<srvDefault, srvChoice>>
     \/ /\ k = "choose" /\ Known(w.profile)
        /\ srvDefault' = w.profile /\ UNCHANGED <<srvPool, srvChoice>>
        /\ Answer(k, w.profile)
     \/ /\ k \in {"assign", "clear"}
        /\ k = "assign" => Known(w.profile)
        /\ srvChoice' = [srvChoice EXCEPT ![w.project] = w.profile]
        /\ UNCHANGED <<srvPool, srvDefault>>
        /\ Answer(k, IF k = "assign" THEN w.profile ELSE srvDefault)   \* what is effective then
     \/ /\ k = "create" /\ Cardinality(Custom(srvPool)) < MaxCustom
        /\ \E i \in ProfileIds : /\ ~Known(i)
                                 /\ srvPool' = [srvPool EXCEPT ![i] = w.patch]
                                 /\ Answer(k, i)
        /\ UNCHANGED <<srvDefault, srvChoice>>
     \/ /\ k = "delete" /\ Known(w.profile) /\ ~InUse(w.profile)
        /\ w.profile \notin Presets
        /\ srvPool' = [srvPool EXCEPT ![w.profile] = Gone]
        /\ Answer(k, w.profile) /\ UNCHANGED <<srvDefault, srvChoice>>
  /\ Reads /\ Looks

\* A teammate changes a profile.
Teammate ==
  /\ missed' = TRUE /\ OneMore
  /\ \E i \in Custom(srvPool), f \in Fields, v \in 0..1 : srvPool' = [srvPool EXCEPT ![i][f] = v]
  /\ UNCHANGED <<srvDefault, srvChoice, writes>> /\ Reads /\ Looks

(***************************************************************************)
(* The answers.                                                            *)
(***************************************************************************)
Back(k)  == writes' = [writes EXCEPT ![k] = Idle] /\ UNCHANGED <<serverVars, changes>>
\* The pool with what an answer says, before the read that reconciles it.
Shows(profiles, default) ==
  pool' = [at |-> "ready", profiles |-> profiles, default |-> default]

\* adopt: the answer replaces a profile of the copy, and the pool is read again.
adopt(w, default) ==
  /\ Shows([pool.profiles EXCEPT ![w.profile] = IF @ = Gone THEN Gone ELSE w.patch], default)
  /\ reloadPool

\* Mutant: the answer is shown, and a read that was out may still bring the old pool.
SavedWithoutReload ==
  LET w == writes["save"] IN
  /\ w.at = "ok" /\ Back("save")
  /\ Shows([pool.profiles EXCEPT ![w.profile] = w.patch], pool.default)
  /\ draft' = NoDraft
  /\ UNCHANGED <<poolRead, choice, scope, touched, dialog>>

Saved ==
  LET w == writes["save"] IN
  /\ w.at = "ok" /\ Back("save")
  /\ adopt(w, pool.default)
  /\ draft' = NoDraft
  /\ UNCHANGED <<choice, scope, touched, dialog>>

\* The old default keeps its badge until the read: the first of the two is shown.
DefaultSet ==
  LET w == writes["choose"] IN
  /\ w.at = "ok" /\ Back("choose")
  /\ \E default \in {pool.default, w.profile} : adopt(w, default)
  /\ UNCHANGED <<choice, scope, touched, draft, dialog>>

Assigned ==
  LET w == writes["assign"] IN
  /\ w.at = "ok" /\ Back("assign")
  /\ choice' = [choice EXCEPT ![w.project] = [override |-> w.profile, effective |-> w.profile]]
  /\ reloadPool
  /\ UNCHANGED <<pool, scope, touched, draft, dialog>>

OverrideCleared ==
  LET w == writes["clear"] IN
  /\ w.at = "ok" /\ Back("clear")
  /\ choice' = [choice EXCEPT ![w.project] = [override |-> Nobody, effective |-> w.profile]]
  /\ reloadPool
  /\ touched' = Nobody /\ draft' = NoDraft
  /\ UNCHANGED <<pool, scope, dialog>>

Created ==
  LET w == writes["create"] IN
  /\ w.at = "ok" /\ Back("create")
  /\ Shows([pool.profiles EXCEPT ![w.profile] = w.patch], pool.default) /\ reloadPool
  /\ touched' = w.profile /\ draft' = NoDraft
  /\ dialog' = IF dialog.kind = "create" THEN NoDialog ELSE dialog
  /\ UNCHANGED <<choice, scope>>

\* The handler compares the selection and the draft of the click, not of now.
Deleted ==
  LET w == writes["delete"] IN
  /\ w.at = "ok" /\ Back("delete")
  /\ Shows([pool.profiles EXCEPT ![w.profile] = Gone], pool.default) /\ reloadPool
  /\ touched' = IF "touched" \in w.seen THEN Nobody ELSE touched
  /\ draft' = IF "draft" \in w.seen THEN NoDraft ELSE draft
  /\ dialog' = IF dialog.kind = "delete" THEN NoDialog ELSE dialog
  /\ UNCHANGED <<choice, scope>>

\* The draft and the dialog stay.  (What is said of the error is left out.)
WriteFailed(k) ==
  /\ writes[k].at = "refused" /\ Back(k)
  /\ Looks /\ Reads

Answers == \/ Saved \/ DefaultSet \/ Assigned \/ OverrideCleared \/ Created \/ Deleted
           \/ \E k \in Kinds : WriteFailed(k)

ProfilesNext ==
  \/ ServePool \/ PoolRead \/ PoolFails \/ RetryPool
  \/ \E p \in ProjectIds : ReadChoice(p)
  \/ \E f \in Fields, v \in 0..1 : editDraft(f, v)
  \/ Discard \/ ConfirmDiscard \/ CloseDialog \/ openCreate \/ onCreate \/ onDelete
  \/ \E i \in ProfileIds : selectProfile(i) \/ openDelete(i)
  \/ \E p \in ProjectIds \cup {Nobody} : selectScope(p) \/ FollowLink(p)
  \/ onSaveEdits \/ onSetDefault \/ onAssign \/ onClearOverride
  \/ \E k \in Kinds : Serve(k)
  \/ Answers \/ Teammate

ProfilesSpec == ProfilesInit /\ [][ProfilesNext]_profilesVars

-----------------------------------------------------------------------------
\* Every variable has its type.
ProfilesTypeOK ==
  /\ srvPool \in Pools /\ srvDefault \in ProfileIds
  /\ srvChoice \in [ProjectIds -> ProfileIds \cup {Nobody}]
  /\ pool.at \in {"loading", "ready", "error"} /\ pool.profiles \in Pools
  /\ poolRead.at \in {"none", "out", "served"}
  /\ choice \in [ProjectIds -> ProfileChoices \cup {UnreadYet}]
  /\ scope \in ProjectIds \cup {Nobody} /\ touched \in ProfileIds \cup {Nobody}
  /\ draft.profile \in (ProfileIds \ Presets) \cup {Nobody}
  /\ dialog.kind \in {"none", "profile", "scope", "create", "delete"}
  /\ \A k \in Kinds : writes[k].at \in {"idle", "out", "ok", "refused"}

\* What the page did is on the page: once its reads and writes are answered, the
\* pool shows what the API holds, unless a teammate changed it or an applied write was not
\* answered since the pool was last read (a read that was out before a write must not bring
\* the old pool back).
ShowsOwnWrites ==
  (pool.at = "ready" /\ poolRead = NoRead /\ ~missed
     /\ \A k \in Kinds : writes[k] = Idle)
  => pool.profiles = srvPool /\ pool.default = srvDefault

\* The page is well formed, and once it is quiet it shows what it did.
ProfilesInv == ProfilesTypeOK /\ ShowsOwnWrites
=============================================================================
