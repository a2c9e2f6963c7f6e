------------------------------ MODULE RulesPage ------------------------------
(***************************************************************************)
(* The rules of a workspace (services/workspace_rules.py) and the three    *)
(* places that change them: the selection dialog                           *)
(* (workspace-rule-settings.tsx), the comment rules                        *)
(* (workspace-comment-rules.tsx) and the button of a finding               *)
(* (disable-rule-button.tsx).  Each reads and sends a whole list; nothing  *)
(* cancels a request when its dialog closes.                               *)
(***************************************************************************)
EXTENDS Integers, Sequences, FiniteSets, SequencesExt

CONSTANTS RuleIds,           \* the catalog
          MaxComments,       \* comment rules a workspace may have: 50
          MaxMade,           \* comment rules ever made
          MaxRuleCalls,      \* requests of the page
          MaxOthers          \* changes of other administrators

ASSUME RulesAssumption == {MaxComments, MaxMade, MaxRuleCalls, MaxOthers} \subseteq Nat

VARIABLES disabledIds, comments,     \* the workspace row: rules off, comment rules in order
          selection,         \* the selection dialog
          button,            \* the button of one finding
          editor,            \* the comment rules' dialog
          ruleCalls,         \* requests that are out, and their answers
          made, asked, others        \* comment rules made, requests sent, changes elsewhere

rulesVars == <<disabledIds, comments, selection, button, editor, ruleCalls, made, asked, others>>

NewRule == 0

RulesInit ==
  /\ disabledIds = {} /\ comments = <<>>
  /\ selection = [open |-> FALSE, read |-> FALSE, config |-> {}, disabled |-> {},
                  busy |-> FALSE, saved |-> FALSE]
  /\ button = [open |-> FALSE, busy |-> FALSE, disabled |-> FALSE]
  /\ editor = [open |-> FALSE, loaded |-> FALSE, rules |-> <<>>, dirty |-> FALSE, busy |-> FALSE,
               testing |-> FALSE, editing |-> NewRule, tab |-> "rules"]
  /\ ruleCalls = {} /\ made = 0 /\ asked = 0 /\ others = 0

(***************************************************************************)
(* The API.  A request is served once; its answer waits to be read.        *)
(***************************************************************************)
called(from, kind, list) ==
  /\ asked < MaxRuleCalls /\ asked' = asked + 1
  /\ ruleCalls' = ruleCalls \cup {[n |-> asked + 1, from |-> from, kind |-> kind, list |-> list,
                                   state |-> "out"]}

served(call, state, list) ==
  ruleCalls' = (ruleCalls \ {call}) \cup {[call EXCEPT !.state = state, !.list = list]}

KeepRulePage == UNCHANGED <<selection, button, editor, made, asked, others>>

ServeRulesRead(call) ==
  /\ call.kind = "read"
  /\ served(call, "done", IF call.from = "editor" THEN comments ELSE disabledIds)
  /\ KeepRulePage /\ UNCHANGED <<disabledIds, comments>>

\* update: the whole selection is replaced.
ServeSelection(call) ==
  /\ call.kind = "write" /\ call.from # "editor"
  /\ disabledIds' = call.list /\ served(call, "done", call.list)
  /\ KeepRulePage /\ UNCHANGED comments

\* update_comments: the whole list is replaced, unless it is too long or names a rule twice.
ServeComments(call) ==
  /\ call.kind = "write" /\ call.from = "editor"
  /\ Len(call.list) <= MaxComments
  /\ Cardinality({call.list[i].id : i \in DOMAIN call.list}) = Len(call.list)
  /\ comments' = call.list /\ served(call, "done", call.list)
  /\ KeepRulePage /\ UNCHANGED disabledIds

\* test_comment_pattern: whether a pattern compiles.
ServeTest(call) ==
  /\ call.kind = "test" /\ served(call, "done", call.list)
  /\ KeepRulePage /\ UNCHANGED <<disabledIds, comments>>

ServeFails(call) ==
  /\ served(call, "failed", call.list) /\ KeepRulePage /\ UNCHANGED <<disabledIds, comments>>

ServeRules ==
  \E call \in {c \in ruleCalls : c.state = "out"} :
    ServeRulesRead(call) \/ ServeSelection(call) \/ ServeComments(call) \/ ServeTest(call) \/ ServeFails(call)

\* Another administrator saves a list of their own.
OthersSave ==
  /\ others < MaxOthers /\ others' = others + 1
  /\ \/ disabledIds' \in SUBSET RuleIds /\ UNCHANGED <<comments, made>>
     \/ /\ made < MaxMade /\ made' = made + 1 /\ Len(comments) < MaxComments
        /\ comments' = Append(comments, [id |-> made + 1, text |-> "draft"]) /\ UNCHANGED disabledIds
     \/ /\ \E i \in DOMAIN comments : comments' = RemoveAt(comments, i)
        /\ UNCHANGED <<disabledIds, made>>
  /\ UNCHANGED <<selection, button, editor, ruleCalls, asked>>

\* The answers that a part of the page waits for; reading one takes it away.
answersOf(from, kind) == {c \in ruleCalls : c.from = from /\ c.kind = kind /\ c.state # "out"}
readAnswer(call) == ruleCalls' = ruleCalls \ {call} /\ UNCHANGED <<disabledIds, comments, asked, others>>

KeepWorkspace == UNCHANGED <<disabledIds, comments, others>>

(***************************************************************************)
(* The selection dialog.                                                   *)
(***************************************************************************)
ChangeSelectionOpen ==
  /\ IF selection.open
       THEN selection' = [selection EXCEPT !.open = FALSE] /\ UNCHANGED <<ruleCalls, asked>>
       ELSE /\ selection' = [selection EXCEPT !.open = TRUE, !.busy = TRUE, !.read = FALSE, !.saved = FALSE]
            /\ called("selection", "read", {})
  /\ KeepWorkspace /\ UNCHANGED <<button, editor, made>>

SelectionLoaded ==
  \E call \in answersOf("selection", "read") :
    /\ readAnswer(call)
    /\ selection' = IF call.state = "failed" THEN [selection EXCEPT !.busy = FALSE]
                    ELSE [selection EXCEPT !.busy = FALSE, !.read = TRUE, !.config = call.list,
                                           !.disabled = call.list]
    /\ UNCHANGED <<button, editor, made>>

TickRule(rule) ==
  /\ selection.open /\ selection.read /\ ~selection.busy
  /\ selection' = [selection EXCEPT !.saved = FALSE,
       !.disabled = IF rule \in @ THEN @ \ {rule} ELSE @ \cup {rule}]
  /\ KeepWorkspace /\ UNCHANGED <<button, editor, ruleCalls, made, asked>>

SaveSelection ==
  /\ selection.open /\ selection.read /\ ~selection.busy /\ selection.disabled # selection.config
  /\ selection' = [selection EXCEPT !.busy = TRUE, !.saved = FALSE]
  /\ called("selection", "write", selection.disabled)
  /\ KeepWorkspace /\ UNCHANGED <<button, editor, made>>

SelectionSaved ==
  \E call \in answersOf("selection", "write") :
    /\ readAnswer(call)
    /\ selection' = IF call.state = "failed" THEN [selection EXCEPT !.busy = FALSE]
                    ELSE [selection EXCEPT !.busy = FALSE, !.read = TRUE, !.config = call.list,
                                           !.disabled = call.list, !.saved = TRUE]
    /\ UNCHANGED <<button, editor, made>>

(***************************************************************************)
(* The button: a read, and a write unless the rule is off by then.         *)
(***************************************************************************)
OpenButton ==
  /\ ~button.busy /\ (button.open \/ ~button.disabled)
  /\ button' = [button EXCEPT !.open = ~@]
  /\ KeepWorkspace /\ UNCHANGED <<selection, editor, ruleCalls, made, asked>>

DisableRule ==
  /\ button.open /\ ~button.busy /\ button' = [button EXCEPT !.busy = TRUE]
  /\ called("button", "read", {})
  /\ KeepWorkspace /\ UNCHANGED <<selection, editor, made>>

buttonRule == CHOOSE r \in RuleIds : TRUE

DisableAnswered ==
  \E call \in answersOf("button", "read") \cup answersOf("button", "write") :
    /\ IF call.state = "done" /\ call.kind = "read" /\ buttonRule \notin call.list
         THEN /\ asked < MaxRuleCalls /\ asked' = asked + 1 /\ UNCHANGED button
              /\ ruleCalls' = (ruleCalls \ {call}) \cup
                   {[n |-> asked + 1, from |-> "button", kind |-> "write",
                     list |-> call.list \cup {buttonRule}, state |-> "out"]}
         ELSE /\ ruleCalls' = ruleCalls \ {call} /\ UNCHANGED asked
              /\ button' = [button EXCEPT !.busy = FALSE, !.disabled = @ \/ call.state = "done",
                                          !.open = call.state = "failed"]
    /\ KeepWorkspace /\ UNCHANGED <<selection, editor, made>>

(***************************************************************************)
(* The comment rules.                                                      *)
(***************************************************************************)
KeepOthers == UNCHANGED <<selection, button>>

ChangeEditorOpen ==
  /\ IF editor.open
       THEN editor' = [editor EXCEPT !.open = FALSE] /\ UNCHANGED <<ruleCalls, asked>>
       ELSE /\ editor' = [editor EXCEPT !.open = TRUE, !.tab = "rules", !.loaded = FALSE, !.busy = TRUE,
                                        !.dirty = FALSE, !.editing = NewRule]
            /\ called("editor", "read", <<>>)
  /\ KeepWorkspace /\ KeepOthers /\ UNCHANGED made

EditorLoaded ==
  \E call \in answersOf("editor", "read") :
    /\ readAnswer(call)
    /\ editor' = IF call.state = "failed" THEN [editor EXCEPT !.busy = FALSE]
                 ELSE [editor EXCEPT !.busy = FALSE, !.loaded = TRUE, !.rules = call.list]
    /\ KeepOthers /\ UNCHANGED made

idle == editor.open /\ ~editor.busy /\ ~editor.testing

Inspect(rule) ==
  /\ idle /\ editor' = [editor EXCEPT !.tab = "editor", !.editing = rule.id]
  /\ KeepWorkspace /\ KeepOthers /\ UNCHANGED <<ruleCalls, made, asked>>

OpenEditorTab ==
  /\ idle /\ editor.loaded /\ editor' = [editor EXCEPT !.tab = IF @ = "rules" THEN "editor" ELSE "rules"]
  /\ KeepWorkspace /\ KeepOthers /\ UNCHANGED <<ruleCalls, made, asked>>

CancelEditing ==
  /\ editor.open /\ editor.tab = "editor" /\ editor.editing # NewRule
  /\ editor' = [editor EXCEPT !.editing = NewRule, !.tab = "rules"]
  /\ KeepWorkspace /\ KeepOthers /\ UNCHANGED <<ruleCalls, made, asked>>

\* The rules of a list without those that have an id.
filtered(rules, id) ==
  LET kept[i \in 0..Len(rules)] ==
        IF i = 0 THEN <<>> ELSE IF rules[i].id = id THEN kept[i - 1] ELSE Append(kept[i - 1], rules[i])
  IN  kept[Len(rules)]

RemoveRule(rule) ==
  /\ idle /\ editor.tab = "rules"
  /\ editor' = [editor EXCEPT !.dirty = TRUE, !.rules = filtered(@, rule.id),
                              !.editing = IF @ = rule.id THEN NewRule ELSE @]
  /\ KeepWorkspace /\ KeepOthers /\ UNCHANGED <<ruleCalls, made, asked>>

\* "Test pattern" and "Add rule" both ask the scan's engine; only the second one waits for
\* the answer with the list and the rule that were there when it was pressed.
TestPattern ==
  /\ idle /\ editor.tab = "editor" /\ editor.loaded /\ editor' = [editor EXCEPT !.testing = TRUE]
  /\ called("editor", "test", [add |-> FALSE])
  /\ KeepWorkspace /\ KeepOthers /\ UNCHANGED made

AddRule ==
  /\ idle /\ editor.tab = "editor" /\ editor.loaded
  /\ editor.editing # NewRule \/ (Len(editor.rules) < MaxComments /\ made < MaxMade)
  /\ editor' = [editor EXCEPT !.testing = TRUE]
  /\ called("editor", "test", [add |-> TRUE, rules |-> editor.rules, editing |-> editor.editing])
  /\ KeepWorkspace /\ KeepOthers /\ UNCHANGED made

added(was, id) ==
  IF was.editing = NewRule THEN Append(was.rules, [id |-> id, text |-> "draft"])
  ELSE [i \in DOMAIN was.rules |->
         IF was.rules[i].id = id THEN [id |-> id, text |-> "edited"] ELSE was.rules[i]]

TestAnswered ==
  \E call \in answersOf("editor", "test") :
    /\ readAnswer(call)
    /\ IF call.state = "done" /\ call.list.add
         THEN LET id == IF call.list.editing = NewRule THEN made + 1 ELSE call.list.editing IN
              /\ call.list.editing # NewRule \/ made < MaxMade
              /\ made' = IF call.list.editing = NewRule THEN made + 1 ELSE made
              /\ editor' = [editor EXCEPT !.testing = FALSE, !.dirty = TRUE, !.tab = "rules",
                                          !.editing = NewRule, !.rules = added(call.list, id)]
         ELSE editor' = [editor EXCEPT !.testing = FALSE] /\ UNCHANGED made
    /\ KeepOthers

SaveComments ==
  /\ idle /\ editor.loaded /\ editor.dirty /\ editor' = [editor EXCEPT !.busy = TRUE]
  /\ called("editor", "write", editor.rules)
  /\ KeepWorkspace /\ KeepOthers /\ UNCHANGED made

CommentsSaved ==
  \E call \in answersOf("editor", "write") :
    /\ readAnswer(call)
    /\ editor' = IF call.state = "failed" THEN [editor EXCEPT !.busy = FALSE]
                 ELSE [editor EXCEPT !.busy = FALSE, !.rules = call.list, !.dirty = FALSE]
    /\ KeepOthers /\ UNCHANGED made

RulesNext ==
  \/ ServeRules \/ OthersSave
  \/ ChangeSelectionOpen \/ SelectionLoaded \/ SaveSelection \/ SelectionSaved
  \/ \E r \in RuleIds : TickRule(r)
  \/ OpenButton \/ DisableRule \/ DisableAnswered
  \/ ChangeEditorOpen \/ EditorLoaded \/ OpenEditorTab \/ CancelEditing \/ TestPattern \/ AddRule
  \/ TestAnswered \/ SaveComments \/ CommentsSaved
  \/ \E i \in DOMAIN editor.rules : Inspect(editor.rules[i]) \/ RemoveRule(editor.rules[i])

RulesSpec == RulesInit /\ [][RulesNext]_rulesVars

-----------------------------------------------------------------------------
commentLists == {comments, editor.rules} \cup
                {c.list : c \in {d \in ruleCalls : d.from = "editor" /\ d.kind # "test"}}

\* The first rule that matches decides a comment's category, so the order is part of the
\* rules: in every list, of whatever age, rules stand in the order they were made, each once.
RulesInOrderMade ==
  \A list \in commentLists : \A i, j \in DOMAIN list : i < j => list[i].id < list[j].id

\* A rule that is added while its pattern is being tested, and lists arrive meanwhile, does
\* not make the list longer than the API takes.
ListFitsTheApi == \A list \in commentLists : Len(list) <= MaxComments

\* A dialog that is busy waits for an answer that will end it: none stays disabled for good.
NoDialogIsStuck ==
  /\ selection.busy => \E c \in ruleCalls : c.from = "selection"
  /\ button.busy => \E c \in ruleCalls : c.from = "button"
  /\ editor.busy => \E c \in ruleCalls : c.from = "editor" /\ c.kind # "test"
  /\ editor.testing => \E c \in ruleCalls : c.from = "editor" /\ c.kind = "test"

\* Whatever answers overlap, rules keep their order and number, and no dialog waits for
\* nothing.
RulesInv == RulesInOrderMade /\ ListFitsTheApi /\ NoDialogIsStuck
=============================================================================
