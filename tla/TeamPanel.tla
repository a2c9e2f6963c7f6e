------------------------------- MODULE TeamPanel -------------------------------
(***************************************************************************)
(* The team on the workspace page (components/workspace/team-panel.tsx) of *)
(* an administrator, the founder: rows are changed, removed and revoked by *)
(* requests that overlap, one busy row is remembered, and the list is read *)
(* again after every answer.  The API and everyone else are Membership.    *)
(***************************************************************************)
EXTENDS Membership, Integers

CONSTANTS Slots,             \* requests of rows that may be out together
          MaxTeamCalls       \* requests of the panel

ASSUME TeamAssumption == MaxTeamCalls \in Nat

VARIABLES team,              \* the list that was read
          teamReading,       \* it is asked for again
          teamStale,         \* history: others acted since it was read
          busyRow, confirming,      \* the row that is busy; whose removal is confirmed
          rowCalls,          \* requests of rows
          inviteForm, inviteCall,   \* the address that was typed; its request
          teamCalls          \* how many there were

teamRead == <<team, teamReading, teamStale>>
teamRows == <<busyRow, confirming, rowCalls>>
teamForm == <<inviteForm, inviteCall>>
teamVars == <<membershipVars, teamRead, teamRows, teamForm, teamCalls>>

me == Founder
NoRow    == "no row"
NoRowCall == [kind |-> "none"]
pendingInvitations == {i \in Invites : invites[i].state = "pending" /\ ~invites[i].expired}
listMembers == [members |-> members, invites |-> pendingInvitations]

editable(u) == u # me /\ team.members[u].status = "active"

TeamInit ==
  /\ MembershipInit
  /\ team = listMembers /\ teamReading = FALSE /\ teamStale = FALSE
  /\ busyRow = NoRow /\ confirming = NoRow /\ rowCalls = [s \in Slots |-> NoRowCall]
  /\ inviteForm = NoRow /\ inviteCall = NoRowCall /\ teamCalls = 0

OthersAct ==
  /\ MembershipNext /\ teamStale' = TRUE
  /\ UNCHANGED <<team, teamReading, teamRows, teamForm, teamCalls>>

TeamRead ==
  /\ teamReading /\ teamReading' = FALSE /\ team' = listMembers /\ teamStale' = FALSE
  /\ UNCHANGED <<membershipVars, teamRows, teamForm, teamCalls>>

(***************************************************************************)
(* Rows.  A row's controls are locked while it is the busy one.            *)
(***************************************************************************)
KeepForm == UNCHANGED <<membershipVars, teamRead, teamForm>>

sendRow(s, row, call) ==
  /\ rowCalls[s] = NoRowCall /\ teamCalls < MaxTeamCalls /\ teamCalls' = teamCalls + 1
  /\ busyRow # row /\ busyRow' = row
  /\ rowCalls' = [rowCalls EXCEPT ![s] = call]

onRoleChange(s, u, role) ==
  /\ confirming = NoRow /\ editable(u) /\ role # team.members[u].role
  /\ sendRow(s, u, [kind |-> "role", row |-> u, role |-> role, stage |-> "sent"])
  /\ KeepForm /\ UNCHANGED confirming

AskRemove(u) ==
  /\ confirming = NoRow /\ editable(u) /\ busyRow # u /\ confirming' = u
  /\ KeepForm /\ UNCHANGED <<busyRow, rowCalls, teamCalls>>

\* Also while the removal is out.
CancelRemove ==
  /\ confirming # NoRow /\ confirming' = NoRow
  /\ KeepForm /\ UNCHANGED <<busyRow, rowCalls, teamCalls>>

onRemoveMember(s) ==
  /\ confirming # NoRow
  /\ sendRow(s, confirming, [kind |-> "remove", row |-> confirming, stage |-> "sent"])
  /\ KeepForm /\ UNCHANGED confirming

onRevoke(s, i) ==
  /\ confirming = NoRow /\ i \in team.invites
  /\ sendRow(s, i, [kind |-> "revoke", row |-> i, stage |-> "sent"])
  /\ KeepForm /\ UNCHANGED confirming

ServeRow(s) ==
  /\ rowCalls[s] # NoRowCall /\ rowCalls[s].stage = "sent"
  /\ \/ /\ CASE rowCalls[s].kind = "role"   -> changeRole(me, rowCalls[s].row, rowCalls[s].role)
             [] rowCalls[s].kind = "remove" -> deactivate(me, rowCalls[s].row)
             [] rowCalls[s].kind = "revoke" -> revokeInvitation(me, rowCalls[s].row)
        /\ rowCalls' = [rowCalls EXCEPT ![s].stage = "done"]
     \/ rowCalls' = [rowCalls EXCEPT ![s].stage = "refused"] /\ UNCHANGED membershipVars
  /\ UNCHANGED <<teamRead, busyRow, confirming, teamForm, teamCalls>>

\* Mutant: a refusal does not read the list again, and neither does what was done.
RowAnsweredOnly(s) ==
  /\ rowCalls[s] # NoRowCall /\ rowCalls[s].stage # "sent"
  /\ rowCalls' = [rowCalls EXCEPT ![s] = NoRowCall] /\ busyRow' = NoRow
  /\ confirming' = IF rowCalls[s].kind = "remove" THEN NoRow ELSE confirming
  /\ UNCHANGED <<membershipVars, teamRead, teamForm, teamCalls>>

\* Whatever row is busy, none is afterwards; a removal closes the dialog, whoever's it is.
RowAnswered(s) ==
  /\ rowCalls[s] # NoRowCall /\ rowCalls[s].stage # "sent"
  /\ rowCalls' = [rowCalls EXCEPT ![s] = NoRowCall] /\ busyRow' = NoRow
  /\ confirming' = IF rowCalls[s].kind = "remove" THEN NoRow ELSE confirming
  /\ teamReading' = TRUE
  /\ UNCHANGED <<membershipVars, team, teamStale, teamForm, teamCalls>>

(***************************************************************************)
(* Invitations.                                                            *)
(***************************************************************************)
TypeAddress(u) ==
  /\ confirming = NoRow /\ inviteForm # u /\ inviteForm' = u
  /\ UNCHANGED <<membershipVars, teamRead, teamRows, inviteCall, teamCalls>>

SendInvitation(role) ==
  /\ confirming = NoRow /\ inviteForm # NoRow /\ inviteCall = NoRowCall
  /\ teamCalls < MaxTeamCalls /\ teamCalls' = teamCalls + 1
  /\ inviteCall' = [kind |-> "invite", to |-> inviteForm, role |-> role, stage |-> "sent"]
  /\ UNCHANGED <<membershipVars, teamRead, teamRows, inviteForm>>

\* Nothing is created when the mail cannot be sent.
ServeInvitation ==
  /\ inviteCall # NoRowCall /\ inviteCall.stage = "sent"
  /\ \/ /\ \E i \in Invites : createInvitation(me, i, inviteCall.to, inviteCall.role)
        /\ inviteCall' = [inviteCall EXCEPT !.stage = "done"]
     \/ inviteCall' = [inviteCall EXCEPT !.stage = "refused"] /\ UNCHANGED membershipVars
  /\ UNCHANGED <<teamRead, teamRows, inviteForm, teamCalls>>

\* What was typed meanwhile is dropped with the address that was sent.
InvitationSent ==
  /\ inviteCall # NoRowCall /\ inviteCall.stage = "done" /\ inviteCall' = NoRowCall
  /\ inviteForm' = NoRow /\ teamReading' = TRUE
  /\ UNCHANGED <<membershipVars, team, teamStale, teamRows, teamCalls>>

InvitationRefused ==
  /\ inviteCall # NoRowCall /\ inviteCall.stage = "refused" /\ inviteCall' = NoRowCall
  /\ UNCHANGED <<membershipVars, teamRead, teamRows, inviteForm, teamCalls>>

TeamNext ==
  \/ OthersAct \/ TeamRead \/ CancelRemove
  \/ \E s \in Slots, u \in Users, role \in MemberRoles : onRoleChange(s, u, role)
  \/ \E s \in Slots, i \in Invites : onRevoke(s, i)
  \/ \E s \in Slots : onRemoveMember(s) \/ ServeRow(s) \/ RowAnswered(s)
  \/ \E u \in Users : AskRemove(u) \/ TypeAddress(u)
  \/ \E role \in InviteRoles : SendInvitation(role)
  \/ ServeInvitation \/ InvitationSent \/ InvitationRefused

TeamSpec == TeamInit /\ [][TeamNext]_teamVars

-----------------------------------------------------------------------------
\* Once every request has been answered and the list was read after it, it shows the
\* members there are, whatever rows overlapped, unless others acted since.
TeamSettles ==
  (~teamReading /\ ~teamStale /\ inviteCall = NoRowCall
     /\ \A s \in Slots : rowCalls[s] = NoRowCall) => team = listMembers
=============================================================================
