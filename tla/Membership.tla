------------------------------ MODULE Membership ------------------------------
(***************************************************************************)
(* The members and invitations of one workspace (services/member_admin.py, *)
(* app_accept_workspace_invitation and app_anonymize_user).  A role change *)
(* or a removal holds the row of the workspace while it counts its         *)
(* administrators; deleting an account checks and deletes without a lock,  *)
(* so it is two steps.                                                     *)
(***************************************************************************)
EXTENDS FiniteSets

CONSTANTS Users, Founder,    \* accounts; who created the workspace
          Invites            \* ids of invitations

ASSUME MembershipAssumption == Founder \in Users

VARIABLES members,           \* of each account: its role and whether it is active
          invites,           \* of each id: its state, address, role
          leaving            \* of each account: its deletion

membershipVars == <<members, invites, leaving>>

MemberRoles == {"org-admin", "developer"}  \* developer stands for those that manage nobody
InviteRoles == {"developer"}               \* what the page offers
Stranger == [role |-> "developer", status |-> "none"]
Unsent   == [state |-> "unsent", to |-> Founder, role |-> "developer", expired |-> FALSE]

isActive(u) == members[u].status = "active"
activeAdmins == {u \in Users : isActive(u) /\ members[u].role = "org-admin"}
mayManage(u) == u \in activeAdmins  \* member:manage

MembershipInit ==
  /\ members = [u \in Users |-> IF u = Founder THEN [role |-> "org-admin", status |-> "active"]
                                               ELSE Stranger]
  /\ invites = [i \in Invites |-> Unsent]
  /\ leaving = [u \in Users |-> "no"]

\* One invitation per address that is neither accepted nor revoked; one that has expired
\* still counts.  Whether the address is a member's is not asked.
createInvitation(actor, i, u, role) ==
  /\ mayManage(actor) /\ invites[i].state = "unsent"
  /\ \A j \in Invites : invites[j].state = "pending" => invites[j].to # u
  /\ invites' = [invites EXCEPT
       ![i] = [state |-> "pending", to |-> u, role |-> role, expired |-> FALSE]]
  /\ UNCHANGED <<members, leaving>>

revokeInvitation(actor, i) ==
  /\ mayManage(actor) /\ invites[i].state = "pending"
  /\ invites' = [invites EXCEPT ![i].state = "revoked"] /\ UNCHANGED <<members, leaving>>

InvitationExpires(i) ==
  /\ invites[i].state = "pending" /\ ~invites[i].expired
  /\ invites' = [invites EXCEPT ![i].expired = TRUE] /\ UNCHANGED <<members, leaving>>

\* Mutant: the invitation is not marked as accepted.
acceptAgain(u, i) ==
  /\ leaving[u] # "gone" /\ ~isActive(u)
  /\ invites[i].state = "pending" /\ ~invites[i].expired /\ invites[i].to = u
  /\ members' = [members EXCEPT ![u] = [role |-> invites[i].role, status |-> "active"]]
  /\ UNCHANGED <<invites, leaving>>

\* With the address of the account; a membership that was removed is active again, in the
\* role of the invitation.
accept(u, i) ==
  /\ leaving[u] # "gone" /\ ~isActive(u)
  /\ invites[i].state = "pending" /\ ~invites[i].expired /\ invites[i].to = u
  /\ members' = [members EXCEPT ![u] = [role |-> invites[i].role, status |-> "active"]]
  /\ invites' = [invites EXCEPT ![i].state = "accepted"] /\ UNCHANGED leaving

protectLastAdmin(u) == u \in activeAdmins => Cardinality(activeAdmins) # 1

\* Also of a membership that is not active.
changeRole(actor, u, role) ==
  /\ mayManage(actor) /\ members[u].status # "none"
  /\ members[u].role = "org-admin" /\ role # "org-admin" => protectLastAdmin(u)
  /\ members' = [members EXCEPT ![u].role = role] /\ UNCHANGED <<invites, leaving>>

deactivate(actor, u) ==
  /\ mayManage(actor) /\ isActive(u) /\ protectLastAdmin(u)
  /\ members' = [members EXCEPT ![u].status = "inactive"] /\ UNCHANGED <<invites, leaving>>

\* app_anonymize_user: the administrators are looked at, then the memberships deleted.
DeletionChecked(u) ==
  /\ leaving[u] = "no" /\ isActive(u)
  /\ u \in activeAdmins => activeAdmins # {u}
  /\ leaving' = [leaving EXCEPT ![u] = "checked"] /\ UNCHANGED <<members, invites>>

AccountDeleted(u) ==
  /\ leaving[u] = "checked" /\ leaving' = [leaving EXCEPT ![u] = "gone"]
  /\ members' = [members EXCEPT ![u] = Stranger] /\ UNCHANGED invites

\* What the API does for everyone.
MembershipNext ==
  \/ \E i \in Invites : InvitationExpires(i)
  \/ \E u \in Users, i \in Invites : accept(u, i)
  \/ \E actor, u \in Users : \/ \E i \in Invites, role \in InviteRoles : createInvitation(actor, i, u, role)
                             \/ \E role \in MemberRoles : changeRole(actor, u, role)
                             \/ deactivate(actor, u)
  \/ \E actor \in Users, i \in Invites : revokeInvitation(actor, i)
  \/ \E u \in Users : DeletionChecked(u) \/ AccountDeleted(u)

MembershipSpec == MembershipInit /\ [][MembershipNext]_membershipVars

-----------------------------------------------------------------------------
\* Every variable has its type.
MembershipTypeOK ==
  /\ members \in [Users -> [role : MemberRoles, status : {"none", "active", "inactive"}]]
  /\ invites \in [Invites -> [state : {"unsent", "pending", "accepted", "revoked"}, to : Users,
                              role : InviteRoles, expired : BOOLEAN]]
  /\ leaving \in [Users -> {"no", "checked", "gone"}]

\* Role changes and removals never take the last administrator, in whatever order they
\* come; only the deletion of an account can.
AdminsProtected ==
  activeAdmins # {} /\ activeAdmins' = {} =>
    \E u \in Users : leaving[u] # "gone" /\ leaving'[u] = "gone"

\* Who becomes active spends one invitation of their own for it.
InvitationAdmitsOnce ==
  \A u \in Users : ~isActive(u) /\ isActive(u)' =>
    \E i \in Invites : /\ invites[i].state = "pending" /\ invites'[i].state = "accepted"
                       /\ invites[i].to = u

\* Nobody joins without an invitation, or leaves the workspace without an administrator, in
\* whatever order invitations, role changes, removals and deletions come.
MembershipChangesRightly == [][AdminsProtected /\ InvitationAdmitsOnce]_membershipVars
=============================================================================
