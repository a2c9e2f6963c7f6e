-------------------------- MODULE MockWorkspaces --------------------------
(***************************************************************************)
(* The workspaces of the mock API that the web app is developed and tested *)
(* against (lib/mocks/handlers.ts): the records of all workspaces, the     *)
(* active one's projects and profiles unpacked into variables of their own *)
(* that most handlers work on, and the session storage a reload reads all  *)
(* of it back from.  Three copies of one state.                            *)
(***************************************************************************)
EXTENDS Integers, FiniteSets, Functions

CONSTANTS Home, Nimbus, Orbit, \* the workspace a session starts in, one it may read, one it is invited to
          MadeSpaces,          \* the workspaces it may create
          SeededRepos,         \* the projects of Home and Nimbus
          FreshRepos,          \* the projects it may connect
          Presets, Customs,    \* the built-in profiles, and those it may create
          MaxCustomProfiles,
          Mates,               \* the people other than the signed-in one
          MaxMockCalls

NoMockSpace == "no workspace"
Me      == "me"
Owner   == "owner"
MockSpaces  == {Home, Nimbus, Orbit} \cup MadeSpaces
Balanced == CHOOSE p \in Presets : TRUE

ASSUME MockWorkspacesAssumption ==
  /\ Home # Nimbus /\ Orbit \notin {Home, Nimbus} /\ NoMockSpace \notin MockSpaces
  /\ \A w \in {Home, Nimbus} : IsFiniteSet(SeededRepos[w])
  /\ SeededRepos[Home] \cap SeededRepos[Nimbus] = {}
  /\ Presets # {} /\ Presets \cap Customs = {} /\ IsFiniteSet(Customs)
  /\ MaxCustomProfiles \in Nat \ {0} /\ MaxMockCalls \in Nat

VARIABLES records,  \* what each existing workspace owns
          activeWorkspaceId,
          unpacked, \* connected, pool, defaultProfileId and assignments of the active one
          store,    \* what session storage holds, NotStored at first
          mockCalls

mockVars == <<records, activeWorkspaceId, unpacked, store, mockCalls>>

\* A map in which an entry is set.
With(map, key, value) == [k \in DOMAIN map \cup {key} |-> IF k = key THEN value ELSE map[k]]
NoneAssigned == [r \in {} |-> Balanced]
Owned(repos) == [repos |-> repos, pool |-> Presets, default |-> Balanced, assigned |-> NoneAssigned]
NothingOwned == [Owned({}) EXCEPT !.pool = {}]
Record(role, members, repos) ==
  [role |-> role, members |-> members, invited |-> {}, disabled |-> FALSE, owned |-> Owned(repos)]
Member(role)    == [role |-> role, active |-> TRUE]
creatorMembership(role) == [p \in {Me} |-> Member(role)]
joinedMembers(role) == With(creatorMembership(role), Owner, Member("org-admin"))
mockMembers == [p \in Mates \cup {Me} |-> Member(IF p = Me THEN "org-admin" ELSE "viewer")]

seedWorkspaces ==
  [w \in {Home, Nimbus} |->
     IF w = Home THEN Record("org-admin", mockMembers, SeededRepos[Home])
     ELSE Record("viewer", joinedMembers("viewer"), SeededRepos[Nimbus])]

packWorkspace(recs, w, un) == IF w \in DOMAIN recs THEN [recs EXCEPT ![w].owned = un] ELSE recs

unpackWorkspace(recs, w) == IF w \in DOMAIN recs THEN recs[w].owned ELSE NothingOwned

MockCall == mockCalls < MaxMockCalls /\ mockCalls' = mockCalls + 1

\* What a handler leaves behind: the records packed and written to session storage.
persistState(recs, w, un) ==
  LET packed == packWorkspace(recs, w, un)
  IN  records' = packed /\ activeWorkspaceId' = w /\ unpacked' = un /\ store' = <<packed, w>>

\* Another workspace becomes the one every other handler reads.
loadWorkspace(recs, w) ==
  LET packed == packWorkspace(recs, activeWorkspaceId, unpacked)
  IN  persistState(packed, w, unpackWorkspace(packed, w))

\* Restored from session storage, or seeded.
restore(from) ==
  LET kept == IF from = <<>> THEN <<seedWorkspaces, activeWorkspaceId>> ELSE from
  IN  /\ records' = kept[1] /\ activeWorkspaceId' = kept[2]
      /\ unpacked' = unpackWorkspace(kept[1], kept[2])

MockInit ==
  /\ records = seedWorkspaces
  /\ activeWorkspaceId \in {NoMockSpace, Home}
  /\ unpacked = unpackWorkspace(seedWorkspaces, activeWorkspaceId)
  /\ store = <<>> /\ mockCalls = 0

ReloadMock == restore(store) /\ UNCHANGED <<store, mockCalls>>

-----------------------------------------------------------------------------
\* Workspaces.
CreateWorkspace(w) ==
  /\ MockCall /\ w \in MadeSpaces \ DOMAIN records
  /\ loadWorkspace(With(records, w, Record("org-admin", creatorMembership("org-admin"), {})), w)

SwitchWorkspace(w) ==
  /\ MockCall /\ w \in DOMAIN records
  /\ loadWorkspace(records, w)

\* An administrator deletes the active one, no scan being active; the session has none then.
DeleteWorkspace ==
  /\ MockCall /\ activeWorkspaceId \in DOMAIN records /\ records[activeWorkspaceId].role = "org-admin"
  /\ loadWorkspace(Restrict(records, DOMAIN records \ {activeWorkspaceId}), NoMockSpace)

AcceptInvitation ==
  /\ MockCall /\ Orbit \notin DOMAIN records
  /\ persistState(With(records, Orbit, Record("developer", joinedMembers("developer"), {})),
                  activeWorkspaceId, unpacked)

-----------------------------------------------------------------------------
\* Members, of the active workspace, by an administrator.
ChangeRecord(rec) == persistState([records EXCEPT ![activeWorkspaceId] = rec], activeWorkspaceId, unpacked)

Administers ==
  /\ MockCall /\ activeWorkspaceId \in DOMAIN records
  /\ records[activeWorkspaceId].role = "org-admin"

isActiveAdmin(m) == m.role = "org-admin" /\ m.active

isLastAdmin(members, who) ==
  isActiveAdmin(members[who]) /\ {p \in DOMAIN members : isActiveAdmin(members[p])} = {who}

InviteMate(who) ==
  /\ Administers
  /\ LET rec == records[activeWorkspaceId] IN
     /\ who \notin rec.invited
     /\ ~(who \in DOMAIN rec.members /\ rec.members[who].active)
     /\ ChangeRecord([rec EXCEPT !.invited = @ \cup {who}])

RevokeInvitation(who) ==
  /\ Administers /\ who \in records[activeWorkspaceId].invited
  /\ ChangeRecord([records[activeWorkspaceId] EXCEPT !.invited = @ \ {who}])

ChangeRole(who, role) ==
  /\ Administers /\ who \in DOMAIN records[activeWorkspaceId].members
  /\ LET rec == records[activeWorkspaceId] IN
     /\ role # "org-admin" => ~isLastAdmin(rec.members, who)
     /\ ChangeRecord([rec EXCEPT !.members[who].role = role, !.role = IF who = Me THEN role ELSE @])

RemoveMember(who) ==
  /\ Administers /\ who \in DOMAIN records[activeWorkspaceId].members
  /\ LET rec == records[activeWorkspaceId] IN
     /\ rec.members[who].active /\ ~isLastAdmin(rec.members, who)
     /\ ChangeRecord([rec EXCEPT !.members[who].active = FALSE])

\* A rule is switched off or on.
ChangeRules ==
  /\ Administers
  /\ ChangeRecord([records[activeWorkspaceId] EXCEPT !.disabled = ~@])

-----------------------------------------------------------------------------
\* Projects and profiles, in the unpacked variables of the active workspace.
Works(un) == MockCall /\ activeWorkspaceId \in DOMAIN records /\ persistState(records, activeWorkspaceId, un)

connected   == unpacked.repos
pool        == unpacked.pool
assignments == unpacked.assigned
Connected   == UNION {records[w].owned.repos : w \in DOMAIN records}

ConnectProject(r) ==
  /\ r \in FreshRepos \ Connected
  /\ Works([unpacked EXCEPT !.repos = @ \cup {r}])

RemoveProject(r) ==
  /\ r \in connected
  /\ Works([unpacked EXCEPT !.repos = @ \ {r}, !.assigned = Restrict(@, DOMAIN @ \ {r})])

customProfiles == pool \cap Customs

CreateProfile(p) ==
  /\ p \in Customs \ pool /\ Cardinality(customProfiles) < MaxCustomProfiles
  /\ Works([unpacked EXCEPT !.pool = @ \cup {p}])

usageCount(p) == Cardinality({r \in DOMAIN assignments : assignments[r] = p})

DeleteProfile(p) ==
  /\ p \in customProfiles
  /\ p # unpacked.default /\ usageCount(p) = 0
  /\ Works([unpacked EXCEPT !.pool = @ \ {p}])

SetDefault(p) ==
  /\ p \in pool
  /\ Works([unpacked EXCEPT !.default = p])

\* The superseded PUT /profiles/active: numbers that are no built-in's go to the default when it
\* is a custom one, else to a custom one there is, else to a new one.
legacyCustomTarget ==
  IF unpacked.default \in Customs THEN {unpacked.default}
  ELSE IF customProfiles # {} THEN customProfiles
  ELSE Customs

applyToWorkspace ==
  \E p \in legacyCustomTarget \cup Presets :
    Works([unpacked EXCEPT !.pool = @ \cup {p}, !.default = p])

AssignProfile(r, p) ==
  /\ r \in connected /\ p \in pool
  /\ Works([unpacked EXCEPT !.assigned = With(@, r, p)])

ClearProfile(r) ==
  /\ r \in connected
  /\ Works([unpacked EXCEPT !.assigned = Restrict(@, DOMAIN @ \ {r})])

MockNext ==
  \/ ReloadMock \/ DeleteWorkspace \/ AcceptInvitation \/ ChangeRules \/ applyToWorkspace
  \/ \E w \in MockSpaces : CreateWorkspace(w) \/ SwitchWorkspace(w)
  \/ \E who \in Mates : InviteMate(who) \/ RevokeInvitation(who)
  \/ \E who \in Mates \cup {Me, Owner} : RemoveMember(who)
  \/ \E who \in Mates \cup {Me, Owner}, role \in {"org-admin", "viewer"} : ChangeRole(who, role)
  \/ \E r \in FreshRepos \cup Connected : ConnectProject(r) \/ RemoveProject(r) \/ ClearProfile(r)
  \/ \E p \in Presets \cup Customs : CreateProfile(p) \/ DeleteProfile(p) \/ SetDefault(p)
  \/ \E r \in Connected, p \in Presets \cup Customs : AssignProfile(r, p)

MockSpec == MockInit /\ [][MockNext]_mockVars

-----------------------------------------------------------------------------
\* The three copies agree after every request: the active workspace's record holds what the
\* handlers work on, and a reload would read the same back.
OneTruth ==
  /\ unpacked = unpackWorkspace(records, activeWorkspaceId)
  /\ store # <<>> => store = <<records, activeWorkspaceId>>

\* Leaving a workspace and coming back, connecting and removing projects, creating and deleting
\* profiles in any order never leaves a default or an assignment to a profile that is gone, an
\* assignment of a project that is gone, too many profiles, or one project in two workspaces.
PoolIsUsable ==
  /\ \A w \in DOMAIN records :
       LET o == records[w].owned IN
       /\ o.default \in o.pool /\ Range(o.assigned) \subseteq o.pool
       /\ DOMAIN o.assigned \subseteq o.repos
       /\ Cardinality(o.pool \cap Customs) <= MaxCustomProfiles
  /\ \A v, w \in DOMAIN records : v # w => records[v].owned.repos \cap records[w].owned.repos = {}

\* Every workspace keeps an administrator who is active.
MockAdminRemains ==
  \A w \in DOMAIN records : \E p \in DOMAIN records[w].members : isActiveAdmin(records[w].members[p])

\* The copies agree, the pool can be used, and every workspace has an administrator.
MockInv == OneTruth /\ PoolIsUsable /\ MockAdminRemains
=============================================================================
