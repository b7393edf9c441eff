-------------------------------- MODULE Orgs --------------------------------
(***************************************************************************)
(* Organizations, teams, memberships, custom roles and the permissions     *)
(* resolved from them (registry/platform_sqlite.go, server/platform_orgs,  *)
(* server/platform_users, server/rbac_v2, permissions/engine).             *)
(*                                                                         *)
(* A mutation is an admin's request that checks in one step and writes in  *)
(* a later one; no lock is held between. Several reads that only gate the  *)
(* write are one step: the last of them decides, and the write meets the   *)
(* table's own constraint again. Ids are random, so a deleted id never     *)
(* comes back. Foreign keys are on, and teams has one; org_members,        *)
(* team_members and custom_roles have none. Names and descriptions are     *)
(* left out, and with them the two updates that write nothing else.        *)
(***************************************************************************)
EXTENDS Naturals, Sequences, TLC

CONSTANTS
    OrgIds, TeamIds, RoleIds,   \* random ids a create may draw
    Users,                      \* user subs, among them the ids of API keys
    Names,                      \* slugs and role names
    MemberRoles,                \* role ids the bodies give a team's member: any string is stored
    CustomPerms,                \* permission sets a custom role is given
    OrgKeys,                    \* API keys: [id, tenant, role]
    OrgReqs                     \* requests in flight at once

NoOrg == "none"
Gone == "gone"
NoMember == "none"
NoReq == [op |-> "none"]

VARIABLES
    orgs,        \* organizations: slug, NoOrg or Gone
    teams,       \* teams: [org, slug] or [org |-> NoOrg / Gone]
    roles,       \* custom_roles of an organization: [org, name, perms]
    orgMembers,  \* org_members: role or NoMember, the org need not exist
    teamMembers, \* team_members: role id or NoMember, nothing need exist
    oreq,        \* requests in flight
    member       \* history: the memberships the answers so far promise

orgVars == <<orgs, teams, roles, orgMembers, teamMembers, oreq, member>>

(***************************************************************************)
(* Permissions                                                             *)
(***************************************************************************)

PlatformPerms == {<<"platform", "orgs", "create">>, <<"platform", "pools", "manage">>}
OrgPerms == {<<"org", "teams", "create">>, <<"org", "roles", "create">>, <<"org", "pools", "request">>}
AdminPerms == {<<"team", "keys", "revoke">>, <<"team", "members", "invite">>, <<"team", "approvals", "review">>}
DeployPerms == {<<"team", "models", "deploy">>, <<"team", "keys", "create">>}
ViewPerms == {<<"team", "members", "view">>, <<"team", "metrics", "view">>, <<"team", "approvals", "view">>}
CallPerms == {<<"inference", "call">>}

\* The built-in roles, one or two permissions standing for each group.
SystemRoles ==
    [platform_admin |-> PlatformPerms \cup OrgPerms \cup AdminPerms \cup DeployPerms \cup ViewPerms \cup CallPerms,
     org_admin |-> OrgPerms \cup AdminPerms \cup DeployPerms \cup ViewPerms \cup CallPerms,
     team_admin |-> AdminPerms \cup DeployPerms \cup ViewPerms \cup CallPerms,
     developer |-> DeployPerms \cup {<<"team", "metrics", "view">>} \cup CallPerms,
     viewer |-> ViewPerms,
     inference_only |-> CallPerms]

\* An API key's id is a user like any other, and a random id is no built-in role's name.
ASSUME OrgsAssumption ==
    /\ \A k \in OrgKeys : k.id \in Users
    /\ RoleIds \cap DOMAIN SystemRoles = {}

\* Has: an exact match, or a wildcard whose prefix the required one begins with.
Has(effective, required) ==
    \E p \in effective :
        \/ p = required
        \/ /\ Len(p) > 1 /\ p[Len(p)] = "*"
           /\ Len(required) >= Len(p)
           /\ SubSeq(required, 1, Len(p) - 1) = SubSeq(p, 1, Len(p) - 1)

\* What the mapped routes require; the delete and undeploy routes go with the create
\* and deploy ones.
routePermission ==
    PlatformPerms \cup DeployPerms
    \cup {<<"org", "pools", "request">>, <<"org", "roles", "create">>, <<"team", "keys", "revoke">>,
          <<"team", "metrics", "view">>, <<"team", "approvals", "view">>, <<"team", "approvals", "review">>}

legacyRolePerms(role) ==
    CASE role = "admin" -> SystemRoles.platform_admin
      [] role = "viewer" -> SystemRoles.viewer
      [] role = "inference" -> CallPerms
      [] OTHER -> {}

(***************************************************************************)
(* The tables                                                              *)
(***************************************************************************)

GetOrganization(o) == orgs[o] \notin {NoOrg, Gone}
GetOrganizationBySlug(slug) == \E o \in OrgIds : orgs[o] = slug
GetTeam(t) == teams[t].org \notin {NoOrg, Gone}
ListTeamsByOrg(o) == {t \in TeamIds : teams[t].org = o}
GetTeamBySlug(o, slug) == \E t \in ListTeamsByOrg(o) : teams[t].slug = slug
GetOrgMember(o, u) == orgMembers[o][u] # NoMember
GetTeamMember(t, u) == teamMembers[t][u] # NoMember
IsCustomRoleInUse(r) == \E t \in TeamIds, u \in Users : teamMembers[t][u] = r

\* Mutant: the lookup forgets the organization.
GetCustomRoleAnyOrg(o, r) == r \in RoleIds /\ roles[r].org \notin {NoOrg, Gone}

\* GetCustomRole for an organization: only that organization's rows.
GetCustomRole(o, r) == r \in RoleIds /\ roles[r].org = o

\* Mutant: no UNIQUE constraint backs the handler's check.
CreateOrganizationUnchecked(o, slug) == orgs' = [orgs EXCEPT ![o] = slug]

\* CreateOrganization under the UNIQUE slug; false when the constraint refuses.
CreateOrganization(o, slug) ==
    /\ ~GetOrganizationBySlug(slug)
    /\ orgs' = [orgs EXCEPT ![o] = slug]

\* ON DELETE CASCADE takes the organization's teams along.
DeleteOrganization(o) ==
    /\ GetOrganization(o)
    /\ orgs' = [orgs EXCEPT ![o] = Gone]
    /\ teams' = [t \in TeamIds |-> IF teams[t].org = o THEN [org |-> Gone] ELSE teams[t]]

\* Mutant: the foreign key is not enforced.
CreateTeamNoForeignKey(t, o, slug) ==
    /\ ~GetTeamBySlug(o, slug)
    /\ teams' = [teams EXCEPT ![t] = [org |-> o, slug |-> slug]]

CreateTeam(t, o, slug) ==
    /\ GetOrganization(o)
    /\ ~GetTeamBySlug(o, slug)
    /\ teams' = [teams EXCEPT ![t] = [org |-> o, slug |-> slug]]

DeleteTeam(t) == GetTeam(t) /\ teams' = [teams EXCEPT ![t] = [org |-> Gone]]

\* AddOrgMember: ON CONFLICT DO NOTHING. AddTeamMember: ON CONFLICT DO UPDATE.
AddOrgMember(o, u, r) == orgMembers' = [orgMembers EXCEPT ![o][u] = IF @ = NoMember THEN r ELSE @]
RemoveOrgMember(o, u) == GetOrgMember(o, u) /\ orgMembers' = [orgMembers EXCEPT ![o][u] = NoMember]
AddTeamMember(t, u, r) == teamMembers' = [teamMembers EXCEPT ![t][u] = r]
RemoveTeamMember(t, u) == GetTeamMember(t, u) /\ teamMembers' = [teamMembers EXCEPT ![t][u] = NoMember]

CreateCustomRole(r, o, name, perms) ==
    /\ ~\E q \in RoleIds : roles[q].org = o /\ roles[q].name = name
    /\ roles' = [roles EXCEPT ![r] = [org |-> o, name |-> name, perms |-> perms]]

UpdateCustomRole(o, r, perms) == GetCustomRole(o, r) /\ roles' = [roles EXCEPT ![r].perms = perms]
DeleteCustomRole(o, r) == GetCustomRole(o, r) /\ roles' = [roles EXCEPT ![r] = [org |-> Gone]]

\* GetEffectivePermissions: an organization's admin has the built-in role's
\* permissions; the team role adds its own, looked up in the team's organization
\* first and among the built-ins then. A role that does not exist adds nothing.
GetEffectivePermissions(u, t) ==
    LET o == teams[t].org
        r == teamMembers[t][u] IN
    IF ~GetTeam(t) THEN {}
    ELSE (IF orgMembers[o][u] = "org_admin" THEN SystemRoles.org_admin ELSE {})
         \cup (IF GetCustomRole(o, r) THEN roles[r].perms
               ELSE IF r \in DOMAIN SystemRoles THEN SystemRoles[r] ELSE {})

\* resolvePermissions for a request with an API key: the team's permissions when
\* there are any, else those of the key's legacy role.
resolvePermissions(k) ==
    LET ep == IF k.tenant \in TeamIds THEN GetEffectivePermissions(k.id, k.tenant) ELSE {}
    IN  IF ep # {} THEN ep ELSE legacyRolePerms(k.role)

\* Platform admins bypass the check.
checkPermission(k, required) == k.role = "admin" \/ Has(resolvePermissions(k), required)

(***************************************************************************)
(* Requests                                                                *)
(***************************************************************************)

OrgInit ==
    /\ orgs = [o \in OrgIds |-> NoOrg]
    /\ teams = [t \in TeamIds |-> [org |-> NoOrg]]
    /\ roles = [r \in RoleIds |-> [org |-> NoOrg]]
    /\ orgMembers = [o \in OrgIds |-> [u \in Users |-> NoMember]]
    /\ teamMembers = [t \in TeamIds |-> [u \in Users |-> NoMember]]
    /\ oreq = [q \in OrgReqs |-> NoReq]
    /\ member = {}

ReqIdle(q) == oreq[q] = NoReq
Begin(q, r) == ReqIdle(q) /\ oreq' = [oreq EXCEPT ![q] = r]
ReqAt(q, op) == oreq[q].op = op
Answer(q) == oreq' = [oreq EXCEPT ![q] = NoReq]

\* The checks of each handler; a check that fails answers 404 or 409 at once.
handleCreateOrg(q, slug) ==
    /\ ~GetOrganizationBySlug(slug)
    /\ Begin(q, [op |-> "createOrg", slug |-> slug])

handleDeleteOrg(q, o) ==
    /\ ListTeamsByOrg(o) = {}
    /\ Begin(q, [op |-> "deleteOrg", org |-> o])

handleCreateTeam(q, o, slug) ==
    /\ GetOrganization(o) /\ ~GetTeamBySlug(o, slug)
    /\ Begin(q, [op |-> "createTeam", org |-> o, slug |-> slug])

handleDeleteTeam(q, t) == GetTeam(t) /\ Begin(q, [op |-> "deleteTeam", team |-> t])

handleUpdateOrgMember(q, o, u, r) ==
    /\ GetOrgMember(o, u)
    /\ Begin(q, [op |-> "removeMember", org |-> o, user |-> u, role |-> r])

handleUpdateTeamMember(q, t, u, r) ==
    /\ GetTeamMember(t, u)
    /\ Begin(q, [op |-> "setTeamRole", team |-> t, user |-> u, role |-> r])

\* No organization need exist: a placeholder is upserted into platform_orgs, which
\* nothing else here reads.
handleCreateRole(q, o, name, perms) ==
    Begin(q, [op |-> "createRole", org |-> o, name |-> name, perms |-> perms])

handleUpdateRole(q, o, r, perms) ==
    /\ GetCustomRole(o, r)
    /\ Begin(q, [op |-> "updateRole", org |-> o, role |-> r, perms |-> perms])

handleDeleteRole(q, o, r) ==
    /\ GetCustomRole(o, r) /\ ~IsCustomRoleInUse(r)
    /\ Begin(q, [op |-> "deleteRole", org |-> o, role |-> r])

OrgChecks(q) ==
    /\ \/ \E slug \in Names : handleCreateOrg(q, slug)
       \/ \E o \in OrgIds : handleDeleteOrg(q, o)
       \/ \E o \in OrgIds, slug \in Names : handleCreateTeam(q, o, slug)
       \/ \E t \in TeamIds : handleDeleteTeam(q, t)
       \/ \E o \in OrgIds, u \in Users, r \in {"org_admin", "member"} : handleUpdateOrgMember(q, o, u, r)
       \/ \E t \in TeamIds, u \in Users, r \in MemberRoles : handleUpdateTeamMember(q, t, u, r)
       \/ \E o \in OrgIds, name \in Names, ps \in CustomPerms : handleCreateRole(q, o, name, ps)
       \/ \E o \in OrgIds, r \in RoleIds, ps \in CustomPerms : handleUpdateRole(q, o, r, ps)
       \/ \E o \in OrgIds, r \in RoleIds : handleDeleteRole(q, o, r)
    /\ UNCHANGED <<orgs, teams, roles, orgMembers, teamMembers, member>>

\* The writes. A create draws an id that was never used.
OrgWrites(q) ==
    /\ \/ /\ ReqAt(q, "createOrg")
          /\ \E o \in OrgIds : orgs[o] = NoOrg /\ CreateOrganization(o, oreq[q].slug)
          /\ UNCHANGED teams
       \/ ReqAt(q, "deleteOrg") /\ DeleteOrganization(oreq[q].org)
       \/ /\ ReqAt(q, "createTeam")
          /\ \E t \in TeamIds : teams[t].org = NoOrg /\ CreateTeam(t, oreq[q].org, oreq[q].slug)
          /\ UNCHANGED orgs
       \/ ReqAt(q, "deleteTeam") /\ DeleteTeam(oreq[q].team) /\ UNCHANGED orgs
    /\ Answer(q)
    /\ UNCHANGED <<roles, orgMembers, teamMembers, member>>

RoleWrites(q) ==
    /\ \/ /\ ReqAt(q, "createRole")
          /\ \E r \in RoleIds : roles[r].org = NoOrg
                /\ CreateCustomRole(r, oreq[q].org, oreq[q].name, oreq[q].perms)
       \/ ReqAt(q, "updateRole") /\ UpdateCustomRole(oreq[q].org, oreq[q].role, oreq[q].perms)
       \/ ReqAt(q, "deleteRole") /\ DeleteCustomRole(oreq[q].org, oreq[q].role)
    /\ Answer(q)
    /\ UNCHANGED <<orgs, teams, orgMembers, teamMembers, member>>

\* handleUpdateOrgMember removes the row and adds it again with the new role.
UpdateMemberRemove(q) ==
    /\ ReqAt(q, "removeMember")
    /\ RemoveOrgMember(oreq[q].org, oreq[q].user)
    /\ oreq' = [oreq EXCEPT ![q].op = "addMember"]
    /\ UNCHANGED <<orgs, teams, roles, teamMembers, member>>

\* Mutant: the second half is left to the caller.
UpdateMemberAddSkipped(q) ==
    /\ ReqAt(q, "addMember")
    /\ Answer(q)
    /\ member' = member \cup {<<oreq[q].org, oreq[q].user>>}
    /\ UNCHANGED <<orgs, teams, roles, orgMembers, teamMembers>>

UpdateMemberAdd(q) ==
    /\ ReqAt(q, "addMember")
    /\ AddOrgMember(oreq[q].org, oreq[q].user, oreq[q].role)
    /\ Answer(q)
    /\ member' = member \cup {<<oreq[q].org, oreq[q].user>>}
    /\ UNCHANGED <<orgs, teams, roles, teamMembers>>

UpdateTeamMemberWrite(q) ==
    /\ ReqAt(q, "setTeamRole")
    /\ AddTeamMember(oreq[q].team, oreq[q].user, oreq[q].role)
    /\ Answer(q)
    /\ UNCHANGED <<orgs, teams, roles, orgMembers, member>>

\* The handlers that only write.
handleAddOrgMember(o, u, r) ==
    /\ AddOrgMember(o, u, r)
    /\ member' = member \cup {<<o, u>>}
    /\ UNCHANGED <<orgs, teams, roles, teamMembers, oreq>>

handleRemoveOrgMember(o, u) ==
    /\ RemoveOrgMember(o, u)
    /\ member' = member \ {<<o, u>>}
    /\ UNCHANGED <<orgs, teams, roles, teamMembers, oreq>>

handleAddTeamMember(t, u, r) ==
    /\ AddTeamMember(t, u, r)
    /\ UNCHANGED <<orgs, teams, roles, orgMembers, oreq, member>>

handleRemoveTeamMember(t, u) ==
    /\ RemoveTeamMember(t, u)
    /\ UNCHANGED <<orgs, teams, roles, orgMembers, oreq, member>>

\* A registry error, a constraint that refuses or a caller that went away ends the
\* request with an error. Between the two halves of a member update that loses the
\* membership, and the answer says so.
RequestFails(q) ==
    /\ ~ReqIdle(q)
    /\ Answer(q)
    /\ member' = IF ReqAt(q, "addMember") THEN member \ {<<oreq[q].org, oreq[q].user>>} ELSE member
    /\ UNCHANGED <<orgs, teams, roles, orgMembers, teamMembers>>

OrgNext ==
    \/ \E q \in OrgReqs :
         \/ OrgChecks(q) \/ OrgWrites(q) \/ RoleWrites(q)
         \/ UpdateMemberRemove(q) \/ UpdateMemberAdd(q)
         \/ UpdateTeamMemberWrite(q)
         \/ RequestFails(q)
    \/ \E o \in OrgIds, u \in Users :
         \/ \E r \in {"org_admin", "member"} : handleAddOrgMember(o, u, r)
         \/ handleRemoveOrgMember(o, u)
    \/ \E t \in TeamIds, u \in Users :
         \/ \E r \in MemberRoles : handleAddTeamMember(t, u, r)
         \/ handleRemoveTeamMember(t, u)

OrgSpec == OrgInit /\ [][OrgNext]_orgVars

(***************************************************************************)
(* Properties                                                              *)
(***************************************************************************)

\* Every team belongs to an organization that exists, although creating a team and
\* deleting its organization both check first and write later.
TeamHasOrg == \A t \in TeamIds : GetTeam(t) => GetOrganization(teams[t].org)

\* Two concurrent creates never leave two organizations with one slug.
SlugsUnique == \A o, p \in OrgIds : GetOrganization(o) /\ orgs[o] = orgs[p] => o = p

\* A membership that was granted, and neither removed nor lost by an update that
\* answered with an error, is in the table whenever no update is between its two halves.
MembershipKept ==
    \A m \in member :
        \/ GetOrgMember(m[1], m[2])
        \/ \E q \in OrgReqs : ReqAt(q, "addMember") /\ oreq[q].org = m[1] /\ oreq[q].user = m[2]

\* Tenants are apart: what a key may do beyond its legacy role comes from a team and an
\* organization that exist, and there from the organization's own role, from being its
\* admin, or from a built-in role, be it the platform's admin, that a request gave the key
\* in this very team, whatever rows deletions left behind in the membership and role tables.
\* (Every state of the tables also occurs with no request in flight, where it is stated.)
TenantsApart ==
    (\A q \in OrgReqs : ReqIdle(q)) =>
      \A k \in OrgKeys, p \in routePermission :
        checkPermission(k, p) =>
            \/ k.role = "admin"
            \/ Has(legacyRolePerms(k.role), p)
            \/ /\ GetTeam(k.tenant) /\ GetOrganization(teams[k.tenant].org)
               /\ \/ \E r \in RoleIds : roles[r].org = teams[k.tenant].org /\ Has(roles[r].perms, p)
                  \/ orgMembers[teams[k.tenant].org][k.id] = "org_admin" /\ Has(SystemRoles.org_admin, p)
                  \/ \E r \in DOMAIN SystemRoles : teamMembers[k.tenant][k.id] = r /\ Has(SystemRoles[r], p)
=============================================================================
