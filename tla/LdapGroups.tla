----------------------------- MODULE LdapGroups -----------------------------
(***************************************************************************)
(* From a directory user to a Purser role (ldapauth/connector.go): one     *)
(* search for the user's groups, then, level by level, one search per      *)
(* group for the groups it is a member of, and the best role any of them   *)
(* maps to.  A nested search that fails ends the whole walk with what was  *)
(* found; the directory may contain membership cycles.                     *)
(***************************************************************************)
EXTENDS Naturals, FiniteSets

CONSTANTS
    LGroups,      \* group DNs of the directory
    LDepth,       \* levels of nesting searched (5)
    DNRole,       \* DNGroupMappings: group -> role or "none"
    NameRole,     \* GroupMappings by the group's name: group -> role or "none"
    DefaultRole   \* DefaultRole, or "none"

LRoles == {"none", "inference", "viewer", "admin"}

ASSUME GroupsAssumption ==
    /\ LDepth \in Nat /\ DefaultRole \in LRoles
    /\ {DNRole, NameRole} \subseteq [LGroups -> LRoles]

VARIABLES
    direct,    \* the groups the user is a member of
    parents,   \* parents[g]: the groups g is a member of
    walk       \* the search: what is found, this level's DNs, the next one's

groupVars == <<direct, parents, walk>>

priority == [r \in LRoles |-> CASE r = "admin" -> 3 [] r = "viewer" -> 2 [] r = "inference" -> 1 [] OTHER -> 0]

Best(S) == CHOOSE r \in S \cup {"none"} : \A x \in S : priority[x] <= priority[r]

(* resolveRole: the best role of the groups, else the default; "" is "none". *)
(* Without mappings there is nothing to enforce, and no role.                *)
resolveRole(groups) ==
    LET enforced == \E g \in LGroups : DNRole[g] # "none" \/ NameRole[g] # "none"
        best     == Best({DNRole[g] : g \in groups} \cup {NameRole[g] : g \in groups})
    IN  IF ~enforced THEN [role |-> "none", ok |-> TRUE]
        ELSE IF best # "none" THEN [role |-> best, ok |-> TRUE]
        ELSE [role |-> DefaultRole, ok |-> DefaultRole # "none"]

GroupsInit ==
    /\ direct \in SUBSET LGroups
    /\ parents \in [LGroups -> SUBSET LGroups]
    /\ walk = [at |-> "start", seen |-> {}, dns |-> {}, new |-> {}, depth |-> 0, cut |-> FALSE]

(* searchGroups: the groups that list the user; an error fails the login.    *)
searchGroups ==
    /\ walk.at = "start"
    /\ \/ walk' = [walk EXCEPT !.at = IF direct = {} \/ LDepth = 0 THEN "done" ELSE "nested",
                               !.seen = direct, !.dns = direct]
       \/ walk' = [walk EXCEPT !.at = "failed"]
    /\ UNCHANGED <<direct, parents>>

(* searchParentGroups, one search: the groups that list dn and are new.      *)
searchParentGroups(dn) ==
    /\ walk.at = "nested" /\ dn \in walk.dns
    /\ walk' = [walk EXCEPT !.dns = @ \ {dn}, !.seen = @ \cup parents[dn],
                            !.new = @ \cup (parents[dn] \ walk.seen)]
    /\ UNCHANGED <<direct, parents>>

(* A nested search fails: partial results, and nothing deeper.               *)
NestedSearchFails ==
    /\ walk.at = "nested" /\ walk.dns # {}
    /\ walk' = [walk EXCEPT !.at = "done", !.cut = TRUE]
    /\ UNCHANGED <<direct, parents>>

(* Mutant: the depth is compared before it is counted.                       *)
NextLevelTooDeep ==
    /\ walk.at = "nested" /\ walk.dns = {}
    /\ walk' = [walk EXCEPT !.depth = @ + 1, !.dns = walk.new, !.new = {},
                            !.at = IF walk.new = {} \/ walk.depth >= LDepth THEN "done" ELSE "nested"]
    /\ UNCHANGED <<direct, parents>>

(* The recursive call: the next level, or the end.                           *)
NextLevel ==
    /\ walk.at = "nested" /\ walk.dns = {}
    /\ walk' = [walk EXCEPT !.depth = @ + 1, !.dns = walk.new, !.new = {},
                            !.at = IF walk.new = {} \/ walk.depth + 1 >= LDepth THEN "done" ELSE "nested"]
    /\ UNCHANGED <<direct, parents>>

GroupsNext == searchGroups \/ NestedSearchFails \/ NextLevel \/ \E dn \in LGroups : searchParentGroups(dn)

GroupsSpec == GroupsInit /\ [][GroupsNext]_groupVars

-----------------------------------------------------------------------------
(* The groups the user is in through at most n nestings: a chain of groups, *)
(* the first of which the user is a member of, each a member of the next.    *)
Chains(k) ==
    {s \in [0..k -> LGroups] : s[0] \in direct /\ \A i \in 1..k : s[i] \in parents[s[i - 1]]}
Within(n) == {g \in LGroups : \E k \in 0..n : \E s \in Chains(k) : s[k] = g}

(* A login that finishes has exactly the role of the groups within LDepth    *)
(* nestings, in whatever order the searches were answered and although the   *)
(* memberships may be cyclic; when a nested search failed, it never has a    *)
(* better one than those groups or the default give.                         *)
RoleIsDirectorys ==
    walk.at = "done" =>
        LET given == resolveRole(walk.seen)
            due   == resolveRole(Within(LDepth))
        IN  IF walk.cut THEN priority[given.role] <= priority[Best({due.role, DefaultRole})]
            ELSE walk.seen = Within(LDepth) /\ given = due
=============================================================================
