------------------------------- MODULE Pools -------------------------------
(***************************************************************************)
(* Node pools, the nodes in them and the teams' quotas on them             *)
(* (server/platform_pools.go, the pool tables of registry/platform_sqlite) *)
(* and the node filter a deployment gets from them (server.go).            *)
(*                                                                         *)
(* Requests check in one step and write in a later one. Pool ids are       *)
(* random and never come back. Quota limits and names are left out; a      *)
(* rename is kept, because it writes the whole row it read. Teams come and *)
(* go by Orgs' operations; here only whether their row exists matters.     *)
(* Pools of the platform or of an organization, which GetAllowedNodeIDs    *)
(* gives to no team as exclusive ones, are left out.                       *)
(***************************************************************************)
EXTENDS Naturals, TLC

CONSTANTS
    PoolIds,
    PoolNodes,    \* nodes of the fleet; their rows are never deleted
    PoolTeams,
    PoolReqs      \* requests in flight at once

NoPool == "none"
PoolGone == "gone"
PoolIdle == [op |-> "none"]
Policies == {"exclusive", "shared"}

VARIABLES
    pools,      \* node_pools: [policy, owner], or policy NoPool / PoolGone
    poolOf,     \* node_pool_members: the pool of a node, or NoPool
    quotas,     \* pool_team_quotas: pairs <<pool, team>>
    teamRows,   \* teams whose row exists
    preq,       \* requests in flight, deploys included
    closed      \* history: nodes that were another team's alone all through a deploy's reads

poolVars == <<pools, poolOf, quotas, teamRows, preq, closed>>

GetNodePool(p) == pools[p].policy \in Policies
ListNodesInPool(p) == {n \in PoolNodes : poolOf[n] = p}

CreateNodePool(p, policy, owner) == pools' = [pools EXCEPT ![p] = [policy |-> policy, owner |-> owner]]
UpdateNodePool(p, row) == GetNodePool(p) /\ pools' = [pools EXCEPT ![p] = row]

\* Mutant: members go the way of the quotas' foreign key, unwatched.
DeleteNodePoolUnrestricted(p) ==
    /\ GetNodePool(p)
    /\ pools' = [pools EXCEPT ![p] = [policy |-> PoolGone]]
    /\ quotas' = {x \in quotas : x[1] # p}

\* ON DELETE RESTRICT for members, ON DELETE CASCADE for quotas.
DeleteNodePool(p) ==
    /\ GetNodePool(p) /\ ListNodesInPool(p) = {}
    /\ pools' = [pools EXCEPT ![p] = [policy |-> PoolGone]]
    /\ quotas' = {x \in quotas : x[1] # p}

\* An upsert by node id: whatever pool the node was in, it is in p now.
AddNodeToPool(n, p) == GetNodePool(p) /\ poolOf' = [poolOf EXCEPT ![n] = p]
RemoveNodeFromPool(n) == poolOf[n] # NoPool /\ poolOf' = [poolOf EXCEPT ![n] = NoPool]
UpsertPoolTeamQuota(p, t) == GetNodePool(p) /\ t \in teamRows /\ quotas' = quotas \cup {<<p, t>>}
DeletePoolTeamQuota(p, t) == <<p, t>> \in quotas /\ quotas' = quotas \ {<<p, t>>}

\* GetAllowedNodeIDs asks twice: for the team's own exclusive pools, and for the shared
\* pools it has a quota on.
OwnNodes(t) == {n \in PoolNodes : poolOf[n] # NoPool /\ pools[poolOf[n]].policy = "exclusive" /\ pools[poolOf[n]].owner = t}

\* Mutant: a quota opens the pool whatever its policy is.
SharedNodesByQuota(t) == {n \in PoolNodes : poolOf[n] # NoPool /\ <<poolOf[n], t>> \in quotas}

SharedNodes(t) == {n \in PoolNodes : poolOf[n] # NoPool /\ pools[poolOf[n]].policy = "shared" /\ <<poolOf[n], t>> \in quotas}

\* The nodes of exclusive pools of others than team t.
OthersNodes(t) == {n \in PoolNodes : poolOf[n] # NoPool /\ pools[poolOf[n]].policy = "exclusive" /\ pools[poolOf[n]].owner # t}

PoolInit ==
    /\ pools = [p \in PoolIds |-> [policy |-> NoPool]]
    /\ poolOf = [n \in PoolNodes |-> NoPool]
    /\ quotas = {}
    /\ teamRows = PoolTeams
    /\ preq = [q \in PoolReqs |-> PoolIdle]
    /\ closed = [q \in PoolReqs |-> {}]

(***************************************************************************)
(* Requests: the checks                                                    *)
(***************************************************************************)

PoolBegin(q, r) ==
    /\ preq[q] = PoolIdle
    /\ preq' = [preq EXCEPT ![q] = r]
    /\ UNCHANGED <<pools, poolOf, quotas, teamRows>>

\* One write, no check.
handleCreatePool(p, policy, owner) ==
    /\ pools[p].policy = NoPool
    /\ CreateNodePool(p, policy, owner)
    /\ UNCHANGED <<poolOf, quotas, teamRows, preq>>

\* The row read now is the row written later, but for the fields the body sets.
handleUpdatePool(q, p, row) ==
    /\ GetNodePool(p)
    /\ PoolBegin(q, [op |-> "update", pool |-> p, row |-> row])

handleDeletePool(q, p) ==
    /\ GetNodePool(p) /\ ListNodesInPool(p) = {}
    /\ PoolBegin(q, [op |-> "delete", pool |-> p])

handleAssignNodeToPool(q, p, n) ==
    /\ GetNodePool(p) /\ poolOf[n] \in {NoPool, p}
    /\ PoolBegin(q, [op |-> "assign", pool |-> p, node |-> n])

handleRemoveNodeFromPool(q, p, n) ==
    /\ GetNodePool(p) /\ poolOf[n] = p
    /\ PoolBegin(q, [op |-> "remove", pool |-> p, node |-> n])

handleUpsertPoolQuota(q, p, t) ==
    /\ GetNodePool(p)
    /\ PoolBegin(q, [op |-> "quota", pool |-> p, team |-> t])

handleDeletePoolQuota(q, p, t) ==
    /\ GetNodePool(p)
    /\ PoolBegin(q, [op |-> "unquota", pool |-> p, team |-> t])

\* handleDeployModel without a plan, for a key of team t: the first query.
handleDeployModel(q, t) == PoolBegin(q, [op |-> "deploy", team |-> t, own |-> OwnNodes(t)])

\* The second query, and what the planner may use: a list that is empty, or that could not
\* be read, is no filter.
PlanConstraints(q) ==
    /\ preq[q].op = "deploy"
    /\ \E failed \in BOOLEAN :
         LET allowed == IF failed THEN {} ELSE preq[q].own \cup SharedNodes(preq[q].team) IN
         preq' = [preq EXCEPT ![q] = [op |-> "planned", filtered |-> allowed # {},
                                      nodes |-> IF allowed = {} THEN PoolNodes ELSE allowed]]
    /\ UNCHANGED <<pools, poolOf, quotas, teamRows>>

(***************************************************************************)
(* The writes, and the end of a request that fails                         *)
(***************************************************************************)

PoolWrite(q) ==
    /\ LET r == preq[q] IN
       \/ r.op = "update" /\ UpdateNodePool(r.pool, r.row) /\ UNCHANGED <<poolOf, quotas>>
       \/ r.op = "delete" /\ DeleteNodePool(r.pool) /\ UNCHANGED poolOf
       \/ r.op = "assign" /\ AddNodeToPool(r.node, r.pool) /\ UNCHANGED <<pools, quotas>>
       \/ r.op = "remove" /\ RemoveNodeFromPool(r.node) /\ UNCHANGED <<pools, quotas>>
       \/ r.op = "quota" /\ UpsertPoolTeamQuota(r.pool, r.team) /\ UNCHANGED <<pools, poolOf>>
       \/ r.op = "unquota" /\ DeletePoolTeamQuota(r.pool, r.team) /\ UNCHANGED <<pools, poolOf>>
    /\ preq' = [preq EXCEPT ![q] = PoolIdle]
    /\ UNCHANGED teamRows

\* A request fails, or the deploy is handed to the orchestrator.
PoolRequestEnds(q) ==
    /\ preq[q] # PoolIdle
    /\ preq' = [preq EXCEPT ![q] = PoolIdle]
    /\ UNCHANGED <<pools, poolOf, quotas, teamRows>>

\* A team is deleted, and its quotas with it (ON DELETE CASCADE).
TeamGoes(t) ==
    /\ t \in teamRows
    /\ teamRows' = teamRows \ {t}
    /\ quotas' = {x \in quotas : x[2] # t}
    /\ UNCHANGED <<pools, poolOf, preq>>

\* What a deploy's reads are compared with, kept beside every step.
Watch ==
    closed' = [q \in PoolReqs |->
        CASE preq'[q].op = "deploy" -> IF preq[q].op = "deploy" THEN closed[q] \cap OthersNodes(preq[q].team)'
                                       ELSE OthersNodes(preq'[q].team)
          [] preq'[q].op = "planned" -> closed[q]
          [] OTHER -> {}]

PoolStep ==
    \/ \E p \in PoolIds, policy \in Policies, t \in PoolTeams : handleCreatePool(p, policy, t)
    \/ \E q \in PoolReqs, p \in PoolIds :
         \/ handleUpdatePool(q, p, pools[p])
         \/ \E policy \in Policies : handleUpdatePool(q, p, [pools[p] EXCEPT !.policy = policy])
         \/ handleDeletePool(q, p)
         \/ \E n \in PoolNodes : handleAssignNodeToPool(q, p, n) \/ handleRemoveNodeFromPool(q, p, n)
         \/ \E t \in PoolTeams : handleUpsertPoolQuota(q, p, t) \/ handleDeletePoolQuota(q, p, t)
    \/ \E q \in PoolReqs, t \in PoolTeams : handleDeployModel(q, t)
    \/ \E q \in PoolReqs : PoolWrite(q) \/ PlanConstraints(q) \/ PoolRequestEnds(q)
    \/ \E t \in PoolTeams : TeamGoes(t)

PoolNext == PoolStep /\ Watch

PoolSpec == PoolInit /\ [][PoolNext]_poolVars

(***************************************************************************)
(* Properties                                                              *)
(***************************************************************************)

\* No row points at a row that is gone, although every request checks before it
\* writes: a node's pool exists, and so do the pool and the team of a quota.
PoolRowsResolve ==
    /\ \A n \in PoolNodes : poolOf[n] # NoPool => GetNodePool(poolOf[n])
    /\ \A x \in quotas : GetNodePool(x[1]) /\ x[2] \in teamRows

\* handleDeployModel: a deploy that got a filter is planned on no node that was another
\* team's alone all through its two reads, although a quota outlives the switch of its pool
\* to exclusive, and nodes, policies and quotas move between the reads. (One without a filter is planned on the whole fleet.)
FilteredKeepsOut ==
    \A q \in PoolReqs : preq[q].op = "planned" /\ preq[q].filtered => preq[q].nodes \cap closed[q] = {}
=============================================================================
