---------------------------- MODULE TenancyProofs ----------------------------
(***************************************************************************)
(* Theorems about the parts that serve tenants: policies, pools, sessions, *)
(* credentials, the rate limiter, organizations, LDAP groups, the logs and *)
(* the SLO and billing reports. Each part has an inductive invariant of    *)
(* its own; a behaviour of the sum is a behaviour of the part it chose,    *)
(* which carries the part's theorem over to the property the tenancy run   *)
(* checks.                                                                 *)
(***************************************************************************)
EXTENDS MCTenancy, FiniteSetTheorems, WellFoundedInduction, TLAPS

-----------------------------------------------------------------------------
(***************************************************************************)
(* Policies.  What is about to be swapped in, and what is being evaluated, *)
(* is one state of the table too.                                          *)
(***************************************************************************)
PolInv ==
    /\ DOMAIN polReq = PolicyReqs
    /\ {} \in engineStates
    /\ ListPolicies(policyRows) \in engineStates
    /\ \A q \in PolicyReqs :
        /\ polReq[q].at = "swap" => polReq[q].sources \in engineStates
        /\ polReq[q].at = "eval" => polReq[q].engine \in engineStates
    /\ EngineIsOneState

LEMMA PoliciesInitInv == PoliciesInit => PolInv
  <1> SUFFICES ASSUME PoliciesInit
               PROVE  PolInv
    OBVIOUS
  <1>1. ListPolicies(policyRows) = {}
    BY DEF PoliciesInit, ListPolicies, NoPolicy
  <1> QED
    BY <1>1 DEF PoliciesInit, PolInv, PolIdle, EngineIsOneState

\* A request moves to r, which is idle or holds a state of the table; the rest stays.
LEMMA PolRequestMoves ==
    ASSUME PolInv, NEW q \in PolicyReqs, NEW r, polReq' = [polReq EXCEPT ![q] = r],
           r.at = "swap" => r.sources \in engineStates,
           r.at = "eval" => r.engine \in engineStates,
           engineStates \subseteq engineStates'
    PROVE  /\ DOMAIN polReq' = PolicyReqs
           /\ \A x \in PolicyReqs :
               /\ polReq'[x].at = "swap" => polReq'[x].sources \in engineStates'
               /\ polReq'[x].at = "eval" => polReq'[x].engine \in engineStates'
  <1>1. /\ DOMAIN polReq' = PolicyReqs /\ polReq'[q] = r
        /\ \A x \in PolicyReqs : x # q => polReq'[x] = polReq[x]
    BY DEF PolInv
  <1> QED
    BY <1>1 DEF PolInv

LEMMA PoliciesNextInv == PolInv /\ [PoliciesNext]_policyVars => PolInv'
  <1> SUFFICES ASSUME PolInv, [PoliciesNext]_policyVars
               PROVE  PolInv'
    OBVIOUS
  <1>1. CASE LicenceEnds \/ UNCHANGED policyVars
    BY <1>1 DEF LicenceEnds, policyVars, PolInv, EngineIsOneState, ListPolicies
  <1>2. CASE RestartPolicies
    <2>1. /\ DOMAIN polReq' = PolicyReqs /\ \A q \in PolicyReqs : polReq'[q].at = "idle"
          /\ policyEngine' \in engineStates /\ ListPolicies(policyRows)' = ListPolicies(policyRows)
          /\ UNCHANGED <<policyRows, licensed, engineStates, admitted>>
      BY <1>2 DEF RestartPolicies, PolIdle, PolInv, ListPolicies
    <2> QED
      BY <2>1 DEF PolInv, EngineIsOneState
  <1>3. ASSUME NEW q \in PolicyReqs, NEW name \in PolicyNames,
               handleDeletePolicy(q, name) \/
               (\E rego \in RegoSources, on \in BOOLEAN : handleUpsertPolicy(q, name, rego, on))
        PROVE  PolInv'
    <2>1. /\ engineStates' = engineStates \cup {ListPolicies(policyRows)'}
          /\ polReq' = [polReq EXCEPT ![q] = [at |-> "reload"]]
          /\ UNCHANGED <<policyEngine, licensed, admitted>>
      BY <1>3, Zenon DEF handleDeletePolicy, handleUpsertPolicy, ListPolicies
    <2>2. DOMAIN polReq' = PolicyReqs /\ \A x \in PolicyReqs :
              /\ polReq'[x].at = "swap" => polReq'[x].sources \in engineStates'
              /\ polReq'[x].at = "eval" => polReq'[x].engine \in engineStates'
      BY <2>1, PolRequestMoves
    <2> QED
      BY <2>1, <2>2 DEF PolInv, EngineIsOneState
  <1>4. ASSUME NEW q \in PolicyReqs, reloadPolicies(q)
        PROVE  PolInv'
    <2>1. /\ polReq' = [polReq EXCEPT ![q] = [at |-> "swap", sources |-> ListPolicies(policyRows)]]
          /\ UNCHANGED <<policyRows, policyEngine, licensed, engineStates, admitted>>
          /\ ListPolicies(policyRows)' = ListPolicies(policyRows)
      BY <1>4 DEF reloadPolicies, ListPolicies
    <2>2. ListPolicies(policyRows) \in engineStates
      BY DEF PolInv
    <2>3. DOMAIN polReq' = PolicyReqs /\ \A x \in PolicyReqs :
              /\ polReq'[x].at = "swap" => polReq'[x].sources \in engineStates'
              /\ polReq'[x].at = "eval" => polReq'[x].engine \in engineStates'
      BY <2>1, <2>2, PolRequestMoves
    <2> QED
      BY <2>1, <2>3 DEF PolInv, EngineIsOneState
  <1>5. ASSUME NEW q \in PolicyReqs, SwapEngine(q) \/ ReloadFails(q) \/ EvalAllow(q)
        PROVE  PolInv'
    <2>1. /\ polReq' = [polReq EXCEPT ![q] = PolIdle]
          /\ UNCHANGED <<policyRows, licensed, engineStates>>
          /\ ListPolicies(policyRows)' = ListPolicies(policyRows)
      BY <1>5 DEF SwapEngine, ReloadFails, EvalAllow, ListPolicies
    <2>2. policyEngine' \in engineStates
      BY <1>5 DEF SwapEngine, ReloadFails, EvalAllow, PolInv, EngineIsOneState
    <2>3. \A a \in admitted' : a[2] \in engineStates /\ \A p \in a[2] : a[1] \notin p[2]
      BY <1>5 DEF SwapEngine, ReloadFails, EvalAllow, PolInv, EngineIsOneState, Allow
    <2>4. DOMAIN polReq' = PolicyReqs /\ \A x \in PolicyReqs :
              /\ polReq'[x].at = "swap" => polReq'[x].sources \in engineStates'
              /\ polReq'[x].at = "eval" => polReq'[x].engine \in engineStates'
      BY <2>1, PolRequestMoves DEF PolIdle
    <2> QED
      BY <2>1, <2>2, <2>3, <2>4 DEF PolInv, EngineIsOneState
  <1>6. ASSUME NEW q \in PolicyReqs, NEW model \in PolicyModels, policyMiddleware(q, model)
        PROVE  PolInv'
    <2> DEFINE e == IF licensed THEN policyEngine ELSE {}
    <2>1. /\ polReq' = [polReq EXCEPT ![q] = [at |-> "eval", model |-> model, engine |-> e]]
          /\ UNCHANGED <<policyRows, policyEngine, licensed, engineStates, admitted>>
          /\ ListPolicies(policyRows)' = ListPolicies(policyRows)
      BY <1>6 DEF policyMiddleware, ListPolicies
    <2>2. e \in engineStates
      BY DEF PolInv, EngineIsOneState
    <2> HIDE DEF e
    <2>3. DOMAIN polReq' = PolicyReqs /\ \A x \in PolicyReqs :
              /\ polReq'[x].at = "swap" => polReq'[x].sources \in engineStates'
              /\ polReq'[x].at = "eval" => polReq'[x].engine \in engineStates'
      BY <2>1, <2>2, PolRequestMoves
    <2> QED
      BY <2>1, <2>3 DEF PolInv, EngineIsOneState
  <1> QED
    BY <1>1, <1>2, <1>3, <1>4, <1>5, <1>6 DEF PoliciesNext

\* Whatever policies are written, deleted and reloaded at the same time, and whichever
\* reloads fail, the engine is one state of the table and admits what that state allows.
THEOREM PoliciesEngine == PoliciesSpec => []EngineIsOneState
  <1>1. PolInv => EngineIsOneState
    BY DEF PolInv
  <1> QED
    BY <1>1, PoliciesInitInv, PoliciesNextInv, PTL DEF PoliciesSpec

\* The same of the sum the tenancy run explores.
THEOREM TenancyPolicies == TenancySpec => []Policies_EngineIsOneState
  <1>1. TenancyInit => (part = "policies" => PolInv)
    BY PoliciesInitInv DEF TenancyInit
  <1>2. (part = "policies" => PolInv) /\ [TenancyNext]_tenancyVars => (part = "policies" => PolInv)'
    <2>1. part = "policies" /\ [TenancyNext]_tenancyVars => [PoliciesNext]_policyVars
      BY DEF TenancyNext, tenancyVars
    <2>2. [TenancyNext]_tenancyVars => part' = part
      BY DEF TenancyNext, tenancyVars
    <2> QED
      BY <2>1, <2>2, PoliciesNextInv
  <1>3. (part = "policies" => PolInv) => Policies_EngineIsOneState
    BY DEF Policies_EngineIsOneState, PolInv
  <1> QED
    BY <1>1, <1>2, <1>3, PTL DEF TenancySpec
-----------------------------------------------------------------------------
(***************************************************************************)
(* Pools.  A request in flight holds a pool id and a row it read, both     *)
(* maybe outdated; the rows themselves refer only to rows that exist.      *)
(***************************************************************************)
PoolRow == [policy : Policies, owner : PoolTeams]

PoolRequestOK(r) ==
    /\ r.op = "update" => r.pool \in PoolIds /\ r.row \in PoolRow
    /\ r.op = "delete" => r.pool \in PoolIds
    /\ r.op = "assign" => r.pool \in PoolIds /\ r.node \in PoolNodes
    /\ r.op = "remove" => r.node \in PoolNodes
    /\ r.op = "quota" => r.pool \in PoolIds

PoolInv ==
    /\ pools \in [PoolIds -> [policy : {NoPool, PoolGone}] \cup PoolRow]
    /\ poolOf \in [PoolNodes -> PoolIds \cup {NoPool}]
    /\ \A x \in quotas : x[1] \in PoolIds
    /\ DOMAIN preq = PoolReqs
    /\ \A q \in PoolReqs : PoolRequestOK(preq[q])
    /\ PoolRowsResolve

LEMMA PoolInitInv == PoolInit => PoolInv
  <1> SUFFICES ASSUME PoolInit
               PROVE  PoolInv
    OBVIOUS
  <1>1. pools \in [PoolIds -> [policy : {NoPool, PoolGone}] \cup PoolRow]
    BY DEF PoolInit
  <1>2. \A q \in PoolReqs : PoolRequestOK(preq[q])
    BY DEF PoolInit, PoolRequestOK, PoolIdle
  <1> QED
    BY <1>1, <1>2 DEF PoolInit, PoolInv, PoolRowsResolve

\* A row that exists has a policy and an owner.
LEMMA PoolRowShape ==
    ASSUME PoolInv, NEW p \in PoolIds, GetNodePool(p)
    PROVE  pools[p] \in PoolRow
  <1>1. pools[p] \in [policy : {NoPool, PoolGone}] \cup PoolRow
    BY DEF PoolInv
  <1> QED
    BY <1>1 DEF GetNodePool, Policies, NoPool, PoolGone

\* The write of a row keeps what exists in existence.
LEMMA PoolRowWritten ==
    ASSUME PoolInv, NEW p \in PoolIds, NEW row \in PoolRow, pools' = [pools EXCEPT ![p] = row],
           UNCHANGED <<poolOf, quotas, teamRows>>, DOMAIN preq' = PoolReqs,
           \A q \in PoolReqs : PoolRequestOK(preq[q])'
    PROVE  PoolInv'
  <1>1. pools' \in [PoolIds -> [policy : {NoPool, PoolGone}] \cup PoolRow]
    BY DEF PoolInv
  <1>2. \A x \in PoolIds : GetNodePool(x) => GetNodePool(x)'
    BY DEF PoolInv, GetNodePool, PoolRow
  <1>3. PoolRowsResolve'
    <2>1. \A n \in PoolNodes : poolOf'[n] # NoPool => GetNodePool(poolOf[n])'
      BY <1>2 DEF PoolInv, PoolRowsResolve
    <2>2. \A x \in quotas' : GetNodePool(x[1])' /\ x[2] \in teamRows'
      BY <1>2 DEF PoolInv, PoolRowsResolve
    <2> QED
      BY <2>1, <2>2 DEF PoolRowsResolve, GetNodePool
  <1> QED
    BY <1>1, <1>3 DEF PoolInv

\* Requests that begin.
LEMMA PoolBeginKeeps ==
    ASSUME PoolInv, NEW q \in PoolReqs, NEW r, PoolBegin(q, r), PoolRequestOK(r)
    PROVE  PoolInv'
  <1>1. /\ preq' = [preq EXCEPT ![q] = r] /\ UNCHANGED <<pools, poolOf, quotas, teamRows>>
    BY DEF PoolBegin
  <1>2. DOMAIN preq' = PoolReqs /\ \A x \in PoolReqs : PoolRequestOK(preq'[x])
    BY <1>1 DEF PoolInv
  <1>3. PoolRowsResolve'
    BY <1>1 DEF PoolInv, PoolRowsResolve, GetNodePool
  <1> QED
    BY <1>1, <1>2, <1>3 DEF PoolInv

LEMMA PoolChecksKeep ==
    ASSUME PoolInv, NEW q \in PoolReqs, NEW p \in PoolIds,
           \/ handleUpdatePool(q, p, pools[p])
           \/ \E policy \in Policies : handleUpdatePool(q, p, [pools[p] EXCEPT !.policy = policy])
           \/ handleDeletePool(q, p)
           \/ \E n \in PoolNodes : handleAssignNodeToPool(q, p, n) \/ handleRemoveNodeFromPool(q, p, n)
           \/ \E t \in PoolTeams : handleUpsertPoolQuota(q, p, t) \/ handleDeletePoolQuota(q, p, t)
    PROVE  PoolInv'
  <1>1. ASSUME NEW row \in PoolRow, PoolBegin(q, [op |-> "update", pool |-> p, row |-> row])
        PROVE  PoolInv'
    <2>1. PoolRequestOK([op |-> "update", pool |-> p, row |-> row])
      BY DEF PoolRequestOK
    <2> QED
      BY <1>1, <2>1, PoolBeginKeeps
  <1>2. CASE handleUpdatePool(q, p, pools[p])
    BY <1>1, <1>2, PoolRowShape DEF handleUpdatePool
  <1>3. ASSUME NEW policy \in Policies, handleUpdatePool(q, p, [pools[p] EXCEPT !.policy = policy])
        PROVE  PoolInv'
    <2>1. pools[p] \in PoolRow
      BY <1>3, PoolRowShape DEF handleUpdatePool
    <2>2. [pools[p] EXCEPT !.policy = policy] \in PoolRow
      BY <2>1 DEF PoolRow
    <2> QED
      BY <1>1, <1>3, <2>2 DEF handleUpdatePool
  <1>4. CASE handleDeletePool(q, p)
    <2>1. PoolRequestOK([op |-> "delete", pool |-> p])
      BY DEF PoolRequestOK
    <2> QED
      BY <1>4, <2>1, PoolBeginKeeps DEF handleDeletePool
  <1>5. ASSUME NEW n \in PoolNodes, handleAssignNodeToPool(q, p, n) \/ handleRemoveNodeFromPool(q, p, n)
        PROVE  PoolInv'
    <2>1. /\ PoolRequestOK([op |-> "assign", pool |-> p, node |-> n])
          /\ PoolRequestOK([op |-> "remove", pool |-> p, node |-> n])
      BY DEF PoolRequestOK
    <2> QED
      BY <1>5, <2>1, PoolBeginKeeps DEF handleAssignNodeToPool, handleRemoveNodeFromPool
  <1>6. ASSUME NEW t \in PoolTeams, handleUpsertPoolQuota(q, p, t) \/ handleDeletePoolQuota(q, p, t)
        PROVE  PoolInv'
    <2>1. /\ PoolRequestOK([op |-> "quota", pool |-> p, team |-> t])
          /\ PoolRequestOK([op |-> "unquota", pool |-> p, team |-> t])
      BY DEF PoolRequestOK
    <2> QED
      BY <1>6, <2>1, PoolBeginKeeps DEF handleUpsertPoolQuota, handleDeletePoolQuota
  <1> QED
    BY <1>2, <1>3, <1>4, <1>5, <1>6

\* The writes; what a request checked earlier is not relied on.
LEMMA PoolWriteKeeps ==
    ASSUME PoolInv, NEW q \in PoolReqs, PoolWrite(q)
    PROVE  PoolInv'
  <1> DEFINE r == preq[q]
  <1>1. PoolRequestOK(r) /\ UNCHANGED teamRows
    BY DEF PoolInv, PoolWrite
  <1>2. DOMAIN preq' = PoolReqs /\ \A x \in PoolReqs : PoolRequestOK(preq[x])'
    <2>1. preq' = [preq EXCEPT ![q] = PoolIdle]
      BY DEF PoolWrite
    <2>2. PoolRequestOK(PoolIdle)
      BY DEF PoolRequestOK, PoolIdle
    <2>3. DOMAIN preq' = PoolReqs /\ \A x \in PoolReqs : preq'[x] = PoolIdle \/ preq'[x] = preq[x]
      BY <2>1 DEF PoolInv
    <2>4. \A x \in PoolReqs : PoolRequestOK(preq'[x])
      BY <2>2, <2>3 DEF PoolInv
    <2> QED
      BY <2>3, <2>4
  <1> HIDE DEF r
  <1>3. CASE r.op = "update" /\ UpdateNodePool(r.pool, r.row) /\ UNCHANGED <<poolOf, quotas>>
    BY <1>1, <1>2, <1>3, PoolRowWritten DEF PoolRequestOK, UpdateNodePool
  <1>4. CASE r.op = "delete" /\ DeleteNodePool(r.pool) /\ UNCHANGED poolOf
    <2> DEFINE p == r.pool
               gone == [policy |-> PoolGone]
    <2>1. /\ p \in PoolIds /\ ListNodesInPool(p) = {} /\ pools' = [pools EXCEPT ![p] = gone]
          /\ quotas' = {x \in quotas : x[1] # p} /\ poolOf' = poolOf
      BY <1>1, <1>4 DEF PoolRequestOK, DeleteNodePool
    <2>2. gone \in [policy : {NoPool, PoolGone}]
      OBVIOUS
    <2> HIDE DEF p, gone
    <2>3. /\ pools' \in [PoolIds -> [policy : {NoPool, PoolGone}] \cup PoolRow]
          /\ \A x \in PoolIds : x # p => pools'[x] = pools[x]
      BY <2>1, <2>2 DEF PoolInv
    <2>4. \A n \in PoolNodes : poolOf[n] # NoPool => poolOf[n] \in PoolIds /\ poolOf[n] # p
      BY <2>1 DEF PoolInv, ListNodesInPool
    <2>5. PoolRowsResolve'
      BY <1>1, <2>1, <2>3, <2>4 DEF PoolInv, PoolRowsResolve, GetNodePool
    <2> QED
      BY <1>2, <2>1, <2>3, <2>5 DEF PoolInv
  <1>5. CASE r.op = "assign" /\ AddNodeToPool(r.node, r.pool) /\ UNCHANGED <<pools, quotas>>
    <2>1. /\ r.pool \in PoolIds /\ r.node \in PoolNodes /\ GetNodePool(r.pool)
          /\ poolOf' = [poolOf EXCEPT ![r.node] = r.pool]
      BY <1>1, <1>5 DEF PoolRequestOK, AddNodeToPool
    <2>2. poolOf' \in [PoolNodes -> PoolIds \cup {NoPool}]
      BY <2>1 DEF PoolInv
    <2>3. PoolRowsResolve'
      BY <1>1, <1>5, <2>1, <2>2 DEF PoolInv, PoolRowsResolve, GetNodePool
    <2> QED
      BY <1>2, <1>5, <2>2, <2>3 DEF PoolInv
  <1>6. CASE r.op = "remove" /\ RemoveNodeFromPool(r.node) /\ UNCHANGED <<pools, quotas>>
    <2>1. r.node \in PoolNodes /\ poolOf' = [poolOf EXCEPT ![r.node] = NoPool]
      BY <1>1, <1>6 DEF PoolRequestOK, RemoveNodeFromPool
    <2>2. poolOf' \in [PoolNodes -> PoolIds \cup {NoPool}]
      BY <2>1 DEF PoolInv
    <2>3. PoolRowsResolve'
      BY <1>1, <1>6, <2>1, <2>2 DEF PoolInv, PoolRowsResolve, GetNodePool
    <2> QED
      BY <1>2, <1>6, <2>2, <2>3 DEF PoolInv
  <1>7. CASE /\ r.op = "quota" /\ UpsertPoolTeamQuota(r.pool, r.team)
             /\ UNCHANGED <<pools, poolOf>>
    <2>1. /\ r.pool \in PoolIds /\ GetNodePool(r.pool) /\ r.team \in teamRows
          /\ quotas' = quotas \cup {<<r.pool, r.team>>}
      BY <1>1, <1>7 DEF PoolRequestOK, UpsertPoolTeamQuota
    <2>2. PoolRowsResolve'
      BY <1>1, <1>7, <2>1 DEF PoolInv, PoolRowsResolve, GetNodePool
    <2> QED
      BY <1>2, <1>7, <2>1, <2>2 DEF PoolInv
  <1>8. CASE r.op = "unquota" /\ DeletePoolTeamQuota(r.pool, r.team) /\ UNCHANGED <<pools, poolOf>>
    <2>1. quotas' \subseteq quotas
      BY <1>8 DEF DeletePoolTeamQuota
    <2>2. PoolRowsResolve'
      BY <1>1, <1>8, <2>1 DEF PoolInv, PoolRowsResolve, GetNodePool
    <2> QED
      BY <1>2, <1>8, <2>1, <2>2 DEF PoolInv
  <1> QED
    BY <1>3, <1>4, <1>5, <1>6, <1>7, <1>8 DEF PoolWrite, r

LEMMA PoolNextInv == PoolInv /\ [PoolNext]_poolVars => PoolInv'
  <1> SUFFICES ASSUME PoolInv, [PoolNext]_poolVars
               PROVE  PoolInv'
    OBVIOUS
  <1>1. ASSUME NEW p \in PoolIds, NEW policy \in Policies, NEW t \in PoolTeams,
               handleCreatePool(p, policy, t)
        PROVE  PoolInv'
    <2> DEFINE row == [policy |-> policy, owner |-> t]
    <2>1. row \in PoolRow
      BY DEF PoolRow
    <2>2. /\ pools' = [pools EXCEPT ![p] = row] /\ UNCHANGED <<poolOf, quotas, teamRows, preq>>
      BY <1>1 DEF handleCreatePool, CreateNodePool
    <2> HIDE DEF row
    <2>3. DOMAIN preq' = PoolReqs /\ \A q \in PoolReqs : PoolRequestOK(preq[q])'
      BY <2>2 DEF PoolInv
    <2> QED
      BY <2>1, <2>2, <2>3, PoolRowWritten
  <1>2. ASSUME NEW q \in PoolReqs, PoolRequestEnds(q) \/ PlanConstraints(q)
        PROVE  PoolInv'
    <2>1. PICK r : preq' = [preq EXCEPT ![q] = r] /\ r.op \in {"none", "planned"}
      BY <1>2 DEF PoolRequestEnds, PlanConstraints, PoolIdle
    <2>2. PoolRequestOK(r) /\ UNCHANGED <<pools, poolOf, quotas, teamRows>>
      BY <1>2, <2>1 DEF PoolRequestOK, PoolRequestEnds, PlanConstraints
    <2>3. DOMAIN preq' = PoolReqs /\ \A x \in PoolReqs : PoolRequestOK(preq'[x])
      BY <2>1, <2>2 DEF PoolInv
    <2>4. PoolRowsResolve'
      BY <2>2 DEF PoolInv, PoolRowsResolve, GetNodePool
    <2> QED
      BY <2>2, <2>3, <2>4 DEF PoolInv
  <1>3. ASSUME NEW t \in PoolTeams, TeamGoes(t)
        PROVE  PoolInv'
    <2>1. /\ teamRows' = teamRows \ {t} /\ quotas' = {x \in quotas : x[2] # t}
          /\ UNCHANGED <<pools, poolOf, preq>>
      BY <1>3 DEF TeamGoes
    <2>2. PoolRowsResolve'
      BY <2>1 DEF PoolInv, PoolRowsResolve, GetNodePool
    <2> QED
      BY <2>1, <2>2 DEF PoolInv
  <1>4. CASE UNCHANGED poolVars
    BY <1>4 DEF poolVars, PoolInv, PoolRowsResolve, GetNodePool
  <1>5. ASSUME NEW q \in PoolReqs, NEW t \in PoolTeams, handleDeployModel(q, t)
        PROVE  PoolInv'
    <2>1. PoolRequestOK([op |-> "deploy", team |-> t, own |-> OwnNodes(t)])
      BY DEF PoolRequestOK
    <2> QED
      BY <1>5, <2>1, PoolBeginKeeps DEF handleDeployModel
  <1> QED
    BY <1>1, <1>2, <1>3, <1>4, <1>5, PoolChecksKeep, PoolWriteKeeps DEF PoolNext, PoolStep

\* A deploy between its reads holds no node that was another team's alone since the first, and
\* such a node is another team's alone still, so that the second read cannot return it.
DeployWatched(q) ==
    /\ preq[q].op = "deploy" =>
        preq[q].own \cap closed[q] = {} /\ closed[q] \subseteq OthersNodes(preq[q].team)
    /\ preq[q].op = "planned" /\ preq[q].filtered => preq[q].nodes \cap closed[q] = {}

DeployInv ==
    /\ PoolInv
    /\ \A q \in PoolReqs : DeployWatched(q)

\* What a step does to a request, as far as a deploy is concerned.
DeployMoves(q) ==
    \/ preq'[q] = preq[q]
    \/ preq'[q].op \notin {"deploy", "planned"}
    \/ /\ preq[q] = PoolIdle /\ UNCHANGED <<pools, poolOf, quotas>>
       /\ \E t \in PoolTeams : preq'[q] = [op |-> "deploy", team |-> t, own |-> OwnNodes(t)]
    \/ /\ preq[q].op = "deploy" /\ preq'[q].op = "planned"
       /\ preq'[q].filtered => preq'[q].nodes = preq[q].own \cup SharedNodes(preq[q].team)

LEMMA PoolStepMoves ==
    ASSUME PoolInv, PoolStep, NEW q \in PoolReqs
    PROVE  DeployMoves(q)
  <1>1. ASSUME NEW x \in PoolReqs, NEW r, PoolBegin(x, r), r.op \notin {"deploy", "planned"}
        PROVE  DeployMoves(q)
    BY <1>1 DEF PoolBegin, PoolInv, DeployMoves
  <1>2. ASSUME NEW x \in PoolReqs, PoolWrite(x) \/ PoolRequestEnds(x)
        PROVE  DeployMoves(q)
    <2>1. preq' = [preq EXCEPT ![x] = PoolIdle]
      BY <1>2 DEF PoolWrite, PoolRequestEnds
    <2> QED
      BY <2>1 DEF PoolInv, PoolIdle, DeployMoves
  <1>3. ASSUME NEW x \in PoolReqs, PlanConstraints(x)
        PROVE  DeployMoves(q)
    <2>1. PICK failed \in BOOLEAN :
            LET allowed == IF failed THEN {} ELSE preq[x].own \cup SharedNodes(preq[x].team) IN
            preq' = [preq EXCEPT ![x] = [op |-> "planned", filtered |-> allowed # {},
                                         nodes |-> IF allowed = {} THEN PoolNodes ELSE allowed]]
      BY <1>3 DEF PlanConstraints
    <2>2. CASE q # x
      BY <2>1, <2>2 DEF PoolInv, DeployMoves
    <2>3. CASE q = x
      BY <1>3, <2>1, <2>3 DEF PoolInv, PlanConstraints, DeployMoves
    <2> QED
      BY <2>2, <2>3
  <1>4. ASSUME NEW x \in PoolReqs, NEW t \in PoolTeams, handleDeployModel(x, t)
        PROVE  DeployMoves(q)
    <2>1. /\ preq[x] = PoolIdle /\ UNCHANGED <<pools, poolOf, quotas>>
          /\ preq' = [preq EXCEPT ![x] = [op |-> "deploy", team |-> t, own |-> OwnNodes(t)]]
      BY <1>4 DEF handleDeployModel, PoolBegin
    <2> QED
      BY <2>1 DEF PoolInv, DeployMoves
  <1>5. ASSUME NEW x \in PoolReqs, NEW p \in PoolIds,
               \/ handleUpdatePool(x, p, pools[p])
               \/ \E policy \in Policies : handleUpdatePool(x, p, [pools[p] EXCEPT !.policy = policy])
               \/ handleDeletePool(x, p)
               \/ \E n \in PoolNodes : handleAssignNodeToPool(x, p, n) \/ handleRemoveNodeFromPool(x, p, n)
               \/ \E t \in PoolTeams : handleUpsertPoolQuota(x, p, t) \/ handleDeletePoolQuota(x, p, t)
        PROVE  DeployMoves(q)
    <2>1. CASE \/ handleUpdatePool(x, p, pools[p])
               \/ \E policy \in Policies : handleUpdatePool(x, p, [pools[p] EXCEPT !.policy = policy])
      <3>1. PICK row : handleUpdatePool(x, p, row)
        BY <2>1
      <3>2. [op |-> "update", pool |-> p, row |-> row].op \notin {"deploy", "planned"}
        OBVIOUS
      <3> QED
        BY <1>1, <3>1, <3>2 DEF handleUpdatePool
    <2>2. CASE handleDeletePool(x, p)
      <3>1. [op |-> "delete", pool |-> p].op \notin {"deploy", "planned"}
        OBVIOUS
      <3> QED
        BY <1>1, <2>2, <3>1 DEF handleDeletePool
    <2>3. ASSUME NEW n \in PoolNodes, handleAssignNodeToPool(x, p, n) \/ handleRemoveNodeFromPool(x, p, n)
          PROVE  DeployMoves(q)
      <3>1. /\ [op |-> "assign", pool |-> p, node |-> n].op \notin {"deploy", "planned"}
            /\ [op |-> "remove", pool |-> p, node |-> n].op \notin {"deploy", "planned"}
        OBVIOUS
      <3> QED
        BY <1>1, <2>3, <3>1 DEF handleAssignNodeToPool, handleRemoveNodeFromPool
    <2>4. ASSUME NEW t \in PoolTeams, handleUpsertPoolQuota(x, p, t) \/ handleDeletePoolQuota(x, p, t)
          PROVE  DeployMoves(q)
      <3>1. /\ [op |-> "quota", pool |-> p, team |-> t].op \notin {"deploy", "planned"}
            /\ [op |-> "unquota", pool |-> p, team |-> t].op \notin {"deploy", "planned"}
        OBVIOUS
      <3> QED
        BY <1>1, <2>4, <3>1 DEF handleUpsertPoolQuota, handleDeletePoolQuota
    <2> QED
      BY <1>5, <2>1, <2>2, <2>3, <2>4
  <1>6. CASE \/ \E p \in PoolIds, policy \in Policies, t \in PoolTeams : handleCreatePool(p, policy, t)
             \/ \E t \in PoolTeams : TeamGoes(t)
    BY <1>6 DEF handleCreatePool, TeamGoes, DeployMoves
  <1> QED
    BY <1>2, <1>3, <1>4, <1>5, <1>6 DEF PoolStep

\* A node is not at once the team's own, shared with it and another's alone.
LEMMA NodesApart ==
    ASSUME NEW t
    PROVE  OthersNodes(t) \cap OwnNodes(t) = {} /\ OthersNodes(t) \cap SharedNodes(t) = {}
  BY DEF OthersNodes, OwnNodes, SharedNodes

LEMMA DeployNextInv == DeployInv /\ [PoolNext]_poolVars => DeployInv'
  <1> SUFFICES ASSUME DeployInv, [PoolNext]_poolVars
               PROVE  DeployInv'
    OBVIOUS
  <1>1. PoolInv'
    BY PoolNextInv DEF DeployInv
  <1>2. CASE UNCHANGED poolVars
    BY <1>1, <1>2 DEF poolVars, DeployInv, DeployWatched, OthersNodes
  <1>3. ASSUME PoolStep, Watch, NEW q \in PoolReqs
        PROVE  DeployWatched(q)'
    <2>1. DeployMoves(q) /\ DeployWatched(q)
      BY <1>3, PoolStepMoves DEF DeployInv
    <2>2. closed'[q] = CASE preq'[q].op = "deploy" ->
                              IF preq[q].op = "deploy" THEN closed[q] \cap OthersNodes(preq[q].team)'
                              ELSE OthersNodes(preq'[q].team)
                         [] preq'[q].op = "planned" -> closed[q]
                         [] OTHER -> {}
      BY <1>3 DEF Watch
    <2>3. CASE preq'[q].op \notin {"deploy", "planned"}
      BY <2>3 DEF DeployWatched
    <2>4. CASE preq'[q] = preq[q] /\ preq[q].op = "planned"
      BY <2>1, <2>2, <2>4 DEF DeployWatched
    <2>5. CASE preq'[q] = preq[q] /\ preq[q].op = "deploy"
      <3>1. closed'[q] = closed[q] \cap OthersNodes(preq[q].team)'
        BY <2>2, <2>5
      <3> QED
        BY <2>1, <2>5, <3>1 DEF DeployWatched
    <2>6. ASSUME NEW t \in PoolTeams, preq'[q] = [op |-> "deploy", team |-> t, own |-> OwnNodes(t)],
                 preq[q] = PoolIdle, UNCHANGED <<pools, poolOf, quotas>>
          PROVE  DeployWatched(q)'
      <3>1. closed'[q] = OthersNodes(t)
        BY <2>2, <2>6 DEF PoolIdle
      <3>2. OthersNodes(preq[q].team)' = OthersNodes(t)
        BY <2>6 DEF OthersNodes
      <3> QED
        BY <2>6, <3>1, <3>2, NodesApart DEF DeployWatched
    <2>7. CASE /\ preq[q].op = "deploy" /\ preq'[q].op = "planned"
               /\ preq'[q].filtered => preq'[q].nodes = preq[q].own \cup SharedNodes(preq[q].team)
      <3>1. closed'[q] = closed[q]
        BY <2>2, <2>7
      <3>2. OthersNodes(preq[q].team) \cap SharedNodes(preq[q].team) = {}
        BY NodesApart
      <3> QED
        BY <2>1, <2>7, <3>1, <3>2 DEF DeployWatched
    <2> QED
      BY <2>1, <2>3, <2>4, <2>5, <2>6, <2>7 DEF DeployMoves
  <1> QED
    BY <1>1, <1>2, <1>3 DEF DeployInv, PoolNext

LEMMA DeployInitInv == PoolInit => DeployInv
  <1> SUFFICES ASSUME PoolInit
               PROVE  DeployInv
    OBVIOUS
  <1>1. \A q \in PoolReqs : preq[q].op = "none"
    BY DEF PoolInit, PoolIdle
  <1> QED
    BY <1>1, PoolInitInv DEF DeployInv, DeployWatched

LEMMA DeploySafe == DeployInv => PoolRowsResolve /\ FilteredKeepsOut
  BY DEF DeployInv, PoolInv, DeployWatched, FilteredKeepsOut

\* Whatever requests overlap between their checks and their writes, no node or quota refers
\* to a pool or a team that is gone, and a deploy that got a filter is planned on no node
\* that was another team's alone all through its reads.
THEOREM PoolRows == PoolSpec => [](PoolRowsResolve /\ FilteredKeepsOut)
  BY DeployInitInv, DeployNextInv, DeploySafe, PTL DEF PoolSpec

\* The same of the sum the tenancy run explores. Of a deploy without a filter nothing is
\* claimed: it may use any node (the exclusive-pool run).
THEOREM TenancyPools == TenancySpec => []Pools_RowsHold
  <1>1. TenancyInit => (part = "pools" => DeployInv)
    BY DeployInitInv DEF TenancyInit
  <1>2. (part = "pools" => DeployInv) /\ [TenancyNext]_tenancyVars => (part = "pools" => DeployInv)'
    <2>1. part = "pools" /\ [TenancyNext]_tenancyVars => [PoolNext]_poolVars
      BY DEF TenancyNext, tenancyVars
    <2>2. [TenancyNext]_tenancyVars => part' = part
      BY DEF TenancyNext, tenancyVars
    <2> QED
      BY <2>1, <2>2, DeployNextInv
  <1>3. (part = "pools" => DeployInv) => Pools_RowsHold
    BY DeploySafe DEF Pools_RowsHold
  <1> QED
    BY <1>1, <1>2, <1>3, PTL DEF TenancySpec
-----------------------------------------------------------------------------
(***************************************************************************)
(* Sessions.  Three independent parts: a state that has not been used up   *)
(* led to no more exchanges than commits were lost; a row of a token that  *)
(* was logged out is revoked, and a token has one row; and a cache entry   *)
(* of a user who is turned off was written before, or in the second of it, *)
(* because a login at the directory ends in the second it began.           *)
(***************************************************************************)
SessTok == [who : Subs \cup LdapUsers, exp : 0 .. MaxSecond + SessionTTL]
SessRow == [tok : SessTok, sub : Subs \cup {"dn"}, revoked : BOOLEAN]

FlowInv ==
    /\ pkce \in [LoginStates -> {"none", "stored", "memory", "used"}]
    /\ exchanges \in [LoginStates -> [done : Nat, lost : Nat]]
    /\ \A s \in LoginStates : exchanges[s].done <= exchanges[s].lost + (IF pkce[s] = "used" THEN 1 ELSE 0)

RowsInv ==
    /\ DOMAIN cb = Callbacks
    /\ \A c \in Callbacks : cb[c].at = "persist" => cb[c].tok \in SessTok /\ cb[c].sub \in Subs
    /\ rows \subseteq SessRow
    /\ \A r, x \in rows : r.tok = x.tok => r = x
    /\ \A r \in rows : r.tok \in cookies
    /\ \A r \in rows : r.tok \in out => r.revoked

LdapInv ==
    /\ second \in 0 .. MaxSecond
    /\ bound \in [LdapUsers -> BOOLEAN] /\ boundOff \in [LdapUsers -> Nat]
    /\ ldapCache \in [LdapUsers -> Nat] /\ ldapReq \subseteq LdapUsers
    /\ \A u \in LdapUsers :
        /\ ldapCache[u] = NoEntry \/ ldapCache[u] <= second + CacheTTL
        /\ ~bound[u] => ldapCache[u] = NoEntry \/ ldapCache[u] <= boundOff[u] + CacheTTL
        /\ ~bound[u] /\ u \in ldapReq => boundOff[u] = second

SessInv == FlowInv /\ RowsInv /\ LdapInv

LEMMA SessInitInv == SessionsInit => SessInv
  <1> SUFFICES ASSUME SessionsInit
               PROVE  SessInv
    OBVIOUS
  <1>1. FlowInv
    BY DEF SessionsInit, FlowInv
  <1>2. RowsInv
    BY DEF SessionsInit, RowsInv, NoCallback
  <1>3. NoEntry \in Nat /\ 0 \in 0 .. MaxSecond
    BY SessionsAssumption DEF NoEntry
  <1>4. LdapInv
    BY <1>3 DEF SessionsInit, LdapInv
  <1> QED
    BY <1>1, <1>2, <1>4 DEF SessInv

\* Consuming a state: once it is used up nobody gets its verifier any more.
LEMMA FlowKeeps ==
    ASSUME FlowInv, [SessionsNext]_sessionVars
    PROVE  FlowInv'
  <1>1. ASSUME NEW s \in LoginStates, handleAuthLogin(s)
        PROVE  FlowInv'
    <2>1. PICK to \in {"stored", "memory"} : pkce' = [pkce EXCEPT ![s] = to]
      BY <1>1 DEF handleAuthLogin
    <2>2. pkce[s] = "none" /\ exchanges' = exchanges
      BY <1>1 DEF handleAuthLogin
    <2>3. /\ pkce' \in [LoginStates -> {"none", "stored", "memory", "used"}]
          /\ \A x \in LoginStates : pkce'[x] = "used" <=> pkce[x] = "used"
      BY <2>1, <2>2 DEF FlowInv
    <2> QED
      BY <2>2, <2>3 DEF FlowInv
  <1>2. ASSUME NEW c \in Callbacks, NEW s \in LoginStates, NEW lost \in BOOLEAN,
               CallbackConsume(c, s, lost)
        PROVE  FlowInv'
    <2> DEFINE e == exchanges[s]
               k == IF lost THEN 1 ELSE 0
               f == [done |-> e.done + 1, lost |-> e.lost + k]
    <2>1. e.done \in Nat /\ e.lost \in Nat /\ k \in Nat /\ pkce[s] = "stored" /\ e.done <= e.lost
      <3>1. e \in [done : Nat, lost : Nat]
        BY DEF FlowInv
      <3>2. pkce[s] = "stored"
        BY <1>2 DEF CallbackConsume, ConsumePKCEState
      <3>3. e.done <= e.lost + 0
        BY <3>2 DEF FlowInv
      <3> QED
        BY <3>1, <3>2, <3>3
    <2>2. exchanges' = [exchanges EXCEPT ![s] = f]
      BY <1>2 DEF CallbackConsume
    <2>3. pkce' = IF lost THEN pkce ELSE [pkce EXCEPT ![s] = "used"]
      BY <1>2 DEF CallbackConsume, ConsumePKCEState
    <2>4. f \in [done : Nat, lost : Nat] /\ f.done = e.done + 1 /\ f.lost = e.lost + k
      BY <2>1
    <2>5. f.done <= f.lost + (IF lost THEN 0 ELSE 1)
      BY <2>1, <2>4
    <2> HIDE DEF e, f, k
    <2>6. /\ exchanges' \in [LoginStates -> [done : Nat, lost : Nat]] /\ exchanges'[s] = f
          /\ \A x \in LoginStates : x # s => exchanges'[x] = exchanges[x]
      BY <2>2, <2>4 DEF FlowInv
    <2>7. /\ pkce' \in [LoginStates -> {"none", "stored", "memory", "used"}]
          /\ pkce'[s] = (IF lost THEN "stored" ELSE "used")
          /\ \A x \in LoginStates : x # s => pkce'[x] = pkce[x]
      BY <2>1, <2>3 DEF FlowInv
    <2>8. f.done <= f.lost + (IF pkce'[s] = "used" THEN 1 ELSE 0)
      BY <2>5, <2>7
    <2> QED
      BY <2>6, <2>7, <2>8 DEF FlowInv
  <1>3. CASE UNCHANGED <<pkce, exchanges>>
    BY <1>3 DEF FlowInv
  <1> QED
    BY <1>1, <1>2, <1>3 DEF SessionsNext, FlowNext, LogoutNext, LdapNext, CallbackExchange,
       CallbackPersist, handleAuthLogout, handleBackchannelLogout, DeleteExpiredOIDCSessions,
       LdapHit, LdapMiss, LdapBound, DirectoryChanges, SecondPasses, flowVars, sessionVars

\* A row stored for a token takes the place of the one there was, and the token is in again.
LEMMA CreateKeepsRows ==
    ASSUME RowsInv, NEW tok \in SessTok, NEW sub \in Subs \cup {"dn"},
           CreateOIDCSession(tok, sub) \/ UNCHANGED <<rows, out>>,
           cookies' = cookies \cup {tok}
    PROVE  /\ rows' \subseteq SessRow
           /\ \A r, x \in rows' : r.tok = x.tok => r = x
           /\ \A r \in rows' : r.tok \in cookies'
           /\ \A r \in rows' : r.tok \in out' => r.revoked
  <1>1. CASE UNCHANGED <<rows, out>>
    BY <1>1 DEF RowsInv
  <1>2. CASE CreateOIDCSession(tok, sub)
    <2> DEFINE n == [tok |-> tok, sub |-> sub, revoked |-> FALSE]
    <2>1. n \in SessRow /\ n.tok = tok
      BY DEF SessRow
    <2>2. rows' = {r \in rows : r.tok # tok} \cup {n} /\ out' = out \ {tok}
      BY <1>2 DEF CreateOIDCSession
    <2> HIDE DEF n
    <2> QED
      BY <2>1, <2>2 DEF RowsInv
  <1> QED
    BY <1>1, <1>2

\* Revoking rows changes nothing else of them.
LEMMA RevokeKeepsRows ==
    ASSUME RowsInv, NEW revoked \in SUBSET rows, Revoke(revoked), cookies' = cookies,
           \A r \in rows : r.tok \in out' => r.tok \in out \/ r \in revoked
    PROVE  /\ rows' \subseteq SessRow
           /\ \A r, x \in rows' : r.tok = x.tok => r = x
           /\ \A r \in rows' : r.tok \in cookies'
           /\ \A r \in rows' : r.tok \in out' => r.revoked
  <1> DEFINE f(r) == [r EXCEPT !.revoked = TRUE]
  <1>1. rows' = (rows \ revoked) \cup {f(r) : r \in revoked}
    BY DEF Revoke
  <1>2. \A r \in rows : f(r) \in SessRow /\ f(r).tok = r.tok /\ f(r).sub = r.sub /\ f(r).revoked
    BY DEF RowsInv, SessRow
  <1> HIDE DEF f
  <1>3. \A y \in rows' : \E r \in rows : y.tok = r.tok /\ ((r \notin revoked /\ y = r) \/ (r \in revoked /\ y = f(r)))
    BY <1>1, <1>2
  <1>4. \A r, x \in rows : r.tok = x.tok => r = x
    BY DEF RowsInv
  <1>5. \A y, z \in rows' : y.tok = z.tok => y = z
    BY <1>3, <1>4
  <1>6. rows' \subseteq SessRow
    BY <1>1, <1>2 DEF RowsInv
  <1>7. \A y \in rows' : y.tok \in cookies'
    BY <1>3 DEF RowsInv
  <1>8. \A y \in rows' : y.tok \in out' => y.revoked
    BY <1>2, <1>3 DEF RowsInv
  <1> QED
    BY <1>5, <1>6, <1>7, <1>8

\* The token of a login now.
LEMMA TokenShape ==
    ASSUME LdapInv, NEW who \in Subs \cup LdapUsers
    PROVE  Token(who) \in SessTok
  <1>1. second + SessionTTL \in 0 .. MaxSecond + SessionTTL
    BY SessionsAssumption DEF LdapInv
  <1> QED
    BY <1>1 DEF Token, SessTok

LEMMA RowsKeeps ==
    ASSUME RowsInv, LdapInv, [SessionsNext]_sessionVars
    PROVE  RowsInv'
  <1> DEFINE CbOK(f) == /\ DOMAIN f = Callbacks
                        /\ \A c \in Callbacks : f[c].at = "persist" => f[c].tok \in SessTok /\ f[c].sub \in Subs
             RowsOK == /\ rows \subseteq SessRow
                       /\ \A r, x \in rows : r.tok = x.tok => r = x
                       /\ \A r \in rows : r.tok \in cookies
                       /\ \A r \in rows : r.tok \in out => r.revoked
  <1>0. CbOK(cb) /\ RowsOK
    BY DEF RowsInv
  <1>1. ASSUME NEW c \in Callbacks, NEW n, cb' = [cb EXCEPT ![c] = n], n.at # "persist"
        PROVE  CbOK(cb')
    BY <1>0, <1>1
  <1>2. ASSUME NEW c \in Callbacks, NEW s \in LoginStates, NEW lost \in BOOLEAN,
               CallbackConsume(c, s, lost)
        PROVE  CbOK(cb') /\ RowsOK'
    <2>1. cb' = [cb EXCEPT ![c] = [at |-> "exchange", state |-> s]] /\ UNCHANGED <<rows, cookies, out>>
      BY <1>2 DEF CallbackConsume
    <2> QED
      BY <1>0, <1>1, <2>1
  <1>3. ASSUME NEW c \in Callbacks, CallbackExchange(c)
        PROVE  CbOK(cb') /\ RowsOK'
    <2>1. UNCHANGED <<rows, cookies, out>>
      BY <1>3 DEF CallbackExchange
    <2>2. CASE cb' = [cb EXCEPT ![c] = NoCallback]
      BY <1>0, <1>1, <2>1, <2>2 DEF NoCallback
    <2>3. ASSUME NEW sub \in Subs, cb' = [cb EXCEPT ![c] = [at |-> "persist", sub |-> sub, tok |-> Token(sub)]]
          PROVE  CbOK(cb')
      BY <1>0, <2>3, TokenShape
    <2> QED
      BY <1>0, <1>3, <2>1, <2>2, <2>3 DEF CallbackExchange
  <1>4. ASSUME NEW c \in Callbacks, CallbackPersist(c)
        PROVE  CbOK(cb') /\ RowsOK'
    <2>1. /\ cb' = [cb EXCEPT ![c] = NoCallback] /\ cookies' = cookies \cup {cb[c].tok}
          /\ CreateOIDCSession(cb[c].tok, cb[c].sub) \/ UNCHANGED <<rows, out>>
          /\ cb[c].at = "persist"
      BY <1>4 DEF CallbackPersist
    <2>2. CbOK(cb')
      <3>1. NoCallback.at # "persist"
        BY DEF NoCallback
      <3> QED
        BY <1>1, <2>1, <3>1
    <2>3. cb[c].tok \in SessTok /\ cb[c].sub \in Subs \cup {"dn"}
      BY <1>0, <2>1
    <2>4. RowsOK'
      BY <2>1, <2>3, CreateKeepsRows
    <2> QED
      BY <2>2, <2>4
  <1>5. ASSUME NEW tok \in cookies, handleAuthLogout(tok)
        PROVE  CbOK(cb') /\ RowsOK'
    <2>1. /\ Revoke({r \in rows : r.tok = tok}) /\ out' = out \cup {tok}
          /\ cookies' = cookies /\ cb' = cb
      BY <1>5 DEF handleAuthLogout, RevokeOIDCSessionByTokenHash, flowVars
    <2>2. RowsOK'
      BY <2>1, RevokeKeepsRows
    <2> QED
      BY <1>0, <2>1, <2>2
  <1>6. ASSUME NEW sub \in Subs, handleBackchannelLogout(sub)
        PROVE  CbOK(cb') /\ RowsOK'
    <2> DEFINE hit == {r \in rows : r.sub = sub}
    <2>1. /\ Revoke(hit) /\ out' = out \cup {r.tok : r \in hit}
          /\ cookies' = cookies /\ cb' = cb
      BY <1>6 DEF handleBackchannelLogout, RevokeOIDCSessionsBySubject, flowVars
    <2>2. \A r \in rows : r.tok \in out' => r.tok \in out \/ r \in hit
      BY <1>0, <2>1
    <2>3. RowsOK'
      BY <2>1, <2>2, RevokeKeepsRows
    <2> QED
      BY <1>0, <2>1, <2>3
  <1>7. CASE DeleteExpiredOIDCSessions
    BY <1>0, <1>7 DEF DeleteExpiredOIDCSessions, flowVars, RowsInv
  <1>8. ASSUME NEW u \in LdapUsers, LdapSession(u), cb' = cb
        PROVE  CbOK(cb') /\ RowsOK'
    <2>1. Token(u) \in SessTok
      BY TokenShape
    <2>2. /\ CreateOIDCSession(Token(u), "dn") \/ UNCHANGED <<rows, out>>
          /\ cookies' = cookies \cup {Token(u)}
      BY <1>8 DEF LdapSession
    <2>3. RowsOK'
      BY <2>1, <2>2, CreateKeepsRows
    <2> QED
      BY <1>0, <1>8, <2>3
  <1>9. CASE UNCHANGED <<cb, rows, cookies, out>>
    BY <1>0, <1>9 DEF RowsInv
  <1>10. (CbOK(cb') /\ RowsOK') => RowsInv'
    BY DEF RowsInv
  <1> HIDE DEF CbOK, RowsOK
  <1> QED
    BY <1>2, <1>3, <1>4, <1>5, <1>6, <1>7, <1>8, <1>9, <1>10
       DEF SessionsNext, FlowNext, LogoutNext, LdapNext, handleAuthLogin,
       LdapHit, LdapMiss, LdapBound, DirectoryChanges, SecondPasses, flowVars, sessionVars

\* The cache and the directory.
LEMMA LdapKeeps ==
    ASSUME LdapInv, [SessionsNext]_sessionVars
    PROVE  LdapInv'
  <1>0. second \in Nat /\ CacheTTL \in Nat /\ MaxSecond \in Nat
    BY SessionsAssumption DEF LdapInv
  <1>1. ASSUME NEW u \in LdapUsers, LdapMiss(u)
        PROVE  LdapInv'
    BY <1>1 DEF LdapInv, LdapMiss
  <1>2. ASSUME NEW u \in LdapUsers, LdapBound(u)
        PROVE  LdapInv'
    <2>1. ldapReq' = ldapReq \ {u} /\ u \in ldapReq /\ UNCHANGED <<second, bound, boundOff>>
      BY <1>2 DEF LdapBound
    <2>2. CASE ldapCache' = ldapCache
      BY <2>1, <2>2 DEF LdapInv
    <2>3. CASE putCache(u)
      <3>1. /\ ldapCache' \in [LdapUsers -> Nat] /\ ldapCache'[u] = second + CacheTTL
            /\ \A x \in LdapUsers : x # u => ldapCache'[x] = ldapCache[x]
        BY <1>0, <2>3 DEF LdapInv, putCache
      <3>2. ~bound[u] => boundOff[u] = second
        BY <2>1 DEF LdapInv
      <3>3. /\ ldapCache'[u] <= second + CacheTTL
            /\ ~bound[u] => ldapCache'[u] <= boundOff[u] + CacheTTL
        BY <1>0, <3>1, <3>2
      <3> QED
        BY <2>1, <3>1, <3>3 DEF LdapInv
    <2> QED
      BY <1>2, <2>2, <2>3 DEF LdapBound
  <1>3. ASSUME NEW u \in LdapUsers, DirectoryChanges(u)
        PROVE  LdapInv'
    <2>1. /\ bound' = [bound EXCEPT ![u] = ~@] /\ UNCHANGED <<second, ldapCache, ldapReq>>
          /\ boundOff' = IF bound[u] THEN [boundOff EXCEPT ![u] = second] ELSE boundOff
      BY <1>3 DEF DirectoryChanges
    <2>2. /\ bound' \in [LdapUsers -> BOOLEAN] /\ bound'[u] = ~bound[u]
          /\ \A x \in LdapUsers : x # u => bound'[x] = bound[x]
      BY <2>1 DEF LdapInv
    <2>3. /\ boundOff' \in [LdapUsers -> Nat] /\ bound[u] => boundOff'[u] = second
          /\ \A x \in LdapUsers : x # u => boundOff'[x] = boundOff[x]
      BY <1>0, <2>1 DEF LdapInv
    <2> QED
      BY <2>1, <2>2, <2>3 DEF LdapInv
  <1>4. CASE SecondPasses
    <2>1. /\ second' = second + 1 /\ second < MaxSecond /\ ldapReq = {}
          /\ UNCHANGED <<bound, boundOff, ldapCache, ldapReq>>
      BY <1>4 DEF SecondPasses, ldapVars
    <2>2. second' \in 0 .. MaxSecond
      BY <1>0, <2>1
    <2>3. \A u \in LdapUsers : ldapCache[u] <= second + CacheTTL => ldapCache[u] <= second' + CacheTTL
      BY <1>0, <2>1 DEF LdapInv
    <2> QED
      BY <2>1, <2>2, <2>3 DEF LdapInv
  <1>5. CASE UNCHANGED <<second, bound, boundOff, ldapCache, ldapReq>>
    BY <1>5 DEF LdapInv
  <1> QED
    BY <1>1, <1>2, <1>3, <1>4, <1>5 DEF SessionsNext, FlowNext, LogoutNext, LdapNext,
       handleAuthLogin, CallbackConsume, CallbackExchange, CallbackPersist, handleAuthLogout,
       handleBackchannelLogout, DeleteExpiredOIDCSessions, LdapHit, ldapVars, sessionVars

LEMMA SessNextInv == SessInv /\ [SessionsNext]_sessionVars => SessInv'
  BY FlowKeeps, RowsKeeps, LdapKeeps DEF SessInv

LEMMA SessInvSafe == SessInv => SessionsTypeOK /\ StateSingleUse /\ LoggedOutStaysOut /\ DirectoryLag
  <1> SUFFICES ASSUME SessInv
               PROVE  SessionsTypeOK /\ StateSingleUse /\ LoggedOutStaysOut /\ DirectoryLag
    OBVIOUS
  <1>1. SessionsTypeOK
    <2>1. \A r \in rows : r.tok \in SessTok /\ r.revoked \in BOOLEAN
      BY DEF SessInv, RowsInv, SessRow
    <2>2. \A r, x \in rows : r.tok = x.tok => r = x
      BY DEF SessInv, RowsInv
    <2>3. {r.tok : r \in rows} \subseteq cookies
      BY DEF SessInv, RowsInv
    <2> QED
      BY <2>1, <2>2, <2>3 DEF SessInv, FlowInv, LdapInv, SessionsTypeOK, SessTok
  <1>2. StateSingleUse
    <2> SUFFICES ASSUME NEW s \in LoginStates
                 PROVE  exchanges[s].done <= 1 + exchanges[s].lost
      BY DEF StateSingleUse
    <2>1. exchanges[s] \in [done : Nat, lost : Nat]
      BY DEF SessInv, FlowInv
    <2>2. exchanges[s].done <= exchanges[s].lost + 1 \/ exchanges[s].done <= exchanges[s].lost + 0
      BY DEF SessInv, FlowInv
    <2> QED
      BY <2>1, <2>2
  <1>3. LoggedOutStaysOut
    BY DEF SessInv, RowsInv, LoggedOutStaysOut, SessionAccepted, GetOIDCSession
  <1>4. DirectoryLag
    <2> SUFFICES ASSUME NEW u \in LdapUsers, ~bound[u], fromCache(u)
                 PROVE  second <= boundOff[u] + CacheTTL
      BY DEF DirectoryLag
    <2>1. /\ second \in Nat /\ ldapCache[u] \in Nat /\ boundOff[u] \in Nat /\ CacheTTL \in Nat
          /\ ldapCache[u] <= boundOff[u] + CacheTTL /\ second <= ldapCache[u]
      BY SessionsAssumption DEF SessInv, LdapInv, fromCache
    <2> QED
      BY <2>1
  <1> QED
    BY <1>1, <1>2, <1>3, <1>4

\* However callbacks, logouts, sweeps and directory logins interleave: a state leads to one
\* exchange, a token that was logged out is refused, and the cache outlives the directory by
\* at most its TTL.
THEOREM LoginsEnd == SessionsSpec => [](StateSingleUse /\ LoggedOutStaysOut /\ DirectoryLag)
  BY SessInitInv, SessNextInv, SessInvSafe, PTL DEF SessionsSpec

\* The same of the sum the tenancy run explores.
THEOREM TenancySessions == TenancySpec => []Sessions_LoginsEnd
  <1>1. TenancyInit => (part = "sessions" => SessInv)
    BY SessInitInv DEF TenancyInit
  <1>2. (part = "sessions" => SessInv) /\ [TenancyNext]_tenancyVars => (part = "sessions" => SessInv)'
    <2>1. part = "sessions" /\ [TenancyNext]_tenancyVars => [SessionsNext]_sessionVars
      BY DEF TenancyNext, tenancyVars
    <2>2. [TenancyNext]_tenancyVars => part' = part
      BY DEF TenancyNext, tenancyVars
    <2> QED
      BY <2>1, <2>2, SessNextInv
  <1>3. (part = "sessions" => SessInv) => Sessions_LoginsEnd
    BY SessInvSafe DEF Sessions_LoginsEnd
  <1> QED
    BY <1>1, <1>2, <1>3, PTL DEF TenancySpec
-----------------------------------------------------------------------------
(***************************************************************************)
(* The rate limiter.  For every request let through at p, those let        *)
(* through since and what the bucket holds now are paid for by the burst   *)
(* and what the rate added since p.  An eviction keeps this because the    *)
(* bucket is full by then.                                                 *)
(***************************************************************************)
\* s: when requests were let through; t: now; U: units per request; A: units in the bucket;
\* B: burst; R: rate.
PaidUp(s, t, U, A, B, R) ==
    \A i \in 1 .. Len(s) : s[i] <= t /\ (Len(s) - i + 1) * U + A <= B + R * (t - s[i])
SpacedOut(s, U, B, R) ==
    \A i, j \in 1 .. Len(s) : i <= j => (j - i + 1) * U <= B + R * (s[j] - s[i])

BucketOK(k) ==
    k \in DOMAIN buckets =>
        /\ RateOf(k) > 0
        /\ buckets[k].units \in 0 .. BurstOf(k) /\ buckets[k].last \in 0 .. tick

RateInv ==
    /\ tick \in Nat
    /\ passed \in [BucketKeys -> Seq(Nat)]
    /\ \A k \in BucketKeys :
        /\ BucketOK(k)
        /\ PaidUp(passed[k], tick, Unit, Advance(k), BurstOf(k), RateOf(k))
        /\ SpacedOut(passed[k], Unit, BurstOf(k), RateOf(k))

\* What is paid for after a request more, from what was before it.
LEMMA PaidArith ==
    ASSUME NEW n \in Nat, NEW i \in 1 .. n, NEW U \in Nat, NEW A \in Nat, U <= A, NEW B \in Nat,
           NEW y \in Int, (n - i + 1) * U + A <= B + y
    PROVE  (n + 1 - i + 1) * U + (A - U) <= B + y /\ (n + 1 - i + 1) * U <= B + y
  <1> DEFINE x == (n - i + 1) * U
  <1>1. x \in Int /\ (n + 1 - i + 1) * U = x + U
    OBVIOUS
  <1>2. x + A <= B + y
    OBVIOUS
  <1> HIDE DEF x
  <1> QED
    BY <1>1, <1>2

\* A request that the bucket pays for is let through.
LEMMA AppendPaid ==
    ASSUME NEW s \in Seq(Nat), NEW t \in Nat, NEW U \in Nat, NEW A \in Nat, U <= A,
           NEW B \in Nat, A <= B, NEW R \in Nat, PaidUp(s, t, U, A, B, R), SpacedOut(s, U, B, R)
    PROVE  PaidUp(Append(s, t), t, U, A - U, B, R) /\ SpacedOut(Append(s, t), U, B, R)
  <1> DEFINE z == Append(s, t)
             n == Len(s)
  <1>1. /\ n \in Nat /\ Len(z) = n + 1 /\ z[n + 1] = t
        /\ \A i \in 1 .. n : z[i] = s[i] /\ s[i] \in Nat
    OBVIOUS
  <1>2. \A i \in 1 .. n : s[i] <= t /\ (n - i + 1) * U + A <= B + R * (t - s[i])
    BY DEF PaidUp
  <1>3. \A i, j \in 1 .. n : i <= j => (j - i + 1) * U <= B + R * (s[j] - s[i])
    BY DEF SpacedOut
  <1> HIDE DEF z, n
  <1>4. ASSUME NEW i \in 1 .. n
        PROVE  /\ (n + 1 - i + 1) * U + (A - U) <= B + R * (t - s[i])
               /\ (n + 1 - i + 1) * U <= B + R * (t - s[i])
    <2>1. R * (t - s[i]) \in Int
      BY <1>1
    <2>2. (n - i + 1) * U + A <= B + R * (t - s[i])
      BY <1>2
    <2> QED
      BY <1>1, <2>1, <2>2, PaidArith
  <1>5. R * (t - t) = 0 /\ (n + 1 - (n + 1) + 1) * U = U
    BY <1>1
  <1>6. U + (A - U) <= B + 0 /\ U <= B + 0 /\ t <= t
    OBVIOUS
  <1>7. \A i \in 1 .. n + 1 : i = n + 1 \/ i \in 1 .. n
    BY <1>1
  <1>8. ASSUME NEW i \in 1 .. n + 1
        PROVE  z[i] <= t /\ (n + 1 - i + 1) * U + (A - U) <= B + R * (t - z[i])
    <2>1. CASE i \in 1 .. n
      BY <1>1, <1>2, <1>4, <2>1
    <2>2. CASE i = n + 1
      BY <1>1, <1>5, <1>6, <2>2
    <2> QED
      BY <1>7, <2>1, <2>2
  <1>9. ASSUME NEW i \in 1 .. n + 1, NEW j \in 1 .. n + 1, i <= j
         PROVE  (j - i + 1) * U <= B + R * (z[j] - z[i])
    <2>1. CASE j \in 1 .. n
      <3>1. i \in 1 .. n
        BY <1>1, <1>9, <2>1
      <3> QED
        BY <1>1, <1>3, <1>9, <2>1, <3>1
    <2>2. CASE j = n + 1 /\ i \in 1 .. n
      <3>1. z[j] = t /\ z[i] = s[i] /\ (n + 1 - i + 1) * U <= B + R * (t - s[i])
        BY <1>1, <1>4, <2>2
      <3>2. j - i + 1 = n + 1 - i + 1
        BY <1>1, <2>2
      <3> QED
        BY <3>1, <3>2
    <2>3. CASE j = n + 1 /\ i = n + 1
      <3>1. (j - i + 1) * U = U /\ z[j] = t /\ z[i] = t
        BY <1>1, <2>3
      <3> QED
        BY <1>5, <1>6, <3>1
    <2> QED
      BY <1>7, <2>1, <2>2, <2>3
  <1>10. PaidUp(z, t, U, A - U, B, R)
    BY <1>1, <1>8 DEF PaidUp
  <1>11. SpacedOut(z, U, B, R)
    BY <1>1, <1>9 DEF SpacedOut
  <1> QED
    BY <1>10, <1>11 DEF z

\* The rate of one tick is added.
LEMMA TickPaid ==
    ASSUME NEW s \in Seq(Nat), NEW t \in Nat, NEW U \in Nat, NEW A \in Nat, NEW C \in Nat,
           NEW B \in Nat, NEW R \in Nat, C <= A + R, PaidUp(s, t, U, A, B, R),
           NEW w \in Nat, w = t + 1
    PROVE  PaidUp(s, w, U, C, B, R)
  <1> SUFFICES ASSUME NEW i \in 1 .. Len(s)
               PROVE  s[i] <= w /\ (Len(s) - i + 1) * U + C <= B + R * (w - s[i])
    BY DEF PaidUp
  <1> DEFINE x == (Len(s) - i + 1) * U
             y == R * (t - s[i])
  <1>1. Len(s) \in Nat /\ s[i] \in Nat /\ i \in Nat
    OBVIOUS
  <1>2. s[i] <= t /\ x + A <= B + y
    BY DEF PaidUp
  <1>3. x \in Int /\ y \in Int /\ R * (w - s[i]) = y + R
    BY <1>1
  <1> HIDE DEF x, y
  <1>4. s[i] <= w
    BY <1>1, <1>2
  <1>5. x + C <= B + (y + R)
    BY <1>2, <1>3
  <1> QED
    BY <1>3, <1>4, <1>5 DEF x

\* The bucket loses something without a request being let through.
LEMMA LessPaid ==
    ASSUME NEW s \in Seq(Nat), NEW t \in Nat, NEW U \in Nat, NEW A \in Nat, NEW C \in Nat,
           NEW B \in Nat, NEW R \in Nat, C <= A, PaidUp(s, t, U, A, B, R)
    PROVE  PaidUp(s, t, U, C, B, R)
  <1> SUFFICES ASSUME NEW i \in 1 .. Len(s)
               PROVE  s[i] <= t /\ (Len(s) - i + 1) * U + C <= B + R * (t - s[i])
    BY DEF PaidUp
  <1> DEFINE x == (Len(s) - i + 1) * U
             y == R * (t - s[i])
  <1>1. Len(s) \in Nat /\ s[i] \in Nat /\ i \in Nat
    OBVIOUS
  <1>2. s[i] <= t /\ x + A <= B + y
    BY DEF PaidUp
  <1>3. x \in Int /\ y \in Int
    BY <1>1
  <1> HIDE DEF x, y
  <1>4. x + C <= B + y
    BY <1>2, <1>3
  <1> QED
    BY <1>2, <1>4 DEF x, y
\* Rates and bursts: a bucket holds one request at least, and the idle time refills it.
LEMMA BurstFacts ==
    ASSUME NEW k \in BucketKeys
    PROVE  /\ RateOf(k) \in Nat /\ BurstOf(k) \in Nat /\ Unit \in Nat \ {0} /\ IdleFor \in Nat \ {0}
           /\ BurstOf(k) >= Unit
           /\ RateOf(k) > 0 => BurstOf(k) <= IdleFor * RateOf(k)
  <1> DEFINE r == RateOf(k)
  <1>1. /\ r \in Nat /\ Unit \in Nat \ {0} /\ IdleFor \in Nat \ {0}
        /\ r > 0 => IdleFor * r >= Unit
    BY RateAssumption DEF RateOf
  <1>2. BurstOf(k) = IF r < Unit THEN Unit ELSE (r \div Unit) * Unit
    BY DEF BurstOf
  <1> HIDE DEF r
  <1>3. CASE r < Unit
    BY <1>1, <1>2, <1>3 DEF r
  <1>4. CASE r >= Unit
    <2>1. r \div Unit \in Nat /\ r \div Unit >= 1 /\ (r \div Unit) * Unit <= r
      BY <1>1, <1>4
    <2>2. \A q \in Nat : q >= 1 => q * Unit >= Unit /\ q * Unit \in Nat
      BY <1>1
    <2>3. r <= IdleFor * r
      BY <1>1
    <2>4. BurstOf(k) = (r \div Unit) * Unit
      BY <1>1, <1>2, <1>4
    <2>5. BurstOf(k) \in Nat /\ BurstOf(k) >= Unit
      BY <2>1, <2>2, <2>4
    <2>6. IdleFor * r \in Nat
      BY <1>1
    <2>7. BurstOf(k) <= IdleFor * r
      BY <1>1, <2>1, <2>3, <2>4, <2>5, <2>6
    <2> QED
      BY <1>1, <2>5, <2>7 DEF r
  <1> QED
    BY <1>1, <1>3, <1>4

\* What a bucket holds.
LEMMA AdvanceFacts ==
    ASSUME RateInv, NEW k \in BucketKeys
    PROVE  Advance(k) \in 0 .. BurstOf(k)
  <1>1. CASE k \in DOMAIN buckets
    <2> DEFINE u == buckets[k].units
               d == tick - buckets[k].last
    <2>0. u \in 0 .. BurstOf(k) /\ tick \in Nat /\ buckets[k].last \in 0 .. tick
      BY <1>1 DEF RateInv, BucketOK
    <2>1. u \in 0 .. BurstOf(k) /\ d \in Nat
      BY <2>0
    <2>2. Advance(k) = IF u + d * RateOf(k) > BurstOf(k) THEN BurstOf(k) ELSE u + d * RateOf(k)
      BY <1>1 DEF Advance, getOrCreateLimiter
    <2> HIDE DEF u, d
    <2>3. d * RateOf(k) \in Nat
      BY <2>1, BurstFacts
    <2> QED
      BY <2>1, <2>2, <2>3, BurstFacts
  <1>2. CASE k \notin DOMAIN buckets
    <2>1. Advance(k) = IF BurstOf(k) + (tick - tick) * RateOf(k) > BurstOf(k) THEN BurstOf(k)
                       ELSE BurstOf(k) + (tick - tick) * RateOf(k)
      BY <1>2 DEF Advance, getOrCreateLimiter
    <2>2. (tick - tick) * RateOf(k) = 0
      BY BurstFacts DEF RateInv
    <2> QED
      BY <2>1, <2>2, BurstFacts
  <1> QED
    BY <1>1, <1>2

\* A bucket that is not there counts as full, one just touched holds what was left in it.
LEMMA NoBucketIsFull ==
    ASSUME NEW k \in BucketKeys, tick \in Nat, k \notin DOMAIN buckets
    PROVE  Advance(k) = BurstOf(k)
  <1>1. Advance(k) = IF BurstOf(k) + (tick - tick) * RateOf(k) > BurstOf(k) THEN BurstOf(k)
                     ELSE BurstOf(k) + (tick - tick) * RateOf(k)
    BY DEF Advance, getOrCreateLimiter
  <1>2. (tick - tick) * RateOf(k) = 0
    BY BurstFacts
  <1> QED
    BY <1>1, <1>2, BurstFacts

LEMMA NoBucketIsFullNext ==
    ASSUME NEW k \in BucketKeys, tick' \in Nat, k \notin DOMAIN buckets'
    PROVE  Advance(k)' = BurstOf(k)
  <1>1. Advance(k)' = IF BurstOf(k) + (tick' - tick') * RateOf(k) > BurstOf(k) THEN BurstOf(k)
                      ELSE BurstOf(k) + (tick' - tick') * RateOf(k)
    BY DEF Advance, getOrCreateLimiter
  <1>2. (tick' - tick') * RateOf(k) = 0
    BY BurstFacts
  <1> QED
    BY <1>1, <1>2, BurstFacts

\* The invariant's facts about one limit.
LEMMA RateFacts ==
    ASSUME RateInv, NEW k \in BucketKeys
    PROVE  /\ tick \in Nat /\ passed[k] \in Seq(Nat) /\ Advance(k) \in Nat /\ Advance(k) <= BurstOf(k)
           /\ RateOf(k) \in Nat /\ BurstOf(k) \in Nat /\ Unit \in Nat
           /\ PaidUp(passed[k], tick, Unit, Advance(k), BurstOf(k), RateOf(k))
           /\ SpacedOut(passed[k], Unit, BurstOf(k), RateOf(k))
  <1>1. Advance(k) \in 0 .. BurstOf(k) /\ RateOf(k) \in Nat /\ BurstOf(k) \in Nat /\ Unit \in Nat
    BY AdvanceFacts, BurstFacts
  <1> QED
    BY <1>1 DEF RateInv

\* Both sides of one tick.
LEMMA TickGain ==
    ASSUME RateInv, NEW k \in BucketKeys, tick' = tick + 1, buckets' = buckets
    PROVE  BucketOK(k)' /\ Advance(k)' \in Nat /\ Advance(k)' <= Advance(k) + RateOf(k)
  <1> DEFINE B == BurstOf(k)
             R == RateOf(k)
  <1>0. R \in Nat /\ B \in Nat /\ tick \in Nat /\ tick' \in Nat
    BY BurstFacts DEF RateInv
  <1>1. CASE k \in DOMAIN buckets
    <2> DEFINE u == buckets[k].units
               l == buckets[k].last
    <2>1. u \in 0 .. B /\ l \in 0 .. tick /\ RateOf(k) > 0
      BY <1>1 DEF RateInv, BucketOK
    <2>2. Advance(k) = IF u + (tick - l) * R > B THEN B ELSE u + (tick - l) * R
      BY <1>1 DEF Advance, getOrCreateLimiter
    <2>3. Advance(k)' = IF u + (tick' - l) * R > B THEN B ELSE u + (tick' - l) * R
      BY <1>1 DEF Advance, getOrCreateLimiter
    <2>4. BucketOK(k)'
      <3>1. l \in 0 .. tick'
        BY <1>0, <2>1
      <3> QED
        BY <2>1, <3>1 DEF BucketOK
    <2> HIDE DEF u, l, B, R
    <2>5. (tick' - l) * R = (tick - l) * R + R /\ (tick - l) * R \in Nat
      BY <1>0, <2>1
    <2> DEFINE x == (tick - l) * R
    <2>6. /\ Advance(k) = IF u + x > B THEN B ELSE u + x
          /\ Advance(k)' = IF u + (x + R) > B THEN B ELSE u + (x + R)
          /\ x \in Nat
      BY <2>2, <2>3, <2>5
    <2> HIDE DEF x
    <2>7. Advance(k)' \in Nat /\ Advance(k)' <= Advance(k) + R
      BY <1>0, <2>1, <2>6
    <2> QED
      BY <2>4, <2>7 DEF R
  <1>2. CASE k \notin DOMAIN buckets
    <2>1. Advance(k) = B /\ Advance(k)' = B
      BY <1>0, <1>2, NoBucketIsFull, NoBucketIsFullNext
    <2> QED
      BY <1>0, <1>2, <2>1 DEF BucketOK
  <1> QED
    BY <1>1, <1>2

LEMMA RateTickKeeps ==
    ASSUME RateInv, RateTick
    PROVE  RateInv'
  <1>1. tick' = tick + 1 /\ buckets' = buckets /\ passed' = passed /\ tick' \in Nat
    BY DEF RateTick, RateInv
  <1>2. ASSUME NEW k \in BucketKeys
        PROVE  /\ BucketOK(k)'
               /\ PaidUp(passed[k], tick', Unit, Advance(k)', BurstOf(k), RateOf(k))
               /\ SpacedOut(passed[k], Unit, BurstOf(k), RateOf(k))
    <2>1. BucketOK(k)' /\ Advance(k)' \in Nat /\ Advance(k)' <= Advance(k) + RateOf(k)
      BY <1>1, TickGain
    <2> QED
      BY <1>1, <2>1, RateFacts, TickPaid
  <1> QED
    BY <1>1, <1>2 DEF RateInv

\* An evicted bucket was full.
LEMMA SweepLevel ==
    ASSUME RateInv, cleanupLimiters, NEW k \in BucketKeys
    PROVE  BucketOK(k)' /\ Advance(k)' = Advance(k)
  <1> DEFINE B == BurstOf(k)
             R == RateOf(k)
             keep == {b \in DOMAIN buckets : buckets[b].last + IdleFor >= tick}
  <1>0. /\ R \in Nat /\ B \in Nat /\ tick \in Nat /\ tick' = tick /\ IdleFor \in Nat
        /\ R > 0 => B <= IdleFor * R
    BY BurstFacts DEF RateInv, cleanupLimiters
  <1>1. buckets' = [b \in keep |-> buckets[b]]
    BY DEF cleanupLimiters
  <1>2. CASE k \in keep
    <2>1. k \in DOMAIN buckets /\ k \in DOMAIN buckets' /\ buckets'[k] = buckets[k]
      BY <1>1, <1>2
    <2>2. BucketOK(k)'
      BY <1>0, <2>1 DEF BucketOK, RateInv
    <2>3. Advance(k)' = Advance(k)
      BY <1>0, <2>1 DEF Advance, getOrCreateLimiter
    <2> QED
      BY <2>2, <2>3
  <1>3. CASE k \notin DOMAIN buckets
    <2>1. k \notin DOMAIN buckets'
      BY <1>1, <1>3
    <2>2. Advance(k) = B /\ Advance(k)' = B
      BY <1>0, <1>3, <2>1, NoBucketIsFull, NoBucketIsFullNext
    <2> QED
      BY <2>1, <2>2 DEF BucketOK
  <1>4. CASE k \in DOMAIN buckets /\ k \notin keep
    <2> DEFINE u == buckets[k].units
               l == buckets[k].last
    <2>1. u \in 0 .. B /\ l \in 0 .. tick /\ R > 0
      BY <1>4 DEF RateInv, BucketOK
    <2>2. k \notin DOMAIN buckets' /\ ~(l + IdleFor >= tick)
      BY <1>1, <1>4
    <2>3. Advance(k) = IF u + (tick - l) * R > B THEN B ELSE u + (tick - l) * R
      BY <1>4 DEF Advance, getOrCreateLimiter
    <2>4. Advance(k)' = B
      BY <1>0, <2>2, NoBucketIsFullNext
    <2> HIDE DEF u, l, B, R
    <2>5. tick - l \in Nat /\ IdleFor <= tick - l
      BY <1>0, <2>1, <2>2
    <2>6. \A d \in Nat : IdleFor <= d => IdleFor * R <= d * R /\ d * R \in Nat
      BY <1>0
    <2>7. B <= (tick - l) * R /\ (tick - l) * R \in Nat
      <3>1. IdleFor * R <= (tick - l) * R /\ (tick - l) * R \in Nat
        BY <2>5, <2>6
      <3>2. IdleFor * R \in Nat /\ B <= IdleFor * R
        BY <1>0, <2>1
      <3> QED
        BY <1>0, <3>1, <3>2
    <2> DEFINE x == (tick - l) * R
    <2>8. x \in Nat /\ B <= x /\ Advance(k) = IF u + x > B THEN B ELSE u + x
      BY <2>3, <2>7
    <2> HIDE DEF x
    <2>9. Advance(k) = B
      BY <1>0, <2>1, <2>8
    <2> QED
      BY <2>2, <2>4, <2>9 DEF BucketOK
  <1> QED
    BY <1>2, <1>3, <1>4

LEMMA SweepKeeps ==
    ASSUME RateInv, cleanupLimiters
    PROVE  RateInv'
  <1>1. tick' = tick /\ passed' = passed
    BY DEF cleanupLimiters
  <1>2. \A k \in BucketKeys : BucketOK(k)' /\ Advance(k)' = Advance(k)
    BY SweepLevel
  <1> QED
    BY <1>1, <1>2 DEF RateInv

\* What asking the limits ks leaves in the buckets.
LEMMA ChargeLevel ==
    ASSUME RateInv, NEW ks, \A k \in ks : k \in BucketKeys /\ RateOf(k) > 0,
           buckets' = Charge(ks), tick' = tick, NEW k \in BucketKeys
    PROVE  /\ BucketOK(k)'
           /\ Advance(k)' = IF k \in ks /\ Advance(k) >= Unit THEN Advance(k) - Unit ELSE Advance(k)
  <1> DEFINE A == Advance(k)
             left == IF A >= Unit THEN A - Unit ELSE A
             B == BurstOf(k)
  <1>0. /\ A \in 0 .. B /\ B \in Nat /\ Unit \in Nat /\ tick \in Nat /\ RateOf(k) \in Nat
    BY BurstFacts, AdvanceFacts DEF RateInv
  <1>1. DOMAIN buckets' = DOMAIN buckets \cup ks
    BY DEF Charge
  <1>2. CASE k \in ks
    <2> DEFINE n == [units |-> left, last |-> tick]
    <2>1. k \in DOMAIN buckets' /\ buckets'[k] = n /\ RateOf(k) > 0
      BY <1>1, <1>2 DEF Charge, allowBucket
    <2>2. n.units = left /\ n.last = tick
      OBVIOUS
    <2>3. left \in 0 .. B
      BY <1>0
    <2> HIDE DEF n, left
    <2>4. BucketOK(k)'
      <3>1. n.last \in 0 .. tick
        BY <1>0, <2>2
      <3> QED
        BY <2>1, <2>2, <2>3, <3>1 DEF BucketOK
    <2>5. Advance(k)' = IF left + (tick - tick) * RateOf(k) > B THEN B ELSE left + (tick - tick) * RateOf(k)
      BY <2>1, <2>2 DEF Advance, getOrCreateLimiter
    <2>6. (tick - tick) * RateOf(k) = 0
      BY <1>0
    <2>7. Advance(k)' = left
      BY <1>0, <2>3, <2>5, <2>6
    <2> QED
      BY <1>2, <2>4, <2>7 DEF left
  <1>3. CASE k \notin ks /\ k \in DOMAIN buckets
    <2>1. k \in DOMAIN buckets' /\ buckets'[k] = buckets[k]
      BY <1>1, <1>3 DEF Charge
    <2>2. BucketOK(k)'
      BY <1>3, <2>1 DEF BucketOK, RateInv
    <2>3. Advance(k)' = Advance(k)
      BY <1>3, <2>1 DEF Advance, getOrCreateLimiter
    <2> QED
      BY <1>3, <2>2, <2>3
  <1>4. CASE k \notin ks /\ k \notin DOMAIN buckets
    <2>1. k \notin DOMAIN buckets'
      BY <1>1, <1>4
    <2>2. Advance(k) = B /\ Advance(k)' = B
      BY <1>0, <1>4, <2>1, NoBucketIsFull, NoBucketIsFullNext
    <2> QED
      BY <1>4, <2>1, <2>2 DEF BucketOK
  <1> QED
    BY <1>2, <1>3, <1>4

\* The limits that apply to a request have a rate.
LEMMA LimitsAreKeys ==
    ASSUME NEW addr \in Addrs, NEW tok \in Bearers \cup {NoBearer}
    PROVE  \A k \in AddrLimit(addr) \cup KeyLimit(tok) : k \in BucketKeys /\ RateOf(k) > 0
  <1>1. \A k \in AddrLimit(addr) : k \in BucketKeys /\ RateOf(k) > 0
    BY DEF AddrLimit, BucketKeys, RateOf
  <1>2. \A k \in KeyLimit(tok) : k \in Bearers /\ k \notin Addrs /\ RateKeyRPS > 0
    BY RateAssumption DEF KeyLimit
  <1>3. \A k \in KeyLimit(tok) : k \in BucketKeys /\ RateOf(k) > 0
    BY <1>2 DEF BucketKeys, RateOf
  <1> QED
    BY <1>1, <1>3

LEMMA MiddlewareKeeps ==
    ASSUME RateInv, NEW addr \in Addrs, NEW tok \in Bearers \cup {NoBearer},
           rateLimitMiddleware(addr, tok)
    PROVE  RateInv'
  <1>0. tick' = tick /\ tick \in Nat /\ passed \in [BucketKeys -> Seq(Nat)]
    BY DEF rateLimitMiddleware, RateInv
  <1>1. ASSUME NEW ks, \A k \in ks : k \in BucketKeys /\ RateOf(k) > 0, buckets' = Charge(ks),
               passed' = passed
        PROVE  RateInv'
    <2>1. ASSUME NEW k \in BucketKeys
          PROVE  /\ BucketOK(k)'
                 /\ PaidUp(passed[k], tick, Unit, Advance(k)', BurstOf(k), RateOf(k))
                 /\ SpacedOut(passed[k], Unit, BurstOf(k), RateOf(k))
      <3>1. /\ BucketOK(k)'
            /\ Advance(k)' = IF k \in ks /\ Advance(k) >= Unit THEN Advance(k) - Unit ELSE Advance(k)
        BY <1>0, <1>1, ChargeLevel
      <3>2. Advance(k) \in Nat /\ Unit \in Nat
        BY RateFacts
      <3>3. Advance(k)' \in Nat /\ Advance(k)' <= Advance(k)
        BY <3>1, <3>2
      <3> QED
        BY <3>1, <3>3, RateFacts, LessPaid
    <2> QED
      BY <1>0, <1>1, <2>1 DEF RateInv
  <1>2. ASSUME NEW ks, \A k \in ks : k \in BucketKeys /\ RateOf(k) > 0, buckets' = Charge(ks),
               passed' = Note(ks), \A k \in ks : allowBucket(k)
        PROVE  RateInv'
    <2>1. ASSUME NEW k \in BucketKeys
          PROVE  /\ BucketOK(k)' /\ passed'[k] \in Seq(Nat)
                 /\ PaidUp(passed'[k], tick, Unit, Advance(k)', BurstOf(k), RateOf(k))
                 /\ SpacedOut(passed'[k], Unit, BurstOf(k), RateOf(k))
      <3>1. /\ BucketOK(k)'
            /\ Advance(k)' = IF k \in ks /\ Advance(k) >= Unit THEN Advance(k) - Unit ELSE Advance(k)
        BY <1>0, <1>2, ChargeLevel
      <3>2. passed'[k] = IF k \in ks THEN Append(passed[k], tick) ELSE passed[k]
        BY <1>2 DEF Note
      <3>3. CASE k \in ks
        <4>1. Advance(k) >= Unit
          BY <1>2, <3>3 DEF allowBucket
        <4>2. Unit <= Advance(k)
          BY <4>1, RateFacts
        <4>3. Advance(k)' = Advance(k) - Unit /\ passed'[k] = Append(passed[k], tick)
          BY <3>1, <3>2, <3>3, <4>1
        <4>4. /\ PaidUp(Append(passed[k], tick), tick, Unit, Advance(k) - Unit, BurstOf(k), RateOf(k))
              /\ SpacedOut(Append(passed[k], tick), Unit, BurstOf(k), RateOf(k))
          BY <4>2, RateFacts, AppendPaid
        <4>5. Append(passed[k], tick) \in Seq(Nat)
          BY RateFacts
        <4> QED
          BY <3>1, <4>3, <4>4, <4>5
      <3>4. CASE k \notin ks
        BY <3>1, <3>2, <3>4, RateFacts
      <3> QED
        BY <3>3, <3>4
    <2>2. passed' \in [BucketKeys -> Seq(Nat)]
      <3>1. DOMAIN passed' = BucketKeys /\ passed' = [k \in BucketKeys |-> passed'[k]]
        BY <1>2 DEF Note
      <3> QED
        BY <2>1, <3>1
    <2> QED
      BY <1>0, <2>1, <2>2 DEF RateInv
  <1>3. CASE \E k \in AddrLimit(addr) : ~allowBucket(k)
    <2>1. buckets' = Charge(AddrLimit(addr)) /\ passed' = passed
      BY <1>3 DEF rateLimitMiddleware
    <2>2. \A k \in AddrLimit(addr) : k \in BucketKeys /\ RateOf(k) > 0
      BY LimitsAreKeys
    <2> QED
      BY <1>1, <2>1, <2>2
  <1>4. CASE ~\E k \in AddrLimit(addr) : ~allowBucket(k)
    <2> DEFINE ks == AddrLimit(addr) \cup KeyLimit(tok)
    <2>1. /\ buckets' = Charge(ks)
          /\ passed' = IF \E k \in KeyLimit(tok) : ~allowBucket(k) THEN passed ELSE Note(ks)
      BY <1>4 DEF rateLimitMiddleware
    <2>2. \A k \in ks : k \in BucketKeys /\ RateOf(k) > 0
      BY LimitsAreKeys
    <2>3. CASE \E k \in KeyLimit(tok) : ~allowBucket(k)
      <3>1. passed' = passed
        BY <2>1, <2>3
      <3> HIDE DEF ks
      <3> QED
        BY <1>1, <2>1, <2>2, <3>1
    <2>4. CASE ~\E k \in KeyLimit(tok) : ~allowBucket(k)
      <3>1. passed' = Note(ks) /\ \A k \in ks : allowBucket(k)
        BY <1>4, <2>1, <2>4
      <3> HIDE DEF ks
      <3> QED
        BY <1>2, <2>1, <2>2, <3>1
    <2> QED
      BY <2>3, <2>4
  <1> QED
    BY <1>3, <1>4

LEMMA RateInitInv == RateInit => RateInv
  <1> SUFFICES ASSUME RateInit
               PROVE  RateInv
    OBVIOUS
  <1>1. /\ tick \in Nat /\ passed \in [BucketKeys -> Seq(Nat)]
        /\ \A k \in BucketKeys : passed[k] = <<>> /\ Len(passed[k]) = 0
    BY DEF RateInit
  <1>2. DOMAIN buckets = {}
    BY DEF RateInit
  <1>3. ASSUME NEW k \in BucketKeys
        PROVE  /\ BucketOK(k) /\ PaidUp(passed[k], tick, Unit, Advance(k), BurstOf(k), RateOf(k))
               /\ SpacedOut(passed[k], Unit, BurstOf(k), RateOf(k))
    BY <1>1, <1>2 DEF BucketOK, PaidUp, SpacedOut
  <1> QED
    BY <1>1, <1>3 DEF RateInv

LEMMA RateNextInv == RateInv /\ [RateNext]_rateVars => RateInv'
  <1> SUFFICES ASSUME RateInv, [RateNext]_rateVars
               PROVE  RateInv'
    OBVIOUS
  <1>1. CASE UNCHANGED rateVars
    <2>1. \A k \in BucketKeys : BucketOK(k)' /\ Advance(k)' = Advance(k)
      BY <1>1 DEF rateVars, RateInv, BucketOK, Advance, getOrCreateLimiter
    <2> QED
      BY <1>1, <2>1 DEF rateVars, RateInv
  <1> QED
    BY <1>1, RateTickKeeps, SweepKeeps, MiddlewareKeeps DEF RateNext

LEMMA RateInvSafe == RateInv => LimitHolds
  <1> SUFFICES ASSUME RateInv, NEW k \in BucketKeys
               PROVE  \A i, j \in DOMAIN passed[k] : i <= j =>
                        (j - i + 1) * Unit <= BurstOf(k) + RateOf(k) * (passed[k][j] - passed[k][i])
    BY DEF LimitHolds
  <1>1. DOMAIN passed[k] = 1 .. Len(passed[k])
    BY DEF RateInv
  <1>2. SpacedOut(passed[k], Unit, BurstOf(k), RateOf(k))
    BY DEF RateInv
  <1> QED
    BY <1>1, <1>2, Zenon DEF SpacedOut

\* Whatever rates, bursts and idle times are configured, and however requests, addresses and
\* tokens are mixed with sweeps: no interval sees more than the burst and the rate allow.
THEOREM RateLimited == RateSpec => []LimitHolds
  BY RateInitInv, RateNextInv, RateInvSafe, PTL DEF RateSpec

\* The same of the sum the tenancy run explores.
THEOREM TenancyRate == TenancySpec => []RateLimit_LimitHolds
  <1>1. TenancyInit => (part = "rate" => RateInv)
    BY RateInitInv DEF TenancyInit
  <1>2. (part = "rate" => RateInv) /\ [TenancyNext]_tenancyVars => (part = "rate" => RateInv)'
    <2>1. part = "rate" /\ [TenancyNext]_tenancyVars => [RateNext]_rateVars
      BY DEF TenancyNext, tenancyVars
    <2>2. [TenancyNext]_tenancyVars => part' = part
      BY DEF TenancyNext, tenancyVars
    <2> QED
      BY <2>1, <2>2, RateNextInv
  <1>3. (part = "rate" => RateInv) => RateLimit_LimitHolds
    BY RateInvSafe DEF RateLimit_LimitHolds
  <1> QED
    BY <1>1, <1>2, <1>3, PTL DEF TenancySpec

-----------------------------------------------------------------------------
(***************************************************************************)
(* Credentials.  A rotation in flight holds the role of a key that was     *)
(* created, a token request an account that was enabled when the clock     *)
(* last moved: the clock does not move under a request.                    *)
(***************************************************************************)
RotateReq == [op: {"rotate"}, key: ApiKeyIds, role: KeyRoles \cup {"none"}]
MintReq == [op: {"mint"}, acct: SAccounts, role: SARoles]
KeyRow == [st : {"none", "on", "off", "gone"}, role : KeyRoles \cup {"none"}, pred : ApiKeyIds \cup {NoKey}]
SARow == [st : {"none", "on", "off"}, role : SARoles \cup {"none"}]

RotateReqOK(r, ks) == r \in RotateReq => ks[r.key].st # "none" /\ ks[r.key].role = r.role
MintReqOK(r, sas, offs, t) ==
    r \in MintReq => sas[r.acct].st # "none" /\ (sas[r.acct].st = "off" => offs[r.acct] = t)
AccReqOK(r) == RotateReqOK(r, apiKeys) /\ MintReqOK(r, saRows, saOff, now)

\* Only a key that was created is enabled, and a key with a successor is not.
KeysOK ==
    /\ \A k \in ApiKeyIds : apiKeys[k].st # "none" => apiKeys[k].role \in KeyRoles
    /\ \A k \in ApiKeyIds : apiKeys[k].pred # NoKey =>
         /\ apiKeys[apiKeys[k].pred].st \in {"off", "gone"}
         /\ apiKeys[k].role = apiKeys[apiKeys[k].pred].role

AccountsOK ==
    /\ \A a \in SAccounts : saRows[a].st # "none" => saRows[a].role \in SARoles
    /\ \A t \in saTokens :
         /\ saRows[t.acct].st # "none" /\ t.exp <= now + TokenTTL
         /\ saRows[t.acct].st = "off" => t.exp <= saOff[t.acct] + TokenTTL

AccRequestsOK ==
    /\ areq \in [AccessReqs -> RotateReq \cup MintReq \cup {NoAccReq}]
    /\ \A q \in AccessReqs : AccReqOK(areq[q])

AccInv == AccessTypeOK /\ KeysOK /\ AccountsOK /\ AccRequestsOK

LEMMA NoAccReqFacts == NoAccReq \notin RotateReq /\ NoAccReq \notin MintReq /\ NoAccReq.op = "none"
  <1>1. NoAccReq.op = "none"
    BY DEF NoAccReq
  <1> QED
    BY <1>1 DEF RotateReq, MintReq

LEMMA AccReqKinds ==
    ASSUME AccInv, NEW q \in AccessReqs
    PROVE  /\ areq[q].op = "rotate" => areq[q] \in RotateReq
           /\ areq[q].op = "mint" => areq[q] \in MintReq
           /\ AccReqOK(areq[q])
  <1>1. areq[q] \in RotateReq \cup MintReq \cup {NoAccReq} /\ AccReqOK(areq[q])
    BY DEF AccInv, AccRequestsOK
  <1> QED
    BY <1>1, NoAccReqFacts DEF RotateReq, MintReq

LEMMA AccessInitInv == AccessInit => AccInv
  <1> SUFFICES ASSUME AccessInit PROVE AccInv
    OBVIOUS
  <1> USE DEF AccessInit
  <1>1. [st |-> "none", role |-> "none", pred |-> NoKey] \in KeyRow
    BY DEF KeyRow
  <1>2. [st |-> "none", role |-> "none"] \in SARow
    BY DEF SARow
  <1>3. AccessTypeOK
    <2>1. apiKeys \in [ApiKeyIds -> KeyRow] /\ saRows \in [SAccounts -> SARow]
      BY <1>1, <1>2
    <2>2. now \in 0..MaxNow /\ saOff \in [SAccounts -> 0..MaxNow]
      BY AccessAssumption
    <2> QED
      BY <2>1, <2>2 DEF AccessTypeOK, KeyRow, SARow
  <1>4. KeysOK /\ AccountsOK
    BY DEF KeysOK, AccountsOK
  <1>5. AccRequestsOK
    BY NoAccReqFacts DEF AccRequestsOK, AccReqOK, RotateReqOK, MintReqOK
  <1> QED
    BY <1>3, <1>4, <1>5 DEF AccInv

\* A request moves to r while keys and accounts stay.
LEMMA AccReqMoves ==
    ASSUME AccInv, NEW q \in AccessReqs, NEW r \in RotateReq \cup MintReq \cup {NoAccReq}, AccReqOK(r),
           areq' = [areq EXCEPT ![q] = r], UNCHANGED <<apiKeys, saRows, now, saOff>>
    PROVE  AccRequestsOK'
  <1>1. \A x \in AccessReqs : AccReqOK(areq'[x])
    BY DEF AccInv, AccRequestsOK
  <1> QED
    BY <1>1 DEF AccInv, AccRequestsOK, AccReqOK

\* A request ends: the others are as they were.
LEMMA AccReqEnds ==
    ASSUME AccInv, NEW q \in AccessReqs, AccEnd(q)
    PROVE  /\ areq' \in [AccessReqs -> RotateReq \cup MintReq \cup {NoAccReq}]
           /\ \A x \in AccessReqs : areq'[x] = areq[x] \/ areq'[x] = NoAccReq
  BY DEF AccInv, AccRequestsOK, AccEnd

\* The keys change so that no key that was created loses its role or goes back.
LEMMA KeysStep ==
    ASSUME AccInv, AccessTypeOK', KeysOK', UNCHANGED <<saRows, saTokens, now, saOff>>,
           areq' \in [AccessReqs -> RotateReq \cup MintReq \cup {NoAccReq}],
           \A x \in AccessReqs : areq'[x] = areq[x] \/ areq'[x] = NoAccReq,
           \A k \in ApiKeyIds : apiKeys[k].st # "none" => apiKeys'[k].st # "none" /\ apiKeys'[k].role = apiKeys[k].role
    PROVE  AccInv'
  <1>1. AccountsOK'
    BY DEF AccInv, AccountsOK
  <1>2. ASSUME NEW x \in AccessReqs PROVE RotateReqOK(areq'[x], apiKeys')
    <2>1. RotateReqOK(areq[x], apiKeys)
      BY DEF AccInv, AccRequestsOK, AccReqOK
    <2> QED
      BY <2>1, NoAccReqFacts DEF RotateReqOK, RotateReq
  <1>3. ASSUME NEW x \in AccessReqs PROVE MintReqOK(areq'[x], saRows, saOff, now)
    BY NoAccReqFacts DEF AccInv, AccRequestsOK, AccReqOK, MintReqOK
  <1>4. AccRequestsOK'
    BY <1>2, <1>3 DEF AccRequestsOK, AccReqOK
  <1> QED
    BY <1>1, <1>4 DEF AccInv

LEMMA CreateKeyInv ==
    ASSUME AccInv, NEW k \in ApiKeyIds, NEW role \in KeyRoles, handleCreateAPIKey(k, role)
    PROVE  AccInv'
  <1> DEFINE row == [st |-> "on", role |-> role, pred |-> NoKey]
  <1>1. row \in KeyRow /\ row.st = "on" /\ row.role = role /\ row.pred = NoKey
    BY DEF KeyRow
  <1>2. /\ apiKeys[k].st = "none" /\ apiKeys' = [apiKeys EXCEPT ![k] = row]
        /\ UNCHANGED <<keyCache, saRows, saTokens, areq, now, saOff, anon>>
    BY DEF handleCreateAPIKey, CreateAPIKey
  <1> HIDE DEF row
  <1>3. apiKeys \in [ApiKeyIds -> KeyRow]
    BY DEF AccInv, AccessTypeOK, KeyRow
  <1>4. apiKeys' \in [ApiKeyIds -> KeyRow]
    BY <1>1, <1>2, <1>3
  <1>5. AccessTypeOK'
    BY <1>2, <1>4 DEF AccInv, AccessTypeOK, KeyRow
  <1>6. KeysOK'
    BY <1>1, <1>2, <1>3 DEF AccInv, KeysOK, KeyRow
  <1>7. /\ areq' \in [AccessReqs -> RotateReq \cup MintReq \cup {NoAccReq}]
        /\ \A x \in AccessReqs : areq'[x] = areq[x]
    BY <1>2 DEF AccInv, AccRequestsOK
  <1> QED
    BY <1>2, <1>3, <1>5, <1>6, <1>7, KeysStep

LEMMA DeleteKeyInv ==
    ASSUME AccInv, NEW k \in ApiKeyIds, handleDeleteAPIKey(k)
    PROVE  AccInv'
  <1>1. apiKeys \in [ApiKeyIds -> KeyRow]
    BY DEF AccInv, AccessTypeOK, KeyRow
  <1>2. PICK old \in KeyRow : old = apiKeys[k] /\ old.st \in {"on", "off"}
    BY <1>1 DEF handleDeleteAPIKey, DeleteAPIKey
  <1> DEFINE row == [old EXCEPT !.st = "gone"]
  <1>3. row \in KeyRow /\ row.st = "gone" /\ row.role = old.role /\ row.pred = old.pred
    BY DEF KeyRow
  <1>4. /\ apiKeys' = [apiKeys EXCEPT ![k] = row]
        /\ UNCHANGED <<keyCache, saRows, saTokens, areq, now, saOff, anon>>
    BY <1>2 DEF handleDeleteAPIKey, DeleteAPIKey
  <1> HIDE DEF row
  <1>5. AccessTypeOK'
    BY <1>1, <1>3, <1>4 DEF AccInv, AccessTypeOK, KeyRow
  <1>6. KeysOK'
    BY <1>1, <1>2, <1>3, <1>4 DEF AccInv, KeysOK, KeyRow
  <1>7. /\ areq' \in [AccessReqs -> RotateReq \cup MintReq \cup {NoAccReq}]
        /\ \A x \in AccessReqs : areq'[x] = areq[x]
    BY <1>4 DEF AccInv, AccRequestsOK
  <1> QED
    BY <1>1, <1>2, <1>3, <1>4, <1>5, <1>6, <1>7, KeysStep

LEMMA RotateCommitInv ==
    ASSUME AccInv, NEW q \in AccessReqs, RotateCommit(q)
    PROVE  AccInv'
  <1>1. apiKeys \in [ApiKeyIds -> KeyRow]
    BY DEF AccInv, AccessTypeOK, KeyRow
  <1>2. areq[q] \in RotateReq /\ RotateReqOK(areq[q], apiKeys)
    BY AccReqKinds DEF RotateCommit, AccReqOK
  <1>3. PICK old \in ApiKeyIds, role \in KeyRoles \cup {"none"} :
          old = areq[q].key /\ role = areq[q].role /\ apiKeys[old].st # "none" /\ apiKeys[old].role = role
    BY <1>2 DEF RotateReq, RotateReqOK
  <1>4. role \in KeyRoles
    BY <1>3 DEF AccInv, KeysOK
  <1>5. PICK new \in ApiKeyIds : RotateAPIKey(old, new, role)
    BY <1>3 DEF RotateCommit
  <1> DEFINE row == [st |-> "on", role |-> role, pred |-> old]
  <1>6. row \in KeyRow /\ row.st = "on" /\ row.role = role /\ row.pred = old
    BY DEF KeyRow
  <1>7. PICK was \in KeyRow : was = apiKeys[old] /\ was.st # "none" /\ was.role = role
    BY <1>1, <1>3
  <1> DEFINE off == IF was.st = "on" THEN [was EXCEPT !.st = "off"] ELSE was
  <1>8. off \in KeyRow /\ off.st \in {"off", "gone"} /\ off.role = role /\ off.pred = was.pred
    BY <1>7 DEF KeyRow
  <1>9. /\ apiKeys[new].st = "none" /\ new # old
        /\ apiKeys' = [k \in ApiKeyIds |-> IF k = new THEN row ELSE IF k = old THEN off ELSE apiKeys[k]]
    BY <1>3, <1>5, <1>7 DEF RotateAPIKey
  <1>10. UNCHANGED <<keyCache, saRows, saTokens, now, saOff, anon>> /\ AccEnd(q)
    BY DEF RotateCommit
  <1> HIDE DEF row, off
  <1>11. apiKeys' \in [ApiKeyIds -> KeyRow]
    BY <1>1, <1>6, <1>8, <1>9
  <1>12. AccessTypeOK'
    BY <1>10, <1>11 DEF AccInv, AccessTypeOK, KeyRow
  <1>13. /\ apiKeys'[new] = row /\ apiKeys'[old] = off
         /\ \A k \in ApiKeyIds \ {new, old} : apiKeys'[k] = apiKeys[k]
    BY <1>9
  <1>14. KeysOK'
    <2>1. ASSUME NEW k \in ApiKeyIds, apiKeys'[k].st # "none" PROVE apiKeys'[k].role \in KeyRoles
      BY <1>4, <1>6, <1>8, <1>13, <2>1 DEF AccInv, KeysOK
    <2>2. ASSUME NEW k \in ApiKeyIds, apiKeys'[k].pred # NoKey
          PROVE  /\ apiKeys'[apiKeys'[k].pred].st \in {"off", "gone"}
                 /\ apiKeys'[k].role = apiKeys'[apiKeys'[k].pred].role
      <3>1. CASE k = new
        BY <1>6, <1>8, <1>13, <3>1
      <3>2. CASE k # new
        <4>1. apiKeys'[k].pred = apiKeys[k].pred /\ apiKeys'[k].role = apiKeys[k].role
          BY <1>7, <1>8, <1>13, <3>2
        <4>2. PICK p \in ApiKeyIds : p = apiKeys[k].pred
          BY <1>1, <2>2, <4>1 DEF KeyRow
        <4>3. apiKeys[p].st \in {"off", "gone"} /\ apiKeys[k].role = apiKeys[p].role
          BY <2>2, <4>1, <4>2 DEF AccInv, KeysOK
        <4>4. p # new
          BY <1>9, <4>3
        <4>5. apiKeys'[p].st \in {"off", "gone"} /\ apiKeys'[p].role = apiKeys[p].role
          BY <1>7, <1>8, <1>13, <4>3, <4>4
        <4> QED
          BY <4>1, <4>2, <4>3, <4>5
      <3> QED
        BY <3>1, <3>2
    <2> QED
      BY <2>1, <2>2 DEF KeysOK
  <1>15. \A k \in ApiKeyIds : apiKeys[k].st # "none" => apiKeys'[k].st # "none" /\ apiKeys'[k].role = apiKeys[k].role
    BY <1>7, <1>8, <1>9, <1>13
  <1> QED
    BY <1>10, <1>12, <1>14, <1>15, AccReqEnds, KeysStep

\* The accounts or the tokens change: no account that was created goes back to none, and
\* the requests that mint still hold one that was enabled at this tick.
LEMMA AccountsStep ==
    ASSUME AccInv, AccessTypeOK', AccountsOK', UNCHANGED apiKeys,
           areq' \in [AccessReqs -> RotateReq \cup MintReq \cup {NoAccReq}],
           \A x \in AccessReqs : areq'[x] = areq[x] \/ areq'[x] = NoAccReq,
           \A r \in MintReq : MintReqOK(r, saRows, saOff, now) => MintReqOK(r, saRows', saOff', now')
    PROVE  AccInv'
  <1>1. KeysOK'
    BY DEF AccInv, KeysOK
  <1>2. ASSUME NEW x \in AccessReqs PROVE RotateReqOK(areq'[x], apiKeys')
    <2>1. RotateReqOK(areq[x], apiKeys)
      BY DEF AccInv, AccRequestsOK, AccReqOK
    <2> QED
      BY <2>1, NoAccReqFacts DEF RotateReqOK
  <1>3. ASSUME NEW x \in AccessReqs PROVE MintReqOK(areq'[x], saRows', saOff', now')
    <2>1. MintReqOK(areq[x], saRows, saOff, now)
      BY DEF AccInv, AccRequestsOK, AccReqOK
    <2>2. CASE areq[x] \in MintReq /\ areq'[x] = areq[x]
      BY <2>1, <2>2
    <2>3. CASE areq'[x] \notin MintReq
      BY <2>3 DEF MintReqOK
    <2> QED
      BY <2>2, <2>3, NoAccReqFacts
  <1>4. AccRequestsOK'
    BY <1>2, <1>3 DEF AccRequestsOK, AccReqOK
  <1> QED
    BY <1>1, <1>4 DEF AccInv

LEMMA CreateAccountInv ==
    ASSUME AccInv, NEW a \in SAccounts, NEW role \in SARoles, handleCreateServiceAccount(a, role)
    PROVE  AccInv'
  <1> DEFINE row == [st |-> "on", role |-> role]
  <1>1. row \in SARow /\ row.st = "on" /\ row.role = role
    BY DEF SARow
  <1>2. /\ saRows[a].st = "none" /\ saRows' = [saRows EXCEPT ![a] = row]
        /\ UNCHANGED <<apiKeys, keyCache, saTokens, areq, now, saOff, anon>>
    BY DEF handleCreateServiceAccount, CreateServiceAccount
  <1> HIDE DEF row
  <1>3. saRows \in [SAccounts -> SARow] /\ saTokens \subseteq [acct : SAccounts, role : SARoles, exp : 0 .. MaxNow + TokenTTL]
    BY DEF AccInv, AccessTypeOK, SARow
  <1>4. AccessTypeOK'
    BY <1>1, <1>2, <1>3 DEF AccInv, AccessTypeOK, SARow
  <1>5. AccountsOK'
    BY <1>1, <1>2, <1>3 DEF AccInv, AccountsOK
  <1>6. ASSUME NEW r \in MintReq, MintReqOK(r, saRows, saOff, now) PROVE MintReqOK(r, saRows', saOff', now')
    BY <1>1, <1>2, <1>3, <1>6 DEF MintReqOK, MintReq
  <1>7. /\ areq' \in [AccessReqs -> RotateReq \cup MintReq \cup {NoAccReq}]
        /\ \A x \in AccessReqs : areq'[x] = areq[x]
    BY <1>2 DEF AccInv, AccRequestsOK
  <1> QED
    BY <1>2, <1>4, <1>5, <1>6, <1>7, AccountsStep

LEMMA RevokeAccountInv ==
    ASSUME AccInv, NEW a \in SAccounts, handleRevokeServiceAccount(a)
    PROVE  AccInv'
  <1>1. /\ saRows \in [SAccounts -> SARow] /\ saOff \in [SAccounts -> 0..MaxNow] /\ now \in 0..MaxNow
        /\ saTokens \subseteq [acct : SAccounts, role : SARoles, exp : 0 .. MaxNow + TokenTTL]
    BY DEF AccInv, AccessTypeOK, SARow
  <1>2. PICK was \in SARow : was = saRows[a] /\ was.st # "none"
    BY <1>1 DEF handleRevokeServiceAccount, RevokeServiceAccount
  <1> DEFINE row == [was EXCEPT !.st = "off"]
  <1>3. row \in SARow /\ row.st = "off" /\ row.role = was.role
    BY DEF SARow
  <1>4. /\ saRows' = [saRows EXCEPT ![a] = row]
        /\ saOff' = IF was.st = "on" THEN [saOff EXCEPT ![a] = now] ELSE saOff
        /\ UNCHANGED <<apiKeys, keyCache, saTokens, areq, now, anon>>
    BY <1>2 DEF handleRevokeServiceAccount, RevokeServiceAccount
  <1> HIDE DEF row
  <1>5. was.st \in {"on", "off"}
    BY <1>2 DEF SARow
  <1>6. AccessTypeOK'
    BY <1>1, <1>3, <1>4 DEF AccInv, AccessTypeOK, SARow
  <1>7. AccountsOK'
    <2>1. \A b \in SAccounts : saRows'[b].st # "none" => saRows'[b].role \in SARoles
      BY <1>1, <1>2, <1>3, <1>4 DEF AccInv, AccountsOK
    <2>2. ASSUME NEW t \in saTokens'
          PROVE  /\ saRows'[t.acct].st # "none" /\ t.exp <= now' + TokenTTL
                 /\ saRows'[t.acct].st = "off" => t.exp <= saOff'[t.acct] + TokenTTL
      <3>1. /\ t \in saTokens /\ t.acct \in SAccounts /\ saRows[t.acct].st # "none" /\ t.exp <= now + TokenTTL
            /\ saRows[t.acct].st = "off" => t.exp <= saOff[t.acct] + TokenTTL
        BY <1>1, <1>4 DEF AccInv, AccountsOK
      <3>2. CASE t.acct = a
        BY <1>1, <1>2, <1>3, <1>4, <1>5, <3>1, <3>2
      <3>3. CASE t.acct # a
        BY <1>1, <1>4, <3>1, <3>3
      <3> QED
        BY <3>2, <3>3
    <2> QED
      BY <2>1, <2>2 DEF AccountsOK
  <1>8. ASSUME NEW r \in MintReq, MintReqOK(r, saRows, saOff, now) PROVE MintReqOK(r, saRows', saOff', now')
    <2>1. r.acct \in SAccounts
      BY DEF MintReq
    <2>2. CASE r.acct = a
      BY <1>1, <1>2, <1>3, <1>4, <1>5, <1>8, <2>1, <2>2 DEF MintReqOK
    <2>3. CASE r.acct # a
      BY <1>1, <1>4, <1>8, <2>1, <2>3 DEF MintReqOK
    <2> QED
      BY <2>2, <2>3
  <1>9. /\ areq' \in [AccessReqs -> RotateReq \cup MintReq \cup {NoAccReq}]
        /\ \A x \in AccessReqs : areq'[x] = areq[x]
    BY <1>4 DEF AccInv, AccRequestsOK
  <1> QED
    BY <1>4, <1>6, <1>7, <1>8, <1>9, AccountsStep

LEMMA MintInv ==
    ASSUME AccInv, NEW q \in AccessReqs, MintToken(q)
    PROVE  AccInv'
  <1>1. areq[q] \in MintReq /\ MintReqOK(areq[q], saRows, saOff, now)
    BY AccReqKinds DEF MintToken, AccReqOK
  <1>2. PICK a \in SAccounts, role \in SARoles :
          a = areq[q].acct /\ role = areq[q].role /\ saRows[a].st # "none" /\ (saRows[a].st = "off" => saOff[a] = now)
    BY <1>1 DEF MintReq, MintReqOK
  <1>3. now \in 0..MaxNow /\ TokenTTL \in Nat /\ MaxNow \in Nat
    BY AccessAssumption DEF AccInv, AccessTypeOK
  <1>4. PICK e \in 0 .. MaxNow + TokenTTL : e = now + TokenTTL
    BY <1>3
  <1> DEFINE tok == [acct |-> a, role |-> role, exp |-> e]
  <1>5. /\ tok \in [acct : SAccounts, role : SARoles, exp : 0 .. MaxNow + TokenTTL]
        /\ tok.acct = a /\ tok.exp = e
    OBVIOUS
  <1>6. /\ saTokens' = saTokens \cup {tok} /\ AccEnd(q)
        /\ UNCHANGED <<apiKeys, keyCache, saRows, now, saOff, anon>>
    BY <1>2, <1>4 DEF MintToken
  <1> HIDE DEF tok
  <1>7. AccessTypeOK'
    BY <1>5, <1>6 DEF AccInv, AccessTypeOK
  <1>8. AccountsOK'
    BY <1>2, <1>3, <1>4, <1>5, <1>6 DEF AccInv, AccountsOK
  <1> QED
    BY <1>6, <1>7, <1>8, AccReqEnds, AccountsStep

LEMMA AccBeginInv ==
    ASSUME AccInv, NEW q \in AccessReqs, NEW r \in RotateReq \cup MintReq, AccReqOK(r), AccBegin(q, r),
           UNCHANGED <<apiKeys, keyCache, saRows, saTokens, now, saOff, anon>>
    PROVE  AccInv'
  <1>1. AccRequestsOK'
    BY AccReqMoves DEF AccBegin
  <1> QED
    BY <1>1 DEF AccInv, AccessTypeOK, KeysOK, AccountsOK

LEMMA RotateBeginInv ==
    ASSUME AccInv, NEW q \in AccessReqs, NEW k \in ApiKeyIds, handleRotateAPIKey(q, k)
    PROVE  AccInv'
  <1>1. PICK role \in KeyRoles \cup {"none"} : role = apiKeys[k].role
    BY DEF AccInv, AccessTypeOK
  <1> DEFINE r == [op |-> "rotate", key |-> k, role |-> role]
  <1>2. r \in RotateReq /\ r.op = "rotate" /\ r.key = k /\ r.role = role
    BY DEF RotateReq
  <1>3. /\ AccBegin(q, r) /\ apiKeys[k].st = "on"
        /\ UNCHANGED <<apiKeys, keyCache, saRows, saTokens, now, saOff, anon>>
    BY <1>1 DEF handleRotateAPIKey
  <1> HIDE DEF r
  <1>4. r \notin MintReq
    BY <1>2 DEF MintReq
  <1>5. AccReqOK(r)
    BY <1>1, <1>2, <1>3, <1>4 DEF AccReqOK, RotateReqOK, MintReqOK
  <1> QED
    BY <1>2, <1>3, <1>5, AccBeginInv

LEMMA TokenBeginInv ==
    ASSUME AccInv, NEW q \in AccessReqs, NEW a \in SAccounts, handleTokenEndpoint(q, a)
    PROVE  AccInv'
  <1>1. PICK role \in SARoles : role = saRows[a].role
    BY DEF AccInv, AccountsOK, handleTokenEndpoint, GetServiceAccountByClientID
  <1> DEFINE r == [op |-> "mint", acct |-> a, role |-> role]
  <1>2. r \in MintReq /\ r.op = "mint" /\ r.acct = a
    BY DEF MintReq
  <1>3. /\ AccBegin(q, r) /\ saRows[a].st = "on"
        /\ UNCHANGED <<apiKeys, keyCache, saRows, saTokens, now, saOff, anon>>
    BY <1>1 DEF handleTokenEndpoint, GetServiceAccountByClientID
  <1> HIDE DEF r
  <1>4. r \notin RotateReq
    BY <1>2 DEF RotateReq
  <1>5. AccReqOK(r)
    BY <1>2, <1>3, <1>4 DEF AccReqOK, RotateReqOK, MintReqOK
  <1> QED
    BY <1>2, <1>3, <1>5, AccBeginInv

LEMMA AccessTickInv == AccInv /\ Tick => AccInv'
  <1> SUFFICES ASSUME AccInv, Tick PROVE AccInv'
    OBVIOUS
  <1>1. /\ now \in 0..MaxNow /\ now' = now + 1 /\ now < MaxNow /\ \A q \in AccessReqs : areq[q] = NoAccReq
        /\ UNCHANGED <<apiKeys, keyCache, saRows, saTokens, areq, saOff, anon>>
    BY DEF AccInv, AccessTypeOK, Tick
  <1>2. now' \in 0..MaxNow /\ MaxNow \in Nat /\ TokenTTL \in Nat
    BY <1>1, AccessAssumption
  <1>3. AccessTypeOK'
    BY <1>1, <1>2 DEF AccInv, AccessTypeOK
  <1>4. KeysOK'
    BY <1>1 DEF AccInv, KeysOK
  <1>5. AccountsOK'
    <2>1. saTokens \subseteq [acct : SAccounts, role : SARoles, exp : 0 .. MaxNow + TokenTTL]
      BY DEF AccInv, AccessTypeOK
    <2>2. \A t \in saTokens : t.exp \in 0..MaxNow + TokenTTL
      BY <2>1
    <2>3. \A t \in saTokens : t.exp <= now' + TokenTTL
      BY <1>1, <1>2, <2>2 DEF AccInv, AccountsOK
    <2> QED
      BY <1>1, <2>3 DEF AccInv, AccountsOK
  <1>6. AccRequestsOK'
    BY <1>1, NoAccReqFacts DEF AccInv, AccRequestsOK, AccReqOK, RotateReqOK, MintReqOK
  <1> QED
    BY <1>3, <1>4, <1>5, <1>6 DEF AccInv

LEMMA AccessNextInv == AccInv /\ [AccessNext]_accessVars => AccInv'
  <1> SUFFICES ASSUME AccInv, [AccessNext]_accessVars PROVE AccInv'
    OBVIOUS
  <1>1. CASE AnonymousRequest \/ AnonymousDone
    <2>1. UNCHANGED <<apiKeys, saRows, saTokens, areq, now, saOff>> /\ keyCache' \in BOOLEAN
          /\ anon' \in {"none", "admitted", "readFailed"}
      BY <1>1 DEF AnonymousRequest, AnonymousDone, AccInv, AccessTypeOK, HasAnyAPIKey
    <2> QED
      BY <2>1 DEF AccInv, AccessTypeOK, KeysOK, AccountsOK, AccRequestsOK, AccReqOK
  <1>2. CASE AccessRestart
    <2>1. AccRequestsOK'
      BY <1>2, NoAccReqFacts DEF AccessRestart, AccRequestsOK, AccReqOK, RotateReqOK, MintReqOK
    <2> QED
      BY <1>2, <2>1 DEF AccessRestart, AccInv, AccessTypeOK, KeysOK, AccountsOK
  <1>3. ASSUME NEW q \in AccessReqs, AccessFails(q) PROVE AccInv'
    <2>1. AccReqOK(NoAccReq)
      BY NoAccReqFacts DEF AccReqOK, RotateReqOK, MintReqOK
    <2>2. AccRequestsOK'
      BY <1>3, <2>1, AccReqMoves DEF AccessFails, AccEnd
    <2> QED
      BY <1>3, <2>2 DEF AccessFails, AccInv, AccessTypeOK, KeysOK, AccountsOK
  <1>4. CASE UNCHANGED accessVars
    BY <1>4 DEF accessVars, AccInv, AccessTypeOK, KeysOK, AccountsOK, AccRequestsOK, AccReqOK
  <1> QED
    BY <1>1, <1>2, <1>3, <1>4, CreateKeyInv, DeleteKeyInv, RotateBeginInv, RotateCommitInv, CreateAccountInv,
       RevokeAccountInv, TokenBeginInv, MintInv, AccessTickInv DEF AccessNext

LEMMA AccInvSafe == AccInv => AccessTypeOK /\ RotationRetires /\ RevocationLag /\ EqualRolesEqualVerdicts
  <1> SUFFICES ASSUME AccInv PROVE AccessTypeOK /\ RotationRetires /\ RevocationLag /\ EqualRolesEqualVerdicts
    OBVIOUS
  <1>1. AccessTypeOK
    BY DEF AccInv
  <1>2. RotationRetires
    BY DEF AccInv, KeysOK, RotationRetires, requestKey, GetAPIKeyByHash
  <1>3. RevocationLag
    <2> SUFFICES ASSUME NEW t \in saTokens, saRows[t.acct].st = "off", t.exp >= now
                 PROVE  now <= saOff[t.acct] + TokenTTL
      BY DEF RevocationLag, parseServiceAccountToken
    <2>1. t.acct \in SAccounts /\ t.exp \in Int
      BY AccessAssumption DEF AccInv, AccessTypeOK
    <2>2. now \in Int /\ saOff[t.acct] \in Int /\ TokenTTL \in Int
      BY <2>1, AccessAssumption DEF AccInv, AccessTypeOK
    <2>3. t.exp <= saOff[t.acct] + TokenTTL
      BY DEF AccInv, AccountsOK
    <2> QED
      BY <2>1, <2>2, <2>3
  <1>4. EqualRolesEqualVerdicts
    <2> SUFFICES ASSUME NEW k \in ApiKeyIds, NEW t \in saTokens, NEW get \in BOOLEAN, NEW mgmt \in BOOLEAN,
                        requestKey(k) = k, apiKeys[k].role = t.role
                 PROVE  keyVerdict(k, get, mgmt) <=> tokenRoleVerdict(t.role, get, mgmt)
      BY DEF EqualRolesEqualVerdicts
    <2>0. GetAPIKeyByHash(k) /\ requestKey(k) # NoKey
      BY AccessAssumption DEF requestKey
    <2>1. t.role \in {"admin", "viewer", "inference"}
      BY <2>0, AccessAssumption DEF AccInv, KeysOK, GetAPIKeyByHash
    <2> QED
      BY <2>0, <2>1 DEF keyVerdict, keyRoleVerdict, tokenRoleVerdict
  <1> QED
    BY <1>1, <1>2, <1>3, <1>4

\* A credential that was withdrawn ends, for every set of keys, accounts and requests: the
\* rotation that reads before it writes leaves its predecessor disabled, so that no request
\* is taken for one of it, and a token lives at most its TTL past the revocation
\* (handleRotateAPIKey, rbacMiddleware, handleTokenEndpoint).
THEOREM TenancyCredentials == TenancySpec => []Access_CredentialsHold
  <1>1. TenancyInit => (part = "access" => AccInv)
    BY AccessInitInv DEF TenancyInit
  <1>2. (part = "access" => AccInv) /\ [TenancyNext]_tenancyVars => (part = "access" => AccInv)'
    <2>1. part = "access" /\ [TenancyNext]_tenancyVars => [AccessNext]_accessVars
      BY DEF TenancyNext, tenancyVars
    <2>2. [TenancyNext]_tenancyVars => part' = part
      BY DEF TenancyNext, tenancyVars
    <2> QED
      BY <2>1, <2>2, AccessNextInv
  <1>3. (part = "access" => AccInv) => Access_CredentialsHold
    BY AccInvSafe DEF Access_CredentialsHold
  <1> QED
    BY <1>1, <1>2, <1>3, PTL DEF TenancySpec

\* The gate opens to a request without a credential only while no enabled key exists, or
\* the registry could not be read (rbacMiddleware).
THEOREM TenancyGate == TenancySpec => Access_AnonymousOnlyWithoutKeys
  <1>1. [TenancyNext]_tenancyVars => [part = "access" => AnonymousStep]_accessVars
    <2> SUFFICES ASSUME [TenancyNext]_tenancyVars, part = "access", anon = "none", anon' = "admitted"
                 PROVE  ~HasAnyAPIKey
      BY DEF AnonymousStep
    <2>1. [AccessNext]_accessVars
      BY DEF TenancyNext, tenancyVars
    <2>2. AnonymousRequest
      BY <2>1 DEF AccessNext, accessVars, handleCreateAPIKey, handleDeleteAPIKey, handleRotateAPIKey, RotateCommit,
           handleCreateServiceAccount, handleRevokeServiceAccount, handleTokenEndpoint, MintToken, AnonymousDone,
           AccessRestart, AccessFails, Tick
    <2> QED
      BY <2>2 DEF AnonymousRequest
  <1> QED
    BY <1>1, PTL DEF TenancySpec, Access_AnonymousOnlyWithoutKeys

-----------------------------------------------------------------------------
(***************************************************************************)
(* Organizations and teams.  What is needed beyond the properties: a       *)
(* request in flight is about an organization, a user and a role there     *)
(* are, and a team role is one that the handlers write.                    *)
(***************************************************************************)
UpdateReqOK(r) ==
    /\ r.op \in {"removeMember", "addMember"} => r.org \in OrgIds /\ r.user \in Users /\ r.role \in {"org_admin", "member"}
    /\ r.op = "createOrg" => r.slug \in Names
    /\ r.op = "createTeam" => r.org \in OrgIds
    /\ r.op = "setTeamRole" => r.team \in TeamIds /\ r.user \in Users /\ r.role \in MemberRoles

TeamRoles == MemberRoles \cup {NoMember}

OrgInv ==
    /\ orgs \in [OrgIds -> Names \cup {NoOrg, Gone}]
    /\ DOMAIN teams = TeamIds
    /\ DOMAIN orgMembers = OrgIds /\ \A o \in OrgIds : DOMAIN orgMembers[o] = Users
    /\ teamMembers \in [TeamIds -> [Users -> TeamRoles]]
    /\ DOMAIN oreq = OrgReqs /\ \A q \in OrgReqs : UpdateReqOK(oreq[q])
    /\ member \subseteq OrgIds \X Users
    /\ \A t \in TeamIds : GetTeam(t) => teams[t].org \in OrgIds
    /\ TeamHasOrg /\ SlugsUnique /\ MembershipKept

\* The part of the invariant that the requests and the membership rows make up.
MembersInv ==
    /\ DOMAIN orgMembers = OrgIds /\ \A o \in OrgIds : DOMAIN orgMembers[o] = Users
    /\ DOMAIN oreq = OrgReqs /\ \A q \in OrgReqs : UpdateReqOK(oreq[q])
    /\ member \subseteq OrgIds \X Users
    /\ MembershipKept

LEMMA NoReqFacts == NoReq.op = "none" /\ UpdateReqOK(NoReq)
  BY DEF NoReq, UpdateReqOK

LEMMA OrgInitInv == OrgInit => OrgInv
  <1> SUFFICES ASSUME OrgInit PROVE OrgInv
    OBVIOUS
  <1> USE DEF OrgInit
  <1>1. \A t \in TeamIds : ~GetTeam(t)
    BY DEF GetTeam, NoOrg
  <1>2. orgs \in [OrgIds -> Names \cup {NoOrg, Gone}] /\ teamMembers \in [TeamIds -> [Users -> TeamRoles]]
    BY DEF TeamRoles
  <1>3. TeamHasOrg /\ SlugsUnique /\ MembershipKept
    BY <1>1 DEF TeamHasOrg, SlugsUnique, MembershipKept, GetOrganization
  <1>4. \A q \in OrgReqs : UpdateReqOK(oreq[q])
    BY NoReqFacts
  <1> QED
    BY <1>1, <1>2, <1>3, <1>4 DEF OrgInv

\* A request moves to r and neither it nor the step is the second half of a member update.
LEMMA OrgRequestMoves ==
    ASSUME OrgInv, NEW q \in OrgReqs, NEW r, UpdateReqOK(r), oreq' = [oreq EXCEPT ![q] = r],
           oreq[q].op # "addMember", UNCHANGED <<orgMembers, member>>
    PROVE  MembersInv'
  <1>1. /\ DOMAIN oreq' = OrgReqs /\ oreq'[q] = r /\ \A x \in OrgReqs : x # q => oreq'[x] = oreq[x]
    BY DEF OrgInv
  <1>2. \A x \in OrgReqs : UpdateReqOK(oreq'[x])
    BY <1>1 DEF OrgInv
  <1>3. MembershipKept'
    BY <1>1 DEF OrgInv, MembershipKept, GetOrgMember, ReqAt
  <1> QED
    BY <1>1, <1>2, <1>3 DEF OrgInv, MembersInv

\* The rest of the invariant, when the tables of organizations and teams stay.
LEMMA OrgTablesStay ==
    ASSUME OrgInv, MembersInv', UNCHANGED <<orgs, teams>>, teamMembers' \in [TeamIds -> [Users -> TeamRoles]]
    PROVE  OrgInv'
  BY DEF OrgInv, MembersInv, TeamHasOrg, SlugsUnique, GetTeam, GetOrganization

LEMMA OrgChecksInv ==
    ASSUME OrgInv, NEW q \in OrgReqs, OrgChecks(q)
    PROVE  OrgInv'
  <1>1. /\ UNCHANGED <<orgs, teams, roles, orgMembers, teamMembers, member>>
        /\ teamMembers' \in [TeamIds -> [Users -> TeamRoles]]
    BY DEF OrgChecks, OrgInv
  <1>2. ASSUME NEW r, UpdateReqOK(r), Begin(q, r) PROVE OrgInv'
    <2>1. oreq[q].op # "addMember" /\ oreq' = [oreq EXCEPT ![q] = r]
      BY <1>2, NoReqFacts DEF Begin, ReqIdle
    <2> QED
      BY <1>1, <1>2, <2>1, OrgRequestMoves, OrgTablesStay
  <1>3. ASSUME NEW slug \in Names, handleCreateOrg(q, slug) PROVE OrgInv'
    <2>1. UpdateReqOK([op |-> "createOrg", slug |-> slug])
      BY DEF UpdateReqOK
    <2> QED
      BY <1>2, <1>3, <2>1 DEF handleCreateOrg
  <1>4. ASSUME NEW o, handleDeleteOrg(q, o) PROVE OrgInv'
    <2>1. UpdateReqOK([op |-> "deleteOrg", org |-> o])
      BY DEF UpdateReqOK
    <2> QED
      BY <1>2, <1>4, <2>1 DEF handleDeleteOrg
  <1>5. ASSUME NEW o \in OrgIds, NEW slug \in Names, handleCreateTeam(q, o, slug) PROVE OrgInv'
    <2>1. UpdateReqOK([op |-> "createTeam", org |-> o, slug |-> slug])
      BY DEF UpdateReqOK
    <2> QED
      BY <1>2, <1>5, <2>1 DEF handleCreateTeam
  <1>6. ASSUME NEW t, handleDeleteTeam(q, t) PROVE OrgInv'
    <2>1. UpdateReqOK([op |-> "deleteTeam", team |-> t])
      BY DEF UpdateReqOK
    <2> QED
      BY <1>2, <1>6, <2>1 DEF handleDeleteTeam
  <1>7. ASSUME NEW o \in OrgIds, NEW u \in Users, NEW r \in {"org_admin", "member"}, handleUpdateOrgMember(q, o, u, r)
        PROVE  OrgInv'
    <2>1. UpdateReqOK([op |-> "removeMember", org |-> o, user |-> u, role |-> r])
      BY DEF UpdateReqOK
    <2> QED
      BY <1>2, <1>7, <2>1 DEF handleUpdateOrgMember
  <1>8. ASSUME NEW t \in TeamIds, NEW u \in Users, NEW r \in MemberRoles, handleUpdateTeamMember(q, t, u, r)
        PROVE  OrgInv'
    <2>1. UpdateReqOK([op |-> "setTeamRole", team |-> t, user |-> u, role |-> r])
      BY DEF UpdateReqOK
    <2> QED
      BY <1>2, <1>8, <2>1 DEF handleUpdateTeamMember
  <1>9. ASSUME NEW o, NEW name, NEW ps, handleCreateRole(q, o, name, ps) PROVE OrgInv'
    <2>1. UpdateReqOK([op |-> "createRole", org |-> o, name |-> name, perms |-> ps])
      BY DEF UpdateReqOK
    <2> QED
      BY <1>2, <1>9, <2>1 DEF handleCreateRole
  <1>10. ASSUME NEW o, NEW r, NEW ps, handleUpdateRole(q, o, r, ps) PROVE OrgInv'
    <2>1. UpdateReqOK([op |-> "updateRole", org |-> o, role |-> r, perms |-> ps])
      BY DEF UpdateReqOK
    <2> QED
      BY <1>2, <1>10, <2>1 DEF handleUpdateRole
  <1>11. ASSUME NEW o, NEW r, handleDeleteRole(q, o, r) PROVE OrgInv'
    <2>1. UpdateReqOK([op |-> "deleteRole", org |-> o, role |-> r])
      BY DEF UpdateReqOK
    <2> QED
      BY <1>2, <1>11, <2>1 DEF handleDeleteRole
  <1> QED
    BY <1>3, <1>4, <1>5, <1>6, <1>7, <1>8, <1>9, <1>10, <1>11 DEF OrgChecks

\* A write that answers and is no member update leaves the memberships alone.
LEMMA OrgAnswerInv ==
    ASSUME OrgInv, NEW q \in OrgReqs, Answer(q), oreq[q].op # "addMember", UNCHANGED <<orgMembers, member>>
    PROVE  MembersInv'
  BY NoReqFacts, OrgRequestMoves DEF Answer

LEMMA OrgWritesInv ==
    ASSUME OrgInv, NEW q \in OrgReqs, OrgWrites(q)
    PROVE  OrgInv'
  <1>1. UNCHANGED <<roles, orgMembers, teamMembers, member>> /\ oreq[q].op # "addMember" /\ Answer(q)
    BY DEF OrgWrites, ReqAt
  <1>2. MembersInv'
    BY <1>1, OrgAnswerInv
  <1>3. orgs \in [OrgIds -> Names \cup {NoOrg, Gone}] /\ DOMAIN teams = TeamIds
    BY DEF OrgInv
  <1> DEFINE Tables ==
        /\ orgs' \in [OrgIds -> Names \cup {NoOrg, Gone}] /\ DOMAIN teams' = TeamIds
        /\ (\A t \in TeamIds : GetTeam(t) => teams[t].org \in OrgIds)'
        /\ TeamHasOrg' /\ SlugsUnique'
  <1>4. ASSUME NEW o \in OrgIds, NEW slug \in Names, orgs[o] = NoOrg, CreateOrganization(o, slug), UNCHANGED teams
        PROVE  Tables
    <2>1. orgs' = [orgs EXCEPT ![o] = slug] /\ \A p \in OrgIds : orgs[p] # slug
      BY <1>4 DEF CreateOrganization, GetOrganizationBySlug
    <2>2. \A p \in OrgIds : orgs[p] \notin {NoOrg, Gone} => p # o /\ orgs'[p] = orgs[p]
      BY <1>3, <1>4, <2>1
    <2>3. TeamHasOrg' /\ (\A t \in TeamIds : GetTeam(t) => teams[t].org \in OrgIds)'
      BY <1>4, <2>2 DEF OrgInv, TeamHasOrg, GetTeam, GetOrganization
    <2>4. SlugsUnique'
      BY <1>3, <2>1 DEF OrgInv, SlugsUnique, GetOrganization
    <2> QED
      BY <1>3, <1>4, <2>1, <2>3, <2>4
  <1>5. ASSUME NEW o, DeleteOrganization(o) PROVE Tables
    <2>1. /\ orgs' = [orgs EXCEPT ![o] = Gone]
          /\ teams' = [t \in TeamIds |-> IF teams[t].org = o THEN [org |-> Gone] ELSE teams[t]]
      BY <1>5 DEF DeleteOrganization
    <2>2. [org |-> Gone].org = Gone
      OBVIOUS
    <2>3. ASSUME NEW t \in TeamIds, GetTeam(t)'
          PROVE  /\ GetTeam(t) /\ teams'[t] = teams[t] /\ teams[t].org # o
                 /\ teams[t].org \in OrgIds /\ GetOrganization(teams[t].org)
      <3>1. teams[t].org # o /\ teams'[t] = teams[t]
        BY <2>1, <2>2, <2>3 DEF GetTeam
      <3> QED
        BY <2>3, <3>1 DEF GetTeam, OrgInv, TeamHasOrg
    <2>4. TeamHasOrg' /\ (\A t \in TeamIds : GetTeam(t) => teams[t].org \in OrgIds)'
      BY <1>3, <2>1, <2>3 DEF TeamHasOrg, GetOrganization
    <2>5. SlugsUnique'
      BY <1>3, <2>1 DEF OrgInv, SlugsUnique, GetOrganization
    <2> QED
      BY <1>3, <2>1, <2>4, <2>5
  <1>6. ASSUME NEW t \in TeamIds, NEW o \in OrgIds, NEW slug, CreateTeam(t, o, slug), UNCHANGED orgs PROVE Tables
    <2> DEFINE row == [org |-> o, slug |-> slug]
    <2>1. teams' = [teams EXCEPT ![t] = row] /\ GetOrganization(o) /\ row.org = o
      BY <1>6 DEF CreateTeam
    <2> HIDE DEF row
    <2>2. TeamHasOrg' /\ (\A x \in TeamIds : GetTeam(x) => teams[x].org \in OrgIds)'
      BY <1>3, <1>6, <2>1 DEF OrgInv, TeamHasOrg, GetTeam, GetOrganization
    <2>3. SlugsUnique'
      BY <1>6 DEF OrgInv, SlugsUnique, GetOrganization
    <2> QED
      BY <1>3, <1>6, <2>1, <2>2, <2>3
  <1>7. ASSUME NEW t, DeleteTeam(t), UNCHANGED orgs PROVE Tables
    <2> DEFINE row == [org |-> Gone]
    <2>1. teams' = [teams EXCEPT ![t] = row] /\ row.org = Gone
      BY <1>7 DEF DeleteTeam
    <2> HIDE DEF row
    <2>2. TeamHasOrg' /\ (\A x \in TeamIds : GetTeam(x) => teams[x].org \in OrgIds)'
      BY <1>3, <1>7, <2>1 DEF OrgInv, TeamHasOrg, GetTeam, GetOrganization
    <2>3. SlugsUnique'
      BY <1>7 DEF OrgInv, SlugsUnique, GetOrganization
    <2> QED
      BY <1>3, <1>7, <2>1, <2>2, <2>3
  <1>8. Tables
    <2>1. oreq[q].op = "createOrg" => oreq[q].slug \in Names
      BY DEF OrgInv, UpdateReqOK
    <2>2. oreq[q].op = "createTeam" => oreq[q].org \in OrgIds
      BY DEF OrgInv, UpdateReqOK
    <2> QED
      BY <1>4, <1>5, <1>6, <1>7, <2>1, <2>2 DEF OrgWrites, ReqAt
  <1> QED
    BY <1>1, <1>2, <1>8 DEF OrgInv, MembersInv

LEMMA RoleWritesInv ==
    ASSUME OrgInv, NEW q \in OrgReqs, RoleWrites(q) \/ UpdateTeamMemberWrite(q)
    PROVE  OrgInv'
  <1>1. UNCHANGED <<orgs, teams, orgMembers, member>> /\ oreq[q].op # "addMember" /\ Answer(q)
    BY DEF RoleWrites, UpdateTeamMemberWrite, ReqAt
  <1>2. teamMembers' \in [TeamIds -> [Users -> TeamRoles]]
    <2>1. CASE RoleWrites(q)
      BY <2>1 DEF RoleWrites, OrgInv
    <2>2. CASE UpdateTeamMemberWrite(q)
      <3>1. PICK t \in TeamIds, u \in Users, r \in MemberRoles : teamMembers' = [teamMembers EXCEPT ![t][u] = r]
        BY <2>2 DEF UpdateTeamMemberWrite, ReqAt, AddTeamMember, OrgInv, UpdateReqOK
      <3> QED
        BY <3>1 DEF OrgInv, TeamRoles
    <2> QED
      BY <2>1, <2>2
  <1> QED
    BY <1>1, <1>2, OrgAnswerInv, OrgTablesStay

LEMMA UpdateMemberRemoveInv ==
    ASSUME OrgInv, NEW q \in OrgReqs, UpdateMemberRemove(q)
    PROVE  OrgInv'
  <1>1. PICK o \in OrgIds, u \in Users :
          o = oreq[q].org /\ u = oreq[q].user /\ oreq[q].role \in {"org_admin", "member"}
    BY DEF UpdateMemberRemove, ReqAt, OrgInv, UpdateReqOK
  <1>2. /\ orgMembers' = [orgMembers EXCEPT ![o][u] = NoMember]
        /\ oreq' = [oreq EXCEPT ![q].op = "addMember"]
        /\ UNCHANGED <<orgs, teams, roles, teamMembers, member>>
    BY <1>1 DEF UpdateMemberRemove, RemoveOrgMember
  <1> DEFINE r == [oreq[q] EXCEPT !.op = "addMember"]
  <1>3. DOMAIN oreq' = OrgReqs /\ oreq'[q] = r /\ \A x \in OrgReqs : x # q => oreq'[x] = oreq[x]
    BY <1>2 DEF OrgInv
  <1>4. r.op = "addMember" /\ r.org = o /\ r.user = u /\ r.role = oreq[q].role
    BY <1>1 DEF UpdateMemberRemove, ReqAt
  <1> HIDE DEF r
  <1>5. UpdateReqOK(r)
    BY <1>1, <1>4 DEF UpdateReqOK
  <1>6. \A x \in OrgReqs : UpdateReqOK(oreq'[x])
    BY <1>3, <1>5 DEF OrgInv
  <1>7. /\ DOMAIN orgMembers' = OrgIds /\ \A x \in OrgIds : DOMAIN orgMembers'[x] = Users
        /\ \A x \in OrgIds, v \in Users : x # o \/ v # u => orgMembers'[x][v] = orgMembers[x][v]
    BY <1>2 DEF OrgInv
  <1>8. ASSUME NEW m \in member'
        PROVE  \/ GetOrgMember(m[1], m[2])'
               \/ \E p \in OrgReqs : ReqAt(p, "addMember")' /\ oreq'[p].org = m[1] /\ oreq'[p].user = m[2]
    <2>1. m \in member /\ m[1] \in OrgIds /\ m[2] \in Users
      BY <1>2 DEF OrgInv
    <2>2. CASE m[1] = o /\ m[2] = u
      BY <1>3, <1>4, <2>2 DEF ReqAt
    <2>3. CASE m[1] # o \/ m[2] # u
      <3>1. CASE GetOrgMember(m[1], m[2])
        BY <1>7, <2>1, <2>3, <3>1 DEF GetOrgMember
      <3>2. CASE ~GetOrgMember(m[1], m[2])
        <4>1. PICK p \in OrgReqs : ReqAt(p, "addMember") /\ oreq[p].org = m[1] /\ oreq[p].user = m[2]
          BY <2>1, <3>2 DEF OrgInv, MembershipKept
        <4>2. p # q
          BY <4>1 DEF UpdateMemberRemove, ReqAt
        <4> QED
          BY <1>3, <4>1, <4>2 DEF ReqAt
      <3> QED
        BY <3>1, <3>2
    <2> QED
      BY <2>2, <2>3
  <1>9. MembershipKept'
    BY <1>8 DEF MembershipKept
  <1>10. MembersInv'
    BY <1>2, <1>3, <1>6, <1>7, <1>9 DEF MembersInv, OrgInv
  <1> QED
    BY <1>2, <1>10, OrgTablesStay DEF OrgInv

\* A membership is written: with it, the promise holds for one more, and a request that ends
\* here was about this one.
LEMMA MemberWritten ==
    ASSUME OrgInv, NEW o \in OrgIds, NEW u \in Users, NEW r \in {"org_admin", "member"},
           AddOrgMember(o, u, r), member' = member \cup {<<o, u>>},
           DOMAIN oreq' = OrgReqs, \A x \in OrgReqs : UpdateReqOK(oreq'[x]),
           \A x \in OrgReqs : oreq'[x] = oreq[x] \/ oreq[x].op # "addMember" \/ (oreq[x].org = o /\ oreq[x].user = u)
    PROVE  MembersInv'
  <1>1. /\ DOMAIN orgMembers' = OrgIds /\ \A x \in OrgIds : DOMAIN orgMembers'[x] = Users
        /\ \A x \in OrgIds, v \in Users : GetOrgMember(x, v) => GetOrgMember(x, v)'
        /\ GetOrgMember(o, u)'
    BY DEF OrgInv, AddOrgMember, GetOrgMember, NoMember
  <1>2. ASSUME NEW m \in member'
        PROVE  \/ GetOrgMember(m[1], m[2])'
               \/ \E p \in OrgReqs : ReqAt(p, "addMember")' /\ oreq'[p].org = m[1] /\ oreq'[p].user = m[2]
    <2>1. CASE m = <<o, u>>
      BY <1>1, <2>1
    <2>2. CASE m # <<o, u>>
      <3>1. m \in member /\ m \in OrgIds \X Users /\ m[1] \in OrgIds /\ m[2] \in Users
        BY <2>2 DEF OrgInv
      <3>2. m[1] # o \/ m[2] # u
        BY <2>2, <3>1
      <3> QED
        BY <1>1, <3>1, <3>2 DEF OrgInv, MembershipKept, ReqAt
    <2> QED
      BY <2>1, <2>2
  <1>3. MembershipKept'
    BY <1>2 DEF MembershipKept
  <1>4. member' \subseteq OrgIds \X Users
    BY DEF OrgInv
  <1> QED
    BY <1>1, <1>3, <1>4 DEF MembersInv

LEMMA UpdateMemberAddInv ==
    ASSUME OrgInv, NEW q \in OrgReqs, UpdateMemberAdd(q)
    PROVE  OrgInv'
  <1>1. PICK o \in OrgIds, u \in Users, r \in {"org_admin", "member"} :
          o = oreq[q].org /\ u = oreq[q].user /\ r = oreq[q].role
    BY DEF UpdateMemberAdd, ReqAt, OrgInv, UpdateReqOK
  <1>2. /\ AddOrgMember(o, u, r) /\ member' = member \cup {<<o, u>>}
        /\ oreq' = [oreq EXCEPT ![q] = NoReq] /\ UNCHANGED <<orgs, teams, roles, teamMembers>>
    BY <1>1 DEF UpdateMemberAdd, Answer
  <1>3. /\ DOMAIN oreq' = OrgReqs /\ \A x \in OrgReqs : UpdateReqOK(oreq'[x])
        /\ \A x \in OrgReqs : oreq'[x] = oreq[x] \/ x = q
    BY <1>2, NoReqFacts DEF OrgInv
  <1>4. MembersInv'
    BY <1>1, <1>2, <1>3, MemberWritten
  <1> QED
    BY <1>2, <1>4, OrgTablesStay DEF OrgInv

LEMMA AddOrgMemberInv ==
    ASSUME OrgInv, NEW o \in OrgIds, NEW u \in Users, NEW r \in {"org_admin", "member"}, handleAddOrgMember(o, u, r)
    PROVE  OrgInv'
  <1>1. MembersInv'
    BY MemberWritten DEF handleAddOrgMember, OrgInv
  <1> QED
    BY <1>1, OrgTablesStay DEF handleAddOrgMember, OrgInv

LEMMA RemoveOrgMemberInv ==
    ASSUME OrgInv, NEW o \in OrgIds, NEW u \in Users, handleRemoveOrgMember(o, u)
    PROVE  OrgInv'
  <1>1. /\ orgMembers' = [orgMembers EXCEPT ![o][u] = NoMember] /\ member' = member \ {<<o, u>>}
        /\ UNCHANGED <<orgs, teams, roles, teamMembers, oreq>>
    BY DEF handleRemoveOrgMember, RemoveOrgMember
  <1>2. /\ DOMAIN orgMembers' = OrgIds /\ \A x \in OrgIds : DOMAIN orgMembers'[x] = Users
        /\ \A x \in OrgIds, v \in Users : x # o \/ v # u => orgMembers'[x][v] = orgMembers[x][v]
    BY <1>1 DEF OrgInv
  <1>3. ASSUME NEW m \in member'
        PROVE  \/ GetOrgMember(m[1], m[2])'
               \/ \E p \in OrgReqs : ReqAt(p, "addMember")' /\ oreq'[p].org = m[1] /\ oreq'[p].user = m[2]
    <2>1. m \in member /\ m \in OrgIds \X Users /\ m # <<o, u>>
      BY <1>1 DEF OrgInv
    <2>2. m[1] \in OrgIds /\ m[2] \in Users /\ (m[1] # o \/ m[2] # u)
      BY <2>1
    <2> QED
      BY <1>1, <1>2, <2>1, <2>2 DEF OrgInv, MembershipKept, ReqAt, GetOrgMember
  <1>4. MembershipKept'
    BY <1>3 DEF MembershipKept
  <1>5. MembersInv'
    BY <1>1, <1>2, <1>4 DEF MembersInv, OrgInv
  <1> QED
    BY <1>1, <1>5, OrgTablesStay DEF OrgInv

LEMMA RequestFailsInv ==
    ASSUME OrgInv, NEW q \in OrgReqs, RequestFails(q)
    PROVE  OrgInv'
  <1>1. /\ oreq' = [oreq EXCEPT ![q] = NoReq]
        /\ member' = IF oreq[q].op = "addMember" THEN member \ {<<oreq[q].org, oreq[q].user>>} ELSE member
        /\ UNCHANGED <<orgs, teams, roles, orgMembers, teamMembers>>
    BY DEF RequestFails, Answer, ReqAt
  <1>2. CASE oreq[q].op # "addMember"
    BY <1>1, <1>2, OrgRequestMoves, NoReqFacts, OrgTablesStay DEF OrgInv
  <1>3. CASE oreq[q].op = "addMember"
    <2>1. PICK o \in OrgIds, u \in Users : o = oreq[q].org /\ u = oreq[q].user
      BY <1>3 DEF OrgInv, UpdateReqOK
    <2>2. /\ DOMAIN oreq' = OrgReqs /\ \A x \in OrgReqs : UpdateReqOK(oreq'[x])
          /\ \A x \in OrgReqs : x # q => oreq'[x] = oreq[x]
      BY <1>1, NoReqFacts DEF OrgInv
    <2>3. ASSUME NEW m \in member'
          PROVE  \/ GetOrgMember(m[1], m[2])'
                 \/ \E p \in OrgReqs : ReqAt(p, "addMember")' /\ oreq'[p].org = m[1] /\ oreq'[p].user = m[2]
      <3>1. m \in member /\ m \in OrgIds \X Users /\ m # <<o, u>>
        BY <1>1, <1>3, <2>1 DEF OrgInv
      <3>2. m[1] # o \/ m[2] # u
        BY <3>1
      <3>3. CASE GetOrgMember(m[1], m[2])
        BY <1>1, <3>3 DEF GetOrgMember
      <3>4. CASE ~GetOrgMember(m[1], m[2])
        <4>1. PICK p \in OrgReqs : ReqAt(p, "addMember") /\ oreq[p].org = m[1] /\ oreq[p].user = m[2]
          BY <3>1, <3>4 DEF OrgInv, MembershipKept
        <4> QED
          BY <2>1, <2>2, <3>2, <4>1 DEF ReqAt
      <3> QED
        BY <3>3, <3>4
    <2>4. MembershipKept'
      BY <2>3 DEF MembershipKept
    <2>5. MembersInv'
      BY <1>1, <2>2, <2>4 DEF MembersInv, OrgInv
    <2> QED
      BY <1>1, <2>5, OrgTablesStay DEF OrgInv
  <1> QED
    BY <1>2, <1>3

LEMMA TeamMembersInv ==
    ASSUME OrgInv, NEW t \in TeamIds, NEW u \in Users,
           (\E r \in MemberRoles : handleAddTeamMember(t, u, r)) \/ handleRemoveTeamMember(t, u)
    PROVE  OrgInv'
  <1>1. PICK r \in TeamRoles : teamMembers' = [teamMembers EXCEPT ![t][u] = r]
    BY DEF handleAddTeamMember, AddTeamMember, handleRemoveTeamMember, RemoveTeamMember, TeamRoles
  <1>2. UNCHANGED <<orgs, teams, roles, orgMembers, oreq, member>>
    BY DEF handleAddTeamMember, handleRemoveTeamMember
  <1>3. teamMembers' \in [TeamIds -> [Users -> TeamRoles]]
    BY <1>1 DEF OrgInv
  <1>4. MembersInv'
    BY <1>2 DEF OrgInv, MembersInv, MembershipKept, GetOrgMember, ReqAt
  <1> QED
    BY <1>2, <1>3, <1>4, OrgTablesStay

LEMMA OrgNextInv == OrgInv /\ [OrgNext]_orgVars => OrgInv'
  <1> SUFFICES ASSUME OrgInv, [OrgNext]_orgVars PROVE OrgInv'
    OBVIOUS
  <1>1. CASE UNCHANGED orgVars
    <2>1. MembersInv'
      BY <1>1 DEF orgVars, OrgInv, MembersInv, MembershipKept, GetOrgMember, ReqAt
    <2> QED
      BY <1>1, <2>1, OrgTablesStay DEF orgVars, OrgInv
  <1> QED
    BY <1>1, OrgChecksInv, OrgWritesInv, RoleWritesInv, UpdateMemberRemoveInv, UpdateMemberAddInv, RequestFailsInv,
       AddOrgMemberInv, RemoveOrgMemberInv, TeamMembersInv DEF OrgNext

\* Has asks one permission at a time.
LEMMA HasUnion == \A A, B, p : Has(A \cup B, p) <=> Has(A, p) \/ Has(B, p)
  BY DEF Has

\* What a key may do in its team comes from the team's own organization.
LEMMA OrgInvApart == OrgInv => TenantsApart
  <1> SUFFICES ASSUME OrgInv, NEW k \in OrgKeys, NEW p \in routePermission, checkPermission(k, p),
                      k.role # "admin", ~Has(legacyRolePerms(k.role), p)
               PROVE  /\ GetTeam(k.tenant) /\ GetOrganization(teams[k.tenant].org)
                      /\ \/ \E r \in RoleIds : roles[r].org = teams[k.tenant].org /\ Has(roles[r].perms, p)
                         \/ orgMembers[teams[k.tenant].org][k.id] = "org_admin" /\ Has(SystemRoles.org_admin, p)
                         \/ \E r \in DOMAIN SystemRoles : teamMembers[k.tenant][k.id] = r /\ Has(SystemRoles[r], p)
    BY DEF TenantsApart
  <1>1. k.tenant \in TeamIds /\ Has(GetEffectivePermissions(k.id, k.tenant), p)
    BY DEF checkPermission, resolvePermissions
  <1>2. GetTeam(k.tenant)
    BY <1>1 DEF GetEffectivePermissions, Has
  <1>g. GetOrganization(teams[k.tenant].org)
    BY <1>1, <1>2 DEF OrgInv, TeamHasOrg
  <1> DEFINE o == teams[k.tenant].org
             r == teamMembers[k.tenant][k.id]
             A == IF orgMembers[o][k.id] = "org_admin" THEN SystemRoles.org_admin ELSE {}
             B == IF GetCustomRole(o, r) THEN roles[r].perms ELSE IF r \in DOMAIN SystemRoles THEN SystemRoles[r] ELSE {}
  <1>3. Has(A, p) \/ Has(B, p)
    BY <1>1, <1>2, HasUnion DEF GetEffectivePermissions
  <1>5. ~Has({}, p)
    BY DEF Has
  <1>6. CASE Has(A, p)
    BY <1>2, <1>5, <1>6, <1>g
  <1>7. CASE Has(B, p) /\ GetCustomRole(o, r)
    BY <1>2, <1>7, <1>g DEF GetCustomRole
  <1>8. CASE Has(B, p) /\ ~GetCustomRole(o, r)
    BY <1>2, <1>5, <1>8, <1>g
  <1> QED
    BY <1>3, <1>6, <1>7, <1>8

\* For every set of ids, names, users and keys: requests that check first and write later
\* leave no team without its organization, no two organizations with one slug and no
\* membership lost, and what a key may do beyond its role comes from its own organization or
\* from a built-in role it was given in its own team (handleCreateTeam,
\* handleUpdateOrgMember, handleAddTeamMember, GetEffectivePermissions).
THEOREM TenancyOrgs == TenancySpec => []Orgs_TenancyIntact
  <1>1. TenancyInit => (part = "orgs" => OrgInv)
    BY OrgInitInv DEF TenancyInit
  <1>2. (part = "orgs" => OrgInv) /\ [TenancyNext]_tenancyVars => (part = "orgs" => OrgInv)'
    <2>1. part = "orgs" /\ [TenancyNext]_tenancyVars => [OrgNext]_orgVars
      BY DEF TenancyNext, tenancyVars
    <2>2. [TenancyNext]_tenancyVars => part' = part
      BY DEF TenancyNext, tenancyVars
    <2> QED
      BY <2>1, <2>2, OrgNextInv
  <1>3. (part = "orgs" => OrgInv) => Orgs_TenancyIntact
    BY OrgInvApart DEF Orgs_TenancyIntact, OrgInv
  <1> QED
    BY <1>1, <1>2, <1>3, PTL DEF TenancySpec

-----------------------------------------------------------------------------
(***************************************************************************)
(* Directory groups.  Before the searches of a level are answered, what    *)
(* was seen are the groups within its depth; in between, those and the     *)
(* parents of the groups already asked about.                              *)
(***************************************************************************)
WalkRec == [at: {"start", "nested", "done", "failed"}, seen: SUBSET LGroups, dns: SUBSET LGroups,
            new: SUBSET LGroups, depth: Nat, cut: BOOLEAN]

LevelInv(w) ==
    /\ w.depth < LDepth
    /\ Within(w.depth) \subseteq w.seen /\ w.seen \subseteq Within(w.depth + 1)
    /\ w.new = w.seen \ Within(w.depth)
    /\ w.dns \subseteq Within(w.depth)
    /\ \A g \in Within(w.depth) \ w.dns : parents[g] \subseteq w.seen

GroupsInv ==
    /\ direct \subseteq LGroups /\ parents \in [LGroups -> SUBSET LGroups]
    /\ walk \in WalkRec
    /\ walk.at = "start" => walk.depth = 0 /\ walk.new = {} /\ ~walk.cut
    /\ walk.at = "nested" => LevelInv(walk) /\ ~walk.cut
    /\ walk.at = "done" => walk.seen \subseteq Within(LDepth)
    /\ walk.at = "done" /\ ~walk.cut => walk.seen = Within(LDepth)

LEMMA WithinZero == direct \subseteq LGroups => Within(0) = direct
  <1> SUFFICES ASSUME direct \subseteq LGroups PROVE Within(0) = direct
    OBVIOUS
  <1>1. ASSUME NEW g \in direct PROVE g \in Within(0)
    <2> DEFINE s == [i \in 0..0 |-> g]
    <2>1. s \in [0..0 -> LGroups] /\ s[0] = g
      OBVIOUS
    <2>2. s \in Chains(0)
      BY <2>1 DEF Chains
    <2> QED
      BY <2>1, <2>2 DEF Within
  <1>2. Within(0) \subseteq direct
    BY DEF Within, Chains
  <1> QED
    BY <1>1, <1>2

LEMMA WithinGrows == \A m, n \in Nat : m <= n => Within(m) \subseteq Within(n)
  BY DEF Within

\* One nesting more.
LEMMA WithinStep ==
    ASSUME NEW n \in Nat, parents \in [LGroups -> SUBSET LGroups]
    PROVE  /\ \A g \in Within(n) : parents[g] \subseteq Within(n + 1)
           /\ \A x \in Within(n + 1) : x \in Within(n) \/ \E g \in Within(n) : x \in parents[g]
  <1>1. ASSUME NEW g \in Within(n), NEW x \in parents[g] PROVE x \in Within(n + 1)
    <2>0. PICK k \in 0..n : \E c \in Chains(k) : c[k] = g
      BY DEF Within
    <2>1. PICK s \in Chains(k) : s[k] = g
      BY <2>0
    <2>2. s \in [0..k -> LGroups] /\ s[0] \in direct /\ \A i \in 1..k : s[i] \in parents[s[i - 1]]
      BY DEF Chains
    <2>3. x \in LGroups /\ k \in Nat /\ k + 1 \in 0..(n + 1)
      BY <2>1, <2>2
    <2> DEFINE t == [i \in 0..(k + 1) |-> IF i = k + 1 THEN x ELSE s[i]]
    <2>4. t \in [0..(k + 1) -> LGroups]
      BY <2>2, <2>3
    <2>5. t[k + 1] = x /\ t[0] = s[0] /\ \A i \in 0..k : t[i] = s[i]
      BY <2>3
    <2> HIDE DEF t
    <2>6. ASSUME NEW i \in 1..(k + 1) PROVE t[i] \in parents[t[i - 1]]
      <3>1. CASE i = k + 1
        BY <2>1, <2>3, <2>5, <3>1
      <3>2. CASE i # k + 1
        <4>1. i \in 1..k /\ i \in 0..k /\ i - 1 \in 0..k
          BY <2>3, <3>2
        <4> QED
          BY <2>2, <2>5, <4>1
      <3> QED
        BY <3>1, <3>2
    <2>7. t \in Chains(k + 1)
      BY <2>2, <2>4, <2>5, <2>6 DEF Chains
    <2> QED
      BY <2>3, <2>5, <2>7 DEF Within
  <1>2. ASSUME NEW x \in Within(n + 1) PROVE x \in Within(n) \/ \E g \in Within(n) : x \in parents[g]
    <2>0. PICK k \in 0..(n + 1) : \E c \in Chains(k) : c[k] = x
      BY DEF Within
    <2>1. PICK s \in Chains(k) : s[k] = x
      BY <2>0
    <2>2. s \in [0..k -> LGroups] /\ s[0] \in direct /\ \A i \in 1..k : s[i] \in parents[s[i - 1]]
      BY DEF Chains
    <2>3. CASE k <= n
      BY <2>1, <2>3 DEF Within
    <2>4. CASE k = n + 1
      <3> DEFINE t == [i \in 0..n |-> s[i]]
      <3>1. t \in [0..n -> LGroups] /\ \A i \in 0..n : t[i] = s[i]
        BY <2>2, <2>4
      <3> HIDE DEF t
      <3>2. ASSUME NEW i \in 1..n PROVE t[i] \in parents[t[i - 1]]
        <4>1. i \in 1..k /\ i \in 0..n /\ i - 1 \in 0..n
          BY <2>4
        <4> QED
          BY <2>2, <3>1, <4>1
      <3>3. t \in Chains(n)
        BY <2>2, <3>1, <3>2 DEF Chains
      <3>4. t[n] = s[n] /\ s[n] \in LGroups
        BY <2>2, <2>4, <3>1
      <3>5. s[n] \in Within(n)
        BY <3>3, <3>4 DEF Within
      <3>6. x \in parents[s[n]]
        BY <2>1, <2>2, <2>4
      <3> QED
        BY <3>5, <3>6
    <2> QED
      BY <2>3, <2>4
  <1> QED
    BY <1>1, <1>2

\* Once a level adds nothing, no deeper one does: the first group of a chain that left it
\* would be a parent of a group in it.
LEMMA WithinClosed ==
    ASSUME NEW d \in Nat, NEW n \in Nat, d <= n, direct \subseteq LGroups,
           \A g \in Within(d) : parents[g] \subseteq Within(d)
    PROVE  Within(n) = Within(d)
  <1>1. direct \subseteq Within(d)
    BY WithinZero, WithinGrows
  <1>2. ASSUME NEW x \in Within(n) PROVE x \in Within(d)
    <2>0. PICK k \in 0..n : \E c \in Chains(k) : c[k] = x
      BY DEF Within
    <2>1. PICK s \in Chains(k) : s[k] = x
      BY <2>0
    <2>2. s \in [0..k -> LGroups] /\ s[0] \in direct /\ \A i \in 1..k : s[i] \in parents[s[i - 1]]
      BY DEF Chains
    <2> DEFINE T == {i \in 0..k : s[i] \notin Within(d)}
               R == OpToRel(<, Nat)
    <2>3. SUFFICES ASSUME T # {} PROVE FALSE
      BY <2>1
    <2>4a. IsWellFoundedOn(R, Nat)
      BY NatLessThanWellFounded
    <2> HIDE DEF R
    <2>4. IsWellFoundedOn(R, Nat) /\ T \subseteq Nat
      BY <2>4a
    <2>5. PICK i \in T : \A j \in T : ~(<<j, i>> \in R)
      BY <2>3, <2>4, WFMin
    <2>6. \A j \in T : ~(j < i)
      BY <2>4, <2>5 DEF R, OpToRel
    <2>7. i # 0
      BY <1>1, <2>2
    <2>8. i \in 1..k /\ i - 1 \in 0..k /\ i - 1 < i
      BY <2>7
    <2>9. s[i - 1] \in Within(d)
      BY <2>6, <2>8
    <2> QED
      BY <2>2, <2>8, <2>9
  <1>3. Within(d) \subseteq Within(n)
    BY WithinGrows
  <1> QED
    BY <1>2, <1>3

LEMMA GroupsInitInv == GroupsInit => GroupsInv
  <1> SUFFICES ASSUME GroupsInit PROVE GroupsInv
    OBVIOUS
  <1>1. /\ walk \in WalkRec /\ walk.at = "start" /\ walk.depth = 0 /\ walk.new = {} /\ walk.cut = FALSE
    BY DEF GroupsInit, WalkRec
  <1> QED
    BY <1>1 DEF GroupsInit, GroupsInv

LEMMA SearchGroupsInv == GroupsInv /\ searchGroups => GroupsInv'
  <1> SUFFICES ASSUME GroupsInv, searchGroups PROVE GroupsInv'
    OBVIOUS
  <1>1. /\ direct \subseteq LGroups /\ parents \in [LGroups -> SUBSET LGroups] /\ UNCHANGED <<direct, parents>>
        /\ walk \in WalkRec /\ walk.depth = 0 /\ walk.new = {} /\ walk.cut = FALSE /\ LDepth \in Nat
    BY GroupsAssumption DEF GroupsInv, searchGroups, WalkRec
  <1>2. \A n : Within(n)' = Within(n)
    BY <1>1 DEF Within, Chains
  <1>3. Within(0) = direct /\ Within(0) \subseteq Within(0 + 1)
    BY <1>1, WithinZero, WithinGrows
  <1>4. CASE walk' = [walk EXCEPT !.at = "failed"]
    <2>1. walk' \in WalkRec /\ walk'.at = "failed"
      BY <1>1, <1>4 DEF WalkRec
    <2> QED
      BY <1>1, <2>1 DEF GroupsInv
  <1>5. CASE direct = {} \/ LDepth = 0
    <2>1. \/ walk' = [walk EXCEPT !.at = "failed"]
          \/ walk' = [walk EXCEPT !.at = "done", !.seen = direct, !.dns = direct]
      BY <1>5 DEF searchGroups
    <2>2. CASE walk' = [walk EXCEPT !.at = "done", !.seen = direct, !.dns = direct]
      <3>1. walk' \in WalkRec /\ walk'.at = "done" /\ walk'.seen = direct /\ walk'.cut = FALSE
        BY <1>1, <2>2 DEF WalkRec
      <3>2. Within(LDepth) = direct
        BY <1>1, <1>3, <1>5, WithinClosed
      <3> QED
        BY <1>1, <1>2, <3>1, <3>2 DEF GroupsInv
    <2> QED
      BY <1>4, <2>1, <2>2
  <1>6. CASE walk' = [walk EXCEPT !.at = "nested", !.seen = direct, !.dns = direct] /\ LDepth # 0
    <2>1. /\ walk' \in WalkRec /\ walk'.at = "nested" /\ walk'.seen = direct /\ walk'.dns = direct
          /\ walk'.new = {} /\ walk'.depth = 0 /\ walk'.cut = FALSE
      BY <1>1, <1>6 DEF WalkRec
    <2>2. LevelInv(walk)'
      BY <1>1, <1>2, <1>3, <1>6, <2>1 DEF LevelInv
    <2> QED
      BY <1>1, <2>1, <2>2 DEF GroupsInv
  <1> QED
    BY <1>4, <1>5, <1>6 DEF searchGroups

LEMMA NestedFacts ==
    ASSUME GroupsInv, walk.at = "nested"
    PROVE  /\ walk \in WalkRec /\ LevelInv(walk) /\ walk.cut = FALSE /\ walk.depth \in Nat /\ LDepth \in Nat
           /\ Within(walk.depth + 1) \subseteq Within(LDepth)
  <1>1. walk \in WalkRec /\ LevelInv(walk) /\ walk.cut = FALSE /\ walk.depth \in Nat /\ LDepth \in Nat
    BY GroupsAssumption DEF GroupsInv, WalkRec
  <1>2. walk.depth + 1 \in Nat /\ walk.depth + 1 <= LDepth
    BY <1>1 DEF LevelInv
  <1> QED
    BY <1>1, <1>2, WithinGrows

LEMMA SearchParentGroupsInv ==
    ASSUME GroupsInv, NEW dn \in LGroups, searchParentGroups(dn)
    PROVE  GroupsInv'
  <1>1. /\ direct \subseteq LGroups /\ parents \in [LGroups -> SUBSET LGroups] /\ UNCHANGED <<direct, parents>>
        /\ walk.at = "nested" /\ dn \in walk.dns
        /\ walk' = [walk EXCEPT !.dns = @ \ {dn}, !.seen = @ \cup parents[dn], !.new = @ \cup (parents[dn] \ walk.seen)]
    BY DEF GroupsInv, searchParentGroups
  <1>2. walk \in WalkRec /\ LevelInv(walk) /\ walk.cut = FALSE /\ walk.depth \in Nat
    BY <1>1, NestedFacts
  <1>3. /\ walk' \in WalkRec /\ walk'.at = "nested" /\ walk'.cut = FALSE /\ walk'.depth = walk.depth
        /\ walk'.dns = walk.dns \ {dn} /\ walk'.seen = walk.seen \cup parents[dn]
        /\ walk'.new = walk.new \cup (parents[dn] \ walk.seen)
    BY <1>1, <1>2 DEF WalkRec
  <1>4. \A n : Within(n)' = Within(n)
    BY <1>1 DEF Within, Chains
  <1>5. parents[dn] \subseteq Within(walk.depth + 1)
    BY <1>1, <1>2, WithinStep DEF LevelInv
  <1>6. LevelInv(walk)'
    BY <1>1, <1>2, <1>3, <1>4, <1>5 DEF LevelInv
  <1> QED
    BY <1>1, <1>3, <1>6 DEF GroupsInv

LEMMA NestedSearchFailsInv == GroupsInv /\ NestedSearchFails => GroupsInv'
  <1> SUFFICES ASSUME GroupsInv, NestedSearchFails PROVE GroupsInv'
    OBVIOUS
  <1>1. /\ direct \subseteq LGroups /\ parents \in [LGroups -> SUBSET LGroups] /\ UNCHANGED <<direct, parents>>
        /\ walk.at = "nested" /\ walk' = [walk EXCEPT !.at = "done", !.cut = TRUE]
    BY DEF GroupsInv, NestedSearchFails
  <1>2. walk \in WalkRec /\ LevelInv(walk) /\ Within(walk.depth + 1) \subseteq Within(LDepth)
    BY <1>1, NestedFacts
  <1>3. walk' \in WalkRec /\ walk'.at = "done" /\ walk'.cut = TRUE /\ walk'.seen = walk.seen
    BY <1>1, <1>2 DEF WalkRec
  <1>4. \A n : Within(n)' = Within(n)
    BY <1>1 DEF Within, Chains
  <1> QED
    BY <1>1, <1>2, <1>3, <1>4 DEF GroupsInv, LevelInv

LEMMA NextLevelInv == GroupsInv /\ NextLevel => GroupsInv'
  <1> SUFFICES ASSUME GroupsInv, NextLevel PROVE GroupsInv'
    OBVIOUS
  <1> DEFINE d == walk.depth
             last == walk.new = {} \/ d + 1 >= LDepth
             goal == IF last THEN "done" ELSE "nested"
  <1>1. /\ direct \subseteq LGroups /\ parents \in [LGroups -> SUBSET LGroups] /\ UNCHANGED <<direct, parents>>
        /\ walk.at = "nested" /\ walk.dns = {}
        /\ walk' = [walk EXCEPT !.depth = d + 1, !.dns = walk.new, !.new = {}, !.at = goal]
    BY DEF GroupsInv, NextLevel
  <1>2. walk \in WalkRec /\ LevelInv(walk) /\ walk.cut = FALSE /\ d \in Nat /\ LDepth \in Nat
    BY <1>1, NestedFacts
  <1>2a. goal \in {"start", "nested", "done", "failed"} /\ d + 1 \in Nat
    BY <1>2
  <1>3. /\ walk' \in WalkRec /\ walk'.at = goal /\ walk'.cut = FALSE
        /\ walk'.depth = d + 1 /\ walk'.dns = walk.new /\ walk'.seen = walk.seen /\ walk'.new = {}
    <2> HIDE DEF goal
    <2> QED
      BY <1>1, <1>2, <1>2a DEF WalkRec
  <1>4. \A n : Within(n)' = Within(n)
    BY <1>1 DEF Within, Chains
  <1>5. walk.seen = Within(d + 1)
    BY <1>1, <1>2, WithinStep DEF LevelInv
  <1>6. CASE last
    <2>1. Within(LDepth) = Within(d + 1)
      <3>1. CASE walk.new = {}
        <4>1. Within(d + 1) = Within(d) /\ \A g \in Within(d) : parents[g] \subseteq Within(d)
          BY <1>1, <1>2, <1>5, <3>1 DEF LevelInv
        <4> QED
          BY <1>1, <1>2, <4>1, WithinClosed DEF LevelInv
      <3>2. CASE d + 1 >= LDepth
        <4>1. d + 1 = LDepth
          BY <1>2, <3>2 DEF LevelInv
        <4> QED
          BY <4>1
      <3> QED
        BY <1>6, <3>1, <3>2
    <2> QED
      BY <1>1, <1>3, <1>4, <1>5, <1>6, <2>1 DEF GroupsInv
  <1>7. CASE ~last
    <2>1. d + 1 \in Nat /\ d + 1 < LDepth
      BY <1>2, <1>7
    <2>2. Within(d + 1) \subseteq Within(d + 1 + 1)
      BY <2>1, WithinGrows
    <2>3. \A g \in Within(d + 1) \ walk.new : parents[g] \subseteq walk.seen
      BY <1>1, <1>2, <1>5 DEF LevelInv
    <2>4. walk.new \subseteq Within(d + 1)
      BY <1>2, <1>5 DEF LevelInv
    <2>5. LevelInv(walk)'
      BY <1>1, <1>3, <1>4, <1>5, <2>1, <2>2, <2>3, <2>4 DEF LevelInv
    <2> QED
      BY <1>1, <1>3, <1>7, <2>5 DEF GroupsInv
  <1> QED
    BY <1>6, <1>7

LEMMA GroupsNextInv == GroupsInv /\ [GroupsNext]_groupVars => GroupsInv'
  <1> SUFFICES ASSUME GroupsInv, UNCHANGED groupVars PROVE GroupsInv'
    BY SearchGroupsInv, SearchParentGroupsInv, NestedSearchFailsInv, NextLevelInv DEF GroupsNext
  <1>1. \A n : Within(n)' = Within(n)
    BY DEF groupVars, Within, Chains
  <1> QED
    BY <1>1 DEF groupVars, GroupsInv, LevelInv

LEMMA BestRole ==
    ASSUME NEW S \in SUBSET LRoles
    PROVE  Best(S) \in S \cup {"none"} /\ \A x \in S : priority[x] <= priority[Best(S)]
  <1>1. /\ priority["admin"] = 3 /\ priority["viewer"] = 2 /\ priority["inference"] = 1 /\ priority["none"] = 0
    BY DEF priority, LRoles
  <1>2. \A x \in LRoles : x = "admin" \/ x = "viewer" \/ x = "inference" \/ x = "none"
    BY DEF LRoles
  <1>3. \E r \in S \cup {"none"} : \A x \in S : priority[x] <= priority[r]
    <2>1. CASE "admin" \in S
      BY <1>1, <1>2, <2>1
    <2>2. CASE "admin" \notin S /\ "viewer" \in S
      BY <1>1, <1>2, <2>2
    <2>3. CASE "admin" \notin S /\ "viewer" \notin S /\ "inference" \in S
      BY <1>1, <1>2, <2>3
    <2>4. CASE "admin" \notin S /\ "viewer" \notin S /\ "inference" \notin S
      BY <1>1, <1>2, <2>4
    <2> QED
      BY <2>1, <2>2, <2>3, <2>4
  <1> QED
    BY <1>3 DEF Best

LEMMA GroupsInvRole == GroupsInv => RoleIsDirectorys
  <1> SUFFICES ASSUME GroupsInv, walk.at = "done", walk.cut
               PROVE  priority[resolveRole(walk.seen).role] <= priority[Best({resolveRole(Within(LDepth)).role, DefaultRole})]
    BY DEF RoleIsDirectorys, GroupsInv, WalkRec
  <1> DEFINE roles1(G) == {DNRole[g] : g \in G} \cup {NameRole[g] : g \in G}
             W == Within(LDepth)
             given == resolveRole(walk.seen).role
             due == resolveRole(W).role
  <1>1. walk.seen \subseteq W /\ W \subseteq LGroups
    BY DEF GroupsInv, Within
  <1>2. roles1(walk.seen) \subseteq roles1(W) /\ roles1(W) \subseteq LRoles
    BY <1>1, GroupsAssumption
  <1>3. priority \in [LRoles -> 0..3] /\ \A x \in LRoles : priority[x] = 0 => x = "none"
    BY DEF priority, LRoles
  <1>4. PICK a \in LRoles, b \in LRoles : a = Best(roles1(walk.seen)) /\ b = Best(roles1(W))
    BY <1>2, BestRole DEF LRoles
  <1>5. priority[a] <= priority[b]
    <2>0. roles1(walk.seen) \in SUBSET LRoles /\ roles1(W) \in SUBSET LRoles
      BY <1>2
    <2>1. a \in roles1(walk.seen) \cup {"none"} /\ \A x \in roles1(W) : priority[x] <= priority[b]
      <3> HIDE DEF roles1, W
      <3> QED
        BY <1>4, <2>0, BestRole
    <2>2. a = "none" \/ a \in roles1(W)
      BY <1>2, <2>1
    <2>3. priority["none"] = 0 /\ priority[b] \in 0..3
      BY <1>3 DEF priority, LRoles
    <2> QED
      BY <2>1, <2>2, <2>3
  <1>6. priority["none"] = 0
    BY DEF priority, LRoles
  <1>7. given \in LRoles /\ due \in LRoles /\ DefaultRole \in LRoles
    BY <1>4, GroupsAssumption DEF resolveRole, LRoles
  <1>8. \/ given = "none" \/ given = DefaultRole
        \/ given = a /\ a # "none" /\ (b # "none" => due = b)
    BY <1>4 DEF resolveRole
  <1>9. a # "none" => b # "none"
    BY <1>3, <1>5, <1>6
  <1>10. priority[given] <= priority[due] \/ given = DefaultRole
    BY <1>3, <1>5, <1>6, <1>7, <1>8, <1>9
  <1>11. {due, DefaultRole} \in SUBSET LRoles
    BY <1>7
  <1>12. /\ priority[due] <= priority[Best({due, DefaultRole})]
         /\ priority[DefaultRole] <= priority[Best({due, DefaultRole})]
         /\ Best({due, DefaultRole}) \in LRoles
    BY <1>7, <1>11, BestRole DEF LRoles
  <1> HIDE DEF given, due
  <1>13. priority[given] <= priority[Best({due, DefaultRole})]
    BY <1>3, <1>7, <1>10, <1>12
  <1> QED
    BY <1>13 DEF given, due

\* For every directory, cyclic ones included, every depth and every mapping: a login that
\* finishes has the role of the groups within that depth, and one whose search was cut short
\* has no better one (searchGroups, searchParentGroups, resolveRole).
THEOREM TenancyGroups == TenancySpec => []LdapGroups_RoleIsDirectorys
  <1>1. TenancyInit => (part = "groups" => GroupsInv)
    BY GroupsInitInv DEF TenancyInit
  <1>2. (part = "groups" => GroupsInv) /\ [TenancyNext]_tenancyVars => (part = "groups" => GroupsInv)'
    <2>1. part = "groups" /\ [TenancyNext]_tenancyVars => [GroupsNext]_groupVars
      BY DEF TenancyNext, tenancyVars
    <2>2. [TenancyNext]_tenancyVars => part' = part
      BY DEF TenancyNext, tenancyVars
    <2> QED
      BY <2>1, <2>2, GroupsNextInv
  <1>3. (part = "groups" => GroupsInv) => LdapGroups_RoleIsDirectorys
    BY GroupsInvRole DEF LdapGroups_RoleIsDirectorys
  <1> QED
    BY <1>1, <1>2, <1>3, PTL DEF TenancySpec
-----------------------------------------------------------------------------
(***************************************************************************)
(* The two logs.  A table is determined row by row, its backup too, and a  *)
(* transaction whose table has not changed since it read the tail holds    *)
(* the row that extends it.                                                *)
(***************************************************************************)
IsSeq(s) == s \in Seq({s[i] : i \in DOMAIN s})

\* The audit table: the rows from before the chain, then the chain.
Numbered(s) ==
    /\ IsSeq(s) /\ Legacy <= Len(s)
    /\ \A i \in 1..Len(s) : s[i].seq = IF i <= Legacy THEN NoSeq ELSE i - Legacy

Linked(s, i) ==
    /\ s[i].prev = IF i = Legacy + 1 THEN GenesisPrevHash ELSE s[i - 1].hash
    /\ s[i].hash = ComputeHash(s[i])

AuditTable(s) == Numbered(s) /\ Len(s) <= MaxAudit /\ \A i \in (Legacy + 1)..Len(s) : Linked(s, i)

InfFields(r) == r = [seq |-> r.seq, prev |-> r.prev, req |-> r.req, key |-> r.key, hash |-> r.hash]

\* A row of the inference log, as long as it is not erased, is the one that was hashed.
InfRow(s, i) ==
    /\ InfFields(s[i])
    /\ s[i].req \in InfRequests /\ s[i].key \in KeyHashes \cup {ERASED}
    /\ s[i].seq = i
    /\ s[i].prev = IF i = 1 THEN GenesisPrevHash ELSE s[i - 1].hash
    /\ s[i].key # ERASED => s[i].hash = canonicalInferenceEventBytes(s[i])

InfTable(s) ==
    /\ IsSeq(s)
    /\ \A i \in 1..Len(s) : InfRow(s, i)
    /\ \A i, j \in 1..Len(s) : s[i].req = s[j].req => i = j

LedgerEvents == AuditEvents \cup {"gdpr.erasure.completed"}

AuditTx(t, s) ==
    /\ t.base \in 0..Len(s)
    /\ t.base = Len(s) => Len(s) < MaxAudit /\ \E ev \in LedgerEvents : t.row = NextEntry(Chained(s), ev)

InfTx(t, s) ==
    /\ InfFields(t.row)
    /\ t.base \in 0..Len(s) /\ t.row.req \in InfRequests /\ t.row.key \in KeyHashes
    /\ t.row.hash = canonicalInferenceEventBytes(t.row)
    /\ t.base = Len(s) => /\ t.row.seq = Len(s) + 1
                          /\ t.row.prev = IF Len(s) = 0 THEN GenesisPrevHash ELSE s[Len(s)].hash

TxOK(t, a, s) ==
    /\ t.log \in {"none", "audit", "inference", "erasure"}
    /\ t.log = "audit" => AuditTx(t, a)
    /\ t.log = "inference" => InfTx(t, s)
    /\ t.log = "erasure" => t.key \in KeyHashes

TxInv == DOMAIN tx = Writers /\ \A w \in Writers : TxOK(tx[w], entries, inf)

PageOK(p, n) ==
    /\ p \in [cursor: 0..n, got: Seq(Nat), upto: 0..n, done: BOOLEAN]
    /\ p.got = Ids(0, Len(p.got))
    /\ IF p.done THEN Len(p.got) >= p.upto ELSE Len(p.got) = p.cursor

BackupInv ==
    backup # NoBackup => AuditTable(backup.audit) /\ InfTable(backup.inf) /\ backup.gdpr \subseteq KeyHashes

LedgerInv ==
    /\ AuditTable(entries) /\ InfTable(inf) /\ TxInv /\ PageOK(page, Len(inf)) /\ BackupInv
    /\ acked \subseteq Recorded(inf) /\ erasures \subseteq KeyHashes

LEMMA SeqFacts ==
    ASSUME NEW s, IsSeq(s)
    PROVE  Len(s) \in Nat /\ DOMAIN s = 1..Len(s) /\ s = [i \in 1..Len(s) |-> s[i]]
  BY DEF IsSeq

LEMMA FunIsSeq ==
    ASSUME NEW n \in Nat, NEW s, s = [i \in 1..n |-> s[i]]
    PROVE  IsSeq(s) /\ Len(s) = n
  <1>1. DOMAIN s = 1..n
    OBVIOUS
  <1>2. s \in [1..n -> {s[i] : i \in DOMAIN s}]
    BY <1>1
  <1> QED
    BY <1>2 DEF IsSeq

LEMMA AppendFacts ==
    ASSUME NEW s, IsSeq(s), NEW e
    PROVE  /\ IsSeq(Append(s, e)) /\ Len(Append(s, e)) = Len(s) + 1
           /\ Append(s, e)[Len(s) + 1] = e
           /\ \A i \in 1..Len(s) : Append(s, e)[i] = s[i]
  <1> DEFINE T == {s[i] : i \in DOMAIN s} \cup {e}
             a == Append(s, e)
  <1>1. Len(s) \in Nat /\ DOMAIN s = 1..Len(s) /\ s = [i \in 1..Len(s) |-> s[i]]
    BY SeqFacts
  <1>2. s \in [1..Len(s) -> T]
    BY <1>1
  <1> HIDE DEF T
  <1>3. s \in Seq(T) /\ e \in T
    BY <1>1, <1>2 DEF T
  <1>4. a \in Seq(T) /\ Len(a) = Len(s) + 1 /\ a[Len(s) + 1] = e /\ \A i \in 1..Len(s) : a[i] = s[i]
    BY <1>3
  <1>5. \A t \in Seq(T) : t = [i \in 1..Len(t) |-> t[i]]
    OBVIOUS
  <1> HIDE DEF a
  <1>6. IsSeq(a)
    BY <1>1, <1>4, <1>5, FunIsSeq
  <1> QED
    BY <1>4, <1>6 DEF a

\* Two sequences with the same rows are the same.
LEMMA SameSeq ==
    ASSUME NEW s, NEW t, IsSeq(s), IsSeq(t), Len(s) = Len(t), \A i \in 1..Len(s) : s[i] = t[i]
    PROVE  s = t
  BY SeqFacts

\* The chain is what follows the rows from before it.
LEMMA ChainedTable ==
    ASSUME NEW s, Numbered(s)
    PROVE  /\ IsSeq(Chained(s)) /\ Len(Chained(s)) = Len(s) - Legacy /\ Len(s) - Legacy \in Nat
           /\ \A k \in 1..(Len(s) - Legacy) : Chained(s)[k] = s[k + Legacy]
  <1> DEFINE n == Len(s)
             at == InChain(s)
  <1>1. n \in Nat /\ Legacy \in Nat /\ n - Legacy \in Nat
    BY SeqFacts, LedgerAssumption DEF Numbered
  <1>2. at = (Legacy + 1)..n
    BY <1>1 DEF InChain, Numbered, FirstSeq, NoSeq
  <1> HIDE DEF n, at
  <1>3. Cardinality(at) = n - Legacy
    <2>1. Cardinality((Legacy + 1)..n) = IF Legacy + 1 > n THEN 0 ELSE n - (Legacy + 1) + 1
      BY <1>1, FS_Interval
    <2> QED
      BY <1>1, <1>2, <2>1
  <1>4. \A i \in at : Cardinality({j \in at : j <= i}) = i - Legacy
    <2> SUFFICES ASSUME NEW i \in at PROVE Cardinality({j \in at : j <= i}) = i - Legacy
      OBVIOUS
    <2>1. {j \in at : j <= i} = (Legacy + 1)..i
      BY <1>1, <1>2
    <2>2. Cardinality((Legacy + 1)..i) = IF Legacy + 1 > i THEN 0 ELSE i - (Legacy + 1) + 1
      BY <1>1, <1>2, FS_Interval
    <2>3. i \in Nat /\ ~(Legacy + 1 > i) /\ i - (Legacy + 1) + 1 = i - Legacy
      BY <1>1, <1>2
    <2>4. Cardinality((Legacy + 1)..i) = i - Legacy
      BY <2>2, <2>3
    <2> QED
      BY <2>1, <2>4
  <1>5. Chained(s) = [k \in 1..(n - Legacy) |-> s[CHOOSE i \in at : Cardinality({j \in at : j <= i}) = k]]
    BY <1>3 DEF Chained, at
  <1>6. ASSUME NEW k \in 1..(n - Legacy)
        PROVE  (CHOOSE i \in at : Cardinality({j \in at : j <= i}) = k) = k + Legacy
    <2>1. k + Legacy \in at /\ (k + Legacy) - Legacy = k
      BY <1>1, <1>2
    <2>2. Cardinality({j \in at : j <= k + Legacy}) = k
      BY <1>4, <2>1
    <2>3. \E i \in at : Cardinality({j \in at : j <= i}) = k
      BY <2>1, <2>2
    <2> DEFINE c == CHOOSE i \in at : Cardinality({j \in at : j <= i}) = k
    <2>4. c \in at /\ Cardinality({j \in at : j <= c}) = k
      BY <2>3
    <2> HIDE DEF c
    <2>5. c - Legacy = k
      BY <1>4, <2>4
    <2>6. c = k + Legacy
      BY <1>1, <1>2, <2>4, <2>5
    <2> QED
      BY <2>6 DEF c
  <1>7. Chained(s) = [k \in 1..(n - Legacy) |-> s[k + Legacy]]
    BY <1>5, <1>6
  <1>8. IsSeq(Chained(s)) /\ Len(Chained(s)) = n - Legacy
    <2>1. Chained(s) = [k \in 1..(n - Legacy) |-> Chained(s)[k]]
      BY <1>7
    <2> QED
      BY <1>1, <2>1, FunIsSeq
  <1> QED
    BY <1>1, <1>7, <1>8 DEF n

\* The row that Append of the abstract log would make, field by field.
LEMMA NextRow ==
    ASSUME NEW s, AuditTable(s), NEW ev
    PROVE  LET r == NextEntry(Chained(s), ev) IN
           /\ r.seq = Len(s) - Legacy + 1
           /\ r.prev = IF Len(s) = Legacy THEN GenesisPrevHash ELSE s[Len(s)].hash
           /\ r.event = ev /\ r.hash = ComputeHash(r)
  <1> DEFINE c == Chained(s)
             m == Len(s) - Legacy
             r == NextEntry(c, ev)
  <1>1. /\ IsSeq(c) /\ Len(c) = m /\ m \in Nat /\ Len(s) \in Nat /\ Legacy \in Nat
        /\ \A k \in 1..m : c[k] = s[k + Legacy]
    BY ChainedTable, SeqFacts, LedgerAssumption DEF AuditTable, Numbered
  <1>2. c = <<>> <=> m = 0
    <2>1. c = [i \in 1..Len(c) |-> c[i]]
      BY <1>1, SeqFacts
    <2>2. m = 0 => c = <<>>
      BY <1>1, <2>1
    <2> QED
      BY <1>1, <2>2
  <1>3. m # 0 => c[Len(c)] = s[Len(s)] /\ s[Len(s)].seq = m
    <2> SUFFICES ASSUME m # 0 PROVE c[Len(c)] = s[Len(s)] /\ s[Len(s)].seq = m
      OBVIOUS
    <2>1. m \in 1..m /\ m + Legacy = Len(s) /\ Len(s) \in 1..Len(s) /\ ~(Len(s) <= Legacy)
      BY <1>1
    <2>2. c[m] = s[Len(s)]
      BY <1>1, <2>1
    <2> QED
      BY <1>1, <2>1, <2>2 DEF AuditTable, Numbered
  <1> HIDE DEF c
  <1>4. /\ r.seq = IF c = <<>> THEN FirstSeq ELSE c[Len(c)].seq + 1
        /\ r.prev = IF c = <<>> THEN GenesisPrevHash ELSE c[Len(c)].hash
        /\ r.event = ev /\ r.hash = ComputeHash(r)
    BY DEF NextEntry, ComputeHash, CanonicalBytes
  <1> HIDE DEF r
  <1>5. r.seq = m + 1
    BY <1>1, <1>2, <1>3, <1>4 DEF FirstSeq
  <1>6. m = 0 <=> Len(s) = Legacy
    BY <1>1
  <1> QED
    BY <1>2, <1>3, <1>4, <1>5, <1>6 DEF r, c

\* Inserting it extends the table, and the chain by that row.
LEMMA AuditAppend ==
    ASSUME NEW s, AuditTable(s), Len(s) < MaxAudit, NEW ev, NEW r, r = NextEntry(Chained(s), ev)
    PROVE  AuditTable(Append(s, r)) /\ Chained(Append(s, r)) = Append(Chained(s), r)
  <1> DEFINE a == Append(s, r)
             n == Len(s)
  <1>0. IsSeq(s) /\ n \in Nat /\ Legacy \in Nat /\ MaxAudit \in Nat /\ Legacy <= n
    BY SeqFacts, LedgerAssumption DEF AuditTable, Numbered
  <1>1. IsSeq(a) /\ Len(a) = n + 1 /\ a[n + 1] = r /\ \A i \in 1..n : a[i] = s[i]
    BY <1>0, AppendFacts
  <1>2. /\ r.seq = n - Legacy + 1
        /\ r.prev = IF n = Legacy THEN GenesisPrevHash ELSE s[n].hash
        /\ r.hash = ComputeHash(r)
    BY NextRow
  <1> HIDE DEF a
  <1>3. Numbered(a)
    <2> SUFFICES ASSUME NEW i \in 1..(n + 1)
                 PROVE  a[i].seq = IF i <= Legacy THEN NoSeq ELSE i - Legacy
      BY <1>0, <1>1 DEF Numbered
    <2>1. CASE i = n + 1
      BY <1>0, <1>1, <1>2, <2>1
    <2>2. CASE i \in 1..n
      BY <1>1, <2>2 DEF AuditTable, Numbered
    <2> QED
      BY <1>0, <2>1, <2>2
  <1>4. ASSUME NEW i \in (Legacy + 1)..(n + 1) PROVE Linked(a, i)
    <2>1. CASE i = n + 1
      <3>1. n # Legacy => n \in 1..n
        BY <1>0
      <3> QED
        BY <1>0, <1>1, <1>2, <2>1, <3>1 DEF Linked
    <2>2. CASE i \in (Legacy + 1)..n
      <3>1. Linked(s, i) /\ i \in 1..n /\ (i # Legacy + 1 => i - 1 \in 1..n)
        BY <1>0, <2>2 DEF AuditTable
      <3> QED
        BY <1>1, <3>1 DEF Linked
    <2> QED
      BY <1>0, <2>1, <2>2
  <1>5. AuditTable(a)
    BY <1>0, <1>1, <1>3, <1>4 DEF AuditTable
  <1>6. Chained(a) = Append(Chained(s), r)
    <2> DEFINE m == n - Legacy
               c == Chained(s)
               b == Append(c, r)
    <2>1. IsSeq(c) /\ Len(c) = m /\ m \in Nat /\ \A k \in 1..m : c[k] = s[k + Legacy]
      BY ChainedTable DEF AuditTable
    <2>2. IsSeq(Chained(a)) /\ Len(Chained(a)) = m + 1 /\ \A k \in 1..(m + 1) : Chained(a)[k] = a[k + Legacy]
      <3>1. Len(a) - Legacy = m + 1
        BY <1>0, <1>1
      <3> QED
        BY <1>3, <3>1, ChainedTable
    <2> HIDE DEF c
    <2>3. IsSeq(b) /\ Len(b) = m + 1 /\ b[m + 1] = r /\ \A k \in 1..m : b[k] = c[k]
      BY <2>1, AppendFacts
    <2> HIDE DEF b
    <2>4. ASSUME NEW k \in 1..(m + 1) PROVE Chained(a)[k] = b[k]
      <3>1. CASE k = m + 1
        BY <1>0, <1>1, <2>2, <2>3, <3>1
      <3>2. CASE k \in 1..m
        <4>1. k + Legacy \in 1..n
          BY <1>0, <3>2
        <4> QED
          BY <1>1, <2>1, <2>2, <2>3, <3>2, <4>1
      <3> QED
        BY <2>1, <3>1, <3>2
    <2>5. Chained(a) = b
      BY <2>2, <2>3, <2>4, SameSeq
    <2> QED
      BY <2>5 DEF b, c
  <1> QED
    BY <1>5, <1>6 DEF a

\* What the endpoint verifies is the table's chain, and it is intact.
LEMMA TableVerifies ==
    ASSUME AuditTable(entries)
    PROVE  AuditVerifies
  <1> DEFINE n == Len(entries)
             rows0 == ListAudit(MaxAudit)
             t == [i \in 1..Len(rows0) |-> ChainEntry(rows0[Len(rows0) + 1 - i])]
  <1>0. /\ IsSeq(entries) /\ n \in Nat /\ Legacy \in Nat /\ Legacy <= n /\ n <= MaxAudit /\ MaxAudit \in Nat
        /\ \A i \in 1..n : entries[i].seq = IF i <= Legacy THEN NoSeq ELSE i - Legacy
    BY SeqFacts, LedgerAssumption DEF AuditTable, Numbered
  <1>1. rows0 = [i \in 1..n |-> entries[n + 1 - i]]
    <2>1. (IF MaxAudit < n THEN MaxAudit ELSE n) = n
      BY <1>0
    <2> QED
      BY <2>1 DEF ListAudit
  <1>2. Len(rows0) = n
    <2>1. rows0 = [i \in 1..n |-> rows0[i]]
      BY <1>1
    <2> QED
      BY <1>0, <2>1, FunIsSeq
  <1>3. t = [i \in 1..n |-> ChainEntry(entries[i])]
    <2>1. \A i \in 1..n : n + 1 - i \in 1..n /\ n + 1 - (n + 1 - i) = i
      BY <1>0
    <2>2. \A i \in 1..n : rows0[n + 1 - i] = entries[i]
      BY <1>1, <2>1
    <2> QED
      BY <1>2, <2>2
  <1> HIDE DEF rows0, t
  <1>4. IsSeq(t) /\ Len(t) = n
    <2>1. t = [i \in 1..n |-> t[i]]
      BY <1>3
    <2> QED
      BY <1>0, <2>1, FunIsSeq
  <1>5. ASSUME NEW i \in 1..n
        PROVE  t[i].seq = entries[i].seq /\ t[i].prev = entries[i].prev /\ t[i].event = entries[i].event /\ t[i].hash = entries[i].hash
    BY <1>3 DEF ChainEntry
  <1>6. Numbered(t)
    BY <1>0, <1>4, <1>5 DEF Numbered
  <1> DEFINE c == Chained(t)
             m == n - Legacy
  <1>7. Len(c) = m /\ m \in Nat /\ \A k \in 1..m : c[k] = t[k + Legacy]
    BY <1>4, <1>6, ChainedTable
  <1>8. Len(Chained(entries)) = m
    BY ChainedTable DEF AuditTable
  <1> HIDE DEF c
  <1>9. Verify(c)
    <2> SUFFICES ASSUME NEW k \in 1..m
                 PROVE  ~KindSeq(c, k) /\ ~KindLink(c, k) /\ ~KindHash(c, k)
      BY <1>7 DEF Verify
    <2>1. k + Legacy \in 1..n /\ k + Legacy \in (Legacy + 1)..n /\ ~(k + Legacy <= Legacy) /\ (k + Legacy) - Legacy = k
      BY <1>0, <1>7
    <2>2. c[k] = t[k + Legacy]
      BY <1>7
    <2>3. Linked(entries, k + Legacy) /\ entries[k + Legacy].seq = k
      BY <1>0, <2>1 DEF AuditTable
    <2>4. c[k].seq = k /\ FirstSeq + (k - 1) = k
      BY <1>0, <1>5, <1>7, <2>1, <2>2, <2>3 DEF FirstSeq
    <2>5. c[k].hash = ComputeHash(c[k])
      BY <1>5, <2>1, <2>2, <2>3 DEF Linked, ComputeHash, CanonicalBytes
    <2>6. c[k].prev = IF k = 1 THEN GenesisPrevHash ELSE c[k - 1].hash
      <3>1. CASE k = 1
        BY <1>0, <1>5, <2>1, <2>2, <2>3, <3>1 DEF Linked
      <3>2. CASE k # 1
        <4>1. k - 1 \in 1..m /\ (k - 1) + Legacy = (k + Legacy) - 1 /\ (k + Legacy) - 1 \in 1..n /\ k + Legacy # Legacy + 1
          BY <1>0, <1>7, <2>1, <3>2
        <4>2. c[k - 1].hash = entries[(k + Legacy) - 1].hash
          BY <1>5, <1>7, <4>1
        <4>3. c[k].prev = entries[(k + Legacy) - 1].hash
          BY <1>5, <2>1, <2>2, <2>3, <4>1 DEF Linked
        <4> QED
          BY <3>2, <4>2, <4>3
      <3> QED
        BY <3>1, <3>2
    <2> QED
      BY <2>4, <2>5, <2>6 DEF KindSeq, KindLink, KindHash
  <1>10. handleEnterpriseAuditLog(MaxAudit) = [length |-> Len(c), verified |-> Verify(c)]
    BY DEF handleEnterpriseAuditLog, rows0, t, c
  <1>11. Verify(c) = TRUE
    BY <1>9 DEF Verify
  <1> QED
    BY <1>7, <1>8, <1>10, <1>11 DEF AuditVerifies

\* Inserting the row a transaction hashed extends the inference log.
LEMMA InfAppend ==
    ASSUME NEW s, InfTable(s), NEW t, InfTx(t, s), t.base = Len(s), t.row.req \notin Recorded(s)
    PROVE  /\ InfTable(Append(s, t.row)) /\ Len(Append(s, t.row)) = Len(s) + 1
           /\ Recorded(s) \subseteq Recorded(Append(s, t.row)) /\ t.row.req \in Recorded(Append(s, t.row))
  <1> DEFINE n == Len(s)
             r == t.row
             a == Append(s, r)
  <1>0. IsSeq(s) /\ n \in Nat
    BY SeqFacts DEF InfTable
  <1>1. IsSeq(a) /\ Len(a) = n + 1 /\ a[n + 1] = r /\ \A i \in 1..n : a[i] = s[i]
    BY <1>0, AppendFacts
  <1>2. /\ InfFields(r) /\ r.req \in InfRequests /\ r.key \in KeyHashes /\ r.hash = canonicalInferenceEventBytes(r)
        /\ r.seq = n + 1 /\ r.prev = IF n = 0 THEN GenesisPrevHash ELSE s[n].hash
    BY DEF InfTx
  <1>3. \A i \in 1..n : s[i].req # r.req
    BY DEF Recorded
  <1> HIDE DEF a, r
  <1>4. ASSUME NEW i \in 1..(n + 1) PROVE InfRow(a, i)
    <2>1. CASE i = n + 1
      <3>1. n # 0 => n \in 1..n /\ i - 1 = n /\ i # 1
        BY <1>0, <2>1
      <3>2. n = 0 => i = 1
        BY <2>1
      <3> QED
        BY <1>0, <1>1, <1>2, <2>1, <3>1, <3>2 DEF InfRow
    <2>2. CASE i \in 1..n
      <3>1. InfRow(s, i) /\ (i # 1 => i - 1 \in 1..n)
        BY <1>0, <2>2 DEF InfTable
      <3> QED
        BY <1>1, <2>2, <3>1 DEF InfRow
    <2> QED
      BY <1>0, <2>1, <2>2
  <1>5. ASSUME NEW i \in 1..(n + 1), NEW j \in 1..(n + 1), a[i].req = a[j].req PROVE i = j
    <2>1. \A k \in 1..(n + 1) : k = n + 1 \/ k \in 1..n
      BY <1>0
    <2> QED
      BY <1>1, <1>3, <1>5, <2>1 DEF InfTable
  <1>6. InfTable(a)
    BY <1>1, <1>4, <1>5 DEF InfTable
  <1>7. Recorded(s) \subseteq Recorded(a) /\ r.req \in Recorded(a)
    <2>1. n + 1 \in 1..Len(a) /\ \A i \in 1..n : i \in 1..Len(a)
      BY <1>0, <1>1
    <2> QED
      BY <1>1, <2>1 DEF Recorded
  <1> QED
    BY <1>1, <1>6, <1>7 DEF a, r

LEMMA ErasedRow ==
    ASSUME NEW r, InfFields(r), NEW e, e = [r EXCEPT !.key = ERASED]
    PROVE  /\ InfFields(e) /\ e.seq = r.seq /\ e.prev = r.prev /\ e.req = r.req
           /\ e.hash = r.hash /\ e.key = ERASED
  <1>1. \A q, p, m, k, h : [[seq |-> q, prev |-> p, req |-> m, key |-> k, hash |-> h] EXCEPT !.key = ERASED]
                            = [seq |-> q, prev |-> p, req |-> m, key |-> ERASED, hash |-> h]
    OBVIOUS
  <1>2. r = [seq |-> r.seq, prev |-> r.prev, req |-> r.req, key |-> r.key, hash |-> r.hash]
    BY DEF InfFields
  <1>3. e = [seq |-> r.seq, prev |-> r.prev, req |-> r.req, key |-> ERASED, hash |-> r.hash]
    BY <1>1, <1>2
  <1> QED
    BY <1>3 DEF InfFields

\* Erasure touches the key of some rows and nothing else.
LEMMA EraseKeeps ==
    ASSUME InfTable(inf), NEW key \in KeyHashes, EraseInferenceEventsBySubject(key)
    PROVE  /\ InfTable(inf') /\ Len(inf') = Len(inf) /\ Recorded(inf') = Recorded(inf)
           /\ \A i \in 1..Len(inf) : inf'[i].hash = inf[i].hash
  <1> DEFINE n == Len(inf)
             f(i) == [inf[i] EXCEPT !.key = ERASED]
  <1>0. IsSeq(inf) /\ n \in Nat
    BY SeqFacts DEF InfTable
  <1>1. inf' = [i \in 1..n |-> IF inf[i].key = key THEN f(i) ELSE inf[i]]
    BY DEF EraseInferenceEventsBySubject
  <1>2. ASSUME NEW i \in 1..n
        PROVE  /\ InfFields(f(i)) /\ f(i).seq = inf[i].seq /\ f(i).prev = inf[i].prev /\ f(i).req = inf[i].req
               /\ f(i).hash = inf[i].hash /\ f(i).key = ERASED
    BY ErasedRow DEF InfTable, InfRow
  <1> HIDE DEF f
  <1>3. IsSeq(inf') /\ Len(inf') = n
    <2>1. inf' = [i \in 1..n |-> inf'[i]]
      BY <1>1
    <2> QED
      BY <1>0, <2>1, FunIsSeq
  <1>4. ASSUME NEW i \in 1..n
        PROVE  /\ InfFields(inf'[i]) /\ inf'[i].seq = inf[i].seq /\ inf'[i].prev = inf[i].prev /\ inf'[i].req = inf[i].req
               /\ inf'[i].hash = inf[i].hash
               /\ inf'[i] = inf[i] \/ inf'[i].key = ERASED
    <2>1. CASE inf[i].key = key
      BY <1>1, <1>2, <2>1
    <2>2. CASE inf[i].key # key
      BY <1>1, <2>2 DEF InfTable, InfRow
    <2> QED
      BY <2>1, <2>2
  <1>5. ASSUME NEW i \in 1..n PROVE InfRow(inf', i)
    <2>1. InfRow(inf, i) /\ (i # 1 => i - 1 \in 1..n)
      BY <1>0 DEF InfTable
    <2>2. inf'[i].prev = IF i = 1 THEN GenesisPrevHash ELSE inf'[i - 1].hash
      BY <1>4, <2>1 DEF InfRow
    <2> QED
      BY <1>4, <2>1, <2>2 DEF InfRow
  <1>6. InfTable(inf')
    BY <1>3, <1>4, <1>5 DEF InfTable
  <1>7. Recorded(inf') = Recorded(inf)
    BY <1>3, <1>4 DEF Recorded
  <1> QED
    BY <1>3, <1>4, <1>6, <1>7

\* The transactions of the others see tables that grew, or kept their rows' hashes.
LEMMA TxAfter ==
    ASSUME NEW t, NEW a, NEW s, TxOK(t, a, s), NEW a2, NEW s2,
           Len(a) \in Nat, Len(a2) \in Nat, Len(s) \in Nat, Len(s2) \in Nat,
           a2 = a \/ Len(a2) = Len(a) + 1,
           \/ Len(s2) = Len(s) /\ (Len(s) # 0 => s2[Len(s)].hash = s[Len(s)].hash)
           \/ Len(s2) = Len(s) + 1
    PROVE  TxOK(t, a2, s2)
  <1>1. t.log = "audit" => AuditTx(t, a2)
    <2>1. CASE a2 = a
      BY <2>1 DEF TxOK
    <2>2. CASE Len(a2) = Len(a) + 1
      BY <2>2 DEF TxOK, AuditTx
    <2> QED
      BY <2>1, <2>2
  <1>2. t.log = "inference" => InfTx(t, s2)
    <2>1. CASE Len(s2) = Len(s) /\ (Len(s) # 0 => s2[Len(s)].hash = s[Len(s)].hash)
      BY <2>1 DEF TxOK, InfTx
    <2>2. CASE Len(s2) = Len(s) + 1
      BY <2>2 DEF TxOK, InfTx
    <2> QED
      BY <2>1, <2>2
  <1> QED
    BY <1>1, <1>2 DEF TxOK

LEMMA NoTxOK == \A a, s : TxOK(NoTx, a, s)
  BY DEF TxOK, NoTx

\* A writer moves on as t; the tables change as above.
LEMMA WriterMoves ==
    ASSUME LedgerInv, NEW w \in Writers, NEW t, SetTx(w, t), TxOK(t, entries', inf'),
           AuditTable(entries'), entries' = entries \/ Len(entries') = Len(entries) + 1,
           InfTable(inf'), Recorded(inf) \subseteq Recorded(inf'),
           \/ Len(inf') = Len(inf) /\ (Len(inf) # 0 => inf'[Len(inf)].hash = inf[Len(inf)].hash)
           \/ Len(inf') = Len(inf) + 1,
           acked' \subseteq Recorded(inf'), erasures' \subseteq KeyHashes, UNCHANGED <<page, backup>>
    PROVE  LedgerInv'
  <1>1. Len(entries) \in Nat /\ Len(entries') \in Nat /\ Len(inf) \in Nat /\ Len(inf') \in Nat
    BY SeqFacts DEF LedgerInv, AuditTable, Numbered, InfTable
  <1>2. tx' = [tx EXCEPT ![w] = t] /\ DOMAIN tx = Writers
    BY DEF SetTx, LedgerInv, TxInv
  <1>3. ASSUME NEW v \in Writers PROVE TxOK(tx'[v], entries', inf')
    <2>1. CASE v = w
      BY <1>2, <2>1
    <2>2. CASE v # w
      <3>1. tx'[v] = tx[v] /\ TxOK(tx[v], entries, inf)
        BY <1>2, <2>2 DEF LedgerInv, TxInv
      <3>2. TxOK(tx[v], entries', inf')
        BY <1>1, <3>1, TxAfter
      <3> QED
        BY <3>1, <3>2
    <2> QED
      BY <2>1, <2>2
  <1>4. TxInv'
    BY <1>2, <1>3 DEF TxInv
  <1>5. PageOK(page', Len(inf'))
    BY <1>1 DEF LedgerInv, PageOK
  <1>6. BackupInv'
    BY DEF LedgerInv, BackupInv
  <1> QED
    BY <1>4, <1>5, <1>6 DEF LedgerInv

\* A step that leaves both tables alone.
LEMMA WriterQuiet ==
    ASSUME LedgerInv, NEW w \in Writers, NEW t, SetTx(w, t), TxOK(t, entries, inf),
           UNCHANGED <<entries, inf, acked, page, backup>>, erasures' \subseteq KeyHashes
    PROVE  LedgerInv'
  BY WriterMoves DEF LedgerInv

LEMMA AuditBegins ==
    ASSUME LedgerInv, Len(entries) < MaxAudit, NEW ev \in LedgerEvents
    PROVE  TxOK([log |-> "audit", row |-> NextEntry(Chained(entries), ev), base |-> Len(entries)], entries, inf)
  <1> DEFINE r == NextEntry(Chained(entries), ev)
             t == [log |-> "audit", row |-> r, base |-> Len(entries)]
  <1>1. t.log = "audit" /\ t.row = r /\ t.base = Len(entries)
    OBVIOUS
  <1>2. Len(entries) \in Nat
    BY SeqFacts DEF LedgerInv, AuditTable, Numbered
  <1> HIDE DEF t
  <1>3. AuditTx(t, entries)
    BY <1>1, <1>2 DEF AuditTx
  <1>4. TxOK(t, entries, inf)
    BY <1>1, <1>3 DEF TxOK
  <1> QED
    BY <1>4 DEF t

LEMMA AuditReadInv == ASSUME LedgerInv, NEW w \in Writers, NEW ev \in AuditEvents, AuditRead(w, ev) PROVE LedgerInv'
  <1>1. ev \in LedgerEvents
    BY DEF LedgerEvents
  <1>2. erasures' \subseteq KeyHashes
    BY DEF AuditRead, LedgerInv
  <1> QED
    BY <1>1, <1>2, AuditBegins, WriterQuiet DEF AuditRead

\* What an insert does to the table, for the invariant and for the abstract log.
LEMMA AuditInsertAppends ==
    ASSUME LedgerInv, NEW w \in Writers, AuditInsert(w)
    PROVE  \/ entries' = entries
           \/ /\ AuditTable(entries') /\ Len(entries') = Len(entries) + 1
              /\ \E ev \in LedgerEvents : Chained(entries') = Append(Chained(entries), NextEntry(Chained(entries), ev))
  <1> SUFFICES ASSUME tx[w].base = Len(entries)
               PROVE  /\ AuditTable(entries') /\ Len(entries') = Len(entries) + 1
                      /\ \E ev \in LedgerEvents : Chained(entries') = Append(Chained(entries), NextEntry(Chained(entries), ev))
    BY DEF AuditInsert
  <1>1. AuditTx(tx[w], entries) /\ AuditTable(entries) /\ IsSeq(entries)
    BY DEF LedgerInv, TxInv, TxOK, AuditInsert, AuditTable, Numbered
  <1>2. entries' = Append(entries, tx[w].row)
    BY DEF AuditInsert
  <1>3. PICK ev \in LedgerEvents : tx[w].row = NextEntry(Chained(entries), ev)
    BY <1>1 DEF AuditTx
  <1>4. Len(entries) < MaxAudit
    BY <1>1 DEF AuditTx
  <1>5. AuditTable(entries') /\ Chained(entries') = Append(Chained(entries), tx[w].row)
    BY <1>1, <1>2, <1>3, <1>4, AuditAppend
  <1>6. Len(entries') = Len(entries) + 1
    BY <1>1, <1>2, AppendFacts
  <1> QED
    BY <1>3, <1>5, <1>6

LEMMA AuditInsertInv == ASSUME LedgerInv, NEW w \in Writers, AuditInsert(w) PROVE LedgerInv'
  <1>1. /\ SetTx(w, NoTx) /\ UNCHANGED <<inf, acked, erasures, page, backup>>
    BY DEF AuditInsert, EndTx
  <1>2. AuditTable(entries') /\ (entries' = entries \/ Len(entries') = Len(entries) + 1)
    BY AuditInsertAppends DEF LedgerInv
  <1> QED
    BY <1>1, <1>2, NoTxOK, WriterMoves DEF LedgerInv

LEMMA InferenceReadInv ==
    ASSUME LedgerInv, NEW w \in Writers, NEW req \in InfRequests, NEW key \in KeyHashes, InferenceRead(w, req, key)
    PROVE  LedgerInv'
  <1> DEFINE r == InferenceRow(req, key)
             t == [log |-> "inference", row |-> r, base |-> Len(inf)]
  <1>0. IsSeq(inf) /\ Len(inf) \in Nat /\ inf = [i \in 1..Len(inf) |-> inf[i]]
    BY SeqFacts DEF LedgerInv, InfTable
  <1>1. inf = <<>> <=> Len(inf) = 0
    <2>1. Len(inf) = 0 => inf = <<>>
      BY <1>0
    <2> QED
      BY <2>1
  <1>2. inf # <<>> => inf[Len(inf)].seq = Len(inf)
    <2>1. Len(inf) # 0 => Len(inf) \in 1..Len(inf)
      BY <1>0
    <2> QED
      BY <1>1, <2>1 DEF LedgerInv, InfTable, InfRow
  <1>3. /\ InfFields(r) /\ r.req = req /\ r.key = key /\ r.hash = canonicalInferenceEventBytes(r)
        /\ r.seq = IF inf = <<>> THEN FirstSeq ELSE inf[Len(inf)].seq + 1
        /\ r.prev = IF inf = <<>> THEN GenesisPrevHash ELSE inf[Len(inf)].hash
    BY DEF InferenceRow, InfFields, canonicalInferenceEventBytes
  <1> HIDE DEF r
  <1>4. t.log = "inference" /\ t.row = r /\ t.base = Len(inf)
    OBVIOUS
  <1>5. SetTx(w, t) /\ UNCHANGED <<entries, inf, acked, erasures, page, backup>>
    BY DEF InferenceRead, r
  <1> HIDE DEF t
  <1>6. InfTx(t, inf)
    BY <1>0, <1>1, <1>2, <1>3, <1>4 DEF InfTx, FirstSeq
  <1>7. TxOK(t, entries, inf)
    BY <1>4, <1>6 DEF TxOK
  <1> QED
    BY <1>5, <1>7, WriterQuiet DEF LedgerInv

LEMMA InferenceInsertInv == ASSUME LedgerInv, NEW w \in Writers, InferenceInsert(w) PROVE LedgerInv'
  <1> DEFINE t == tx[w]
  <1>1. /\ t.log = "inference" /\ SetTx(w, NoTx) /\ UNCHANGED <<entries, erasures, page, backup>>
    BY DEF InferenceInsert, EndTx
  <1>2. InfTx(t, inf) /\ InfTable(inf) /\ acked \subseteq Recorded(inf) /\ AuditTable(entries) /\ erasures \subseteq KeyHashes
    BY <1>1 DEF LedgerInv, TxInv, TxOK
  <1>3. CASE t.base # Len(inf)
    <2>1. inf' = inf /\ acked' = acked
      BY <1>3 DEF InferenceInsert
    <2> QED
      BY <1>1, <1>2, <2>1, NoTxOK, WriterMoves
  <1>4. CASE t.base = Len(inf) /\ t.row.req \in Recorded(inf)
    <2>1. inf' = inf /\ acked' = acked \cup {t.row.req}
      BY <1>4 DEF InferenceInsert, handleRecordInferenceEvent
    <2> QED
      BY <1>1, <1>2, <1>4, <2>1, NoTxOK, WriterMoves
  <1>5. CASE t.base = Len(inf) /\ t.row.req \notin Recorded(inf)
    <2>1. inf' = Append(inf, t.row) /\ acked' = acked \cup {t.row.req}
      BY <1>5 DEF InferenceInsert, handleRecordInferenceEvent
    <2>2. /\ InfTable(inf') /\ Len(inf') = Len(inf) + 1
          /\ Recorded(inf) \subseteq Recorded(inf') /\ t.row.req \in Recorded(inf')
      BY <1>2, <1>5, <2>1, InfAppend
    <2>3. acked' \subseteq Recorded(inf')
      BY <1>2, <2>1, <2>2
    <2> QED
      BY <1>1, <1>2, <2>2, <2>3, NoTxOK, WriterMoves
  <1> QED
    BY <1>3, <1>4, <1>5

LEMMA RollbackInv == ASSUME LedgerInv, NEW w \in Writers, Rollback(w) PROVE LedgerInv'
  BY NoTxOK, WriterQuiet DEF Rollback, EndTx, LedgerInv

LEMMA ErasureInv ==
    ASSUME LedgerInv, NEW w \in Writers, NEW key \in KeyHashes, handleGDPRErasure(w, key)
    PROVE  LedgerInv'
  <1>1. CASE EraseBegin(w, key)
    <2> DEFINE t == [log |-> "erasure", key |-> key]
    <2>1. SetTx(w, t) /\ EraseInferenceEventsBySubject(key) /\ UNCHANGED <<entries, acked, erasures, page, backup>>
      BY <1>1 DEF EraseBegin
    <2>2. t.log = "erasure" /\ t.key = key
      OBVIOUS
    <2> HIDE DEF t
    <2>3. TxOK(t, entries', inf')
      BY <2>2 DEF TxOK
    <2>4. /\ InfTable(inf') /\ Len(inf') = Len(inf) /\ Recorded(inf') = Recorded(inf)
          /\ \A i \in 1..Len(inf) : inf'[i].hash = inf[i].hash
      BY <2>1, EraseKeeps DEF LedgerInv
    <2>5. Len(inf) # 0 => Len(inf) \in 1..Len(inf)
      BY SeqFacts DEF LedgerInv, InfTable
    <2> QED
      BY <2>1, <2>3, <2>4, <2>5, WriterMoves DEF LedgerInv
  <1>2. CASE EraseEnd(w) /\ tx[w].key = key
    <2>1. erasures' \subseteq KeyHashes /\ UNCHANGED <<entries, inf, acked, page, backup>>
      BY <1>2 DEF EraseEnd, RecordGDPRErasure, LedgerInv
    <2>2. CASE Len(entries) < MaxAudit
      <3>1. "gdpr.erasure.completed" \in LedgerEvents
        BY DEF LedgerEvents
      <3> QED
        BY <1>2, <2>1, <2>2, <3>1, AuditBegins, WriterQuiet DEF EraseEnd
    <2>3. CASE ~(Len(entries) < MaxAudit)
      BY <1>2, <2>1, <2>3, NoTxOK, WriterQuiet DEF EraseEnd, EndTx
    <2> QED
      BY <2>2, <2>3
  <1> QED
    BY <1>1, <1>2 DEF handleGDPRErasure

\* A client's page token moves; everything else stays.
LEMMA PageMoves ==
    ASSUME LedgerInv, UNCHANGED <<entries, inf, tx, acked, erasures, backup>>, PageOK(page', Len(inf))
    PROVE  LedgerInv'
  BY DEF LedgerInv, TxInv, BackupInv

LEMMA NewPage ==
    ASSUME NEW n \in Nat, NEW upto \in 0..n, NEW done \in BOOLEAN, done => upto = 0
    PROVE  PageOK([cursor |-> 0, got |-> <<>>, upto |-> upto, done |-> done], n)
  <1> DEFINE p == [cursor |-> 0, got |-> <<>>, upto |-> upto, done |-> done]
  <1>1. p.cursor = 0 /\ p.got = <<>> /\ p.upto = upto /\ p.done = done
    OBVIOUS
  <1>2. p \in [cursor: 0..n, got: Seq(Nat), upto: 0..n, done: BOOLEAN]
    OBVIOUS
  <1> HIDE DEF p
  <1>3. Len(p.got) = 0
    BY <1>1
  <1>4. p.got = Ids(0, Len(p.got))
    BY <1>1, <1>3 DEF Ids
  <1>5. PageOK(p, n)
    BY <1>1, <1>2, <1>3, <1>4 DEF PageOK
  <1> QED
    BY <1>5 DEF p

\* Nobody is paging.
LEMMA NoPage == \A n \in Nat : PageOK([cursor |-> 0, got |-> <<>>, upto |-> 0, done |-> TRUE], n)
  <1> SUFFICES ASSUME NEW n \in Nat
               PROVE  PageOK([cursor |-> 0, got |-> <<>>, upto |-> 0, done |-> TRUE], n)
    OBVIOUS
  <1>1. 0 \in 0..n /\ TRUE \in BOOLEAN
    OBVIOUS
  <1> QED
    BY <1>1, NewPage

LEMMA StartPagingInv == ASSUME LedgerInv, StartPaging PROVE LedgerInv'
  <1>1. Len(inf) \in Nat /\ Len(inf) \in 0..Len(inf)
    BY SeqFacts DEF LedgerInv, InfTable
  <1>2. PageOK(page', Len(inf))
    BY <1>1, NewPage DEF StartPaging
  <1> QED
    BY <1>2, PageMoves DEF StartPaging

\* Ids of consecutive pages join.
LEMMA IdsJoin ==
    ASSUME NEW a \in Nat, NEW b \in Nat
    PROVE  Ids(0, a) \o Ids(a, b) = Ids(0, a + b) /\ Ids(0, a) \in Seq(Nat) /\ Len(Ids(0, a)) = a
  <1>1. /\ Ids(0, a) \in [1..a -> Nat] /\ Ids(a, b) \in [1..b -> Nat] /\ Ids(0, a + b) \in [1..(a + b) -> Nat]
    BY DEF Ids
  <1>2. /\ Ids(0, a) \in Seq(Nat) /\ Len(Ids(0, a)) = a
        /\ Ids(a, b) \in Seq(Nat) /\ Len(Ids(a, b)) = b
    BY <1>1
  <1> DEFINE c == Ids(0, a) \o Ids(a, b)
  <1>3. c \in [1..(a + b) -> Nat]
    <2>1. c \in Seq(Nat) /\ Len(c) = a + b
      BY <1>2
    <2>2. \A s \in Seq(Nat) : s \in [1..Len(s) -> Nat]
      OBVIOUS
    <2> HIDE DEF c
    <2> QED
      BY <2>1, <2>2
  <1>4. ASSUME NEW i \in 1..(a + b) PROVE c[i] = i /\ Ids(0, a + b)[i] = i
    <2>1. Ids(0, a + b)[i] = i
      BY DEF Ids
    <2>2. CASE i <= a
      <3>1. c[i] = Ids(0, a)[i] /\ i \in 1..a
        BY <1>2, <2>2
      <3> QED
        BY <2>1, <3>1 DEF Ids
    <2>3. CASE ~(i <= a)
      <3>1. c[i] = Ids(a, b)[i - a] /\ i - a \in 1..b
        BY <1>2, <2>3
      <3>2. Ids(a, b)[i - a] = i
        BY <3>1 DEF Ids
      <3> QED
        BY <2>1, <3>1, <3>2
    <2> QED
      BY <2>2, <2>3
  <1> HIDE DEF c
  <1>5. c = Ids(0, a + b)
    BY <1>1, <1>3, <1>4
  <1> QED
    BY <1>2, <1>5 DEF c

LEMMA ListInferenceEventsInv == ASSUME LedgerInv, ListInferenceEvents PROVE LedgerInv'
  <1> DEFINE n == Len(inf)
             k == IF Fetched > Limit THEN Limit ELSE Fetched
             more == Fetched > Limit
  <1>0. n \in Nat /\ Limit \in Nat
    BY SeqFacts, LedgerAssumption DEF LedgerInv, InfTable
  <1>1. /\ page \in [cursor: 0..n, got: Seq(Nat), upto: 0..n, done: BOOLEAN] /\ ~page.done
        /\ page.got = Ids(0, page.cursor) /\ Len(page.got) = page.cursor /\ page.cursor \in 0..n /\ page.upto \in 0..n
    BY DEF LedgerInv, PageOK, ListInferenceEvents
  <1>2. k \in Nat /\ page.cursor + k \in 0..n /\ (~more => page.cursor + k = n)
    BY <1>0, <1>1 DEF Fetched
  <1>3. page' = IF more THEN [page EXCEPT !.got = page.got \o Ids(page.cursor, k), !.cursor = page.cursor + k]
                ELSE [page EXCEPT !.got = page.got \o Ids(page.cursor, k), !.done = TRUE]
    BY DEF ListInferenceEvents
  <1> DEFINE g == page.got \o Ids(page.cursor, k)
  <1>4. g = Ids(0, page.cursor + k) /\ g \in Seq(Nat) /\ Len(g) = page.cursor + k
    <2>1. page.cursor \in Nat /\ page.cursor + k \in Nat
      BY <1>0, <1>1, <1>2
    <2>2. g = Ids(0, page.cursor + k)
      BY <1>1, <1>2, <2>1, IdsJoin
    <2>3. Ids(0, page.cursor + k) \in Seq(Nat) /\ Len(Ids(0, page.cursor + k)) = page.cursor + k
      BY <2>1, IdsJoin
    <2> QED
      BY <2>2, <2>3
  <1> HIDE DEF g, k, more
  <1>5. CASE more
    <2>1. page' = [page EXCEPT !.got = g, !.cursor = page.cursor + k]
      BY <1>3, <1>5 DEF g
    <2>2. /\ page'.got = g /\ page'.cursor = page.cursor + k /\ page'.done = page.done /\ page'.upto = page.upto
          /\ page' \in [cursor: 0..n, got: Seq(Nat), upto: 0..n, done: BOOLEAN]
      BY <1>1, <1>2, <1>4, <2>1
    <2>3. PageOK(page', n)
      BY <1>1, <1>4, <2>2 DEF PageOK
    <2> QED
      BY <2>3, PageMoves DEF ListInferenceEvents
  <1>6. CASE ~more
    <2>1. page' = [page EXCEPT !.got = g, !.done = TRUE]
      BY <1>3, <1>6 DEF g
    <2>2. /\ page'.got = g /\ page'.cursor = page.cursor /\ page'.done /\ page'.upto = page.upto
          /\ page' \in [cursor: 0..n, got: Seq(Nat), upto: 0..n, done: BOOLEAN]
      BY <1>1, <1>4, <2>1
    <2>3. PageOK(page', n)
      BY <1>0, <1>1, <1>2, <1>4, <1>6, <2>2 DEF PageOK
    <2> QED
      BY <2>3, PageMoves DEF ListInferenceEvents
  <1> QED
    BY <1>5, <1>6

LEMMA BackupInvKept == ASSUME LedgerInv, BackupDB PROVE LedgerInv'
  <1> DEFINE b == [audit |-> entries, inf |-> inf, gdpr |-> erasures]
  <1>1. backup' = b /\ UNCHANGED <<entries, inf, tx, acked, erasures, page>>
    BY DEF BackupDB
  <1>2. b.audit = entries /\ b.inf = inf /\ b.gdpr = erasures
    OBVIOUS
  <1> HIDE DEF b
  <1>3. BackupInv'
    BY <1>1, <1>2 DEF BackupInv, LedgerInv
  <1> QED
    BY <1>1, <1>3 DEF LedgerInv, TxInv

LEMMA RestoreInv == ASSUME LedgerInv, RestoreDB PROVE LedgerInv'
  <1>1. /\ AuditTable(entries') /\ InfTable(inf') /\ erasures' \subseteq KeyHashes
        /\ acked' \subseteq Recorded(inf') /\ UNCHANGED <<tx, backup>>
    BY DEF RestoreDB, LedgerInv, BackupInv
  <1>2. TxInv'
    <2>1. \A w \in Writers : tx[w] = NoTx
      BY DEF RestoreDB
    <2> QED
      BY <1>1, <2>1, NoTxOK DEF LedgerInv, TxInv
  <1>3. PageOK(page', Len(inf'))
    <2>1. Len(inf') \in Nat
      BY <1>1, SeqFacts DEF InfTable
    <2> QED
      BY <2>1, NoPage DEF RestoreDB
  <1>4. BackupInv'
    BY <1>1 DEF LedgerInv, BackupInv
  <1> QED
    BY <1>1, <1>2, <1>3, <1>4 DEF LedgerInv

LEMMA LedgerInitInv == LedgerInit => LedgerInv
  <1> SUFFICES ASSUME LedgerInit PROVE LedgerInv
    OBVIOUS
  <1>1. AuditTable(entries)
    <2>1. Legacy \in Nat /\ Legacy <= MaxAudit
      BY LedgerAssumption
    <2>2. entries = [i \in 1..Legacy |-> LegacyRow]
      BY DEF LedgerInit
    <2>3. entries = [i \in 1..Legacy |-> entries[i]] /\ \A i \in 1..Legacy : entries[i] = LegacyRow
      BY <2>2
    <2>4. IsSeq(entries) /\ Len(entries) = Legacy
      BY <2>1, <2>3, FunIsSeq
    <2>5. LegacyRow.seq = NoSeq
      BY DEF LegacyRow
    <2>6. Numbered(entries)
      BY <2>1, <2>3, <2>4, <2>5 DEF Numbered
    <2> QED
      BY <2>1, <2>4, <2>6 DEF AuditTable
  <1>2. inf = <<>> /\ Len(inf) = 0
    BY DEF LedgerInit
  <1>3. InfTable(inf)
    <2>1. 1..Len(inf) = {}
      BY <1>2
    <2>2. inf = [i \in 1..0 |-> inf[i]]
      BY <1>2
    <2>3. IsSeq(inf)
      BY <2>2, FunIsSeq
    <2> QED
      BY <2>1, <2>3 DEF InfTable
  <1>4. TxInv
    BY NoTxOK DEF LedgerInit, TxInv
  <1>5. PageOK(page, Len(inf))
    BY <1>2, NoPage DEF LedgerInit
  <1> QED
    BY <1>1, <1>3, <1>4, <1>5 DEF LedgerInit, LedgerInv, BackupInv

LEMMA LedgerNextInv == LedgerInv /\ [LedgerNext]_ledgerVars => LedgerInv'
  <1> SUFFICES ASSUME LedgerInv, [LedgerNext]_ledgerVars PROVE LedgerInv'
    OBVIOUS
  <1>1. CASE UNCHANGED ledgerVars
    BY <1>1 DEF ledgerVars, LedgerInv, TxInv, BackupInv
  <1>2. CASE LedgerNext
    BY <1>2, AuditReadInv, AuditInsertInv, InferenceReadInv, InferenceInsertInv, RollbackInv, ErasureInv,
       StartPagingInv, ListInferenceEventsInv, BackupInvKept, RestoreInv DEF LedgerNext
  <1> QED
    BY <1>1, <1>2

LEMMA LedgerInvSafe ==
    LedgerInv => LedgerTypeOK /\ AuditVerifies /\ InferenceVerifies /\ AckedOnce /\ PagesCoverLog
  <1> SUFFICES ASSUME LedgerInv
               PROVE  LedgerTypeOK /\ AuditVerifies /\ InferenceVerifies /\ AckedOnce /\ PagesCoverLog
    OBVIOUS
  <1>1. AuditVerifies
    BY TableVerifies DEF LedgerInv
  <1>2. AckedOnce
    BY DEF LedgerInv, AckedOnce, InfTable
  <1>3. PagesCoverLog
    BY DEF LedgerInv, PageOK, PagesCoverLog
  <1>4. LedgerTypeOK
    <2>1. Recorded(inf) \subseteq InfRequests
      BY DEF LedgerInv, InfTable, InfRow, Recorded
    <2>2. \A w \in Writers : tx[w].log \in {"none", "audit", "inference", "erasure"}
      BY DEF LedgerInv, TxInv, TxOK
    <2>3. page.cursor \in 0..Len(inf) /\ page.upto \in 0..Len(inf)
      BY DEF LedgerInv, PageOK
    <2> QED
      BY <2>1, <2>2, <2>3 DEF LedgerInv, InfTable, InfRow, LedgerTypeOK
  <1>5. InferenceVerifies
    <2> SUFFICES ASSUME \A i \in 1..Len(inf) : inf[i].key # ERASED
                 PROVE  handleVerifyInferenceChain.verified
      BY DEF InferenceVerifies
    <2>1. Len(inf) \in Nat
      BY SeqFacts DEF LedgerInv, InfTable
    <2>2. ASSUME NEW i \in 1..Len(inf) PROVE ~Breaks(inf, i)
      <3>1. InfRow(inf, i) /\ i \in Nat /\ (i # 1 => i - 1 \in 1..Len(inf))
        BY <2>1 DEF LedgerInv, InfTable
      <3>2. i # 1 => inf[i - 1].seq = i - 1
        BY <3>1 DEF LedgerInv, InfTable, InfRow
      <3>3. inf[i].seq = IF i = 1 THEN FirstSeq ELSE inf[i - 1].seq + 1
        BY <3>1, <3>2 DEF InfRow, FirstSeq
      <3> QED
        BY <3>1, <3>3 DEF Breaks, InfRow
    <2>3. handleVerifyInferenceChain = [length |-> Len(inf), verified |-> TRUE, break |-> 0]
      BY <2>2 DEF handleVerifyInferenceChain, VerifyInferenceChain
    <2> QED
      BY <2>3
  <1> QED
    BY <1>1, <1>2, <1>3, <1>4, <1>5

\* For any number of processes, writers, rows, erasures and restores: both chains verify (the
\* inference chain as long as nothing was erased from it), an acknowledged request is in the
\* log exactly once, and a client that pages to the end has every row (AppendAudit,
\* RecordInferenceEvent, ListInferenceEvents, BackupDB, RestoreDB).
THEOREM TenancyLogs == TenancySpec => []Ledger_LogsHold
  <1>1. TenancyInit => (part = "ledger" => LedgerInv)
    BY LedgerInitInv DEF TenancyInit
  <1>2. (part = "ledger" => LedgerInv) /\ [TenancyNext]_tenancyVars => (part = "ledger" => LedgerInv)'
    <2>1. part = "ledger" /\ [TenancyNext]_tenancyVars => [LedgerNext]_ledgerVars
      BY DEF TenancyNext, tenancyVars
    <2>2. [TenancyNext]_tenancyVars => part' = part
      BY DEF TenancyNext, tenancyVars
    <2> QED
      BY <2>1, <2>2, LedgerNextInv
  <1>3. (part = "ledger" => LedgerInv) => Ledger_LogsHold
    BY LedgerInvSafe DEF Ledger_LogsHold
  <1> QED
    BY <1>1, <1>2, <1>3, PTL DEF TenancySpec

\* One step of the table is an append of the abstract log, a restore or nothing.
LEMMA LedgerStepIsChainStep == ASSUME LedgerInv, LedgerNext PROVE ChainStep
  <1>1. ASSUME NEW w \in Writers, AuditInsert(w) PROVE ChainStep
    <2>1. CASE entries' = entries
      BY <2>1 DEF ChainStep
    <2>2. CASE \E ev \in LedgerEvents : Chained(entries') = Append(Chained(entries), NextEntry(Chained(entries), ev))
      BY <2>2 DEF ChainStep, LedgerEvents, Log!LogNext, Log!LogAppend, Log!NextEntry, NextEntry, Log!ComputeHash, ComputeHash,
         Log!CanonicalBytes, CanonicalBytes, Log!FirstSeq, FirstSeq, Log!GenesisPrevHash, GenesisPrevHash
    <2> QED
      BY <1>1, <2>1, <2>2, AuditInsertAppends
  <1>2. CASE RestoreDB
    BY <1>2 DEF ChainStep
  <1>3. CASE \/ \E w \in Writers :
                  \/ \E ev \in AuditEvents : AuditRead(w, ev)
                  \/ \E r \in InfRequests, k \in KeyHashes : InferenceRead(w, r, k)
                  \/ InferenceInsert(w) \/ Rollback(w)
                  \/ \E k \in KeyHashes : handleGDPRErasure(w, k)
             \/ StartPaging \/ ListInferenceEvents \/ BackupDB
    <2>1. entries' = entries
      BY <1>3 DEF AuditRead, InferenceRead, InferenceInsert, Rollback, handleGDPRErasure, EraseBegin, EraseEnd,
           StartPaging, ListInferenceEvents, BackupDB
    <2> QED
      BY <2>1 DEF ChainStep
  <1> QED
    BY <1>1, <1>2, <1>3 DEF LedgerNext

\* The table implements the audit package's Log between restores, for any number of
\* processes: its chain changes only by the abstract Append (AppendAudit).
THEOREM TenancyChain == TenancySpec => Ledger_ChainSteps
  <1>1. TenancyInit => (part = "ledger" => LedgerInv)
    BY LedgerInitInv DEF TenancyInit
  <1>2. (part = "ledger" => LedgerInv) /\ [TenancyNext]_tenancyVars => (part = "ledger" => LedgerInv)'
    <2>1. part = "ledger" /\ [TenancyNext]_tenancyVars => [LedgerNext]_ledgerVars
      BY DEF TenancyNext, tenancyVars
    <2>2. [TenancyNext]_tenancyVars => part' = part
      BY DEF TenancyNext, tenancyVars
    <2> QED
      BY <2>1, <2>2, LedgerNextInv
  <1>3. (part = "ledger" => LedgerInv) /\ [TenancyNext]_tenancyVars => [part = "ledger" => ChainStep]_ledgerVars
    <2>1. part = "ledger" /\ [TenancyNext]_tenancyVars => LedgerNext \/ UNCHANGED ledgerVars
      BY DEF TenancyNext, tenancyVars
    <2> QED
      BY <2>1, LedgerStepIsChainStep
  <1> QED
    BY <1>1, <1>2, <1>3, PTL DEF TenancySpec, Ledger_ChainSteps
-----------------------------------------------------------------------------
(***************************************************************************)
(* SLO reports.  Every entry was read at one moment n while the request    *)
(* was served, with the threshold its contract had when the request began; *)
(* and a configured model that had traffic by then has its entry before    *)
(* the query over all models runs.                                         *)
(***************************************************************************)
Mine(log, m, n) == {i \in 1..n : log[i].model = m}
Fast(log, m, n, ttft) == {i \in 1..n : log[i].model = m /\ log[i].lat > 0 /\ log[i].lat < ttft}

\* The entry of m is what its own query gives over the first n events.
EntryAt(r, log, m, n) ==
    r.stats[m] = [count |-> Cardinality(Mine(log, m, n)), ok |-> Cardinality(Fast(log, m, n, resolveSLO(r.cfg, m).ttft))]

\* The all-models query cannot be the first to see traffic of m.
SeenAtStart(r, log, m) == r.cfg[m] # NoSlo => \E i \in 1..r.start : log[i].model = m

SloReq == [at : {"idle", "explicit", "done"}, cfg : [SloModels \cup {Global} -> SloRows \cup {NoSlo}],
           start : Nat, todo : SUBSET SloModels, stats : [SloModels -> [count : Nat, ok : Nat] \cup {NoSlo}]]

SloTypeOK ==
    /\ sloCfg \in [SloModels \cup {Global} -> SloRows \cup {NoSlo}]
    /\ sloLog \in Seq([model : SloModels, lat : Latencies])
    /\ sreq \in SloReq /\ sreq.start <= Len(sloLog)

\* What a request in progress holds, over the log so far.
SloRead(r, log) ==
    /\ \A m \in SloModels : r.stats[m] # NoSlo /\ SeenAtStart(r, log, m) =>
         \E n \in r.start..Len(log) : EntryAt(r, log, m, n)
    /\ r.at = "explicit" => /\ r.todo \subseteq {m \in SloModels : r.cfg[m] # NoSlo}
                            /\ \A m \in SloModels \ r.todo :
                                 r.cfg[m] # NoSlo /\ SeenAtStart(r, log, m) => r.stats[m] # NoSlo

SloInv == SloTypeOK /\ SloRead(sreq, sloLog)

LEMMA QueryRead ==
    ASSUME NEW log \in Seq([model : SloModels, lat : Latencies]), NEW m \in SloModels, NEW th
    PROVE  LET q == GetSLOComplianceByModel(log, m, th) n == Len(log) IN
           /\ q \in [count : Nat, ok : Nat] \cup {NoSlo}
           /\ q = NoSlo <=> Mine(log, m, n) = {}
           /\ q # NoSlo => q = [count |-> Cardinality(Mine(log, m, n)), ok |-> Cardinality(Fast(log, m, n, th))]
  <1> DEFINE A == Mine(log, m, Len(log))
             B == Fast(log, m, Len(log), th)
  <1>1. DOMAIN log = 1..Len(log) /\ Len(log) \in Nat
    OBVIOUS
  <1>2. {i \in DOMAIN log : log[i].model = m} = A
    BY <1>1 DEF Mine
  <1>3. {i \in {i \in DOMAIN log : log[i].model = m} : log[i].lat > 0 /\ log[i].lat < th} = B
    BY <1>1 DEF Fast
  <1>4. IsFiniteSet(A) /\ IsFiniteSet(B)
    <2>1. IsFiniteSet(1..Len(log)) /\ A \subseteq 1..Len(log) /\ B \subseteq 1..Len(log)
      BY <1>1, FS_Interval DEF Mine, Fast
    <2> QED
      BY <2>1, FS_Subset
  <1>5. Cardinality(A) \in Nat /\ Cardinality(B) \in Nat
    BY <1>4, FS_CardinalityType
  <1>6. GetSLOComplianceByModel(log, m, th) = IF A = {} THEN NoSlo ELSE [count |-> Cardinality(A), ok |-> Cardinality(B)]
    BY <1>2, <1>3 DEF GetSLOComplianceByModel
  <1> HIDE DEF A, B
  <1>7. [count |-> Cardinality(A), ok |-> Cardinality(B)] \in [count : Nat, ok : Nat]
    BY <1>5
  <1>8. NoSlo \notin [count : Nat, ok : Nat]
    BY SloAssumption
  <1>9. /\ GetSLOComplianceByModel(log, m, th) \in [count : Nat, ok : Nat] \cup {NoSlo}
        /\ GetSLOComplianceByModel(log, m, th) = NoSlo <=> A = {}
        /\ GetSLOComplianceByModel(log, m, th) # NoSlo =>
             GetSLOComplianceByModel(log, m, th) = [count |-> Cardinality(A), ok |-> Cardinality(B)]
    BY <1>6, <1>7, <1>8
  <1> QED
    BY <1>9 DEF A, B

LEMMA SloInitInv == SloInit => SloInv
  <1> SUFFICES ASSUME SloInit PROVE SloInv
    OBVIOUS
  <1>1. IdleSlo \in SloReq /\ IdleSlo.start = 0 /\ IdleSlo.at = "idle" /\ \A m \in SloModels : IdleSlo.stats[m] = NoSlo
    BY DEF IdleSlo, SloReq
  <1>2. SloTypeOK
    BY <1>1 DEF SloInit, SloTypeOK
  <1> QED
    BY <1>1, <1>2 DEF SloInit, SloInv, SloRead

\* Another event: what was read is what the first n events give still.
LEMMA SloLonger ==
    ASSUME NEW r \in SloReq, NEW log \in Seq([model : SloModels, lat : Latencies]), NEW e \in [model : SloModels, lat : Latencies],
           r.start <= Len(log), SloRead(r, log), NEW w, w = Append(log, e)
    PROVE  SloRead(r, w)
  <1>1. Len(log) \in Nat /\ Len(w) = Len(log) + 1 /\ \A i \in 1..Len(log) : w[i] = log[i]
    OBVIOUS
  <1>2. r.start \in Nat /\ \A i \in 1..r.start : i \in 1..Len(log)
    BY <1>1 DEF SloReq
  <1>3. ASSUME NEW m \in SloModels PROVE SeenAtStart(r, w, m) <=> SeenAtStart(r, log, m)
    BY <1>1, <1>2 DEF SeenAtStart
  <1>4. ASSUME NEW m \in SloModels, NEW n \in r.start..Len(log), EntryAt(r, log, m, n)
        PROVE  n \in r.start..Len(w) /\ EntryAt(r, w, m, n)
    <2>1. \A i \in 1..n : w[i] = log[i]
      BY <1>1, <1>2
    <2>2. Mine(w, m, n) = Mine(log, m, n)
      BY <2>1 DEF Mine
    <2>3. Fast(w, m, n, resolveSLO(r.cfg, m).ttft) = Fast(log, m, n, resolveSLO(r.cfg, m).ttft)
      BY <2>1 DEF Fast
    <2>4. n \in r.start..Len(w)
      BY <1>1, <1>2
    <2> QED
      BY <1>4, <2>2, <2>3, <2>4 DEF EntryAt
  <1> QED
    BY <1>3, <1>4 DEF SloRead

\* One more model read, with its own threshold.
LEMMA SloReads ==
    ASSUME NEW r \in SloReq, NEW log \in Seq([model : SloModels, lat : Latencies]), r.start <= Len(log), SloRead(r, log),
           NEW m \in SloModels, NEW q, q = GetSLOComplianceByModel(log, m, resolveSLO(r.cfg, m).ttft),
           NEW s \in SloReq, s.cfg = r.cfg, s.start = r.start, s.stats = [r.stats EXCEPT ![m] = q],
           s.at = "done" \/ (r.at = "explicit" /\ s.todo = r.todo \ {m})
    PROVE  SloRead(s, log)
  <1>1. r.start \in Nat /\ Len(log) \in Nat /\ Len(log) \in r.start..Len(log)
    BY DEF SloReq
  <1>2. s.stats[m] = q /\ \A x \in SloModels : x # m => s.stats[x] = r.stats[x]
    BY DEF SloReq
  <1>3. \A x \in SloModels : SeenAtStart(s, log, x) <=> SeenAtStart(r, log, x)
    BY DEF SeenAtStart
  <1>4. q # NoSlo => EntryAt(s, log, m, Len(log))
    <2> DEFINE th == resolveSLO(r.cfg, m).ttft
    <2>1. q # NoSlo => q = [count |-> Cardinality(Mine(log, m, Len(log))), ok |-> Cardinality(Fast(log, m, Len(log), th))]
      BY QueryRead
    <2>2. s.cfg = r.cfg
      OBVIOUS
    <2> QED
      BY <1>2, <2>1, <2>2 DEF EntryAt
  <1>5. ASSUME NEW x \in SloModels, s.stats[x] # NoSlo, SeenAtStart(s, log, x)
        PROVE  \E n \in s.start..Len(log) : EntryAt(s, log, x, n)
    <2>1. CASE x = m
      BY <1>1, <1>2, <1>4, <1>5, <2>1
    <2>2. CASE x # m
      <3>1. PICK n \in r.start..Len(log) : EntryAt(r, log, x, n)
        BY <1>2, <1>3, <1>5, <2>2 DEF SloRead
      <3>2. EntryAt(s, log, x, n)
        BY <1>2, <2>2, <3>1 DEF EntryAt
      <3> QED
        BY <3>1, <3>2
    <2> QED
      BY <2>1, <2>2
  <1>6. ASSUME s.at = "explicit"
        PROVE  /\ s.todo \subseteq {x \in SloModels : s.cfg[x] # NoSlo}
               /\ \A x \in SloModels \ s.todo : s.cfg[x] # NoSlo /\ SeenAtStart(s, log, x) => s.stats[x] # NoSlo
    <2>1. r.at = "explicit" /\ s.todo = r.todo \ {m}
      BY <1>6
    <2>2. s.todo \subseteq {x \in SloModels : s.cfg[x] # NoSlo}
      BY <2>1 DEF SloRead
    <2>3. ASSUME NEW x \in SloModels \ s.todo, s.cfg[x] # NoSlo, SeenAtStart(s, log, x) PROVE s.stats[x] # NoSlo
      <3>1. CASE x = m
        <4>1. PICK i \in 1..r.start : log[i].model = m
          BY <2>3, <3>1 DEF SeenAtStart
        <4>2. i \in Mine(log, m, Len(log))
          BY <1>1, <4>1 DEF Mine
        <4>3. q # NoSlo
          BY <4>2, QueryRead
        <4> QED
          BY <1>2, <3>1, <4>3
      <3>2. CASE x # m
        BY <1>2, <1>3, <2>1, <2>3, <3>2 DEF SloRead
      <3> QED
        BY <3>1, <3>2
    <2> QED
      BY <2>2, <2>3
  <1> QED
    BY <1>5, <1>6 DEF SloRead

LEMMA SloNextInv == SloInv /\ [SloNext]_sloVars => SloInv'
  <1> SUFFICES ASSUME SloInv, [SloNext]_sloVars PROVE SloInv'
    OBVIOUS
  <1>0. /\ sloCfg \in [SloModels \cup {Global} -> SloRows \cup {NoSlo}]
        /\ sloLog \in Seq([model : SloModels, lat : Latencies])
        /\ sreq \in SloReq /\ sreq.start \in Nat /\ sreq.start <= Len(sloLog) /\ SloRead(sreq, sloLog)
    BY DEF SloInv, SloTypeOK, SloReq
  <1>1. ASSUME NEW m \in SloModels \cup {Global}, NEW row \in SloRows, UpsertSLOConfig(m, row) PROVE SloInv'
    BY <1>0, <1>1 DEF UpsertSLOConfig, SloInv, SloTypeOK
  <1>2. ASSUME NEW m \in SloModels, NEW lat \in Latencies, SloEvent(m, lat) PROVE SloInv'
    <2> DEFINE e == [model |-> m, lat |-> lat]
    <2>1. e \in [model : SloModels, lat : Latencies] /\ sloLog' = Append(sloLog, e) /\ UNCHANGED <<sloCfg, sreq>>
      BY <1>2 DEF SloEvent
    <2> HIDE DEF e
    <2>2. sloLog' \in Seq([model : SloModels, lat : Latencies]) /\ Len(sloLog') = Len(sloLog) + 1
      BY <1>0, <2>1
    <2>3. SloRead(sreq, sloLog')
      BY <1>0, <2>1, SloLonger
    <2>4. SloTypeOK'
      BY <1>0, <2>1, <2>2 DEF SloTypeOK
    <2> QED
      BY <2>1, <2>3, <2>4 DEF SloInv
  <1>3. ASSUME GetAllSLOConfigs PROVE SloInv'
    <2>1. /\ sreq' = [at |-> "explicit", cfg |-> sloCfg, start |-> Len(sloLog), todo |-> {m \in SloModels : sloCfg[m] # NoSlo},
                      stats |-> [m \in SloModels |-> NoSlo]]
          /\ UNCHANGED <<sloCfg, sloLog>>
      BY <1>3 DEF GetAllSLOConfigs, IdleSlo
    <2>2. sreq' \in SloReq /\ sreq'.start = Len(sloLog)
      BY <1>0, <2>1 DEF SloReq
    <2>3. SloRead(sreq', sloLog)
      BY <2>1 DEF SloRead
    <2> QED
      BY <1>0, <2>1, <2>2, <2>3 DEF SloInv, SloTypeOK
  <1>4. ASSUME NEW m \in SloModels, SloSingle(m) PROVE SloInv'
    <2> DEFINE q == GetSLOComplianceByModel(sloLog, m, resolveSLO(sreq.cfg, m).ttft)
    <2>1. sreq' = [sreq EXCEPT !.at = "done", !.todo = {}, !.stats[m] = q] /\ UNCHANGED <<sloCfg, sloLog>>
      BY <1>4 DEF SloSingle
    <2>2. q \in [count : Nat, ok : Nat] \cup {NoSlo}
      BY <1>0, QueryRead
    <2> HIDE DEF q
    <2>3. /\ sreq' \in SloReq /\ sreq'.cfg = sreq.cfg /\ sreq'.start = sreq.start /\ sreq'.at = "done"
          /\ sreq'.stats = [sreq.stats EXCEPT ![m] = q]
      BY <1>0, <2>1, <2>2 DEF SloReq
    <2>4. SloRead(sreq', sloLog)
      BY <1>0, <2>3, SloReads DEF q
    <2> QED
      BY <1>0, <2>1, <2>3, <2>4 DEF SloInv, SloTypeOK
  <1>5. ASSUME NEW m \in SloModels, SloExplicit(m) PROVE SloInv'
    <2> DEFINE q == GetSLOComplianceByModel(sloLog, m, sreq.cfg[m].ttft)
    <2>1. sreq' = [sreq EXCEPT !.todo = @ \ {m}, !.stats[m] = q] /\ UNCHANGED <<sloCfg, sloLog>> /\ sreq.at = "explicit" /\ m \in sreq.todo
      BY <1>5 DEF SloExplicit
    <2>2. q \in [count : Nat, ok : Nat] \cup {NoSlo}
      BY <1>0, QueryRead
    <2> HIDE DEF q
    <2>3. /\ sreq' \in SloReq /\ sreq'.cfg = sreq.cfg /\ sreq'.start = sreq.start /\ sreq'.todo = sreq.todo \ {m}
          /\ sreq'.stats = [sreq.stats EXCEPT ![m] = q]
      BY <1>0, <2>1, <2>2 DEF SloReq
    <2>4. sreq.cfg[m] # NoSlo
      BY <1>0, <2>1 DEF SloRead
    <2>5. q = GetSLOComplianceByModel(sloLog, m, resolveSLO(sreq.cfg, m).ttft)
      BY <2>4 DEF q, resolveSLO
    <2>6. SloRead(sreq', sloLog)
      <3>1. sreq'.at = "done" \/ (sreq.at = "explicit" /\ sreq'.todo = sreq.todo \ {m})
        BY <2>1, <2>3
      <3> HIDE DEF q
      <3> QED
        BY <1>0, <2>3, <2>5, <3>1, SloReads
    <2> QED
      BY <1>0, <2>1, <2>3, <2>6 DEF SloInv, SloTypeOK
  <1>6. ASSUME handleSLOCompliance PROVE SloInv'
    <2> DEFINE th == IF sreq.cfg[Global] # NoSlo THEN sreq.cfg[Global].ttft ELSE Default.ttft
               f == [m \in SloModels |-> IF sreq.stats[m] # NoSlo THEN sreq.stats[m] ELSE GetSLOComplianceByModel(sloLog, m, th)]
    <2>1. sreq' = [sreq EXCEPT !.at = "done", !.stats = f] /\ UNCHANGED <<sloCfg, sloLog>> /\ sreq.at = "explicit" /\ sreq.todo = {}
      BY <1>6 DEF handleSLOCompliance
    <2>2. ASSUME NEW m \in SloModels, sreq.cfg[m] = NoSlo PROVE th = resolveSLO(sreq.cfg, m).ttft
      BY <2>2 DEF resolveSLO
    <2> HIDE DEF th
    <2>3. f \in [SloModels -> [count : Nat, ok : Nat] \cup {NoSlo}]
      <3>1. ASSUME NEW m \in SloModels PROVE f[m] \in [count : Nat, ok : Nat] \cup {NoSlo}
        <4>1. GetSLOComplianceByModel(sloLog, m, th) \in [count : Nat, ok : Nat] \cup {NoSlo}
          BY <1>0, QueryRead
        <4>2. sreq.stats[m] \in [count : Nat, ok : Nat] \cup {NoSlo}
          BY <1>0 DEF SloReq
        <4> QED
          BY <4>1, <4>2
      <3> QED
        BY <3>1
    <2>4. \A m \in SloModels : f[m] = IF sreq.stats[m] # NoSlo THEN sreq.stats[m] ELSE GetSLOComplianceByModel(sloLog, m, th)
      OBVIOUS
    <2> HIDE DEF f
    <2>5. /\ sreq' \in SloReq /\ sreq'.cfg = sreq.cfg /\ sreq'.start = sreq.start /\ sreq'.at = "done" /\ sreq'.stats = f
      BY <1>0, <2>1, <2>3 DEF SloReq
    <2>6. ASSUME NEW m \in SloModels, f[m] # NoSlo, SeenAtStart(sreq', sloLog, m)
          PROVE  \E n \in sreq'.start..Len(sloLog) : EntryAt(sreq', sloLog, m, n)
      <3>0. SeenAtStart(sreq, sloLog, m)
        BY <2>5, <2>6 DEF SeenAtStart
      <3>1. CASE sreq.stats[m] # NoSlo
        <4>1. PICK n \in sreq.start..Len(sloLog) : EntryAt(sreq, sloLog, m, n)
          BY <1>0, <3>0, <3>1 DEF SloRead
        <4>2. EntryAt(sreq', sloLog, m, n)
          BY <2>4, <2>5, <3>1, <4>1 DEF EntryAt
        <4> QED
          BY <2>5, <4>2
      <3>2. CASE sreq.stats[m] = NoSlo
        <4>1. sreq.cfg[m] = NoSlo
          BY <1>0, <2>1, <3>0, <3>2 DEF SloRead
        <4>2. f[m] = GetSLOComplianceByModel(sloLog, m, resolveSLO(sreq.cfg, m).ttft)
          BY <2>2, <2>4, <3>2, <4>1
        <4>3. EntryAt(sreq', sloLog, m, Len(sloLog))
          BY <1>0, <2>5, <2>6, <4>2, QueryRead DEF EntryAt
        <4>4. Len(sloLog) \in sreq'.start..Len(sloLog)
          BY <1>0, <2>5
        <4> QED
          BY <4>3, <4>4
      <3> QED
        BY <3>1, <3>2
    <2>7. SloRead(sreq', sloLog)
      BY <2>5, <2>6 DEF SloRead
    <2> QED
      BY <1>0, <2>1, <2>5, <2>7 DEF SloInv, SloTypeOK
  <1>7. CASE UNCHANGED sloVars
    BY <1>7 DEF sloVars, SloInv, SloTypeOK
  <1> QED
    BY <1>1, <1>2, <1>3, <1>4, <1>5, <1>6, <1>7 DEF SloNext

LEMMA SloInvSafe == SloInv => SloEntryHolds
  <1> SUFFICES ASSUME SloInv, sreq.at = "done", NEW m \in SloModels, sreq.stats[m] # NoSlo,
                      sreq.cfg[m] # NoSlo => \E i \in 1..sreq.start : sloLog[i].model = m
               PROVE  \E n \in sreq.start .. Len(sloLog) :
                        LET seen == [i \in 1..n |-> sloLog[i]]
                            own  == IF sreq.cfg[m] # NoSlo THEN sreq.cfg[m]
                                    ELSE IF sreq.cfg[Global] # NoSlo THEN sreq.cfg[Global] ELSE Default
                            mine == {i \in 1..n : seen[i].model = m}
                            ok   == {i \in mine : 0 < seen[i].lat /\ seen[i].lat < own.ttft}
                        IN  /\ sreq.stats[m] = [count |-> Cardinality(mine), ok |-> Cardinality(ok)]
                            /\ SloStatus(sreq.cfg, m, sreq.stats[m]) = "met"
                                 <=> /\ Cardinality(mine) >= SloMin
                                     /\ Cardinality(ok) * own.den >= own.num * Cardinality(mine)
    BY DEF SloEntryHolds
  <1>1. PICK n \in sreq.start..Len(sloLog) : EntryAt(sreq, sloLog, m, n)
    BY DEF SloInv, SloRead, SeenAtStart
  <1> DEFINE own == IF sreq.cfg[m] # NoSlo THEN sreq.cfg[m] ELSE IF sreq.cfg[Global] # NoSlo THEN sreq.cfg[Global] ELSE Default
             seen == [i \in 1..n |-> sloLog[i]]
             mine == {i \in 1..n : seen[i].model = m}
             ok == {i \in mine : 0 < seen[i].lat /\ seen[i].lat < own.ttft}
  <1>2. own = resolveSLO(sreq.cfg, m)
    BY DEF resolveSLO
  <1>3. own \in [ttft : Nat, num : Nat, den : Nat \ {0}]
    BY SloAssumption DEF SloInv, SloTypeOK, SloReq
  <1> HIDE DEF own
  <1>4. \A i \in 1..n : seen[i] = sloLog[i] /\ sloLog[i].lat \in Nat
    <2>1. sloLog \in Seq([model : SloModels, lat : Latencies]) /\ sreq.start \in Nat
      BY DEF SloInv, SloTypeOK, SloReq
    <2>2. ASSUME NEW i \in 1..n PROVE i \in 1..Len(sloLog)
      BY <2>1
    <2>3. ASSUME NEW i \in 1..n PROVE sloLog[i].lat \in Nat
      <3>1. sloLog[i] \in [model : SloModels, lat : Latencies]
        <4>1. i \in 1..Len(sloLog)
          BY <2>2
        <4>2. ASSUME NEW R, sloLog \in Seq(R) PROVE sloLog[i] \in R
          BY <4>1, <4>2
        <4> QED
          BY <2>1, <4>2
      <3> QED
        BY <3>1, SloAssumption
    <2> QED
      BY <2>3
  <1> HIDE DEF seen
  <1>5. mine = Mine(sloLog, m, n)
    BY <1>4 DEF Mine
  <1>6. ok = Fast(sloLog, m, n, own.ttft)
    BY <1>3, <1>4 DEF Fast
  <1> HIDE DEF mine, ok
  <1>7. sreq.stats[m] = [count |-> Cardinality(mine), ok |-> Cardinality(ok)]
    BY <1>1, <1>2, <1>5, <1>6 DEF EntryAt
  <1>8. Cardinality(mine) \in Nat /\ Cardinality(ok) \in Nat
    <2>1. sreq.stats[m] \in [count : Nat, ok : Nat]
      BY DEF SloInv, SloTypeOK, SloReq
    <2> QED
      BY <1>7, <2>1
  <1>9. SloStatus(sreq.cfg, m, sreq.stats[m]) = "met"
          <=> Cardinality(mine) >= SloMin /\ Cardinality(ok) * own.den >= own.num * Cardinality(mine)
    <2>1. sreq.stats[m].count = Cardinality(mine) /\ sreq.stats[m].ok = Cardinality(ok)
      BY <1>7
    <2>2. (Cardinality(mine) < SloMin) <=> ~(Cardinality(mine) >= SloMin)
      BY <1>8, SloAssumption
    <2> QED
      BY <1>2, <2>1, <2>2 DEF SloStatus
  <1> QED
    BY <1>1, <1>7, <1>9 DEF mine, ok, seen, own

-----------------------------------------------------------------------------
(***************************************************************************)
(* Sums.  SumOf is the fold the reports are written with; what a sum over  *)
(* a finite set is, in any order, follows by induction on a set of numbers *)
(* or of subsets.                                                          *)
(***************************************************************************)
SumOf(g) == FoldFunction(+, 0, g)

LEMMA NatInduct ==
    ASSUME NEW P \in SUBSET Nat, 0 \in P, \A n \in P : n + 1 \in P
    PROVE  P = Nat
  <1> SUFFICES ASSUME NEW T, T = Nat \ P, T # {} PROVE FALSE
    OBVIOUS
  <1> DEFINE R == OpToRel(<, Nat)
  <1>1. IsWellFoundedOn(R, Nat)
    BY NatLessThanWellFounded
  <1> HIDE DEF R
  <1>2. PICK x \in T : \A y \in T : ~ (<<y, x>> \in R)
    BY <1>1, WFMin
  <1>3. \A y \in T : ~(y < x)
    BY <1>2 DEF R, OpToRel
  <1>4. x # 0 /\ x \in Nat
    OBVIOUS
  <1>5. x - 1 \in Nat /\ x - 1 < x /\ (x - 1) + 1 = x
    BY <1>4
  <1>6. x - 1 \in P
    BY <1>3, <1>5
  <1> QED
    BY <1>5, <1>6

LEMMA SetInduct ==
    ASSUME NEW S, IsFiniteSet(S), NEW P, {} \in P, \A s \in SUBSET S, x \in S : s \in P /\ x \notin s => s \cup {x} \in P
    PROVE  S \in P
  <1> DEFINE Q == {n \in Nat : \A s \in SUBSET S : Cardinality(s) = n => s \in P}
  <1>1. ASSUME NEW s \in SUBSET S PROVE IsFiniteSet(s) /\ Cardinality(s) \in Nat
    BY FS_Subset, FS_CardinalityType
  <1>2. 0 \in Q
    <2>1. ASSUME NEW s \in SUBSET S, Cardinality(s) = 0 PROVE s \in P
      BY <1>1, <2>1, FS_EmptySet
    <2> QED
      BY <2>1
  <1>3. ASSUME NEW n \in Q PROVE n + 1 \in Q
    <2>1. ASSUME NEW s \in SUBSET S, Cardinality(s) = n + 1 PROVE s \in P
      <3>1. s # {}
        BY <1>3, <2>1, FS_EmptySet
      <3>2. PICK x \in s : TRUE
        BY <3>1
      <3>3. IsFiniteSet(s \ {x}) /\ Cardinality(s \ {x}) = Cardinality(s) - 1
        BY <1>1, FS_RemoveElement
      <3>4. s \ {x} \in P
        BY <1>3, <2>1, <3>3
      <3>5. (s \ {x}) \cup {x} = s /\ x \notin s \ {x} /\ s \ {x} \in SUBSET S
        BY <3>2
      <3> QED
        BY <3>4, <3>5
    <2> QED
      BY <1>3, <2>1
  <1>4. Q \in SUBSET Nat
    OBVIOUS
  <1> HIDE DEF Q
  <1>5. Q = Nat
    BY <1>2, <1>3, <1>4, NatInduct
  <1>6. S \in SUBSET S /\ Cardinality(S) \in Nat
    BY <1>1
  <1> QED
    BY <1>5, <1>6 DEF Q

Pick(s) == CHOOSE x \in s : TRUE

\* The recursion the fold runs, on the subsets in D.
FoldEq(h, D, g) == h = [s \in D |-> IF s = {} THEN 0 ELSE g[Pick(s)] + h[s \ {Pick(s)}]]

LEMMA SumIsFold ==
    ASSUME NEW g
    PROVE  SumOf(g) = (CHOOSE h : FoldEq(h, SUBSET (DOMAIN g), g))[DOMAIN g]
  BY DEF SumOf, FoldFunction, FoldFunctionOnSet, MapThenFoldSet, FoldEq, Pick

LEMMA PickIn == ASSUME NEW s, s # {} PROVE Pick(s) \in s
  BY DEF Pick

LEMMA FoldExists ==
    ASSUME NEW S, IsFiniteSet(S), NEW g
    PROVE  \E h : FoldEq(h, SUBSET S, g)
  <1> DEFINE D(n) == {s \in SUBSET S : Cardinality(s) <= n}
             Q == {n \in Nat : \E h : FoldEq(h, D(n), g)}
  <1>1. ASSUME NEW s \in SUBSET S PROVE IsFiniteSet(s) /\ Cardinality(s) \in Nat
    BY FS_Subset, FS_CardinalityType
  <1>2. 0 \in Q
    <2>1. ASSUME NEW s \in D(0) PROVE s = {}
      BY <1>1, FS_EmptySet
    <2> DEFINE h == [s \in D(0) |-> 0]
    <2>2. FoldEq(h, D(0), g)
      BY <2>1 DEF FoldEq
    <2> QED
      BY <2>2
  <1>3. ASSUME NEW n \in Q PROVE n + 1 \in Q
    <2>1. PICK h : FoldEq(h, D(n), g)
      BY <1>3
    <2> DEFINE h2 == [s \in D(n + 1) |-> IF s = {} THEN 0 ELSE g[Pick(s)] + h[s \ {Pick(s)}]]
    <2>2. ASSUME NEW u \in D(n) PROVE u \in D(n + 1) /\ h2[u] = h[u]
      <3>1. u \in D(n + 1)
        BY <1>1
      <3>2. h[u] = IF u = {} THEN 0 ELSE g[Pick(u)] + h[u \ {Pick(u)}]
        BY <2>1 DEF FoldEq
      <3> QED
        BY <3>1, <3>2
    <2>3. ASSUME NEW s \in D(n + 1), s # {} PROVE s \ {Pick(s)} \in D(n)
      <3>1. Pick(s) \in s
        BY <2>3, PickIn
      <3>2. Cardinality(s \ {Pick(s)}) = Cardinality(s) - 1
        BY <1>1, <3>1, FS_RemoveElement
      <3> QED
        BY <1>1, <3>2
    <2>4. ASSUME NEW s \in D(n + 1)
          PROVE  h2[s] = IF s = {} THEN 0 ELSE g[Pick(s)] + h2[s \ {Pick(s)}]
      BY <2>2, <2>3
    <2>5. h2 = [s \in D(n + 1) |-> h2[s]]
      OBVIOUS
    <2>6. FoldEq(h2, D(n + 1), g)
      <3> HIDE DEF h2, D
      <3> QED
        BY <2>4, <2>5 DEF FoldEq
    <2> HIDE DEF h2
    <2>7. n + 1 \in Nat
      BY <1>3
    <2>8. \E f : FoldEq(f, D(n + 1), g)
      BY <2>6
    <2> HIDE DEF D
    <2> QED
      BY <2>7, <2>8
  <1>4. Q \in SUBSET Nat
    OBVIOUS
  <1> HIDE DEF Q
  <1>5. Q = Nat
    BY <1>2, <1>3, <1>4, NatInduct
  <1>6. Cardinality(S) \in Q
    BY <1>1, <1>5
  <1>7. D(Cardinality(S)) = SUBSET S
    <2>1. ASSUME NEW s \in SUBSET S PROVE Cardinality(s) <= Cardinality(S)
      BY FS_Subset
    <2> QED
      BY <2>1
  <1> QED
    BY <1>6, <1>7 DEF Q

FoldOn(h, S, g) == FoldEq(h, SUBSET S, g)
Agree(g, k, T) == \A x \in T : g[x] = k[x]

\* The fold over S restricted to a subset is the fold over the subset.
LEMMA FoldAgree ==
    ASSUME NEW S, IsFiniteSet(S), NEW T, T \subseteq S, NEW g, NEW k, Agree(g, k, T),
           NEW h, FoldOn(h, S, g), NEW j, FoldOn(j, T, k)
    PROVE  h[T] = j[T]
  <1> DEFINE Q == {n \in Nat : \A s \in SUBSET T : Cardinality(s) = n => h[s] = j[s]}
  <1>1. ASSUME NEW s \in SUBSET T PROVE IsFiniteSet(s) /\ Cardinality(s) \in Nat /\ s \in SUBSET S
    BY FS_Subset, FS_CardinalityType
  <1>2. ASSUME NEW s \in SUBSET T
        PROVE  /\ h[s] = IF s = {} THEN 0 ELSE g[Pick(s)] + h[s \ {Pick(s)}]
               /\ j[s] = IF s = {} THEN 0 ELSE k[Pick(s)] + j[s \ {Pick(s)}]
    BY <1>1 DEF FoldEq, FoldOn
  <1>3. 0 \in Q
    <2>1. ASSUME NEW s \in SUBSET T, Cardinality(s) = 0 PROVE h[s] = j[s]
      <3>1. s = {}
        BY <1>1, <2>1, FS_EmptySet
      <3> QED
        BY <1>2, <3>1
    <2> QED
      BY <2>1
  <1>4. ASSUME NEW n \in Q PROVE n + 1 \in Q
    <2>1. ASSUME NEW s \in SUBSET T, Cardinality(s) = n + 1 PROVE h[s] = j[s]
      <3>0. n \in Nat /\ Cardinality({}) = 0
        BY <1>4, FS_EmptySet
      <3>1. s # {}
        BY <2>1, <3>0
      <3>2. Pick(s) \in s
        BY <3>1, PickIn
      <3>3. Cardinality(s \ {Pick(s)}) = n /\ s \ {Pick(s)} \in SUBSET T
        <4>1. Cardinality(s \ {Pick(s)}) = Cardinality(s) - 1
          BY <1>1, <3>2, FS_RemoveElement
        <4> QED
          BY <1>4, <2>1, <4>1
      <3>4. h[s \ {Pick(s)}] = j[s \ {Pick(s)}]
        BY <1>4, <3>3
      <3>5. g[Pick(s)] = k[Pick(s)]
        BY <3>2 DEF Agree
      <3> QED
        BY <1>2, <3>1, <3>4, <3>5
    <2> QED
      BY <1>4, <2>1
  <1>5. Q \in SUBSET Nat
    OBVIOUS
  <1> HIDE DEF Q
  <1>6. Q = Nat
    BY <1>3, <1>4, <1>5, NatInduct
  <1>7. T \in SUBSET T /\ Cardinality(T) \in Q
    BY <1>1, <1>6
  <1> QED
    BY <1>7 DEF Q

\* A sum over a subset, as a sum of its own.
Part(g, T) == [x \in T |-> g[x]]

LEMMA SumEmpty == ASSUME NEW g, DOMAIN g = {} PROVE SumOf(g) = 0
  <1>1. IsFiniteSet({})
    BY FS_EmptySet
  <1>2. \E h : FoldEq(h, SUBSET {}, g)
    BY <1>1, FoldExists
  <1>3. PICK h : h = (CHOOSE f : FoldEq(f, SUBSET {}, g)) /\ FoldEq(h, SUBSET {}, g)
    BY <1>2
  <1>4. h[{}] = 0
    BY <1>3 DEF FoldEq
  <1> QED
    BY <1>3, <1>4, SumIsFold

\* One element taken out, the one the fold takes first.
LEMMA SumPick ==
    ASSUME NEW S, IsFiniteSet(S), S # {}, NEW g, DOMAIN g = S
    PROVE  SumOf(g) = g[Pick(S)] + SumOf(Part(g, S \ {Pick(S)}))
  <1> SUFFICES ASSUME NEW T, T = S \ {Pick(S)}, NEW k, k = Part(g, T)
               PROVE  SumOf(g) = g[Pick(S)] + SumOf(k)
    OBVIOUS
  <1>1. Pick(S) \in S
    BY PickIn
  <1>2. IsFiniteSet(T) /\ T \subseteq S
    BY FS_Subset
  <1>3. DOMAIN k = T /\ Agree(g, k, T)
    BY DEF Part, Agree
  <1>4. PICK h : h = (CHOOSE f : FoldEq(f, SUBSET S, g)) /\ FoldEq(h, SUBSET S, g)
    BY FoldExists
  <1>5. PICK j : j = (CHOOSE f : FoldEq(f, SUBSET T, k)) /\ FoldEq(j, SUBSET T, k)
    BY <1>2, FoldExists
  <1>6. SumOf(g) = h[S] /\ SumOf(k) = j[T]
    BY <1>3, <1>4, <1>5, SumIsFold
  <1>7. h[S] = g[Pick(S)] + h[S \ {Pick(S)}]
    BY <1>4 DEF FoldEq
  <1>8. FoldOn(h, S, g) /\ FoldOn(j, T, k)
    BY <1>4, <1>5 DEF FoldOn
  <1>9. h[T] = j[T]
    BY <1>2, <1>3, <1>8, FoldAgree
  <1> QED
    BY <1>6, <1>7, <1>9

-----------------------------------------------------------------------------
\* The sum of g over T.
SumAt(g, T) == SumOf(Part(g, T))
Nats(g, T) == \A x \in T : g[x] \in Nat

LEMMA SumAtAgree == ASSUME NEW g, NEW k, NEW T, Agree(g, k, T) PROVE SumAt(g, T) = SumAt(k, T)
  <1>1. Part(g, T) = Part(k, T)
    BY DEF Agree, Part
  <1> QED
    BY <1>1 DEF SumAt

LEMMA SumAtEmpty == ASSUME NEW g PROVE SumAt(g, {}) = 0
  BY SumEmpty DEF SumAt, Part

LEMMA SumAtPick ==
    ASSUME NEW S, IsFiniteSet(S), S # {}, NEW g
    PROVE  SumAt(g, S) = g[Pick(S)] + SumAt(g, S \ {Pick(S)})
  <1> SUFFICES ASSUME NEW T, T = S \ {Pick(S)}, NEW k, k = Part(g, S)
               PROVE  SumOf(k) = g[Pick(S)] + SumOf(Part(g, T))
    BY DEF SumAt
  <1>1. Pick(S) \in S
    BY PickIn
  <1>2. DOMAIN k = S /\ k[Pick(S)] = g[Pick(S)] /\ Part(k, T) = Part(g, T)
    BY <1>1 DEF Part
  <1>3. SumOf(k) = k[Pick(S)] + SumOf(Part(k, S \ {Pick(S)}))
    BY <1>2, SumPick
  <1> QED
    BY <1>2, <1>3

LEMMA SumAtNat ==
    ASSUME NEW S, IsFiniteSet(S), NEW g, Nats(g, S)
    PROVE  SumAt(g, S) \in Nat
  <1> DEFINE Q == {n \in Nat : \A T \in SUBSET S : Cardinality(T) = n => SumAt(g, T) \in Nat}
  <1>1. ASSUME NEW T \in SUBSET S PROVE IsFiniteSet(T) /\ Cardinality(T) \in Nat
    BY FS_Subset, FS_CardinalityType
  <1>2. 0 \in Q
    <2>1. ASSUME NEW T \in SUBSET S, Cardinality(T) = 0 PROVE SumAt(g, T) \in Nat
      <3>1. T = {}
        BY <1>1, <2>1, FS_EmptySet
      <3> QED
        BY <3>1, SumAtEmpty
    <2> QED
      BY <2>1
  <1>3. ASSUME NEW n \in Q PROVE n + 1 \in Q
    <2>0. n \in Nat /\ Cardinality({}) = 0
      BY <1>3, FS_EmptySet
    <2>1. ASSUME NEW T \in SUBSET S, Cardinality(T) = n + 1 PROVE SumAt(g, T) \in Nat
      <3> DEFINE c == Pick(T)
      <3>1. T # {}
        BY <2>0, <2>1
      <3>2. c \in T
        BY <3>1, PickIn
      <3>3. Cardinality(T \ {c}) = Cardinality(T) - 1
        BY <1>1, <3>2, FS_RemoveElement
      <3>4. SumAt(g, T \ {c}) \in Nat
        BY <1>3, <2>0, <2>1, <3>3
      <3>5. SumAt(g, T) = g[c] + SumAt(g, T \ {c})
        BY <1>1, <3>1, SumAtPick
      <3>6. g[c] \in Nat
        BY <3>2 DEF Nats
      <3> QED
        BY <3>4, <3>5, <3>6
    <2> QED
      BY <2>0, <2>1
  <1>4. Q \in SUBSET Nat
    OBVIOUS
  <1> HIDE DEF Q
  <1>5. Q = Nat
    BY <1>2, <1>3, <1>4, NatInduct
  <1>6. S \in SUBSET S /\ Cardinality(S) \in Q
    BY <1>1, <1>5
  <1> QED
    BY <1>6 DEF Q

\* The order in which the elements are taken does not matter.
LEMMA SumAtTake ==
    ASSUME NEW S, IsFiniteSet(S), NEW g, Nats(g, S)
    PROVE  SumAt(g, S) \in Nat /\ \A x \in S : SumAt(g, S) = g[x] + SumAt(g, S \ {x})
  <1> DEFINE Good(T) == SumAt(g, T) \in Nat /\ \A x \in T : SumAt(g, T) = g[x] + SumAt(g, T \ {x})
             Q == {n \in Nat : \A T \in SUBSET S : Cardinality(T) = n => Good(T)}
  <1>1. ASSUME NEW T \in SUBSET S PROVE IsFiniteSet(T) /\ Cardinality(T) \in Nat
    BY FS_Subset, FS_CardinalityType
  <1>2. 0 \in Q
    <2>1. ASSUME NEW T \in SUBSET S, Cardinality(T) = 0 PROVE Good(T)
      <3>1. T = {}
        BY <1>1, <2>1, FS_EmptySet
      <3> QED
        BY <3>1, SumAtEmpty
    <2> QED
      BY <2>1
  <1>3. ASSUME NEW n \in Q PROVE n + 1 \in Q
    <2>0. n \in Nat /\ Cardinality({}) = 0
      BY <1>3, FS_EmptySet
    <2>1. ASSUME NEW T \in SUBSET S, Cardinality(T) = n + 1 PROVE Good(T)
      <3> DEFINE c == Pick(T)
      <3>1. T # {}
        BY <2>0, <2>1
      <3>2. c \in T
        BY <3>1, PickIn
      <3>3. ASSUME NEW x \in T PROVE Good(T \ {x})
        <4>1. Cardinality(T \ {x}) = Cardinality(T) - 1
          BY <1>1, FS_RemoveElement
        <4>2. Cardinality(T \ {x}) = n /\ T \ {x} \in SUBSET S
          BY <2>0, <2>1, <4>1
        <4> HIDE DEF Good
        <4> QED
          BY <1>3, <4>2
      <3>4. SumAt(g, T) = g[c] + SumAt(g, T \ {c})
        BY <1>1, <3>1, SumAtPick
      <3>5. g[c] \in Nat /\ \A x \in T : g[x] \in Nat
        BY <3>2 DEF Nats
      <3> HIDE DEF c
      <3>6. SumAt(g, T) \in Nat
        BY <3>2, <3>3, <3>4, <3>5
      <3>7. ASSUME NEW x \in T PROVE SumAt(g, T) = g[x] + SumAt(g, T \ {x})
        <4>1. CASE x = c
          BY <3>4, <4>1
        <4>2. CASE x # c
          <5>1. SumAt(g, T \ {c}) = g[x] + SumAt(g, (T \ {c}) \ {x})
            BY <3>2, <3>3, <4>2
          <5>2. SumAt(g, T \ {x}) = g[c] + SumAt(g, (T \ {x}) \ {c})
            BY <3>2, <3>3, <4>2
          <5>3. (T \ {c}) \ {x} = (T \ {x}) \ {c}
            OBVIOUS
          <5>4. SumAt(g, (T \ {x}) \ {c}) \in Nat
            <6>1. IsFiniteSet((T \ {x}) \ {c})
              BY <1>1
            <6>2. Nats(g, (T \ {x}) \ {c})
              BY <3>5 DEF Nats
            <6> QED
              BY <6>1, <6>2, SumAtNat
          <5> QED
            BY <3>4, <3>5, <5>1, <5>2, <5>3, <5>4
        <4> QED
          BY <4>1, <4>2
      <3> QED
        BY <3>6, <3>7
    <2> HIDE DEF Good
    <2>2. n + 1 \in Nat
      BY <2>0
    <2> QED
      BY <2>1, <2>2
  <1>4. Q \in SUBSET Nat
    OBVIOUS
  <1> HIDE DEF Q
  <1>5. Q = Nat
    BY <1>2, <1>3, <1>4, NatInduct
  <1>6. S \in SUBSET S /\ Cardinality(S) \in Q
    BY <1>1, <1>5
  <1> QED
    BY <1>6 DEF Q

LEMMA SumAtAdd ==
    ASSUME NEW S, IsFiniteSet(S), NEW x, x \notin S, NEW g, Nats(g, S), g[x] \in Nat
    PROVE  SumAt(g, S \cup {x}) = g[x] + SumAt(g, S)
  <1>1. IsFiniteSet(S \cup {x}) /\ (S \cup {x}) \ {x} = S /\ x \in S \cup {x}
    BY FS_AddElement
  <1>2. Nats(g, S \cup {x})
    BY DEF Nats
  <1> QED
    BY <1>1, <1>2, SumAtTake

LEMMA SumAtUnion ==
    ASSUME NEW S, IsFiniteSet(S), NEW T, IsFiniteSet(T), S \cap T = {}, NEW g, Nats(g, S), Nats(g, T)
    PROVE  SumAt(g, S \cup T) = SumAt(g, S) + SumAt(g, T)
  <1> DEFINE P == {U \in SUBSET T : SumAt(g, S \cup U) = SumAt(g, S) + SumAt(g, U)}
  <1>1. SumAt(g, S) \in Nat
    BY SumAtNat
  <1>2. {} \in P
    <2>1. S \cup {} = S
      OBVIOUS
    <2> QED
      BY <1>1, <2>1, SumAtEmpty
  <1>3. ASSUME NEW U \in SUBSET T, NEW x \in T, U \in P, x \notin U PROVE U \cup {x} \in P
    <2>1. IsFiniteSet(U) /\ IsFiniteSet(S \cup U)
      BY FS_Subset, FS_Union
    <2>2. Nats(g, U) /\ Nats(g, S \cup U) /\ g[x] \in Nat /\ x \notin S \cup U
      BY <1>3 DEF Nats
    <2>3. SumAt(g, U \cup {x}) = g[x] + SumAt(g, U)
      BY <1>3, <2>1, <2>2, SumAtAdd
    <2>4. SumAt(g, (S \cup U) \cup {x}) = g[x] + SumAt(g, S \cup U)
      BY <2>1, <2>2, SumAtAdd
    <2>5. SumAt(g, (S \cup U) \cup {x}) = SumAt(g, S \cup (U \cup {x})) /\ SumAt(g, U) \in Nat
      <3>1. (S \cup U) \cup {x} = S \cup (U \cup {x})
        OBVIOUS
      <3>2. SumAt(g, (S \cup U) \cup {x}) = SumAt(g, S \cup (U \cup {x}))
        BY <3>1
      <3> QED
        BY <2>1, <2>2, <3>2, SumAtNat
    <2>6. SumAt(g, S \cup U) = SumAt(g, S) + SumAt(g, U)
      BY <1>3
    <2>7. SumAt(g, S \cup (U \cup {x})) = SumAt(g, S) + SumAt(g, U \cup {x})
      BY <1>1, <2>2, <2>3, <2>4, <2>5, <2>6
    <2> QED
      BY <2>7
  <1> HIDE DEF P
  <1>4. T \in P
    BY <1>2, <1>3, SetInduct
  <1> QED
    BY <1>4 DEF P

LEMMA SumAtSubset ==
    ASSUME NEW T, IsFiniteSet(T), NEW S, S \subseteq T, NEW g, Nats(g, T)
    PROVE  SumAt(g, S) <= SumAt(g, T) /\ SumAt(g, T) \in Nat /\ SumAt(g, S) \in Nat
  <1> DEFINE U == T \ S
  <1>1. IsFiniteSet(S) /\ IsFiniteSet(U) /\ S \cap U = {} /\ S \cup U = T
    BY FS_Subset
  <1>2. Nats(g, S) /\ Nats(g, U)
    BY DEF Nats
  <1> HIDE DEF U
  <1>3. SumAt(g, S) \in Nat /\ SumAt(g, U) \in Nat
    BY <1>1, <1>2, SumAtNat
  <1>4. SumAt(g, S \cup U) = SumAt(g, S) + SumAt(g, U)
    BY <1>1, <1>2, SumAtUnion
  <1>5. SumAt(g, S \cup U) = SumAt(g, T)
    BY <1>1
  <1> QED
    BY <1>3, <1>4, <1>5

\* The elements of T grouped by k: the sum of the groups' sums.
Group(T, k, v) == {x \in T : k[x] = v}
GroupSums(g, T, k, V) == [v \in V |-> SumAt(g, Group(T, k, v))]

LEMMA SumAtGroups ==
    ASSUME NEW T, IsFiniteSet(T), NEW k, NEW V, IsFiniteSet(V), NEW g, Nats(g, T)
    PROVE  SumAt(GroupSums(g, T, k, V), V) = SumAt(g, {x \in T : k[x] \in V}) /\ Nats(GroupSums(g, T, k, V), V)
  <1> DEFINE h == GroupSums(g, T, k, V)
             In(W) == {x \in T : k[x] \in W}
             P == {W \in SUBSET V : SumAt(h, W) = SumAt(g, In(W))}
  <1>1. ASSUME NEW W PROVE IsFiniteSet(In(W)) /\ Nats(g, In(W))
    <2>1. In(W) \subseteq T
      OBVIOUS
    <2> QED
      BY <2>1, FS_Subset DEF Nats
  <1>2. ASSUME NEW v PROVE IsFiniteSet(Group(T, k, v)) /\ Nats(g, Group(T, k, v))
    <2>1. Group(T, k, v) \subseteq T
      BY DEF Group
    <2> QED
      BY <2>1, FS_Subset DEF Nats
  <1>3. \A v \in V : h[v] = SumAt(g, Group(T, k, v))
    BY DEF GroupSums
  <1>4. Nats(h, V)
    BY <1>2, <1>3, SumAtNat DEF Nats
  <1> HIDE DEF h
  <1>5. {} \in P
    <2>1. In({}) = {}
      OBVIOUS
    <2> QED
      BY <2>1, SumAtEmpty
  <1>6. ASSUME NEW W \in SUBSET V, NEW v \in V, W \in P, v \notin W PROVE W \cup {v} \in P
    <2>1. IsFiniteSet(W) /\ Nats(h, W) /\ h[v] \in Nat
      BY <1>4, FS_Subset DEF Nats
    <2>2. SumAt(h, W \cup {v}) = h[v] + SumAt(h, W)
      BY <1>6, <2>1, SumAtAdd
    <2>3. In(W) \cap Group(T, k, v) = {} /\ In(W) \cup Group(T, k, v) = In(W \cup {v})
      BY <1>6 DEF Group
    <2>4. SumAt(h, W) = SumAt(g, In(W))
      BY <1>6
    <2>5. IsFiniteSet(In(W)) /\ Nats(g, In(W))
      BY <1>1
    <2>6. IsFiniteSet(Group(T, k, v)) /\ Nats(g, Group(T, k, v))
      BY <1>2
    <2>7. h[v] = SumAt(g, Group(T, k, v))
      BY <1>3
    <2> HIDE DEF In
    <2>8. SumAt(g, In(W) \cup Group(T, k, v)) = SumAt(g, In(W)) + SumAt(g, Group(T, k, v))
      BY <2>3, <2>5, <2>6, SumAtUnion
    <2>9. SumAt(g, In(W)) \in Nat
      BY <2>5, SumAtNat
    <2>10. SumAt(h, W \cup {v}) = SumAt(g, In(W \cup {v}))
      <3>1. SumAt(g, In(W) \cup Group(T, k, v)) = SumAt(g, In(W \cup {v}))
        BY <2>3
      <3> QED
        BY <2>1, <2>2, <2>4, <2>7, <2>8, <2>9, <3>1
    <2> QED
      BY <2>10
  <1> HIDE DEF P
  <1>7. V \in P
    BY <1>5, <1>6, SetInduct
  <1> QED
    BY <1>4, <1>7 DEF P, h

\* A sum over the image of an injective f.
Injects(f, T) == \A x, y \in T : f[x] = f[y] => x = y
Image(f, T) == {f[x] : x \in T}
Along(g, f, T) == [x \in T |-> g[f[x]]]

LEMMA SumAtImage ==
    ASSUME NEW T, IsFiniteSet(T), NEW f, Injects(f, T), NEW g, Nats(g, Image(f, T))
    PROVE  SumAt(g, Image(f, T)) = SumAt(Along(g, f, T), T) /\ IsFiniteSet(Image(f, T))
  <1> DEFINE h == Along(g, f, T)
             P == {W \in SUBSET T : SumAt(g, Image(f, W)) = SumAt(h, W) /\ IsFiniteSet(Image(f, W))}
  <1>1. \A x \in T : h[x] = g[f[x]] /\ f[x] \in Image(f, T)
    BY DEF Along, Image
  <1>2. Nats(h, T)
    BY <1>1 DEF Nats
  <1> HIDE DEF h
  <1>3. {} \in P
    <2>1. Image(f, {}) = {}
      BY DEF Image
    <2> QED
      BY <2>1, SumAtEmpty, FS_EmptySet
  <1>4. ASSUME NEW W \in SUBSET T, NEW x \in T, W \in P, x \notin W PROVE W \cup {x} \in P
    <2>1. Image(f, W \cup {x}) = Image(f, W) \cup {f[x]} /\ f[x] \notin Image(f, W)
      BY <1>4 DEF Image, Injects
    <2>2. IsFiniteSet(W) /\ Nats(h, W) /\ h[x] \in Nat
      BY <1>2, FS_Subset DEF Nats
    <2>3. Nats(g, Image(f, W)) /\ g[f[x]] \in Nat
      BY <1>1 DEF Nats, Image
    <2>4. SumAt(h, W \cup {x}) = h[x] + SumAt(h, W)
      BY <1>4, <2>2, SumAtAdd
    <2>5. SumAt(g, Image(f, W)) = SumAt(h, W) /\ IsFiniteSet(Image(f, W))
      BY <1>4
    <2>6. SumAt(g, Image(f, W) \cup {f[x]}) = g[f[x]] + SumAt(g, Image(f, W))
      BY <2>1, <2>3, <2>5, SumAtAdd
    <2>7. IsFiniteSet(Image(f, W) \cup {f[x]})
      BY <2>5, FS_AddElement
    <2>8. SumAt(g, Image(f, W \cup {x})) = SumAt(h, W \cup {x}) /\ IsFiniteSet(Image(f, W \cup {x}))
      BY <1>1, <2>1, <2>4, <2>5, <2>6, <2>7
    <2> QED
      BY <2>8
  <1> HIDE DEF P
  <1>5. T \in P
    BY <1>3, <1>4, SetInduct
  <1> QED
    BY <1>5 DEF P, h

\* A cardinality is a sum of ones.
Ones(T) == [x \in T |-> 1]

LEMMA SumAtOnes ==
    ASSUME NEW T, IsFiniteSet(T)
    PROVE  SumAt(Ones(T), T) = Cardinality(T) /\ Nats(Ones(T), T)
  <1> DEFINE P == {W \in SUBSET T : SumAt(Ones(T), W) = Cardinality(W)}
  <1>1. \A x \in T : Ones(T)[x] = 1
    BY DEF Ones
  <1>2. {} \in P
    BY SumAtEmpty, FS_EmptySet
  <1>3. ASSUME NEW W \in SUBSET T, NEW x \in T, W \in P, x \notin W PROVE W \cup {x} \in P
    <2>1. IsFiniteSet(W) /\ Nats(Ones(T), W) /\ Ones(T)[x] = 1
      BY <1>1, FS_Subset DEF Nats
    <2>2. SumAt(Ones(T), W \cup {x}) = 1 + SumAt(Ones(T), W)
      <3>1. Ones(T)[x] \in Nat
        BY <2>1
      <3>2. SumAt(Ones(T), W \cup {x}) = Ones(T)[x] + SumAt(Ones(T), W)
        BY <1>3, <2>1, <3>1, SumAtAdd
      <3> QED
        BY <2>1, <3>2
    <2>3. Cardinality(W \cup {x}) = Cardinality(W) + 1 /\ Cardinality(W) \in Nat
      BY <1>3, <2>1, FS_AddElement, FS_CardinalityType
    <2>4. SumAt(Ones(T), W) = Cardinality(W)
      BY <1>3
    <2>5. SumAt(Ones(T), W \cup {x}) = Cardinality(W \cup {x})
      BY <2>2, <2>3, <2>4
    <2> QED
      BY <2>5
  <1> HIDE DEF P
  <1>4. T \in P
    BY <1>2, <1>3, SetInduct
  <1> QED
    BY <1>1, <1>4 DEF P, Nats

LEMMA FiniteImage == ASSUME NEW T, IsFiniteSet(T), NEW f PROVE IsFiniteSet(Image(f, T))
  <1> DEFINE h == [x \in T |-> f[x]]
  <1>1. h \in [T -> Image(f, T)] /\ \A y \in Image(f, T) : \E x \in T : h[x] = y
    BY DEF Image
  <1>2. h \in Surjection(T, Image(f, T))
    BY <1>1 DEF Surjection
  <1> QED
    BY <1>2, FS_Surjection

\* The sizes of the groups add up to the size of the whole.
LEMMA CardGroups ==
    ASSUME NEW T, IsFiniteSet(T), NEW k, NEW V, IsFiniteSet(V)
    PROVE  SumOf([v \in V |-> Cardinality(Group(T, k, v))]) = Cardinality({x \in T : k[x] \in V})
  <1> DEFINE A == {x \in T : k[x] \in V}
  <1>1. ASSUME NEW W, W \subseteq T PROVE SumAt(Ones(T), W) = Cardinality(W)
    <2>1. IsFiniteSet(W) /\ Agree(Ones(T), Ones(W), W)
      BY <1>1, FS_Subset DEF Agree, Ones
    <2> QED
      BY <2>1, SumAtAgree, SumAtOnes
  <1>2. Nats(Ones(T), T)
    BY SumAtOnes
  <1>3. SumAt(GroupSums(Ones(T), T, k, V), V) = SumAt(Ones(T), A)
    BY <1>2, SumAtGroups
  <1>4. \A v \in V : SumAt(Ones(T), Group(T, k, v)) = Cardinality(Group(T, k, v))
    BY <1>1 DEF Group
  <1>5. Part(GroupSums(Ones(T), T, k, V), V) = [v \in V |-> Cardinality(Group(T, k, v))]
    BY <1>4 DEF Part, GroupSums
  <1>6. A \subseteq T
    OBVIOUS
  <1> QED
    BY <1>1, <1>3, <1>5, <1>6 DEF SumAt

-----------------------------------------------------------------------------
(***************************************************************************)
(* Billing.  The log is a finite set of events, a model has one price per  *)
(* moment, and so the join of the log with the prices in force has one row *)
(* per event.                                                              *)
(***************************************************************************)
Logged == [id : {e.id : e \in Events}, subject : {e.subject : e \in Events}, tenant : BTenants \cup {Erased},
           model : {e.model : e \in Events}, in : Nat, out : Nat, lat : Nat, at : Instants]
TokenCount == [e \in Logged |-> e.in + e.out]
OnePrice == \A p, q \in prices : p.model = q.model /\ p.from = q.from => p = q

LEMMA TokensSum ==
    ASSUME NEW S, S \subseteq Logged
    PROVE  TokensOf(S) = SumAt(TokenCount, S) /\ Nats(TokenCount, S)
  <1>1. \A e \in S : TokenCount[e] = e.in + e.out /\ e.in \in Nat /\ e.out \in Nat
    BY DEF TokenCount, Logged
  <1>2. Part(TokenCount, S) = [e \in S |-> e.in + e.out]
    BY <1>1 DEF Part
  <1>3. TokensOf(S) = SumOf([e \in S |-> e.in + e.out])
    BY DEF TokensOf, SumOver, SumOf
  <1>4. Nats(TokenCount, S)
    BY <1>1 DEF Nats
  <1> QED
    BY <1>2, <1>3, <1>4 DEF SumAt

LEMMA FmtInjective ==
    ASSUME NEW a \in Instants, NEW b \in Instants, fmtTime(a) = fmtTime(b)
    PROVE  a = b
  <1>1. /\ a[1] \in Nat /\ a[2] \in 0..9 /\ a[3] \in 0..9 /\ a = <<a[1], a[2], a[3]>>
        /\ b[1] \in Nat /\ b[2] \in 0..9 /\ b[3] \in 0..9 /\ b = <<b[1], b[2], b[3]>>
    BY DEF Instants
  <1>2. /\ a[1] = b[1]
        /\ (IF a[2] = 0 /\ a[3] = 0 THEN Zed ELSE Dot) = (IF b[2] = 0 /\ b[3] = 0 THEN Zed ELSE Dot)
        /\ (IF a[2] = 0 /\ a[3] = 0 THEN 0 ELSE a[2]) = (IF b[2] = 0 /\ b[3] = 0 THEN 0 ELSE b[2])
        /\ (IF a[3] = 0 THEN Zed ELSE a[3]) = (IF b[3] = 0 THEN Zed ELSE b[3])
    BY DEF fmtTime
  <1>3. a[2] = b[2] /\ a[3] = b[3]
    BY <1>1, <1>2 DEF Zed, Dot
  <1> QED
    BY <1>1, <1>2, <1>3

LEMMA LeqAntisymmetric ==
    ASSUME NEW a \in Instants, NEW b \in Instants, Leq(a, b), Leq(b, a)
    PROVE  a = b
  <1> SUFFICES ASSUME NEW s, s = fmtTime(a), NEW t, t = fmtTime(b), s # t PROVE FALSE
    BY FmtInjective
  <1>1. /\ a[1] \in Nat /\ a[2] \in 0..9 /\ a[3] \in 0..9
        /\ b[1] \in Nat /\ b[2] \in 0..9 /\ b[3] \in 0..9
    BY DEF Instants
  <1>2. /\ DOMAIN s = 1..4 /\ \A i \in 1..4 : s[i] \in Int
        /\ DOMAIN t = 1..4 /\ \A i \in 1..4 : t[i] \in Int
    BY <1>1 DEF fmtTime, Zed, Dot
  <1>3. TextLeq(s, t) /\ TextLeq(t, s)
    BY DEF Leq
  <1>4. PICK i \in 1..4 : s[i] < t[i] /\ \A j \in 1 .. i - 1 : s[j] = t[j]
    BY <1>2, <1>3 DEF TextLeq
  <1>5. PICK k \in 1..4 : t[k] < s[k] /\ \A j \in 1 .. k - 1 : t[j] = s[j]
    BY <1>2, <1>3 DEF TextLeq
  <1>6. CASE i < k
    <2>1. i \in 1 .. k - 1
      BY <1>6
    <2> QED
      BY <1>2, <1>4, <1>5, <2>1
  <1>7. CASE k < i
    <2>1. k \in 1 .. i - 1
      BY <1>7
    <2> QED
      BY <1>2, <1>4, <1>5, <2>1
  <1>8. CASE i = k
    BY <1>2, <1>4, <1>5, <1>8
  <1> QED
    BY <1>6, <1>7, <1>8

LEMMA PriceInForce ==
    ASSUME OnePrice, prices \subseteq Prices, NEW t, NEW p \in currentPricing(t), NEW q \in currentPricing(t), p.model = q.model
    PROVE  p = q
  <1>1. p \in prices /\ q \in prices /\ Leq(p.from, t) /\ Leq(q.from, t)
    BY DEF currentPricing
  <1>2. Leq(q.from, p.from) /\ Leq(p.from, q.from)
    BY <1>1 DEF currentPricing
  <1>3. p.from \in Instants /\ q.from \in Instants
    BY <1>1, BillingAssumption
  <1>4. p.from = q.from
    BY <1>2, <1>3, LeqAntisymmetric
  <1> QED
    BY <1>1, <1>4 DEF OnePrice

\* The row of an event.
PriceOf(t, e) ==
    IF \E p \in currentPricing(t) : p.model = e.model THEN CHOOSE p \in currentPricing(t) : p.model = e.model
    ELSE [in |-> 0, out |-> 0]
RowOf(H, t) == [e \in H |-> <<e, PriceOf(t, e)>>]

LEMMA JoinedIsImage ==
    ASSUME OnePrice, prices \subseteq Prices, NEW H, NEW t
    PROVE  joined(H, t) = Image(RowOf(H, t), H) /\ Injects(RowOf(H, t), H)
  <1>0. \A e \in H : RowOf(H, t)[e] = <<e, PriceOf(t, e)>>
    BY DEF RowOf
  <1>1. ASSUME NEW r \in joined(H, t) PROVE r \in Image(RowOf(H, t), H)
    <2>1. CASE r \in H \X currentPricing(t) /\ r[2].model = r[1].model
      <3>1. r[1] \in H /\ r[2] \in currentPricing(t) /\ r = <<r[1], r[2]>> /\ r[2].model = r[1].model
        BY <2>1
      <3>2. PriceOf(t, r[1]) \in currentPricing(t) /\ PriceOf(t, r[1]).model = r[1].model
        BY <3>1 DEF PriceOf
      <3>3. PriceOf(t, r[1]) = r[2]
        BY <3>1, <3>2, PriceInForce
      <3>4. RowOf(H, t)[r[1]] = r
        BY <1>0, <3>1, <3>3
      <3> QED
        BY <3>1, <3>4 DEF Image
    <2>2. CASE \E e \in H : (\A p \in currentPricing(t) : p.model # e.model) /\ r = <<e, [in |-> 0, out |-> 0]>>
      <3>1. PICK e \in H : (\A p \in currentPricing(t) : p.model # e.model) /\ r = <<e, [in |-> 0, out |-> 0]>>
        BY <2>2
      <3>2. RowOf(H, t)[e] = r
        BY <1>0, <3>1 DEF PriceOf
      <3> QED
        BY <3>2 DEF Image
    <2> QED
      BY <2>1, <2>2 DEF joined
  <1>2. ASSUME NEW e \in H PROVE RowOf(H, t)[e] \in joined(H, t)
    <2>1. CASE \E p \in currentPricing(t) : p.model = e.model
      <3>1. PriceOf(t, e) \in currentPricing(t) /\ PriceOf(t, e).model = e.model
        BY <2>1 DEF PriceOf
      <3> QED
        BY <1>0, <3>1 DEF joined
    <2>2. CASE \A p \in currentPricing(t) : p.model # e.model
      <3>1. PriceOf(t, e) = [in |-> 0, out |-> 0]
        BY <2>2 DEF PriceOf
      <3> QED
        BY <1>0, <2>2, <3>1 DEF joined
    <2> QED
      BY <2>1, <2>2
  <1>3. Injects(RowOf(H, t), H)
    BY <1>0 DEF Injects
  <1>4. joined(H, t) \subseteq Image(RowOf(H, t), H)
    BY <1>1
  <1>5. Image(RowOf(H, t), H) \subseteq joined(H, t)
    BY <1>2 DEF Image
  <1> QED
    BY <1>3, <1>4, <1>5

\* A team's tokens are its events', whatever they are joined with.
LEMMA TeamTokens ==
    ASSUME OnePrice, prices \subseteq Prices, NEW H, H \subseteq Logged, IsFiniteSet(H), NEW t
    PROVE  SumOver(joined(H, t), LAMBDA r : r[1].in + r[1].out) = SumAt(TokenCount, H)
  <1> SUFFICES ASSUME NEW J, J = joined(H, t), NEW f, f = RowOf(H, t), NEW g, g = [r \in J |-> r[1].in + r[1].out]
               PROVE  SumOf(g) = SumAt(TokenCount, H)
    BY DEF SumOver, SumOf
  <1>1. J = Image(f, H) /\ Injects(f, H)
    BY JoinedIsImage
  <1>2. \A e \in H : f[e] \in J /\ f[e][1] = e /\ e.in \in Nat /\ e.out \in Nat
    BY <1>1 DEF Image, RowOf, Logged
  <1>3. \A e \in H : g[f[e]] = e.in + e.out
    BY <1>2
  <1>4. Nats(g, Image(f, H))
    BY <1>2, <1>3 DEF Nats, Image
  <1>5. SumAt(g, Image(f, H)) = SumAt(Along(g, f, H), H)
    BY <1>1, <1>4, SumAtImage
  <1>6. Agree(Along(g, f, H), TokenCount, H)
    BY <1>3 DEF Agree, Along, TokenCount
  <1>7. SumAt(Along(g, f, H), H) = SumAt(TokenCount, H)
    BY <1>6, SumAtAgree
  <1>8. Part(g, J) = g
    BY DEF Part
  <1>9. SumOf(g) = SumAt(g, Image(f, H))
    BY <1>1, <1>8 DEF SumAt
  <1> QED
    BY <1>5, <1>7, <1>9

-----------------------------------------------------------------------------
(***************************************************************************)
(* The organisation report: what is counted so far and what the teams left *)
(* would add now lie, together, between the total at the start and now.    *)
(* The billing report: what was read is at most what the log holds now.    *)
(***************************************************************************)
Tenants == BTenants \cup {Erased}

OrgReq == [at : {"team", "done"}, org : {t.org : t \in BTenants}, w : Windows, left : SUBSET Tenants,
           total : Nat, low : Nat, erased : BOOLEAN]

\* The events of the teams not read yet, and those of the organisation.
LeftEvents(E, left, w) == {e \in E : e.tenant \in left /\ Between(e.at, w)}
OrgEvents(E, org, w) == {e \in E : <<org, e.tenant>> \in OrgLike /\ Between(e.at, w)}

Bracketed(r, E) ==
    /\ \A t \in r.left : <<r.org, t>> \in OrgLike
    /\ r.low <= r.total + SumAt(TokenCount, LeftEvents(E, r.left, r.w))
    /\ r.total + SumAt(TokenCount, LeftEvents(E, r.left, r.w)) <= SumAt(TokenCount, OrgEvents(E, r.org, r.w))
    /\ r.at = "done" => r.left = {}

\* The events behind a line, and the timed ones of a tenant.
LineEvents(E, x, w) == {e \in E : e.tenant = x.tenant /\ e.model = x.model /\ Between(e.at, w)}
TimedEvents(E, t, w) == {e \in E : e.tenant = t /\ Between(e.at, w) /\ e.lat > 0}

SheetIn(r, l, n, m) ==
    \/ r \in [at : {"sla"}, w : Windows, lines : {l}, timed : {n}, erased : BOOLEAN]
    \/ r \in [at : {"sent"}, w : Windows, lines : {l}, timed : {n}, erased : BOOLEAN, sla : {m}]
SheetRec(r) == \E l, n, m : SheetIn(r, l, n, m)

LinesHold(r, E) == \A x \in r.lines : x.requests \in Nat /\ x.requests <= Cardinality(LineEvents(E, x, r.w))

TimedHolds(r, E, t) ==
    /\ r.timed[t] \in Nat
    /\ r.at = "sla" => r.timed[t] <= Cardinality(TimedEvents(E, t, r.w))
    /\ r.at = "sent" =>
        /\ r.timed[t] > 0 => t \in DOMAIN r.sla /\ r.timed[t] <= r.sla[t].of
        /\ t \in DOMAIN r.sla => r.sla[t].of \in Nat /\ r.sla[t].of <= Cardinality(TimedEvents(E, t, r.w))

SheetBracketed(r, E) ==
    /\ LinesHold(r, E)
    /\ DOMAIN r.timed = Tenants
    /\ \A t \in Tenants : TimedHolds(r, E, t)

OrgHolds(r, E) == r \in OrgReq /\ (~r.erased => Bracketed(r, E))
SheetHolds(r, E) == SheetRec(r) /\ (~r.erased => SheetBracketed(r, E))

BillInv ==
    /\ events \subseteq Logged /\ IsFiniteSet(events)
    /\ prices \subseteq Prices /\ OnePrice
    /\ report = BIdle \/ OrgHolds(report, events) \/ SheetHolds(report, events)

LEMMA EventSums ==
    ASSUME NEW E, E \subseteq Logged, IsFiniteSet(E), NEW S, S \subseteq E
    PROVE  /\ S \subseteq Logged /\ IsFiniteSet(S) /\ Nats(TokenCount, S)
           /\ TokensOf(S) = SumAt(TokenCount, S) /\ SumAt(TokenCount, S) \in Nat
  <1>1. S \subseteq Logged /\ IsFiniteSet(S)
    BY FS_Subset
  <1>2. TokensOf(S) = SumAt(TokenCount, S) /\ Nats(TokenCount, S)
    BY <1>1, TokensSum
  <1> QED
    BY <1>1, <1>2, SumAtNat

\* What is under way can be told by its stage.
LEMMA Stages ==
    ASSUME NEW r
    PROVE  /\ r \in OrgReq => r.at \in {"team", "done"}
           /\ SheetRec(r) => r.at \in {"sla", "sent"}
           /\ BIdle.at = "idle"
  BY DEF OrgReq, SheetRec, SheetIn, BIdle

LEMMA ReportUnderWay ==
    ASSUME BillInv
    PROVE  /\ report.at \in {"idle", "team", "done", "sla", "sent"}
           /\ report.at \in {"team", "done"} => OrgHolds(report, events)
           /\ report.at \in {"sla", "sent"} => SheetHolds(report, events)
  BY Stages DEF BillInv, OrgHolds, SheetHolds

\* What was read stays behind the log.
LEMMA SheetGrows ==
    ASSUME NEW E, IsFiniteSet(E), NEW e, NEW r, SheetBracketed(r, E)
    PROVE  SheetBracketed(r, E \cup {e})
  <1>1. IsFiniteSet(E \cup {e})
    BY FS_AddElement
  <1>2. ASSUME NEW A, NEW B, A \subseteq B, B \subseteq E \cup {e}
        PROVE  Cardinality(A) <= Cardinality(B) /\ Cardinality(A) \in Nat /\ Cardinality(B) \in Nat
    <2>1. IsFiniteSet(B) /\ IsFiniteSet(A)
      BY <1>1, <1>2, FS_Subset
    <2> QED
      BY <1>2, <2>1, FS_Subset, FS_CardinalityType
  <1>3. ASSUME NEW x \in r.lines
        PROVE  x.requests \in Nat /\ x.requests <= Cardinality(LineEvents(E \cup {e}, x, r.w))
    <2>1. LineEvents(E, x, r.w) \subseteq LineEvents(E \cup {e}, x, r.w) /\ LineEvents(E \cup {e}, x, r.w) \subseteq E \cup {e}
      BY DEF LineEvents
    <2>2. Cardinality(LineEvents(E, x, r.w)) <= Cardinality(LineEvents(E \cup {e}, x, r.w))
          /\ Cardinality(LineEvents(E, x, r.w)) \in Nat /\ Cardinality(LineEvents(E \cup {e}, x, r.w)) \in Nat
      BY <1>2, <2>1
    <2>3. x.requests \in Nat /\ x.requests <= Cardinality(LineEvents(E, x, r.w))
      BY <1>3 DEF SheetBracketed, LinesHold
    <2> QED
      BY <2>2, <2>3
  <1>4. ASSUME NEW t \in Tenants
        PROVE  TimedHolds(r, E \cup {e}, t)
    <2>1. TimedEvents(E, t, r.w) \subseteq TimedEvents(E \cup {e}, t, r.w) /\ TimedEvents(E \cup {e}, t, r.w) \subseteq E \cup {e}
      BY DEF TimedEvents
    <2>2. Cardinality(TimedEvents(E, t, r.w)) <= Cardinality(TimedEvents(E \cup {e}, t, r.w))
          /\ Cardinality(TimedEvents(E, t, r.w)) \in Nat /\ Cardinality(TimedEvents(E \cup {e}, t, r.w)) \in Nat
      BY <1>2, <2>1
    <2>3. TimedHolds(r, E, t)
      BY DEF SheetBracketed
    <2> QED
      BY <2>2, <2>3 DEF TimedHolds
  <1> QED
    BY <1>3, <1>4 DEF SheetBracketed, LinesHold

\* A new event adds as much to the organisation as to the teams left.
LEMMA BracketedGrows ==
    ASSUME NEW E, E \subseteq Logged, IsFiniteSet(E), NEW e \in Logged, NEW r \in OrgReq, Bracketed(r, E)
    PROVE  Bracketed(r, E \cup {e})
  <1> DEFINE L == LeftEvents(E, r.left, r.w)
             O == OrgEvents(E, r.org, r.w)
             L2 == LeftEvents(E \cup {e}, r.left, r.w)
             O2 == OrgEvents(E \cup {e}, r.org, r.w)
  <1>1. CASE e \in E
    <2>1. E \cup {e} = E
      BY <1>1
    <2> QED
      BY <2>1
  <1>2. CASE e \notin E
    <2>1. E \cup {e} \subseteq Logged /\ IsFiniteSet(E \cup {e})
      BY FS_AddElement
    <2>2. L \subseteq E /\ O \subseteq E /\ L2 \subseteq E \cup {e} /\ O2 \subseteq E \cup {e} /\ e \notin L /\ e \notin O
      BY <1>2 DEF LeftEvents, OrgEvents
    <2>3. /\ L2 = IF e.tenant \in r.left /\ Between(e.at, r.w) THEN L \cup {e} ELSE L
          /\ O2 = IF <<r.org, e.tenant>> \in OrgLike /\ Between(e.at, r.w) THEN O \cup {e} ELSE O
      BY DEF LeftEvents, OrgEvents
    <2>4. e.tenant \in r.left => <<r.org, e.tenant>> \in OrgLike
      BY DEF Bracketed
    <2> HIDE DEF L, O, L2, O2
    <2>5. /\ IsFiniteSet(L) /\ Nats(TokenCount, L) /\ SumAt(TokenCount, L) \in Nat
          /\ IsFiniteSet(O) /\ Nats(TokenCount, O) /\ SumAt(TokenCount, O) \in Nat
      BY <2>2, EventSums
    <2>6. TokenCount[e] \in Nat
      BY DEF TokenCount, Logged
    <2>7. SumAt(TokenCount, L \cup {e}) = TokenCount[e] + SumAt(TokenCount, L)
      BY <2>2, <2>5, <2>6, SumAtAdd
    <2>8. SumAt(TokenCount, O \cup {e}) = TokenCount[e] + SumAt(TokenCount, O)
      BY <2>2, <2>5, <2>6, SumAtAdd
    <2>9. r.low <= r.total + SumAt(TokenCount, L) /\ r.total + SumAt(TokenCount, L) <= SumAt(TokenCount, O)
      BY DEF Bracketed, L, O
    <2>10. r.low \in Nat /\ r.total \in Nat
      BY DEF OrgReq
    <2>11. r.low <= r.total + SumAt(TokenCount, L2) /\ r.total + SumAt(TokenCount, L2) <= SumAt(TokenCount, O2)
      <3>1. CASE e.tenant \in r.left /\ Between(e.at, r.w)
        <4>1. L2 = L \cup {e} /\ O2 = O \cup {e}
          BY <2>3, <2>4, <3>1
        <4>2. SumAt(TokenCount, L2) = TokenCount[e] + SumAt(TokenCount, L) /\ SumAt(TokenCount, O2) = TokenCount[e] + SumAt(TokenCount, O)
          BY <2>7, <2>8, <4>1
        <4> QED
          BY <2>5, <2>6, <2>9, <2>10, <4>2
      <3>2. CASE ~(e.tenant \in r.left /\ Between(e.at, r.w))
        <4>1. L2 = L /\ (O2 = O \cup {e} \/ O2 = O)
          BY <2>3, <3>2
        <4>2. SumAt(TokenCount, L2) = SumAt(TokenCount, L)
              /\ (SumAt(TokenCount, O2) = TokenCount[e] + SumAt(TokenCount, O) \/ SumAt(TokenCount, O2) = SumAt(TokenCount, O))
          BY <2>8, <4>1
        <4> QED
          BY <2>5, <2>6, <2>9, <2>10, <4>2
      <3> QED
        BY <3>1, <3>2
    <2> QED
      BY <2>11 DEF Bracketed, L2, O2
  <1> QED
    BY <1>1, <1>2

LEMMA BillInitInv == BillInit => BillInv
  BY FS_EmptySet DEF BillInit, BillInv, OnePrice

LEMMA BillNextInv == BillInv /\ [BillNext]_billVars => BillInv'
  <1> SUFFICES ASSUME BillInv, [BillNext]_billVars PROVE BillInv'
    OBVIOUS
  <1>0. /\ events \subseteq Logged /\ IsFiniteSet(events) /\ prices \subseteq Prices /\ OnePrice
        /\ report = BIdle \/ OrgHolds(report, events) \/ SheetHolds(report, events)
    BY DEF BillInv
  <1>1. ASSUME NEW e \in Events, RecordInferenceEvent(e) PROVE BillInv'
    <2>1. events' = events \cup {e} /\ prices' = prices /\ report' = report
      BY <1>1 DEF RecordInferenceEvent
    <2>2. e \in Logged
      BY BillingAssumption DEF Logged
    <2>3. events' \subseteq Logged /\ IsFiniteSet(events')
      BY <1>0, <2>1, <2>2, FS_AddElement
    <2>4. /\ OrgHolds(report, events) => OrgHolds(report, events')
          /\ SheetHolds(report, events) => SheetHolds(report, events')
      BY <1>0, <2>1, <2>2, BracketedGrows, SheetGrows DEF OrgHolds, SheetHolds
    <2> QED
      BY <1>0, <2>1, <2>3, <2>4 DEF BillInv, OnePrice
  <1>2. ASSUME NEW s, EraseSubjectEvents(s) PROVE BillInv'
    <2> DEFINE f == [e \in events |-> IF e.subject = s THEN [e EXCEPT !.tenant = Erased] ELSE e]
    <2>1. /\ events' = {f[e] : e \in events} /\ prices' = prices
          /\ report' = IF report = BIdle THEN report ELSE [report EXCEPT !.erased = TRUE]
      BY <1>2 DEF EraseSubjectEvents
    <2>2. ASSUME NEW e \in events PROVE f[e] \in Logged
      <3>1. e \in Logged
        BY <1>0
      <3>2. [e EXCEPT !.tenant = Erased] \in Logged
        BY <3>1 DEF Logged
      <3> QED
        BY <3>1, <3>2
    <2>3. IsFiniteSet({f[e] : e \in events})
      <3>1. {f[e] : e \in events} = Image(f, events)
        BY DEF Image
      <3> HIDE DEF f
      <3>2. f \in [events -> Image(f, events)]
        BY DEF Image, f
      <3>3. f \in Surjection(events, Image(f, events))
        BY <3>2 DEF Surjection, Image
      <3> QED
        BY <1>0, <3>1, <3>3, FS_Surjection
    <2>4. events' \subseteq Logged /\ IsFiniteSet(events')
      <3> HIDE DEF f
      <3> QED
        BY <2>1, <2>2, <2>3
    <2>5. report' = BIdle \/ (report' \in OrgReq /\ report'.erased) \/ (SheetRec(report') /\ report'.erased)
      <3>1. CASE report = BIdle
        BY <2>1, <3>1
      <3>2. CASE report # BIdle /\ report \in OrgReq
        BY <2>1, <3>2 DEF OrgReq
      <3>3. CASE report # BIdle /\ SheetRec(report)
        <4>1. report' = [report EXCEPT !.erased = TRUE]
          BY <2>1, <3>3
        <4>2. PICK l, n, m : SheetIn(report, l, n, m)
          BY <3>3 DEF SheetRec
        <4>3. SheetIn(report', l, n, m) /\ report'.erased
          BY <4>1, <4>2 DEF SheetIn
        <4> QED
          BY <4>3 DEF SheetRec
      <3> QED
        BY <1>0, <3>1, <3>2, <3>3 DEF OrgHolds, SheetHolds
    <2> QED
      BY <1>0, <2>1, <2>4, <2>5 DEF BillInv, OnePrice, OrgHolds, SheetHolds
  <1>3. ASSUME NEW p \in Prices, SetPrice(p) PROVE BillInv'
    <2>1. prices' = {q \in prices : q.model # p.model \/ q.from # p.from} \cup {p} /\ UNCHANGED <<events, report>>
      BY <1>3 DEF SetPrice, UpsertModelPricing
    <2>2. prices' \subseteq Prices /\ OnePrice'
      BY <1>0, <2>1 DEF OnePrice
    <2> QED
      BY <1>0, <2>1, <2>2 DEF BillInv
  <1>4. ASSUME NEW t \in BTenants, NEW w \in Windows, GetOrgBillingReport(t.org, w) PROVE BillInv'
    <2> DEFINE O == OrgEvents(events, t.org, w)
    <2>1. UNCHANGED <<events, prices>> /\ report' = [at |-> "team", org |-> t.org, w |-> w, left |-> OrgTeams(t.org, w), total |-> 0,
                                                      low |-> OrgTotal(t.org, w), erased |-> FALSE]
      BY <1>4 DEF GetOrgBillingReport
    <2>2. OrgTotal(t.org, w) = SumAt(TokenCount, O) /\ SumAt(TokenCount, O) \in Nat
      <3>1. O \subseteq events
        BY DEF OrgEvents
      <3>2. OrgTotal(t.org, w) = TokensOf(O)
        BY DEF OrgTotal, OrgEvents
      <3> HIDE DEF O
      <3> QED
        BY <1>0, <3>1, <3>2, EventSums
    <2>3. OrgTeams(t.org, w) \subseteq Tenants
      BY <1>0 DEF OrgTeams, Tenants, Logged
    <2>4. \A u \in OrgTeams(t.org, w) : <<t.org, u>> \in OrgLike
      BY DEF OrgTeams
    <2>5. LeftEvents(events, OrgTeams(t.org, w), w) = O
      BY DEF LeftEvents, OrgTeams, OrgEvents
    <2>6. SumAt(TokenCount, LeftEvents(events, OrgTeams(t.org, w), w)) = SumAt(TokenCount, O)
      BY <2>5
    <2> HIDE DEF O
    <2>7. report' \in OrgReq
      BY <2>1, <2>2, <2>3 DEF OrgReq
    <2>8. /\ report'.left = OrgTeams(t.org, w) /\ report'.org = t.org /\ report'.w = w /\ report'.total = 0
          /\ report'.low = SumAt(TokenCount, O) /\ report'.at = "team"
      BY <2>1, <2>2
    <2>9. 0 + SumAt(TokenCount, O) = SumAt(TokenCount, O) /\ SumAt(TokenCount, O) <= SumAt(TokenCount, O)
      BY <2>2
    <2>10. Bracketed(report', events)
      BY <2>4, <2>6, <2>8, <2>9 DEF Bracketed, O
    <2> QED
      BY <1>0, <2>1, <2>7, <2>10 DEF BillInv, OnePrice, OrgHolds
  <1>5. ASSUME NEW t \in report.left, report.at = "team", UNCHANGED <<events, prices>>,
               report' = [report EXCEPT !.left = @ \ {t}, !.total = @ + GetTeamBillingReport(t, report.w).tokens]
        PROVE  BillInv'
    <2> DEFINE w == report.w
               H == {e \in events : e.tenant = t /\ Between(e.at, w)}
               L == LeftEvents(events, report.left, w)
               L2 == LeftEvents(events, report.left \ {t}, w)
    <2>1. report \in OrgReq
      BY <1>5, ReportUnderWay DEF OrgHolds
    <2>2. H \subseteq events /\ L2 \subseteq events /\ H \cap L2 = {} /\ H \cup L2 = L
      BY <1>5 DEF LeftEvents
    <2>3. GetTeamBillingReport(t, w).tokens = SumOver(joined(H, w.end), LAMBDA r : r[1].in + r[1].out)
      BY DEF GetTeamBillingReport
    <2> HIDE DEF H, L2
    <2>4. /\ H \subseteq Logged /\ IsFiniteSet(H) /\ Nats(TokenCount, H) /\ SumAt(TokenCount, H) \in Nat
          /\ IsFiniteSet(L2) /\ Nats(TokenCount, L2) /\ SumAt(TokenCount, L2) \in Nat
      BY <1>0, <2>2, EventSums
    <2>5. GetTeamBillingReport(t, w).tokens = SumAt(TokenCount, H)
      BY <1>0, <2>3, <2>4, TeamTokens
    <2>6. SumAt(TokenCount, L) = SumAt(TokenCount, H) + SumAt(TokenCount, L2)
      <3>1. SumAt(TokenCount, H \cup L2) = SumAt(TokenCount, H) + SumAt(TokenCount, L2)
        BY <2>2, <2>4, SumAtUnion
      <3>2. SumAt(TokenCount, H \cup L2) = SumAt(TokenCount, L)
        BY <2>2
      <3> QED
        BY <3>1, <3>2
    <2>7. /\ report' \in OrgReq /\ report'.left = report.left \ {t} /\ report'.total = report.total + SumAt(TokenCount, H)
          /\ report'.low = report.low /\ report'.org = report.org /\ report'.w = w /\ report'.at = "team"
          /\ report'.erased = report.erased
      <3>1. report' = [report EXCEPT !.left = report.left \ {t}, !.total = report.total + SumAt(TokenCount, H)]
        BY <1>5, <2>5
      <3>2. report.total + SumAt(TokenCount, H) \in Nat /\ report.left \ {t} \in SUBSET Tenants
        BY <2>1, <2>4 DEF OrgReq
      <3> QED
        BY <1>5, <2>1, <3>1, <3>2 DEF OrgReq
    <2>8. ASSUME ~report.erased PROVE Bracketed(report', events)
      <3>1. /\ \A u \in report.left : <<report.org, u>> \in OrgLike
            /\ report.low <= report.total + SumAt(TokenCount, L)
            /\ report.total + SumAt(TokenCount, L) <= SumAt(TokenCount, OrgEvents(events, report.org, w))
        BY <1>5, <2>8, ReportUnderWay DEF Bracketed, OrgHolds
      <3>2. report.total \in Nat
        BY <2>1 DEF OrgReq
      <3>3. report.total + SumAt(TokenCount, L) = (report.total + SumAt(TokenCount, H)) + SumAt(TokenCount, L2)
        BY <2>4, <2>6, <3>2
      <3> HIDE DEF L
      <3> QED
        BY <2>7, <3>1, <3>3 DEF Bracketed, L2
    <2> QED
      BY <1>0, <1>5, <2>7, <2>8 DEF BillInv, OnePrice, OrgHolds
  <1>6. ASSUME report.at = "team", report.left = {}, report' = [report EXCEPT !.at = "done"], UNCHANGED <<events, prices>> PROVE BillInv'
    <2>1. report \in OrgReq
      BY <1>6, ReportUnderWay DEF OrgHolds
    <2>2. /\ report' \in OrgReq /\ report'.left = report.left /\ report'.total = report.total /\ report'.low = report.low
          /\ report'.org = report.org /\ report'.w = report.w /\ report'.erased = report.erased /\ report'.at = "done"
      BY <1>6, <2>1 DEF OrgReq
    <2>3. ~report.erased => Bracketed(report', events)
      BY <1>6, <2>2, ReportUnderWay DEF Bracketed, OrgHolds
    <2> QED
      BY <1>0, <1>6, <2>2, <2>3 DEF BillInv, OnePrice, OrgHolds
  <1>7. ASSUME ReportSent PROVE BillInv'
    BY <1>0, <1>7 DEF ReportSent, BillInv, OnePrice
  <1>8. CASE UNCHANGED billVars
    BY <1>0, <1>8 DEF billVars, BillInv, OnePrice
  <1>9. TeamOfOrgReport => BillInv'
    BY <1>5, <1>6 DEF TeamOfOrgReport
  <1>10. ASSUME NEW w \in Windows, NEW T, handleBillingReport(w, T) PROVE BillInv'
    <2> DEFINE n == [t \in Tenants |-> TimedOf(t, w)]
               lines == {x \in GetBillingReport(w) : x.tenant \in T}
    <2>1. UNCHANGED <<events, prices>> /\ report' = [at |-> "sla", w |-> w, lines |-> lines, timed |-> n, erased |-> FALSE]
      BY <1>10 DEF handleBillingReport, Tenants
    <2>2. \A t \in Tenants : n[t] = Cardinality(TimedEvents(events, t, w)) /\ n[t] \in Nat
      <3>1. ASSUME NEW t PROVE TimedOf(t, w) = Cardinality(TimedEvents(events, t, w)) /\ TimedOf(t, w) \in Nat
        <4>1. TimedEvents(events, t, w) \subseteq events
          BY DEF TimedEvents
        <4>2. IsFiniteSet(TimedEvents(events, t, w))
          BY <1>0, <4>1, FS_Subset
        <4>3. Cardinality(TimedEvents(events, t, w)) \in Nat
          BY <4>2, FS_CardinalityType
        <4> QED
          BY <4>3 DEF TimedOf, TimedEvents
      <3> QED
        BY <3>1
    <2>3. ASSUME NEW x \in lines PROVE x.requests \in Nat /\ x.requests = Cardinality(LineEvents(events, x, w))
      <3>1. PICK g \in {<<e.tenant, e.model>> : e \in {e \in events : Between(e.at, w)}} :
              /\ x.tenant = g[1] /\ x.model = g[2]
              /\ x.requests = Cardinality({e \in {e \in events : Between(e.at, w)} : <<e.tenant, e.model>> = g})
        BY DEF GetBillingReport
      <3>2. {e \in {e \in events : Between(e.at, w)} : <<e.tenant, e.model>> = g} = LineEvents(events, x, w)
        BY <3>1 DEF LineEvents
      <3>3. LineEvents(events, x, w) \subseteq events
        BY DEF LineEvents
      <3>4. IsFiniteSet(LineEvents(events, x, w))
        BY <1>0, <3>3, FS_Subset
      <3>5. Cardinality(LineEvents(events, x, w)) \in Nat
        BY <3>4, FS_CardinalityType
      <3> QED
        BY <3>1, <3>2, <3>5
    <2> HIDE DEF n, lines
    <2>4. /\ report'.at = "sla" /\ report'.w = w /\ report'.lines = lines /\ report'.timed = n /\ ~report'.erased
          /\ SheetRec(report')
      <3>1. SheetIn(report', lines, n, n)
        BY <2>1 DEF SheetIn
      <3> QED
        BY <2>1, <3>1 DEF SheetRec
    <2>5. LinesHold(report', events)
      BY <2>3, <2>4 DEF LinesHold
    <2>6. DOMAIN n = Tenants
      BY DEF n
    <2>7. \A t \in Tenants : TimedHolds(report', events, t)
      BY <2>2, <2>4 DEF TimedHolds
    <2>8. SheetHolds(report', events)
      BY <2>4, <2>5, <2>6, <2>7 DEF SheetHolds, SheetBracketed
    <2> QED
      BY <1>0, <2>1, <2>8 DEF BillInv, OnePrice
  <1>11. ASSUME NEW threshold, SlaOfReport(threshold) PROVE BillInv'
    <2> DEFINE figures == GetSLAComplianceByTenant(report.w, threshold)
    <2>1. /\ report.at = "sla" /\ UNCHANGED <<events, prices>>
          /\ report' = [at |-> "sent", w |-> report.w, lines |-> report.lines, timed |-> report.timed,
                        erased |-> report.erased, sla |-> figures]
      BY <1>11 DEF SlaOfReport
    <2>2. ASSUME NEW t \in Tenants
          PROVE  /\ t \in DOMAIN figures <=> TimedEvents(events, t, report.w) # {}
                 /\ t \in DOMAIN figures => figures[t].of = Cardinality(TimedEvents(events, t, report.w))
                 /\ Cardinality(TimedEvents(events, t, report.w)) \in Nat
                 /\ TimedEvents(events, t, report.w) = {} => Cardinality(TimedEvents(events, t, report.w)) = 0
      <3>1. TimedEvents(events, t, report.w) \subseteq events
        BY DEF TimedEvents
      <3>2. IsFiniteSet(TimedEvents(events, t, report.w))
        BY <1>0, <3>1, FS_Subset
      <3>3. Cardinality(TimedEvents(events, t, report.w)) \in Nat
        BY <3>2, FS_CardinalityType
      <3>4. /\ t \in DOMAIN figures <=> TimedEvents(events, t, report.w) # {}
            /\ t \in DOMAIN figures => figures[t].of = Cardinality(TimedEvents(events, t, report.w))
        BY DEF GetSLAComplianceByTenant, TimedEvents, Tenants
      <3> QED
        BY <3>3, <3>4, FS_EmptySet
    <2> HIDE DEF figures
    <2>3. /\ report'.at = "sent" /\ report'.w = report.w /\ report'.lines = report.lines /\ report'.timed = report.timed
          /\ report'.erased = report.erased /\ report'.sla = figures /\ SheetRec(report')
      <3>1. PICK l, n, m : SheetIn(report, l, n, m)
        BY <2>1, ReportUnderWay DEF SheetHolds, SheetRec
      <3>2. report.w \in Windows /\ report.erased \in BOOLEAN
        BY <3>1 DEF SheetIn
      <3>3. SheetIn(report', report.lines, report.timed, figures)
        BY <2>1, <3>2 DEF SheetIn
      <3> QED
        BY <2>1, <3>3 DEF SheetRec
    <2>4. ASSUME ~report.erased PROVE SheetBracketed(report', events)
      <3>1. SheetBracketed(report, events)
        BY <2>1, <2>4, ReportUnderWay DEF SheetHolds
      <3>2. LinesHold(report', events) /\ DOMAIN report'.timed = Tenants
        BY <2>3, <3>1 DEF SheetBracketed, LinesHold
      <3>3. ASSUME NEW t \in Tenants PROVE TimedHolds(report', events, t)
        <4>1. report.timed[t] \in Nat /\ report.timed[t] <= Cardinality(TimedEvents(events, t, report.w))
          BY <2>1, <3>1 DEF SheetBracketed, TimedHolds
        <4> QED
          BY <2>2, <2>3, <4>1 DEF TimedHolds
      <3> QED
        BY <3>2, <3>3 DEF SheetBracketed
    <2> QED
      BY <1>0, <2>1, <2>3, <2>4 DEF BillInv, OnePrice, SheetHolds
  <1> QED
    BY <1>1, <1>2, <1>3, <1>4, <1>7, <1>8, <1>9, <1>10, <1>11 DEF BillNext

LEMMA BillInvSafe == BillInv => BillTypeOK /\ OrgReportBracketed /\ ReportBracketed
  <1> SUFFICES ASSUME BillInv PROVE BillTypeOK /\ OrgReportBracketed /\ ReportBracketed
    OBVIOUS
  <1>1. BillTypeOK
    <2>1. report.at \in {"idle", "team", "done", "sla", "sent"}
      BY ReportUnderWay
    <2>2. \A e \in events : e.tenant \in BTenants \cup {Erased}
      BY DEF BillInv, Logged
    <2> QED
      BY <2>1, <2>2 DEF BillInv, BillTypeOK
  <1>2. ASSUME report.at = "done", ~report.erased
        PROVE  report.low <= report.total /\ report.total <= OrgTotal(report.org, report.w)
    <2>1. report \in OrgReq /\ Bracketed(report, events)
      BY <1>2, ReportUnderWay DEF OrgHolds
    <2>2. report.left = {}
      BY <1>2, <2>1 DEF Bracketed
    <2>3. LeftEvents(events, report.left, report.w) = {}
      BY <2>2 DEF LeftEvents
    <2>4. SumAt(TokenCount, LeftEvents(events, report.left, report.w)) = 0
      BY <2>3, SumAtEmpty
    <2>5. OrgEvents(events, report.org, report.w) \subseteq events
      BY DEF OrgEvents
    <2>6. TokensOf(OrgEvents(events, report.org, report.w)) = SumAt(TokenCount, OrgEvents(events, report.org, report.w))
      BY <2>5, EventSums DEF BillInv
    <2>7. OrgTotal(report.org, report.w) = TokensOf(OrgEvents(events, report.org, report.w))
      BY DEF OrgTotal, OrgEvents
    <2>8. report.total \in Nat /\ report.total + 0 = report.total
      BY <2>1 DEF OrgReq
    <2> QED
      BY <2>1, <2>4, <2>6, <2>7, <2>8 DEF Bracketed
  <1>3. ASSUME report.at = "sent", ~report.erased
        PROVE  /\ \A x \in report.lines : x.requests <= Cardinality(LineEvents(events, x, report.w))
               /\ \A t \in DOMAIN report.timed :
                   /\ report.timed[t] > 0 => t \in DOMAIN report.sla /\ report.timed[t] <= report.sla[t].of
                   /\ t \in DOMAIN report.sla => report.sla[t].of <= TimedOf(t, report.w)
    <2>1. SheetBracketed(report, events)
      BY <1>3, ReportUnderWay DEF SheetHolds
    <2>2. \A t : TimedOf(t, report.w) = Cardinality(TimedEvents(events, t, report.w))
      BY DEF TimedOf, TimedEvents
    <2> QED
      BY <1>3, <2>1, <2>2 DEF SheetBracketed, LinesHold, TimedHolds
  <1> QED
    BY <1>1, <1>2, <1>3 DEF OrgReportBracketed, ReportBracketed, LineEvents

-----------------------------------------------------------------------------
(***************************************************************************)
(* The reports of one moment.                                              *)
(***************************************************************************)
Hit(w) == {e \in events : Between(e.at, w)}
KeyOf == [e \in Logged |-> <<e.tenant, e.model>>]
TenantOf == [e \in Logged |-> e.tenant]
DayOf == [e \in Logged |-> e.at[1]]
Keys(w) == Image(KeyOf, Hit(w))
LineOf(w) == [g \in Keys(w) |-> [tenant |-> g[1], model |-> g[2], requests |-> Cardinality(Group(Hit(w), KeyOf, g)),
                                 tokens |-> TokensOf(Group(Hit(w), KeyOf, g))]]

LEMMA HitFacts ==
    ASSUME BillInv, NEW w
    PROVE  /\ Hit(w) \subseteq events /\ Hit(w) \subseteq Logged /\ IsFiniteSet(Hit(w)) /\ Nats(TokenCount, Hit(w))
           /\ \A e \in Hit(w) : KeyOf[e] = <<e.tenant, e.model>> /\ TenantOf[e] = e.tenant
  <1>1. Hit(w) \subseteq events
    BY DEF Hit
  <1>2. Hit(w) \subseteq Logged /\ IsFiniteSet(Hit(w)) /\ Nats(TokenCount, Hit(w))
    BY <1>1, EventSums DEF BillInv
  <1> QED
    BY <1>1, <1>2 DEF KeyOf, TenantOf

LEMMA ReportLines ==
    ASSUME BillInv, NEW w
    PROVE  /\ GetBillingReport(w) = Image(LineOf(w), Keys(w)) /\ Injects(LineOf(w), Keys(w)) /\ IsFiniteSet(Keys(w))
           /\ \A g \in Keys(w) : g = <<g[1], g[2]>> /\ LineOf(w)[g].tenant = g[1] /\ LineOf(w)[g].model = g[2]
  <1> DEFINE H == Hit(w)
  <1>1. IsFiniteSet(Keys(w))
    BY HitFacts, FiniteImage DEF Keys
  <1>2. Keys(w) = {<<e.tenant, e.model>> : e \in H}
    BY HitFacts DEF Keys, Image
  <1>3. ASSUME NEW g PROVE {e \in H : <<e.tenant, e.model>> = g} = Group(H, KeyOf, g)
    BY HitFacts DEF Group
  <1>4. GetBillingReport(w) = {LineOf(w)[g] : g \in Keys(w)}
    <2>1. GetBillingReport(w) =
            {[tenant |-> g[1], model |-> g[2], requests |-> Cardinality({e \in H : <<e.tenant, e.model>> = g}),
              tokens |-> TokensOf({e \in H : <<e.tenant, e.model>> = g})] : g \in {<<e.tenant, e.model>> : e \in H}}
      BY DEF GetBillingReport, Hit
    <2>2. \A g \in Keys(w) :
            LineOf(w)[g] = [tenant |-> g[1], model |-> g[2], requests |-> Cardinality({e \in H : <<e.tenant, e.model>> = g}),
                            tokens |-> TokensOf({e \in H : <<e.tenant, e.model>> = g})]
      BY <1>3 DEF LineOf
    <2> QED
      BY <1>2, <2>1, <2>2
  <1>5. ASSUME NEW g \in Keys(w) PROVE g = <<g[1], g[2]>> /\ LineOf(w)[g].tenant = g[1] /\ LineOf(w)[g].model = g[2]
    BY <1>2 DEF LineOf
  <1>6. Injects(LineOf(w), Keys(w))
    BY <1>5 DEF Injects
  <1> QED
    BY <1>1, <1>4, <1>5, <1>6 DEF Image

\* The lines of some keys add up to the events with these keys.
LEMMA LinesTotal ==
    ASSUME BillInv, NEW w, NEW V, V \subseteq Keys(w), NEW R, R = Image(LineOf(w), V)
    PROVE  /\ SumOf([r \in R |-> r.tokens]) = SumAt(TokenCount, {e \in Hit(w) : KeyOf[e] \in V})
           /\ SumOf([r \in R |-> r.requests]) = Cardinality({e \in Hit(w) : KeyOf[e] \in V})
           /\ IsFiniteSet(R) /\ \A r \in R : r.tokens \in Nat /\ r.requests \in Nat
  <1> DEFINE H == Hit(w)
  <1>1. IsFiniteSet(V) /\ Injects(LineOf(w), V)
    BY ReportLines, FS_Subset DEF Injects
  <1>2. IsFiniteSet(H) /\ Nats(TokenCount, H) /\ H \subseteq Logged /\ events \subseteq Logged /\ IsFiniteSet(events) /\ H \subseteq events
    BY HitFacts DEF BillInv
  <1>3. ASSUME NEW g PROVE /\ Group(H, KeyOf, g) \subseteq H /\ IsFiniteSet(Group(H, KeyOf, g)) /\ Cardinality(Group(H, KeyOf, g)) \in Nat
                           /\ TokensOf(Group(H, KeyOf, g)) = SumAt(TokenCount, Group(H, KeyOf, g))
                           /\ SumAt(TokenCount, Group(H, KeyOf, g)) \in Nat
    <2>1. Group(H, KeyOf, g) \subseteq H
      BY DEF Group
    <2>2. IsFiniteSet(Group(H, KeyOf, g))
      BY <1>2, <2>1, FS_Subset
    <2> QED
      BY <1>2, <2>1, <2>2, FS_CardinalityType, EventSums
  <1>4. ASSUME NEW g \in V PROVE /\ LineOf(w)[g].tokens = SumAt(TokenCount, Group(H, KeyOf, g))
                                 /\ LineOf(w)[g].requests = Cardinality(Group(H, KeyOf, g))
    BY <1>3 DEF LineOf
  <1>5. IsFiniteSet(R) /\ \A r \in R : r.tokens \in Nat /\ r.requests \in Nat
    <2>1. IsFiniteSet(R)
      BY <1>1, FiniteImage
    <2>2. ASSUME NEW r \in R PROVE r.tokens \in Nat /\ r.requests \in Nat
      <3>1. PICK g \in V : r = LineOf(w)[g]
        BY DEF Image
      <3> QED
        BY <1>3, <1>4, <3>1
    <2> QED
      BY <2>1, <2>2
  <1>6. ASSUME NEW c, c = Part(c, R), \A r \in R : c[r] \in Nat
        PROVE  SumOf(c) = SumAt(Along(c, LineOf(w), V), V)
    <2>1. Nats(c, Image(LineOf(w), V))
      BY <1>6 DEF Nats
    <2>2. SumAt(c, Image(LineOf(w), V)) = SumAt(Along(c, LineOf(w), V), V)
      BY <1>1, <2>1, SumAtImage
    <2>3. SumAt(c, R) = SumOf(c)
      BY <1>6 DEF SumAt
    <2> QED
      BY <2>2, <2>3
  <1>7. SumOf([r \in R |-> r.tokens]) = SumAt(TokenCount, {e \in H : KeyOf[e] \in V})
    <2> DEFINE c == [r \in R |-> r.tokens]
    <2>1. c = Part(c, R) /\ \A r \in R : c[r] \in Nat
      BY <1>5 DEF Part
    <2>2. SumOf(c) = SumAt(Along(c, LineOf(w), V), V)
      BY <1>6, <2>1
    <2>3. \A g \in V : c[LineOf(w)[g]] = LineOf(w)[g].tokens
      BY DEF Image
    <2>4. Agree(Along(c, LineOf(w), V), GroupSums(TokenCount, H, KeyOf, V), V)
      <3> HIDE DEF c
      <3> QED
        BY <1>4, <2>3 DEF Agree, Along, GroupSums
    <2> HIDE DEF c
    <2>5. SumAt(Along(c, LineOf(w), V), V) = SumAt(GroupSums(TokenCount, H, KeyOf, V), V)
      BY <2>4, SumAtAgree
    <2>6. SumAt(GroupSums(TokenCount, H, KeyOf, V), V) = SumAt(TokenCount, {e \in H : KeyOf[e] \in V})
      BY <1>1, <1>2, SumAtGroups
    <2> QED
      BY <2>2, <2>5, <2>6 DEF c
  <1>8. SumOf([r \in R |-> r.requests]) = Cardinality({e \in H : KeyOf[e] \in V})
    <2> DEFINE c == [r \in R |-> r.requests]
    <2>1. c = Part(c, R) /\ \A r \in R : c[r] \in Nat
      BY <1>5 DEF Part
    <2>2. SumOf(c) = SumAt(Along(c, LineOf(w), V), V)
      BY <1>6, <2>1
    <2>3. \A g \in V : c[LineOf(w)[g]] = LineOf(w)[g].requests
      BY DEF Image
    <2> HIDE DEF c
    <2>4. Part(Along(c, LineOf(w), V), V) = [g \in V |-> Cardinality(Group(H, KeyOf, g))]
      BY <1>4, <2>3 DEF Along, Part
    <2>5. SumOf([g \in V |-> Cardinality(Group(H, KeyOf, g))]) = Cardinality({e \in H : KeyOf[e] \in V})
      BY <1>1, <1>2, CardGroups
    <2> QED
      BY <2>2, <2>4, <2>5 DEF c, SumAt
  <1> QED
    BY <1>5, <1>7, <1>8

ModelRows(w, m) == {r \in GetBillingReport(w) : r.model = m}
ModelKeys(w, m) == {g \in Keys(w) : g[2] = m}
ModelHits(w, m) == {e \in Hit(w) : e.model = m}
KeyedHits(w, V) == {e \in Hit(w) : KeyOf[e] \in V}

\* The lines and the events of one model, and all of them.
LEMMA ModelLines ==
    ASSUME BillInv, NEW w, NEW m
    PROVE  ModelRows(w, m) = Image(LineOf(w), ModelKeys(w, m)) /\ KeyedHits(w, ModelKeys(w, m)) = ModelHits(w, m)
  <1> DEFINE V == ModelKeys(w, m)
  <1>1. GetBillingReport(w) = Image(LineOf(w), Keys(w)) /\ \A g \in Keys(w) : LineOf(w)[g].model = g[2]
    BY ReportLines
  <1>2. \A e \in Hit(w) : KeyOf[e] = <<e.tenant, e.model>> /\ KeyOf[e] \in Keys(w)
    BY HitFacts DEF Keys, Image
  <1>3. {r \in GetBillingReport(w) : r.model = m} = Image(LineOf(w), V)
    BY <1>1 DEF Image, ModelKeys
  <1>4. {e \in Hit(w) : KeyOf[e] \in V} = {e \in Hit(w) : e.model = m}
    BY <1>2 DEF ModelKeys
  <1> QED
    BY <1>3, <1>4 DEF ModelRows, ModelHits, KeyedHits

LEMMA AllLines ==
    ASSUME BillInv, NEW w
    PROVE  {e \in Hit(w) : KeyOf[e] \in Keys(w)} = Hit(w)
  <1>1. \A e \in Hit(w) : KeyOf[e] = <<e.tenant, e.model>> /\ KeyOf[e] \in Keys(w)
    BY HitFacts DEF Keys, Image
  <1> QED
    BY <1>1

\* The lines grouped by one of their columns add up to the whole report.
LEMMA GroupedLines ==
    ASSUME NEW R, IsFiniteSet(R), \A r \in R : r.tokens \in Nat, NEW k
    PROVE  SumOf([v \in Image(k, R) |-> SumOf([r \in Group(R, k, v) |-> r.tokens])]) = SumOf([r \in R |-> r.tokens])
  <1> DEFINE c == [r \in R |-> r.tokens]
             V == Image(k, R)
  <1>1. Nats(c, R) /\ Part(c, R) = c
    BY DEF Nats, Part
  <1>2. ASSUME NEW v PROVE Part(c, Group(R, k, v)) = [r \in Group(R, k, v) |-> r.tokens]
    BY DEF Part, Group
  <1> HIDE DEF c
  <1>3. IsFiniteSet(V)
    BY FiniteImage
  <1>4. SumAt(GroupSums(c, R, k, V), V) = SumAt(c, {r \in R : k[r] \in V})
    <2> HIDE DEF V
    <2> QED
      BY <1>1, <1>3, SumAtGroups
  <1>5. {r \in R : k[r] \in V} = R
    BY DEF Image
  <1>6. SumAt(c, {r \in R : k[r] \in V}) = SumOf(c)
    BY <1>1, <1>5 DEF SumAt
  <1> HIDE DEF V
  <1>7. \A v \in V : SumAt(c, Group(R, k, v)) = SumOf([r \in Group(R, k, v) |-> r.tokens])
    BY <1>2 DEF SumAt
  <1>8. Part(GroupSums(c, R, k, V), V) = [v \in V |-> SumOf([r \in Group(R, k, v) |-> r.tokens])]
    BY <1>7 DEF Part, GroupSums
  <1>9. SumAt(GroupSums(c, R, k, V), V) = SumOf([v \in V |-> SumOf([r \in Group(R, k, v) |-> r.tokens])])
    BY <1>8 DEF SumAt
  <1> QED
    BY <1>4, <1>6, <1>9 DEF c, V

LEMMA ReportTokens ==
    ASSUME BillInv, NEW w, NEW R, R = GetBillingReport(w)
    PROVE  /\ SumOf([r \in R |-> r.tokens]) = SumAt(TokenCount, Hit(w))
           /\ IsFiniteSet(R) /\ \A r \in R : r.tokens \in Nat /\ r.requests \in Nat
           /\ {r.tenant : r \in R} = Image(TenantOf, Hit(w))
  <1>1. R = Image(LineOf(w), Keys(w)) /\ \A g \in Keys(w) : LineOf(w)[g].tenant = g[1]
    BY ReportLines
  <1>2. SumOf([r \in R |-> r.tokens]) = SumAt(TokenCount, {e \in Hit(w) : KeyOf[e] \in Keys(w)})
        /\ IsFiniteSet(R) /\ \A r \in R : r.tokens \in Nat /\ r.requests \in Nat
    BY <1>1, LinesTotal
  <1>3. SumAt(TokenCount, {e \in Hit(w) : KeyOf[e] \in Keys(w)}) = SumAt(TokenCount, Hit(w))
    BY AllLines
  <1>4. {r.tenant : r \in R} = {g[1] : g \in Keys(w)}
    BY <1>1 DEF Image
  <1>5. {g[1] : g \in Keys(w)} = Image(TenantOf, Hit(w))
    BY HitFacts DEF Keys, Image
  <1> QED
    BY <1>2, <1>3, <1>4, <1>5

\* The team reports of all tenants add up to the report.
LEMMA TeamsTotal ==
    ASSUME BillInv, NEW w
    PROVE  SumOf([t \in Image(TenantOf, Hit(w)) |-> GetTeamBillingReport(t, w).tokens]) = SumAt(TokenCount, Hit(w))
  <1> DEFINE H == Hit(w)
             V == Image(TenantOf, H)
  <1>1. IsFiniteSet(H) /\ Nats(TokenCount, H) /\ H \subseteq Logged /\ IsFiniteSet(V)
    BY HitFacts, FiniteImage
  <1>2. ASSUME NEW t PROVE GetTeamBillingReport(t, w).tokens = SumAt(TokenCount, Group(H, TenantOf, t))
    <2>1. {e \in events : e.tenant = t /\ Between(e.at, w)} = Group(H, TenantOf, t)
      <3>1. \A e \in H : TenantOf[e] = e.tenant
        BY HitFacts
      <3> QED
        BY <3>1 DEF Group, Hit
    <2>2. Group(H, TenantOf, t) \subseteq Logged /\ IsFiniteSet(Group(H, TenantOf, t))
      <3>1. Group(H, TenantOf, t) \subseteq H
        BY DEF Group
      <3> QED
        BY <1>1, <3>1, FS_Subset
    <2>3. GetTeamBillingReport(t, w).tokens =
            SumOver(joined({e \in events : e.tenant = t /\ Between(e.at, w)}, w.end), LAMBDA r : r[1].in + r[1].out)
      BY DEF GetTeamBillingReport
    <2>4. GetTeamBillingReport(t, w).tokens = SumOver(joined(Group(H, TenantOf, t), w.end), LAMBDA r : r[1].in + r[1].out)
      BY <2>1, <2>3
    <2> QED
      BY <2>2, <2>4, TeamTokens DEF BillInv
  <1>3. SumAt(GroupSums(TokenCount, H, TenantOf, V), V) = SumAt(TokenCount, {e \in H : TenantOf[e] \in V})
    <2> HIDE DEF V
    <2> QED
      BY <1>1, SumAtGroups
  <1>4. {e \in H : TenantOf[e] \in V} = H
    BY DEF Image
  <1>5. Part(GroupSums(TokenCount, H, TenantOf, V), V) = [t \in V |-> GetTeamBillingReport(t, w).tokens]
    BY <1>2 DEF Part, GroupSums
  <1>6. SumAt(TokenCount, {e \in H : TenantOf[e] \in V}) = SumAt(TokenCount, H)
    BY <1>4
  <1> QED
    BY <1>3, <1>5, <1>6 DEF SumAt

\* Both sheets add up to the report.
LEMMA SheetsTotal ==
    ASSUME NEW R, IsFiniteSet(R), \A r \in R : r.tokens \in Nat
    PROVE  writeBillingXLSX(R).summary = ReportTotal(R) /\ writeBillingXLSX(R).byModel = ReportTotal(R)
  <1> DEFINE a == [r \in R |-> r.tenant]
             b == [r \in R |-> r.model]
  <1>1. Image(a, R) = {r.tenant : r \in R} /\ \A v : Group(R, a, v) = {r \in R : r.tenant = v}
    BY DEF Image, Group
  <1>2. Image(b, R) = {r.model : r \in R} /\ \A v : Group(R, b, v) = {r \in R : r.model = v}
    BY DEF Image, Group
  <1>3. ReportTotal(R) = SumOf([r \in R |-> r.tokens])
    BY DEF ReportTotal, SumOver, SumOf
  <1>4. writeBillingXLSX(R).summary =
          SumOf([v \in {r.tenant : r \in R} |-> SumOf([r \in {r \in R : r.tenant = v} |-> r.tokens])])
    BY DEF writeBillingXLSX, SumOver, SumOf
  <1>5. writeBillingXLSX(R).byModel =
          SumOf([v \in {r.model : r \in R} |-> SumOf([r \in {r \in R : r.model = v} |-> r.tokens])])
    BY DEF writeBillingXLSX, SumOver, SumOf
  <1> HIDE DEF a, b
  <1>6. SumOf([v \in Image(a, R) |-> SumOf([r \in Group(R, a, v) |-> r.tokens])]) = SumOf([r \in R |-> r.tokens])
    BY GroupedLines
  <1>7. SumOf([v \in Image(b, R) |-> SumOf([r \in Group(R, b, v) |-> r.tokens])]) = SumOf([r \in R |-> r.tokens])
    BY GroupedLines
  <1>8. [v \in Image(a, R) |-> SumOf([r \in Group(R, a, v) |-> r.tokens])]
          = [v \in {r.tenant : r \in R} |-> SumOf([r \in {r \in R : r.tenant = v} |-> r.tokens])]
    BY <1>1
  <1>9. [v \in Image(b, R) |-> SumOf([r \in Group(R, b, v) |-> r.tokens])]
          = [v \in {r.model : r \in R} |-> SumOf([r \in {r \in R : r.model = v} |-> r.tokens])]
    BY <1>2
  <1> QED
    BY <1>3, <1>4, <1>5, <1>6, <1>7, <1>8, <1>9

\* The adoption buckets of a model hold at least the requests the report has of it.
LEMMA BucketsHold ==
    ASSUME BillInv, NEW w, NEW m
    PROVE  FoldFunction(+, 0, AdoptionBuckets(w.start, m))
             >= SumOver({r \in GetBillingReport(w) : r.model = m}, LAMBDA r : r.requests)
  <1> DEFINE V == ModelKeys(w, m)
             R == ModelRows(w, m)
             A == {e \in events : Leq(w.start, e.at) /\ e.model = m}
             D == Image(DayOf, A)
             B == ModelHits(w, m)
  <1>1. R = Image(LineOf(w), V) /\ KeyedHits(w, V) = B
    BY ModelLines
  <1>2. SumOver(R, LAMBDA r : r.requests) = SumOf([r \in R |-> r.requests])
    BY DEF SumOver, SumOf
  <1>3. V \subseteq Keys(w)
    BY DEF ModelKeys
  <1>4. B \subseteq A /\ A \subseteq events /\ events \subseteq Logged /\ IsFiniteSet(events)
    BY HitFacts DEF ModelHits, Hit, Between, BillInv
  <1>5. IsFiniteSet(A) /\ IsFiniteSet(D)
    BY <1>4, FS_Subset, FiniteImage
  <1>6. \A e \in A : DayOf[e] = e.at[1]
    BY <1>4 DEF DayOf
  <1>7. AdoptionBuckets(w.start, m) = [d \in D |-> Cardinality(Group(A, DayOf, d))]
    <2>1. AdoptionBuckets(w.start, m) = [d \in {e.at[1] : e \in A} |-> Cardinality({e \in A : e.at[1] = d})]
      BY DEF AdoptionBuckets
    <2>2. D = {e.at[1] : e \in A}
      BY <1>6 DEF Image
    <2>3. \A d : Group(A, DayOf, d) = {e \in A : e.at[1] = d}
      BY <1>6 DEF Group
    <2> QED
      BY <2>1, <2>2, <2>3
  <1>8. {e \in A : DayOf[e] \in D} = A
    BY DEF Image
  <1> HIDE DEF V, R, A, B, D
  <1>9. SumOf([d \in D |-> Cardinality(Group(A, DayOf, d))]) = Cardinality({e \in A : DayOf[e] \in D})
    BY <1>5, CardGroups
  <1>10. FoldFunction(+, 0, AdoptionBuckets(w.start, m)) = SumOf([d \in D |-> Cardinality(Group(A, DayOf, d))])
    BY <1>7 DEF SumOf
  <1>11. SumOf([r \in R |-> r.requests]) = Cardinality(KeyedHits(w, V))
    BY <1>1, <1>3, LinesTotal DEF KeyedHits
  <1>12. Cardinality(KeyedHits(w, V)) = Cardinality(B) /\ Cardinality({e \in A : DayOf[e] \in D}) = Cardinality(A)
    BY <1>1, <1>8
  <1>13. Cardinality(B) <= Cardinality(A) /\ Cardinality(A) \in Nat /\ Cardinality(B) \in Nat
    <2>1. IsFiniteSet(B) /\ Cardinality(B) <= Cardinality(A)
      BY <1>4, <1>5, FS_Subset
    <2> QED
      BY <1>5, <2>1, FS_CardinalityType
  <1>14. FoldFunction(+, 0, AdoptionBuckets(w.start, m)) = Cardinality(A)
    BY <1>9, <1>10, <1>12
  <1>15. SumOver(R, LAMBDA r : r.requests) = Cardinality(B)
    BY <1>2, <1>11, <1>12
  <1>16. Cardinality(A) >= Cardinality(B)
    BY <1>13
  <1>17. FoldFunction(+, 0, AdoptionBuckets(w.start, m)) >= SumOver(R, LAMBDA r : r.requests)
    BY <1>14, <1>15, <1>16
  <1> QED
    BY <1>17 DEF R, ModelRows

\* The forecast's cost of a tenant is the team report's.
LEMMA ForecastCost ==
    ASSUME NEW w, NEW t, t \in {e.tenant : e \in Hit(w)}
    PROVE  GetBillingForecast(w)[t] = GetTeamBillingReport(t, w).cost
  <1> DEFINE A == {r \in joined(Hit(w), w.end) : r[1].tenant = t}
             B == joined({e \in events : e.tenant = t /\ Between(e.at, w)}, w.end)
  <1>1. A = B
    BY DEF joined, Hit
  <1>2. GetBillingForecast(w)[t] = SumOf([r \in A |-> r[1].in * r[2].in + r[1].out * r[2].out])
    BY DEF GetBillingForecast, Hit, SumOver, SumOf
  <1>3. GetTeamBillingReport(t, w).cost = SumOf([r \in B |-> r[1].in * r[2].in + r[1].out * r[2].out])
    BY DEF GetTeamBillingReport, SumOver, SumOf
  <1> QED
    BY <1>1, <1>2, <1>3

LEMMA BillAgrees == BillInv => ReportsAgree
  <1> SUFFICES ASSUME BillInv, NEW w \in Windows, NEW lines, lines = GetBillingReport(w),
                      NEW tenants, tenants = {r.tenant : r \in lines}
               PROVE  /\ ReportTotal(lines) = SumOver(tenants, LAMBDA t : GetTeamBillingReport(t, w).tokens)
                      /\ writeBillingXLSX(lines).summary = ReportTotal(lines) /\ writeBillingXLSX(lines).byModel = ReportTotal(lines)
                      /\ writeBillingPDF(lines).total = <<handleBillingSummary(w).requests, ReportTotal(lines)>>
                      /\ handleBillingSummary(w).active = Cardinality(tenants)
                      /\ DOMAIN GetBillingForecast(w) = tenants
                      /\ \A t \in tenants : GetBillingForecast(w)[t] = GetTeamBillingReport(t, w).cost
                      /\ \A kept \in GetModelAdoptionSeries(w.start), m \in Models :
                           m \in kept => FoldFunction(+, 0, AdoptionBuckets(w.start, m))
                                           >= SumOver({r \in lines : r.model = m}, LAMBDA r : r.requests)
    BY DEF ReportsAgree
  <1>0. /\ SumOf([r \in lines |-> r.tokens]) = SumAt(TokenCount, Hit(w))
        /\ IsFiniteSet(lines) /\ (\A r \in lines : r.tokens \in Nat)
        /\ tenants = Image(TenantOf, Hit(w))
    BY ReportTokens
  <1>a. tenants = {e.tenant : e \in Hit(w)}
    BY <1>0, HitFacts DEF Image
  <1>1. ReportTotal(lines) = SumOver(tenants, LAMBDA t : GetTeamBillingReport(t, w).tokens)
    <2>1. ReportTotal(lines) = SumOf([r \in lines |-> r.tokens])
      BY DEF ReportTotal, SumOver, SumOf
    <2>2. SumOver(tenants, LAMBDA t : GetTeamBillingReport(t, w).tokens)
            = SumOf([t \in tenants |-> GetTeamBillingReport(t, w).tokens])
      BY DEF SumOver, SumOf
    <2>3. SumOf([t \in tenants |-> GetTeamBillingReport(t, w).tokens]) = SumAt(TokenCount, Hit(w))
      BY <1>0, TeamsTotal
    <2> QED
      BY <1>0, <2>1, <2>2, <2>3
  <1>2. writeBillingXLSX(lines).summary = ReportTotal(lines) /\ writeBillingXLSX(lines).byModel = ReportTotal(lines)
    BY <1>0, SheetsTotal
  <1>3. writeBillingPDF(lines).total = <<handleBillingSummary(w).requests, ReportTotal(lines)>>
    BY DEF writeBillingPDF, handleBillingSummary
  <1>4. handleBillingSummary(w).active = Cardinality(tenants)
    BY DEF handleBillingSummary
  <1>5. DOMAIN GetBillingForecast(w) = tenants
    BY <1>a DEF GetBillingForecast, Hit
  <1>6. \A t \in tenants : GetBillingForecast(w)[t] = GetTeamBillingReport(t, w).cost
    BY <1>a, ForecastCost
  <1>7. ASSUME NEW m PROVE FoldFunction(+, 0, AdoptionBuckets(w.start, m))
                             >= SumOver({r \in lines : r.model = m}, LAMBDA r : r.requests)
    BY BucketsHold
  <1> QED
    BY <1>1, <1>2, <1>3, <1>4, <1>5, <1>6, <1>7

\* For any number of events, tenants, prices, windows and contracts, and whatever is logged,
\* priced or erased meanwhile: the reports that are queried apart give one answer, an
\* organisation's report lies between what its LIKE pattern matched at its start and at its
\* end, a billing report's lines and SLA figures lie between the log at their start and their
\* end, unless an erasure moved events, and every SLO entry is that of the model's own
\* contract over its own requests, except of a model that has a contract and had no request
\* when the SLO report began (GetBillingReport, GetTeamBillingReport, GetOrgBillingReport,
\* handleBillingReport, writeBillingXLSX, handleSLOCompliance).
THEOREM TenancyReports == TenancySpec => []Billing_ReportsHold
  <1> DEFINE Reports == (part = "billing" => BillInv) /\ (part = "slo" => SloInv)
  <1>1. TenancyInit => Reports
    BY BillInitInv, SloInitInv DEF TenancyInit
  <1>2. Reports /\ [TenancyNext]_tenancyVars => Reports'
    <2>1. part = "billing" /\ [TenancyNext]_tenancyVars => [BillNext]_billVars
      BY DEF TenancyNext, tenancyVars
    <2>2. part = "slo" /\ [TenancyNext]_tenancyVars => [SloNext]_sloVars
      BY DEF TenancyNext, tenancyVars
    <2>3. [TenancyNext]_tenancyVars => part' = part
      BY DEF TenancyNext, tenancyVars
    <2> QED
      BY <2>1, <2>2, <2>3, BillNextInv, SloNextInv
  <1>3. Reports => Billing_ReportsHold
    BY BillInvSafe, BillAgrees, SloInvSafe DEF Billing_ReportsHold
  <1> QED
    BY <1>1, <1>2, <1>3, PTL DEF TenancySpec
=============================================================================
