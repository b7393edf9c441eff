------------------------------ MODULE DataPlanes ------------------------------
(***************************************************************************)
(* Data planes and the configuration snapshots pushed to them              *)
(* (server/dataplane.go, server/config_snapshot.go,                        *)
(* registry/dataplane_sqlite.go).                                          *)
(*                                                                         *)
(* A snapshot is built from four reads, nodes, deployments, keys and       *)
(* policies, and stored last; the pusher, an operator's refresh and an     *)
(* operator's own snapshot can overlap. The registry's other writers move  *)
(* the inputs: a deployment activates on a node or stops, a key is created *)
(* or deleted, a policy switched. Names, tiers and URLs are left out; a    *)
(* data plane's id is random and does not come back.                       *)
(***************************************************************************)
EXTENDS Naturals

CONSTANTS
    DpIds,
    DpNodes,
    DpModels,
    DpKeys,
    DpPolicies,
    Builders,        \* the refreshes that may run beside the pusher
    MaxChanges       \* bound: changes of the registry by others

DpPusher == "pusher"   \* the builder of startConfigSnapshotPusher
NoDp == "none"
DpGone == [status |-> "gone"]
DpBuildIdle == [at |-> "idle"]
EmptySnap == [routes |-> {}, auth |-> {}, policies |-> {}]

VARIABLES
    dpRows,          \* dataplanes: status and snapshot; "unborn" and "gone" have no row
    dpOf,            \* nodes.dataplane_id
    activeOn,        \* ACTIVE deployments: pairs <<model, node>>
    dpKeys,          \* enabled API keys
    dpPolicies,      \* enabled policies
    dpBuild,         \* builders
    dpUpdate,        \* an update of a row by an operator
    changes

dpVars == <<dpRows, dpOf, activeOn, dpKeys, dpPolicies, dpBuild, dpUpdate, changes>>

DpThere(d) == dpRows[d].status \notin {"unborn", "gone"}
AllBuilders == Builders \cup {DpPusher}

(***************************************************************************)
(* The table                                                               *)
(***************************************************************************)

\* A new row has an id that no row has had.
CreateDataPlane ==
    /\ \E d \in DpIds : dpRows[d].status = "unborn"
    /\ LET fresh == CHOOSE d \in DpIds : dpRows[d].status = "unborn"
       IN  dpRows' = [dpRows EXCEPT ![fresh] = [status |-> "registering", snap |-> EmptySnap]]
    /\ UNCHANGED <<dpOf, activeOn, dpKeys, dpPolicies, dpBuild, dpUpdate, changes>>

\* No foreign key: the nodes keep the id.
DeleteDataPlane(d) ==
    /\ DpThere(d) /\ changes < MaxChanges
    /\ dpRows' = [dpRows EXCEPT ![d] = DpGone]
    /\ changes' = changes + 1
    /\ UNCHANGED <<dpOf, activeOn, dpKeys, dpPolicies, dpBuild, dpUpdate>>

\* handleDataPlaneHeartbeat stores the status of the body, "active" if it has none; other
\* reports than "active" are bounded as changes are.
RecordDataPlaneHeartbeat(d, status) ==
    /\ DpThere(d)
    /\ status # "active" => changes < MaxChanges
    /\ dpRows' = [dpRows EXCEPT ![d].status = status]
    /\ changes' = IF status = "active" THEN changes ELSE changes + 1
    /\ UNCHANGED <<dpOf, activeOn, dpKeys, dpPolicies, dpBuild, dpUpdate>>

\* handleUpdateDataPlane reads the row, and writes its fields later, the status it read
\* included unless the body sets one. The snapshot is not among the fields.
handleUpdateDataPlane(d, status) ==
    /\ DpThere(d) /\ dpUpdate = DpBuildIdle /\ changes < MaxChanges
    /\ dpUpdate' = [at |-> "write", dp |-> d, status |-> IF status = NoDp THEN dpRows[d].status ELSE status]
    /\ changes' = changes + 1
    /\ UNCHANGED <<dpRows, dpOf, activeOn, dpKeys, dpPolicies, dpBuild>>

UpdateDataPlane ==
    /\ dpUpdate.at = "write"
    /\ dpRows' = IF DpThere(dpUpdate.dp) THEN [dpRows EXCEPT ![dpUpdate.dp].status = dpUpdate.status] ELSE dpRows
    /\ dpUpdate' = DpBuildIdle
    /\ UNCHANGED <<dpOf, activeOn, dpKeys, dpPolicies, dpBuild, changes>>

\* AssignNodeToDataPlane from the two handlers; unassigning ignores which plane it was.
handleAssignNodeToDataPlane(n, d) ==
    /\ DpThere(d) /\ dpOf[n] # d /\ changes < MaxChanges
    /\ dpOf' = [dpOf EXCEPT ![n] = d]
    /\ changes' = changes + 1
    /\ UNCHANGED <<dpRows, activeOn, dpKeys, dpPolicies, dpBuild, dpUpdate>>

handleUnassignNodeFromDataPlane(n) ==
    /\ dpOf[n] # NoDp /\ changes < MaxChanges
    /\ dpOf' = [dpOf EXCEPT ![n] = NoDp]
    /\ changes' = changes + 1
    /\ UNCHANGED <<dpRows, activeOn, dpKeys, dpPolicies, dpBuild, dpUpdate>>

ListNodesByDataPlane(d) == {n \in DpNodes : dpOf[n] = d}

\* The other writers of the registry.
DpInputChanges ==
    /\ changes < MaxChanges
    /\ changes' = changes + 1
    /\ \/ \E m \in DpModels, n \in DpNodes :
             activeOn' = (IF <<m, n>> \in activeOn THEN activeOn \ {<<m, n>>} ELSE activeOn \cup {<<m, n>>})
             /\ UNCHANGED <<dpKeys, dpPolicies>>
       \/ \E k \in DpKeys : dpKeys' = (IF k \in dpKeys THEN dpKeys \ {k} ELSE dpKeys \cup {k}) /\ UNCHANGED <<activeOn, dpPolicies>>
       \/ \E p \in DpPolicies :
             dpPolicies' = (IF p \in dpPolicies THEN dpPolicies \ {p} ELSE dpPolicies \cup {p})
             /\ UNCHANGED <<activeOn, dpKeys>>
    /\ UNCHANGED <<dpRows, dpOf, dpBuild, dpUpdate>>

(***************************************************************************)
(* Snapshots                                                               *)
(***************************************************************************)

\* Only the deployments with a node of the data plane are routed; the keys and the
\* policies are those of the whole cluster.
RoutesFor(nodes) == {m \in DpModels : \E n \in nodes : <<m, n>> \in activeOn}

SnapshotOf(d) == [routes |-> RoutesFor(ListNodesByDataPlane(d)), auth |-> dpKeys, policies |-> dpPolicies]

\* A build begins: a refresh for one data plane, or the pusher's round over those that
\* are not offline.
handleRefreshDataPlaneConfig(b, d) ==
    /\ dpBuild[b] = DpBuildIdle /\ changes < MaxChanges
    /\ changes' = changes + 1
    /\ dpBuild' = [dpBuild EXCEPT ![b] = [at |-> "nodes", todo |-> {}, dp |-> d]]
    /\ UNCHANGED <<dpRows, dpOf, activeOn, dpKeys, dpPolicies, dpUpdate>>

\* Mutant: only data planes that have not reported yet are refreshed.
ListedForPushNew == {d \in DpIds : DpThere(d) /\ dpRows[d].status = "registering"}

ListedForPush == {d \in DpIds : DpThere(d) /\ dpRows[d].status # "offline"}

startConfigSnapshotPusher ==
    /\ dpBuild[DpPusher] = DpBuildIdle
    /\ \E d \in ListedForPush :
          dpBuild' = [dpBuild EXCEPT ![DpPusher] = [at |-> "nodes", todo |-> ListedForPush \ {d}, dp |-> d]]
    /\ UNCHANGED <<dpRows, dpOf, activeOn, dpKeys, dpPolicies, dpUpdate, changes>>

\* BuildDataPlaneSnapshot, one read at a time.
ReadNodes(b) ==
    /\ dpBuild[b].at = "nodes"
    /\ dpBuild' = [dpBuild EXCEPT ![b] = [at |-> "deployments", todo |-> @.todo, dp |-> @.dp, nodes |-> ListNodesByDataPlane(@.dp)]]
    /\ UNCHANGED <<dpRows, dpOf, activeOn, dpKeys, dpPolicies, dpUpdate, changes>>

ReadDeployments(b) ==
    /\ dpBuild[b].at = "deployments"
    /\ dpBuild' = [dpBuild EXCEPT ![b] = [at |-> "keys", todo |-> @.todo, dp |-> @.dp, routes |-> RoutesFor(@.nodes)]]
    /\ UNCHANGED <<dpRows, dpOf, activeOn, dpKeys, dpPolicies, dpUpdate, changes>>

ReadKeys(b) ==
    /\ dpBuild[b].at = "keys"
    /\ dpBuild' = [dpBuild EXCEPT ![b] = [at |-> "policies", todo |-> @.todo, dp |-> @.dp, routes |-> @.routes, auth |-> dpKeys]]
    /\ UNCHANGED <<dpRows, dpOf, activeOn, dpKeys, dpPolicies, dpUpdate, changes>>

ReadPolicies(b) ==
    /\ dpBuild[b].at = "policies"
    /\ dpBuild' = [dpBuild EXCEPT ![b] = [at |-> "store", todo |-> @.todo, dp |-> @.dp,
                      snap |-> [routes |-> @.routes, auth |-> @.auth, policies |-> dpPolicies]]]
    /\ UNCHANGED <<dpRows, dpOf, activeOn, dpKeys, dpPolicies, dpUpdate, changes>>

\* The pusher goes on with the next one of its list, a refresh is over.
NextDataPlane(b) ==
    \/ dpBuild[b].todo = {} /\ dpBuild' = [dpBuild EXCEPT ![b] = DpBuildIdle]
    \/ \E d \in dpBuild[b].todo :
          dpBuild' = [dpBuild EXCEPT ![b] = [at |-> "nodes", todo |-> @.todo \ {d}, dp |-> d]]

\* A read or the write fails: nothing is stored, the pusher logs it.
PushFails(b) ==
    /\ dpBuild[b] # DpBuildIdle /\ changes < MaxChanges
    /\ NextDataPlane(b)
    /\ changes' = changes + 1
    /\ UNCHANGED <<dpRows, dpOf, activeOn, dpKeys, dpPolicies, dpUpdate>>

\* UpdateDataPlaneConfigSnapshot; a data plane that is gone is logged.
PushConfigSnapshot(b) ==
    /\ dpBuild[b].at = "store"
    /\ dpRows' = IF DpThere(dpBuild[b].dp) THEN [dpRows EXCEPT ![dpBuild[b].dp].snap = dpBuild[b].snap] ELSE dpRows
    /\ NextDataPlane(b)
    /\ UNCHANGED <<dpOf, activeOn, dpKeys, dpPolicies, dpUpdate, changes>>

\* handlePutDataPlaneConfig: the operator's own snapshot, here an empty one.
handlePutDataPlaneConfig(d) ==
    /\ DpThere(d) /\ changes < MaxChanges
    /\ dpRows' = [dpRows EXCEPT ![d].snap = EmptySnap]
    /\ changes' = changes + 1
    /\ UNCHANGED <<dpOf, activeOn, dpKeys, dpPolicies, dpBuild, dpUpdate>>

DpBuildStep(b) == ReadNodes(b) \/ ReadDeployments(b) \/ ReadKeys(b) \/ ReadPolicies(b) \/ PushConfigSnapshot(b)

\* The deployments may be older than the data planes.
DpInit ==
    /\ dpRows = [d \in DpIds |-> [status |-> "unborn"]]
    /\ dpOf = [n \in DpNodes |-> NoDp]
    /\ activeOn \in SUBSET (DpModels \X DpNodes) /\ dpKeys = {} /\ dpPolicies = {}
    /\ dpBuild = [b \in AllBuilders |-> DpBuildIdle]
    /\ dpUpdate = DpBuildIdle
    /\ changes = 0

DpNext ==
    \/ CreateDataPlane
    \/ \E d \in DpIds : \/ DeleteDataPlane(d)
                        \/ \E status \in {"active", "offline"} : RecordDataPlaneHeartbeat(d, status)
                        \/ handlePutDataPlaneConfig(d)
                        \/ \E status \in {NoDp, "offline"} : handleUpdateDataPlane(d, status)
                        \/ \E n \in DpNodes : handleAssignNodeToDataPlane(n, d)
                        \/ \E b \in Builders : handleRefreshDataPlaneConfig(b, d)
    \/ \E n \in DpNodes : handleUnassignNodeFromDataPlane(n)
    \/ UpdateDataPlane \/ DpInputChanges \/ startConfigSnapshotPusher
    \/ \E b \in AllBuilders : DpBuildStep(b) \/ PushFails(b)

DpSpec == DpInit /\ [][DpNext]_dpVars

\* The ticker keeps firing, reads and writes return, and a data plane that has a row goes on
\* to report itself active, whatever else it reported.
DpFairness ==
    /\ WF_dpVars(startConfigSnapshotPusher) /\ WF_dpVars(UpdateDataPlane)
    /\ \A b \in AllBuilders : WF_dpVars(DpBuildStep(b))
    /\ \A d \in DpIds : WF_dpVars(RecordDataPlaneHeartbeat(d, "active"))

DpFairSpec == DpSpec /\ DpFairness

(***************************************************************************)
(* Properties                                                              *)
(***************************************************************************)

\* config_snapshot.go: once the registry rests, whatever builds, refreshes, operator writes
\* and reports of being offline overlapped, every data plane ends with the snapshot of what
\* the registry holds and keeps it: no stale build, revoked key or torn mixture of reads
\* stays.
SnapshotsConverge ==
    <>[](\A d \in DpIds : DpThere(d) => dpRows[d].snap = SnapshotOf(d))
=============================================================================
