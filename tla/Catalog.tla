------------------------------ MODULE Catalog ------------------------------
(***************************************************************************)
(* The model catalog: how a model gets into it (POST /models, the imports  *)
(* of server.go and cpu_model_import.go with the clients of                *)
(* registry/importer), how it is planned and deployed from it, and how it  *)
(* leaves it.                                                              *)
(*                                                                         *)
(* A catalog id is <<name, version>>: SageMaker and Vertex AI ids carry    *)
(* the vendor's version, all others are <<name, 0>>. Of a row only what    *)
(* planning and provenance tell apart is kept: whether Spec is a           *)
(* ModelSpec, some other JSON document or absent, and the vendor's         *)
(* version. What a vendor lists changes between two calls to it. The       *)
(* planner itself is module Planner, the rollout module Orchestrator, the  *)
(* decision on a queued deployment module Approvals.                       *)
(***************************************************************************)
EXTENDS Integers, Sequences, FiniteSets

CONSTANTS
    Names,          \* model names
    CPUSlug,        \* normalizeCPUModelID: name -> slug, or "unknown"
    MaxVersion,     \* versions a vendor registry can hold
    RandSuffixes,       \* what randHex(4) can return
    CatReqs,        \* requests in flight at once
    MaxDeployments, \* bound on deployments, queued ones included
    MaxQueued,      \* bound on the queued ones
    Licences        \* the answers licenseAllows(deployment_approvals) can give

ASSUME CatalogAssumption ==
    /\ MaxVersion \in Nat /\ MaxDeployments \in Nat /\ MaxQueued \in Nat
    /\ Licences \subseteq BOOLEAN
    /\ CPUSlug \in [Names -> Names \cup {"unknown"}]
    /\ IsFiniteSet(CatReqs)

Versions == 1 .. MaxVersion
ModelIds == Names \X (0 .. MaxVersion)
PlanIds == ModelIds \X RandSuffixes
NoRow == [spec |-> "none", source |-> "none", version |-> 0]
NoPlanId == <<>>
CatIdle == [op |-> "none"]

VARIABLES
    models,     \* models table: id -> row, NoRow when absent
    plans,      \* plans table: ids; the row's model is the first part of its id
    deployments,       \* deployments in created_at order: [model, plan, live]
    queue,      \* deployment_approvals: [model, status]
    creq,       \* a request in flight: what it has read, and its next step
    vendor,     \* the vendor's registry: version -> status
    approved    \* versions that were ever approved there

catVars == <<models, plans, deployments, queue, creq, vendor, approved>>

CatTypeOK ==
    /\ \A m \in DOMAIN models : models[m].version \in 0 .. MaxVersion
    /\ plans \subseteq PlanIds
    /\ Len(deployments) + Len(queue) <= MaxDeployments
    /\ approved \subseteq Versions

(***************************************************************************)
(* The store                                                               *)
(***************************************************************************)

GetModel(id) == models[id] # NoRow

\* The primary key refuses a second row.
CreateModel(id, row) == ~GetModel(id) /\ models' = [models EXCEPT ![id] = row]
DeleteModel(id) == GetModel(id) /\ models' = [models EXCEPT ![id] = NoRow]

\* Mutant: INSERT OR REPLACE.
CreatePlanReplaces(p) == plans' = plans \cup {p}
CreatePlan(p) == p \notin plans /\ plans' = plans \cup {p}
GetPlan(p) == p \in plans

CreateDeployment(d) == deployments' = Append(deployments, d)
RequestDeploymentApproval(a) == queue' = Append(queue, a)
deploymentPinsModel(d, id) == d.model = id /\ d.live

(***************************************************************************)
(* Planning from the catalog                                               *)
(***************************************************************************)

\* protojson rejects a document with fields ModelSpec does not have; a row without a
\* Spec decodes to a model with no layers.
modelSpec(id) ==
    IF models[id].spec = "foreign" THEN "decode_error" ELSE models[id].spec

\* Plan: the model's row, its spec, then the fleet, which may have no room for it.
PlanFor(id) ==
    CASE ~GetModel(id) -> "not_found"
      [] modelSpec(id) = "decode_error" -> "plan_failed"
      [] modelSpec(id) = "none" -> "no_layers"
      [] OTHER -> "plan"

\* What POST /models/{id}/plan may answer; nothing is stored.
handlePreviewPlan(id) ==
    CASE PlanFor(id) = "no_layers" -> {"infeasible"}
      [] PlanFor(id) = "plan" -> {"plan", "infeasible"}
      [] OTHER -> {PlanFor(id)}

(***************************************************************************)
(* Requests                                                                *)
(***************************************************************************)

CatBegin(q, r) ==
    /\ creq[q] = CatIdle
    /\ creq' = [creq EXCEPT ![q] = r]
    /\ UNCHANGED <<models, plans, deployments, queue, vendor, approved>>

CatGoto(q, r) == creq' = [creq EXCEPT ![q] = r]

\* The last step of every way into the catalog: insert, answer 201 or 409.
InsertStep(id, row) == [op |-> "insert", id |-> id, row |-> row]
Row(spec, source, v) == [spec |-> spec, source |-> source, version |-> v]

handleCreateModel(q, n) ==
    /\ ~GetModel(<<n, 0>>)
    /\ CatBegin(q, InsertStep(<<n, 0>>, Row("modelspec", "created", 0)))

\* FetchMetadata found the repository and a matching file; the id is the repository's
\* last path segment.
handleImportHuggingFace(q, n) ==
    /\ ~GetModel(<<n, 0>>)
    /\ CatBegin(q, InsertStep(<<n, 0>>, Row("none", "artifact", 0)))

\* ParseObjectURI accepted the URI; the id is the given name or the key's last segment.
handleImportObjectStorage(q, n) ==
    /\ ~GetModel(<<n, 0>>)
    /\ CatBegin(q, InsertStep(<<n, 0>>, Row("none", "artifact", 0)))

\* Different names can normalise to one slug, and the slug is the id.
normalizeCPUModelID(n) == CPUSlug[n]

handleImportCPUModel(q, n) ==
    /\ normalizeCPUModelID(n) # "unknown"
    /\ ~GetModel(<<normalizeCPUModelID(n), 0>>)
    /\ CatBegin(q, InsertStep(<<normalizeCPUModelID(n), 0>>, Row("none", "artifact", 0)))

\* The vendor's listings. A wanted version of 0 asks for the latest.
newest(vs) == CHOOSE v \in vs : \A u \in vs : u <= v
pick(vs, want) == IF want = 0 THEN newest(vs) ELSE want
picks(vs, want) == vs # {} /\ (want = 0 \/ want \in vs)

\* Mutant: the status filter is left to the caller.
ListApprovedModelPackagesAll == {v \in Versions : vendor[v] \in {"pending", "approved"}}

\* One call lists, one more per package describes it.
ListApprovedModelPackages == {v \in Versions : vendor[v] = "approved"}
describeModelPackage(v) == vendor[v] \in {"pending", "approved"}

handleImportSageMaker(q, n, want) ==
    /\ picks(ListApprovedModelPackages, want)
    /\ LET v == pick(ListApprovedModelPackages, want) IN
       CatBegin(q, [op |-> "describe", listed |-> ListApprovedModelPackages,
                    then |-> InsertStep(<<n, v>>, Row("foreign", "sagemaker", v))])

\* The packages listed a moment ago are described one by one; one that is gone fails
\* the import.
DescribePackages(q) ==
    /\ creq[q].op = "describe"
    /\ CatGoto(q, IF \A v \in creq[q].listed : describeModelPackage(v) THEN creq[q].then ELSE CatIdle)
    /\ UNCHANGED <<models, plans, deployments, queue, vendor, approved>>

ListModelVersions == {v \in Versions : vendor[v] \in {"pending", "approved"}}

\* The artifact's URI comes with the listing or by one more call.
handleImportVertexAI(q, n, want) ==
    /\ picks(ListModelVersions, want)
    /\ LET v == pick(ListModelVersions, want)
           ins == InsertStep(<<n, v>>, Row("foreign", "vertexai", v))
       IN CatBegin(q, ins) \/ CatBegin(q, [op |-> "artifact", version |-> v, then |-> ins])

GetArtifactURI(q) ==
    /\ creq[q].op = "artifact"
    /\ CatGoto(q, IF vendor[creq[q].version] = "gone" THEN CatIdle ELSE creq[q].then)
    /\ UNCHANGED <<models, plans, deployments, queue, vendor, approved>>

\* Azure ML: the newest version in stage Production, else the newest.
LatestVersion(vs) ==
    IF \E v \in vs : vendor[v] = "approved" THEN newest({v \in vs : vendor[v] = "approved"}) ELSE newest(vs)

handleImportAzureML(q, n, want) ==
    /\ picks(ListModelVersions, want)
    /\ LET v == IF want = 0 THEN LatestVersion(ListModelVersions) ELSE want
       IN CatBegin(q, InsertStep(<<n, 0>>, Row("foreign", "azureml", v)))

\* handleImportModel hands the body to the branch its source names.
handleImportModel(q) ==
    \E n \in Names :
        \/ handleImportHuggingFace(q, n)
        \/ handleImportObjectStorage(q, n)
        \/ \E want \in 0 .. MaxVersion :
             \/ handleImportSageMaker(q, n, want)
             \/ handleImportVertexAI(q, n, want)
             \/ handleImportAzureML(q, n, want)

Insert(q) ==
    /\ creq[q].op = "insert"
    /\ \/ CreateModel(creq[q].id, creq[q].row)
       \/ UNCHANGED models                         \* 409, or the store failed
    /\ CatGoto(q, CatIdle)
    /\ UNCHANGED <<plans, deployments, queue, vendor, approved>>

\* A live deployment of the model refuses the delete; the row goes in a later step.
handleDeleteModel(q, id) ==
    /\ GetModel(id)
    /\ \A i \in DOMAIN deployments : ~deploymentPinsModel(deployments[i], id)
    /\ CatBegin(q, [op |-> "delete", id |-> id])

DeleteModelRow(q) ==
    /\ creq[q].op = "delete"
    /\ DeleteModel(creq[q].id) \/ (~GetModel(creq[q].id) /\ UNCHANGED models)
    /\ CatGoto(q, CatIdle)
    /\ UNCHANGED <<plans, deployments, queue, vendor, approved>>

(***************************************************************************)
(* Deploying                                                               *)
(***************************************************************************)

Rollout(id, p, produced) ==
    [op |-> "rollout", dep |-> [model |-> id, plan |-> p, produced |-> produced, live |-> TRUE]]

\* The bound on deployments counts the requests that may still become one.
UnderBound ==
    Len(deployments) + Len(queue) + Cardinality({q \in CatReqs : creq[q].op \in {"persist", "rollout"}}) < MaxDeployments

\* The body carries a plan, names a stored one, or leaves it to the planner. Only the
\* last looks the model up, and a stored plan's model wins over the path's.
handleDeployModel(q, id) ==
    /\ UnderBound
    /\ \/ CatBegin(q, Rollout(id, NoPlanId, FALSE))
       \/ \E p \in plans : GetPlan(p) /\ CatBegin(q, Rollout(p[1], p, FALSE))
       \/ PlanFor(id) = "plan" /\ \E s \in RandSuffixes : CatBegin(q, [op |-> "persist", plan |-> <<id, s>>])

\* planFromFleet stores what it produced under a fresh id before it is applied.
persistPlan(q) ==
    /\ creq[q].op = "persist"
    /\ LET p == creq[q].plan IN
       \/ CreatePlan(p) /\ CatGoto(q, Rollout(p[1], p, TRUE))
       \/ UNCHANGED plans /\ CatGoto(q, CatIdle)   \* persist_plan_failed
    /\ UNCHANGED <<models, deployments, queue, vendor, approved>>

\* With the approvals licence the deployment is queued instead of applied; the row has
\* the model but not the plan.
ApplyOrQueue(q) ==
    /\ creq[q].op = "rollout"
    /\ LET d == creq[q].dep IN
       \/ TRUE \in Licences /\ Len(queue) < MaxQueued /\ UNCHANGED deployments
          /\ RequestDeploymentApproval([model |-> d.model, status |-> "pending"])
       \/ FALSE \in Licences /\ UNCHANGED queue /\ CreateDeployment(d)
    /\ CatGoto(q, CatIdle)
    /\ UNCHANGED <<models, plans, vendor, approved>>

(***************************************************************************)
(* The rest of the world                                                   *)
(***************************************************************************)

\* A rollout ends: FAILED or STOPPED.
DeploymentEnds(i) ==
    /\ deployments[i].live
    /\ deployments' = [deployments EXCEPT ![i].live = FALSE]
    /\ UNCHANGED <<models, plans, queue, creq, vendor, approved>>

\* An admin decides on a queued deployment (module Approvals).
Decide(i, status) ==
    /\ queue[i].status = "pending"
    /\ queue' = [queue EXCEPT ![i].status = status]
    /\ UNCHANGED <<models, plans, deployments, creq, vendor, approved>>

VendorChanges(v, status) ==
    /\ vendor[v] # "gone" /\ status # vendor[v] /\ status # "absent"
    /\ vendor' = [vendor EXCEPT ![v] = status]
    /\ approved' = IF status = "approved" THEN approved \cup {v} ELSE approved
    /\ UNCHANGED <<models, plans, deployments, queue, creq>>

CatInit ==
    /\ models = [m \in ModelIds |-> NoRow]
    /\ plans = {}
    /\ deployments = <<>> /\ queue = <<>>
    /\ creq = [q \in CatReqs |-> CatIdle]
    /\ vendor = [v \in Versions |-> "absent"]
    /\ approved = {}

\* The next step of a request already under way.
CatServe(q) ==
    DescribePackages(q) \/ GetArtifactURI(q) \/ Insert(q) \/ DeleteModelRow(q) \/ persistPlan(q) \/ ApplyOrQueue(q)

CatNext ==
    \/ \E q \in CatReqs :
         \/ handleImportModel(q)
         \/ \E n \in Names : handleCreateModel(q, n) \/ handleImportCPUModel(q, n)
         \/ \E id \in ModelIds : handleDeleteModel(q, id) \/ handleDeployModel(q, id)
         \/ CatServe(q)
    \/ \E i \in DOMAIN deployments : DeploymentEnds(i)
    \/ \E i \in DOMAIN queue, status \in {"approved", "rejected"} : Decide(i, status)
    \/ \E v \in Versions, status \in {"pending", "approved", "gone"} : VendorChanges(v, status)

CatSpec == CatInit /\ [][CatNext]_catVars

\* The server finishes the requests it has begun.
CatFairSpec == CatSpec /\ \A q \in CatReqs : WF_catVars(CatServe(q))

(***************************************************************************)
(* Properties                                                              *)
(***************************************************************************)

\* Every deployment the planner produced has a stored plan of its own, for its own
\* model, although the planner's ids repeat, the random suffix may, and requests
\* persist in one step and apply in another (planFromFleet, persistPlan).
ProducedPlansOwned ==
    \A i \in DOMAIN deployments :
        deployments[i].produced =>
            /\ GetPlan(deployments[i].plan) /\ deployments[i].plan[1] = deployments[i].model
            /\ \A j \in DOMAIN deployments \ {i} : deployments[j].produced => deployments[j].plan # deployments[i].plan

\* What a SageMaker row's id says is what it holds, and it is a version that a reviewer
\* had approved, however the vendor's registry changed between listing and describing.
SageMakerRowsApproved ==
    \A id \in ModelIds :
        models[id].source = "sagemaker" => models[id].version = id[2] /\ id[2] \in approved

\* "the actual rollout runs only after an admin calls ... approve": once a queued
\* deployment is approved, a deployment of its model starts.
ApprovedStarts ==
    \A id \in ModelIds :
        (\E i \in DOMAIN queue : queue[i] = [model |-> id, status |-> "approved"])
            ~> \E j \in DOMAIN deployments : deployments[j].model = id
=============================================================================
