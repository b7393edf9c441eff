# Purser in TLA+

Purser serves large language models on a fleet of ordinary machines. A Go
control plane plans how a model's layers are spread over nodes, drives the
rollout through agents, publishes a route to the gateway, repairs what breaks
and serves the tenants: keys, sessions, organizations, quotas, audit, billing.
A Rust agent on every node supervises one inference engine. A Rust gateway
proxies client requests to the host engine of a deployment.

This directory models the control plane's components and the agent's engine
supervisor. TLC checks them on small instances; TLAPS proves the safety
properties the runs check for every instance.

## Inventory

Paths are under `src/go/controlplane/`; `go/...` is under `src/`, `agent/...` and
`gateway/...` are under `src/rust/crates/`.

| Part (source) | State | Operations | Interacts with |
|---|---|---|---|
| Orchestrator (`orchestrator/orchestrator.go`, `reconciler/actuator.go`) | rows of `deployments`; the call's own copy of the detail | Apply, Teardown, RestartEngine, Failover | registry, agents, gateway; called by HTTP handlers and the reconciler without a lock between them |
| Route reconciler (`orchestrator/route_reconciler.go`, `gateway.go`), gateway table (`gateway/src/state.rs`) | pushed models; model → upstream in memory | Reconcile on a timer; insert_route, remove_route | registry; the table is lost on restart |
| Approvals (`server/approvals.go`, `registry/approvals_sqlite.go`) | approval record, votes, API keys | queue, approve, reject | concurrent requests, separate SQL statements |
| Reconciler (`reconciler/reconciler.go`) | hysteresis tracker | one pass per tick, failover plan stamp | node and deployment rows, actuator |
| Engine supervisor (`agent/src/supervisor.rs`) | generation, stopping, handle, phase | start, stop, supervise, pump, monitor | backends, reader of the event stream |
| Fleet (`fleet/`) | node rows, used nonces, leaf certificates | GenerateJoinToken, Join, Drain, Decommission, Heartbeat, RenewCert | CA, reconciler, planner |
| Certificate authority (`pki/ca.go`) | CA in memory, two files, rows of `certs`, grace CA | load, adopt, generate, Issue, Revoke, Rotate | fleet, TLS |
| Planner (`go/planner/plan`), planning service (`planning/`) | none; the goroutines of the failover plans | filter, quantise, order, partition, validate, replicas, failover plans | reconciler, deploy handler |
| Catalogue and imports (`server/server.go`, `registry/importer/`) | models, plans, approvals queue, Vertex token cache | create, import, preview, deploy, delete | vendor registries, planner, orchestrator |
| Declared configuration (`config/`, `server/config_apply.go`) | file hash, apply in progress | check, diff, apply | models, deployments, organizations, pools |
| Data planes (`server/dataplane.go`, `config_snapshot.go`, `registry/dataplane_sqlite.go`) | rows, node assignment, snapshots | create, update, heartbeat, build, push, refresh | nodes, deployments, keys, policies |
| Keys and service accounts (`server/server.go`, `key_lifecycle.go`, `service_accounts.go`) | key rows, accounts, `hasAnyAPIKeyCache` | create, rotate, delete, token, authMiddleware | every request |
| Sessions and LDAP (`server/auth*.go`, `ldapauth/`) | PKCE states, session rows, LDAP cache | login, callback, logout, back-channel logout, sweep, Authenticate, nested groups | identity provider, directory |
| Organizations, teams, roles (`server/platform_orgs.go`, `rbac_v2.go`, `permissions/`, `registry/platform_sqlite.go`) | rows and cascades | create, update, delete, members, custom roles, permission check | keys |
| Node pools (`server/platform_pools.go`, `registry/platform_sqlite.go`) | pools, their nodes, quotas | create, update, delete, assign, quota, allowed nodes | teams, planner |
| Policies (`policy/`, `server/policy_handler.go`) | rows, compiled engine | upsert, delete, reload, evaluate | deploy requests, licence |
| Audit chains, erasure, backup (`audit/`, `registry/sqlite.go`, `inference_audit_sqlite.go`, `server/gdpr.go`, `backup/`) | two hash-chained tables, the last hash in memory | append, verify, list by cursor, erase, backup, restore | every handler, several processes on one database |
| Billing and SLO (`registry/billing*_sqlite.go`, `server/billing*.go`, `slo.go`) | events, prices, contracts | reports, exports, compliance | inference log |
| Rate limits (`server/server.go`) | limiters per address and per key | charge, evict | every request |
| Raft state machine (`raft/`) | log position, tables, snapshot | Apply, Snapshot, Restore | registry |

The remaining parts are conversions, I/O, wiring or wrappers; `PROJECT.json`
lists each with the reason.

What is hard here: calls on one deployment overlap and rewrite whole rows from
stale copies; almost every handler reads, checks and writes in separate
statements; requests are cancelled half-way; the control plane, the gateway or an
agent restarts between two steps, and so do two writes of files that belong
together; caches (keys, tokens, LDAP answers, compiled policies, last hashes) are
used after what they were read from has changed; a slow answer races a timeout;
reports are put together from several queries while rows arrive.

## Modules

| Module | Models |
|---|---|
| `Orchestrator` | Apply, Teardown, RestartEngine and Failover, one remote call per step |
| `DeploymentLifecycle` | the abstract promise of a deployment's state, which `Orchestrator` implements |
| `RouteReconciler` | extends `Orchestrator` with the route reconciler and gateway restarts |
| `Approvals` | the approval gate, one SQL statement per step |
| `Reconciler` | the self-healing loop, its planner stamp, time, heartbeats and the agents behind them |
| `Supervisor` | the agent's supervise tasks, StopEngine calls and engines |
| `Fleet` | join tokens, membership, heartbeats, leaf certificates |
| `CertAuthority` | the CA on disk, in the registry and in memory |
| `Partition`, `Planner` | the planning algorithms with reference definitions; the planning service and the failover plans' goroutines |
| `Catalog`, `VertexToken` | models, plans, deploy requests, imports; the token cache of one vendor |
| `ClusterConfig` | watcher, diff and apply of the declared configuration |
| `DataPlanes` | data planes and their snapshots |
| `Access`, `RateLimit` | keys, service accounts, the gate; the limiters before it |
| `Sessions`, `LdapGroups` | logins, cookies, LDAP cache; the nested group search |
| `Orgs`, `Pools`, `Policies` | the tables tenants share and the checks on them |
| `AuditChain`, `Ledger` | the hash chain; the two logs, erasure, backup |
| `Billing`, `Slo` | reports over the inference log |
| `Raft` | the replicated state machine and the registry behind it |
| `MCOrchestrator`, `MCRouteReconciler`, `MCReconciler`, `MCCatalog` | instances of one component |
| `MCTenancy`, `MCOperations`, `MCConvergence` | instances of several components, see below |
| `OrchestratorProofs`, `LifecycleProofs`, `RouteReconcilerProofs` | theorems on rollouts: overlapping calls, calls one at a time, the route reconciler |
| `ApprovalsProofs`, `HealingProofs`, `PlannerProofs` | theorems on approvals; on the supervisor and the self-healing loop; on the planner and its algorithms |
| `OperationsProofs`, `TenancyProofs` | theorems on the parts of the runs `Operations` and `Tenancy` |

A step of every module is what a goroutine does between two points where another
actor can act: one SQL statement (or one transaction), one remote call, one write
of a file. A record such as `op[o]`, `fleetCall[c]` or `dpBuild[b]` is a call in
progress: `pc` (or `at`) is the statement it is about to execute and the other
fields are its local variables, in particular the copies it read earlier.

### Orchestrator

`rows` is the deployments table in creation order, `op[o]` the call that
goroutine `o` executes (HTTP requests `Api`, the reconciler `Rec`) with its local
variables. An agent is its engine slot `cur[n]` and the processes in `live`:
`Supervisor::start` takes the slot without stopping what was there, and
`Supervisor::stop` stops what is in the slot whichever handle is asked for, as in
`supervisor.rs`. `gw` is the gateway's table, keyed by model.

Apply is `ApplyBegin` (create the row), then per engine `StartEngine`,
`EngineReady` or `EngineNotReady` (ERROR, end of stream, timeout, the engine dead
or alive), then `PersistActive` and `PublishRoute`; `Abort` is the `fail`
closure, followed by `StopNext` per engine in reverse and `PersistFailed`.
Teardown is `GetDeployment`, `MarkStopping`, `StopNext`, `DeleteRoute`,
`PersistStopped`. RestartEngine shares `GetDeployment`, `StartEngine`,
`EngineReady` and `PersistActive`. Failover is an Apply that continues with the
Teardown of the old deployment. Every write of a row, and every gateway call, may
be lost (`persist` and the route calls only log errors); `Cancel` is a client
that disconnects (`r.Context()`), after which every call on that context fails;
`Crash` is a control-plane restart. The context of `rollback` is its own, so
`StopNext` survives a cancellation. `ready` is a history variable: how many
engines of `d` Apply has seen READY.

### RouteReconciler

A pass is `ListDeployments`, `Observe`, a `PushRoute` per desired model, a
`RemoveRoute` per observed model that is not desired, `PassDone`. `Observe` falls
back to `pushed` when the gateway cannot be listed. All of `Orchestrator`'s steps
go on in between, and `GatewayRestart` empties the table.

### Approvals

A request's `pc` is the SQL statement it is about to execute: `load`
(GetDeploymentApproval), `check` and `insert` (RecordApprovalVote), `resolve`
(the designated reviewers among the API keys), `count`
(CheckApprovalQuorumFiltered), `update`. `Lost` ends a request between any two.
The expiry of a record is left out: no code sets `ExpiresAt`.

### Reconciler

Time is counted in loop intervals; ages stop at the threshold they are compared
with, which keeps the model finite without hiding a comparison. `PassBegin` is
the snapshot, the tracker's update and the choice of what is due (all comparisons
use the time the pass began); `Dispatch`, the stamp of the failover plan
(a whole-row write of a copy read before planning), `ActionSucceeds` and
`ActionFails` perform the actions one after the other, and `Tick`, heartbeats,
crashes, operators and `ControlPlaneRestart` interleave with them. The ticker's
channel has one place. A restart writes ACTIVE over whatever the row says; the
teardown behind a failover or a cleanup may lose either of its writes, and Failover
ignores its error, so the row may be left ACTIVE or STOPPING. A deployment row is
ACTIVE, STOPPING or STOPPED here; the rollouts behind it are `Orchestrator`'s.
`AutomationAuto` is the policy: `engine_down` alone by default, with the failovers
and cleanups in `Operations`.

### Supervisor

One step is what a task does between two awaits. `task[g]` is the supervise task
of generation `g`; `stop[s]` a StopEngine call. `StreamCloses` distinguishes a
backend whose event stream ends after METRICS (then `monitor` polls) from one
whose stream stays open and carries the ERROR (llama.cpp). `ConsumerStays` says
whether the caller of StartEngine reads to the end; the orchestrator does not,
it cancels the stream as soon as it has seen READY. Only `pump` notices that the
reader has left, since only it sends. Whether an engine ran long enough to reset
the failure counter is decided when it crashes.

### Fleet, CertAuthority

`Fleet`: `nodes` is the nodes table, `leaves` the agents' rows of `certs`,
`token` and `used` the tokens issued and the nonces consumed, the latter in the
manager's memory with the secret that signs tokens: `FleetRestart` forgets both.
Join, Drain, Decommission, RenewCert and the heartbeat are calls of one registry
or CA operation per step. Approve and Enroll are left out, only tests call them.

`CertAuthority`: a CA is a number. A rotation generates a keypair, swaps it in and
keeps the old one as the grace CA, writes `ca.crt`, then `ca.key`, then the row of
`certs`. A restart can come between any two of these; it adopts what is on disk
without checking that the two files belong together, provided the passphrase
reads the key, and the grace CA is gone. Rotations do not overlap here: nothing but
tests calls Rotate, one call at a time. What two at once would do to the files, which
Rotate writes outside its lock although `ca.go:68` calls the type safe for
concurrent use, is not examined. Certificate ages have three values:
ample, less than 60 days left, expired.

### Partition, Planner

Integers stand for gigabytes, tokens and milliseconds; comparisons of quotients
are cross-multiplied. `dpPartition`, `heldKarpPath`, the greedy path with 2-opt,
the candidate subsets and the pins are folds or recursive functions: a table of
the code (`dp`, `parent`) is a function over its cells, a loop the function of its
rounds. `DPOptimal` and `OrderOptimal` compare them with all contiguous splits and
all permutations, with the host the request asks for, on a fleet of at least one
node (`orderNodes` is not called on none). `Planner` chains filtering, quantisation,
ordering, partition and validation as planInternal does, then runs one goroutine
per node for the failover plans and one per group of a replica set, in any order,
with the request's context cancelled at any point. `Inf` is `math.Inf`; a job of the
model has links so cheap that no path through its fleet costs as much
(`JobsAssumption`), which is no restriction on the code's infinity.

### Catalog, VertexToken

A catalogue id is a name and a vendor version. Seven handlers put rows in; each
looks and inserts in separate steps, with the vendor's registry changing between
listing and describing. A deploy request looks the model up, plans, stores the
plan under an id with a random suffix that may repeat, then either applies it or
queues it for approval; nothing reads the queue. `VertexToken` is the client's
cache: a token's end is computed when the answer arrives, concurrent fetches
overwrite each other's.

### ClusterConfig, DataPlanes

An entry of the list of deployments is a pair of a model and a mark, because the list
may name a model twice: the validator accepts it and one apply then deploys both
entries. An apply takes the current models and deployments at its start and then works
through the sections, one registry or deployer call per step; calls may fail and
are skipped; the watcher and requests apply at once. `Check` is one poll of the
file: it records the hash before it applies. In `DataPlanes` a snapshot is four
reads and a write; the pusher, refreshes and operators' own snapshots overlap,
and a push may fail. A heartbeat stores the status its body has, whatever it is.

### Access, RateLimit, Sessions, LdapGroups

`Access` has the key and account tables, requests that rotate or ask for a token
in two steps, and the verdict of the gate for keys, tokens and no credential at
all, with the sticky `hasAnyAPIKeyCache`. A bearer token without an enabled key row,
a rotated key for instance, is not refused by the gate: the request is passed on to
the handler without a key in its context (`server.go:1121-1126`), as that of a token
nobody ever had. `requestKey` is the key a handler finds there. `RateLimit` counts a bucket in integer
units; `cleanupLimiters` evicts idle ones. `Sessions` has PKCE states, session
rows, tokens (subject and second of issue), logouts from both sides and the LDAP
cache. `LdapGroups` is the breadth-first search over a directory with cycles, each
search of which may fail.

### Orgs, Pools, Policies

A request checks in one step and writes in a later one, the write meeting the
schema's constraints (foreign keys and cascades where the schema has them). Ids
are random, a deleted one does not come back. A member is given any role id the
request names, the built-in `platform_admin` included: no handler compares it with
what the caller may do. In `Pools` a deploy asks for its team's nodes in two queries
(own exclusive pools, shared pools with a quota); an empty answer or an error means
that no filter is passed. `closed` is a history variable: the nodes that were another
team's alone all through these reads. `Policies` separates the listing of
the rows from the swap of the compiled engine, which `policyMu` guards.

### AuditChain, Ledger, Billing, Slo

`AuditChain` is the abstract log of the `audit` package: append and verify. In
`Ledger` a writer is a request of a process; the mutexes hold within a process
only, between processes there is the database, where a transaction that read
before another one committed fails at its insert. Verification, cursor paging,
erasure, backup and restore run beside the writers, and the table may hold rows
from before the chain: `Chained` is the table without them, as the verification
endpoint reads it. `Billing` computes the report queries over a log, with
instants compared as RFC 3339 text, and lets the organisation report run one
query per team while events arrive. Which tenants an organisation's LIKE pattern
matches is the relation `OrgLike`, a constant: it holds the organisation's own tenants
and may hold those of ids that differ in case or that an underscore or a percent sign
of the id matches. The lines of a billing report and its SLA figures are two queries,
two steps of the model. `Slo` does the same for the compliance report.

### Raft

One committed log, applied in order by every member to a store that survives a
restart, while snapshots are empty and Restore does nothing: a restarted member
applies the log since its last snapshot again.

## Runs

`MCTenancy`, `MCOperations` and `MCConvergence` each check several components in
one run. A variable `part`, fixed in the initial state, says which component a
behaviour is a behaviour of; the others rest. The reachable states are the union
of the components' own, and a property `Module_Property` is
`part = "..." => ...`. The components of one such run share no state in the code
that these properties look at; those that do are composed in one module
(`RouteReconciler` with `Orchestrator`, the agents with `Reconciler`, the
approval queue with `Catalog`). In `MCTenancy` and `MCOperations` the resting
variables are 0; in `MCConvergence` they keep their initial values, and each
fairness condition is that of the part's own specification in the behaviours of
that part.

| Run | Properties | Shows |
|---|---|---|
| `Orchestrator_overlap` | `TypeOK`, `HostAfterWorkers`, `ActiveIsComplete`, `RouteIsServable`, `FailedNeverServes`, `TransientStatesPass` | with overlapping calls and a fault at any point: rows that say ACTIVE are complete, routes lead to completed rollouts, hosts start last, failed rollouts stay down; no row stays PROVISIONING or STOPPING unless a fault struck |
| `Orchestrator_exclusive` | `LifecycleSpec`, `StoppedFreesSlots` | calls on one deployment one at a time, no faults: the rows implement `DeploymentLifecycle`, safety and liveness, and a STOPPED deployment has freed its slots |
| `Routes_converge` | `PassIsServable`, `RoutesConverge` | after the last call and fault the table is exactly the newest ACTIVE deployments' routes, after gateway restarts, lost pushes, crashes and crossing teardowns |
| `Convergence` | `ApprovedHasQuorum`, `DesignatedQuorum`, `QuorumDecides`, `CrashLoopCapped`, `ActionsSpaced`, `EngineDownHealed`, `CrashIsHandled`, `SnapshotsConverge`, `WatcherCatchesUp` | what must eventually happen: quorums decide, crashed engines are restarted by the agent and by the reconciler, every data plane ends with the current snapshot, the watcher with the current file applied unless a call of that apply failed; and the quorum, the cap on restarts and the spacing of actions |
| `Operations` | `Fleet_AdmissionHolds`, `CertAuthority_DiskIsAuthority`, `CertAuthority_RotationKeepsTrust`, `Planner_PlansSound`, `Planner_SearchOptimal`, `ClusterConfig_DeclaredOnce`, `Catalog_ImportsGenuine`, `Raft_ReplayConverges`, `Reconciler_ActionsJustified`, `Supervisor_OneEngine` | the safety of the parts that run the fleet |
| `Tenancy` | `Access_CredentialsHold`, `Access_AnonymousOnlyWithoutKeys`, `Sessions_LoginsEnd`, `LdapGroups_RoleIsDirectorys`, `Orgs_TenancyIntact`, `Pools_RowsHold`, `Policies_EngineIsOneState`, `Ledger_LogsHold`, `Ledger_ChainSteps`, `Billing_ReportsHold`, `RateLimit_LimitHolds` | the safety of the parts that serve tenants, each under concurrent requests |

A property of the last two runs is a conjunction of named parts, each defined and
explained in its component's module. Every part but
the types has a mutation of the code that breaks it (`mutants` in
`PROJECT.json`).

`Ledger_ChainSteps` is a refinement: every step of the table is an append of
`AuditChain` (instantiated with the table's chained rows), a stutter, or a
restore of the file.

Runs that TLC refutes, each a statement of the repository the code does not keep:

| Run | Statement | Counterexample |
|---|---|---|
| `Orchestrator_terminal` | "Only STOPPED and FAILED are terminal" (`server.go:2436`) | Teardown of a rollout in progress writes STOPPED; Apply then writes ACTIVE |
| `Approvals_veto` | "one veto outweighs any number of approvals" (`approvals.go:318`) | an approval counts its quorum, a rejection is written, the approval overwrites it |
| `Reconciler_idle` | "engine down where it should run → restart" (`reconciler.go:8`) | the engine ends without a crash; its agent reports READY, which `engineHealthy` accepts |
| `Supervisor_unread` | "restarts crashed engines" (`supervisor.rs:11`) | the caller has left the stream; `pump` ends supervision at the first event it cannot send |
| `Fleet_cordon` | "Decommission permanently removes a node from rotation" (`fleet.go:300`) | the node's next heartbeat, or one that read the row before, writes READY over DECOMMISSIONED |
| `Catalog_approved` | "the actual rollout runs only after an admin calls" approve (`server.go:2731`) | the approval changes the record's status and nothing else: no code starts the queued deployment |

Further disagreements met while modelling. The steps that lead to them are in the
models (or next to what is modelled), the statements are not kept as runs.

Rollouts and approvals:

- A deploy request whose client disconnects leaves its row PROVISIONING for ever
  (`orchestrator.go:375` only logs); `TransientStatesPass` therefore excludes
  faults.
- An engine that was started but timed out is not in `started`, so a FAILED
  deployment may keep an engine in an agent's slot (`orchestrator.go:184-188`).
- A route-reconciler pass that listed the deployments before a rollout became
  ACTIVE deletes the route it published, until the next pass
  (`route_reconciler.go:35-36` calls this safe).
- A vote whose request is lost before the status update leaves a quorum pending
  for ever, and no reviewer can vote again; `QuorumDecides` excludes lost
  requests. When every designated reviewer's key is gone, or cannot be listed,
  every admin's vote counts; `DesignatedQuorum` excludes that.
- A corrective action that failed is re-issued on the next pass, without the
  cooldown `env-vars.md:83` promises, and the cooldown of one that succeeded is
  forgotten when a pass does not find the discrepancy; `ActionsSpaced` says what is
  left. With both `engine_down` and `node_down` automatic, one pass may fail a
  deployment over and then restart an engine of the stopped row, which makes it
  ACTIVE and so a candidate for another failover. The stamp of a failover plan can turn a row an operator stopped
  back to ACTIVE until the failover's own teardown; Failover ignores an error of
  that teardown.
- A second StartEngine leaves the first engine running, unsupervised; a
  StopEngine that meets a start in progress finds no handle, and the engine
  survives it; a backend that reports crashes on its stream never resets the
  failure counter after a stable run.

Fleet and planning:

- RenewCert stops at the first issued certificate and does not look at the node's
  state; a renewal or join after Decommission's ListCerts leaves an issued
  certificate. A drain lasts until the next heartbeat. `handleDeleteNode` and
  `handleRestartNode` check or list first and act later (`server.go:1915-1964`).
- A crash between the two files of a rotation leaves a CA that cannot sign, and
  the grace CA is in memory only.
- The quantisation is chosen on the aggregate memory with no fallback, so adding a
  node can make a feasible model infeasible; a cancelled request records "no
  feasible plan" for the remaining nodes; the failover alternatives are dropped
  by the wire conversion (`convert.go:238-258`).
- Overlapping applies can deploy a model twice, and so can one apply of a list that
  names it twice. The watcher records the hash
  before it applies, so a failed apply is not retried, and a restart does not
  complete a pool or organization that exists already.
- A deploy with an inline plan does not look the model up; deleting a model checks
  for deployments first and deletes later; imported models have no plannable
  specification.
- A deleted data plane stays in its nodes' `dataplane_id`; an update writes back
  the status it read; a stale build may overwrite a newer snapshot until the next
  push.
- Nothing submits commands to the Raft log (`ha-control-plane.md:33`: "all writes
  go through the Raft log"); the key hash is `json:"-"` and does not replicate; a
  command that was refused may succeed on replay, usage and audit entries are
  repeated by it.

Tenants:

- A request that bears a rotated, deleted or unknown key reaches the handler
  (`server.go:1123`, "pass through, handler enforces"). Two rotations of one key at once give two successors, and a key deleted during
  its rotation still gets one; the successor does not inherit an expiry. A token
  of a revoked account is honoured for up to 15 minutes. `hasAnyAPIKeyCache` is
  sticky until restart.
- The in-memory PKCE fallback is never read when there is a registry; a cookie
  whose row could not be stored does not authenticate (the comment in `auth.go`
  says it does); an identical token issued in the same second revives a logged-out
  cookie; LDAP and OIDC order roles differently.
- Deleting an organization checks for teams first, and the delete cascades to one
  created in between; changing a member's role is a delete and an insert; a role in
  use can be deleted; a member's role id is stored unchecked, so a team role may be
  `platform_admin`, which the permission check honours.
- Assigning a node to a pool checks first and writes later; removing it ignores
  which pool it is in; an update of a pool writes back the policy it read; a quota
  can be set on an exclusive pool and outlives the switch of its pool to exclusive. A
  deploy whose allowed list is empty, or cannot be read, is planned on the whole fleet
  (`server.go:2712`), so a team whose only quota is on a pool exclusive to another team
  gets that team's nodes; `node-pools.md:12` says "Only the owner team (or org) can
  schedule on its nodes" and line 27 excepts a team that "has no pool assigned".
  `FilteredKeepsOut` is therefore about deploys that got a filter.
- A reload of the policies that listed earlier may swap later; a failed reload is
  answered 200; without a licence the middleware lets everything pass.
- Erasure changes hashed fields of the inference chain, so the chain no longer
  verifies (`gdpr.go:47-49` says it "stays intact"); `InferenceVerifies` excludes
  erased rows. The window of `handleEnterpriseAuditLog` reports a break when it
  does not begin at the genesis.
- Timestamps are compared as text, which drops events in the first second of a
  window that begins on a whole second; the current price applies retroactively. An
  event that arrives between the two queries of a billing report is in its SLA
  figures and not in its lines, and these figures are of all tenants whatever the
  filter. An organization's report counts the events of every tenant its LIKE
  pattern matches (`billing_v2_sqlite.go:127`), those of an id that differs in case
  included, where `registry.go:168` says "all teams belonging to orgID";
  `OrgReportBracketed` is about what the pattern matches.
- A limiter evicted after ten idle minutes comes back full, which matters only for
  rates below one burst in ten minutes; `server.go:427` calls 0 "disabled", `New`
  turns it into the defaults.

### Bounds

- `Orchestrator_*`: two agents, one model, a plan over both and one on a single
  agent, two HTTP goroutines and the reconciler, two deployments (so that one can
  replace or collide with the other on an agent), three or four calls. Three
  calls are what a race of two needs after the deploy they race about; one fault
  at any point.
- `Routes_converge`: two models and two single-node deployments, three calls, one
  fault, one HTTP goroutine beside the reconcilers. A pass touches both models.
- `Convergence`: approvals with four keys, two of them designated, dual control,
  two requests at a time, one deleted key, one lost request; the reconciler with
  one agent, thresholds of two passes and two intervals (the smallest a single
  observation does not reach), a cooldown of three, longer than the dwell time, and
  three faults, so that a repair can fail and the engine crash again; the
  supervisor with a cap of two failures and four engines of one generation; two
  data planes, the pusher and one refresh, two changes to a fleet whose
  deployments may be older than the data planes, so that a change falls inside a
  build that serves a route; two edits of the file, one possibly invalid, with
  failing applies.
- `Operations`: two concurrent calls or requests wherever there are calls, the
  fewest that race; two join tokens and two leaf certificates for one node, one
  restart; three contents of the file, one of them naming a model twice and one
  invalid; three CAs, so that a rotation follows a rotation; four layers over
  fleets of three and four machines that differ in memory, speed, links, and the
  constraints of the request; two sweeps of 2-opt, so that one follows another (the code
  allows 64); two deployments of one model in the catalogue; a
  token lifetime of three timeouts with a margin of one; a log of three commands
  with one snapshot and one restart; a deployment on two agents, all three repairs
  automatic, one fault (a lost write of a teardown or restart included), and heartbeats
  that may be late from both; two starts of an engine, two engines in
  all, a cap of two; agents that report one state and one queued deployment.
- `Tenancy`: two concurrent requests each; three keys of two roles, one
  account of one role; one
  login state and two callbacks; three groups with any memberships among them,
  cycles included, and a depth of one; two organizations, one team; two pools, one
  node, two teams; two policies; two processes with a writer each and three
  entries after one from before the chain; events around the bounds of the billing
  windows with fractions of different length, of three organizations, two of which
  differ in case and one of which begins with the other's id; three SLO events with latencies on
  both sides of the contract; four ticks of a limiter.

Each bound is a constant, named in the module's CONSTANTS and set in the `.cfg`.
Symmetry (requests of one kind, ids of one kind) is used only in `Tenancy` and
`Operations`, which check no liveness; the permuted values are never compared by
order and none is chosen.

Deadlock checking is off everywhere: each instance ends when its bounded calls
and faults are used up.

### Fairness

- `Orchestrator!FairSpec`, `RFairSpec`: a call in progress keeps going. Every
  blocking call has a deadline (the step timeout, the HTTP client's), and the
  goroutine then continues. The route reconciler's loop never ends: an
  unreachable gateway only shortens its delay.
- `Approvals!FairSpec`: a request being served goes on to its end.
- `RecFairSpec`: the clock, the loop and the heartbeats of an agent that is up go
  on. `Timely` (heartbeats arrive within the node timeout) is only assumed for
  liveness; `Operations` lets them be late.
- `SupFairSpec`: the runtime keeps polling every task. No fairness is assumed of
  engines, callers or StopEngine.
- `DpFairSpec`: the pusher's ticker keeps firing, a build in progress goes on, and
  a data plane with a row keeps sending heartbeats that say active (one that is
  offline is skipped by the pusher until it does; other statuses may come in between).
- `ConfigFairSpec`: the watcher's ticker keeps firing and an apply goes on.
- `Catalog!CatFairSpec` (for the refuted statement): requests are served to their
  end.

Nothing is assumed fair for clients, operators, faults or crashes.

## Proofs

TLAPS checks every theorem below for all values of the constants: any fleet, set
of plans, number of goroutines, requests, processes, restarts and faults. The
assumptions are those of the modules (types of the constants, ids of one kind
that are not ids of another) and the few named here. Almost no property is inductive,
because it is about tables while what may break it is a request that read them
earlier. The invariant added in each case says what a request in flight may hold.

The theorems on the parts of `Operations` and `Tenancy` are of those runs' own
specifications: each is proved for the part's next-state relation and lifted, as
in a behaviour of the sum one part moves and `part` never changes.

**Rollouts** (`OrchestratorProofs`): `TypeCorrect`, `HostStartsLast`,
`ActiveRowsComplete`, `RoutesServable`, the invariants of `Orchestrator_overlap`,
and the action property `FailedStaysDown`. Rows are rewritten from copies that
calls made earlier; `IInv` says what a copy can be. Given how far Apply got with a
deployment (`ready[d]`), a copy of its engines held by any call, and the row
itself, is empty, or a full placement when every engine was READY, or a leftover
of a rollout that failed (`GoodRow`, `GoodCall`); a deployment is rolled out by
one Apply (`Unique`), engines in `live` belong to rows (`LiveInv`), and while
Apply is still starting engines nobody has a non-empty copy (`Untouched`). A
rollout that failed has `ready[d]` short of its roster for ever, which is why no
later write can make it ACTIVE. There is one lemma per action; `PersistKeeps`,
`CallStep` and `RouteKeeps` carry what they share.

**The deployment's lifecycle** (`LifecycleProofs`): when calls on one deployment
do not overlap and none is lost (`Exclusive`, the setting of
`Orchestrator_exclusive`; the overlapping case is refuted by
`Orchestrator_terminal`), a STOPPED deployment has freed its slots
(`StoppedFrees`), and the rows implement the safety part of
`DeploymentLifecycle` (`LifecycleImplemented`), step by step: `Seen` is the
refinement mapping, and each action is a step of the abstract specification or a
stutter. `XInv` adds to `IInv` that a deployment is one call's (`OneCall`), that
the row's state follows from how far that call got (`Tracked`, `InState`) and rests
when nobody works on it (`Rested`), and how much of its list a teardown has
stopped (`Emptied`), which later starts cannot undo because a handle is issued
once (`HandlesIssued`).

**Routes** (`RouteReconcilerProofs`): `PassServable`. What a pass holds, like what
the gateway holds, points to the host of a completed rollout of that model, and a
rollout that completed stays complete (from `IInv`), so a stale pass still pushes
servable routes.

**Approvals** (`ApprovalsProofs`): `QuorumHolds` and `DesignatedHolds`. An approve
request about to write the status has seen enough votes, votes are never withdrawn
(the number only grows while it waits), and nobody inserts an approval of the
requester (`QInv`); as long as no key was deleted and no read failed, the votes it
counted are those of the designated keys (`DInv`).

**Supervisor** (`HealingProofs`, `OperationsSupervisor`): at most one engine of
a generation is alive, none once its task gave up, and no task sees more failures
in a row than the cap. `SInv` ties a task's place in the loop to the engines of
its generation and its failures to the attempts it has counted.

**Reconciler** (`HealingProofs`, `OperationsReconciler`): no action before the
passes and the dwell time (`HysteresisStep`); an action that succeeded not repeated
before the cooldown while the tracker keeps it, before the dwell time when it forgot
it, and one that failed tried again at once (`ActionsSpaced`); and no second failover
of a deployment whose row stayed STOPPED since the first (`FailoverStep`), for every
policy. `TrackerInv` relates an entry of the tracker to the real history of its
discrepancy, `PassInv` says that what a pass acts on is ripe until its turn comes,
and `FailoverInv` that a deployment which was failed over is STOPPED and that no
failover of it is in progress. `moved` is cleared by what puts the row back: a restart,
which persists ACTIVE whatever the row says (`orchestrator.go:260-297`), or an
operator's teardown. A failover whose teardown lost its last write does not count as
done, and the next pass repeats it.

**Fleet** (`OperationsFleet`): tokens admit one Join, certificates have a node
row, Decommission revokes what it listed. The invariant follows the nonce through
Join's steps, and says of a revocation that what it has not yet revoked is on its list.

**Certificate authority** (`OperationsDisk`, `OperationsTrust`): `RotationOrder`
says what the memory, the grace slot and the two files hold at each step of a
rotation.

**Catalogue and token cache** (`OperationsCatalog`): requests about to insert hold
an approved package; the plans of deployments and of requests about to become one
are stored and apart. For the cache, the recorded end of a token is ahead of the
real one by no more than the margin, from how long a call can have been under way;
the timeout of a call is at most the margin and shorter than a token's lifetime
(`TokenAssumption`), as in the client.

**Declared configuration** (`OperationsConfig`): one in-flight apply owes only
deployments nobody made, for models whose other deployments it made itself
(`AloneInv`); without errors, each has registered what
precedes its position and an organization has, or is about to get, the teams of one
of the contents begun (`CleanInv`).

**Tenants** (`TenancyProofs`):

- `TenancyPolicies`, `TenancyPools`, `TenancyOrgs`: the rows a request checked may
  be gone when it writes; the invariants say which references the schema's
  constraints still guarantee at the write. For a deploy between its two reads
  (`DeployWatched`): what it holds has no node that was another team's alone since the
  first, and such a node is so still, so the second read cannot return it. Of a role
  `TenancyOrgs` assumes nothing; it says where a permission can come from, a built-in
  role given in the key's own team included.
- `TenancySessions`: one exchange per login state that was used up, one row per
  token, and when the directory's answer in the cache can have been taken.
- `TenancyCredentials`, `TenancyGate`: a rotation in flight holds the role of its
  key, a token in flight was asked for while its account was on. Key roles are the
  three the handler validates (`server.go:3028`).
- `TenancyRate`: for every earlier request, those let through since and the units
  in the bucket are paid for by the burst and what the rate added (`PaidUp`); an
  eviction keeps this because `RateAssumption` says that a bucket is full after the
  idle time.
- `TenancyGroups`: before the answers of a level, what was seen are the groups
  within its depth; in between, those and the parents of the groups asked about.
  `Within` is defined by chains of memberships, not by a recursion, which makes it
  fit to reason about.
- `TenancyLogs`, `TenancyChain`: `AuditTable` and `InfTable` determine both tables
  row by row, `BackupInv` the backups; `TxOK` says that a transaction whose table
  has not changed since it read the tail holds the row that extends it, and no
  other transaction commits; `PageOK` what a paging client has. `TenancyChain` is the
  refinement of `AuditChain`. `Chained` is written by positions because the
  provers know nothing of a recursive filter.
- `TenancyReports`: two parts. An SLO entry was read at one moment of the request,
  with the threshold its contract had when the request began; and a configured
  model that had traffic by then has its entry before the query over all models
  runs, which therefore never gives it the default threshold (`SloInv`). A configured
  model without traffic by then is excepted: its first event may be judged by the
  global threshold. For the
  organization's report, the total so far and the tokens of the teams still to be
  read lie between the total at the start and the total now (`Bracketed`): an event
  that arrives for a team still to be read moves both, one for a team already read
  only the upper bound. The tenants of the organization are those of its pattern,
  for any pattern. Between the two queries of a billing report the timed requests
  behind its lines are still logged (`SheetBracketed`). `ReportsAgree` is about one moment and rests on sums. What
  a fold computes is an induction, done here over sets and without operator
  parameters: `NatInduct` and `SetInduct` take the set of the numbers, or of the
  finite subsets, for which a fact holds; from them a sum does not depend on the
  order of its terms (`SumPick`), is that of its groups (`SumAtGroups`) and that of
  an image under an injection (`SumAtImage`). The join of events with prices has one
  row per event (`JoinedIsImage`) because two prices of one model never start at one
  instant (`OnePrice`, which `UpsertModelPricing` keeps) and because the text of an
  instant determines it (`FmtInjective`). `BillingAssumption` types events and prices;
  `SloAssumption` says that the mark of a missing row is not a row.

**Raft** (`OperationsRaft`): there is one store the log makes of an empty one
(`StoreOf`), and a member that skipped nothing and had nothing
refused differs from it, in every row, only where an entry it has still to replay
repairs the difference (`Replaying`, `Mends`): a row that is there and should not be
meets its deletion again, a missing one its creation, a stale column its last
write. A member that has replayed everything therefore has the rows of the log. A
replayed create is harmless because an accepted one found the row absent
(`Accepted`), and there is at most one row in the key table (`OneKey`). Usage and
audit entries are counted up to the furthest position reached.

**Planner** (`PlannerProofs`, `OperationsPlanner`, `OperationsSearch`): what the
algorithms return for every fleet, model and request, and from it what reaches a
caller. The induction is again over sets (`NatInduct`, `SetInduct`); `RecExists`
turns it into the existence of a recursive function over `0 .. N`, once for each
table or loop.

- Deployable plans. A cell of the partition table takes its split point below itself,
  so the ends that are followed back increase to the last layer (`EndsHold`) and the
  shards are contiguous (`CutsHold`); pins move a shard to another node and keep its
  range (`PinsHold`). A finite set of nodes can be sorted (`SortExists`). Held-Karp's
  path, the greedy one and 2-opt's visit every node once, the host first
  (`OrderHolds`). `MemoryHolds` reads the memory of each node off
  validatePlanMemory, `DraftHolds` the place of the draft. The groups of a replica
  set are disjoint because the ranking repeats no node (`GroupsHold`). `PlannerInv`
  says which goroutines are still running and of each result collected that it is
  none or deployable on that goroutine's nodes.
- Optimal searches. No split is faster than the table's cell (`SplitBound`) and the
  cuts returned attain it (`PartitionBest`). No tour of the first k hops is cheaper
  than its cell of the Held-Karp table (`TourBound`), the path followed back costs
  what its cell says (`BackCost`), and every path through the fleet is such a tour
  (`RouteTour`); hence `HeldKarpShortest`. Each attempt of 2-opt keeps a route within
  the cost of the greedy one (`TryHolds`, `ImproveHolds`).

Assumed of a job (`JobsAssumption`): a finite fleet, sizes and link times that are
naturals, and links as above. Nothing is assumed of the number of layers, of the
thresholds or of the number of passes.

Only model-checked: every liveness property, and the fairness part of
`DeploymentLifecycle`. Both are outside the prover.

## Not modelled

- The gateway's request path and quotas, the agent's node state machine, its model
  cache, SWIM membership, probes: Rust code beside the control plane whose effect
  on it is an input of the models (a heartbeat's state, a lost call).
- Read-only handlers: metrics, status, logs, what-if, compliance, usage listings.
- What is a conversion or a call into a library: protobuf, YAML, X.509, OIDC and
  LDAP wire protocols, request signing, SQL text, migration, telemetry, wiring in
  `main.go`, generated code.
- Estimates of the planner (throughput, latency, cost) and its explanations; in
  `Billing` averages, time zones of the request and page layout.
- Audit entries appended by the handlers (their failures are only logged), except
  as writers of `Ledger`.
- `Fleet.Approve`, `Fleet.Enroll` and `GenerateIntermediate`, which nothing but
  tests calls.

`PROJECT.json` lists every part with its status and the reason.

## Plan

Done: the modules above with their runs; the proofs of every safety property the
runs check (`StoppedFreesSlots` and the safety of `DeploymentLifecycle` for calls
that do not overlap).

Next, in this order:

1. The reconciler's failover and its row stamp composed with `Orchestrator` in one
   module, in place of the three-state rows of `Reconciler`.
2. The agent's `NodeStateMachine` behind the heartbeats of `Fleet` and
   `Reconciler`; the gateway's quotas; the model cache.
