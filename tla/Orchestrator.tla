---------------------------- MODULE Orchestrator ----------------------------
(***************************************************************************)
(* The control plane's deployment orchestrator                             *)
(* (go/controlplane/orchestrator/orchestrator.go) and the actuator the     *)
(* reconciler drives it through (reconciler/actuator.go).                  *)
(*                                                                         *)
(* Apply, Teardown, RestartEngine and Failover run in different goroutines *)
(* with no lock between them.  Each is a sequence of remote calls: rows of *)
(* the registry, engines of the agents, routes of the Gateway.  One step   *)
(* here is one such call, so every interleaving of the calls is explored.  *)
(*                                                                         *)
(* Abstractions:                                                           *)
(*   - a plan is what partition() makes of it: the worker nodes in start   *)
(*     order and the single host (a plan without exactly one host makes    *)
(*     Apply return before it has changed anything);                       *)
(*   - a row's endpoint is non-empty exactly when its host is set, and the *)
(*     host determines it;                                                 *)
(*   - an agent is its single engine slot (supervisor.rs): starting an     *)
(*     engine supersedes the one in the slot without stopping it, stopping *)
(*     stops whatever is in the slot whichever handle was asked for;       *)
(*   - audit entries are left out: AppendAudit failures are only logged.   *)
(***************************************************************************)
EXTENDS Naturals, Sequences, FiniteSets

CONSTANTS
    Nodes,      \* agents of the fleet
    Models,     \* catalogue entries
    Plans,      \* the plans an operator or the planner may submit
    Api,        \* goroutines of concurrent HTTP requests
    Rec,        \* the goroutine of the reconciler
    NoNode,     \* "no host recorded"
    MaxDeps,    \* bound: deployments ever created
    MaxCalls,   \* bound: Apply / Teardown / RestartEngine / Failover calls
    MaxFaults,  \* bound: lost calls, cancelled requests, control-plane crashes
    Overlap     \* may calls on the same deployment overlap in time?

ASSUME PlansAssumption ==
    Plans \subseteq [model: Models, workers: Seq(Nodes), host: Nodes]
ASSUME ProcessAssumption == Rec \notin Api /\ NoNode \notin Nodes
ASSUME BoundsAssumption ==
    MaxDeps \in Nat /\ MaxCalls \in Nat /\ MaxFaults \in Nat /\ Overlap \in BOOLEAN

VARIABLES
    rows,    \* registry: the deployments table, in creation order
    live,    \* engine processes alive on the agents
    cur,     \* cur[n]: handle in agent n's engine slot, 0 when empty
    next,    \* last engine handle issued
    gw,      \* Gateway: model -> route
    op,      \* op[o]: the call goroutine o is executing
    ready,   \* history: engines of deployment d that Apply saw READY
    calls,   \* calls made so far
    faults   \* faults so far

vars == <<rows, live, cur, next, gw, op, ready, calls, faults>>

Ops == Api \cup {Rec}
States == {"PROVISIONING", "ACTIVE", "STOPPING", "STOPPED", "FAILED"}
Terminal == {"STOPPED", "FAILED"}
Roles == {"worker", "host"}

\* Start order of a plan's engines: the workers, then the host.
Roster(p) == Append(p.workers, p.host)

\* Mutant: the host first.
RoleAtHostFirst(p, i) == IF i = 1 THEN "host" ELSE "worker"

RoleAt(p, i) == IF i = Len(Roster(p)) THEN "host" ELSE "worker"

EngineRef == [node: Nodes, role: Roles, handle: Nat]
Row == [state: States, plan: Plans, engines: Seq(EngineRef), host: Nodes \cup {NoNode}]
Engine == [node: Nodes, role: Roles, handle: Nat, dep: Nat]
NoRoute == [dep |-> 0, host |-> NoNode]
Route == [dep: Nat, host: Nodes \cup {NoNode}]

\* The local variables of a call in progress.  refs and host are the
\* DeploymentDetail it works on: what Apply has started so far, or what
\* Teardown and RestartEngine read at their start.
Call == [kind: {"none", "apply", "teardown", "restart"},
         pc: {"idle", "get", "start", "wait", "persist", "publish",
              "mark", "stop", "done"},
         dep: Nat,
         refs: Seq(EngineRef),
         host: Nodes \cup {NoNode},
         left: Nat,              \* engines rollback() still has to stop
         node: Nodes \cup {NoNode},  \* RestartEngine's node
         handle: Nat,            \* engine whose READY is awaited
         old: Nat,               \* Failover: deployment to tear down next
         ctx: BOOLEAN]           \* the call's context is not cancelled

NoCall == [kind |-> "none", pc |-> "idle", dep |-> 0, refs |-> <<>>,
           host |-> NoNode, left |-> 0, node |-> NoNode, handle |-> 0,
           old |-> 0, ctx |-> TRUE]

PlanOf(d) == rows[d].plan
Idle(o) == op[o].kind = "none"
Busy(d) == \E o \in Ops : op[o].dep = d \/ op[o].old = d

-----------------------------------------------------------------------------
Init ==
    /\ rows = <<>>
    /\ live = {}
    /\ cur = [n \in Nodes |-> 0]
    /\ next = 0
    /\ gw = [m \in Models |-> NoRoute]
    /\ op = [o \in Ops |-> NoCall]
    /\ ready = <<>>
    /\ calls = 0
    /\ faults = 0

(***************************************************************************)
(* Calls on the collaborators, and how each may fail.  A call made with a  *)
(* cancelled context always fails; any other loss is a fault.              *)
(***************************************************************************)
Fault == faults < MaxFaults /\ faults' = faults + 1
CallOK(o) == op[o].ctx /\ UNCHANGED faults
CallLost(o) == IF op[o].ctx THEN Fault ELSE UNCHANGED faults

\* persist(): the whole row is rewritten from the caller's copy; an error is
\* logged and the caller carries on.
Persist(o, d, state, engines, host) ==
    \/ /\ CallOK(o)
       /\ rows' = [rows EXCEPT ![d] = [state |-> state, plan |-> rows[d].plan,
                                       engines |-> engines, host |-> host]]
    \/ CallLost(o) /\ UNCHANGED rows

\* The Gateway's table is keyed by model; errors are logged.
SetRoute(o, m, route) ==
    \/ CallOK(o) /\ gw' = [gw EXCEPT ![m] = route]
    \/ CallLost(o) /\ UNCHANGED gw

\* Supervisor::start: a new engine takes the slot.
AgentStart(n, role, d) ==
    /\ next' = next + 1
    /\ live' = live \cup {[node |-> n, role |-> role, handle |-> next + 1, dep |-> d]}
    /\ cur' = [cur EXCEPT ![n] = next + 1]

\* Supervisor::stop: the engine in the slot is stopped, whatever its handle.
AgentStop(n) ==
    /\ live' = {e \in live : ~(e.node = n /\ e.handle = cur[n])}
    /\ cur' = [cur EXCEPT ![n] = 0]

Awaited(o) == {e \in live : e.handle = op[o].handle}

-----------------------------------------------------------------------------
(***************************************************************************)
(* Calls begin.  The HTTP handlers call Apply and Teardown with no check   *)
(* on the deployment's state; the reconciler restarts, fails over or       *)
(* cleans up a deployment it saw ACTIVE.                                   *)
(***************************************************************************)
Begin(o, call) ==
    /\ Idle(o)
    /\ calls < MaxCalls
    /\ calls' = calls + 1
    /\ op' = [op EXCEPT ![o] = call]

Free(d) == Overlap \/ ~Busy(d)

\* Mutant: a state outside DeploymentState.
NewRowUnknown(p) == [state |-> "PENDING", plan |-> p, engines |-> <<>>, host |-> NoNode]

\* Apply: CreateDeployment with state PROVISIONING and an empty detail.
NewRow(p) == [state |-> "PROVISIONING", plan |-> p, engines |-> <<>>, host |-> NoNode]

ApplyBegin(o, p, old) ==
    /\ Len(rows) < MaxDeps
    /\ Begin(o, [NoCall EXCEPT !.kind = "apply", !.pc = "start",
                               !.dep = Len(rows) + 1, !.old = old])
    /\ rows' = Append(rows, NewRow(p))
    /\ ready' = Append(ready, 0)
    /\ UNCHANGED <<live, cur, next, gw, faults>>

Deploy(o, p) == o \in Api /\ ApplyBegin(o, p, 0)

\* Failover: the alternate plan is applied first, then the failed deployment
\* is torn down.
Failover(d, p) ==
    /\ rows[d].state = "ACTIVE" /\ Free(d)
    /\ p.model = PlanOf(d).model
    /\ ApplyBegin(Rec, p, d)

TeardownBegin(o, d) ==
    /\ Free(d)
    /\ o = Rec => rows[d].state = "ACTIVE"
    /\ Begin(o, [NoCall EXCEPT !.kind = "teardown", !.pc = "get", !.dep = d])
    /\ UNCHANGED <<rows, live, cur, next, gw, ready, faults>>

\* Mutant: RestartEngine for a deployment that is not ACTIVE.
RestartBeginAnyState(d, n) ==
    /\ Free(d)
    /\ \E i \in DOMAIN rows[d].engines : rows[d].engines[i].node = n
    /\ Begin(Rec, [NoCall EXCEPT !.kind = "restart", !.pc = "get",
                                 !.dep = d, !.node = n])
    /\ UNCHANGED <<rows, live, cur, next, gw, ready, faults>>

RestartBegin(d, n) ==
    /\ rows[d].state = "ACTIVE" /\ Free(d)
    /\ \E i \in DOMAIN rows[d].engines : rows[d].engines[i].node = n
    /\ Begin(Rec, [NoCall EXCEPT !.kind = "restart", !.pc = "get",
                                 !.dep = d, !.node = n])
    /\ UNCHANGED <<rows, live, cur, next, gw, ready, faults>>

-----------------------------------------------------------------------------
(***************************************************************************)
(* Apply                                                                   *)
(***************************************************************************)
\* The engine to start next: Apply's position in the roster, or
\* RestartEngine's node with the role its reference records.
NextEngine(o) ==
    LET c == op[o] IN
    IF c.kind = "apply"
    THEN LET p == PlanOf(c.dep)  i == Len(c.refs) + 1
         IN  [node |-> Roster(p)[i], role |-> RoleAt(p, i)]
    ELSE LET i == CHOOSE j \in DOMAIN c.refs : c.refs[j].node = c.node
         IN  [node |-> c.node, role |-> c.refs[i].role]

\* startAndWaitReady: Resolve and the StartEngine RPC.
StartEngine(o) ==
    LET e == NextEngine(o) IN
    /\ op[o].pc = "start" /\ op[o].ctx
    /\ AgentStart(e.node, e.role, op[o].dep)
    /\ op' = [op EXCEPT ![o].pc = "wait", ![o].handle = next + 1]
    /\ UNCHANGED <<rows, gw, ready, calls, faults>>

\* Mutant: an engine that does not get READY does not fail the rollout.
AbortIgnored(o) ==
    op' = [op EXCEPT ![o] =
             IF op[o].kind = "apply" THEN [op[o] EXCEPT !.pc = "persist", !.handle = 0]
             ELSE NoCall]

\* fail(): Apply rolls back what it recorded in `started'; RestartEngine
\* returns the error and leaves the row alone.
Abort(o) ==
    op' = [op EXCEPT ![o] =
             IF op[o].kind = "apply"
             THEN [op[o] EXCEPT !.pc = "stop", !.left = Len(op[o].refs), !.handle = 0]
             ELSE NoCall]

\* The node does not resolve, its agent does not answer, or the context is
\* cancelled.
StartRefused(o) ==
    /\ op[o].pc = "start"
    /\ Abort(o)
    /\ UNCHANGED <<rows, live, cur, next, gw, ready, calls, faults>>

\* READY: the handle is recorded; Apply goes on to the next engine or, after
\* the host, to ACTIVE.
EngineReady(o) ==
    LET c == op[o]  e == NextEngine(o)  p == PlanOf(c.dep)
        ref == [node |-> e.node, role |-> e.role, handle |-> c.handle] IN
    /\ c.pc = "wait" /\ c.ctx
    /\ Awaited(o) # {}
    /\ IF c.kind = "apply"
       THEN LET refs == Append(c.refs, ref) IN
            /\ op' = [op EXCEPT ![o] =
                        [c EXCEPT !.refs = refs, !.handle = 0,
                                  !.pc = IF Len(refs) = Len(Roster(p)) THEN "persist" ELSE "start",
                                  !.host = IF Len(refs) = Len(Roster(p)) THEN p.host ELSE NoNode]]
            /\ ready' = [ready EXCEPT ![c.dep] = Len(refs)]
       ELSE LET i == CHOOSE j \in DOMAIN c.refs : c.refs[j].node = c.node IN
            /\ op' = [op EXCEPT ![o] =
                        [c EXCEPT !.refs = [c.refs EXCEPT ![i] = ref],
                                  !.handle = 0, !.pc = "persist"]]
            /\ UNCHANGED ready
    /\ UNCHANGED <<rows, live, cur, next, gw, calls, faults>>

\* ERROR, end of stream, step timeout or cancellation before READY.  The
\* engine may have died with it, or be alive still: it was only slow, or the
\* agent's own restart policy brought it back.
EngineNotReady(o) ==
    /\ op[o].pc = "wait"
    /\ live' \in {live, live \ Awaited(o)}
    /\ Abort(o)
    /\ UNCHANGED <<rows, cur, next, gw, ready, calls, faults>>

PersistActive(o) ==
    LET c == op[o] IN
    /\ c.pc = "persist"
    /\ Persist(o, c.dep, "ACTIVE", c.refs, c.host)
    /\ op' = [op EXCEPT ![o] = IF c.kind = "apply" THEN [c EXCEPT !.pc = "publish"]
                               ELSE NoCall]
    /\ UNCHANGED <<live, cur, next, gw, ready, calls>>

\* notifyGatewayUp; a Failover then continues with the old deployment.
PublishRoute(o) ==
    LET c == op[o] IN
    /\ c.pc = "publish"
    /\ SetRoute(o, PlanOf(c.dep).model, [dep |-> c.dep, host |-> c.host])
    /\ op' = [op EXCEPT ![o] =
                IF c.old = 0 THEN NoCall
                ELSE [NoCall EXCEPT !.kind = "teardown", !.pc = "get", !.dep = c.old]]
    /\ UNCHANGED <<rows, live, cur, next, ready, calls>>

-----------------------------------------------------------------------------
(***************************************************************************)
(* rollback(): StopEngine in reverse order, best effort, on a context of   *)
(* its own (a cancelled caller does not stop it).                          *)
(***************************************************************************)
StopNext(o) ==
    LET c == op[o] IN
    /\ c.pc = "stop" /\ c.left > 0
    /\ \/ AgentStop(c.refs[c.left].node) /\ UNCHANGED faults
       \/ Fault /\ UNCHANGED <<live, cur>>
    /\ op' = [op EXCEPT ![o].left = c.left - 1]
    /\ UNCHANGED <<rows, next, gw, ready, calls>>

\* Mutant: Apply returns the error without marking the deployment.
PersistFailedSkipped(o) ==
    /\ op[o].kind = "apply" /\ op[o].pc = "stop" /\ op[o].left = 0
    /\ op' = [op EXCEPT ![o] = NoCall]
    /\ UNCHANGED <<rows, live, cur, next, gw, ready, calls, faults>>

PersistFailed(o) ==
    LET c == op[o] IN
    /\ c.kind = "apply" /\ c.pc = "stop" /\ c.left = 0
    /\ Persist(o, c.dep, "FAILED", c.refs, NoNode)
    /\ op' = [op EXCEPT ![o] = NoCall]
    /\ UNCHANGED <<live, cur, next, gw, ready, calls>>

(***************************************************************************)
(* Teardown and RestartEngine                                              *)
(***************************************************************************)
\* GetDeployment: the copy every later write of this call is made from; a node
\* the copy does not list ends a restart.
GetDeployment(o) ==
    LET c == op[o]  r == rows[c.dep] IN
    /\ c.pc = "get" /\ CallOK(o)
    /\ op' = [op EXCEPT ![o] =
                IF c.kind = "restart" /\ \A i \in DOMAIN r.engines : r.engines[i].node # c.node
                THEN NoCall
                ELSE [c EXCEPT !.refs = r.engines, !.host = r.host,
                               !.pc = IF c.kind = "restart" THEN "start" ELSE "mark"]]
    /\ UNCHANGED <<rows, live, cur, next, gw, ready, calls>>

\* An error of the read is returned.
GetFails(o) ==
    /\ op[o].pc = "get" /\ CallLost(o)
    /\ op' = [op EXCEPT ![o] = NoCall]
    /\ UNCHANGED <<rows, live, cur, next, gw, ready, calls>>

\* Mutant: the loop over the engines misses one.
MarkStoppingOffByOne(o) ==
    LET c == op[o] IN
    /\ c.pc = "mark"
    /\ Persist(o, c.dep, "STOPPING", c.refs, c.host)
    /\ op' = [op EXCEPT ![o].pc = "stop", ![o].left = IF c.refs = <<>> THEN 0 ELSE Len(c.refs) - 1]
    /\ UNCHANGED <<live, cur, next, gw, ready, calls>>

\* Mutant: STOPPED is written before the engines are stopped.
MarkStoppingStopped(o) ==
    LET c == op[o] IN
    /\ c.pc = "mark"
    /\ Persist(o, c.dep, "STOPPED", c.refs, c.host)
    /\ op' = [op EXCEPT ![o].pc = "stop", ![o].left = Len(c.refs)]
    /\ UNCHANGED <<live, cur, next, gw, ready, calls>>

MarkStopping(o) ==
    LET c == op[o] IN
    /\ c.pc = "mark"
    /\ Persist(o, c.dep, "STOPPING", c.refs, c.host)
    /\ op' = [op EXCEPT ![o].pc = "stop", ![o].left = Len(c.refs)]
    /\ UNCHANGED <<live, cur, next, gw, ready, calls>>

\* DeleteRoute by model: whichever deployment the route points at.
DeleteRoute(o) ==
    LET c == op[o] IN
    /\ c.kind = "teardown" /\ c.pc = "stop" /\ c.left = 0
    /\ SetRoute(o, PlanOf(c.dep).model, NoRoute)
    /\ op' = [op EXCEPT ![o].pc = "done"]
    /\ UNCHANGED <<rows, live, cur, next, ready, calls>>

PersistStopped(o) ==
    LET c == op[o] IN
    /\ c.pc = "done"
    /\ Persist(o, c.dep, "STOPPED", c.refs, c.host)
    /\ op' = [op EXCEPT ![o] = NoCall]
    /\ UNCHANGED <<live, cur, next, gw, ready, calls>>

-----------------------------------------------------------------------------
(***************************************************************************)
(* The environment                                                         *)
(***************************************************************************)
\* The HTTP client goes away: r.Context() is cancelled.
Cancel(o) ==
    /\ ~Idle(o) /\ op[o].ctx
    /\ Fault
    /\ op' = [op EXCEPT ![o].ctx = FALSE]
    /\ UNCHANGED <<rows, live, cur, next, gw, ready, calls>>

\* The control plane restarts: calls in progress are gone, nothing resumes
\* them; registry, agents and Gateway keep their state.
Crash ==
    /\ \E o \in Ops : ~Idle(o)
    /\ Fault
    /\ op' = [o \in Ops |-> NoCall]
    /\ UNCHANGED <<rows, live, cur, next, gw, ready, calls>>

\* One step of the call goroutine o is executing.
Step(o) ==
    \/ StartEngine(o) \/ StartRefused(o) \/ EngineReady(o) \/ EngineNotReady(o)
    \/ PersistActive(o) \/ PublishRoute(o) \/ StopNext(o) \/ PersistFailed(o)
    \/ GetDeployment(o) \/ GetFails(o) \/ MarkStopping(o) \/ DeleteRoute(o)
    \/ PersistStopped(o)

CallSteps ==
    \/ \E o \in Api, p \in Plans : Deploy(o, p)
    \/ \E d \in DOMAIN rows, p \in Plans : Failover(d, p)
    \/ \E o \in Ops, d \in DOMAIN rows : TeardownBegin(o, d)
    \/ \E d \in DOMAIN rows, n \in Nodes : RestartBegin(d, n)
    \/ \E o \in Ops : Step(o)
    \/ \E o \in Api : Cancel(o)

Next == CallSteps \/ Crash

Spec == Init /\ [][Next]_vars

\* Every call in progress keeps going: each blocking call has a deadline
\* (stepTO, the HTTP client's timeout) and the goroutine then moves on.
FairSpec == Spec /\ \A o \in Ops : WF_vars(Step(o))

-----------------------------------------------------------------------------
(***************************************************************************)
(* Properties                                                              *)
(***************************************************************************)
\* Types: rows list agents and roles in start order, a call's own copy does too,
\* and no row holds a state the DeploymentState enum does not have.
TypeOK ==
    /\ rows \in Seq(Row)
    /\ live \subseteq Engine
    /\ cur \in [Nodes -> Nat]
    /\ next \in Nat
    /\ gw \in [Models -> Route]
    /\ op \in [Ops -> Call]
    /\ ready \in Seq(Nat)
    /\ calls \in 0..MaxCalls
    /\ faults \in 0..MaxFaults

\* engines are the first engines of plan p, in start order.
Matches(p, engines) ==
    \A i \in 1..Len(engines) :
        engines[i].node = Roster(p)[i] /\ engines[i].role = RoleAt(p, i)

\* engines and host are a full placement of plan p: one reference per engine
\* and the plan's host.
Placed(p, engines, host) ==
    Len(engines) = Len(Roster(p)) /\ Matches(p, engines) /\ host = p.host

\* Apply saw every engine of d READY.
AllReady(d) == ready[d] = Len(Roster(PlanOf(d)))

\* "every WORKER engine is started and must reach READY before the single HOST
\* engine is started" (Apply): no host engine is ever alive on an agent, be it
\* started by Apply, Failover or RestartEngine, before Apply has seen every
\* worker of that deployment READY.
HostAfterWorkers ==
    \A e \in live : e.role = "host" => ready[e.dep] >= Len(PlanOf(e.dep).workers)

\* A row that says ACTIVE lists the complete placement of its plan and its
\* host, whatever stale copies Teardown, RestartEngine and Apply write back
\* over each other (persist rewrites the whole row).
ActiveIsComplete ==
    \A d \in DOMAIN rows :
        rows[d].state = "ACTIVE" => Placed(PlanOf(d), rows[d].engines, rows[d].host)

\* A Gateway route names the host of a deployment of that very model, and that
\* deployment's engines have all been READY (notifyGatewayUp comes last).
RouteIsServable ==
    \A m \in Models : gw[m] # NoRoute =>
        LET d == gw[m].dep IN
        /\ d \in DOMAIN rows
        /\ PlanOf(d).model = m
        /\ gw[m].host = PlanOf(d).host
        /\ AllReady(d)

\* A rollout that failed never serves: no later write of any call turns a
\* FAILED row ACTIVE, and no call publishes a route to it.
FailedNeverServes ==
    [][\A d \in DOMAIN rows : rows[d].state = "FAILED" =>
          /\ rows'[d].state # "ACTIVE"
          /\ \A m \in Models : gw'[m].dep = d => gw[m].dep = d]_vars

\* Teardown stops the engines it lists: once a deployment is STOPPED and no call
\* is working on it, none of the agents it lists has an engine of that
\* deployment in its slot.
StoppedFreesSlots ==
    \A d \in DOMAIN rows : rows[d].state = "STOPPED" /\ ~Busy(d) =>
        \A i \in DOMAIN rows[d].engines : \A e \in live :
            ~(e.dep = d /\ e.node = rows[d].engines[i].node /\ e.handle = cur[e.node])

IsTransient(d) == d \in DOMAIN rows /\ rows[d].state \in {"PROVISIONING", "STOPPING"}

\* "Deployment is PROVISIONING or STOPPING (transient)"
\* (website/docs/api/control-plane.md): however calls overlap, a deployment does
\* not stay in either state for ever, unless a write was lost or a call was cut
\* off (nothing repairs the row then).
TransientStatesPass ==
    \A d \in 1..MaxDeps : IsTransient(d) ~> (~IsTransient(d) \/ faults > 0)

\* "Only STOPPED and FAILED are terminal" (deploymentTerminal): a deployment
\* that reached a terminal state does not become ACTIVE again.
TerminalIsFinal ==
    [][\A d \in DOMAIN rows : rows[d].state \in Terminal => rows'[d].state # "ACTIVE"]_vars

\* The rows implement the abstract lifecycle when calls on one deployment do not
\* overlap and no call is lost.
Lifecycle == INSTANCE DeploymentLifecycle WITH
                 state <- [d \in DOMAIN rows |-> rows[d].state]
LifecycleSpec == Lifecycle!Spec
=============================================================================
