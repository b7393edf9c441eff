-------------------------- MODULE RouteReconciler ---------------------------
(***************************************************************************)
(* The route reconciler (orchestrator/route_reconciler.go) composed with   *)
(* the orchestrator: both read and write the registry's deployments and    *)
(* the Gateway's routing table, from different goroutines, without a lock. *)
(*                                                                         *)
(* A pass is not atomic: it lists the deployments, lists the Gateway's     *)
(* routes, then upserts and deletes route by route, while Apply and        *)
(* Teardown go on.  The Gateway keeps its table in memory only and loses   *)
(* it on a restart.                                                        *)
(***************************************************************************)
EXTENDS Orchestrator

VARIABLES
    pass,    \* the pass in progress
    pushed   \* models an upsert of this reconciler last succeeded for

rrVars == <<pass, pushed>>
allVars == <<vars, rrVars>>

NoPass == [pc |-> "wait", desired |-> [m \in Models |-> NoRoute],
           push |-> {}, delete |-> {}]
Pass == [pc: {"wait", "observe", "push", "delete"}, desired: [Models -> Route],
         push: SUBSET Models, delete: SUBSET Models]

\* Mutant: every deployment of model m, whatever its state and endpoint.
RoutableAny(m) == {d \in DOMAIN rows : PlanOf(d).model = m}

\* ACTIVE deployments of model m with an endpoint.
Routable(m) ==
    {d \in DOMAIN rows : /\ rows[d].state = "ACTIVE"
                         /\ rows[d].host # NoNode
                         /\ PlanOf(d).model = m}

\* desiredRoutes: the listing is in creation order and a later deployment of
\* the same model overwrites an earlier one in the map.
DesiredRoute(m) ==
    IF Routable(m) = {} THEN NoRoute
    ELSE LET d == CHOOSE d \in Routable(m) : \A e \in Routable(m) : e <= d
         IN  [dep |-> d, host |-> rows[d].host]

Routed == {m \in Models : gw[m] # NoRoute}

RInit == Init /\ pass = NoPass /\ pushed = {}

\* Run calls Reconcile at start-up and then after every delay; ListDeployments.
ListDeployments ==
    /\ pass.pc = "wait"
    /\ pass' = [NoPass EXCEPT !.pc = "observe",
                              !.desired = [m \in Models |-> DesiredRoute(m)]]
    /\ UNCHANGED <<vars, pushed>>

\* Mutant: the Gateway is never asked.
ObservePushed ==
    /\ pass.pc = "observe"
    /\ LET wanted == {m \in Models : pass.desired[m] # NoRoute} IN
       pass' = [pass EXCEPT !.pc = "push", !.push = wanted, !.delete = pushed \ wanted]
    /\ UNCHANGED <<vars, pushed>>

\* observe: the Gateway's own listing, else the models last pushed.
Observe ==
    /\ pass.pc = "observe"
    /\ \E seen \in {Routed, pushed} :
        LET wanted == {m \in Models : pass.desired[m] # NoRoute} IN
        /\ IF seen = Routed THEN UNCHANGED faults ELSE Fault
        /\ pass' = [pass EXCEPT !.pc = "push", !.push = wanted, !.delete = seen \ wanted]
    /\ UNCHANGED <<rows, live, cur, next, gw, op, ready, calls, pushed>>

\* One PUT, in any order (a Go map); a failure is collected and the pass goes on.
PushRoute(m) ==
    /\ pass.pc = "push" /\ m \in pass.push
    /\ \/ /\ gw' = [gw EXCEPT ![m] = pass.desired[m]]
          /\ pushed' = pushed \cup {m}
          /\ UNCHANGED faults
       \/ Fault /\ UNCHANGED <<gw, pushed>>
    /\ pass' = [pass EXCEPT !.push = @ \ {m}]
    /\ UNCHANGED <<rows, live, cur, next, op, ready, calls>>

PushesDone ==
    /\ pass.pc = "push" /\ pass.push = {}
    /\ pass' = [pass EXCEPT !.pc = "delete"]
    /\ UNCHANGED <<vars, pushed>>

\* One DELETE of an observed route that is not desired.
RemoveRoute(m) ==
    /\ pass.pc = "delete" /\ m \in pass.delete
    /\ \/ /\ gw' = [gw EXCEPT ![m] = NoRoute]
          /\ pushed' = pushed \ {m}
          /\ UNCHANGED faults
       \/ Fault /\ UNCHANGED <<gw, pushed>>
    /\ pass' = [pass EXCEPT !.delete = @ \ {m}]
    /\ UNCHANGED <<rows, live, cur, next, op, ready, calls>>

\* The pass ends; Run waits for the interval, or the retry delay after an
\* error, and starts over.
PassDone ==
    /\ pass.pc = "delete" /\ pass.delete = {}
    /\ pass' = NoPass
    /\ UNCHANGED <<vars, pushed>>

Reconcile ==
    \/ ListDeployments \/ Observe \/ PushesDone \/ PassDone
    \/ \E m \in Models : PushRoute(m) \/ RemoveRoute(m)

\* The Gateway restarts with an empty table.
GatewayRestart ==
    /\ Routed # {}
    /\ Fault
    /\ gw' = [m \in Models |-> NoRoute]
    /\ UNCHANGED <<rows, live, cur, next, op, ready, calls, rrVars>>

\* A control-plane crash also forgets the pass and the pushed set.
ControlPlaneCrash == Crash /\ pass' = NoPass /\ pushed' = {}

RNext ==
    \/ CallSteps /\ UNCHANGED rrVars
    \/ ControlPlaneCrash
    \/ Reconcile
    \/ GatewayRestart

RSpec == RInit /\ [][RNext]_allVars

\* The loop never ends (an unreachable Gateway only shortens the delay), and
\* calls in progress keep going.
RFairSpec ==
    /\ RSpec
    /\ WF_allVars(Reconcile)
    /\ \A o \in Ops : WF_allVars(Step(o) /\ UNCHANGED rrVars)

-----------------------------------------------------------------------------
\* What a pass is about to push, and what the Gateway holds, are routes to the
\* host of a deployment of that model whose engines have all been READY, even
\* when the deployment has been torn down since the pass listed it.
PassIsServable ==
    /\ pass \in Pass /\ RouteIsServable
    /\ \A m \in Models : pass.desired[m] # NoRoute =>
          LET d == pass.desired[m].dep IN
          d \in DOMAIN rows /\ PlanOf(d).model = m /\ pass.desired[m].host = PlanOf(d).host
          /\ AllReady(d)

\* "one route per ACTIVE deployment, and nothing else": once calls and faults
\* have ceased, the Gateway's table is, from some point on, exactly the routes
\* of the newest ACTIVE deployment of each model, whatever Gateway restart, lost
\* push, control-plane crash or crossing Teardown came before.
RoutesConverge == <>[](\A m \in Models : gw[m] = DesiredRoute(m))
=============================================================================
