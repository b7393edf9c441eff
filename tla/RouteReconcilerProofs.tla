----------------------- MODULE RouteReconcilerProofs ------------------------
(***************************************************************************)
(* The composition of the orchestrator with the route reconciler: what a   *)
(* pass is about to push, and what the Gateway holds, is servable, for any *)
(* fleet, plans, number of calls and faults.                               *)
(***************************************************************************)
EXTENDS RouteReconciler, OrchestratorProofs, WellFoundedInduction

\* A route that leads to the host of a complete deployment of model m.
Servable(m, r) ==
    /\ r.dep \in 1..Len(rows)
    /\ PlanOf(r.dep).model = m
    /\ r.host = PlanOf(r.dep).host
    /\ AllReady(r.dep)

PassInv ==
    /\ pass \in Pass
    /\ \A m \in Models : pass.desired[m] # NoRoute => Servable(m, pass.desired[m])

\* The orchestrator's invariant, and that the routes a pass wants are servable.
RInv == IInv /\ PassInv

-----------------------------------------------------------------------------
\* A nonempty set of deployments has a newest one.
LEMMA NewestExists ==
    ASSUME NEW n \in Nat, NEW S \in SUBSET (1..n), S # {}
    PROVE  \E d \in S : \A e \in S : e <= d
  <1> DEFINE T == {n - d : d \in S}
             R == OpToRel(<, Nat)
  <1>0. \A d \in S : n - d \in Nat
    OBVIOUS
  <1>1. T \subseteq Nat /\ T # {}
    BY <1>0, Zenon
  <1>2. IsWellFoundedOn(R, Nat)
    BY NatLessThanWellFounded
  <1> HIDE DEF R
  <1>3. PICK x \in T : \A y \in T : ~ (<<y, x>> \in R)
    BY <1>1, <1>2, WFMin
  <1>4. \A y \in T : ~(y < x)
    BY <1>1, <1>3 DEF R, OpToRel
  <1>5. PICK d \in S : x = n - d
    OBVIOUS
  <1>6. ASSUME NEW e \in S
        PROVE  e <= d
    <2>1. n - e \in T
      OBVIOUS
    <2> QED
      BY <1>4, <1>5, <2>1
  <1> QED
    BY <1>6

\* desiredRoutes: what the listing makes of a model is no route, or a servable one.
LEMMA DesiredServable ==
    ASSUME IInv, NEW m \in Models
    PROVE  /\ DesiredRoute(m) \in Route
           /\ DesiredRoute(m) # NoRoute => Servable(m, DesiredRoute(m))
  <1>1. rows \in Seq(Row) /\ Len(rows) \in Nat /\ DOMAIN rows = 1..Len(rows)
    BY DEF IInv, TypeOK
  <1>2. CASE Routable(m) = {}
    BY <1>2 DEF DesiredRoute, NoRoute, Route
  <1>3. CASE Routable(m) # {}
    <2> DEFINE newest == CHOOSE d \in Routable(m) : \A e \in Routable(m) : e <= d
    <2>1. Routable(m) \in SUBSET (1..Len(rows))
      BY <1>1 DEF Routable
    <2>2. newest \in Routable(m)
      <3>1. \E d \in Routable(m) : \A e \in Routable(m) : e <= d
        BY <1>1, <1>3, <2>1, NewestExists
      <3> QED
        BY <3>1
    <2>3. DesiredRoute(m) = [dep |-> newest, host |-> rows[newest].host]
      BY <1>3 DEF DesiredRoute
    <2> HIDE DEF newest
    <2>4. /\ newest \in 1..Len(rows) /\ rows[newest].state = "ACTIVE"
          /\ rows[newest].host # NoNode /\ PlanOf(newest).model = m
      BY <2>1, <2>2 DEF Routable
    <2>5. rows[newest] \in Row
      BY <1>1, <2>4
    <2>6. AllReady(newest) /\ rows[newest].host = PlanOf(newest).host
      BY <2>4 DEF IInv, RowInv, GoodRow, Placed, AllReady, PlanOf
    <2>7. DesiredRoute(m) \in Route
      BY <2>3, <2>4, <2>5 DEF Route, Row
    <2>8. Servable(m, DesiredRoute(m))
      BY <2>3, <2>4, <2>6 DEF Servable
    <2> QED
      BY <2>7, <2>8
  <1> QED
    BY <1>2, <1>3

\* No call, cancellation or crash takes back what made a route servable.
LEMMA ServableKept ==
    ASSUME IInv, Next, NEW m \in Models, NEW r, Servable(m, r)
    PROVE  Servable(m, r)'
  <1>1. /\ rows'[r.dep].plan = rows[r.dep].plan /\ ready'[r.dep] = ready[r.dep]
        /\ r.dep \in 1..Len(rows')
    BY HistoryKept DEF Servable
  <1> QED
    BY <1>1 DEF Servable, PlanOf, AllReady

\* The record of a loop that waits wants no route.
LEMMA NoPassFacts == NoPass \in Pass /\ \A m \in Models : NoPass.desired[m] = NoRoute
  BY DEF NoPass, Pass, Route, NoRoute

\* A step of the reconciler or the Gateway that touches only the Gateway's table and the
\* count of faults, and writes servable routes, keeps the orchestrator's invariant.
LEMMA TableStep ==
    ASSUME IInv, UNCHANGED <<rows, live, cur, next, op, ready, calls>>,
           faults' \in 0..MaxFaults, gw' \in [Models -> Route],
           \A m \in Models : gw'[m] \in {gw[m], NoRoute} \/ Servable(m, gw'[m])
    PROVE  IInv'
  <1>1. DOMAIN rows = 1..Len(rows)
    BY DEF IInv, TypeOK
  <1>2. RouteIsServable'
    <2> SUFFICES ASSUME NEW m \in Models, gw'[m] # NoRoute
                 PROVE  LET d == gw'[m].dep IN
                        /\ d \in DOMAIN rows
                        /\ PlanOf(d).model = m
                        /\ gw'[m].host = PlanOf(d).host
                        /\ AllReady(d)
      BY DEF RouteIsServable, PlanOf, AllReady
    <2> QED
      BY <1>1 DEF IInv, RouteIsServable, Servable
  <1>3. TypeOK'
    BY DEF IInv, TypeOK
  <1> QED
    BY <1>2, <1>3 DEF IInv, RowInv, CallInv, Unique, Untouched, LiveInv, HostAfterWorkers,
                      Starting, PlanOf

\* A pass that only moves on, or drops work, wants the routes it wanted.
LEMMA PassMoves ==
    ASSUME RInv, UNCHANGED <<rows, ready>>, NEW pc \in {"wait", "observe", "push", "delete"},
           NEW push \in SUBSET Models, NEW delete \in SUBSET Models,
           pass' = [pc |-> pc, desired |-> pass.desired, push |-> push, delete |-> delete]
    PROVE  PassInv'
  BY DEF RInv, PassInv, Pass, Servable, PlanOf, AllReady

\* Every statement of a pass preserves the invariant.
LEMMA ReconcileKeeps ==
    ASSUME RInv, pushed \subseteq Models, Reconcile
    PROVE  RInv' /\ pushed' \subseteq Models
  <1>1. /\ pass \in Pass /\ IInv /\ gw \in [Models -> Route] /\ faults \in 0..MaxFaults
        /\ pass = [pc |-> pass.pc, desired |-> pass.desired, push |-> pass.push,
                   delete |-> pass.delete]
        /\ pass.push \subseteq Models /\ pass.delete \subseteq Models
        /\ pass.desired \in [Models -> Route]
    BY DEF RInv, PassInv, IInv, TypeOK, Pass
  <1>2. CASE ListDeployments
    <2>1. IInv'
      BY <1>2, NextKeeps DEF ListDeployments, RInv
    <2> DEFINE want == [m \in Models |-> DesiredRoute(m)]
    <2>2. want \in [Models -> Route] /\ \A m \in Models : want[m] # NoRoute => Servable(m, want[m])
      BY <1>1, DesiredServable
    <2>3. pass' = [pc |-> "observe", desired |-> want, push |-> {}, delete |-> {}]
      BY <1>2 DEF ListDeployments, NoPass
    <2> HIDE DEF want
    <2>4. rows' = rows /\ ready' = ready
      BY <1>2 DEF ListDeployments, vars
    <2>5. PassInv'
      BY <2>2, <2>3, <2>4 DEF PassInv, Pass, Servable, PlanOf, AllReady
    <2> QED
      BY <1>2, <2>1, <2>5 DEF RInv, ListDeployments
  <1>3. CASE Observe
    <2>1. PICK seen \in {Routed, pushed} :
            LET wanted == {m \in Models : pass.desired[m] # NoRoute} IN
            /\ IF seen = Routed THEN UNCHANGED faults ELSE Fault
            /\ pass' = [pass EXCEPT !.pc = "push", !.push = wanted, !.delete = seen \ wanted]
      BY <1>3 DEF Observe
    <2> DEFINE wanted == {m \in Models : pass.desired[m] # NoRoute}
    <2>2. wanted \in SUBSET Models /\ seen \ wanted \in SUBSET Models
      BY DEF Routed
    <2>3. pass' = [pc |-> "push", desired |-> pass.desired, push |-> wanted, delete |-> seen \ wanted]
      BY <1>1, <2>1
    <2>4. faults' \in 0..MaxFaults
      BY <1>1, <2>1, BoundsAssumption DEF Fault
    <2>5. UNCHANGED <<rows, live, cur, next, gw, op, ready, calls, pushed>>
      BY <1>3 DEF Observe
    <2> HIDE DEF wanted
    <2>6. PassInv'
      BY <2>2, <2>3, <2>5, PassMoves
    <2>7. IInv'
      BY <1>1, <2>4, <2>5, TableStep
    <2> QED
      BY <2>5, <2>6, <2>7 DEF RInv
  <1>4. ASSUME NEW m \in Models, PushRoute(m)
        PROVE  RInv' /\ pushed' \subseteq Models
    <2>1. /\ UNCHANGED <<rows, live, cur, next, op, ready, calls>>
          /\ pushed' \subseteq Models
      BY <1>4 DEF PushRoute
    <2>2. pass' = [pc |-> pass.pc, desired |-> pass.desired, push |-> pass.push \ {m},
                   delete |-> pass.delete]
      BY <1>1, <1>4 DEF PushRoute
    <2>3. PassInv'
      BY <1>1, <2>1, <2>2, PassMoves DEF Pass
    <2>4. faults' \in 0..MaxFaults
      BY <1>1, <1>4, BoundsAssumption DEF PushRoute, Fault
    <2>5. gw' = gw \/ gw' = [gw EXCEPT ![m] = pass.desired[m]]
      BY <1>4 DEF PushRoute
    <2>6. gw' \in [Models -> Route] /\ \A x \in Models : gw'[x] \in {gw[x], NoRoute} \/ Servable(x, gw'[x])
      BY <1>1, <2>5 DEF RInv, PassInv
    <2> QED
      BY <1>1, <2>1, <2>3, <2>4, <2>6, TableStep DEF RInv
  <1>5. CASE PushesDone
    <2>1. pass' = [pc |-> "delete", desired |-> pass.desired, push |-> pass.push,
                   delete |-> pass.delete]
      BY <1>1, <1>5 DEF PushesDone
    <2>2. UNCHANGED vars /\ pushed' = pushed
      BY <1>5 DEF PushesDone
    <2>3. PassInv'
      BY <1>1, <2>1, <2>2, PassMoves DEF vars
    <2> QED
      BY <1>1, <2>2, <2>3, NextKeeps DEF RInv
  <1>6. ASSUME NEW m \in Models, RemoveRoute(m)
        PROVE  RInv' /\ pushed' \subseteq Models
    <2>1. /\ UNCHANGED <<rows, live, cur, next, op, ready, calls>>
          /\ pushed' \subseteq Models
      BY <1>6 DEF RemoveRoute
    <2>2. pass' = [pc |-> pass.pc, desired |-> pass.desired, push |-> pass.push,
                   delete |-> pass.delete \ {m}]
      BY <1>1, <1>6 DEF RemoveRoute
    <2>3. PassInv'
      BY <1>1, <2>1, <2>2, PassMoves DEF Pass
    <2>4. faults' \in 0..MaxFaults
      BY <1>1, <1>6, BoundsAssumption DEF RemoveRoute, Fault
    <2>5. gw' = gw \/ gw' = [gw EXCEPT ![m] = NoRoute]
      BY <1>6 DEF RemoveRoute
    <2>6. gw' \in [Models -> Route] /\ \A x \in Models : gw'[x] \in {gw[x], NoRoute}
      BY <1>1, <2>5 DEF Route, NoRoute
    <2> QED
      BY <1>1, <2>1, <2>3, <2>4, <2>6, TableStep DEF RInv
  <1>7. CASE PassDone
    <2>1. UNCHANGED vars /\ pass' = NoPass /\ pushed' = pushed
      BY <1>7 DEF PassDone
    <2>2. PassInv'
      BY <2>1, NoPassFacts DEF PassInv
    <2> QED
      BY <1>1, <2>1, <2>2, NextKeeps DEF RInv
  <1> QED
    BY <1>2, <1>3, <1>4, <1>5, <1>6, <1>7 DEF Reconcile

\* Every step of the composition preserves it.
LEMMA RNextKeeps ==
    ASSUME RInv, pushed \subseteq Models, [RNext]_allVars
    PROVE  RInv' /\ pushed' \subseteq Models
  <1>1. CASE CallSteps /\ UNCHANGED rrVars
    <2>1. IInv' /\ Next
      BY <1>1, NextKeeps DEF RInv, Next
    <2>2. pass' = pass /\ pushed' = pushed
      BY <1>1 DEF rrVars
    <2>3. PassInv'
      BY <2>1, <2>2, ServableKept DEF RInv, PassInv
    <2> QED
      BY <2>1, <2>2, <2>3 DEF RInv
  <1>2. CASE ControlPlaneCrash
    <2>1. IInv'
      BY <1>2, CrashKeeps DEF RInv, ControlPlaneCrash
    <2>2. PassInv'
      BY <1>2, NoPassFacts DEF ControlPlaneCrash, PassInv
    <2> QED
      BY <1>2, <2>1, <2>2 DEF RInv, ControlPlaneCrash
  <1>3. CASE GatewayRestart
    <2>1. /\ UNCHANGED <<rows, live, cur, next, op, ready, calls>> /\ pass' = pass /\ pushed' = pushed
          /\ faults' \in 0..MaxFaults
      BY <1>3, BoundsAssumption DEF GatewayRestart, Fault, rrVars, RInv, IInv, TypeOK
    <2>2. gw' \in [Models -> Route] /\ \A m \in Models : gw'[m] = NoRoute
      BY <1>3 DEF GatewayRestart, Route, NoRoute
    <2>3. PassInv'
      BY <2>1 DEF RInv, PassInv, Servable, PlanOf, AllReady
    <2> QED
      BY <2>1, <2>2, <2>3, TableStep DEF RInv
  <1>4. CASE UNCHANGED allVars
    <2>1. IInv' /\ pass' = pass /\ pushed' = pushed /\ UNCHANGED <<rows, ready>>
      BY <1>4, NextKeeps DEF allVars, rrVars, vars, RInv
    <2> QED
      BY <2>1 DEF RInv, PassInv, Servable, PlanOf, AllReady
  <1> QED
    BY <1>1, <1>2, <1>3, <1>4, ReconcileKeeps DEF RNext

\* What a pass is about to push, and what the Gateway holds, are routes to the host of a
\* complete deployment of that model, whatever calls, crashes and Gateway restarts came
\* since the pass listed the deployments.
THEOREM PassServable == RSpec => []PassIsServable
  <1> DEFINE Inv == RInv /\ pushed \subseteq Models
  <1>1. RInit => Inv
    BY InitKeeps, NoPassFacts DEF RInit, RInv, PassInv
  <1>2. Inv /\ [RNext]_allVars => Inv'
    BY RNextKeeps
  <1>3. Inv => PassIsServable
    <2>1. IInv => DOMAIN rows = 1..Len(rows)
      BY DEF IInv, TypeOK
    <2> QED
      BY <2>1 DEF RInv, PassInv, PassIsServable, Servable, IInv
  <1> HIDE DEF Inv
  <1> QED
    BY <1>1, <1>2, <1>3, PTL DEF RSpec
=============================================================================
