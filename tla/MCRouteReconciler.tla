------------------------- MODULE MCRouteReconciler --------------------------
(***************************************************************************)
(* A small instance of RouteReconciler: one agent, two models (or one),    *)
(* single-node plans, so that the routes of several deployments of one     *)
(* model, and passes that touch two models, cross each other.              *)
(***************************************************************************)
EXTENDS RouteReconciler

CONSTANTS n1, n2, m1, m2

MCNodes == {n1, n2}
OneModel == {m1}
TwoModels == {m1, m2}
OnePlan == {[model |-> m1, workers |-> <<>>, host |-> n1]}
TwoPlans == {[model |-> m1, workers |-> <<>>, host |-> n1],
             [model |-> m2, workers |-> <<>>, host |-> n2]}
=============================================================================
