---------------------------- MODULE MCReconciler ----------------------------
(* One deployment on one agent whose engine ends without a crash.          *)
EXTENDS Reconciler

CONSTANTS n1, d1

Single == [d \in {d1} |-> {n1}]
=============================================================================
