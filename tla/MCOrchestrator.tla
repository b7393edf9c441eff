--------------------------- MODULE MCOrchestrator ---------------------------
(***************************************************************************)
(* Small instances of Orchestrator for TLC: a fleet of two agents, one     *)
(* model, a plan that spreads it over both agents and one that fits on the *)
(* first (so that two deployments share an agent).                         *)
(***************************************************************************)
EXTENDS Orchestrator

CONSTANTS n1, n2, m1

MCNodes == {n1, n2}
MCModels == {m1}
Split == [model |-> m1, workers |-> <<n1>>, host |-> n2]
Single == [model |-> m1, workers |-> <<>>, host |-> n1]
MCPlans == {Split, Single}
=============================================================================
