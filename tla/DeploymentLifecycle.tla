------------------------ MODULE DeploymentLifecycle -------------------------
(***************************************************************************)
(* What a deployment's row promises its readers (the dashboard, the        *)
(* handlers that ask deploymentTerminal, the route reconciler): the        *)
(* lifecycle behind the DeploymentState values the orchestrator writes.    *)
(* A rollout ends ACTIVE or FAILED; a deployment leaves either only by     *)
(* being torn down; PROVISIONING and STOPPING are passing states.          *)
(***************************************************************************)
EXTENDS Naturals, Sequences

CONSTANT MaxDeps

VARIABLE state   \* state[d] of the d-th deployment created

Transient == {"PROVISIONING", "STOPPING"}

Allowed == {<<"PROVISIONING", "ACTIVE">>, <<"PROVISIONING", "FAILED">>,
            <<"ACTIVE", "STOPPING">>, <<"FAILED", "STOPPING">>, <<"STOPPED", "STOPPING">>,
            <<"STOPPING", "STOPPED">>}

Init == state = <<>>

Create == Len(state) < MaxDeps /\ state' = Append(state, "PROVISIONING")

Move(d) ==
    \E t \in Allowed : t[1] = state[d] /\ state' = [state EXCEPT ![d] = t[2]]

Settle(d) == d \in DOMAIN state /\ state[d] \in Transient /\ Move(d)

Next == Create \/ \E d \in DOMAIN state : Move(d)

Safety == Init /\ [][Next]_state

Spec == Safety /\ \A d \in 1..MaxDeps : WF_state(Settle(d))
=============================================================================
