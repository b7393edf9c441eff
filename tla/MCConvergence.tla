---------------------------- MODULE MCConvergence ----------------------------
(***************************************************************************)
(* The loops that something must eventually come of: the self-healing      *)
(* loop, the engine supervisor, the data planes' snapshot pusher, the      *)
(* watcher of the declared configuration and the approval of a deployment. *)
(* As in MCTenancy a behaviour is a behaviour of one part, under that      *)
(* part's fairness, while the others stay as they are at the start.        *)
(*                                                                         *)
(* Instances: one agent whose engine breaks and whose heartbeats arrive in *)
(* time; an engine that crashes more often than the cap allows; two data   *)
(* planes and two changes; two edits of the configuration with failing     *)
(* applies; four admin keys, two of them designated, two requests.         *)
(***************************************************************************)
EXTENDS Reconciler, Supervisor, DataPlanes, ClusterConfig, Approvals

CONSTANTS n1, d1, k1, k2, k3, k4

VARIABLE part

ConvParts == {"reconciler", "supervisor", "dataplanes", "config", "approvals"}

convergenceVars == <<part, recVars, supVars, dpVars, cfgVars, vars>>

Single == [d \in {d1} |-> {n1}]
Designated == {k2, k3}

\* Two files that declare different things, the first with two deployments of one model
\* that the second deploys as well, and one that does not validate.
MCEntries == {<<"m1", 1>>, <<"m1", 2>>, <<"m1", 3>>}
Nothing == [x \in {} |-> {}]
Models1 == [valid |-> TRUE, models |-> {"m1"}, deploy |-> {<<"m1", 1>>, <<"m1", 2>>}, orgs |-> [o \in {"o1"} |-> {"t1"}], pools |-> Nothing]
Models2 == [valid |-> TRUE, models |-> {"m1", "m2"}, deploy |-> {<<"m1", 3>>}, orgs |-> Nothing, pools |-> [p \in {"p1"} |-> {"n1"}]]
Invalid == [valid |-> FALSE, models |-> {}, deploy |-> {}, orgs |-> Nothing, pools |-> Nothing]
MCConfigs == {Models1, Models2, Invalid}

ConvergenceInit ==
    /\ part \in ConvParts
    /\ RecInit /\ SupInit /\ DpInit /\ ConfigInit /\ Init
    /\ part # "config" => file = Invalid
    /\ part # "dataplanes" => activeOn = {}

ConvergenceNext ==
    /\ UNCHANGED part
    /\ \/ part = "reconciler" /\ RecNext /\ UNCHANGED <<supVars, dpVars, cfgVars, vars>>
       \/ part = "supervisor" /\ SupNext /\ UNCHANGED <<recVars, dpVars, cfgVars, vars>>
       \/ part = "dataplanes" /\ DpNext /\ UNCHANGED <<recVars, supVars, cfgVars, vars>>
       \/ part = "config" /\ ConfigNext /\ UNCHANGED <<recVars, supVars, dpVars, vars>>
       \/ part = "approvals" /\ Next /\ UNCHANGED <<recVars, supVars, dpVars, cfgVars>>

\* The fairness of RecFairSpec, SupFairSpec, DpFairSpec, ConfigFairSpec and FairSpec, each
\* in the behaviours of its own part.
ConvergenceFairness ==
    /\ WF_recVars(part = "reconciler" /\ Tick) /\ WF_recVars(part = "reconciler" /\ Loop)
    /\ \A n \in Nodes : WF_recVars(part = "reconciler" /\ Heartbeat(n))
    /\ \A g \in Generations : WF_supVars(part = "supervisor" /\ Supervise(g))
    /\ WF_dpVars(part = "dataplanes" /\ startConfigSnapshotPusher)
    /\ WF_dpVars(part = "dataplanes" /\ UpdateDataPlane)
    /\ \A b \in AllBuilders : WF_dpVars(part = "dataplanes" /\ DpBuildStep(b))
    /\ \A d \in DpIds : WF_dpVars(part = "dataplanes" /\ RecordDataPlaneHeartbeat(d, "active"))
    /\ WF_cfgVars(part = "config" /\ Check)
    /\ \A a \in Appliers : WF_cfgVars(part = "config" /\ ApplyStep(a))
    /\ \A q \in Requests : WF_vars(part = "approvals" /\ Step(q))

ConvergenceSpec ==
    ConvergenceInit /\ [][ConvergenceNext]_convergenceVars /\ ConvergenceFairness
=============================================================================
