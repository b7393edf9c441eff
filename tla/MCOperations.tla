---------------------------- MODULE MCOperations ----------------------------
(***************************************************************************)
(* The parts that run the fleet: membership and leaf certificates, the     *)
(* certificate authority, the planner, the declared configuration, the     *)
(* model catalog, the cloud token cache, the replicated state machine, the *)
(* self-healing loop and the agent's engine supervisor.  As in MCTenancy a *)
(* behaviour is a behaviour of one part while the others rest.             *)
(*                                                                         *)
(* Instances: one node with two join tokens and two calls; one deployment  *)
(* on two agents, so that a pass of the loop holds several of its          *)
(* discrepancies, with thresholds that one observation does not reach; two *)
(* starts of an engine; fleets of three and four machines that differ in   *)
(* what the planner looks at, under every constraint a request can carry.  *)
(***************************************************************************)
EXTENDS Fleet, CertAuthority, Planner, ClusterConfig, Catalog, VertexToken, Raft,
        Reconciler, Supervisor

CONSTANTS c1, c2,   \* requests
          t1, t2,   \* join tokens, members, agents
          d1, x1

VARIABLE part

OpsParts == {"fleet", "ca", "planner", "config", "catalog", "token", "raft", "reconciler", "supervisor"}

operationsVars == <<part, fleetVars, caVars, planVars, cfgVars, catVars, tokVars, raftVars,
                    recVars, supVars>>

(***************************************************************************)
(* Values of the constants                                                 *)
(***************************************************************************)
Symmetry == Permutations({c1, c2}) \cup Permutations({t1, t2})

Split == [d \in {d1} |-> {t1, t2}]

MCNames == {"a"}
MCSlug == [n \in MCNames |-> "a"]

\* Two files that declare different things, the first with two deployments of one model
\* that the second deploys as well, and one that does not validate.
MCEntries == {<<"m1", 1>>, <<"m1", 2>>, <<"m1", 3>>}
Nothing == [x \in {} |-> {}]
Models1 == [valid |-> TRUE, models |-> {"m1"}, deploy |-> {<<"m1", 1>>, <<"m1", 2>>}, orgs |-> [o \in {"o1"} |-> {"t1"}], pools |-> Nothing]
Models2 == [valid |-> TRUE, models |-> {"m1"}, deploy |-> {<<"m1", 3>>}, orgs |-> Nothing, pools |-> [p \in {"p1"} |-> {"n1"}]]
Invalid == [valid |-> FALSE, models |-> {}, deploy |-> {}, orgs |-> Nothing, pools |-> Nothing]
MCConfigs == {Models1, Models2, Invalid}

\* Machines that differ in memory, speed, state and performance factor.
Hw(r, v, d, b, s, f) == [ram |-> r, vram |-> v, unified |-> FALSE, disk |-> d, bw |-> b, state |-> s, pcf |-> f]
Big == Hw(10, 0, 0, 1, "READY", 0)
Fast == Hw(6, 6, 4, 2, "RUNNING", 0)
Slow == Hw(6, 0, 0, 0, "READY", 50)
Away == Hw(10, 0, 0, 2, "DRAINING", 0)
Small == Hw(4, 0, 0, 1, "READY", 0)
Fleets == {<<a, b, c>> : a \in {Big, Fast, Small}, b \in {Fast, Slow}, c \in {Slow, Away, Big}}
            \cup {<<Fast, Slow, Fast, Slow>>, <<Big, Big, Fast, Small>>, <<Big, Big, Big, Big>>}

\* Link times: around the first machine, or in a ring that one direction is cheaper in.
Star(n) == [a \in 1..n |-> [b \in 1..n |-> IF a = b THEN 0 ELSE IF a = 1 \/ b = 1 THEN 1 ELSE 3]]
Ring(n) == [a \in 1..n |-> [b \in 1..n |-> IF b = (a % n) + 1 THEN 1 ELSE IF a = (b % n) + 1 THEN 2 ELSE 0]]

\* What a request may ask for.
Free == [include |-> {}, exclude |-> {}, allowed |-> {}, force |-> 0, host |-> 0, quant |-> 0,
         pins |-> <<>>, replicas |-> 1]
Pin(n, a, b) == <<[node |-> n, start |-> a, end |-> b]>>
Asked ==
    {Free, [Free EXCEPT !.exclude = {1}], [Free EXCEPT !.include = {1, 2}],
     [Free EXCEPT !.allowed = {2, 3}, !.host = 3], [Free EXCEPT !.allowed = {2}, !.host = 1],
     [Free EXCEPT !.force = 1], [Free EXCEPT !.force = 3, !.host = 2],
     [Free EXCEPT !.pins = Pin(2, 0, 0)], [Free EXCEPT !.force = 2, !.pins = Pin(1, 3, 3)],
     [Free EXCEPT !.quant = 2], [Free EXCEPT !.quant = 3], [Free EXCEPT !.replicas = 2]}
Specs == {[quants |-> <<12, 6>>, kv |-> 2, draft |-> TRUE], [quants |-> <<6, 3>>, kv |-> 4, draft |-> FALSE]}
SomeJobs == {[hw |-> f, links |-> l] @@ s @@ c : f \in Fleets, l \in {0, 1}, s \in Specs, c \in Asked}
MCJobs == {[j EXCEPT !.links = IF @ = 0 THEN Star(Len(j.hw)) ELSE Ring(Len(j.hw))] : j \in SomeJobs}

(***************************************************************************)
(* The sum.  A part that rests has no state.                               *)
(***************************************************************************)
OperationsInit ==
    /\ part \in OpsParts
    /\ IF part = "fleet" THEN FleetInit
       ELSE nodes = 0 /\ leaves = 0 /\ token = 0 /\ used = 0 /\ fleetCall = 0 /\
            fleetRestarts = 0 /\ joins = 0
    /\ IF part = "ca" THEN CAInit
       ELSE certs = 0 /\ caRow = 0 /\ made = 0 /\ active = 0 /\ akey = 0 /\ old = 0 /\
            disk = 0 /\ passphrase = 0 /\ rot = 0
    /\ IF part = "planner" THEN PlannerInit
       ELSE job = 0 /\ stage = 0 /\ plan = 0 /\ running = 0 /\ collected = 0 /\
            cancelled = 0
    /\ IF part = "config" THEN ConfigInit
       ELSE file = 0 /\ lastHash = 0 /\ cfgModels = 0 /\ cfgDeps = 0 /\ cfgOrgs = 0 /\ cfgTeams = 0 /\ cfgPools = 0 /\
            cfgMembers = 0 /\ apply = 0 /\ edits = 0 /\
            overlapped = 0 /\ disturbed = 0 /\ cfgApplied = 0 /\ missed = 0
    /\ IF part = "catalog" THEN CatInit
       ELSE models = 0 /\ plans = 0 /\ deployments = 0 /\ queue = 0 /\ creq = 0 /\
            vendor = 0 /\ approved = 0
    /\ IF part = "token" THEN TokInit
       ELSE clock = 0 /\ cache = 0 /\ tokCall = 0 /\ handed = 0
    /\ IF part = "raft" THEN RaftInit
       ELSE rlog = 0 /\ db = 0 /\ journal = 0 /\ applied = 0 /\ snapAt = 0 /\ reached = 0 /\
            skipped = 0 /\ refused = 0 /\ restarts = 0
    /\ IF part = "reconciler" THEN RecInit
       ELSE phase = 0 /\ node = 0 /\ row = 0 /\ tearing = 0 /\ orphans = 0 /\ tracker = 0 /\
            pass = 0 /\ ticked = 0 /\ hist = 0 /\ moved = 0 /\ recFaults = 0 /\ stops = 0
    /\ IF part = "supervisor" THEN SupInit
       ELSE generation = 0 /\ stopping = 0 /\ handle = 0 /\ enginePhase = 0 /\ task = 0 /\
            engines = 0 /\ stop = 0 /\ spawns = 0 /\ stopCalls = 0

OperationsNext ==
    /\ UNCHANGED part
    /\ \/ /\ part = "fleet" /\ FleetNext
          /\ UNCHANGED <<caVars, planVars, cfgVars, catVars, tokVars, raftVars, recVars, supVars>>
       \/ /\ part = "ca" /\ CANext
          /\ UNCHANGED <<fleetVars, planVars, cfgVars, catVars, tokVars, raftVars, recVars, supVars>>
       \/ /\ part = "planner" /\ PlannerNext
          /\ UNCHANGED <<fleetVars, caVars, cfgVars, catVars, tokVars, raftVars, recVars, supVars>>
       \/ /\ part = "config" /\ ConfigNext
          /\ UNCHANGED <<fleetVars, caVars, planVars, catVars, tokVars, raftVars, recVars, supVars>>
       \/ /\ part = "catalog" /\ CatNext
          /\ UNCHANGED <<fleetVars, caVars, planVars, cfgVars, tokVars, raftVars, recVars, supVars>>
       \/ /\ part = "token" /\ TokNext
          /\ UNCHANGED <<fleetVars, caVars, planVars, cfgVars, catVars, raftVars, recVars, supVars>>
       \/ /\ part = "raft" /\ RaftNext
          /\ UNCHANGED <<fleetVars, caVars, planVars, cfgVars, catVars, tokVars, recVars, supVars>>
       \/ /\ part = "reconciler" /\ RecNext
          /\ UNCHANGED <<fleetVars, caVars, planVars, cfgVars, catVars, tokVars, raftVars, supVars>>
       \/ /\ part = "supervisor" /\ SupNext
          /\ UNCHANGED <<fleetVars, caVars, planVars, cfgVars, catVars, tokVars, raftVars, recVars>>

OperationsSpec == OperationsInit /\ [][OperationsNext]_operationsVars

(***************************************************************************)
(* What the run checks: each property of a part, in the behaviours of that *)
(* part.                                                                   *)
(***************************************************************************)
\* Admission follows the registry: a join token lets one Join through, across restarts; a
\* certificate has a node row; Decommission revokes every certificate up to its listing
\* (Fleet!TokenSingleUse, CertHasNode, DecommissionRevokes, with the types of the state).
Fleet_AdmissionHolds ==
    part = "fleet" => FleetTypeOK /\ TokenSingleUse /\ CertHasNode /\ DecommissionRevokes

\* Whatever interrupts a rotation, the CA recorded as issued is the one on disk, and only a
\* rotation torn between its two files leaves a restart unable to sign
\* (CertAuthority!RecordedCAIsDurable, OnlyTornWriteDisarms).
CertAuthority_DiskIsAuthority ==
    part = "ca" => CATypeOK /\ RecordedCAIsDurable /\ OnlyTornWriteDisarms

\* Every plan that reaches a caller is deployable: the primary covers each layer once on
\* allowed machines that hold their share, an alternative does so without the machine it
\* stands in for, and the replicas of a set share no machine (Planner!PlanSound,
\* FailoverSound, ReplicasDisjoint).
Planner_PlansSound == part = "planner" => PlanSound /\ FailoverSound /\ ReplicasDisjoint

\* The partition is the best split of the layers over the order chosen; the order is the
\* cheapest path from the host, and 2-opt never makes one dearer (Planner!DPOptimal,
\* OrderOptimal).
Planner_SearchOptimal == part = "planner" => DPOptimal /\ OrderOptimal

\* Applies of one content without errors leave all it declares, however they overlap; applies
\* that do not overlap deploy a model once (ClusterConfig!CleanApplyDeclares, DeployedOnce).
ClusterConfig_DeclaredOnce == part = "config" => CleanApplyDeclares /\ DeployedOnce

\* What is imported and stored is genuine: a planned deployment has a stored plan of its own
\* for its own model, a SageMaker model was an approved package, and a token handed to a
\* caller of the Vertex client is valid at that moment (Catalog!ProducedPlansOwned,
\* SageMakerRowsApproved, VertexToken!HandedOutTokenValid).
Catalog_ImportsGenuine ==
    /\ part = "catalog" => CatTypeOK /\ ProducedPlansOwned /\ SageMakerRowsApproved
    /\ part = "token" => TokTypeOK /\ HandedOutTokenValid

\* A member that replayed its log has the tables of one that did not, and lost no usage or
\* audit entry (Raft!ReplayIsIdempotent, JournalAtLeastOnce).
Raft_ReplayConverges == part = "raft" => ReplayIsIdempotent /\ JournalAtLeastOnce

\* A generation never has two engines alive, whatever a crash, a stop and a newer generation
\* do to its task, and none once it gave up (Supervisor!OnePerGeneration).
Supervisor_OneEngine == part = "supervisor" => SupTypeOK /\ OnePerGeneration

\* No step of a rotation makes a leaf of the CA it replaces stop verifying
\* (CertAuthority!RotationKeepsTrust).
CertAuthority_RotationKeepsTrust == [][part = "ca" => RotationStep]_caVars

\* The loop acts only on what enough passes over a long enough time have seen, and does not
\* fail over a deployment again that it failed over and nobody put back
\* (Reconciler!HysteresisHolds, FailoverStep).
Reconciler_ActionsJustified ==
    [][part = "reconciler" => HysteresisStep /\ RecTypeOK' /\ FailoverStep]_recVars
=============================================================================
