----------------------------- MODULE Reconciler -----------------------------
(***************************************************************************)
(* The self-healing control loop (go/controlplane/reconciler/reconciler.go)*)
(* with what it observes: the nodes' rows that heartbeats refresh, the     *)
(* deployments' rows, and behind them the agents' engines.                 *)
(*                                                                         *)
(* A pass takes one snapshot, updates the hysteresis tracker and then      *)
(* performs its actions one after the other.  An action lasts until the    *)
(* engine is READY or the step timeout strikes, so time passes, agents     *)
(* change and operators act between the snapshot and an action.            *)
(*                                                                         *)
(* Abstractions: time is counted in loop intervals, as ages that stop at   *)
(* the threshold they are compared with; a deployment starts out ACTIVE,   *)
(* and the one a failover's Apply creates is not followed (Orchestrator    *)
(* models rollouts); an action of the loop takes effect in the step it     *)
(* returns in, an operator's teardown in two; a heartbeat's LOADING,       *)
(* DEGRADED and DRAINING are all "DEGRADED", the states engineHealthy      *)
(* refuses; a pass whose listing fails changes nothing and is left out;    *)
(* metrics, audit entries and the webhook are left out.                    *)
(***************************************************************************)
EXTENDS Naturals, FiniteSets

CONSTANTS
    Nodes, Deps,
    Placement,         \* Placement[d]: nodes of d's engines
    None,
    AutomationAuto,    \* event types at that level; the others only report
    HasPlanner,        \* was SetPlanner called?
    FailureThreshold,  \* consecutive passes
    Hysteresis,        \* dwell time
    ActionCooldown,
    NodeTimeout,
    Timely,            \* do the heartbeats of an agent that is up arrive in time?
    MaxRecFaults,      \* bound: crashes, lost agents, failed calls and writes, restarts
    MaxStops           \* bound: engines that end without a crash

EventTypes == {"engine_down", "node_down", "new_node", "orphan_deployment"}

ASSUME FleetAssumption ==
    Placement \in [Deps -> SUBSET Nodes] /\ None \notin Nodes \cup Deps
ASSUME PolicyAssumption == AutomationAuto \subseteq EventTypes /\ HasPlanner \in BOOLEAN /\ Timely \in BOOLEAN
ASSUME TimesAssumption ==
    /\ FailureThreshold \in Nat \ {0} /\ Hysteresis \in Nat
    /\ ActionCooldown \in Nat /\ NodeTimeout \in Nat
ASSUME RecBoundsAssumption == MaxRecFaults \in Nat /\ MaxStops \in Nat

VARIABLES
    phase,      \* phase[n]: the engine behind agent n
    node,       \* node[n]: row of the nodes table
    row,        \* row[d]: row of the deployments table
    tearing,    \* deployments an operator's call is tearing down
    orphans,    \* deployments whose model has left the catalogue
    tracker,    \* tracker[x]: what the loop remembers of discrepancy x
    pass,       \* the pass in progress
    ticked,     \* the ticker's one-place channel
    hist,       \* history of each discrepancy
    moved,      \* history: was d failed over, and nothing done to its row since?
    recFaults, stops

recVars == <<phase, node, row, tearing, orphans, tracker, pass, ticked, hist, moved, recFaults, stops>>

Phases == {"Idle", "Running", "Crashed", "Off"}
NodeStates == {"READY", "RUNNING", "DEGRADED", "DECOMMISSIONED"}
RowStates == {"ACTIVE", "STOPPING", "STOPPED"}

Discrepancy ==
    [typ: {"engine_down", "node_down"}, dep: Deps, node: Nodes]
      \cup [typ: {"orphan_deployment"}, dep: Deps, node: {None}]
      \cup [typ: {"new_node"}, dep: {None}, node: Nodes]

\* count = 0: not in the map.  age is now - firstSeen, cool what is left of the
\* cooldown that lastActed started.
Entry == [count: 0..FailureThreshold, age: 0..Hysteresis, cool: 0..ActionCooldown]
NoEntry == [count |-> 0, age |-> 0, cool |-> 0]

Longest == IF ActionCooldown > Hysteresis THEN ActionCooldown ELSE Hysteresis

\* Of each discrepancy: passes and time since a pass last did not observe it, time
\* since the last pass that acted on it with success; kept: was it observed by every
\* pass since, of one control plane process; failed: and did its last action fail?
History == [passes: 0..FailureThreshold, ticks: 0..Hysteresis, acted: 0..Longest,
            kept: BOOLEAN, failed: BOOLEAN]
NoHistory == [passes |-> 0, ticks |-> 0, acted |-> Longest, kept |-> FALSE, failed |-> FALSE]

\* saw: state of the row handleNodeDown loaded; stamped: it has written the failover
\* plan's id to the row; late: time since the pass began.
NoPass == [due |-> {}, act |-> None, saw |-> "ACTIVE", stamped |-> FALSE, late |-> 0]

\* a + 1, but not beyond the threshold it is compared with.
Up(a, cap) == IF a < cap THEN a + 1 ELSE cap
Down(a, b) == IF a > b THEN a - b ELSE 0

RecFault == recFaults < MaxRecFaults /\ recFaults' = recFaults + 1

RecInit ==
    /\ phase = [n \in Nodes |-> IF \E d \in Deps : n \in Placement[d] THEN "Running" ELSE "Idle"]
    /\ node = [n \in Nodes |-> [state |-> IF phase[n] = "Running" THEN "RUNNING" ELSE "READY",
                                silence |-> 0]]
    /\ row = [d \in Deps |-> "ACTIVE"] /\ tearing = {}
    /\ orphans = {}
    /\ tracker = [x \in Discrepancy |-> NoEntry]
    /\ pass = NoPass
    /\ ticked = FALSE
    /\ hist = [x \in Discrepancy |-> NoHistory]
    /\ moved = [d \in Deps |-> FALSE]
    /\ recFaults = 0 /\ stops = 0

-----------------------------------------------------------------------------
(***************************************************************************)
(* A pass                                                                  *)
(***************************************************************************)
NodeDown(n) == node[n].state = "DECOMMISSIONED" \/ node[n].silence > NodeTimeout

\* Mutant: a node that reports at all is taken for healthy.
EngineHealthyAny(n) == node[n].state # "DECOMMISSIONED"

EngineHealthy(n) == node[n].state \in {"RUNNING", "READY"}
Active == {d \in Deps : row[d] = "ACTIVE"}
Claimed == UNION {Placement[d] : d \in Active \ orphans}

Problem(d, n) == IF NodeDown(n) THEN {"node_down"}
                 ELSE IF EngineHealthy(n) THEN {} ELSE {"engine_down"}

\* observe()
Observed ==
    [typ: {"orphan_deployment"}, dep: Active \cap orphans, node: {None}]
      \cup {x \in Discrepancy : /\ x.dep \in Active \ orphans
                                /\ x.node \in Placement[x.dep]
                                /\ x.typ \in Problem(x.dep, x.node)}
      \cup [typ: {"new_node"}, dep: {None},
            node: {n \in Nodes \ Claimed : node[n].state = "READY" /\ ~NodeDown(n)}]

\* Mutant: discrepancies that healed stay in the tracker.
TrackedForever ==
    [x \in Discrepancy |->
        IF x \notin Observed THEN tracker[x]
        ELSE [tracker[x] EXCEPT !.count = Up(@, FailureThreshold)]]

\* The tracker after the pass has counted what it observed; what it did not
\* observe is deleted, its cooldown too.
Tracked ==
    [x \in Discrepancy |->
        IF x \notin Observed THEN NoEntry
        ELSE [tracker[x] EXCEPT !.count = Up(@, FailureThreshold)]]

\* The discrepancies the loop does something about by itself.
Automatic == AutomationAuto \ {"new_node"}

\* Mutant: the cooldown ends an interval too early.
DueEarly(t) ==
    {x \in Observed : /\ t[x].count >= FailureThreshold /\ t[x].age >= Hysteresis
                      /\ t[x].cool <= 1
                      /\ x.typ \in Automatic}

\* Discrepancies past threshold, dwell and cooldown that the policy acts on.
Due(t) ==
    {x \in Observed : /\ t[x].count >= FailureThreshold /\ t[x].age >= Hysteresis
                      /\ t[x].cool = 0
                      /\ x.typ \in Automatic}

PassBegin ==
    /\ ticked /\ pass.due = {} /\ pass.act = None
    /\ ticked' = FALSE
    /\ tracker' = Tracked
    /\ pass' = [NoPass EXCEPT !.due = Due(Tracked)]
    /\ hist' = [x \in Discrepancy |->
                  IF x \in Observed THEN [hist[x] EXCEPT !.passes = Up(@, FailureThreshold)]
                  ELSE [hist[x] EXCEPT !.passes = 0, !.ticks = 0, !.kept = FALSE, !.failed = FALSE]]
    /\ UNCHANGED <<phase, node, row, tearing, orphans, moved, recFaults, stops>>

\* Mutant: the deployment is not loaded again.
NothingToDoNever(x) == FALSE

\* handleNodeDown loads the deployment again; a terminal one is left alone, one
\* that is still STOPPING is not.
NothingToDo(x) == x.typ = "node_down" /\ HasPlanner /\ row[x.dep] = "STOPPED"

\* dispatch: the actions of a pass run one after the other.
Dispatch(x) ==
    /\ pass.act = None /\ x \in pass.due
    /\ pass' = [pass EXCEPT !.due = @ \ {x}, !.act = IF NothingToDo(x) THEN None ELSE x,
                            !.saw = IF NothingToDo(x) THEN @ ELSE row[x.dep]]
    /\ UNCHANGED <<phase, node, row, tearing, orphans, tracker, ticked, hist, moved, recFaults, stops>>

\* handleNodeDown has planned without the node and writes the whole row it loaded
\* when it began: what an operator did to its state meanwhile is undone.
Stamp ==
    /\ pass.act # None /\ pass.act.typ = "node_down" /\ HasPlanner /\ ~pass.stamped
    /\ row' = [row EXCEPT ![pass.act.dep] = pass.saw]
    /\ pass' = [pass EXCEPT !.stamped = TRUE, !.saw = "ACTIVE"]
    /\ UNCHANGED <<phase, node, tearing, orphans, tracker, ticked, hist, moved, recFaults, stops>>

\* The agents of d that can be reached have no engine any more.
Halted(d) ==
    [n \in Nodes |-> IF n \in Placement[d] /\ phase[n] # "Off" THEN "Idle" ELSE phase[n]]

\* Teardown returns nil although the write of STOPPED, or both of its writes, failed.
Teardown(d) ==
    /\ phase' = Halted(d)
    /\ \/ row' = [row EXCEPT ![d] = "STOPPED"] /\ UNCHANGED recFaults
       \/ row' \in {row, [row EXCEPT ![d] = "STOPPING"]} /\ RecFault

\* RestartEngine makes the row ACTIVE, whatever it was, unless the write fails.
Restarts(d, n) ==
    /\ phase[n] # "Off"
    /\ phase' = [phase EXCEPT ![n] = "Running"]
    /\ \/ row' = [row EXCEPT ![d] = "ACTIVE"] /\ UNCHANGED recFaults
       \/ UNCHANGED row /\ RecFault
    /\ moved' = [moved EXCEPT ![d] = @ /\ row'[d] = "STOPPED"]

\* Failover has applied the plan; an error of its Teardown is ignored.
FailsOver(d) ==
    /\ pass.stamped
    /\ Teardown(d) \/ (RecFault /\ UNCHANGED <<phase, row>>)
    /\ moved' = [moved EXCEPT ![d] = row'[d] = "STOPPED"]

CleansUp(d) == Teardown(d) /\ moved' = [moved EXCEPT ![d] = @ /\ row'[d] = "STOPPED"]

\* RestartEngine, Failover or Cleanup returns nil: lastActed becomes the time
\* the pass began.
ActionSucceeds ==
    LET x == pass.act IN
    /\ x # None
    /\ \/ x.typ = "engine_down" /\ Restarts(x.dep, x.node)
       \/ x.typ = "node_down" /\ FailsOver(x.dep)
       \/ x.typ = "orphan_deployment" /\ CleansUp(x.dep)
    /\ tracker' = [tracker EXCEPT ![x].cool = Down(ActionCooldown, pass.late)]
    /\ hist' = [hist EXCEPT ![x].acted = pass.late, ![x].kept = TRUE, ![x].failed = FALSE]
    /\ pass' = [pass EXCEPT !.act = None, !.saw = "ACTIVE", !.stamped = FALSE]
    /\ UNCHANGED <<node, tearing, orphans, ticked, stops>>

\* An action that cannot succeed: the agent is lost, or there is no plan to apply.
Hopeless(x) ==
    (x.typ = "engine_down" /\ phase[x.node] = "Off") \/ (x.typ = "node_down" /\ ~HasPlanner)

\* The action returns an error: no cooldown, the next pass tries again.
ActionFails ==
    LET x == pass.act IN
    /\ x # None
    /\ IF Hopeless(x) THEN UNCHANGED recFaults ELSE RecFault
    /\ hist' = [hist EXCEPT ![x].failed = TRUE]
    /\ pass' = [pass EXCEPT !.act = None, !.saw = "ACTIVE", !.stamped = FALSE]
    /\ UNCHANGED <<phase, node, row, tearing, orphans, tracker, ticked, moved, stops>>

Loop == PassBegin \/ Stamp \/ ActionSucceeds \/ ActionFails \/ \E x \in Discrepancy : Dispatch(x)

\* A restarted control plane has an empty tracker; the calls it was in are lost.
ControlPlaneRestart ==
    /\ RecFault
    /\ tracker' = [x \in Discrepancy |-> NoEntry]
    /\ pass' = NoPass
    /\ ticked' = FALSE
    /\ tearing' = {}
    /\ hist' = [x \in Discrepancy |-> [hist[x] EXCEPT !.kept = FALSE, !.failed = FALSE]]
    /\ UNCHANGED <<phase, node, row, orphans, moved, stops>>

-----------------------------------------------------------------------------
(***************************************************************************)
(* Time, agents and operators                                              *)
(***************************************************************************)
\* One interval goes by.  A tick the loop is too busy to take waits in the
\* channel; further ones are dropped.
Tick ==
    /\ Timely => \A n \in Nodes : phase[n] # "Off" => node[n].silence < NodeTimeout
    /\ ticked' = TRUE
    /\ node' = [n \in Nodes |-> [node[n] EXCEPT !.silence = Up(@, NodeTimeout + 1)]]
    /\ tracker' = [x \in Discrepancy |->
                     IF tracker[x].count = 0 THEN NoEntry
                     ELSE [tracker[x] EXCEPT !.age = Up(@, Hysteresis), !.cool = Down(@, 1)]]
    /\ hist' = [x \in Discrepancy |->
                  [hist[x] EXCEPT !.ticks = Up(@, Hysteresis), !.acted = Up(@, Longest)]]
    /\ pass' = [pass EXCEPT !.late = IF pass.due = {} /\ pass.act = None THEN 0
                                     ELSE Up(@, ActionCooldown)]
    /\ UNCHANGED <<phase, row, tearing, orphans, moved, recFaults, stops>>

\* composed_node_state: an agent without an engine reports READY.
Reported(n) ==
    CASE phase[n] = "Running" -> "RUNNING" [] phase[n] = "Crashed" -> "DEGRADED" [] OTHER -> "READY"

\* applyHeartbeat: last_seen and the reported state, whatever the row said.
Heartbeat(n) ==
    /\ phase[n] # "Off"
    /\ node' = [node EXCEPT ![n] = [state |-> Reported(n), silence |-> 0]]
    /\ UNCHANGED <<phase, row, tearing, orphans, tracker, pass, ticked, hist, moved, recFaults, stops>>

\* The engine crashes, or the whole agent is lost.
Breaks(n, p) ==
    /\ phase[n] = "Running" /\ RecFault
    /\ phase' = [phase EXCEPT ![n] = p]
    /\ UNCHANGED <<node, row, tearing, orphans, tracker, pass, ticked, hist, moved, stops>>

\* The agent's supervisor restarts a crashed engine by itself.
Recovers(n) ==
    /\ phase[n] = "Crashed"
    /\ phase' = [phase EXCEPT ![n] = "Running"]
    /\ UNCHANGED <<node, row, tearing, orphans, tracker, pass, ticked, hist, moved, recFaults, stops>>

\* Another deployment's teardown stops the engine of a shared agent, or a lost
\* agent comes back under its node id: the agent is idle.
GoesIdle(n) ==
    /\ phase[n] \in {"Running", "Off"} /\ stops < MaxStops
    /\ stops' = stops + 1
    /\ phase' = [phase EXCEPT ![n] = "Idle"]
    /\ UNCHANGED <<node, row, tearing, orphans, tracker, pass, ticked, hist, moved, recFaults>>

\* Operators: DELETE of a deployment in any state, of a model, and of a node.
OperatorStops(d) ==
    /\ d \notin tearing
    /\ row' = [row EXCEPT ![d] = "STOPPING"]
    /\ tearing' = tearing \cup {d}
    /\ moved' = [moved EXCEPT ![d] = FALSE]
    /\ UNCHANGED <<phase, node, orphans, tracker, pass, ticked, hist, recFaults, stops>>

TeardownEnds(d) ==
    /\ d \in tearing
    /\ row' = [row EXCEPT ![d] = "STOPPED"]
    /\ phase' = Halted(d)
    /\ tearing' = tearing \ {d}
    /\ UNCHANGED <<node, orphans, tracker, pass, ticked, hist, moved, recFaults, stops>>

ModelRemoved(d) ==
    /\ d \notin orphans /\ RecFault
    /\ orphans' = orphans \cup {d}
    /\ UNCHANGED <<phase, node, row, tearing, tracker, pass, ticked, hist, moved, stops>>

Decommission(n) ==
    /\ node[n].state # "DECOMMISSIONED" /\ RecFault
    /\ node' = [node EXCEPT ![n].state = "DECOMMISSIONED"]
    /\ UNCHANGED <<phase, row, tearing, orphans, tracker, pass, ticked, hist, moved, stops>>

RecNext ==
    \/ Loop \/ ControlPlaneRestart \/ Tick
    \/ \E n \in Nodes : \/ Heartbeat(n) \/ Recovers(n) \/ GoesIdle(n) \/ Decommission(n)
                        \/ \E p \in {"Crashed", "Off"} : Breaks(n, p)
    \/ \E d \in Deps : OperatorStops(d) \/ TeardownEnds(d) \/ ModelRemoved(d)

RecSpec == RecInit /\ [][RecNext]_recVars

\* The loop and the clock never stop, and an agent that is up keeps sending
\* heartbeats (the stream is re-opened with a backoff when it breaks).
RecFairSpec ==
    RecSpec /\ WF_recVars(Tick) /\ WF_recVars(Loop) /\ \A n \in Nodes : WF_recVars(Heartbeat(n))

-----------------------------------------------------------------------------
\* Types: a pass only acts on discrepancies of the fleet.
RecTypeOK ==
    /\ phase \in [Nodes -> Phases]
    /\ node \in [Nodes -> [state: NodeStates, silence: 0..(NodeTimeout + 1)]]
    /\ row \in [Deps -> RowStates] /\ tearing \subseteq Deps
    /\ orphans \subseteq Deps
    /\ tracker \in [Discrepancy -> Entry]
    /\ pass \in [due: SUBSET Discrepancy, act: Discrepancy \cup {None},
             saw: RowStates, stamped: BOOLEAN, late: 0..ActionCooldown]
    /\ ticked \in BOOLEAN
    /\ hist \in [Discrepancy -> History]
    /\ moved \in [Deps -> BOOLEAN]
    /\ recFaults \in 0..MaxRecFaults /\ stops \in 0..MaxStops

\* "a discrepancy must persist for both a minimum dwell time and a minimum
\* number of consecutive passes before the loop acts": since a pass last found
\* it healed there were FailureThreshold passes, over at least Hysteresis,
\* however slow the actions of the passes were, and across restarts.
HysteresisStep ==
    PassBegin => \A x \in pass'.due :
        hist'[x].passes >= FailureThreshold /\ hist'[x].ticks >= Hysteresis
HysteresisHolds == [][HysteresisStep]_recVars

\* "Minimum time between re-issuing the same corrective action": an action that succeeded
\* is not repeated before the cooldown is over or, when the tracker forgot it (a pass did
\* not find the discrepancy, the control plane restarted), before the dwell time is over
\* again; one that failed starts no cooldown, and the next pass that still finds the
\* discrepancy tries again.
ActionsSpaced ==
    [][PassBegin => \A x \in Observed :
          /\ x \in pass'.due => hist[x].acted >= IF hist[x].kept THEN ActionCooldown ELSE Hysteresis
          /\ hist[x].failed /\ x.typ \in Automatic => x \in pass'.due]_recVars

\* A deployment that lost several nodes is one discrepancy per node in the pass.  One
\* that was failed over is not failed over again, unless its row left STOPPED: a restart
\* of one of its engines made it ACTIVE, or an operator tears it down once more.
FailoverStep ==
    ActionSucceeds /\ pass.act.typ = "node_down" => ~moved[pass.act.dep]

\* "engine down where it should run -> restart": an engine of an ACTIVE
\* deployment that is down on an agent that is up is brought back.
EngineIsDown(d, n) ==
    d \in Active \ orphans /\ n \in Placement[d] /\ phase[n] \in {"Idle", "Crashed"}
EngineDownHealed ==
    \A d \in Deps, n \in Nodes : EngineIsDown(d, n) ~> ~EngineIsDown(d, n)
=============================================================================
