----------------------------- MODULE Supervisor -----------------------------
(***************************************************************************)
(* The agent's engine supervisor (rust/crates/agent/src/supervisor.rs).    *)
(*                                                                         *)
(* Every StartEngine bumps the generation and spawns a supervise task;     *)
(* StopEngine calls run beside them.  They share a handful of cells        *)
(* (generation, stopping, handle, phase), each behind its own lock or      *)
(* atomic, and interleave at every await.  One step here is what a task    *)
(* does between two awaits.                                                *)
(*                                                                         *)
(* Abstractions: an engine is a process of the backend with its event      *)
(* stream LOADING, READY, METRICS, then ERROR when it crashes; the mock    *)
(* inference server, metrics and the node state machine are left out; the  *)
(* stability window and the backoff are not measured.                      *)
(***************************************************************************)
EXTENDS Naturals, Sequences, FiniteSets

CONSTANTS
    Cap,            \* RestartPolicy.max_consecutive_failures
    StreamCloses,   \* does the backend's stream end after METRICS (the mock's
                    \* does) or stay open as long as the engine lives (llama.cpp)?
    ConsumerStays,  \* does the caller of StartEngine read the stream to its end?
    Stoppers,       \* StopEngine calls that may be in progress at a time
    MaxStarts,      \* bound: StartEngine calls
    MaxStopCalls,       \* bound: StopEngine calls
    MaxEngines      \* bound: engines started or failed to start

ASSUME RestartAssumption ==
    Cap \in Nat \ {0} /\ StreamCloses \in BOOLEAN /\ ConsumerStays \in BOOLEAN
ASSUME SupBoundsAssumption == MaxStarts \in Nat /\ MaxStopCalls \in Nat /\ MaxEngines \in Nat

VARIABLES
    generation,  \* StartEngine calls so far
    stopping,
    handle,      \* handle of the tracked engine, 0 for None
    enginePhase,
    task,        \* task[g]: the supervise task of generation g
    engines,     \* the backend's processes, by handle
    stop,        \* stop[s]: a StopEngine call
    spawns, stopCalls

supVars == <<generation, stopping, handle, enginePhase, task, engines, stop, spawns, stopCalls>>

Generations == 1..MaxStarts
EnginePhases == {"Idle", "Loading", "Running", "Crashed", "Failed", "Stopped"}

\* seen: events of the current engine's stream that pump() has taken (LOADING,
\* READY, METRICS); ready: ready_at is set; streak: failures in a row since an
\* engine of this task was last stable (history).
Task == [pc: {"none", "top", "spawn", "track", "pump", "monitor", "crash", "backoff",
              "done", "gave up"},
         engine: Nat, seen: 0..3, ready: BOOLEAN, attempt: Nat, woken: BOOLEAN,
         consumer: BOOLEAN, streak: Nat]
NoTask == [pc |-> "none", engine |-> 0, seen |-> 0, ready |-> FALSE, attempt |-> 0,
           woken |-> FALSE, consumer |-> TRUE, streak |-> 0]
Engine == [of: Generations, state: {"loading", "ready", "crashed", "stopped"},
           wasReady: BOOLEAN, crashed: BOOLEAN, stable: BOOLEAN]
NoStop == [pc |-> "idle", handle |-> 0]

Alive(h) == engines[h].state \in {"loading", "ready"}
AliveOf(g) == {h \in DOMAIN engines : Alive(h) /\ engines[h].of = g}
Superseded(g) == generation # g
Leaves(g) == Superseded(g) \/ stopping

SupInit ==
    /\ generation = 0
    /\ stopping = FALSE
    /\ handle = 0
    /\ enginePhase = "Idle"
    /\ task = [g \in Generations |-> NoTask]
    /\ engines = <<>>
    /\ stop = [s \in Stoppers |-> NoStop]
    /\ spawns = 0 /\ stopCalls = 0

\* start(): nothing is done about the engine of the generation before.
Start ==
    /\ generation < MaxStarts
    /\ generation' = generation + 1
    /\ stopping' = FALSE
    /\ handle' = 0
    /\ enginePhase' = "Loading"
    /\ task' = [task EXCEPT ![generation + 1] = [NoTask EXCEPT !.pc = "top"]]
    /\ UNCHANGED <<engines, stop, spawns, stopCalls>>

-----------------------------------------------------------------------------
(***************************************************************************)
(* supervise()                                                             *)
(***************************************************************************)
\* The loop is left, and the task's locals with it; a requested stop makes the
\* phase Stopped.
Exit(g, ph) ==
    /\ task' = [task EXCEPT ![g] = [NoTask EXCEPT !.pc = "done"]]
    /\ enginePhase' = IF stopping THEN "Stopped" ELSE ph

TaskGoto(g, pc) == task' = [task EXCEPT ![g].pc = pc]

LoopTop(g) ==
    /\ task[g].pc = "top"
    /\ IF Leaves(g) THEN Exit(g, enginePhase) ELSE TaskGoto(g, "spawn") /\ enginePhase' = "Loading"
    /\ UNCHANGED <<generation, stopping, handle, engines, stop, spawns, stopCalls>>

\* backend.start_worker / start_host returns an engine, or an error.
Spawn(g) ==
    /\ task[g].pc = "spawn" /\ spawns < MaxEngines
    /\ spawns' = spawns + 1
    /\ engines' = Append(engines, [of |-> g, state |-> "loading", wasReady |-> FALSE,
                                   crashed |-> FALSE, stable |-> FALSE])
    /\ task' = [task EXCEPT ![g].pc = "track", ![g].engine = Len(engines) + 1,
                            ![g].seen = 0, ![g].ready = FALSE]
    /\ UNCHANGED <<generation, stopping, handle, enginePhase, stop, stopCalls>>

SpawnFails(g) ==
    /\ task[g].pc = "spawn" /\ spawns < MaxEngines
    /\ spawns' = spawns + 1
    /\ task' = [task EXCEPT ![g].pc = "crash", ![g].engine = 0, ![g].ready = FALSE]
    /\ UNCHANGED <<generation, stopping, handle, enginePhase, engines, stop, stopCalls>>

\* Mutant: the handle stored is not the one the backend returned.
TrackNext(g) ==
    /\ task[g].pc = "track"
    /\ handle' = task[g].engine + 1
    /\ task' = [task EXCEPT ![g].pc = "pump", ![g].woken = FALSE]
    /\ UNCHANGED <<generation, stopping, enginePhase, engines, stop, spawns, stopCalls>>

\* The handle is stored, whatever generation or stop came meanwhile.
Track(g) ==
    /\ task[g].pc = "track"
    /\ handle' = task[g].engine
    /\ task' = [task EXCEPT ![g].pc = "pump", ![g].woken = FALSE]
    /\ UNCHANGED <<generation, stopping, enginePhase, engines, stop, spawns, stopCalls>>

\* Has the stream of g's engine an event number k (1 LOADING, 2 READY, 3 METRICS)?
HasEvent(g, k) == k = 1 \/ (k <= 3 /\ engines[task[g].engine].wasReady)

\* pump(): one event is taken and sent on; End when nobody reads them any more.
PumpEvent(g) ==
    LET t == task[g]  k == t.seen + 1
        ph == CASE k = 1 -> "Loading" [] k = 2 -> "Running" [] OTHER -> enginePhase IN
    /\ t.pc = "pump" /\ HasEvent(g, k)
    /\ IF t.consumer THEN task' = [task EXCEPT ![g].seen = k] /\ enginePhase' = ph
                     ELSE Exit(g, ph)
    /\ UNCHANGED <<generation, stopping, handle, engines, stop, spawns, stopCalls>>

\* pump(): ERROR.
PumpError(g) ==
    LET t == task[g] IN
    /\ t.pc = "pump" /\ ~HasEvent(g, t.seen + 1)
    /\ engines[t.engine].crashed
    /\ IF t.consumer THEN task' = [task EXCEPT ![g].pc = "crash", ![g].woken = FALSE] /\ enginePhase' = "Crashed"
                     ELSE Exit(g, "Crashed")
    /\ UNCHANGED <<generation, stopping, handle, engines, stop, spawns, stopCalls>>

\* The stream ends when the engine is stopped (an ERROR already on it is read
\* first), or at once after METRICS.
Closed(e) == (e.state = "stopped" /\ ~e.crashed) \/ (StreamCloses /\ e.wasReady)

\* Mutant: a stream that ends is taken for a crash.
PumpClosedCrash(g) ==
    LET t == task[g] IN
    /\ t.pc = "pump" /\ ~HasEvent(g, t.seen + 1)
    /\ Closed(engines[t.engine])
    /\ TaskGoto(g, "crash")
    /\ UNCHANGED <<generation, stopping, handle, enginePhase, engines, stop, spawns, stopCalls>>

\* pump(): the stream ends, before READY or after it.
PumpClosed(g) ==
    LET t == task[g] IN
    /\ t.pc = "pump" /\ ~HasEvent(g, t.seen + 1)
    /\ Closed(engines[t.engine])
    /\ task' = [task EXCEPT ![g].pc = IF t.seen >= 2 THEN "monitor" ELSE "crash",
                            ![g].ready = t.seen >= 2, ![g].woken = FALSE]
    /\ UNCHANGED <<generation, stopping, handle, enginePhase, engines, stop, spawns, stopCalls>>

\* pump(): notified by stop(); by now a later start() may have withdrawn it.
PumpWoken(g) ==
    /\ task[g].pc = "pump" /\ task[g].woken
    /\ IF stopping THEN Exit(g, enginePhase)
                   ELSE task' = [task EXCEPT ![g].woken = FALSE] /\ UNCHANGED enginePhase
    /\ UNCHANGED <<generation, stopping, handle, engines, stop, spawns, stopCalls>>

\* Mutant: any error of metrics() is taken for an engine stopped by others.
MonitorQuits(g) ==
    LET s == engines[task[g].engine].state IN
    /\ task[g].pc = "monitor"
    /\ (Leaves(g) \/ s \in {"stopped", "crashed"}) /\ Exit(g, enginePhase)
    /\ UNCHANGED <<generation, stopping, handle, engines, stop, spawns, stopCalls>>

\* monitor(): leaves on a stop or a newer generation, on an engine stopped by
\* others, and goes to the restart policy on a crash.
Monitor(g) ==
    LET s == engines[task[g].engine].state IN
    /\ task[g].pc = "monitor"
    /\ \/ (Leaves(g) \/ s = "stopped") /\ Exit(g, enginePhase)
       \/ ~Leaves(g) /\ s = "crashed" /\ TaskGoto(g, "crash") /\ enginePhase' = "Crashed"
    /\ UNCHANGED <<generation, stopping, handle, engines, stop, spawns, stopCalls>>

\* Was the engine that failed up for the stability window?
Stable(g) == task[g].engine # 0 /\ engines[task[g].engine].stable

\* Mutant: the comparison with the cap is off by one.
GivesUpLater(attempt) == attempt + 1 > Cap

\* Crash-loop detection.
GivesUp(attempt) == attempt + 1 >= Cap

\* The restart policy; the window is only measured from ready_at, which pump()'s
\* ERROR path leaves unset.
Crash(g) ==
    LET t == task[g]
        attempt == IF t.ready /\ Stable(g) THEN 0 ELSE t.attempt
        streak == IF Stable(g) THEN 1 ELSE t.streak + 1 IN
    /\ t.pc = "crash"
    /\ IF Leaves(g) THEN Exit(g, enginePhase)
       ELSE /\ task' = [task EXCEPT ![g] =
                           [NoTask EXCEPT !.pc = IF GivesUp(attempt) THEN "gave up" ELSE "backoff",
                                          !.attempt = attempt, !.streak = streak, !.consumer = t.consumer]]
            /\ enginePhase' = IF GivesUp(attempt) THEN "Failed" ELSE "Crashed"
    /\ UNCHANGED <<generation, stopping, handle, engines, stop, spawns, stopCalls>>

\* The backoff is over, or cut short by stop().
Backoff(g) ==
    /\ task[g].pc = "backoff"
    /\ IF Leaves(g) THEN Exit(g, enginePhase)
       ELSE task' = [task EXCEPT ![g].pc = "top", ![g].attempt = @ + 1] /\ UNCHANGED enginePhase
    /\ UNCHANGED <<generation, stopping, handle, engines, stop, spawns, stopCalls>>

Supervise(g) ==
    \/ LoopTop(g) \/ Spawn(g) \/ SpawnFails(g) \/ Track(g)
    \/ PumpEvent(g) \/ PumpError(g) \/ PumpClosed(g) \/ PumpWoken(g)
    \/ Monitor(g) \/ Crash(g) \/ Backoff(g)

-----------------------------------------------------------------------------
(***************************************************************************)
(* stop()                                                                  *)
(***************************************************************************)
\* The flag is set and the tasks that wait are notified.
StopBegin(s) ==
    /\ stop[s].pc = "idle" /\ stopCalls < MaxStopCalls
    /\ stopCalls' = stopCalls + 1
    /\ stopping' = TRUE
    /\ task' = [g \in Generations |-> [task[g] EXCEPT !.woken = (task[g].pc = "pump")]]
    /\ stop' = [stop EXCEPT ![s].pc = "read"]
    /\ UNCHANGED <<generation, handle, enginePhase, engines, spawns>>

\* "no engine running" when no handle is stored; a handle that is not the
\* requested one is stopped all the same.
StopRead(s) ==
    /\ stop[s].pc = "read"
    /\ IF handle = 0 THEN stop' = [stop EXCEPT ![s] = NoStop] /\ enginePhase' = "Stopped"
       ELSE stop' = [stop EXCEPT ![s] = [pc |-> "kill", handle |-> handle]] /\ UNCHANGED enginePhase
    /\ UNCHANGED <<generation, stopping, handle, task, engines, spawns, stopCalls>>

\* backend.stop, and again when the grace window is over.
StopKill(s) ==
    /\ stop[s].pc = "kill"
    /\ engines' = [engines EXCEPT ![stop[s].handle].state = "stopped"]
    /\ stop' = [stop EXCEPT ![s].pc = "end"]
    /\ UNCHANGED <<generation, stopping, handle, enginePhase, task, spawns, stopCalls>>

StopEnd(s) ==
    /\ stop[s].pc = "end"
    /\ enginePhase' = "Stopped"
    /\ handle' = 0
    /\ stop' = [stop EXCEPT ![s] = NoStop]
    /\ UNCHANGED <<generation, stopping, task, engines, spawns, stopCalls>>

-----------------------------------------------------------------------------
(***************************************************************************)
(* Engines, and the caller of StartEngine                                  *)
(***************************************************************************)
EngineChanges(h, state, stable) ==
    /\ engines' = [engines EXCEPT ![h].state = state, ![h].stable = stable,
                                  ![h].wasReady = @ \/ state = "ready",
                                  ![h].crashed = state = "crashed"]
    /\ UNCHANGED <<generation, stopping, handle, enginePhase, task, stop, spawns, stopCalls>>

EngineReady(h) == engines[h].state = "loading" /\ EngineChanges(h, "ready", FALSE)

\* stable: it had been up for the stability window.
EngineCrash(h, stable) == Alive(h) /\ (stable => engines[h].wasReady) /\ EngineChanges(h, "crashed", stable)

\* The control plane cancels the stream when it has seen READY or ERROR, or
\* after its step timeout.  Only pump() notices, so leaving earlier is leaving as
\* the next pump() begins.
ConsumerLeaves(g) ==
    /\ ~ConsumerStays /\ task[g].pc = "pump" /\ task[g].consumer
    /\ task' = [task EXCEPT ![g].consumer = FALSE]
    /\ UNCHANGED <<generation, stopping, handle, enginePhase, engines, stop, spawns, stopCalls>>

SupNext ==
    \/ Start
    \/ \E g \in Generations : Supervise(g) \/ ConsumerLeaves(g)
    \/ \E s \in Stoppers : StopBegin(s) \/ StopRead(s) \/ StopKill(s) \/ StopEnd(s)
    \/ \E h \in DOMAIN engines : EngineReady(h) \/ \E stable \in BOOLEAN : EngineCrash(h, stable)

SupSpec == SupInit /\ [][SupNext]_supVars

\* The runtime keeps polling every task: what can go on goes on.
SupFairSpec == SupSpec /\ \A g \in Generations : WF_supVars(Supervise(g))

-----------------------------------------------------------------------------
\* Types: the tracked handle is one the backend has issued.
SupTypeOK ==
    /\ generation \in 0..MaxStarts
    /\ stopping \in BOOLEAN
    /\ handle \in 0..Len(engines)
    /\ enginePhase \in EnginePhases
    /\ task \in [Generations -> Task]
    /\ engines \in Seq(Engine)
    /\ stop \in [Stoppers -> [pc: {"idle", "read", "kill", "end"}, handle: Nat]]
    /\ spawns \in 0..MaxEngines /\ stopCalls \in 0..MaxStopCalls

\* "capping consecutive failures to detect a crash loop": no task sees more than
\* Cap failures in a row without an engine that was stable in between.
CrashLoopCapped == \A g \in Generations : task[g].streak <= Cap

\* A restart never duplicates an engine: one generation has at most one engine
\* alive, and none once its task has given up, however stop() and newer
\* generations interfere.
OnePerGeneration ==
    \A g \in Generations :
        Cardinality(AliveOf(g)) <= (IF task[g].pc = "gave up" THEN 0 ELSE 1)

\* "restarts crashed engines": the crash of an engine is followed by another
\* engine, by giving up, by a stop or by a newer StartEngine.
LastCrashed ==
    LET h == Len(engines) IN h > 0 /\ engines[h].state = "crashed" /\ ~Superseded(engines[h].of)
CrashIsHandled ==
    LastCrashed ~> (~LastCrashed \/ spawns = MaxEngines \/ stopping
                      \/ \E g \in Generations : task[g].pc = "gave up")
=============================================================================
