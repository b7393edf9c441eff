---------------------------- MODULE HealingProofs ----------------------------
(***************************************************************************)
(* Theorems about the two loops that keep engines running. The agent's     *)
(* supervisor, for any number of starts, stops and engines, any cap, and   *)
(* either kind of backend: one generation never has two engines alive, and *)
(* a crash loop ends at the cap. The control plane's self-healing loop:    *)
(* it acts only on what lasted, keeps its distance from its last action,   *)
(* and fails a deployment over once.                                       *)
(***************************************************************************)
EXTENDS Supervisor, Reconciler, FiniteSetTheorems, TLAPS

(***************************************************************************)
(* The inductive invariant.  A task that is between two engines has none   *)
(* alive; one that follows an engine has no other; one that left the loop  *)
(* may have left its last engine running.                                  *)
(***************************************************************************)
Between == {"none", "top", "spawn", "crash", "backoff", "gave up"}
Following == {"track", "pump", "monitor"}

EnginesOK(g, t) ==
    /\ t.pc \in Between => \A h \in 1..Len(engines) : engines[h].of = g => ~Alive(h)
    /\ t.pc \in Following =>
        /\ t.engine \in 1..Len(engines)
        /\ \A h \in 1..Len(engines) : engines[h].of = g /\ Alive(h) => h = t.engine
    /\ t.pc = "crash" => t.engine \in 0..Len(engines)
    /\ \A h1, h2 \in 1..Len(engines) :
        engines[h1].of = g /\ engines[h2].of = g /\ Alive(h1) /\ Alive(h2) => h1 = h2

\* The attempts a task counts bound the failures it has seen in a row.
AttemptsOK(t) ==
    /\ t.attempt + 1 <= Cap
    /\ t.pc = "backoff" => t.attempt + 2 <= Cap
    /\ t.streak <= t.attempt + 1
    /\ t.pc \notin {"backoff", "gave up"} => t.streak <= t.attempt

TasksInv == \A g \in Generations : EnginesOK(g, task[g]) /\ AttemptsOK(task[g])

\* Generations that have not been started have no task, a crashed engine is not alive,
\* and a StopEngine call kills a handle the backend has issued.
SharedInv ==
    /\ \A g \in Generations : g > generation => task[g].pc = "none"
    /\ \A h \in 1..Len(engines) : engines[h].crashed => ~Alive(h)
    /\ \A s \in Stoppers : stop[s].pc = "kill" => stop[s].handle \in 1..Len(engines)

SInv == SupTypeOK /\ TasksInv /\ SharedInv

-----------------------------------------------------------------------------
\* What TaskGoto leaves of a task.
LEMMA TaskGotoFacts ==
    ASSUME NEW t \in Task,
           NEW pc \in {"top", "spawn", "track", "pump", "monitor", "crash", "backoff", "done"}
    PROVE  LET r == [t EXCEPT !.pc = pc] IN
           /\ r \in Task /\ r.pc = pc /\ r.engine = t.engine
           /\ r.attempt = t.attempt /\ r.streak = t.streak
  BY DEF Task

\* The record of a task that has not been started, and of one that begins or ends.
LEMMA NoTaskFacts ==
    NoTask \in Task /\ NoTask.pc = "none" /\ NoTask.attempt = 0 /\ NoTask.streak = 0
  BY DEF NoTask, Task

LEMMA NoTaskGoto ==
    ASSUME NEW pc \in {"top", "done"}
    PROVE  LET r == [NoTask EXCEPT !.pc = pc] IN
           r \in Task /\ r.pc = pc /\ r.attempt = 0 /\ r.streak = 0
  <1>1. pc \in {"top", "spawn", "track", "pump", "monitor", "crash", "backoff", "done"}
    OBVIOUS
  <1> QED
    BY <1>1, NoTaskFacts, TaskGotoFacts, Zenon

\* The record that the end of a backoff leaves.
LEMMA BackoffRecord ==
    ASSUME NEW t \in Task, NEW n \in Nat
    PROVE  LET r == [t EXCEPT !.pc = "top", !.attempt = n] IN
           r \in Task /\ r.pc = "top" /\ r.attempt = n /\ r.streak = t.streak
  BY DEF Task

\* A task that is in none of the states the invariant speaks of.
LEMMA FreshTask ==
    ASSUME NEW t, t.attempt = 0, t.streak = 0, t.pc \in {"none", "top", "done"}
    PROVE  AttemptsOK(t)
  BY RestartAssumption DEF AttemptsOK

\* A step of the task of generation g that leaves the engines alone.
LEMMA TaskStep ==
    ASSUME SInv, NEW g \in Generations, NEW t \in Task, task' = [task EXCEPT ![g] = t],
           task[g].pc # "none", EnginesOK(g, t), AttemptsOK(t),
           UNCHANGED <<generation, stopping, engines, stop, stopCalls>>,
           handle' \in 0..Len(engines), enginePhase' \in EnginePhases, spawns' \in 0..MaxEngines
    PROVE  SInv'
  <1>1. /\ task' \in [Generations -> Task] /\ task'[g] = t
        /\ \A x \in Generations : x # g => task'[x] = task[x]
    BY DEF SInv, SupTypeOK
  <1>2. SupTypeOK'
    BY <1>1 DEF SInv, SupTypeOK
  <1>a. \A x \in Generations : AttemptsOK(task[x])'
    BY <1>1 DEF SInv, TasksInv, AttemptsOK
  <1>b. \A x \in Generations : EnginesOK(x, task[x])'
    BY <1>1 DEF SInv, TasksInv, EnginesOK, Alive
  <1>3. TasksInv'
    BY <1>a, <1>b DEF TasksInv
  <1>4. SharedInv'
    BY <1>1 DEF SInv, SharedInv, Alive
  <1> QED
    BY <1>2, <1>3, <1>4 DEF SInv

\* Leaving the loop keeps the invariant from wherever it is left.
LEMMA ExitKeeps ==
    ASSUME SInv, NEW g \in Generations, NEW ph \in EnginePhases, Exit(g, ph), task[g].pc # "none",
           UNCHANGED <<generation, stopping, handle, engines, stop, spawns, stopCalls>>
    PROVE  SInv'
  <1> DEFINE t == [NoTask EXCEPT !.pc = "done"]
  <1>1. t \in Task /\ t.pc = "done" /\ t.attempt = 0 /\ t.streak = 0
    BY NoTaskGoto, Zenon
  <1>2. task' = [task EXCEPT ![g] = t] /\ enginePhase' \in EnginePhases
    BY DEF Exit, EnginePhases
  <1> HIDE DEF t
  <1>3. AttemptsOK(t)
    BY <1>1, FreshTask
  <1>4. EnginesOK(g, t)
    BY <1>1 DEF SInv, TasksInv, EnginesOK, Between, Following
  <1> QED
    BY <1>1, <1>2, <1>3, <1>4, TaskStep DEF SInv, SupTypeOK

\* The invariant's facts about one task.
LEMMA TaskFacts ==
    ASSUME SInv, NEW g \in Generations
    PROVE  /\ task[g] \in Task /\ EnginesOK(g, task[g]) /\ AttemptsOK(task[g])
           /\ handle \in 0..Len(engines) /\ enginePhase \in EnginePhases
           /\ spawns \in 0..MaxEngines /\ engines \in Seq(Engine) /\ Len(engines) \in Nat
           /\ task[g].attempt \in Nat /\ task[g].streak \in Nat /\ Cap \in Nat
           /\ task[g].seen \in 0..3
           /\ \A h \in 1..Len(engines) : engines[h] \in Engine
  <1>1. /\ task[g] \in Task /\ engines \in Seq(Engine)
        /\ handle \in 0..Len(engines) /\ enginePhase \in EnginePhases /\ spawns \in 0..MaxEngines
    BY DEF SInv, SupTypeOK
  <1>2. Len(engines) \in Nat /\ \A h \in 1..Len(engines) : engines[h] \in Engine
    BY <1>1
  <1>3. task[g].attempt \in Nat /\ task[g].streak \in Nat /\ task[g].seen \in 0..3
    BY <1>1 DEF Task
  <1>4. EnginesOK(g, task[g]) /\ AttemptsOK(task[g])
    BY DEF SInv, TasksInv
  <1> QED
    BY <1>1, <1>2, <1>3, <1>4, RestartAssumption

LEMMA LoopTopKeeps ==
    ASSUME SInv, NEW g \in Generations, LoopTop(g)
    PROVE  SInv'
  <1>1. CASE Leaves(g)
    BY <1>1, ExitKeeps, TaskFacts DEF LoopTop
  <1>2. CASE ~Leaves(g)
    <2> DEFINE t == [task[g] EXCEPT !.pc = "spawn"]
    <2>1. /\ t \in Task /\ t.pc = "spawn" /\ t.attempt = task[g].attempt
          /\ t.streak = task[g].streak
      BY TaskFacts, TaskGotoFacts
    <2>2. /\ task' = [task EXCEPT ![g] = t] /\ enginePhase' \in EnginePhases
          /\ UNCHANGED <<generation, stopping, handle, engines, stop, spawns, stopCalls>>
          /\ task[g].pc = "top"
      BY <1>2 DEF LoopTop, TaskGoto, EnginePhases
    <2> HIDE DEF t
    <2>3. EnginesOK(g, t) /\ AttemptsOK(t)
      BY <2>1, <2>2, TaskFacts DEF EnginesOK, AttemptsOK, Between, Following
    <2> QED
      BY <2>1, <2>2, <2>3, TaskFacts, TaskStep
  <1> QED
    BY <1>1, <1>2

\* A new engine: the task had none alive.
LEMMA SpawnKeeps ==
    ASSUME SInv, NEW g \in Generations, Spawn(g)
    PROVE  SInv'
  <1> DEFINE e == [of |-> g, state |-> "loading", wasReady |-> FALSE, crashed |-> FALSE,
                   stable |-> FALSE]
             n == Len(engines) + 1
             t == [task[g] EXCEPT !.pc = "track", !.engine = n, !.seen = 0, !.ready = FALSE]
  <1>1. /\ task[g].pc = "spawn" /\ spawns' = spawns + 1 /\ engines' = Append(engines, e)
        /\ task' = [task EXCEPT ![g] = t]
        /\ UNCHANGED <<generation, stopping, handle, enginePhase, stop, stopCalls>>
        /\ spawns < MaxEngines
    BY DEF Spawn
  <1>2. e \in Engine /\ e.of = g /\ ~e.crashed
    BY DEF Engine
  <1>0. task[g] \in Task /\ n \in Nat /\ 0 \in 0..3
    BY TaskFacts
  <1>3. /\ t \in Task /\ t.pc = "track" /\ t.engine = n
        /\ t.attempt = task[g].attempt /\ t.streak = task[g].streak
    <2> HIDE DEF n
    <2>1. PICK z \in 0..3 : z = 0
      BY <1>0
    <2>2. t = [task[g] EXCEPT !.pc = "track", !.engine = n, !.seen = z, !.ready = FALSE]
      BY <2>1
    <2> HIDE DEF t
    <2> QED
      BY <1>0, <2>2 DEF Task
  <1> HIDE DEF e, t
  <1>4. /\ engines' \in Seq(Engine) /\ Len(engines') = n /\ engines'[n] = e
        /\ \A h \in 1..Len(engines) : engines'[h] = engines[h]
        /\ Len(engines) \in Nat
    BY <1>1, <1>2, TaskFacts
  <1>5. /\ task' \in [Generations -> Task] /\ task'[g] = t
        /\ \A x \in Generations : x # g => task'[x] = task[x]
    BY <1>1, <1>3 DEF SInv, SupTypeOK
  <1>6. SupTypeOK'
    BY <1>1, <1>4, <1>5, SupBoundsAssumption DEF SInv, SupTypeOK
  <1>7. \A h \in 1..Len(engines) : engines[h].of = g => ~Alive(h)
    BY <1>1, TaskFacts DEF EnginesOK, Between
  <1>a. \A h \in 1..n : h = n \/ h \in 1..Len(engines)
    BY <1>4
  <1>b. \A h \in 1..n : engines'[h].of = g /\ Alive(h)' => h = n
    BY <1>4, <1>7, <1>a DEF Alive
  <1>8. EnginesOK(g, task[g])'
    <2>1. task'[g].pc = "track" /\ task'[g].engine = n /\ n \in 1..Len(engines')
      BY <1>3, <1>4, <1>5, <1>0
    <2> HIDE DEF n
    <2> QED
      BY <1>4, <1>b, <2>1 DEF EnginesOK, Between, Following
  <1>c. AttemptsOK(task[g]) /\ \A x \in Generations : AttemptsOK(task[x])
    BY DEF SInv, TasksInv
  <1>d. \A x \in Generations : AttemptsOK(task[x])'
    BY <1>1, <1>3, <1>5, <1>c DEF AttemptsOK
  <1>9. ASSUME NEW x \in Generations, x # g
        PROVE  EnginesOK(x, task[x])'
    <2>1. \A h \in 1..n : engines'[h].of = x => h \in 1..Len(engines)
      BY <1>2, <1>4, <1>9, <1>a
    <2>2. EnginesOK(x, task[x]) /\ task'[x] = task[x]
      BY <1>5, <1>9 DEF SInv, TasksInv
    <2>3. Len(engines) \in Nat /\ Len(engines') = Len(engines) + 1
      BY <1>4
    <2>4. \A h \in 1..Len(engines') : engines'[h].of = x /\ Alive(h)' =>
              h \in 1..Len(engines) /\ engines[h].of = x /\ Alive(h)
      BY <1>4, <2>1 DEF Alive
    <2> QED
      BY <2>2, <2>3, <2>4 DEF EnginesOK
  <1>10. TasksInv'
    BY <1>8, <1>9, <1>d DEF TasksInv
  <1>11. SharedInv'
    BY <1>1, <1>2, <1>4, <1>5 DEF SInv, SharedInv, Alive, SupTypeOK
  <1> QED
    BY <1>6, <1>10, <1>11 DEF SInv

LEMMA SpawnFailsKeeps ==
    ASSUME SInv, NEW g \in Generations, SpawnFails(g)
    PROVE  SInv'
  <1> DEFINE t == [task[g] EXCEPT !.pc = "crash", !.engine = 0, !.ready = FALSE]
  <1>1. /\ task[g].pc = "spawn" /\ spawns' \in 0..MaxEngines /\ task' = [task EXCEPT ![g] = t]
        /\ UNCHANGED <<generation, stopping, handle, enginePhase, engines, stop, stopCalls>>
    <2>1. spawns \in 0..MaxEngines
      BY TaskFacts
    <2>2. spawns' \in 0..MaxEngines
      BY <2>1, SupBoundsAssumption DEF SpawnFails
    <2> QED
      BY <2>2, Zenon DEF SpawnFails
  <1>2. /\ t \in Task /\ t.pc = "crash" /\ t.engine = 0
        /\ t.attempt = task[g].attempt /\ t.streak = task[g].streak
    BY TaskFacts DEF Task
  <1> HIDE DEF t
  <1>0. EnginesOK(g, task[g]) /\ AttemptsOK(task[g]) /\ Len(engines) \in Nat
    BY TaskFacts
  <1>a. EnginesOK(g, t)
    BY <1>0, <1>1, <1>2 DEF EnginesOK, Between, Following
  <1>3. EnginesOK(g, t) /\ AttemptsOK(t)
    BY <1>0, <1>1, <1>2, <1>a DEF AttemptsOK
  <1> QED
    BY <1>1, <1>2, <1>3, TaskFacts, TaskStep

LEMMA TrackKeeps ==
    ASSUME SInv, NEW g \in Generations, Track(g)
    PROVE  SInv'
  <1> DEFINE t == [task[g] EXCEPT !.pc = "pump", !.woken = FALSE]
  <1>1. /\ task[g].pc = "track" /\ handle' = task[g].engine /\ task' = [task EXCEPT ![g] = t]
        /\ UNCHANGED <<generation, stopping, enginePhase, engines, stop, spawns, stopCalls>>
    BY DEF Track
  <1>2. /\ t \in Task /\ t.pc = "pump" /\ t.engine = task[g].engine
        /\ t.attempt = task[g].attempt /\ t.streak = task[g].streak
    BY TaskFacts DEF Task
  <1> HIDE DEF t
  <1>3. EnginesOK(g, t) /\ AttemptsOK(t)
    BY <1>1, <1>2, TaskFacts DEF EnginesOK, AttemptsOK, Between, Following
  <1>4. handle' \in 0..Len(engines)
    BY <1>1, TaskFacts DEF EnginesOK, Following
  <1> QED
    BY <1>1, <1>2, <1>3, <1>4, TaskFacts, TaskStep

LEMMA PumpEventKeeps ==
    ASSUME SInv, NEW g \in Generations, PumpEvent(g)
    PROVE  SInv'
  <1> DEFINE k == task[g].seen + 1
             ph == CASE k = 1 -> "Loading" [] k = 2 -> "Running" [] OTHER -> enginePhase
             t == [task[g] EXCEPT !.seen = k]
  <1>1. /\ task[g].pc = "pump" /\ HasEvent(g, k)
        /\ IF task[g].consumer THEN task' = [task EXCEPT ![g] = t] /\ enginePhase' = ph
                               ELSE Exit(g, ph)
        /\ UNCHANGED <<generation, stopping, handle, engines, stop, spawns, stopCalls>>
    BY DEF PumpEvent
  <1>2. k \in 0..3
    BY <1>1, TaskFacts DEF HasEvent
  <1>3. ph \in EnginePhases
    BY TaskFacts DEF EnginePhases
  <1>4. CASE ~task[g].consumer
    <2> HIDE DEF ph
    <2> QED
      BY <1>1, <1>3, <1>4, ExitKeeps
  <1>5. CASE task[g].consumer
    <2>1. /\ t \in Task /\ t.pc = "pump" /\ t.engine = task[g].engine
          /\ t.attempt = task[g].attempt /\ t.streak = task[g].streak
      BY <1>1, <1>2, TaskFacts DEF Task
    <2> HIDE DEF t, ph
    <2>2. EnginesOK(g, t) /\ AttemptsOK(t)
      BY <1>1, <2>1, TaskFacts DEF EnginesOK, AttemptsOK, Between, Following
    <2> QED
      BY <1>1, <1>3, <1>5, <2>1, <2>2, TaskFacts, TaskStep
  <1> QED
    BY <1>4, <1>5

\* An engine that is not alive any more may be left for the restart policy.
LEMMA ToCrash ==
    ASSUME SInv, NEW g \in Generations, NEW t \in Task, task' = [task EXCEPT ![g] = t],
           task[g].pc \in Following, ~Alive(task[g].engine),
           t.pc = "crash", t.engine = task[g].engine,
           t.attempt = task[g].attempt, t.streak = task[g].streak, enginePhase' \in EnginePhases,
           UNCHANGED <<generation, stopping, handle, engines, stop, spawns, stopCalls>>
    PROVE  SInv'
  <1>0. EnginesOK(g, task[g]) /\ AttemptsOK(task[g]) /\ Len(engines) \in Nat
    BY TaskFacts
  <1>b. t.pc = "crash" /\ t.engine \in 1..Len(engines) /\ t.engine \in 0..Len(engines)
    BY <1>0 DEF EnginesOK, Following
  <1>c. \A h \in 1..Len(engines) : engines[h].of = g => ~Alive(h)
    BY <1>0 DEF EnginesOK, Following
  <1>a. EnginesOK(g, t)
    BY <1>b, <1>c DEF EnginesOK, Between, Following
  <1>1. EnginesOK(g, t) /\ AttemptsOK(t)
    BY <1>0, <1>a DEF AttemptsOK, Following
  <1> QED
    BY <1>1, TaskFacts, TaskStep DEF Following

LEMMA PumpErrorKeeps ==
    ASSUME SInv, NEW g \in Generations, PumpError(g)
    PROVE  SInv'
  <1> DEFINE t == [task[g] EXCEPT !.pc = "crash", !.woken = FALSE]
  <1>1. /\ task[g].pc = "pump" /\ engines[task[g].engine].crashed
        /\ IF task[g].consumer THEN task' = [task EXCEPT ![g] = t] /\ enginePhase' = "Crashed"
                               ELSE Exit(g, "Crashed")
        /\ UNCHANGED <<generation, stopping, handle, engines, stop, spawns, stopCalls>>
    BY DEF PumpError
  <1>2. CASE ~task[g].consumer
    BY <1>1, <1>2, ExitKeeps DEF EnginePhases
  <1>3. CASE task[g].consumer
    <2>1. /\ t \in Task /\ t.pc = "crash" /\ t.engine = task[g].engine
          /\ t.attempt = task[g].attempt /\ t.streak = task[g].streak
      BY TaskFacts DEF Task
    <2>2. ~Alive(task[g].engine)
      BY <1>1, TaskFacts DEF EnginesOK, Following, SInv, SharedInv
    <2>3. task' = [task EXCEPT ![g] = t]
      BY <1>1, <1>3
    <2>4. enginePhase' \in EnginePhases /\ task[g].pc \in Following
      BY <1>1, <1>3 DEF EnginePhases, Following
    <2> HIDE DEF t
    <2> QED
      BY <1>1, <2>1, <2>2, <2>3, <2>4, ToCrash
  <1> QED
    BY <1>2, <1>3

LEMMA PumpClosedKeeps ==
    ASSUME SInv, NEW g \in Generations, PumpClosed(g)
    PROVE  SInv'
  <1> DEFINE late == task[g].seen >= 2
             t == [task[g] EXCEPT !.pc = IF late THEN "monitor" ELSE "crash",
                                  !.ready = late, !.woken = FALSE]
  <1>1. /\ task[g].pc = "pump" /\ ~HasEvent(g, task[g].seen + 1) /\ Closed(engines[task[g].engine])
        /\ task' = [task EXCEPT ![g] = t]
        /\ UNCHANGED <<generation, stopping, handle, enginePhase, engines, stop, spawns, stopCalls>>
    BY DEF PumpClosed
  <1>2. late \in BOOLEAN
    OBVIOUS
  <1>3. /\ t \in Task /\ t.pc = (IF late THEN "monitor" ELSE "crash") /\ t.engine = task[g].engine
        /\ t.attempt = task[g].attempt /\ t.streak = task[g].streak
    BY <1>2, TaskFacts DEF Task
  <1> HIDE DEF t
  <1>4. CASE late
    <2>1. EnginesOK(g, t) /\ AttemptsOK(t)
      BY <1>1, <1>3, <1>4, TaskFacts DEF EnginesOK, AttemptsOK, Between, Following
    <2> QED
      BY <1>1, <1>3, <2>1, TaskFacts, TaskStep
  <1>5. CASE ~late
    <2>1. ~engines[task[g].engine].wasReady
      BY <1>1, <1>5, TaskFacts DEF HasEvent
    <2>2. ~Alive(task[g].engine)
      BY <1>1, <2>1 DEF Closed, Alive
    <2> QED
      BY <1>1, <1>3, <1>5, <2>2, TaskFacts, ToCrash DEF Following
  <1> QED
    BY <1>4, <1>5

LEMMA PumpWokenKeeps ==
    ASSUME SInv, NEW g \in Generations, PumpWoken(g)
    PROVE  SInv'
  <1>1. CASE stopping
    BY <1>1, ExitKeeps, TaskFacts DEF PumpWoken
  <1>2. CASE ~stopping
    <2> DEFINE t == [task[g] EXCEPT !.woken = FALSE]
    <2>1. /\ t \in Task /\ t.pc = task[g].pc /\ t.engine = task[g].engine
          /\ t.attempt = task[g].attempt /\ t.streak = task[g].streak
      BY TaskFacts DEF Task
    <2>2. /\ task' = [task EXCEPT ![g] = t] /\ task[g].pc = "pump" /\ enginePhase' = enginePhase
          /\ UNCHANGED <<generation, stopping, handle, engines, stop, spawns, stopCalls>>
      BY <1>2 DEF PumpWoken
    <2> HIDE DEF t
    <2>3. EnginesOK(g, t) /\ AttemptsOK(t)
      BY <2>1, TaskFacts DEF EnginesOK, AttemptsOK
    <2> QED
      BY <2>1, <2>2, <2>3, TaskFacts, TaskStep
  <1> QED
    BY <1>1, <1>2

LEMMA MonitorKeeps ==
    ASSUME SInv, NEW g \in Generations, Monitor(g)
    PROVE  SInv'
  <1>1. CASE Exit(g, enginePhase)
    BY <1>1, ExitKeeps, TaskFacts DEF Monitor
  <1>2. CASE engines[task[g].engine].state = "crashed" /\ TaskGoto(g, "crash") /\ enginePhase' = "Crashed"
    <2> DEFINE t == [task[g] EXCEPT !.pc = "crash"]
    <2>1. /\ t \in Task /\ t.pc = "crash" /\ t.engine = task[g].engine
          /\ t.attempt = task[g].attempt /\ t.streak = task[g].streak
      BY TaskFacts, TaskGotoFacts
    <2>2. /\ task' = [task EXCEPT ![g] = t] /\ task[g].pc = "monitor" /\ ~Alive(task[g].engine)
          /\ UNCHANGED <<generation, stopping, handle, engines, stop, spawns, stopCalls>>
      BY <1>2 DEF Monitor, TaskGoto, Alive
    <2> HIDE DEF t
    <2> QED
      BY <1>2, <2>1, <2>2, ToCrash DEF Following, EnginePhases
  <1> QED
    BY <1>1, <1>2 DEF Monitor

\* The restart policy: the counter stays below the cap, and the failures seen in a row
\* are at most one more than it says.
LEMMA CrashKeeps ==
    ASSUME SInv, NEW g \in Generations, Crash(g)
    PROVE  SInv'
  <1> DEFINE attempt == IF task[g].ready /\ Stable(g) THEN 0 ELSE task[g].attempt
             streak == IF Stable(g) THEN 1 ELSE task[g].streak + 1
             pc == IF GivesUp(attempt) THEN "gave up" ELSE "backoff"
             t == [NoTask EXCEPT !.pc = pc, !.attempt = attempt, !.streak = streak,
                                 !.consumer = task[g].consumer]
  <1>1. CASE Leaves(g)
    BY <1>1, ExitKeeps, TaskFacts DEF Crash
  <1>2. CASE ~Leaves(g)
    <2>1. /\ task[g].pc = "crash" /\ task' = [task EXCEPT ![g] = t]
          /\ enginePhase' \in EnginePhases
          /\ UNCHANGED <<generation, stopping, handle, engines, stop, spawns, stopCalls>>
      BY <1>2 DEF Crash, EnginePhases
    <2>a. /\ task[g].attempt \in Nat /\ task[g].streak \in Nat
          /\ task[g].attempt + 1 <= Cap /\ task[g].streak <= task[g].attempt
      BY <2>1, TaskFacts DEF AttemptsOK
    <2>2. /\ attempt \in Nat /\ streak \in Nat /\ attempt <= task[g].attempt
          /\ streak <= attempt + 1 /\ attempt + 1 <= Cap
      BY <2>a, RestartAssumption
    <2>3. pc \in {"gave up", "backoff"} /\ (pc = "backoff" => attempt + 2 <= Cap)
      BY <2>2, RestartAssumption DEF GivesUp
    <2> HIDE DEF attempt, streak, pc
    <2>4. task[g].consumer \in BOOLEAN
      BY TaskFacts DEF Task
    <2>5. t \in Task /\ t.pc = pc /\ t.attempt = attempt /\ t.streak = streak
      <3>1. NoTask \in Task /\ pc \in {"gave up", "backoff"} /\ attempt \in Nat /\ streak \in Nat
        BY <2>2, <2>3, NoTaskFacts
      <3>2. PICK n \in Task : n = NoTask
        BY NoTaskFacts
      <3> DEFINE c == task[g].consumer
      <3>3. t = [n EXCEPT !.pc = pc, !.attempt = attempt, !.streak = streak, !.consumer = c]
        BY <3>2, Zenon
      <3>4. c \in BOOLEAN
        BY <2>4
      <3> HIDE DEF t, c
      <3> QED
        BY <3>1, <3>3, <3>4 DEF Task
    <2> HIDE DEF t
    <2>6. EnginesOK(g, t)
      BY <2>1, <2>3, <2>5, TaskFacts DEF EnginesOK, Between, Following
    <2>7. AttemptsOK(t)
      BY <2>2, <2>3, <2>5 DEF AttemptsOK
    <2> QED
      BY <2>1, <2>5, <2>6, <2>7, TaskFacts, TaskStep
  <1> QED
    BY <1>1, <1>2

LEMMA BackoffKeeps ==
    ASSUME SInv, NEW g \in Generations, Backoff(g)
    PROVE  SInv'
  <1>1. CASE Leaves(g)
    BY <1>1, ExitKeeps, TaskFacts DEF Backoff
  <1>2. CASE ~Leaves(g)
    <2> DEFINE t == [task[g] EXCEPT !.pc = "top", !.attempt = @ + 1]
    <2>0. task[g] \in Task /\ task[g].attempt \in Nat /\ task[g].streak \in Nat
      BY TaskFacts
    <2>1. /\ t \in Task /\ t.pc = "top" /\ t.attempt = task[g].attempt + 1
          /\ t.streak = task[g].streak
      <3>1. task[g].attempt + 1 \in Nat
        BY <2>0
      <3> QED
        BY <2>0, <3>1, BackoffRecord, Zenon
    <2>2. /\ task' = [task EXCEPT ![g] = t] /\ task[g].pc = "backoff" /\ enginePhase' = enginePhase
          /\ UNCHANGED <<generation, stopping, handle, engines, stop, spawns, stopCalls>>
      BY <1>2 DEF Backoff
    <2> HIDE DEF t
    <2>3. EnginesOK(g, t)
      BY <2>1, <2>2, TaskFacts DEF EnginesOK, Between, Following
    <2>a. AttemptsOK(task[g])
      BY TaskFacts
    <2>4. AttemptsOK(t)
      BY <2>0, <2>1, <2>2, <2>a, RestartAssumption DEF AttemptsOK
    <2> QED
      BY <2>1, <2>2, <2>3, <2>4, TaskFacts, TaskStep
  <1> QED
    BY <1>1, <1>2

LEMMA ConsumerLeavesKeeps ==
    ASSUME SInv, NEW g \in Generations, ConsumerLeaves(g)
    PROVE  SInv'
  <1> DEFINE t == [task[g] EXCEPT !.consumer = FALSE]
  <1>1. /\ t \in Task /\ t.pc = task[g].pc /\ t.engine = task[g].engine
        /\ t.attempt = task[g].attempt /\ t.streak = task[g].streak
    BY TaskFacts DEF Task
  <1>2. /\ task' = [task EXCEPT ![g] = t] /\ task[g].pc = "pump"
        /\ UNCHANGED <<generation, stopping, handle, enginePhase, engines, stop, spawns, stopCalls>>
    BY DEF ConsumerLeaves
  <1> HIDE DEF t
  <1>3. EnginesOK(g, t) /\ AttemptsOK(t)
    BY <1>1, TaskFacts DEF EnginesOK, AttemptsOK
  <1> QED
    BY <1>1, <1>2, <1>3, TaskFacts, TaskStep

\* A new generation has had no engine yet.
LEMMA StartKeeps ==
    ASSUME SInv, Start
    PROVE  SInv'
  <1> DEFINE g == generation + 1
             t == [NoTask EXCEPT !.pc = "top"]
  <1>1. /\ g \in Generations /\ generation \in Nat
        /\ generation' = g /\ task' = [task EXCEPT ![g] = t]
        /\ stopping' = FALSE /\ handle' = 0 /\ enginePhase' = "Loading"
        /\ UNCHANGED <<engines, stop, spawns, stopCalls>>
    BY SupBoundsAssumption DEF Start, Generations, SInv, SupTypeOK
  <1>a. t \in Task /\ t.pc = "top" /\ t.attempt = 0 /\ t.streak = 0
    BY NoTaskGoto, Zenon
  <1> HIDE DEF t
  <1>2. t \in Task /\ t.pc = "top" /\ AttemptsOK(t)
    BY <1>a, FreshTask
  <1>3. /\ task' \in [Generations -> Task] /\ task'[g] = t
        /\ \A x \in Generations : x # g => task'[x] = task[x]
    BY <1>1, <1>2 DEF SInv, SupTypeOK
  <1>4. task[g].pc = "none"
    BY <1>1 DEF SInv, SharedInv
  <1>5. EnginesOK(g, t)
    BY <1>1, <1>2, <1>4, TaskFacts DEF EnginesOK, Between, Following
  <1>b. generation' \in 0..MaxStarts
    BY <1>1, SupBoundsAssumption DEF Generations
  <1>c. handle' \in 0..Len(engines') /\ enginePhase' \in EnginePhases
    BY <1>1 DEF SInv, SupTypeOK, EnginePhases
  <1>6. SupTypeOK'
    BY <1>1, <1>3, <1>b, <1>c DEF SInv, SupTypeOK
  <1>7. TasksInv'
    BY <1>1, <1>2, <1>3, <1>5 DEF SInv, TasksInv, EnginesOK, Alive
  <1>8. SharedInv'
    BY <1>1, <1>3 DEF SInv, SharedInv, Alive, Generations
  <1> QED
    BY <1>6, <1>7, <1>8 DEF SInv

\* Engines that change state but do not come back to life.
LEMMA EnginesStep ==
    ASSUME SInv, UNCHANGED <<generation, stopping, handle, enginePhase, task, spawns, stopCalls>>,
           stop' \in [Stoppers -> [pc: {"idle", "read", "kill", "end"}, handle: Nat]],
           \A s \in Stoppers : stop'[s].pc = "kill" => stop[s].pc = "kill" /\ stop'[s].handle = stop[s].handle,
           NEW h \in 1..Len(engines), NEW e \in Engine, engines' = [engines EXCEPT ![h] = e],
           e.of = engines[h].of,
           e.state \in {"loading", "ready"} => Alive(h) /\ ~e.crashed
    PROVE  SInv'
  <1>1. engines \in Seq(Engine) /\ Len(engines) \in Nat
    BY DEF SInv, SupTypeOK
  <1>2. /\ engines' \in Seq(Engine) /\ Len(engines') = Len(engines) /\ engines'[h] = e
        /\ \A x \in 1..Len(engines) : x # h => engines'[x] = engines[x]
    BY <1>1
  <1>3. \A x \in 1..Len(engines) : engines'[x].of = engines[x].of /\ (Alive(x)' => Alive(x))
    BY <1>2 DEF Alive
  <1>4. SupTypeOK'
    BY <1>2 DEF SInv, SupTypeOK
  <1>5. \A g \in Generations : EnginesOK(g, task[g])'
    BY <1>2, <1>3 DEF SInv, TasksInv, EnginesOK
  <1>6. TasksInv'
    BY <1>5 DEF SInv, TasksInv
  <1>7. SharedInv'
    BY <1>2, <1>3 DEF SInv, SharedInv, Alive
  <1> QED
    BY <1>4, <1>6, <1>7 DEF SInv

LEMMA EngineChangesKeeps ==
    ASSUME SInv, NEW h \in DOMAIN engines, NEW state \in {"ready", "crashed"},
           NEW stable \in BOOLEAN, Alive(h), EngineChanges(h, state, stable)
    PROVE  SInv'
  <1>1. engines \in Seq(Engine) /\ h \in 1..Len(engines) /\ engines[h] \in Engine
    BY DEF SInv, SupTypeOK
  <1> DEFINE e == [engines[h] EXCEPT !.state = state, !.stable = stable,
                                     !.wasReady = @ \/ state = "ready",
                                     !.crashed = state = "crashed"]
  <1>2. engines' = [engines EXCEPT ![h] = e]
    BY DEF EngineChanges
  <1>3. (engines[h].wasReady \/ state = "ready") \in BOOLEAN /\ (state = "crashed") \in BOOLEAN
    BY <1>1 DEF Engine
  <1>4. e \in Engine /\ e.of = engines[h].of /\ e.state = state /\ e.crashed = (state = "crashed")
    BY <1>1, <1>3 DEF Engine
  <1> HIDE DEF e
  <1>5. /\ UNCHANGED <<generation, stopping, handle, enginePhase, task, spawns, stopCalls>>
        /\ stop' = stop
    BY DEF EngineChanges
  <1>6. stop' \in [Stoppers -> [pc: {"idle", "read", "kill", "end"}, handle: Nat]]
    BY <1>5 DEF SInv, SupTypeOK
  <1> QED
    BY <1>1, <1>2, <1>4, <1>5, <1>6, EnginesStep

\* The steps of a StopEngine call.
LEMMA StopKeeps ==
    ASSUME SInv, NEW s \in Stoppers, StopBegin(s) \/ StopRead(s) \/ StopKill(s) \/ StopEnd(s)
    PROVE  SInv'
  <1>1. /\ stop \in [Stoppers -> [pc: {"idle", "read", "kill", "end"}, handle: Nat]]
        /\ engines \in Seq(Engine) /\ Len(engines) \in Nat
        /\ task \in [Generations -> Task] /\ handle \in 0..Len(engines)
    BY DEF SInv, SupTypeOK
  <1>2. CASE StopBegin(s)
    <2> DEFINE w(g) == [task[g] EXCEPT !.woken = (task[g].pc = "pump")]
    <2>1. /\ task' = [g \in Generations |-> w(g)] /\ stopping' = TRUE
          /\ stopCalls' \in 0..MaxStopCalls /\ stop' = [stop EXCEPT ![s].pc = "read"]
          /\ UNCHANGED <<generation, handle, enginePhase, engines, spawns>>
      BY <1>2, SupBoundsAssumption DEF StopBegin, SInv, SupTypeOK
    <2>2. ASSUME NEW g \in Generations
          PROVE  /\ w(g) \in Task /\ w(g).pc = task[g].pc /\ w(g).engine = task[g].engine
                 /\ w(g).attempt = task[g].attempt /\ w(g).streak = task[g].streak
      <3>1. task[g] \in Task /\ (task[g].pc = "pump") \in BOOLEAN
        BY <1>1
      <3> QED
        BY <3>1 DEF Task
    <2> HIDE DEF w
    <2>3. task' \in [Generations -> Task] /\ \A g \in Generations : task'[g] = w(g)
      BY <2>1, <2>2
    <2>4. /\ stop' \in [Stoppers -> [pc: {"idle", "read", "kill", "end"}, handle: Nat]]
          /\ \A x \in Stoppers : stop'[x].pc = "kill" => stop'[x] = stop[x]
      BY <1>1, <2>1
    <2>5. SupTypeOK'
      BY <2>1, <2>3, <2>4 DEF SInv, SupTypeOK
    <2>6. ASSUME NEW g \in Generations
          PROVE  EnginesOK(g, task[g])' /\ AttemptsOK(task[g])'
      <3>1. EnginesOK(g, task[g]) /\ AttemptsOK(task[g])
        BY DEF SInv, TasksInv
      <3>2. EnginesOK(g, task[g])'
        BY <2>1, <2>2, <2>3, <3>1 DEF EnginesOK, Alive
      <3>3. AttemptsOK(task[g])'
        BY <2>2, <2>3, <3>1 DEF AttemptsOK
      <3> QED
        BY <3>2, <3>3
    <2>7. SharedInv'
      BY <2>1, <2>2, <2>3, <2>4 DEF SInv, SharedInv, Alive
    <2> QED
      BY <2>5, <2>6, <2>7 DEF SInv, TasksInv
  <1>3. CASE StopRead(s) \/ StopEnd(s)
    <2>1. /\ UNCHANGED <<generation, stopping, task, engines, spawns, stopCalls>>
          /\ handle' \in 0..Len(engines) /\ enginePhase' \in {enginePhase, "Stopped"}
      BY <1>1, <1>3 DEF StopRead, StopEnd
    <2>2. \/ stop' = [stop EXCEPT ![s] = NoStop]
          \/ handle # 0 /\ stop' = [stop EXCEPT ![s] = [pc |-> "kill", handle |-> handle]]
      <3>1. CASE StopRead(s)
        BY <3>1, Zenon DEF StopRead
      <3>2. CASE StopEnd(s)
        BY <3>2, Zenon DEF StopEnd
      <3> QED
        BY <1>3, <3>1, <3>2
    <2>3. /\ stop' \in [Stoppers -> [pc: {"idle", "read", "kill", "end"}, handle: Nat]]
          /\ \A x \in Stoppers : stop'[x].pc = "kill" => stop'[x] = stop[x] \/ stop'[x].handle \in 1..Len(engines)
      BY <1>1, <2>2 DEF NoStop
    <2>4. SupTypeOK'
      BY <2>1, <2>3 DEF SInv, SupTypeOK, EnginePhases
    <2>5. TasksInv'
      BY <2>1 DEF SInv, TasksInv, EnginesOK, Alive
    <2>6. SharedInv'
      BY <2>1, <2>3 DEF SInv, SharedInv, Alive
    <2> QED
      BY <2>4, <2>5, <2>6 DEF SInv
  <1>4. CASE StopKill(s)
    <2> DEFINE h == stop[s].handle
               e == [engines[h] EXCEPT !.state = "stopped"]
    <2>1. /\ h \in 1..Len(engines) /\ engines' = [engines EXCEPT ![h] = e]
          /\ stop' = [stop EXCEPT ![s].pc = "end"]
          /\ UNCHANGED <<generation, stopping, handle, enginePhase, task, spawns, stopCalls>>
      BY <1>4 DEF StopKill, SInv, SharedInv
    <2>2. engines[h] \in Engine
      BY <1>1, <2>1
    <2>3. e \in Engine /\ e.of = engines[h].of /\ e.state = "stopped"
      BY <2>2 DEF Engine
    <2>4. /\ stop' \in [Stoppers -> [pc: {"idle", "read", "kill", "end"}, handle: Nat]]
          /\ \A x \in Stoppers : stop'[x].pc = "kill" => stop[x].pc = "kill" /\ stop'[x].handle = stop[x].handle
      BY <1>1, <2>1
    <2> HIDE DEF e
    <2> QED
      BY <2>1, <2>3, <2>4, EnginesStep
  <1> QED
    BY <1>2, <1>3, <1>4

-----------------------------------------------------------------------------
\* Every step preserves the invariant.
LEMMA SupNextKeeps == SInv /\ [SupNext]_supVars => SInv'
  <1> SUFFICES ASSUME SInv, [SupNext]_supVars
               PROVE  SInv'
    OBVIOUS
  <1>1. ASSUME NEW g \in Generations, Supervise(g)
        PROVE  SInv'
    BY <1>1, LoopTopKeeps, SpawnKeeps, SpawnFailsKeeps, TrackKeeps, PumpEventKeeps,
       PumpErrorKeeps, PumpClosedKeeps, PumpWokenKeeps, MonitorKeeps, CrashKeeps, BackoffKeeps
       DEF Supervise
  <1>2. ASSUME NEW h \in DOMAIN engines,
               EngineReady(h) \/ \E stable \in BOOLEAN : EngineCrash(h, stable)
        PROVE  SInv'
    <2>1. CASE EngineReady(h)
      BY <2>1, EngineChangesKeeps DEF EngineReady, Alive
    <2>2. ASSUME NEW stable \in BOOLEAN, EngineCrash(h, stable)
          PROVE  SInv'
      BY <2>2, EngineChangesKeeps DEF EngineCrash
    <2> QED
      BY <1>2, <2>1, <2>2
  <1>3. CASE UNCHANGED supVars
    <2>1. SupTypeOK'
      BY <1>3 DEF supVars, SInv, SupTypeOK
    <2>2. \A g \in Generations : EnginesOK(g, task[g])'
      BY <1>3 DEF supVars, SInv, TasksInv, EnginesOK, Alive
    <2>3. \A g \in Generations : AttemptsOK(task[g])'
      BY <1>3 DEF supVars, SInv, TasksInv, AttemptsOK
    <2>4. SharedInv'
      BY <1>3 DEF supVars, SInv, SharedInv, Alive
    <2> QED
      BY <2>1, <2>2, <2>3, <2>4 DEF SInv, TasksInv
  <1> QED
    BY <1>1, <1>2, <1>3, StartKeeps, ConsumerLeavesKeeps, StopKeeps DEF SupNext

\* It holds at the start.
LEMMA SupInitKeeps == SupInit => SInv
  <1> SUFFICES ASSUME SupInit
               PROVE  SInv
    OBVIOUS
  <1>1. /\ engines = <<>> /\ Len(engines) = 0 /\ engines \in Seq(Engine)
        /\ task \in [Generations -> Task] /\ \A g \in Generations : task[g] = NoTask
    BY NoTaskFacts DEF SupInit
  <1>2. stop \in [Stoppers -> [pc: {"idle", "read", "kill", "end"}, handle: Nat]]
    BY DEF SupInit, NoStop
  <1>3. SupTypeOK
    <2>1. generation \in 0..MaxStarts /\ spawns \in 0..MaxEngines /\ stopCalls \in 0..MaxStopCalls
      BY SupBoundsAssumption DEF SupInit
    <2>2. handle \in 0..Len(engines) /\ stopping \in BOOLEAN /\ enginePhase \in EnginePhases
      <3>1. handle \in 0..Len(engines)
        BY <1>1 DEF SupInit
      <3> QED
        BY <3>1 DEF SupInit, EnginePhases
    <2> QED
      BY <1>1, <1>2, <2>1, <2>2 DEF SupTypeOK
  <1>4. TasksInv
    BY <1>1, NoTaskFacts, FreshTask DEF TasksInv, EnginesOK, Between, Following
  <1>5. SharedInv
    BY <1>1, NoTaskFacts DEF SharedInv, SupInit, NoStop
  <1> QED
    BY <1>3, <1>4, <1>5 DEF SInv

\* The engines alive of one generation are at most one.
LEMMA SupInvSafe == SInv => OnePerGeneration /\ CrashLoopCapped
  <1> SUFFICES ASSUME SInv, NEW g \in Generations
               PROVE  /\ Cardinality(AliveOf(g)) <= (IF task[g].pc = "gave up" THEN 0 ELSE 1)
                      /\ task[g].streak <= Cap
    BY DEF OnePerGeneration, CrashLoopCapped
  <1>1. DOMAIN engines = 1..Len(engines)
    BY DEF SInv, SupTypeOK
  <1>a. AttemptsOK(task[g]) /\ task[g].attempt \in Nat /\ task[g].streak \in Nat /\ Cap \in Nat
    BY TaskFacts
  <1>2. task[g].streak <= Cap
    <2>1. task[g].streak <= task[g].attempt + 1 /\ task[g].attempt + 1 <= Cap
      BY <1>a DEF AttemptsOK
    <2> QED
      BY <1>a, <2>1
  <1>3. CASE AliveOf(g) = {}
    <2>1. Cardinality(AliveOf(g)) = 0
      BY <1>3, FS_EmptySet
    <2> QED
      BY <1>2, <2>1
  <1>4. ASSUME NEW x \in AliveOf(g)
        PROVE  Cardinality(AliveOf(g)) = 1 /\ task[g].pc # "gave up"
    <2>1. AliveOf(g) = {x}
      BY <1>1, <1>4, TaskFacts DEF AliveOf, EnginesOK
    <2>2. task[g].pc # "gave up"
      BY <1>1, <1>4, TaskFacts DEF AliveOf, EnginesOK, Between
    <2> QED
      BY <2>1, <2>2, FS_Singleton
  <1>5. CASE \E x : x \in AliveOf(g)
    <2>1. Cardinality(AliveOf(g)) = 1 /\ task[g].pc # "gave up"
      BY <1>4, <1>5
    <2>2. 1 <= 1
      OBVIOUS
    <2> QED
      BY <1>2, <2>1, <2>2, Zenon
  <1> QED
    BY <1>3, <1>5

\* Types and the shape of tasks and engines, whatever starts, stops, crashes and readers do.
THEOREM SupInvariance == SupSpec => []SInv
  BY SupInitKeeps, SupNextKeeps, PTL DEF SupSpec

\* "capping consecutive failures to detect a crash loop": no task sees more failures in a
\* row than the cap, on either kind of backend.
THEOREM CrashLoopEnds == SupSpec => []CrashLoopCapped
  BY SupInvariance, SupInvSafe, PTL

\* A generation never has two engines alive, and none once its task gave up.
THEOREM OneEngineEach == SupSpec => []OnePerGeneration
  BY SupInvariance, SupInvSafe, PTL

-----------------------------------------------------------------------------
(***************************************************************************)
(* The self-healing loop.                                                  *)
(***************************************************************************)

PassType == [due: SUBSET Discrepancy, act: Discrepancy \cup {None}, saw: RowStates,
             stamped: BOOLEAN, late: 0..ActionCooldown]
NodeRecord == [state: NodeStates, silence: 0..(NodeTimeout + 1)]

\* The loop would act on the entry.
Ripe(e) == e.count >= FailureThreshold /\ e.age >= Hysteresis /\ e.cool = 0

\* A tracker's entry against the history of its discrepancy: it counts no pass and
\* no time the discrepancy was not there for; the cooldown that is left makes up the
\* time since a success it remembers, and an entry begun after a success is younger
\* than it; a failed action leaves the entry as ripe as it found it.
EntryOK(e, h) ==
    /\ e.count <= h.passes /\ e.age <= h.ticks
    /\ IF h.kept THEN h.acted + e.cool >= ActionCooldown /\ e.count > 0 ELSE e.age <= h.acted
    /\ h.failed => Ripe(e)

TrackerInv == \A x \in Discrepancy : EntryOK(tracker[x], hist[x])

\* What a pass acts on is ripe until its turn comes, and the policy lets it.
PassInv ==
    /\ \A x \in pass.due : x.typ \in Automatic /\ Ripe(tracker[x])
    /\ pass.act # None => /\ pass.act.typ \in Automatic
                          /\ Ripe(tracker[pass.act]) /\ pass.act \notin pass.due
    /\ pass.stamped => HasPlanner

\* A deployment that was failed over is stopped, and no pass is about to fail it
\* over again.
FailoverInv ==
    \A d \in Deps : moved[d] =>
        /\ row[d] = "STOPPED" /\ HasPlanner
        /\ ~(pass.act # None /\ pass.act.typ = "node_down" /\ pass.act.dep = d)

RecInv == RecTypeOK /\ TrackerInv /\ PassInv

-----------------------------------------------------------------------------
(***************************************************************************)
(* Ages, entries and passes                                                *)
(***************************************************************************)
LEMMA UpFacts ==
  ASSUME NEW cap \in Nat, NEW a \in 0..cap
  PROVE  Up(a, cap) \in 0..cap /\ Up(a, cap) >= a /\ (a < cap => Up(a, cap) = a + 1)
BY DEF Up

LEMMA DownFacts ==
  ASSUME NEW cap \in Nat, NEW a \in 0..cap, NEW b \in Nat
  PROVE  Down(a, b) \in 0..cap /\ Down(a, b) >= a - b
BY DEF Down

LEMMA LongestFacts == Longest \in Nat /\ ActionCooldown <= Longest /\ Hysteresis <= Longest
BY TimesAssumption DEF Longest

LEMMA NoEntryOK ==
    NoEntry \in Entry /\ \A h \in History : ~h.kept /\ ~h.failed => EntryOK(NoEntry, h)
BY TimesAssumption, LongestFacts DEF NoEntry, Entry, History, EntryOK

\* A pass observes the discrepancy once more.
LEMMA EntryCounts ==
  ASSUME NEW e \in Entry, NEW h \in History, EntryOK(e, h)
  PROVE  /\ [e EXCEPT !.count = Up(e.count, FailureThreshold)] \in Entry
         /\ [h EXCEPT !.passes = Up(h.passes, FailureThreshold)] \in History
         /\ EntryOK([e EXCEPT !.count = Up(e.count, FailureThreshold)],
                    [h EXCEPT !.passes = Up(h.passes, FailureThreshold)])
         /\ [e EXCEPT !.count = Up(e.count, FailureThreshold)].age = e.age
         /\ [e EXCEPT !.count = Up(e.count, FailureThreshold)].cool = e.cool
         /\ Ripe(e) => Ripe([e EXCEPT !.count = Up(e.count, FailureThreshold)])
<1>1. PICK a \in 0..FailureThreshold : a = Up(e.count, FailureThreshold)
  BY UpFacts, TimesAssumption DEF Entry
<1>2. PICK b \in 0..FailureThreshold : b = Up(h.passes, FailureThreshold)
  BY UpFacts, TimesAssumption DEF History
<1>3. a <= b /\ a >= e.count
  BY <1>1, <1>2, TimesAssumption DEF Up, EntryOK, Entry, History
<1>4. [e EXCEPT !.count = a] \in Entry /\ [e EXCEPT !.count = a].count = a /\
      [e EXCEPT !.count = a].age = e.age /\ [e EXCEPT !.count = a].cool = e.cool
  BY DEF Entry
<1>5. [h EXCEPT !.passes = b] \in History /\ [h EXCEPT !.passes = b].passes = b /\
      [h EXCEPT !.passes = b].ticks = h.ticks /\ [h EXCEPT !.passes = b].acted = h.acted /\
      [h EXCEPT !.passes = b].kept = h.kept /\ [h EXCEPT !.passes = b].failed = h.failed
  BY DEF History
<1> DEFINE ee == [e EXCEPT !.count = a]
           hh == [h EXCEPT !.passes = b]
<1> HIDE DEF ee, hh
<1>7. Ripe(e) => Ripe(ee)
  BY <1>3, <1>4, TimesAssumption DEF Ripe, ee, Entry
<1>6. EntryOK(ee, hh)
  BY <1>3, <1>4, <1>5, <1>7 DEF EntryOK, ee, hh, Entry
<1> QED
  BY <1>1, <1>2, <1>4, <1>5, <1>6, <1>7 DEF ee, hh

\* A pass does not observe it: the entry is gone and the history starts again.
LEMMA HistoryRestarts ==
  ASSUME NEW h \in History
  PROVE  LET hh == [h EXCEPT !.passes = 0, !.ticks = 0, !.kept = FALSE, !.failed = FALSE]
         IN  hh \in History /\ ~hh.kept /\ ~hh.failed /\ hh.acted = h.acted
<1>1. PICK p \in 0..FailureThreshold, t \in 0..Hysteresis : p = 0 /\ t = 0
  BY TimesAssumption
<1>2. LET hh == [h EXCEPT !.passes = p, !.ticks = t, !.kept = FALSE, !.failed = FALSE]
      IN  hh \in History /\ ~hh.kept /\ ~hh.failed /\ hh.acted = h.acted
  BY DEF History
<1> QED
  BY <1>1, <1>2

\* The control plane restarts: the tracker forgets.
LEMMA HistoryForgets ==
  ASSUME NEW h \in History
  PROVE  LET hh == [h EXCEPT !.kept = FALSE, !.failed = FALSE]
         IN  hh \in History /\ ~hh.kept /\ ~hh.failed
BY DEF History

\* An interval goes by.
LEMMA EntryAges ==
  ASSUME NEW e \in Entry, NEW h \in History, EntryOK(e, h)
  PROVE  /\ [e EXCEPT !.age = Up(e.age, Hysteresis), !.cool = Down(e.cool, 1)] \in Entry
         /\ [h EXCEPT !.ticks = Up(h.ticks, Hysteresis), !.acted = Up(h.acted, Longest)] \in History
         /\ Ripe(e) => Ripe([e EXCEPT !.age = Up(e.age, Hysteresis), !.cool = Down(e.cool, 1)])
         /\ EntryOK([e EXCEPT !.age = Up(e.age, Hysteresis), !.cool = Down(e.cool, 1)],
                    [h EXCEPT !.ticks = Up(h.ticks, Hysteresis), !.acted = Up(h.acted, Longest)])
<1>0. /\ e.count \in 0..FailureThreshold /\ e.age \in 0..Hysteresis /\ e.cool \in 0..ActionCooldown
      /\ h.passes \in 0..FailureThreshold /\ h.ticks \in 0..Hysteresis /\ h.acted \in 0..Longest
  BY DEF Entry, History
<1>1. PICK a \in 0..Hysteresis : a = Up(e.age, Hysteresis)
  BY <1>0, UpFacts, TimesAssumption
<1>2. PICK c \in 0..ActionCooldown : c = Down(e.cool, 1)
  BY <1>0, DownFacts, TimesAssumption
<1>3. PICK t \in 0..Hysteresis : t = Up(h.ticks, Hysteresis)
  BY <1>0, UpFacts, TimesAssumption
<1>4. PICK s \in 0..Longest : s = Up(h.acted, Longest)
  BY <1>0, UpFacts, LongestFacts
<1> DEFINE ee == [e EXCEPT !.age = a, !.cool = c]
           hh == [h EXCEPT !.ticks = t, !.acted = s]
<1>5. ee \in Entry /\ ee.count = e.count /\ ee.age = a /\ ee.cool = c
  BY DEF Entry
<1>6. hh \in History /\ hh.passes = h.passes /\ hh.ticks = t /\ hh.acted = s /\
      hh.kept = h.kept /\ hh.failed = h.failed
  BY DEF History
<1> HIDE DEF ee, hh
<1>7. a <= t
  BY <1>0, <1>1, <1>3, TimesAssumption DEF Up, EntryOK
<1>8. IF h.kept THEN s + c >= ActionCooldown ELSE a <= s
  <2>1. CASE h.kept
    <3>1. h.acted + e.cool >= ActionCooldown
      BY <2>1 DEF EntryOK
    <3> QED
      BY <2>1, <3>1, <1>0, <1>2, <1>4, LongestFacts, TimesAssumption DEF Up, Down
  <2>2. CASE ~h.kept
    <3>1. e.age <= h.acted
      BY <2>2 DEF EntryOK
    <3> QED
      BY <2>2, <3>1, <1>0, <1>1, <1>4, LongestFacts, TimesAssumption DEF Up
  <2> QED
    BY <2>1, <2>2
<1>9. Ripe(e) => Ripe(ee)
  BY <1>0, <1>1, <1>2, <1>5, TimesAssumption DEF Ripe, Up, Down
<1>10. EntryOK(ee, hh)
  BY <1>5, <1>6, <1>7, <1>8, <1>9 DEF EntryOK
<1> QED
  BY <1>1, <1>2, <1>3, <1>4, <1>5, <1>6, <1>9, <1>10 DEF ee, hh

LEMMA HistoryAges ==
  ASSUME NEW h \in History
  PROVE  LET hh == [h EXCEPT !.ticks = Up(h.ticks, Hysteresis), !.acted = Up(h.acted, Longest)]
         IN  hh \in History /\ hh.kept = h.kept /\ hh.failed = h.failed
<1>3. PICK t \in 0..Hysteresis : t = Up(h.ticks, Hysteresis)
  BY UpFacts, TimesAssumption DEF History
<1>4. PICK s \in 0..Longest : s = Up(h.acted, Longest)
  BY UpFacts, LongestFacts DEF History
<1>5. LET hh == [h EXCEPT !.ticks = t, !.acted = s]
      IN  hh \in History /\ hh.kept = h.kept /\ hh.failed = h.failed
  BY DEF History
<1> QED
  BY <1>3, <1>4, <1>5

\* An action succeeds: the cooldown counts from the beginning of the pass.
LEMMA EntryActs ==
  ASSUME NEW e \in Entry, NEW h \in History, EntryOK(e, h), e.count > 0, NEW late \in 0..ActionCooldown
  PROVE  /\ [e EXCEPT !.cool = Down(ActionCooldown, late)] \in Entry
         /\ [h EXCEPT !.acted = late, !.kept = TRUE, !.failed = FALSE] \in History
         /\ EntryOK([e EXCEPT !.cool = Down(ActionCooldown, late)],
                    [h EXCEPT !.acted = late, !.kept = TRUE, !.failed = FALSE])
<1>2. PICK c \in 0..ActionCooldown : c = Down(ActionCooldown, late)
  BY DownFacts, TimesAssumption
<1>3. PICK l \in 0..Longest : l = late
  BY LongestFacts, TimesAssumption
<1> DEFINE ee == [e EXCEPT !.cool = c]
           hh == [h EXCEPT !.acted = l, !.kept = TRUE, !.failed = FALSE]
<1>5. ee \in Entry /\ ee.count = e.count /\ ee.age = e.age /\ ee.cool = c
  BY DEF Entry
<1>6. /\ hh \in History /\ hh.passes = h.passes /\ hh.ticks = h.ticks /\ hh.acted = l
      /\ hh.kept /\ ~hh.failed
  BY DEF History
<1> HIDE DEF ee, hh
<1>7. l + c >= ActionCooldown
  BY <1>2, <1>3, TimesAssumption DEF Down
<1>9. EntryOK(ee, hh)
  BY <1>5, <1>6, <1>7 DEF EntryOK
<1> QED
  BY <1>2, <1>3, <1>5, <1>6, <1>9 DEF ee, hh

\* An action fails: the entry stays as ripe as it is.
LEMMA EntryFails ==
  ASSUME NEW e \in Entry, NEW h \in History, EntryOK(e, h), Ripe(e)
  PROVE  [h EXCEPT !.failed = TRUE] \in History /\ EntryOK(e, [h EXCEPT !.failed = TRUE])
<1> DEFINE hh == [h EXCEPT !.failed = TRUE]
<1>1. /\ hh \in History /\ hh.passes = h.passes /\ hh.ticks = h.ticks /\ hh.acted = h.acted
      /\ hh.kept = h.kept
  BY DEF History
<1> HIDE DEF hh
<1>2. EntryOK(e, hh)
  BY <1>1 DEF EntryOK
<1> QED
  BY <1>1, <1>2 DEF hh

LEMMA NoPassFacts == NoPass \in PassType /\ NoPass.due = {} /\ NoPass.act = None /\ ~NoPass.stamped
BY TimesAssumption DEF NoPass, PassType, RowStates

LEMMA DiscrepancyFacts ==
  ASSUME NEW x \in Discrepancy
  PROVE  /\ x.typ \in EventTypes
         /\ x.typ # "new_node" => x.dep \in Deps
         /\ x.typ \in {"engine_down", "node_down"} => x.node \in Nodes
BY DEF Discrepancy, EventTypes

-----------------------------------------------------------------------------
(***************************************************************************)
(* The steps                                                               *)
(***************************************************************************)
LEMMA RecInitKeeps == RecInit => RecInv /\ FailoverInv
<1> SUFFICES ASSUME RecInit PROVE RecInv /\ FailoverInv
  OBVIOUS
<1> USE DEF RecInit
<1>1. phase \in [Nodes -> Phases]
  BY DEF Phases
<1>2. node \in [Nodes -> NodeRecord]
  <2>1. \A s \in NodeStates : [state |-> s, silence |-> 0] \in NodeRecord
    BY TimesAssumption DEF NodeRecord
  <2>2. \A n \in Nodes : (IF phase[n] = "Running" THEN "RUNNING" ELSE "READY") \in NodeStates
    BY DEF NodeStates
  <2> QED
    BY <2>1, <2>2
<1>3. NoHistory \in History /\ ~NoHistory.kept /\ ~NoHistory.failed
  BY LongestFacts, TimesAssumption DEF NoHistory, History
<1>4. tracker \in [Discrepancy -> Entry] /\ hist \in [Discrepancy -> History]
  BY <1>3, NoEntryOK
<1>5. recFaults \in 0..MaxRecFaults /\ stops \in 0..MaxStops
  BY RecBoundsAssumption
<1>6. RecTypeOK
  BY <1>1, <1>2, <1>4, <1>5, NoPassFacts DEF RecTypeOK, NodeRecord, PassType, RowStates
<1>7. TrackerInv
  BY <1>3, NoEntryOK DEF TrackerInv
<1>8. PassInv
  BY NoPassFacts DEF PassInv
<1>9. FailoverInv
  BY DEF FailoverInv
<1> QED
  BY <1>6, <1>7, <1>8, <1>9 DEF RecInv

\* The next entry and history of a pass that observes what it observes.
LEMMA PassEntry ==
  ASSUME RecInv, PassBegin, NEW x \in Discrepancy
  PROVE  /\ tracker'[x] \in Entry /\ hist'[x] \in History /\ EntryOK(tracker'[x], hist'[x])
         /\ x \in Observed => tracker'[x].age = tracker[x].age /\ tracker'[x].cool = tracker[x].cool
         /\ x \in Observed /\ Ripe(tracker[x]) => Ripe(tracker'[x])
<1>1. tracker[x] \in Entry /\ hist[x] \in History /\ EntryOK(tracker[x], hist[x])
  BY DEF RecInv, RecTypeOK, TrackerInv
<1>2. CASE x \in Observed
  <2>1. /\ tracker'[x] = [tracker[x] EXCEPT !.count = Up(tracker[x].count, FailureThreshold)]
        /\ hist'[x] = [hist[x] EXCEPT !.passes = Up(hist[x].passes, FailureThreshold)]
    BY <1>2 DEF PassBegin, Tracked
  <2>2. PICK e \in Entry, h \in History : e = tracker[x] /\ h = hist[x] /\ EntryOK(e, h)
    BY <1>1
  <2> QED
    BY <2>1, <2>2, EntryCounts
<1>3. CASE x \notin Observed
  <2>1. /\ tracker'[x] = NoEntry
        /\ hist'[x] = [hist[x] EXCEPT !.passes = 0, !.ticks = 0, !.kept = FALSE, !.failed = FALSE]
    BY <1>3 DEF PassBegin, Tracked
  <2>2. hist'[x] \in History /\ ~hist'[x].kept /\ ~hist'[x].failed
    BY <1>1, <2>1, HistoryRestarts
  <2> QED
    BY <1>3, <2>1, <2>2, NoEntryOK
<1> QED
  BY <1>2, <1>3

LEMMA DueFacts ==
  ASSUME RecInv, PassBegin
  PROVE  /\ pass' \in PassType /\ pass'.act = None /\ ~pass'.stamped /\ pass'.due = Due(Tracked)
         /\ \A x \in pass'.due :
              /\ x \in Discrepancy /\ x \in Observed /\ x.typ \in Automatic
              /\ Ripe(tracker'[x])
<1>1. Observed \subseteq Discrepancy
  BY DEF Observed, Discrepancy, Active
<1>2. tracker' = Tracked
  BY DEF PassBegin
<1>3. PICK due \in SUBSET Discrepancy : due = Due(Tracked)
  BY <1>1 DEF Due
<1>4. PICK p \in PassType : p = NoPass
  BY NoPassFacts
<1>5. /\ [p EXCEPT !.due = due] \in PassType /\ [p EXCEPT !.due = due].due = due
      /\ [p EXCEPT !.due = due].act = p.act /\ [p EXCEPT !.due = due].stamped = p.stamped
  BY DEF PassType
<1>6. pass' = [p EXCEPT !.due = due]
  BY <1>3, <1>4 DEF PassBegin
<1>7. pass' \in PassType /\ pass'.due = due /\ pass'.act = None /\ ~pass'.stamped
  BY <1>4, <1>5, <1>6, NoPassFacts
<1>8. ASSUME NEW x \in due
      PROVE  x \in Observed /\ x.typ \in Automatic /\ Ripe(tracker'[x])
  <2>1. \A t : \A y \in Due(t) :
           y \in Observed /\ y.typ \in Automatic /\ Ripe(t[y])
    BY DEF Due, Ripe
  <2> QED
    BY <1>2, <1>3, <2>1
<1> QED
  BY <1>1, <1>3, <1>7, <1>8

LEMMA PassBeginKeeps ==
  ASSUME RecInv, PassBegin PROVE RecInv'
<1>1. tracker' \in [Discrepancy -> Entry] /\ hist' \in [Discrepancy -> History]
  <2>1. /\ tracker' = [x \in Discrepancy |-> tracker'[x]]
        /\ hist' = [x \in Discrepancy |-> hist'[x]]
    BY DEF PassBegin, Tracked
  <2>2. \A x \in Discrepancy : tracker'[x] \in Entry /\ hist'[x] \in History
    BY PassEntry
  <2> QED
    BY <2>1, <2>2
<1>2. TrackerInv'
  BY PassEntry DEF TrackerInv
<1>3. RecTypeOK'
  BY <1>1, DueFacts DEF PassBegin, RecInv, RecTypeOK, PassType
<1>4. PassInv'
  BY DueFacts DEF PassInv
<1> QED
  BY <1>2, <1>3, <1>4 DEF RecInv

LEMMA DispatchKeeps ==
  ASSUME RecInv, NEW x \in Discrepancy, Dispatch(x)
  PROVE  RecInv' /\ pass'.act = IF NothingToDo(x) THEN None ELSE x
<1>1. PICK a \in Discrepancy \cup {None} : a = IF NothingToDo(x) THEN None ELSE x
  OBVIOUS
<1>2. pass \in PassType /\ row \in [Deps -> RowStates]
  BY DEF RecInv, RecTypeOK, PassType
<1>3. PICK due \in SUBSET Discrepancy : due = pass.due \ {x}
  BY <1>2 DEF PassType
<1>4. x.typ \in Automatic /\ Ripe(tracker[x])
  BY DEF Dispatch, RecInv, PassInv
<1>5. PICK w \in RowStates : w = IF NothingToDo(x) THEN pass.saw ELSE row[x.dep]
  BY <1>2, <1>4, DiscrepancyFacts DEF PassType, Automatic
<1>6. pass' = [pass EXCEPT !.due = due, !.act = a, !.saw = w]
  BY <1>1, <1>3, <1>5 DEF Dispatch
<1>7. pass' \in PassType /\ pass'.due = due /\ pass'.act = a /\ pass'.stamped = pass.stamped
  BY <1>2, <1>6 DEF PassType
<1>8. RecTypeOK' /\ TrackerInv'
  BY <1>7 DEF Dispatch, RecInv, RecTypeOK, TrackerInv, PassType
<1>9. PassInv'
  BY <1>1, <1>3, <1>4, <1>7 DEF RecInv, PassInv, Dispatch
<1> QED
  BY <1>1, <1>7, <1>8, <1>9 DEF RecInv

LEMMA StampKeeps ==
  ASSUME RecInv, Stamp PROVE RecInv' /\ pass'.act = pass.act
<1>1. pass \in PassType /\ pass.act \in Discrepancy /\ pass.saw \in RowStates
  BY DEF RecInv, RecTypeOK, PassType, Stamp
<1>2. pass.act.dep \in Deps
  BY <1>1, DiscrepancyFacts DEF Stamp
<1>3. pass' \in PassType /\ pass'.due = pass.due /\ pass'.act = pass.act /\ pass'.stamped
  BY <1>1 DEF Stamp, PassType, RowStates
<1>4. row' \in [Deps -> RowStates]
  BY <1>1, <1>2 DEF Stamp, RecInv, RecTypeOK
<1>5. RecTypeOK' /\ TrackerInv'
  BY <1>3, <1>4 DEF Stamp, RecInv, RecTypeOK, TrackerInv, PassType
<1>6. PassInv'
  BY <1>3 DEF Stamp, RecInv, PassInv
<1> QED
  BY <1>3, <1>5, <1>6 DEF RecInv

\* The pass is done with an action, one way or the other.
LEMMA ActDone ==
  ASSUME NEW p \in PassType
  PROVE  LET q == [p EXCEPT !.act = None, !.saw = "ACTIVE", !.stamped = FALSE]
         IN  q \in PassType /\ q.act = None /\ q.due = p.due /\ ~q.stamped
BY DEF PassType, RowStates

LEMMA FaultCounts == ASSUME RecTypeOK, RecFault PROVE recFaults' \in 0..MaxRecFaults
BY RecBoundsAssumption DEF RecTypeOK, RecFault

\* What the actions do to the rows: only d's changes, and to a state of a row.
LEMMA TeardownFacts ==
  ASSUME RecTypeOK, NEW d \in Deps, Teardown(d)
  PROVE  /\ phase' \in [Nodes -> Phases] /\ recFaults' \in 0..MaxRecFaults
         /\ row' \in [Deps -> RowStates] /\ \A e \in Deps \ {d} : row'[e] = row[e]
<1>1. phase' \in [Nodes -> Phases]
  BY DEF Teardown, Halted, RecTypeOK, Phases
<1>2. recFaults' \in 0..MaxRecFaults
  BY FaultCounts DEF Teardown, RecTypeOK
<1>3. row \in [Deps -> RowStates]
  BY DEF RecTypeOK
<1>4. \E w \in RowStates : row' = [row EXCEPT ![d] = w]
  <2>1. row = [row EXCEPT ![d] = row[d]]
    BY <1>3
  <2> QED
    BY <1>3, <2>1 DEF Teardown, RowStates
<1> QED
  BY <1>1, <1>2, <1>3, <1>4

LEMMA RestartsFacts ==
  ASSUME RecTypeOK, NEW d \in Deps, NEW n \in Nodes, Restarts(d, n)
  PROVE  /\ phase' \in [Nodes -> Phases] /\ recFaults' \in 0..MaxRecFaults
         /\ row' \in [Deps -> RowStates] /\ \A e \in Deps \ {d} : row'[e] = row[e]
<1>1. phase' \in [Nodes -> Phases]
  BY DEF Restarts, RecTypeOK, Phases
<1>2. recFaults' \in 0..MaxRecFaults
  BY FaultCounts DEF Restarts, RecTypeOK
<1>3. row \in [Deps -> RowStates]
  BY DEF RecTypeOK
<1>4. row' = [row EXCEPT ![d] = "ACTIVE"] \/ row' = row
  BY DEF Restarts
<1> QED
  BY <1>1, <1>2, <1>3, <1>4 DEF RowStates

\* The history of a deployment's failover after an action on it.
ActedOn(d) ==
    /\ phase' \in [Nodes -> Phases] /\ recFaults' \in 0..MaxRecFaults
    /\ row' \in [Deps -> RowStates] /\ \A e \in Deps \ {d} : row'[e] = row[e]
    /\ moved' \in [Deps -> BOOLEAN] /\ \A e \in Deps \ {d} : moved'[e] = moved[e]
    /\ moved'[d] => row'[d] = "STOPPED" /\ (moved[d] \/ pass.stamped)

LEMMA ActionFacts ==
  ASSUME RecInv, ActionSucceeds
  PROVE  pass.act \in Discrepancy /\ pass.act.dep \in Deps /\ ActedOn(pass.act.dep)
<1>1. pass \in PassType /\ moved \in [Deps -> BOOLEAN] /\ row \in [Deps -> RowStates] /\
      phase \in [Nodes -> Phases] /\ RecTypeOK
  BY DEF RecInv, RecTypeOK, PassType
<1>2. PICK x \in Discrepancy : x = pass.act /\ x.typ \in Automatic
  BY <1>1 DEF ActionSucceeds, PassType, RecInv, PassInv
<1>3. x.dep \in Deps /\ (x.typ = "engine_down" => x.node \in Nodes)
  BY <1>2, DiscrepancyFacts DEF Automatic
<1>4. PICK d \in Deps : d = x.dep
  BY <1>3
<1>5. CASE x.typ = "engine_down"
  <2>1. Restarts(d, x.node)
    BY <1>2, <1>4, <1>5 DEF ActionSucceeds
  <2>2. moved' = [moved EXCEPT ![d] = moved[d] /\ row'[d] = "STOPPED"]
    BY <2>1 DEF Restarts
  <2>3. /\ phase' \in [Nodes -> Phases] /\ recFaults' \in 0..MaxRecFaults
        /\ row' \in [Deps -> RowStates] /\ \A e \in Deps \ {d} : row'[e] = row[e]
    BY <2>1, <1>1, <1>3, <1>5, RestartsFacts
  <2> QED
    BY <1>1, <1>2, <1>4, <2>2, <2>3 DEF ActedOn
<1>6. CASE x.typ = "node_down"
  <2>1. FailsOver(d)
    BY <1>2, <1>4, <1>6 DEF ActionSucceeds
  <2>2. moved' = [moved EXCEPT ![d] = (row'[d] = "STOPPED")] /\ pass.stamped
    BY <2>1 DEF FailsOver
  <2>3. /\ phase' \in [Nodes -> Phases] /\ recFaults' \in 0..MaxRecFaults
        /\ row' \in [Deps -> RowStates] /\ \A e \in Deps \ {d} : row'[e] = row[e]
    BY <2>1, <1>1, TeardownFacts, FaultCounts DEF FailsOver
  <2> QED
    BY <1>1, <1>2, <1>4, <2>2, <2>3 DEF ActedOn
<1>7. CASE x.typ = "orphan_deployment"
  <2>1. Teardown(d) /\ moved' = [moved EXCEPT ![d] = moved[d] /\ row'[d] = "STOPPED"]
    BY <1>2, <1>4, <1>7 DEF ActionSucceeds, CleansUp
  <2>3. /\ phase' \in [Nodes -> Phases] /\ recFaults' \in 0..MaxRecFaults
        /\ row' \in [Deps -> RowStates] /\ \A e \in Deps \ {d} : row'[e] = row[e]
    BY <2>1, <1>1, TeardownFacts
  <2> QED
    BY <1>1, <1>2, <1>4, <2>1, <2>3 DEF ActedOn
<1> QED
  BY <1>2, <1>5, <1>6, <1>7 DEF ActionSucceeds

LEMMA ActionSucceedsKeeps ==
  ASSUME RecInv, ActionSucceeds PROVE RecInv' /\ pass'.act = None
<1>1. pass \in PassType /\ pass.late \in 0..ActionCooldown
  BY DEF RecInv, RecTypeOK, PassType
<1>2. PICK x \in Discrepancy : x = pass.act /\ Ripe(tracker[x]) /\ x \notin pass.due
  BY <1>1 DEF ActionSucceeds, PassType, RecInv, PassInv
<1>3. pass' \in PassType /\ pass'.act = None /\ pass'.due = pass.due /\ ~pass'.stamped
  BY <1>1, ActDone DEF ActionSucceeds
<1>4. /\ tracker' = [tracker EXCEPT ![x] = [tracker[x] EXCEPT !.cool = Down(ActionCooldown, pass.late)]]
      /\ hist' = [hist EXCEPT ![x] = [hist[x] EXCEPT !.acted = pass.late, !.kept = TRUE, !.failed = FALSE]]
  BY <1>2 DEF ActionSucceeds
<1>5. tracker \in [Discrepancy -> Entry] /\ hist \in [Discrepancy -> History]
  BY DEF RecInv, RecTypeOK
<1>6. tracker' \in [Discrepancy -> Entry] /\ hist' \in [Discrepancy -> History] /\ TrackerInv'
  <2>1. tracker[x] \in Entry /\ hist[x] \in History /\ EntryOK(tracker[x], hist[x])
    BY <1>5 DEF RecInv, TrackerInv
  <2> DEFINE e == [tracker[x] EXCEPT !.cool = Down(ActionCooldown, pass.late)]
             h == [hist[x] EXCEPT !.acted = pass.late, !.kept = TRUE, !.failed = FALSE]
  <2>2. tracker[x].count > 0
    BY <1>2, <2>1, TimesAssumption DEF Ripe, Entry
  <2>3. e \in Entry /\ h \in History /\ EntryOK(e, h)
    BY <1>1, <2>1, <2>2, EntryActs
  <2>4. tracker' = [tracker EXCEPT ![x] = e] /\ hist' = [hist EXCEPT ![x] = h]
    BY <1>4
  <2> HIDE DEF e, h
  <2> QED
    BY <1>5, <2>3, <2>4 DEF RecInv, TrackerInv
<1>7. RecTypeOK'
  BY <1>3, <1>6, ActionFacts DEF ActedOn, ActionSucceeds, RecInv, RecTypeOK, PassType
<1>8. \A y \in pass.due : tracker'[y] = tracker[y]
  BY <1>1, <1>2, <1>4, <1>5 DEF PassType
<1>9. PassInv'
  BY <1>3, <1>8 DEF RecInv, PassInv
<1> QED
  BY <1>3, <1>6, <1>7, <1>9 DEF RecInv

LEMMA ActionFailsKeeps ==
  ASSUME RecInv, ActionFails PROVE RecInv' /\ pass'.act = None
<1>1. pass \in PassType
  BY DEF RecInv, RecTypeOK, PassType
<1>2. PICK x \in Discrepancy : x = pass.act /\ Ripe(tracker[x])
  BY <1>1 DEF ActionFails, PassType, RecInv, PassInv
<1>3. pass' \in PassType /\ pass'.act = None /\ pass'.due = pass.due /\ ~pass'.stamped
  BY <1>1, ActDone DEF ActionFails
<1>4. recFaults' \in 0..MaxRecFaults
  BY FaultCounts DEF ActionFails, RecInv, RecTypeOK
<1>5. tracker \in [Discrepancy -> Entry] /\ hist \in [Discrepancy -> History]
  BY DEF RecInv, RecTypeOK
<1>6. hist' \in [Discrepancy -> History] /\ TrackerInv'
  <2>1. tracker[x] \in Entry /\ hist[x] \in History /\ EntryOK(tracker[x], hist[x])
    BY <1>5 DEF RecInv, TrackerInv
  <2> DEFINE h == [hist[x] EXCEPT !.failed = TRUE]
  <2>2. h \in History /\ EntryOK(tracker[x], h)
    BY <1>2, <2>1, EntryFails
  <2>3. hist' = [hist EXCEPT ![x] = h] /\ tracker' = tracker
    BY <1>2 DEF ActionFails
  <2> HIDE DEF h
  <2> QED
    BY <1>5, <2>2, <2>3 DEF RecInv, TrackerInv
<1>7. RecTypeOK'
  BY <1>3, <1>4, <1>6 DEF ActionFails, RecInv, RecTypeOK, PassType
<1>8. PassInv'
  BY <1>3 DEF ActionFails, RecInv, PassInv
<1> QED
  BY <1>3, <1>6, <1>7, <1>8 DEF RecInv

LEMMA ControlPlaneRestartKeeps ==
  ASSUME RecInv, ControlPlaneRestart PROVE RecInv' /\ pass'.act = None
<1>1. recFaults' \in 0..MaxRecFaults
  BY FaultCounts DEF ControlPlaneRestart, RecInv
<1>2. tracker' \in [Discrepancy -> Entry] /\ pass' = NoPass
  BY NoEntryOK DEF ControlPlaneRestart
<1>3. ASSUME NEW x \in Discrepancy
      PROVE  hist'[x] \in History /\ EntryOK(tracker'[x], hist'[x])
  <2>1. hist[x] \in History
    BY DEF RecInv, RecTypeOK
  <2>2. tracker'[x] = NoEntry /\ hist'[x] = [hist[x] EXCEPT !.kept = FALSE, !.failed = FALSE]
    BY DEF ControlPlaneRestart
  <2> QED
    BY <2>1, <2>2, HistoryForgets, NoEntryOK
<1>4. hist' \in [Discrepancy -> History]
  <2>1. hist' = [x \in Discrepancy |-> hist'[x]]
    BY DEF ControlPlaneRestart
  <2> QED
    BY <1>3, <2>1
<1>5. RecTypeOK'
  BY <1>1, <1>2, <1>4, NoPassFacts DEF ControlPlaneRestart, RecInv, RecTypeOK, PassType
<1>6. TrackerInv'
  BY <1>3 DEF TrackerInv
<1>7. PassInv'
  BY <1>2, NoPassFacts DEF PassInv
<1> QED
  BY <1>2, <1>5, <1>6, <1>7, NoPassFacts DEF RecInv

LEMMA RecTickKeeps ==
  ASSUME RecInv, Tick PROVE RecInv' /\ pass'.act = pass.act
<1>1. /\ tracker \in [Discrepancy -> Entry] /\ hist \in [Discrepancy -> History] /\ pass \in PassType
      /\ node \in [Nodes -> NodeRecord]
  BY DEF RecInv, RecTypeOK, PassType, NodeRecord
<1>2. ASSUME NEW x \in Discrepancy
      PROVE  /\ tracker'[x] \in Entry /\ hist'[x] \in History /\ EntryOK(tracker'[x], hist'[x])
             /\ Ripe(tracker[x]) => Ripe(tracker'[x])
  <2>1. tracker[x] \in Entry /\ hist[x] \in History /\ EntryOK(tracker[x], hist[x])
    BY <1>1 DEF RecInv, TrackerInv
  <2>2. hist'[x] = [hist[x] EXCEPT !.ticks = Up(hist[x].ticks, Hysteresis),
                                   !.acted = Up(hist[x].acted, Longest)]
    BY DEF Tick
  <2>3. CASE tracker[x].count = 0
    <3>1. tracker'[x] = NoEntry
      BY <2>3 DEF Tick
    <3>2. ~hist[x].kept /\ ~hist[x].failed /\ ~Ripe(tracker[x])
      BY <2>1, <2>3, TimesAssumption DEF EntryOK, Ripe
    <3>3. hist'[x] \in History /\ ~hist'[x].kept /\ ~hist'[x].failed
      BY <2>1, <2>2, <3>2, HistoryAges
    <3> QED
      BY <3>1, <3>2, <3>3, NoEntryOK
  <2>4. CASE tracker[x].count # 0
    <3>1. tracker'[x] = [tracker[x] EXCEPT !.age = Up(tracker[x].age, Hysteresis),
                                           !.cool = Down(tracker[x].cool, 1)]
      BY <2>4 DEF Tick
    <3>2. PICK e \in Entry, h \in History : e = tracker[x] /\ h = hist[x] /\ EntryOK(e, h)
      BY <2>1
    <3> DEFINE ee == [e EXCEPT !.age = Up(e.age, Hysteresis), !.cool = Down(e.cool, 1)]
               hh == [h EXCEPT !.ticks = Up(h.ticks, Hysteresis), !.acted = Up(h.acted, Longest)]
    <3>3. tracker'[x] = ee /\ hist'[x] = hh
      BY <2>2, <3>1, <3>2
    <3>4. ee \in Entry /\ hh \in History /\ EntryOK(ee, hh) /\ (Ripe(e) => Ripe(ee))
      BY <3>2, EntryAges
    <3> HIDE DEF ee, hh
    <3> QED
      BY <3>2, <3>3, <3>4
  <2> QED
    BY <2>3, <2>4
<1>3. tracker' \in [Discrepancy -> Entry] /\ hist' \in [Discrepancy -> History]
  <2>1. /\ tracker' = [x \in Discrepancy |-> tracker'[x]]
        /\ hist' = [x \in Discrepancy |-> hist'[x]]
    BY DEF Tick
  <2> QED
    BY <1>2, <2>1
<1>4. node' \in [Nodes -> NodeRecord]
  <2>1. NodeTimeout + 1 \in Nat
    BY TimesAssumption
  <2>2. ASSUME NEW n \in Nodes PROVE node'[n] \in NodeRecord
    <3>1. node[n] \in NodeRecord
      BY <1>1
    <3>2. PICK s \in 0..(NodeTimeout + 1) : s = Up(node[n].silence, NodeTimeout + 1)
      BY <2>1, <3>1, UpFacts DEF NodeRecord
    <3>3. [node[n] EXCEPT !.silence = s] \in NodeRecord
      BY <3>1 DEF NodeRecord
    <3>4. node'[n] = [node[n] EXCEPT !.silence = Up(node[n].silence, NodeTimeout + 1)]
      BY DEF Tick
    <3> QED
      BY <3>2, <3>3, <3>4
  <2>3. node' = [n \in Nodes |-> node'[n]]
    BY DEF Tick
  <2> QED
    BY <2>2, <2>3
<1>5. pass' \in PassType /\ pass'.due = pass.due /\ pass'.act = pass.act /\ pass'.stamped = pass.stamped
  <2>1. PICK l \in 0..ActionCooldown :
          l = IF pass.due = {} /\ pass.act = None THEN 0 ELSE Up(pass.late, ActionCooldown)
    BY <1>1, UpFacts, TimesAssumption DEF PassType
  <2>2. pass' = [pass EXCEPT !.late = l]
    BY <2>1 DEF Tick
  <2> QED
    BY <1>1, <2>2 DEF PassType
<1>6. RecTypeOK'
  BY <1>3, <1>4, <1>5 DEF Tick, RecInv, RecTypeOK, PassType, NodeRecord
<1>7. TrackerInv'
  BY <1>2 DEF TrackerInv
<1>8. PassInv'
  BY <1>1, <1>2, <1>5 DEF RecInv, PassInv, PassType
<1> QED
  BY <1>5, <1>6, <1>7, <1>8 DEF RecInv

\* A step of the agents and the operators: the loop's own state is as it was.
LEMMA WorldStep ==
  ASSUME RecInv, RecTypeOK', UNCHANGED <<tracker, pass, hist>> PROVE RecInv'
BY DEF RecInv, TrackerInv, PassInv

LEMMA WorldKeeps ==
  ASSUME RecInv,
         \/ \E n \in Nodes : \/ Heartbeat(n) \/ Recovers(n) \/ GoesIdle(n) \/ Decommission(n)
                             \/ \E p \in {"Crashed", "Off"} : Breaks(n, p)
         \/ \E d \in Deps : OperatorStops(d) \/ TeardownEnds(d) \/ ModelRemoved(d)
  PROVE  /\ RecInv' /\ UNCHANGED pass
         /\ \A d \in Deps : moved'[d] => moved[d] /\ (row[d] = "STOPPED" => row'[d] = "STOPPED")
<1>t. /\ phase \in [Nodes -> Phases] /\ node \in [Nodes -> NodeRecord]
      /\ row \in [Deps -> RowStates]
      /\ moved \in [Deps -> BOOLEAN] /\ tearing \subseteq Deps
  BY DEF RecInv, RecTypeOK, NodeRecord
<1>1. ASSUME NEW n \in Nodes, Heartbeat(n)
      PROVE  RecInv' /\ UNCHANGED <<pass, moved, row>>
  <2>1. [state |-> Reported(n), silence |-> 0] \in NodeRecord
    <3>1. PICK s \in NodeStates : s = Reported(n)
      BY DEF Reported, NodeStates
    <3>2. PICK z \in 0..(NodeTimeout + 1) : z = 0
      BY TimesAssumption
    <3>3. [state |-> s, silence |-> z] \in NodeRecord
      BY DEF NodeRecord
    <3> QED
      BY <3>1, <3>2, <3>3
  <2>2. node' \in [Nodes -> NodeRecord]
    BY <1>1, <1>t, <2>1 DEF Heartbeat
  <2> QED
    BY <1>1, <2>2, WorldStep DEF Heartbeat, RecInv, RecTypeOK, NodeRecord
<1>2. ASSUME NEW n \in Nodes, Recovers(n)
      PROVE  RecInv' /\ UNCHANGED <<pass, moved, row>>
  <2>1. phase' \in [Nodes -> Phases]
    BY <1>2, <1>t DEF Recovers, Phases
  <2> QED
    BY <1>2, <2>1, WorldStep DEF Recovers, RecInv, RecTypeOK
<1>3. ASSUME NEW n \in Nodes, GoesIdle(n)
      PROVE  RecInv' /\ UNCHANGED <<pass, moved, row>>
  <2>1. phase' \in [Nodes -> Phases]
    BY <1>3, <1>t DEF GoesIdle, Phases
  <2>2. stops' \in 0..MaxStops
    BY <1>3, RecBoundsAssumption DEF GoesIdle, RecInv, RecTypeOK
  <2> QED
    BY <1>3, <2>1, <2>2, WorldStep DEF GoesIdle, RecInv, RecTypeOK
<1>4. ASSUME NEW n \in Nodes, Decommission(n)
      PROVE  RecInv' /\ UNCHANGED <<pass, moved, row>>
  <2>1. node[n] \in NodeRecord
    BY <1>t
  <2>2. [node[n] EXCEPT !.state = "DECOMMISSIONED"] \in NodeRecord
    BY <2>1 DEF NodeRecord, NodeStates
  <2>3. node' \in [Nodes -> NodeRecord]
    BY <1>4, <1>t, <2>2 DEF Decommission
  <2>4. recFaults' \in 0..MaxRecFaults
    BY <1>4, FaultCounts DEF Decommission, RecInv
  <2> QED
    BY <1>4, <2>3, <2>4, WorldStep DEF Decommission, RecInv, RecTypeOK, NodeRecord
<1>5. ASSUME NEW n \in Nodes, NEW p \in {"Crashed", "Off"}, Breaks(n, p)
      PROVE  RecInv' /\ UNCHANGED <<pass, moved, row>>
  <2>1. phase' \in [Nodes -> Phases]
    BY <1>5, <1>t DEF Breaks, Phases
  <2>2. recFaults' \in 0..MaxRecFaults
    BY <1>5, FaultCounts DEF Breaks, RecInv
  <2> QED
    BY <1>5, <2>1, <2>2, WorldStep DEF Breaks, RecInv, RecTypeOK
<1>6. ASSUME NEW d \in Deps, OperatorStops(d)
      PROVE  /\ RecInv' /\ UNCHANGED pass
             /\ \A e \in Deps : moved'[e] => moved[e] /\ (row[e] = "STOPPED" => row'[e] = "STOPPED")
  <2>1. row' \in [Deps -> RowStates] /\ moved' \in [Deps -> BOOLEAN] /\ tearing' \subseteq Deps
    BY <1>6, <1>t DEF OperatorStops, RowStates
  <2>2. \A e \in Deps : moved'[e] => moved[e] /\ (row[e] = "STOPPED" => row'[e] = "STOPPED")
    BY <1>6, <1>t DEF OperatorStops
  <2> QED
    BY <1>6, <2>1, <2>2, WorldStep DEF OperatorStops, RecInv, RecTypeOK
<1>8. ASSUME NEW d \in Deps, TeardownEnds(d)
      PROVE  /\ RecInv' /\ UNCHANGED pass
             /\ \A e \in Deps : moved'[e] => moved[e] /\ (row[e] = "STOPPED" => row'[e] = "STOPPED")
  <2>1. row' \in [Deps -> RowStates] /\ phase' \in [Nodes -> Phases] /\ tearing' \subseteq Deps
    BY <1>8, <1>t DEF TeardownEnds, Halted, RowStates, Phases
  <2>2. \A e \in Deps : moved'[e] => moved[e] /\ (row[e] = "STOPPED" => row'[e] = "STOPPED")
    BY <1>8, <1>t DEF TeardownEnds
  <2> QED
    BY <1>8, <2>1, <2>2, WorldStep DEF TeardownEnds, RecInv, RecTypeOK
<1>7. ASSUME NEW d \in Deps, ModelRemoved(d)
      PROVE  RecInv' /\ UNCHANGED <<pass, moved, row>>
  <2>1. recFaults' \in 0..MaxRecFaults
    BY <1>7, FaultCounts DEF ModelRemoved, RecInv
  <2> QED
    BY <1>7, <2>1, WorldStep DEF ModelRemoved, RecInv, RecTypeOK
<1> QED
  BY <1>1, <1>2, <1>3, <1>4, <1>5, <1>6, <1>7, <1>8

LEMMA RecNextKeeps == RecInv /\ [RecNext]_recVars => RecInv'
<1> SUFFICES ASSUME RecInv, [RecNext]_recVars PROVE RecInv'
  OBVIOUS
<1>1. CASE Loop
  BY <1>1, PassBeginKeeps, StampKeeps, ActionSucceedsKeeps, ActionFailsKeeps, DispatchKeeps DEF Loop
<1>2. CASE UNCHANGED recVars
  BY <1>2, WorldStep DEF recVars, RecInv, RecTypeOK
<1> QED
  BY <1>1, <1>2, ControlPlaneRestartKeeps, RecTickKeeps, WorldKeeps DEF RecNext

LEMMA FailoverNextKeeps ==
  ASSUME RecInv, FailoverInv, [RecNext]_recVars PROVE FailoverInv'
<1>t. /\ row \in [Deps -> RowStates] /\ moved \in [Deps -> BOOLEAN] /\ pass \in PassType
  BY DEF RecInv, RecTypeOK, PassType
\* A step that fails no deployment over, revives none and begins no action.
<1>0. ASSUME pass'.act \in {None, pass.act},
             \A d \in Deps : moved'[d] => moved[d] /\ (row[d] = "STOPPED" => row'[d] = "STOPPED")
      PROVE  FailoverInv'
  BY <1>0 DEF FailoverInv
<1>1. CASE PassBegin
  BY <1>0, <1>1, DueFacts DEF PassBegin
<1>2. ASSUME NEW x \in Discrepancy, Dispatch(x) PROVE FailoverInv'
  <2>1. pass'.act = IF NothingToDo(x) THEN None ELSE x
    BY <1>2, DispatchKeeps
  <2>2. moved' = moved /\ row' = row
    BY <1>2 DEF Dispatch
  <2>3. ASSUME NEW d \in Deps, moved[d], pass'.act # None, pass'.act.typ = "node_down", pass'.act.dep = d
        PROVE  FALSE
    BY <2>1, <2>3 DEF FailoverInv, NothingToDo
  <2> QED
    BY <2>2, <2>3 DEF FailoverInv
<1>3. CASE Stamp
  <2>1. pass.act \in Discrepancy
    BY <1>t, <1>3 DEF PassType, Stamp
  <2>2. pass.act.dep \in Deps
    BY <2>1, <1>3, DiscrepancyFacts DEF Stamp
  <2>3. ~moved[pass.act.dep]
    BY <1>3, <2>2 DEF Stamp, FailoverInv
  <2>4. \A d \in Deps : moved[d] => row'[d] = row[d]
    BY <1>t, <1>3, <2>3 DEF Stamp
  <2> QED
    BY <1>0, <1>3, <2>4, StampKeeps DEF Stamp
<1>4. CASE ActionSucceeds
  <2>1. pass'.act = None
    BY <1>4, ActionSucceedsKeeps
  <2>2. PICK d \in Deps : d = pass.act.dep /\ ActedOn(d)
    BY <1>4, ActionFacts
  <2>3. ASSUME NEW e \in Deps, moved'[e] PROVE row'[e] = "STOPPED" /\ HasPlanner
    <3>1. CASE e = d
      BY <2>2, <2>3, <3>1 DEF ActedOn, FailoverInv, RecInv, PassInv
    <3>2. CASE e # d
      BY <2>2, <2>3, <3>2 DEF ActedOn, FailoverInv
    <3> QED
      BY <3>1, <3>2
  <2> QED
    BY <2>1, <2>3 DEF FailoverInv
<1>5. CASE ActionFails
  BY <1>0, <1>5, ActionFailsKeeps DEF ActionFails
<1>6. CASE ControlPlaneRestart
  BY <1>0, <1>6, ControlPlaneRestartKeeps DEF ControlPlaneRestart
<1>7. CASE Tick
  BY <1>0, <1>7, RecTickKeeps DEF Tick
<1>8. CASE \/ \E n \in Nodes : \/ Heartbeat(n) \/ Recovers(n) \/ GoesIdle(n) \/ Decommission(n)
                               \/ \E p \in {"Crashed", "Off"} : Breaks(n, p)
           \/ \E d \in Deps : OperatorStops(d) \/ TeardownEnds(d) \/ ModelRemoved(d)
  BY <1>0, <1>8, WorldKeeps
<1>9. CASE UNCHANGED recVars
  BY <1>0, <1>9 DEF recVars
<1> QED
  BY <1>1, <1>2, <1>3, <1>4, <1>5, <1>6, <1>7, <1>8, <1>9 DEF RecNext, Loop

-----------------------------------------------------------------------------
(***************************************************************************)
(* The theorems                                                            *)
(***************************************************************************)
\* What a pass decides to act on was there for every pass and all the time its
\* tracker counted.
LEMMA HysteresisFromInv == RecInv => HysteresisStep
<1> SUFFICES ASSUME RecInv, PassBegin, NEW x \in pass'.due
             PROVE  hist'[x].passes >= FailureThreshold /\ hist'[x].ticks >= Hysteresis
  BY DEF HysteresisStep
<1>1. x \in Discrepancy /\ tracker'[x].count >= FailureThreshold /\ tracker'[x].age >= Hysteresis
  BY DueFacts DEF Ripe
<1>2. PICK e \in Entry, h \in History : e = tracker'[x] /\ h = hist'[x] /\ EntryOK(e, h)
  BY <1>1, PassEntry
<1> QED
  BY <1>1, <1>2, TimesAssumption DEF EntryOK, Entry, History

\* When a pass acts, and when it has to try again.
SpacingStep ==
    PassBegin => \A x \in Observed :
        /\ x \in pass'.due => hist[x].acted >= IF hist[x].kept THEN ActionCooldown ELSE Hysteresis
        /\ hist[x].failed /\ x.typ \in Automatic => x \in pass'.due

LEMMA SpacingFromInv == RecInv => SpacingStep
<1> SUFFICES ASSUME RecInv, PassBegin, NEW x \in Observed
             PROVE  /\ x \in pass'.due =>
                         hist[x].acted >= IF hist[x].kept THEN ActionCooldown ELSE Hysteresis
                    /\ hist[x].failed /\ x.typ \in Automatic => x \in pass'.due
  BY DEF SpacingStep
<1>0. x \in Discrepancy
  BY DEF Observed, Discrepancy, Active
<1>1. PICK e \in Entry, h \in History : e = tracker[x] /\ h = hist[x] /\ EntryOK(e, h)
  BY <1>0 DEF RecInv, RecTypeOK, TrackerInv
<1>2. ASSUME x \in pass'.due
      PROVE  hist[x].acted >= IF hist[x].kept THEN ActionCooldown ELSE Hysteresis
  <2>1. tracker[x].age >= Hysteresis /\ tracker[x].cool = 0
    BY <1>0, <1>2, DueFacts, PassEntry DEF Ripe
  <2> QED
    BY <1>1, <2>1, TimesAssumption, LongestFacts DEF EntryOK, Entry, History
<1>3. ASSUME hist[x].failed, x.typ \in Automatic PROVE x \in pass'.due
  <2>1. Ripe(tracker[x])
    BY <1>1, <1>3 DEF EntryOK
  <2>2. Ripe(Tracked[x])
    BY <1>0, <2>1, PassEntry DEF PassBegin
  <2>3. \A t : Ripe(t[x]) => x \in Due(t)
    BY <1>3 DEF Due, Ripe
  <2> QED
    BY <2>2, <2>3, DueFacts
<1> QED
  BY <1>2, <1>3

\* The loop's own bookkeeping never runs ahead of what happened: a tracker's entry counts
\* no pass and no time its discrepancy was not there for (Reconcile's discState).
THEOREM RecInvariance == RecSpec => []RecInv
<1> QED
  BY RecInitKeeps, RecNextKeeps, PTL DEF RecSpec

\* An automatic action is taken only on a discrepancy that lasted the passes and the time
\* its policy asks for (Reconcile, eligible).
THEOREM LoopWaits == RecSpec => HysteresisHolds
<1>1. RecInv => [HysteresisStep]_recVars
  BY HysteresisFromInv
<1> QED
  BY <1>1, RecInvariance, PTL DEF HysteresisHolds

\* An action that succeeded is repeated only a cooldown after the pass that took it, as
\* long as the tracker remembers it, and only a dwell time after it otherwise; one that
\* failed is tried again by the next pass that still sees the discrepancy (Reconcile,
\* cooling: lastActed is the time the pass began, and a healed entry is deleted with it).
THEOREM LoopSpacesActions == RecSpec => ActionsSpaced
<1>1. RecInv => [SpacingStep]_recVars
  BY SpacingFromInv
<1>2. RecSpec => [][SpacingStep]_recVars
  BY <1>1, RecInvariance, PTL
<1> QED
  BY <1>2 DEF ActionsSpaced, SpacingStep

\* A failover is of a deployment that was not failed over yet, or was put back since: the
\* loop loads the row again and its actions do not overlap (handleNodeDown,
\* failoverIsTerminal).
LEMMA FailoverFromInv == RecInv /\ FailoverInv => FailoverStep
<1> SUFFICES ASSUME RecInv, FailoverInv, ActionSucceeds, pass.act.typ = "node_down"
             PROVE  ~moved[pass.act.dep]
  BY DEF FailoverStep
<1>1. pass.act # None /\ pass.act.dep \in Deps
  BY ActionFacts DEF ActionSucceeds
<1> QED
  BY <1>1 DEF FailoverInv
=============================================================================
