------------------------- MODULE OrchestratorProofs -------------------------
(***************************************************************************)
(* Theorems about Orchestrator, for any fleet, set of plans and number of  *)
(* concurrent calls, overlapping or not, with any number of faults.        *)
(***************************************************************************)
EXTENDS Orchestrator, TLAPS, SequenceTheorems

(***************************************************************************)
(* The inductive invariant.  ready[d] says how far Apply got with d, and a *)
(* copy of d's engines held by any call is, depending on it, empty, a full *)
(* placement, or a leftover of a rollout that failed and can no longer     *)
(* become ACTIVE.                                                          *)
(***************************************************************************)

\* What a row says, given how far Apply got with it.
GoodRow(r, k) ==
    /\ k <= Len(Roster(r.plan))
    /\ r.engines # <<>> /\ k = Len(Roster(r.plan)) => Placed(r.plan, r.engines, r.host)
    /\ r.state = "ACTIVE" => k = Len(Roster(r.plan)) /\ r.engines # <<>>
    /\ r.state = "FAILED" => k # Len(Roster(r.plan))

\* What a call in progress on a deployment with plan p holds, by its kind.
GoodApply(c, p, k) ==
    /\ c.pc \in {"start", "wait", "persist", "publish", "stop"}
    /\ Len(c.refs) = k
    /\ Matches(p, c.refs)
    /\ c.pc \in {"start", "wait", "stop"} => k # Len(Roster(p))
    /\ c.pc \in {"persist", "publish"} => k = Len(Roster(p)) /\ c.host = p.host

GoodTeardown(c, p, k) ==
    /\ c.pc \in {"get", "mark", "stop", "done"}
    /\ c.pc = "get" => c.refs = <<>>
    /\ c.old = 0
    /\ c.refs # <<>> /\ k = Len(Roster(p)) => Placed(p, c.refs, c.host)

GoodRestart(c, p, k) ==
    /\ c.pc \in {"get", "start", "wait", "persist"}
    /\ c.node \in Nodes
    /\ c.old = 0
    /\ k = Len(Roster(p))
    /\ c.pc # "get" => /\ Placed(p, c.refs, c.host)
                       /\ \E j \in DOMAIN c.refs : c.refs[j].node = c.node

GoodCall(c, p, k) ==
    /\ c.kind = "apply" => GoodApply(c, p, k)
    /\ c.kind = "teardown" => GoodTeardown(c, p, k)
    /\ c.kind = "restart" => GoodRestart(c, p, k)
    /\ c.left <= Len(c.refs)
    /\ c.pc = "get" => c.left = 0

RowInv ==
    /\ Len(ready) = Len(rows)
    /\ \A d \in 1..Len(rows) : GoodRow(rows[d], ready[d])

CallInv ==
    \A o \in Ops :
        \/ op[o] = NoCall
        \/ /\ op[o].kind # "none"
           /\ op[o].dep \in 1..Len(rows)
           /\ op[o].old \in 0..Len(rows)
           /\ GoodCall(op[o], rows[op[o].dep].plan, ready[op[o].dep])

\* Each deployment is rolled out by one Apply.
Unique ==
    \A o1, o2 \in Ops : /\ op[o1].kind = "apply" /\ op[o2].kind = "apply"
                        /\ op[o1].dep = op[o2].dep
                        => o1 = o2

\* While Apply is still starting engines nobody has a non-empty copy.
Starting(c) == c.kind = "apply" /\ c.pc \in {"start", "wait"}

Untouched ==
    \A o \in Ops : Starting(op[o]) =>
        /\ rows[op[o].dep].engines = <<>>
        /\ rows[op[o].dep].state # "FAILED"
        /\ \A o2 \in Ops : op[o2].kind = "teardown" /\ op[o2].dep = op[o].dep
                           => op[o2].refs = <<>>

LiveInv == \A e \in live : e.dep \in 1..Len(rows)

IInv ==
    /\ TypeOK /\ RowInv /\ CallInv /\ Unique /\ Untouched
    /\ LiveInv /\ HostAfterWorkers /\ RouteIsServable

-----------------------------------------------------------------------------
(***************************************************************************)
(* Lemmas                                                                  *)
(***************************************************************************)
\* A plan has a host and workers that are agents, so its roster is a non-empty
\* sequence of agents that ends with the host.
LEMMA RosterFacts ==
    ASSUME NEW p \in Plans
    PROVE  /\ Roster(p) \in Seq(Nodes)
           /\ Len(Roster(p)) = Len(p.workers) + 1
           /\ Len(p.workers) \in Nat
           /\ p.model \in Models /\ p.host \in Nodes
           /\ \A i \in 1..Len(Roster(p)) : Roster(p)[i] \in Nodes
           /\ \A i \in Nat : RoleAt(p, i) \in Roles
  <1>1. p \in [model: Models, workers: Seq(Nodes), host: Nodes]
    BY PlansAssumption
  <1> QED
    BY <1>1 DEF Roster, RoleAt, Roles

\* What a step of call o that leaves it with record c may do to the rows: plans
\* stay, every row stays good, and a row whose rollout is still starting engines
\* stays empty.
RowsKept ==
    /\ rows' \in Seq(Row) /\ Len(rows') = Len(rows)
    /\ \A d \in 1..Len(rows) :
        /\ rows'[d].plan = rows[d].plan
        /\ GoodRow(rows'[d], ready[d])
        /\ (\E o \in Ops : Starting(op[o]) /\ op[o].dep = d)
             => rows'[d].engines = <<>> /\ rows'[d].state # "FAILED"

\* What such a step may make of the call itself.
CallKept(o, c) ==
    /\ \/ c = NoCall
       \/ /\ c.kind # "none"
          /\ c.dep \in 1..Len(rows) /\ c.old \in 0..Len(rows)
          /\ GoodCall(c, rows[c.dep].plan, ready[c.dep])
    /\ c.kind = "apply" => op[o].kind = "apply" /\ op[o].dep = c.dep
    /\ Starting(c) => Starting(op[o])
    /\ c.kind = "teardown" => \/ c.refs = <<>>
                              \/ c.refs = rows[c.dep].engines
                              \/ op[o].kind = "teardown" /\ c.dep = op[o].dep /\ c.refs = op[o].refs

\* A step of one call that keeps rows and call as above keeps the invariant's
\* conjuncts about rows and calls.
LEMMA CallStep ==
    ASSUME IInv, NEW o \in Ops, NEW c \in Call,
           op' = [op EXCEPT ![o] = c], ready' = ready, RowsKept, CallKept(o, c)
    PROVE  op' \in [Ops -> Call] /\ RowInv' /\ CallInv' /\ Unique' /\ Untouched'
  <1>1. op \in [Ops -> Call] /\ rows \in Seq(Row)
    BY DEF IInv, TypeOK
  <1>2. /\ op' \in [Ops -> Call]
        /\ op'[o] = c
        /\ \A x \in Ops : x # o => op'[x] = op[x]
    BY <1>1
  <1>3. RowInv'
    BY DEF IInv, RowInv, RowsKept
  <1>4. CallInv'
    <2>1. c = NoCall \/ /\ c.kind # "none"
                        /\ c.dep \in 1..Len(rows) /\ c.old \in 0..Len(rows)
                        /\ GoodCall(c, rows[c.dep].plan, ready[c.dep])
      BY DEF CallKept
    <2>2. \A d \in 1..Len(rows) : rows'[d].plan = rows[d].plan
      BY DEF RowsKept
    <2>3. Len(rows') = Len(rows)
      BY DEF RowsKept
    <2> QED
      BY <1>2, <2>1, <2>2, <2>3 DEF IInv, CallInv
  <1>5. Unique'
    BY <1>2 DEF IInv, Unique, CallKept
  <1>6. Untouched'
    <2> SUFFICES ASSUME NEW x \in Ops, Starting(op'[x])
                 PROVE  /\ rows'[op'[x].dep].engines = <<>>
                        /\ rows'[op'[x].dep].state # "FAILED"
                        /\ \A y \in Ops : op'[y].kind = "teardown" /\ op'[y].dep = op'[x].dep
                                            => op'[y].refs = <<>>
      BY DEF Untouched, Starting
    <2>1. Starting(op[x]) /\ op[x].dep = op'[x].dep
      BY <1>2 DEF CallKept, Starting
    <2>2. op[x].dep \in 1..Len(rows)
      BY <2>1 DEF IInv, CallInv, Starting, NoCall
    <2>3. /\ rows'[op[x].dep].engines = <<>>
          /\ rows'[op[x].dep].state # "FAILED"
      BY <2>1, <2>2 DEF RowsKept
    <2>4. /\ rows[op[x].dep].engines = <<>>
          /\ \A y \in Ops : op[y].kind = "teardown" /\ op[y].dep = op[x].dep => op[y].refs = <<>>
      BY <2>1 DEF IInv, Untouched
    <2>5. \A y \in Ops : op'[y].kind = "teardown" /\ op'[y].dep = op'[x].dep => op'[y].refs = <<>>
      BY <1>2, <2>1, <2>4 DEF CallKept
    <2> QED
      BY <2>1, <2>3, <2>5
  <1> QED
    BY <1>2, <1>3, <1>4, <1>5, <1>6

\* Rows that do not change are kept.
LEMMA SameRows ==
    ASSUME IInv, rows' = rows
    PROVE  RowsKept
  BY DEF IInv, TypeOK, RowInv, Untouched, RowsKept

\* What the invariant says of a call in progress and of its deployment.
LEMMA InProgress ==
    ASSUME IInv, NEW o \in Ops, op[o].pc # "idle"
    PROVE  /\ op[o] \in Call /\ op[o].kind # "none"
           /\ op[o].dep \in 1..Len(rows) /\ op[o].old \in 0..Len(rows)
           /\ rows[op[o].dep] \in Row
           /\ rows[op[o].dep].plan \in Plans
           /\ ready[op[o].dep] \in Nat
           /\ GoodRow(rows[op[o].dep], ready[op[o].dep])
           /\ GoodCall(op[o], rows[op[o].dep].plan, ready[op[o].dep])
  <1>1. op[o] \in Call /\ rows \in Seq(Row) /\ ready \in Seq(Nat)
    BY DEF IInv, TypeOK
  <1>2. /\ op[o].kind # "none"
        /\ op[o].dep \in 1..Len(rows) /\ op[o].old \in 0..Len(rows)
        /\ GoodCall(op[o], rows[op[o].dep].plan, ready[op[o].dep])
    BY DEF IInv, CallInv, NoCall
  <1>3. Len(ready) = Len(rows) /\ GoodRow(rows[op[o].dep], ready[op[o].dep])
    BY <1>2 DEF IInv, RowInv
  <1>4. rows[op[o].dep] \in Row /\ ready[op[o].dep] \in Nat
    BY <1>1, <1>2, <1>3
  <1> QED
    BY <1>1, <1>2, <1>3, <1>4 DEF Row

\* A call that has ended is a legal call record.
LEMMA NoCallFacts ==
    /\ NoCall \in Call /\ NoCall.kind = "none" /\ NoCall.dep = 0 /\ NoCall.old = 0
    /\ NoCall.refs = <<>> /\ NoCall.left = 0
  <1>1. <<>> \in Seq(EngineRef)
    OBVIOUS
  <1> QED
    BY <1>1 DEF NoCall, Call

\* Engines that only disappear, and routes that do not change, keep what the
\* invariant says of them when the rows are kept.
LEMMA EnvKept ==
    ASSUME IInv, RowsKept, ready' = ready
    PROVE  /\ live' \subseteq live => LiveInv' /\ HostAfterWorkers' /\ live' \subseteq Engine
           /\ gw' = gw => RouteIsServable'
  <1>1. ASSUME live' \subseteq live
        PROVE  LiveInv' /\ HostAfterWorkers' /\ live' \subseteq Engine
    BY <1>1 DEF IInv, TypeOK, LiveInv, HostAfterWorkers, RowsKept, PlanOf
  <1>2. ASSUME gw' = gw
        PROVE  RouteIsServable'
    <2> SUFFICES ASSUME NEW m \in Models, gw[m] # NoRoute
                 PROVE  LET d == gw[m].dep IN
                        /\ d \in DOMAIN rows'
                        /\ rows'[d].plan.model = m
                        /\ gw[m].host = rows'[d].plan.host
                        /\ ready[d] = Len(Roster(rows'[d].plan))
      BY <1>2 DEF RouteIsServable, PlanOf, AllReady
    <2>1. LET d == gw[m].dep IN
          /\ d \in DOMAIN rows
          /\ rows[d].plan.model = m
          /\ gw[m].host = rows[d].plan.host
          /\ ready[d] = Len(Roster(rows[d].plan))
      BY DEF IInv, RouteIsServable, PlanOf, AllReady
    <2>2. rows \in Seq(Row) /\ rows' \in Seq(Row) /\ Len(rows') = Len(rows)
      BY DEF IInv, TypeOK, RowsKept
    <2>3. DOMAIN rows = 1..Len(rows) /\ DOMAIN rows' = 1..Len(rows)
      BY <2>2
    <2> QED
      BY <2>1, <2>3 DEF RowsKept
  <1> QED
    BY <1>1, <1>2

\* persist() of a good row keeps the rows, if nobody is still starting engines
\* of that deployment or the row written is that of a fresh deployment.
LEMMA PersistKeeps ==
    ASSUME IInv, NEW o \in Ops, NEW d \in 1..Len(rows),
           NEW state \in States, NEW engines \in Seq(EngineRef),
           NEW host \in Nodes \cup {NoNode},
           GoodRow([state |-> state, plan |-> rows[d].plan,
                    engines |-> engines, host |-> host], ready[d]),
           \/ \A x \in Ops : ~(Starting(op[x]) /\ op[x].dep = d)
           \/ engines = <<>> /\ state # "FAILED",
           Persist(o, d, state, engines, host)
    PROVE  RowsKept /\ faults' \in 0..MaxFaults
  <1>1. rows \in Seq(Row) /\ faults \in 0..MaxFaults /\ MaxFaults \in Nat
    BY BoundsAssumption DEF IInv, TypeOK
  <1>2. faults' \in 0..MaxFaults
    BY <1>1 DEF Persist, CallOK, CallLost, Fault
  <1>3. CASE rows' = rows
    BY <1>2, <1>3, SameRows
  <1>4. CASE rows' = [rows EXCEPT ![d] = [state |-> state, plan |-> rows[d].plan,
                                           engines |-> engines, host |-> host]]
    <2> DEFINE r == [state |-> state, plan |-> rows[d].plan,
                     engines |-> engines, host |-> host]
    <2>1. rows[d] \in Row
      BY <1>1
    <2>2. r \in Row
      BY <2>1 DEF Row
    <2>3. /\ rows' \in Seq(Row) /\ Len(rows') = Len(rows)
          /\ rows'[d] = r
          /\ \A x \in 1..Len(rows) : x # d => rows'[x] = rows[x]
      BY <1>1, <1>4, <2>2
    <2>4. \A x \in 1..Len(rows) : rows'[x].plan = rows[x].plan /\ GoodRow(rows'[x], ready[x])
      BY <2>3 DEF IInv, RowInv
    <2>5. ASSUME NEW x \in 1..Len(rows), NEW y \in Ops, Starting(op[y]), op[y].dep = x
          PROVE  rows'[x].engines = <<>> /\ rows'[x].state # "FAILED"
      BY <2>3, <2>5 DEF IInv, Untouched
    <2> QED
      BY <1>2, <2>3, <2>4, <2>5 DEF RowsKept
  <1> QED
    BY <1>3, <1>4 DEF Persist

-----------------------------------------------------------------------------
(***************************************************************************)
(* Every action preserves the invariant.                                   *)
(***************************************************************************)
\* A step of call o that keeps rows and routes, and at most removes engines, needs
\* only its new call record to be good.
LEMMA QuietStep ==
    ASSUME IInv, NEW o \in Ops, NEW c \in Call,
           op' = [op EXCEPT ![o] = c], ready' = ready, RowsKept, CallKept(o, c),
           gw' = gw, live' \subseteq live, cur' \in [Nodes -> Nat], next' = next,
           calls' \in 0..MaxCalls, faults' \in 0..MaxFaults
    PROVE  IInv'
  <1>1. op' \in [Ops -> Call] /\ RowInv' /\ CallInv' /\ Unique' /\ Untouched'
    BY CallStep
  <1>2. LiveInv' /\ HostAfterWorkers' /\ live' \subseteq Engine /\ RouteIsServable'
    BY EnvKept
  <1>3. TypeOK'
    BY <1>1, <1>2 DEF IInv, TypeOK, RowsKept
  <1> QED
    BY <1>1, <1>2, <1>3 DEF IInv

\* A call that ends keeps the invariant.
LEMMA CallEnds ==
    ASSUME NEW o \in Ops
    PROVE  CallKept(o, NoCall)
  BY NoCallFacts DEF CallKept, Starting

\* An Apply that fails before it has seen every engine READY rolls back; a
\* RestartEngine that fails ends.
LEMMA AbortKeeps ==
    ASSUME IInv, NEW o \in Ops, op[o].pc \in {"start", "wait"}, Abort(o)
    PROVE  \E c \in Call : op' = [op EXCEPT ![o] = c] /\ CallKept(o, c)
  <1> DEFINE b == [op[o] EXCEPT !.pc = "stop", !.left = Len(op[o].refs), !.handle = 0]
  <1>1. /\ op[o] \in Call /\ op[o].dep \in 1..Len(rows) /\ op[o].old \in 0..Len(rows)
        /\ GoodCall(op[o], rows[op[o].dep].plan, ready[op[o].dep])
    BY InProgress
  <1>2. CASE op[o].kind = "apply"
    <2>1. Len(op[o].refs) \in Nat
      BY <1>1 DEF Call
    <2>2. /\ b \in Call /\ b.kind = op[o].kind /\ b.dep = op[o].dep /\ b.old = op[o].old
          /\ b.refs = op[o].refs /\ b.pc = "stop" /\ b.left = Len(op[o].refs)
      BY <1>1, <2>1 DEF Call
    <2>3. GoodCall(b, rows[b.dep].plan, ready[b.dep])
      <3> HIDE DEF b
      <3> QED
        BY <1>1, <1>2, <2>1, <2>2 DEF GoodCall, GoodApply
    <2>4. CallKept(o, b)
      <3> HIDE DEF b
      <3> QED
        BY <1>1, <1>2, <2>2, <2>3 DEF CallKept, Starting
    <2> QED
      BY <1>2, <2>2, <2>4 DEF Abort
  <1>3. CASE op[o].kind # "apply"
    BY <1>3, NoCallFacts, CallEnds DEF Abort
  <1> QED
    BY <1>2, <1>3

\* An agent that does not answer, or a cancelled call, only turns the call round.
LEMMA StartRefusedKeeps ==
    ASSUME IInv, NEW o \in Ops, StartRefused(o)
    PROVE  IInv'
  <1>1. PICK c \in Call : op' = [op EXCEPT ![o] = c] /\ CallKept(o, c)
    BY AbortKeeps DEF StartRefused
  <1>2. RowsKept
    BY SameRows DEF StartRefused
  <1> QED
    BY <1>1, <1>2, QuietStep DEF StartRefused, IInv, TypeOK

\* An engine that does not get READY may die, and turns the call round.
LEMMA EngineNotReadyKeeps ==
    ASSUME IInv, NEW o \in Ops, EngineNotReady(o)
    PROVE  IInv'
  <1>1. PICK c \in Call : op' = [op EXCEPT ![o] = c] /\ CallKept(o, c)
    BY AbortKeeps DEF EngineNotReady
  <1>2. RowsKept
    BY SameRows DEF EngineNotReady
  <1>3. live' \subseteq live
    BY DEF EngineNotReady
  <1> QED
    BY <1>1, <1>2, <1>3, QuietStep DEF EngineNotReady, IInv, TypeOK

\* rollback() stops engines and touches no row.
LEMMA StopNextKeeps ==
    ASSUME IInv, NEW o \in Ops, StopNext(o)
    PROVE  IInv'
  <1> DEFINE c == [op[o] EXCEPT !.left = op[o].left - 1]
  <1>1. /\ op[o] \in Call /\ op[o].dep \in 1..Len(rows) /\ op[o].old \in 0..Len(rows)
        /\ GoodCall(op[o], rows[op[o].dep].plan, ready[op[o].dep])
        /\ op[o].kind # "none"
    BY InProgress DEF StopNext
  <1>2. op[o].pc = "stop" /\ op[o].left > 0 /\ op' = [op EXCEPT ![o] = c]
    BY <1>1 DEF StopNext
  <1>3. op[o].left - 1 \in Nat /\ op[o].left - 1 <= op[o].left
    BY <1>1, <1>2 DEF Call
  <1>4. /\ c \in Call /\ c.kind = op[o].kind /\ c.dep = op[o].dep /\ c.old = op[o].old
        /\ c.refs = op[o].refs /\ c.pc = op[o].pc /\ c.left = op[o].left - 1
        /\ c.host = op[o].host /\ c.node = op[o].node
    BY <1>1, <1>3 DEF Call
  <1>5. CallKept(o, c)
    <2> HIDE DEF c
    <2>1. GoodCall(c, rows[c.dep].plan, ready[c.dep])
      <3>1. c.left <= Len(c.refs)
        BY <1>1, <1>3, <1>4 DEF Call, GoodCall
      <3> QED
        BY <1>1, <1>2, <1>4, <3>1 DEF GoodCall, GoodApply, GoodTeardown, GoodRestart
    <2> QED
      BY <1>1, <1>2, <1>4, <2>1 DEF CallKept, Starting
  <1>6. /\ live' \subseteq live /\ cur' \in [Nodes -> Nat] /\ faults' \in 0..MaxFaults
    BY BoundsAssumption DEF StopNext, AgentStop, Fault, IInv, TypeOK
  <1>7. RowsKept
    BY SameRows DEF StopNext
  <1> HIDE DEF c
  <1> QED
    BY <1>2, <1>4, <1>5, <1>6, <1>7, QuietStep DEF StopNext, IInv, TypeOK

\* A cancelled request leaves everything but the call's context alone.
LEMMA CancelKeeps ==
    ASSUME IInv, NEW o \in Ops, Cancel(o)
    PROVE  IInv'
  <1> DEFINE c == [op[o] EXCEPT !.ctx = FALSE]
  <1>1. op[o] \in Call /\ op[o] # NoCall
    BY DEF Cancel, Idle, IInv, TypeOK, NoCall
  <1>2. /\ op[o].kind # "none"
        /\ op[o].dep \in 1..Len(rows) /\ op[o].old \in 0..Len(rows)
        /\ GoodCall(op[o], rows[op[o].dep].plan, ready[op[o].dep])
    BY <1>1 DEF IInv, CallInv
  <1>3. /\ c \in Call /\ c.kind = op[o].kind /\ c.dep = op[o].dep /\ c.old = op[o].old
        /\ c.refs = op[o].refs /\ c.pc = op[o].pc /\ c.left = op[o].left
        /\ c.host = op[o].host /\ c.node = op[o].node
    BY <1>1 DEF Call
  <1>4. op' = [op EXCEPT ![o] = c]
    BY DEF Cancel
  <1> HIDE DEF c
  <1>5. CallKept(o, c)
    <2>1. GoodCall(c, rows[c.dep].plan, ready[c.dep])
      BY <1>2, <1>3 DEF GoodCall, GoodApply, GoodTeardown, GoodRestart
    <2> QED
      BY <1>2, <1>3, <2>1 DEF CallKept, Starting
  <1>6. RowsKept
    BY SameRows DEF Cancel
  <1>7. faults' \in 0..MaxFaults
    BY BoundsAssumption DEF Cancel, Fault, IInv, TypeOK
  <1> QED
    BY <1>3, <1>4, <1>5, <1>6, <1>7, QuietStep DEF Cancel, IInv, TypeOK

\* Nobody is still starting engines of a deployment that Apply has seen complete
\* or that this very Apply is no longer starting engines for.
LEMMA NotStarting ==
    ASSUME IInv, NEW o \in Ops, op[o].pc # "idle",
           \/ op[o].kind = "apply" /\ ~Starting(op[o])
           \/ op[o].kind = "restart"
    PROVE  \A x \in Ops : ~(Starting(op[x]) /\ op[x].dep = op[o].dep)
  <1> SUFFICES ASSUME NEW x \in Ops, Starting(op[x]), op[x].dep = op[o].dep
               PROVE  FALSE
    OBVIOUS
  <1>1. CASE op[o].kind = "apply" /\ ~Starting(op[o])
    BY <1>1 DEF IInv, Unique, Starting
  <1>2. CASE op[o].kind = "restart"
    <2>1. ready[op[o].dep] = Len(Roster(rows[op[o].dep].plan))
      BY <1>2, InProgress DEF GoodCall, GoodRestart
    <2>2. op[x].pc # "idle"
      BY DEF Starting
    <2>3. GoodCall(op[x], rows[op[x].dep].plan, ready[op[x].dep])
      BY <2>2, InProgress
    <2> QED
      BY <2>1, <2>3 DEF GoodCall, GoodApply, Starting
  <1> QED
    BY <1>1, <1>2

\* The row an Apply marks FAILED is one it has not seen complete.
LEMMA PersistFailedKeeps ==
    ASSUME IInv, NEW o \in Ops, PersistFailed(o)
    PROVE  IInv'
  <1>1. op[o].kind = "apply" /\ op[o].pc = "stop"
    BY DEF PersistFailed
  <1>2. /\ op[o] \in Call /\ op[o].dep \in 1..Len(rows)
        /\ ready[op[o].dep] # Len(Roster(rows[op[o].dep].plan))
        /\ ready[op[o].dep] <= Len(Roster(rows[op[o].dep].plan))
    BY <1>1, InProgress DEF GoodCall, GoodApply, GoodRow
  <1>3. GoodRow([state |-> "FAILED", plan |-> rows[op[o].dep].plan,
                 engines |-> op[o].refs, host |-> NoNode], ready[op[o].dep])
    BY <1>2 DEF GoodRow
  <1>4. \A x \in Ops : ~(Starting(op[x]) /\ op[x].dep = op[o].dep)
    BY <1>1, NotStarting DEF Starting
  <1>5. /\ op[o].refs \in Seq(EngineRef)
        /\ Persist(o, op[o].dep, "FAILED", op[o].refs, NoNode)
    BY <1>2 DEF PersistFailed, Call
  <1>6. RowsKept /\ faults' \in 0..MaxFaults
    BY <1>2, <1>3, <1>4, <1>5, PersistKeeps DEF States
  <1>7. op' = [op EXCEPT ![o] = NoCall]
    BY DEF PersistFailed
  <1> QED
    BY <1>6, <1>7, NoCallFacts, CallEnds, QuietStep DEF PersistFailed, IInv, TypeOK

\* Apply and RestartEngine write ACTIVE only with a complete placement.
LEMMA PersistActiveKeeps ==
    ASSUME IInv, NEW o \in Ops, PersistActive(o)
    PROVE  IInv'
  <1> DEFINE p == rows[op[o].dep].plan
             k == ready[op[o].dep]
             b == [op[o] EXCEPT !.pc = "publish"]
  <1>1. op[o].pc = "persist" /\ Persist(o, op[o].dep, "ACTIVE", op[o].refs, op[o].host)
    BY DEF PersistActive
  <1>2. /\ op[o] \in Call /\ op[o].dep \in 1..Len(rows) /\ op[o].old \in 0..Len(rows)
        /\ GoodCall(op[o], p, k) /\ op[o].kind # "none" /\ p \in Plans
    BY <1>1, InProgress
  <1>3. op[o].kind \in {"apply", "restart"}
    BY <1>1, <1>2 DEF GoodCall, GoodTeardown, Call
  <1>4. k = Len(Roster(p)) /\ Placed(p, op[o].refs, op[o].host)
    BY <1>1, <1>2, <1>3 DEF GoodCall, GoodApply, GoodRestart, Placed
  <1>5. op[o].refs # <<>> /\ op[o].refs \in Seq(EngineRef) /\ op[o].host \in Nodes \cup {NoNode}
    <2>1. Len(Roster(p)) # 0
      BY <1>2, RosterFacts
    <2> QED
      BY <1>2, <1>4, <2>1 DEF Placed, Call
  <1>6. GoodRow([state |-> "ACTIVE", plan |-> p,
                 engines |-> op[o].refs, host |-> op[o].host], k)
    <2>1. Len(Roster(p)) \in Nat
      BY <1>2, RosterFacts
    <2> QED
      BY <1>4, <1>5, <2>1 DEF GoodRow
  <1>7. \A x \in Ops : ~(Starting(op[x]) /\ op[x].dep = op[o].dep)
    BY <1>1, <1>3, NotStarting DEF Starting
  <1>8. RowsKept /\ faults' \in 0..MaxFaults
    BY <1>1, <1>2, <1>5, <1>6, <1>7, PersistKeeps DEF States
  <1>9. /\ b \in Call /\ b.kind = op[o].kind /\ b.dep = op[o].dep /\ b.old = op[o].old
        /\ b.refs = op[o].refs /\ b.pc = "publish" /\ b.left = op[o].left
        /\ b.host = op[o].host
    BY <1>2 DEF Call
  <1> HIDE DEF p, k
  <1>10. ASSUME op[o].kind = "apply"
         PROVE  CallKept(o, b)
    <2> HIDE DEF b
    <2>1. GoodCall(b, p, k)
      BY <1>1, <1>2, <1>9, <1>10 DEF GoodCall, GoodApply
    <2> QED
      BY <1>2, <1>9, <1>10, <2>1 DEF CallKept, Starting, p, k
  <1>11. PICK c \in Call : op' = [op EXCEPT ![o] = c] /\ CallKept(o, c)
    <2>1. op' = [op EXCEPT ![o] = IF op[o].kind = "apply" THEN b ELSE NoCall]
      BY DEF PersistActive
    <2> HIDE DEF b
    <2> QED
      BY <1>9, <1>10, <2>1, NoCallFacts, CallEnds
  <1> QED
    BY <1>8, <1>11, QuietStep DEF PersistActive, IInv, TypeOK

\* What Teardown holds is good for any row it writes that is neither ACTIVE nor
\* FAILED.
LEMMA TeardownWrites ==
    ASSUME IInv, NEW o \in Ops, op[o].kind = "teardown", op[o].pc # "idle",
           NEW state \in States, state \notin {"ACTIVE", "FAILED"},
           Persist(o, op[o].dep, state, op[o].refs, op[o].host)
    PROVE  RowsKept /\ faults' \in 0..MaxFaults
  <1> DEFINE p == rows[op[o].dep].plan
             k == ready[op[o].dep]
  <1>1. /\ op[o] \in Call /\ op[o].dep \in 1..Len(rows)
        /\ GoodCall(op[o], p, k) /\ GoodRow(rows[op[o].dep], k)
    BY InProgress
  <1>2. op[o].refs \in Seq(EngineRef) /\ op[o].host \in Nodes \cup {NoNode}
    BY <1>1 DEF Call
  <1>3. GoodRow([state |-> state, plan |-> p, engines |-> op[o].refs, host |-> op[o].host], k)
    BY <1>1 DEF GoodRow, GoodCall, GoodTeardown
  <1>4. \/ \A x \in Ops : ~(Starting(op[x]) /\ op[x].dep = op[o].dep)
        \/ op[o].refs = <<>> /\ state # "FAILED"
    BY DEF IInv, Untouched
  <1> QED
    BY <1>1, <1>2, <1>3, <1>4, PersistKeeps

\* Teardown writes back the engines it read and goes on to stop them.
LEMMA MarkStoppingKeeps ==
    ASSUME IInv, NEW o \in Ops, MarkStopping(o)
    PROVE  IInv'
  <1> DEFINE b == [op[o] EXCEPT !.pc = "stop", !.left = Len(op[o].refs)]
  <1>1. /\ op[o].pc = "mark" /\ op' = [op EXCEPT ![o] = b]
        /\ Persist(o, op[o].dep, "STOPPING", op[o].refs, op[o].host)
    BY DEF MarkStopping
  <1>2. /\ op[o] \in Call /\ op[o].dep \in 1..Len(rows) /\ op[o].old \in 0..Len(rows)
        /\ GoodCall(op[o], rows[op[o].dep].plan, ready[op[o].dep]) /\ op[o].kind # "none"
    BY <1>1, InProgress
  <1>3. op[o].kind = "teardown"
    BY <1>1, <1>2 DEF GoodCall, GoodApply, GoodRestart, Call
  <1>4. RowsKept /\ faults' \in 0..MaxFaults
    BY <1>1, <1>3, TeardownWrites DEF States
  <1>5. Len(op[o].refs) \in Nat
    BY <1>2 DEF Call
  <1>6. /\ b \in Call /\ b.kind = op[o].kind /\ b.dep = op[o].dep /\ b.old = op[o].old
        /\ b.refs = op[o].refs /\ b.pc = "stop" /\ b.left = Len(op[o].refs)
        /\ b.host = op[o].host
    BY <1>2, <1>5 DEF Call
  <1> HIDE DEF b
  <1>7. GoodCall(b, rows[b.dep].plan, ready[b.dep])
    BY <1>2, <1>3, <1>5, <1>6 DEF GoodCall, GoodTeardown
  <1>8. CallKept(o, b)
    BY <1>2, <1>3, <1>6, <1>7 DEF CallKept, Starting
  <1> QED
    BY <1>1, <1>4, <1>6, <1>8, QuietStep DEF MarkStopping, IInv, TypeOK

\* Teardown's last write.
LEMMA PersistStoppedKeeps ==
    ASSUME IInv, NEW o \in Ops, PersistStopped(o)
    PROVE  IInv'
  <1>1. /\ op[o].pc = "done" /\ op' = [op EXCEPT ![o] = NoCall]
        /\ Persist(o, op[o].dep, "STOPPED", op[o].refs, op[o].host)
    BY DEF PersistStopped
  <1>2. /\ op[o] \in Call /\ op[o].kind # "none"
        /\ GoodCall(op[o], rows[op[o].dep].plan, ready[op[o].dep])
    BY <1>1, InProgress
  <1>3. op[o].kind = "teardown"
    BY <1>1, <1>2 DEF GoodCall, GoodApply, GoodRestart, Call
  <1>4. RowsKept /\ faults' \in 0..MaxFaults
    BY <1>1, <1>3, TeardownWrites DEF States
  <1> QED
    BY <1>1, <1>4, NoCallFacts, CallEnds, QuietStep DEF PersistStopped, IInv, TypeOK

\* The copy Teardown or RestartEngine reads is as good as the row ...
LEMMA GetDeploymentKeeps ==
    ASSUME IInv, NEW o \in Ops, GetDeployment(o)
    PROVE  IInv'
  <1> DEFINE r == rows[op[o].dep]
             k == ready[op[o].dep]
             listed == \E i \in DOMAIN r.engines : r.engines[i].node = op[o].node
             pc == IF op[o].kind = "restart" THEN "start" ELSE "mark"
             b == [op[o] EXCEPT !.refs = r.engines, !.host = r.host, !.pc = pc]
  <1>1. /\ op[o].pc = "get"
        /\ op' = [op EXCEPT ![o] = IF op[o].kind = "restart" /\ ~listed THEN NoCall ELSE b]
        /\ faults' = faults
    BY DEF GetDeployment, CallOK
  <1>2. /\ op[o] \in Call /\ op[o].dep \in 1..Len(rows) /\ op[o].old \in 0..Len(rows)
        /\ GoodCall(op[o], r.plan, k) /\ op[o].kind # "none"
        /\ GoodRow(r, k) /\ r \in Row
    BY <1>1, InProgress
  <1>3. op[o].kind \in {"teardown", "restart"}
    BY <1>1, <1>2 DEF GoodCall, GoodApply, Call
  <1>4. r.engines \in Seq(EngineRef) /\ r.host \in Nodes \cup {NoNode}
    BY <1>2 DEF Row
  <1>5. /\ b \in Call /\ b.kind = op[o].kind /\ b.dep = op[o].dep /\ b.old = op[o].old
        /\ b.refs = r.engines /\ b.pc = pc /\ b.left = op[o].left
        /\ b.host = r.host /\ b.node = op[o].node
    <2>1. pc \in {"start", "mark"}
      OBVIOUS
    <2> HIDE DEF pc, r
    <2> QED
      BY <1>2, <1>4, <2>1 DEF Call
  <1>6. op[o].left = 0 /\ Len(r.engines) \in Nat
    BY <1>1, <1>2, <1>4 DEF GoodCall
  <1> HIDE DEF b, r, k
  <1>7. ASSUME op[o].kind = "restart" => listed
        PROVE  CallKept(o, b)
    <2>1. GoodCall(b, r.plan, k)
      <3>1. CASE op[o].kind = "teardown"
        BY <1>2, <1>5, <1>6, <3>1 DEF GoodCall, GoodTeardown, GoodRow
      <3>2. CASE op[o].kind = "restart"
        <4>1. r.engines # <<>>
          BY <1>7, <3>2
        <4>2. GoodRestart(b, r.plan, k)
          BY <1>2, <1>5, <1>7, <3>2, <4>1 DEF GoodCall, GoodRestart, GoodRow
        <4> QED
          BY <1>5, <1>6, <3>2, <4>2 DEF GoodCall
      <3> QED
        BY <1>3, <3>1, <3>2
    <2> QED
      BY <1>2, <1>3, <1>5, <2>1 DEF CallKept, Starting, r, k
  <1>8. PICK c \in Call : op' = [op EXCEPT ![o] = c] /\ CallKept(o, c)
    BY <1>1, <1>5, <1>7, NoCallFacts, CallEnds
  <1>9. RowsKept
    BY SameRows DEF GetDeployment
  <1> QED
    BY <1>1, <1>8, <1>9, QuietStep DEF GetDeployment, IInv, TypeOK

\* ... and a read that fails ends the call.
LEMMA GetFailsKeeps ==
    ASSUME IInv, NEW o \in Ops, GetFails(o)
    PROVE  IInv'
  <1>1. op' = [op EXCEPT ![o] = NoCall] /\ faults' \in 0..MaxFaults
    BY BoundsAssumption DEF GetFails, CallLost, Fault, IInv, TypeOK
  <1>2. RowsKept
    BY SameRows DEF GetFails
  <1> QED
    BY <1>1, <1>2, NoCallFacts, CallEnds, QuietStep DEF GetFails, IInv, TypeOK

\* A new route keeps the invariant's conjunct about routes when it is no route, or
\* the host of a deployment of that model that Apply saw complete.
LEMMA RouteKeeps ==
    ASSUME IInv, NEW o \in Ops, NEW m \in Models, NEW route \in Route,
           \/ route = NoRoute
           \/ /\ route.dep \in DOMAIN rows
              /\ PlanOf(route.dep).model = m
              /\ route.host = PlanOf(route.dep).host
              /\ AllReady(route.dep),
           SetRoute(o, m, route), rows' = rows, ready' = ready
    PROVE  RouteIsServable' /\ gw' \in [Models -> Route] /\ faults' \in 0..MaxFaults
  <1>1. faults' \in 0..MaxFaults
    BY BoundsAssumption DEF SetRoute, CallOK, CallLost, Fault, IInv, TypeOK
  <1>2. gw \in [Models -> Route] /\ RouteIsServable
    BY DEF IInv, TypeOK
  <1>3. CASE gw' = gw
    BY <1>1, <1>2, <1>3 DEF RouteIsServable, PlanOf, AllReady
  <1>4. CASE gw' = [gw EXCEPT ![m] = route]
    <2>1. gw' \in [Models -> Route] /\ gw'[m] = route /\ \A x \in Models : x # m => gw'[x] = gw[x]
      BY <1>2, <1>4
    <2>2. RouteIsServable'
      BY <1>2, <2>1 DEF RouteIsServable, PlanOf, AllReady
    <2> QED
      BY <1>1, <2>1, <2>2
  <1> QED
    BY <1>3, <1>4 DEF SetRoute

\* As QuietStep, for a step that changes a route and no engine.
LEMMA RouteStep ==
    ASSUME IInv, NEW o \in Ops, NEW c \in Call,
           op' = [op EXCEPT ![o] = c], ready' = ready, rows' = rows, CallKept(o, c),
           RouteIsServable', gw' \in [Models -> Route],
           live' = live, cur' = cur, next' = next,
           calls' = calls, faults' \in 0..MaxFaults
    PROVE  IInv'
  <1>1. RowsKept
    BY SameRows
  <1>2. op' \in [Ops -> Call] /\ RowInv' /\ CallInv' /\ Unique' /\ Untouched'
    BY <1>1, CallStep
  <1>3. LiveInv' /\ HostAfterWorkers'
    BY <1>1, EnvKept
  <1>4. TypeOK'
    BY <1>2 DEF IInv, TypeOK
  <1> QED
    BY <1>2, <1>3, <1>4 DEF IInv

\* Teardown removes whatever route the model has.
LEMMA DeleteRouteKeeps ==
    ASSUME IInv, NEW o \in Ops, DeleteRoute(o)
    PROVE  IInv'
  <1> DEFINE b == [op[o] EXCEPT !.pc = "done"]
  <1>1. /\ op[o].kind = "teardown" /\ op[o].pc = "stop" /\ op' = [op EXCEPT ![o] = b]
        /\ SetRoute(o, PlanOf(op[o].dep).model, NoRoute) /\ rows' = rows /\ ready' = ready
    BY DEF DeleteRoute
  <1>2. /\ op[o] \in Call /\ op[o].dep \in 1..Len(rows) /\ op[o].old \in 0..Len(rows)
        /\ GoodCall(op[o], rows[op[o].dep].plan, ready[op[o].dep])
        /\ rows[op[o].dep].plan \in Plans
    BY <1>1, InProgress
  <1>3. PlanOf(op[o].dep).model \in Models /\ NoRoute \in Route
    BY <1>2, RosterFacts DEF PlanOf, Route, NoRoute
  <1>4. RouteIsServable' /\ gw' \in [Models -> Route] /\ faults' \in 0..MaxFaults
    BY <1>1, <1>3, RouteKeeps
  <1>5. /\ b \in Call /\ b.kind = op[o].kind /\ b.dep = op[o].dep /\ b.old = op[o].old
        /\ b.refs = op[o].refs /\ b.pc = "done" /\ b.left = op[o].left /\ b.host = op[o].host
    BY <1>2 DEF Call
  <1> HIDE DEF b
  <1>6. CallKept(o, b)
    <2>1. GoodCall(b, rows[b.dep].plan, ready[b.dep])
      BY <1>1, <1>2, <1>5 DEF GoodCall, GoodTeardown
    <2> QED
      BY <1>1, <1>2, <1>5, <2>1 DEF CallKept, Starting
  <1> QED
    BY <1>1, <1>4, <1>5, <1>6, RouteStep DEF DeleteRoute

\* The route Apply publishes is that of a deployment it has seen complete.
LEMMA PublishRouteKeeps ==
    ASSUME IInv, NEW o \in Ops, PublishRoute(o)
    PROVE  IInv'
  <1> DEFINE d == op[o].dep
             p == rows[d].plan
             route == [dep |-> d, host |-> op[o].host]
             b == [NoCall EXCEPT !.kind = "teardown", !.pc = "get", !.dep = op[o].old]
  <1>1. /\ op[o].pc = "publish" /\ rows' = rows /\ ready' = ready
        /\ SetRoute(o, PlanOf(d).model, route)
        /\ op' = [op EXCEPT ![o] = IF op[o].old = 0 THEN NoCall ELSE b]
    BY DEF PublishRoute
  <1>2. /\ op[o] \in Call /\ d \in 1..Len(rows) /\ op[o].old \in 0..Len(rows)
        /\ GoodCall(op[o], p, ready[d]) /\ op[o].kind # "none"
        /\ p \in Plans
    BY <1>1, InProgress
  <1>3. op[o].kind = "apply"
    BY <1>1, <1>2 DEF GoodCall, GoodTeardown, GoodRestart, Call
  <1>4. op[o].host = p.host /\ AllReady(d)
    BY <1>1, <1>2, <1>3 DEF GoodCall, GoodApply, AllReady, PlanOf
  <1>5. /\ route \in Route /\ route.dep = d /\ route.host = op[o].host
        /\ PlanOf(d).model \in Models
    BY <1>2, <1>4, RosterFacts DEF Route, PlanOf
  <1>6. d \in DOMAIN rows
    BY <1>2 DEF IInv, TypeOK
  <1>7. RouteIsServable' /\ gw' \in [Models -> Route] /\ faults' \in 0..MaxFaults
    <2> HIDE DEF route
    <2> QED
      BY <1>1, <1>4, <1>5, <1>6, RouteKeeps DEF PlanOf
  <1>8. ASSUME op[o].old # 0
        PROVE  b \in Call /\ CallKept(o, b)
    <2>1. op[o].old \in 1..Len(rows) /\ op[o].old \in Nat /\ Len(rows) \in Nat
      BY <1>2, <1>8 DEF IInv, TypeOK
    <2>2. /\ b \in Call /\ b.kind = "teardown" /\ b.pc = "get" /\ b.dep = op[o].old
          /\ b.refs = <<>> /\ b.left = 0 /\ b.old = 0
      BY <2>1, NoCallFacts DEF Call
    <2>3. GoodCall(b, rows[b.dep].plan, ready[b.dep])
      BY <2>2 DEF GoodCall, GoodTeardown
    <2> QED
      BY <2>1, <2>2, <2>3 DEF CallKept, Starting
  <1>9. PICK c \in Call : op' = [op EXCEPT ![o] = c] /\ CallKept(o, c)
    BY <1>1, <1>8, NoCallFacts, CallEnds
  <1> QED
    BY <1>1, <1>7, <1>9, RouteStep DEF PublishRoute

\* The engine started next is one of the plan's, and it is the host's only when
\* every worker has been READY.
LEMMA NextEngineFacts ==
    ASSUME IInv, NEW o \in Ops, op[o].pc \in {"start", "wait"}
    PROVE  /\ op[o].kind \in {"apply", "restart"}
           /\ NextEngine(o).node \in Nodes /\ NextEngine(o).role \in Roles
           /\ NextEngine(o).role = "host"
                => ready[op[o].dep] >= Len(rows[op[o].dep].plan.workers)
           /\ op[o].kind = "apply" =>
                LET p == rows[op[o].dep].plan IN
                /\ NextEngine(o).node = Roster(p)[Len(op[o].refs) + 1]
                /\ NextEngine(o).role = RoleAt(p, Len(op[o].refs) + 1)
           /\ op[o].kind = "restart" =>
                LET i == CHOOSE j \in DOMAIN op[o].refs : op[o].refs[j].node = op[o].node IN
                /\ i \in 1..Len(op[o].refs)
                /\ NextEngine(o).node = op[o].refs[i].node
                /\ NextEngine(o).role = op[o].refs[i].role
  <1> DEFINE p == rows[op[o].dep].plan
             k == ready[op[o].dep]
  <1>1. /\ op[o] \in Call /\ op[o].kind # "none" /\ p \in Plans /\ k \in Nat
        /\ GoodCall(op[o], p, k) /\ k <= Len(Roster(p))
    BY InProgress DEF GoodRow
  <1>2. op[o].kind \in {"apply", "restart"}
    BY <1>1 DEF GoodCall, GoodTeardown, Call
  <1>3. /\ Len(Roster(p)) = Len(p.workers) + 1 /\ Len(p.workers) \in Nat
        /\ \A i \in 1..Len(Roster(p)) : Roster(p)[i] \in Nodes
        /\ \A i \in Nat : RoleAt(p, i) \in Roles
    BY <1>1, RosterFacts
  <1>4. CASE op[o].kind = "apply"
    <2>1. k # Len(Roster(p)) /\ Len(op[o].refs) = k
      BY <1>1, <1>4 DEF GoodCall, GoodApply
    <2>2. /\ NextEngine(o).node = Roster(p)[k + 1]
          /\ NextEngine(o).role = RoleAt(p, k + 1)
      BY <1>4, <2>1 DEF NextEngine, PlanOf
    <2>3. k + 1 \in 1..Len(Roster(p)) /\ k + 1 \in Nat
      <3> HIDE DEF p, k
      <3> QED
        BY <1>1, <1>3, <2>1
    <2>4. NextEngine(o).role = "host" => k >= Len(p.workers)
      BY <1>1, <1>3, <2>2 DEF RoleAt
    <2> QED
      BY <1>3, <1>4, <2>1, <2>2, <2>3, <2>4
  <1>5. CASE op[o].kind = "restart"
    <2> DEFINE i == CHOOSE j \in DOMAIN op[o].refs : op[o].refs[j].node = op[o].node
    <2>1. /\ k = Len(Roster(p)) /\ op[o].node \in Nodes
          /\ \E j \in DOMAIN op[o].refs : op[o].refs[j].node = op[o].node
      BY <1>1, <1>5 DEF GoodCall, GoodRestart
    <2>2. i \in DOMAIN op[o].refs /\ op[o].refs[i].node = op[o].node
      BY <2>1
    <2>3. /\ NextEngine(o).node = op[o].node
          /\ NextEngine(o).role = op[o].refs[i].role
      BY <1>5 DEF NextEngine
    <2> HIDE DEF i
    <2>4. op[o].refs \in Seq(EngineRef)
      BY <1>1 DEF Call
    <2>5. i \in 1..Len(op[o].refs) /\ op[o].refs[i] \in EngineRef
      BY <2>2, <2>4
    <2>6. op[o].refs[i].role \in Roles
      BY <2>5 DEF EngineRef
    <2>7. k >= Len(p.workers)
      <3> HIDE DEF p, k
      <3> QED
        BY <1>1, <1>3, <2>1
    <2> QED
      BY <1>5, <2>1, <2>2, <2>3, <2>5, <2>6, <2>7 DEF i
  <1> QED
    BY <1>2, <1>4, <1>5

\* A host engine is started only after the workers.
LEMMA StartEngineKeeps ==
    ASSUME IInv, NEW o \in Ops, StartEngine(o)
    PROVE  IInv'
  <1> DEFINE e == NextEngine(o)
             d == op[o].dep
             b == [op[o] EXCEPT !.pc = "wait", !.handle = next + 1]
             new == [node |-> e.node, role |-> e.role, handle |-> next + 1, dep |-> d]
  <1>1. /\ op[o].pc = "start" /\ op' = [op EXCEPT ![o] = b]
        /\ rows' = rows /\ ready' = ready /\ gw' = gw
        /\ next' = next + 1 /\ live' = live \cup {new}
        /\ cur' = [cur EXCEPT ![e.node] = next + 1]
        /\ calls' = calls /\ faults' = faults
    BY DEF StartEngine, AgentStart
  <1>2. /\ op[o] \in Call /\ d \in 1..Len(rows) /\ op[o].old \in 0..Len(rows)
        /\ GoodCall(op[o], rows[d].plan, ready[d]) /\ op[o].kind # "none"
    BY <1>1, InProgress
  <1>3. /\ e.node \in Nodes /\ e.role \in Roles
        /\ op[o].kind \in {"apply", "restart"}
        /\ e.role = "host" => ready[d] >= Len(rows[d].plan.workers)
    BY <1>1, NextEngineFacts
  <1>4. next \in Nat /\ next + 1 \in Nat
    BY DEF IInv, TypeOK
  <1>5. /\ b \in Call /\ b.kind = op[o].kind /\ b.dep = d /\ b.old = op[o].old
        /\ b.refs = op[o].refs /\ b.pc = "wait" /\ b.left = op[o].left
        /\ b.host = op[o].host /\ b.node = op[o].node
    BY <1>2, <1>4 DEF Call
  <1>6. d \in Nat
    BY <1>2 DEF Call
  <1>7. new \in Engine /\ new.dep = d /\ new.role = e.role
    <2> HIDE DEF e, d
    <2> QED
      BY <1>3, <1>4, <1>6 DEF Engine
  <1> HIDE DEF b, e, new
  <1>8. CallKept(o, b)
    <2>1. GoodCall(b, rows[d].plan, ready[d])
      BY <1>1, <1>2, <1>3, <1>5 DEF GoodCall, GoodApply, GoodRestart
    <2> QED
      BY <1>1, <1>2, <1>3, <1>5, <2>1 DEF CallKept, Starting
  <1>9. RowsKept
    BY <1>1, SameRows
  <1>10. op' \in [Ops -> Call] /\ RowInv' /\ CallInv' /\ Unique' /\ Untouched'
    BY <1>1, <1>5, <1>8, <1>9, CallStep
  <1>11. RouteIsServable'
    BY <1>1, <1>9, EnvKept
  <1>12. live' \subseteq Engine /\ LiveInv' /\ HostAfterWorkers'
    BY <1>1, <1>2, <1>3, <1>7 DEF IInv, TypeOK, LiveInv, HostAfterWorkers, PlanOf
  <1>13. TypeOK'
    BY <1>1, <1>3, <1>4, <1>10, <1>12 DEF IInv, TypeOK
  <1> QED
    BY <1>10, <1>11, <1>12, <1>13 DEF IInv

\* READY of an engine RestartEngine started: its reference gets the new handle.
LEMMA RestartReadyKeeps ==
    ASSUME IInv, NEW o \in Ops, EngineReady(o), op[o].kind = "restart"
    PROVE  IInv'
  <1> DEFINE c == op[o]
             p == rows[c.dep].plan
             i == CHOOSE j \in DOMAIN c.refs : c.refs[j].node = c.node
             ref == [node |-> NextEngine(o).node, role |-> NextEngine(o).role,
                     handle |-> c.handle]
             refs == [c.refs EXCEPT ![i] = ref]
             b == [c EXCEPT !.refs = refs, !.handle = 0, !.pc = "persist"]
  <1>1. /\ c.pc = "wait" /\ op' = [op EXCEPT ![o] = b]
        /\ rows' = rows /\ ready' = ready /\ gw' = gw
        /\ live' = live /\ cur' = cur /\ next' = next
        /\ calls' = calls /\ faults' = faults
    BY DEF EngineReady
  <1>2. /\ c \in Call /\ c.dep \in 1..Len(rows) /\ c.old \in 0..Len(rows)
        /\ GoodCall(c, p, ready[c.dep])
    BY <1>1, InProgress
  <1>3. /\ NextEngine(o).node \in Nodes /\ NextEngine(o).role \in Roles
        /\ i \in 1..Len(c.refs)
        /\ NextEngine(o).node = c.refs[i].node /\ NextEngine(o).role = c.refs[i].role
    BY <1>1, NextEngineFacts
  <1>4. c.handle \in Nat /\ c.refs \in Seq(EngineRef)
    BY <1>2 DEF Call
  <1>5. ref \in EngineRef /\ ref.node = c.refs[i].node /\ ref.role = c.refs[i].role
    <2> HIDE DEF i
    <2> QED
      BY <1>3, <1>4 DEF EngineRef
  <1> HIDE DEF i, ref
  <1>6. /\ refs \in Seq(EngineRef) /\ Len(refs) = Len(c.refs)
        /\ \A x \in 1..Len(c.refs) : refs[x].node = c.refs[x].node /\ refs[x].role = c.refs[x].role
    BY <1>3, <1>4, <1>5
  <1> HIDE DEF refs
  <1>7. /\ b \in Call /\ b.kind = c.kind /\ b.dep = c.dep /\ b.old = c.old
        /\ b.refs = refs /\ b.pc = "persist" /\ b.left = c.left
        /\ b.host = c.host /\ b.node = c.node
    BY <1>2, <1>6 DEF Call
  <1> HIDE DEF b, p
  <1>8. GoodCall(b, p, ready[c.dep])
    <2>1. GoodRestart(c, p, ready[c.dep]) /\ c.left <= Len(c.refs)
      BY <1>2 DEF GoodCall
    <2>2. Placed(p, refs, c.host)
      BY <1>1, <1>6, <2>1 DEF GoodRestart, Placed, Matches
    <2>3. \E j \in DOMAIN refs : refs[j].node = c.node
      BY <1>1, <1>4, <1>6, <2>1 DEF GoodRestart
    <2>4. GoodRestart(b, p, ready[c.dep])
      BY <1>7, <2>1, <2>2, <2>3 DEF GoodRestart
    <2> QED
      BY <1>6, <1>7, <2>1, <2>4 DEF GoodCall
  <1>9. CallKept(o, b)
    BY <1>2, <1>7, <1>8 DEF CallKept, Starting, p
  <1>10. RowsKept
    BY <1>1, SameRows
  <1> QED
    BY <1>1, <1>7, <1>9, <1>10, QuietStep DEF IInv, TypeOK

\* READY of an engine Apply started: the rollout is one engine further.
LEMMA ApplyReadyKeeps ==
    ASSUME IInv, NEW o \in Ops, EngineReady(o), op[o].kind = "apply"
    PROVE  IInv'
  <1> DEFINE c == op[o]
             d == c.dep
             p == rows[d].plan
             k == ready[d]
             ref == [node |-> NextEngine(o).node, role |-> NextEngine(o).role,
                     handle |-> c.handle]
             refs == Append(c.refs, ref)
             full == Len(refs) = Len(Roster(p))
             pc == IF full THEN "persist" ELSE "start"
             host == IF full THEN p.host ELSE NoNode
             b == [c EXCEPT !.refs = refs, !.handle = 0, !.pc = pc, !.host = host]
  <1>1. /\ c.pc = "wait" /\ op' = [op EXCEPT ![o] = b]
        /\ ready' = [ready EXCEPT ![d] = Len(refs)]
        /\ rows' = rows /\ gw' = gw
        /\ live' = live /\ cur' = cur /\ next' = next
        /\ calls' = calls /\ faults' = faults
    BY DEF EngineReady, PlanOf
  <1>2. /\ c \in Call /\ d \in 1..Len(rows) /\ c.old \in 0..Len(rows)
        /\ GoodApply(c, p, k) /\ c.left <= Len(c.refs) /\ p \in Plans /\ k \in Nat
        /\ GoodRow(rows[d], k)
    BY <1>1, InProgress DEF GoodCall
  <1>3. /\ NextEngine(o).node \in Nodes /\ NextEngine(o).role \in Roles
        /\ NextEngine(o).node = Roster(p)[Len(c.refs) + 1]
        /\ NextEngine(o).role = RoleAt(p, Len(c.refs) + 1)
    BY <1>1, NextEngineFacts
  <1>4. c.handle \in Nat /\ c.refs \in Seq(EngineRef) /\ c.left \in Nat
    BY <1>2 DEF Call
  <1>5. ref \in EngineRef /\ ref.node = Roster(p)[k + 1] /\ ref.role = RoleAt(p, k + 1)
    BY <1>1, <1>2, <1>3, <1>4 DEF EngineRef, GoodApply
  <1>6. k # Len(Roster(p)) /\ k <= Len(Roster(p)) /\ Len(c.refs) = k /\ Matches(p, c.refs)
    BY <1>1, <1>2 DEF GoodApply, GoodRow
  <1>7. Len(Roster(p)) \in Nat /\ p.host \in Nodes
    BY <1>2, RosterFacts
  <1> HIDE DEF ref, p, k, d
  <1>8. /\ refs \in Seq(EngineRef) /\ Len(refs) = k + 1 /\ refs[k + 1] = ref
        /\ \A x \in 1..k : refs[x] = c.refs[x]
    BY <1>4, <1>5, <1>6
  <1>9. Matches(p, refs)
    <2> HIDE DEF refs
    <2> QED
      BY <1>2, <1>5, <1>6, <1>8 DEF Matches
  <1>10. pc \in {"persist", "start"} /\ host \in Nodes \cup {NoNode}
    BY <1>7
  <1> HIDE DEF refs, pc, host
  <1>11. /\ b \in Call /\ b.kind = c.kind /\ b.dep = d /\ b.old = c.old
         /\ b.refs = refs /\ b.pc = pc /\ b.left = c.left /\ b.host = host
    BY <1>2, <1>8, <1>10 DEF Call, d
  <1> HIDE DEF b
  <1>12. GoodCall(b, p, k + 1)
    <2>1. GoodApply(b, p, k + 1)
      BY <1>7, <1>8, <1>9, <1>11 DEF GoodApply, pc, host
    <2>2. b.left <= Len(b.refs)
      BY <1>2, <1>4, <1>6, <1>8, <1>11
    <2> QED
      BY <1>10, <1>11, <2>1, <2>2 DEF GoodCall
  <1>13. /\ rows \in Seq(Row) /\ ready \in Seq(Nat) /\ Len(ready) = Len(rows)
         /\ op \in [Ops -> Call]
    BY DEF IInv, TypeOK, RowInv
  <1>14. /\ op' \in [Ops -> Call] /\ op'[o] = b
         /\ \A x \in Ops : x # o => op'[x] = op[x]
    BY <1>1, <1>11, <1>13
  <1>15. /\ ready' \in Seq(Nat) /\ Len(ready') = Len(rows) /\ ready'[d] = k + 1
         /\ \A x \in 1..Len(rows) : x # d => ready'[x] = ready[x]
    BY <1>1, <1>2, <1>8, <1>13
  <1>16. /\ rows[d].engines = <<>> /\ rows[d].state # "FAILED"
         /\ \A x \in Ops : op[x].kind = "teardown" /\ op[x].dep = d => op[x].refs = <<>>
    BY <1>1 DEF IInv, Untouched, Starting, d
  <1>17. RowInv'
    <2>1. GoodRow(rows[d], k + 1)
      BY <1>2, <1>6, <1>7, <1>16 DEF GoodRow, p
    <2> QED
      BY <1>1, <1>15, <2>1 DEF IInv, RowInv
  <1>18. CallInv'
    <2> SUFFICES ASSUME NEW x \in Ops, op'[x] # NoCall
                 PROVE  /\ op'[x].kind # "none"
                        /\ op'[x].dep \in 1..Len(rows)
                        /\ op'[x].old \in 0..Len(rows)
                        /\ GoodCall(op'[x], rows[op'[x].dep].plan, ready'[op'[x].dep])
      BY <1>1 DEF CallInv
    <2>1. CASE x = o
      BY <1>2, <1>11, <1>12, <1>14, <1>15, <2>1 DEF d, p
    <2>2. CASE x # o
      <3>1. /\ op[x].kind # "none"
            /\ op[x].dep \in 1..Len(rows)
            /\ op[x].old \in 0..Len(rows)
            /\ GoodCall(op[x], rows[op[x].dep].plan, ready[op[x].dep])
            /\ op'[x] = op[x]
        BY <1>14, <2>2 DEF IInv, CallInv
      <3>2. CASE op[x].dep # d
        BY <1>15, <3>1, <3>2
      <3>3. CASE op[x].dep = d
        <4>1. op[x].kind # "apply"
          BY <2>2, <3>3 DEF IInv, Unique, d
        <4>2. op[x].kind # "restart"
          BY <1>6, <3>1, <3>3 DEF GoodCall, GoodRestart, p, k
        <4>3. GoodCall(op[x], p, k + 1)
          BY <1>16, <3>1, <3>3, <4>1, <4>2 DEF GoodCall, GoodTeardown, p, k
        <4> QED
          BY <1>15, <3>1, <3>3, <4>3 DEF p
      <3> QED
        BY <3>2, <3>3
    <2> QED
      BY <2>1, <2>2
  <1>19. Unique'
    BY <1>11, <1>14 DEF IInv, Unique, d
  <1>20. Untouched'
    BY <1>1, <1>11, <1>14, <1>16 DEF IInv, Untouched, Starting, d
  <1>21. HostAfterWorkers' /\ LiveInv'
    <2>1. \A x \in 1..Len(rows) : ready'[x] >= ready[x] /\ ready[x] \in Nat /\ ready'[x] \in Nat
      <3>1. ready[d] = k /\ \A x \in 1..Len(rows) : ready[x] \in Nat
        BY <1>13 DEF k
      <3> QED
        BY <1>15, <3>1
    <2> SUFFICES ASSUME NEW e \in live, e.role = "host"
                 PROVE  ready'[e.dep] >= Len(rows[e.dep].plan.workers)
      BY <1>1 DEF IInv, LiveInv, HostAfterWorkers, PlanOf
    <2>2. /\ e.dep \in 1..Len(rows) /\ ready[e.dep] >= Len(rows[e.dep].plan.workers)
      BY DEF IInv, LiveInv, HostAfterWorkers, PlanOf
    <2>3. rows[e.dep] \in Row
      BY <1>13, <2>2
    <2>4. Len(rows[e.dep].plan.workers) \in Nat
      BY <2>3, RosterFacts DEF Row
    <2> QED
      BY <2>1, <2>2, <2>4
  <1>22. RouteIsServable'
    <2> SUFFICES ASSUME NEW m \in Models, gw[m] # NoRoute
                 PROVE  LET x == gw[m].dep IN
                        /\ x \in DOMAIN rows
                        /\ rows[x].plan.model = m
                        /\ gw[m].host = rows[x].plan.host
                        /\ ready'[x] = Len(Roster(rows[x].plan))
      BY <1>1 DEF RouteIsServable, PlanOf, AllReady
    <2>1. LET x == gw[m].dep IN
          /\ x \in DOMAIN rows
          /\ rows[x].plan.model = m
          /\ gw[m].host = rows[x].plan.host
          /\ ready[x] = Len(Roster(rows[x].plan))
      BY DEF IInv, RouteIsServable, PlanOf, AllReady
    <2>2. gw[m].dep # d /\ gw[m].dep \in 1..Len(rows)
      BY <1>6, <1>13, <2>1 DEF p, k
    <2> QED
      BY <1>15, <2>1, <2>2
  <1>23. TypeOK'
    BY <1>1, <1>14, <1>15 DEF IInv, TypeOK
  <1> QED
    BY <1>17, <1>18, <1>19, <1>20, <1>21, <1>22, <1>23 DEF IInv

\* A Teardown may begin on any deployment.
LEMMA TeardownBeginKeeps ==
    ASSUME IInv, NEW o \in Ops, NEW d \in DOMAIN rows, TeardownBegin(o, d)
    PROVE  IInv'
  <1> DEFINE b == [NoCall EXCEPT !.kind = "teardown", !.pc = "get", !.dep = d]
  <1>1. /\ op' = [op EXCEPT ![o] = b] /\ calls' \in 0..MaxCalls
    BY BoundsAssumption DEF TeardownBegin, Begin, IInv, TypeOK
  <1>2. d \in 1..Len(rows) /\ d \in Nat /\ 0 \in 0..Len(rows)
    BY DEF IInv, TypeOK
  <1>3. /\ b \in Call /\ b.kind = "teardown" /\ b.pc = "get" /\ b.dep = d
        /\ b.refs = <<>> /\ b.left = 0 /\ b.old = 0
    BY <1>2, NoCallFacts DEF Call
  <1> HIDE DEF b
  <1>4. CallKept(o, b)
    <2>1. GoodCall(b, rows[b.dep].plan, ready[b.dep])
      BY <1>3 DEF GoodCall, GoodTeardown
    <2> QED
      BY <1>2, <1>3, <2>1 DEF CallKept, Starting
  <1>5. RowsKept
    BY SameRows DEF TeardownBegin
  <1> QED
    BY <1>1, <1>3, <1>4, <1>5, QuietStep DEF TeardownBegin, IInv, TypeOK

\* A RestartEngine begins on a deployment that Apply has seen complete.
LEMMA RestartBeginKeeps ==
    ASSUME IInv, NEW d \in DOMAIN rows, NEW n \in Nodes, RestartBegin(d, n)
    PROVE  IInv'
  <1> DEFINE b == [NoCall EXCEPT !.kind = "restart", !.pc = "get", !.dep = d, !.node = n]
  <1>1. /\ op' = [op EXCEPT ![Rec] = b] /\ calls' \in 0..MaxCalls /\ Rec \in Ops
    BY BoundsAssumption DEF RestartBegin, Begin, IInv, TypeOK, Ops
  <1>2. d \in 1..Len(rows) /\ d \in Nat /\ 0 \in 0..Len(rows)
    BY DEF IInv, TypeOK
  <1>3. /\ b \in Call /\ b.kind = "restart" /\ b.pc = "get" /\ b.dep = d
        /\ b.refs = <<>> /\ b.left = 0 /\ b.old = 0 /\ b.node = n
    BY <1>2, NoCallFacts DEF Call
  <1> HIDE DEF b
  <1>4. ready[d] = Len(Roster(rows[d].plan))
    BY <1>2 DEF RestartBegin, IInv, RowInv, GoodRow
  <1>5. CallKept(Rec, b)
    <2>1. GoodCall(b, rows[b.dep].plan, ready[b.dep])
      BY <1>3, <1>4 DEF GoodCall, GoodRestart
    <2> QED
      BY <1>2, <1>3, <2>1 DEF CallKept, Starting
  <1>6. RowsKept
    BY SameRows DEF RestartBegin
  <1> QED
    BY <1>1, <1>3, <1>5, <1>6, QuietStep DEF RestartBegin, IInv, TypeOK

\* A new deployment has an empty row and nobody else works on it.
LEMMA ApplyBeginKeeps ==
    ASSUME IInv, NEW o \in Ops, NEW p \in Plans, NEW old \in 0..Len(rows),
           ApplyBegin(o, p, old)
    PROVE  IInv'
  <1> DEFINE d == Len(rows) + 1
             b == [NoCall EXCEPT !.kind = "apply", !.pc = "start", !.dep = d, !.old = old]
  <1>1. /\ op' = [op EXCEPT ![o] = b] /\ calls' \in 0..MaxCalls
        /\ rows' = Append(rows, NewRow(p)) /\ ready' = Append(ready, 0)
        /\ live' = live /\ cur' = cur /\ next' = next /\ gw' = gw /\ faults' = faults
        /\ op[o].kind = "none"
    BY BoundsAssumption DEF ApplyBegin, Begin, Idle, IInv, TypeOK
  <1>2. /\ rows \in Seq(Row) /\ ready \in Seq(Nat) /\ Len(ready) = Len(rows)
        /\ Len(rows) \in Nat /\ op \in [Ops -> Call]
    BY DEF IInv, TypeOK, RowInv
  <1>3. /\ b \in Call /\ b.kind = "apply" /\ b.pc = "start" /\ b.dep = d
        /\ b.refs = <<>> /\ b.left = 0 /\ b.old = old
    <2>1. d \in Nat /\ old \in Nat
      BY <1>2
    <2> HIDE DEF d
    <2> QED
      BY <2>1, NoCallFacts DEF Call
  <1> HIDE DEF b
  <1>4. NewRow(p) \in Row
    <2>1. <<>> \in Seq(EngineRef)
      OBVIOUS
    <2> QED
      BY <2>1 DEF NewRow, Row, States
  <1>5. /\ rows' \in Seq(Row) /\ Len(rows') = d /\ rows'[d] = NewRow(p)
        /\ \A x \in 1..Len(rows) : rows'[x] = rows[x]
    BY <1>1, <1>2, <1>4
  <1>6. /\ ready' \in Seq(Nat) /\ Len(ready') = d /\ ready'[d] = 0
        /\ \A x \in 1..Len(rows) : ready'[x] = ready[x]
    BY <1>1, <1>2
  <1>7. /\ op' \in [Ops -> Call] /\ op'[o] = b
        /\ \A x \in Ops : x # o => op'[x] = op[x]
    BY <1>1, <1>2, <1>3
  <1>8. /\ NewRow(p).plan = p /\ NewRow(p).engines = <<>> /\ NewRow(p).state = "PROVISIONING"
    BY DEF NewRow
  <1>9. Len(Roster(p)) \in Nat /\ Len(Roster(p)) # 0
    BY RosterFacts
  <1>10. 1..d = 1..Len(rows) \cup {d} /\ d \notin 1..Len(rows) /\ 0..Len(rows) \subseteq 0..d
    BY <1>2
  <1> HIDE DEF d
  <1>11. RowInv'
    <2>1. GoodRow(NewRow(p), 0)
      BY <1>8, <1>9 DEF GoodRow
    <2> QED
      BY <1>5, <1>6, <1>10, <2>1 DEF IInv, RowInv
  <1>12. CallInv'
    <2> SUFFICES ASSUME NEW x \in Ops, op'[x] # NoCall
                 PROVE  /\ op'[x].kind # "none"
                        /\ op'[x].dep \in 1..d
                        /\ op'[x].old \in 0..d
                        /\ GoodCall(op'[x], rows'[op'[x].dep].plan, ready'[op'[x].dep])
      BY <1>5 DEF CallInv
    <2>1. CASE x = o
      <3>1. GoodCall(b, p, 0)
        <4>1. Matches(p, <<>>) /\ Len(<<>>) = 0
          BY DEF Matches
        <4> QED
          BY <1>3, <1>9, <4>1 DEF GoodCall, GoodApply
      <3> QED
        BY <1>3, <1>5, <1>6, <1>7, <1>8, <1>10, <2>1, <3>1
    <2>2. CASE x # o
      BY <1>5, <1>6, <1>7, <1>10, <2>2 DEF IInv, CallInv
    <2> QED
      BY <2>1, <2>2
  <1>13. \A x \in Ops : op[x].kind # "none" => op[x].dep # d
    BY <1>10, NoCallFacts DEF IInv, CallInv
  <1>14. Unique'
    BY <1>3, <1>7, <1>13 DEF IInv, Unique
  <1>15. Untouched'
    <2> SUFFICES ASSUME NEW x \in Ops, Starting(op'[x])
                 PROVE  /\ rows'[op'[x].dep].engines = <<>>
                        /\ rows'[op'[x].dep].state # "FAILED"
                        /\ \A y \in Ops : op'[y].kind = "teardown" /\ op'[y].dep = op'[x].dep
                                            => op'[y].refs = <<>>
      BY DEF Untouched, Starting
    <2>1. CASE x = o
      BY <1>3, <1>5, <1>7, <1>8, <1>13, <2>1
    <2>2. CASE x # o
      <3>1. op'[x] = op[x] /\ Starting(op[x])
        BY <1>7, <2>2
      <3>2. op[x].dep \in 1..Len(rows)
        BY <3>1 DEF IInv, CallInv, Starting, NoCall
      <3> QED
        BY <1>3, <1>5, <1>7, <3>1, <3>2 DEF IInv, Untouched
    <2> QED
      BY <2>1, <2>2
  <1>16. LiveInv' /\ HostAfterWorkers'
    <2>1. ASSUME NEW e \in live
          PROVE  /\ e.dep \in 1..Len(rows)
                 /\ e.role = "host" => ready[e.dep] >= Len(rows[e.dep].plan.workers)
      BY DEF IInv, LiveInv, HostAfterWorkers, PlanOf
    <2> QED
      BY <1>1, <1>5, <1>6, <1>10, <2>1 DEF LiveInv, HostAfterWorkers, PlanOf
  <1>17. RouteIsServable'
    <2> SUFFICES ASSUME NEW m \in Models, gw[m] # NoRoute
                 PROVE  LET x == gw[m].dep IN
                        /\ x \in DOMAIN rows'
                        /\ rows'[x].plan.model = m
                        /\ gw[m].host = rows'[x].plan.host
                        /\ ready'[x] = Len(Roster(rows'[x].plan))
      BY <1>1 DEF RouteIsServable, PlanOf, AllReady
    <2>1. LET x == gw[m].dep IN
          /\ x \in DOMAIN rows
          /\ rows[x].plan.model = m
          /\ gw[m].host = rows[x].plan.host
          /\ ready[x] = Len(Roster(rows[x].plan))
      BY DEF IInv, RouteIsServable, PlanOf, AllReady
    <2>2. gw[m].dep \in 1..Len(rows)
      BY <1>2, <2>1
    <2>3. DOMAIN rows' = 1..d
      BY <1>5
    <2> QED
      BY <1>5, <1>6, <1>10, <2>1, <2>2, <2>3
  <1>18. TypeOK'
    BY <1>1, <1>5, <1>6, <1>7 DEF IInv, TypeOK
  <1> QED
    BY <1>11, <1>12, <1>14, <1>15, <1>16, <1>17, <1>18 DEF IInv

\* A crash forgets the calls in progress and nothing else.
LEMMA CrashKeeps ==
    ASSUME IInv, Crash
    PROVE  IInv'
  <1>1. \A o \in Ops : op'[o] = NoCall
    BY DEF Crash
  <1>2. op' \in [Ops -> Call] /\ faults' \in 0..MaxFaults
    BY NoCallFacts, BoundsAssumption DEF Crash, Fault, IInv, TypeOK
  <1>3. CallInv' /\ Unique' /\ Untouched'
    BY <1>1, NoCallFacts DEF CallInv, Unique, Untouched, Starting
  <1>4. TypeOK' /\ RowInv' /\ LiveInv' /\ HostAfterWorkers' /\ RouteIsServable'
    BY <1>2 DEF Crash, IInv, TypeOK, RowInv, LiveInv, HostAfterWorkers, RouteIsServable,
                PlanOf, AllReady
  <1> QED
    BY <1>3, <1>4 DEF IInv

-----------------------------------------------------------------------------
(***************************************************************************)
(* The theorems                                                            *)
(***************************************************************************)
\* The orchestrator starts in a state that satisfies the invariant.
LEMMA InitKeeps == Init => IInv
  <1> SUFFICES ASSUME Init
               PROVE  IInv
    OBVIOUS
  <1>1. TypeOK
    BY NoCallFacts, BoundsAssumption DEF Init, TypeOK, Route, NoRoute
  <1>2. RowInv /\ CallInv /\ Unique /\ Untouched
    BY NoCallFacts DEF Init, RowInv, CallInv, Unique, Untouched, Starting
  <1>3. LiveInv /\ HostAfterWorkers /\ RouteIsServable
    BY DEF Init, LiveInv, HostAfterWorkers, RouteIsServable
  <1> QED
    BY <1>1, <1>2, <1>3 DEF IInv

\* Every step of every call, cancellation and crash preserves the invariant.
LEMMA NextKeeps == IInv /\ [Next]_vars => IInv'
  <1> SUFFICES ASSUME IInv, [Next]_vars
               PROVE  IInv'
    OBVIOUS
  <1>1. ASSUME NEW o \in Api, NEW p \in Plans, Deploy(o, p)
        PROVE  IInv'
    <2>1. 0 \in 0..Len(rows) /\ o \in Ops
      BY DEF IInv, TypeOK, Ops
    <2> QED
      BY <1>1, <2>1, ApplyBeginKeeps DEF Deploy
  <1>2. ASSUME NEW d \in DOMAIN rows, NEW p \in Plans, Failover(d, p)
        PROVE  IInv'
    <2>1. d \in 0..Len(rows) /\ Rec \in Ops
      BY DEF IInv, TypeOK, Ops
    <2> QED
      BY <1>2, <2>1, ApplyBeginKeeps DEF Failover
  <1>3. ASSUME NEW o \in Ops, NEW d \in DOMAIN rows, TeardownBegin(o, d)
        PROVE  IInv'
    BY <1>3, TeardownBeginKeeps
  <1>4. ASSUME NEW d \in DOMAIN rows, NEW n \in Nodes, RestartBegin(d, n)
        PROVE  IInv'
    BY <1>4, RestartBeginKeeps
  <1>5. ASSUME NEW o \in Ops, EngineReady(o)
        PROVE  IInv'
    <2>1. op[o].kind \in {"apply", "restart"}
      BY <1>5, NextEngineFacts DEF EngineReady
    <2> QED
      BY <1>5, <2>1, ApplyReadyKeeps, RestartReadyKeeps
  <1>6. ASSUME NEW o \in Ops, Step(o)
        PROVE  IInv'
    BY <1>5, <1>6, StartEngineKeeps, StartRefusedKeeps, EngineNotReadyKeeps,
       PersistActiveKeeps, PublishRouteKeeps, StopNextKeeps, PersistFailedKeeps,
       GetDeploymentKeeps, GetFailsKeeps, MarkStoppingKeeps, DeleteRouteKeeps, PersistStoppedKeeps
       DEF Step
  <1>7. ASSUME NEW o \in Api, Cancel(o)
        PROVE  IInv'
    BY <1>7, CancelKeeps DEF Ops
  <1>8. CASE UNCHANGED vars
    BY <1>8 DEF vars, IInv, TypeOK, RowInv, CallInv, Unique, Untouched, LiveInv,
                HostAfterWorkers, RouteIsServable, Starting, PlanOf, AllReady
  <1> QED
    BY <1>1, <1>2, <1>3, <1>4, <1>6, <1>7, <1>8, CrashKeeps DEF Next, CallSteps

\* The invariant holds in every reachable state.
THEOREM Invariance == Spec => []IInv
  BY InitKeeps, NextKeeps, PTL DEF Spec

\* Every variable keeps its type: in particular each reference a call writes to
\* the registry names an agent and a role, for any roster.
THEOREM TypeCorrect == Spec => []TypeOK
  <1>1. IInv => TypeOK
    BY DEF IInv
  <1> QED
    BY <1>1, Invariance, PTL

\* Apply's mandatory order: no host engine is alive before every worker of its
\* deployment has been READY, restarts and failovers included.
THEOREM HostStartsLast == Spec => []HostAfterWorkers
  <1>1. IInv => HostAfterWorkers
    BY DEF IInv
  <1> QED
    BY <1>1, Invariance, PTL

\* A row that says ACTIVE lists its plan's complete placement.
THEOREM ActiveRowsComplete == Spec => []ActiveIsComplete
  <1>1. IInv => ActiveIsComplete
    <2> SUFFICES ASSUME IInv, NEW d \in DOMAIN rows, rows[d].state = "ACTIVE"
                 PROVE  Placed(rows[d].plan, rows[d].engines, rows[d].host)
      BY DEF ActiveIsComplete, PlanOf
    <2>1. d \in 1..Len(rows)
      BY DEF IInv, TypeOK
    <2> QED
      BY <2>1 DEF IInv, RowInv, GoodRow
  <1> QED
    BY <1>1, Invariance, PTL

\* The Gateway only ever routes a model to the host of a deployment of that model
\* that has been completely READY.
THEOREM RoutesServable == Spec => []RouteIsServable
  <1>1. IInv => RouteIsServable
    BY DEF IInv
  <1> QED
    BY <1>1, Invariance, PTL

\* No step changes a deployment's plan, and none changes how far the rollout of
\* a FAILED or a complete deployment got.
LEMMA HistoryKept ==
    ASSUME IInv, Next, NEW d \in 1..Len(rows)
    PROVE  /\ rows'[d].plan = rows[d].plan
           /\ rows[d].state = "FAILED" \/ AllReady(d) => ready'[d] = ready[d]
           /\ d \in 1..Len(rows')
  <1>1. rows \in Seq(Row) /\ ready \in Seq(Nat) /\ Len(ready) = Len(rows)
    BY DEF IInv, TypeOK, RowInv
  <1>2. ASSUME NEW o \in Ops, NEW p \in Plans, NEW old, ApplyBegin(o, p, old)
        PROVE  rows'[d] = rows[d] /\ ready'[d] = ready[d] /\ d \in 1..Len(rows')
    BY <1>1, <1>2 DEF ApplyBegin
  <1>3. ASSUME NEW o \in Ops, NEW e, NEW state, NEW engines, NEW host,
               Persist(o, e, state, engines, host)
        PROVE  rows'[d].plan = rows[d].plan /\ d \in 1..Len(rows')
    <2>1. CASE rows' = rows
      BY <2>1
    <2>2. CASE rows' = [rows EXCEPT ![e] = [state |-> state, plan |-> rows[e].plan,
                                            engines |-> engines, host |-> host]]
      <3>1. Len(rows') = Len(rows) /\ (e # d => rows'[d] = rows[d])
        BY <1>1, <2>2
      <3>2. e = d => rows'[d] = [state |-> state, plan |-> rows[d].plan,
                                 engines |-> engines, host |-> host]
        BY <1>1, <2>2
      <3> QED
        BY <3>1, <3>2
    <2> QED
      BY <1>3, <2>1, <2>2 DEF Persist
  <1>4. ASSUME NEW o \in Ops, PersistActive(o) \/ PersistFailed(o) \/ MarkStopping(o)
                                \/ PersistStopped(o)
        PROVE  rows'[d].plan = rows[d].plan /\ ready' = ready /\ d \in 1..Len(rows')
    BY <1>3, <1>4 DEF PersistActive, PersistFailed, MarkStopping, PersistStopped
  <1>5. ASSUME NEW o \in Ops, EngineReady(o)
        PROVE  rows' = rows /\ (rows[d].state = "FAILED" \/ AllReady(d) => ready'[d] = ready[d])
    <2>1. CASE op[o].kind = "apply"
      <3>1. op[o].pc = "wait"
        BY <1>5 DEF EngineReady
      <3>2. op[o].dep \in 1..Len(rows) /\ rows[op[o].dep].state # "FAILED"
        BY <2>1, <3>1, InProgress DEF IInv, Untouched, Starting
      <3>3. ~AllReady(op[o].dep)
        BY <2>1, <3>1, InProgress DEF GoodCall, GoodApply, AllReady, PlanOf
      <3> QED
        BY <1>1, <1>5, <2>1, <3>2, <3>3 DEF EngineReady
    <2>2. CASE op[o].kind # "apply"
      BY <1>5, <2>2 DEF EngineReady
    <2> QED
      BY <2>1, <2>2
  <1>6. ASSUME NEW o \in Ops, StartEngine(o) \/ StartRefused(o) \/ EngineNotReady(o)
                                \/ PublishRoute(o) \/ StopNext(o) \/ GetDeployment(o)
                                \/ GetFails(o) \/ DeleteRoute(o)
        PROVE  rows' = rows /\ ready' = ready
    BY <1>6 DEF StartEngine, StartRefused, EngineNotReady, PublishRoute, StopNext,
                GetDeployment, GetFails, DeleteRoute
  <1>7. ASSUME NEW o \in Ops, Step(o)
        PROVE  /\ rows'[d].plan = rows[d].plan
               /\ rows[d].state = "FAILED" \/ AllReady(d) => ready'[d] = ready[d]
               /\ d \in 1..Len(rows')
    BY <1>4, <1>5, <1>6, <1>7 DEF Step
  <1>8. ASSUME NEW o \in Api, NEW p \in Plans, Deploy(o, p)
        PROVE  rows'[d] = rows[d] /\ ready'[d] = ready[d] /\ d \in 1..Len(rows')
    BY <1>2, <1>8 DEF Deploy, Ops
  <1>9. ASSUME NEW x, NEW p \in Plans, Failover(x, p)
        PROVE  rows'[d] = rows[d] /\ ready'[d] = ready[d] /\ d \in 1..Len(rows')
    BY <1>2, <1>9 DEF Failover, Ops
  <1> QED
    BY <1>7, <1>8, <1>9 DEF Next, CallSteps, TeardownBegin, RestartBegin, Cancel, Crash

\* A deployment whose rollout failed never serves.
THEOREM FailedStaysDown == Spec => FailedNeverServes
  <1> DEFINE A == \A d \in DOMAIN rows : rows[d].state = "FAILED" =>
                    /\ rows'[d].state # "ACTIVE"
                    /\ \A m \in Models : gw'[m].dep = d => gw[m].dep = d
  <1>1. IInv /\ IInv' /\ [Next]_vars => [A]_vars
    <2> SUFFICES ASSUME IInv, IInv', Next, NEW d \in DOMAIN rows, rows[d].state = "FAILED"
                 PROVE  /\ rows'[d].state # "ACTIVE"
                        /\ \A m \in Models : gw'[m].dep = d => gw[m].dep = d
      OBVIOUS
    <2>1. d \in 1..Len(rows) /\ d # 0
      BY DEF IInv, TypeOK
    <2>2. ready[d] # Len(Roster(rows[d].plan))
      BY <2>1 DEF IInv, RowInv, GoodRow
    <2>3. ready'[d] # Len(Roster(rows'[d].plan))
      BY <2>1, <2>2, HistoryKept
    <2>4. rows'[d].state # "ACTIVE"
      <3>1. d \in 1..Len(rows')
        BY <2>1, HistoryKept
      <3> QED
        BY <2>3, <3>1 DEF IInv, RowInv, GoodRow
    <2>5. ASSUME NEW m \in Models, gw'[m].dep = d
          PROVE  FALSE
      <3>1. gw'[m] # NoRoute
        BY <2>1, <2>5 DEF NoRoute
      <3> QED
        BY <2>3, <2>5, <3>1 DEF IInv, RouteIsServable, AllReady, PlanOf
    <2> QED
      BY <2>4, <2>5
  <1> QED
    BY <1>1, Invariance, PTL DEF Spec, FailedNeverServes
=============================================================================
