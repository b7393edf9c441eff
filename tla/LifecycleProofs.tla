-------------------------- MODULE LifecycleProofs ---------------------------
(***************************************************************************)
(* The orchestrator when calls on one deployment do not overlap and none   *)
(* is lost: the rows implement DeploymentLifecycle, and a deployment that  *)
(* is STOPPED has freed its slots, for any fleet, plans and number of      *)
(* calls on different deployments at once.                                 *)
(***************************************************************************)
EXTENDS OrchestratorProofs

\* One call at a time on a deployment, and no call is lost, cancelled or cut off.
Exclusive == ~Overlap /\ MaxFaults = 0

Passing == {"PROVISIONING", "STOPPING"}

\* The state of the deployment a call works on.
InState(c, s) ==
    /\ c.kind = "apply" => s = IF c.pc = "publish" THEN "ACTIVE" ELSE "PROVISIONING"
    /\ c.kind = "teardown" => IF c.pc \in {"stop", "done"} THEN s = "STOPPING" ELSE s \notin Passing
    /\ c.kind = "restart" => s = "ACTIVE"

\* A deployment is one call's, as the one it works on or as the one it fails over.
OneCall ==
    \A o1, o2 \in Ops : \A d \in 1..Len(rows) :
        /\ op[o1].dep = d \/ op[o1].old = d
        /\ op[o2].dep = d \/ op[o2].old = d
        => o1 = o2

Uncut == faults = 0 /\ \A o \in Ops : op[o].ctx

Tracked ==
    \A o \in Ops : op[o].kind # "none" =>
        /\ op[o].dep # op[o].old
        /\ InState(op[o], rows[op[o].dep].state)
        /\ op[o].old # 0 => rows[op[o].old].state = "ACTIVE"

Rested == \A d \in 1..Len(rows) : ~Busy(d) => rows[d].state \notin Passing

\* Among the engines engs, agent n has none of d in its slot.
Freed(engs, slot, d, n) == \A e \in engs : ~(e.dep = d /\ e.node = n /\ e.handle = slot[n])

HandlesIssued == \A e \in live : e.handle \in 1..next

\* How far a teardown got with its list.
Emptied ==
    \A o \in Ops : op[o].kind = "teardown" =>
        /\ op[o].pc = "stop" => \A i \in 1..Len(op[o].refs) : i > op[o].left => Freed(live, cur, op[o].dep, op[o].refs[i].node)
        /\ op[o].pc = "done" => \A i \in 1..Len(op[o].refs) : Freed(live, cur, op[o].dep, op[o].refs[i].node)

\* What is STOPPED and nobody's has no engine in a slot it lists.
StoppedFreed ==
    \A d \in 1..Len(rows) : rows[d].state = "STOPPED" /\ ~Busy(d) =>
        \A i \in 1..Len(rows[d].engines) : Freed(live, cur, d, rows[d].engines[i].node)

XInv == OneCall /\ Uncut /\ Tracked /\ Rested /\ HandlesIssued /\ Emptied /\ StoppedFreed

-----------------------------------------------------------------------------
(***************************************************************************)
(* Lemmas                                                                  *)
(***************************************************************************)
\* Nothing is lost: a step that would need a fault does not happen.
LEMMA NoFault ==
    ASSUME Exclusive, IInv
    PROVE  faults = 0 /\ ~Fault
  BY DEF Exclusive, IInv, TypeOK, Fault

\* Call o, in progress, goes on as c: only its own deployment's row changes, and a
\* deployment it leaves is at rest and, if STOPPED, has freed its slots.
StepTo(o, c) ==
    /\ op' = [op EXCEPT ![o] = c] /\ c.ctx /\ faults' = faults
    /\ Len(rows') = Len(rows)
    /\ \A d \in 1..Len(rows) : d # op[o].dep => rows'[d] = rows[d]
    /\ \/ c.kind = "none" /\ c.dep = 0 /\ c.old = 0
       \/ /\ c.kind # "none" /\ InState(c, rows'[c.dep].state)
          /\ \/ c.dep = op[o].dep /\ c.old = op[o].old
             \/ c.dep = op[o].old /\ c.old = 0 /\ c.dep # 0
    /\ c.dep # op[o].dep =>
        /\ rows'[op[o].dep].state \notin Passing
        /\ rows'[op[o].dep].state = "STOPPED" =>
             \A i \in 1..Len(rows'[op[o].dep].engines) : Freed(live', cur', op[o].dep, rows'[op[o].dep].engines[i].node)

\* Slots that were free of d stay so, unless the step starts an engine of d.
SlotsKept(o) ==
    /\ \A e \in live' : e.handle \in 1..next'
    /\ \A d \in 1..Len(rows), n \in Nodes : d # op[o].dep /\ Freed(live, cur, d, n) => Freed(live', cur', d, n)

\* What the invariant says of an idle goroutine and of one in progress.
LEMMA Calls ==
    ASSUME IInv, NEW o \in Ops
    PROVE  /\ op[o] \in Call
           /\ op[o].kind = "none" <=> op[o] = NoCall
           /\ op[o].kind = "none" => op[o].dep = 0 /\ op[o].old = 0 /\ op[o].pc = "idle"
           /\ op[o].kind # "none" => op[o].dep \in 1..Len(rows) /\ op[o].old \in 0..Len(rows) /\ op[o].pc # "idle"
  <1>1. op[o] \in Call
    BY DEF IInv, TypeOK
  <1>2. op[o] = NoCall => op[o].kind = "none" /\ op[o].dep = 0 /\ op[o].old = 0 /\ op[o].pc = "idle"
    BY DEF NoCall
  <1>3. op[o] # NoCall => /\ op[o].kind # "none"
                          /\ op[o].dep \in 1..Len(rows) /\ op[o].old \in 0..Len(rows)
                          /\ GoodCall(op[o], rows[op[o].dep].plan, ready[op[o].dep])
    BY DEF IInv, CallInv
  <1>4. op[o] # NoCall => op[o].pc # "idle"
    BY <1>1, <1>3 DEF GoodCall, GoodApply, GoodTeardown, GoodRestart, Call
  <1> QED
    BY <1>1, <1>2, <1>3, <1>4

\* Lists of engines name agents.
LEMMA Agents ==
    ASSUME IInv
    PROVE  /\ Len(rows) \in Nat /\ DOMAIN rows = 1..Len(rows)
           /\ \A o \in Ops : /\ Len(op[o].refs) \in Nat
                             /\ \A i \in 1..Len(op[o].refs) : op[o].refs[i].node \in Nodes
           /\ \A d \in 1..Len(rows) : /\ DOMAIN rows[d].engines = 1..Len(rows[d].engines)
                                      /\ \A i \in 1..Len(rows[d].engines) : rows[d].engines[i].node \in Nodes
  <1>1. rows \in Seq(Row) /\ op \in [Ops -> Call]
    BY DEF IInv, TypeOK
  <1>2. \A o \in Ops : op[o].refs \in Seq(EngineRef)
    BY <1>1 DEF Call
  <1>3. \A d \in 1..Len(rows) : rows[d].engines \in Seq(EngineRef)
    <2>1. \A d \in 1..Len(rows) : rows[d] \in Row
      BY <1>1
    <2> QED
      BY <2>1 DEF Row
  <1>4. ASSUME NEW s \in Seq(EngineRef)
        PROVE  Len(s) \in Nat /\ DOMAIN s = 1..Len(s) /\ \A i \in 1..Len(s) : s[i].node \in Nodes
    <2>1. \A i \in 1..Len(s) : s[i] \in EngineRef
      OBVIOUS
    <2> QED
      BY <2>1 DEF EngineRef
  <1> QED
    BY <1>1, <1>2, <1>3, <1>4

LEMMA ExclusiveStep ==
    ASSUME IInv, XInv, NEW o \in Ops, op[o].kind # "none", NEW c, StepTo(o, c), SlotsKept(o),
           c.kind = "teardown" =>
             /\ c.pc = "stop" => \A i \in 1..Len(c.refs) : i > c.left => Freed(live', cur', c.dep, c.refs[i].node)
             /\ c.pc = "done" => \A i \in 1..Len(c.refs) : Freed(live', cur', c.dep, c.refs[i].node)
    PROVE  XInv'
  <1>0. /\ op'[o] = c /\ \A x \in Ops : x # o => op'[x] = op[x]
        /\ Len(rows') = Len(rows) /\ Len(rows) \in Nat
    BY Agents DEF IInv, TypeOK, StepTo
  <1>1. op[o].dep \in 1..Len(rows) /\ op[o].old \in 0..Len(rows) /\ op[o].dep # op[o].old
    BY Calls DEF XInv, Tracked
  <1>2. /\ c.dep \in {op[o].dep, op[o].old, 0} /\ c.old \in {op[o].old, 0}
    BY DEF StepTo
  <1>3. \A x \in Ops : x # o => \A d \in 1..Len(rows) :
           (op[x].dep = d \/ op[x].old = d) => d # op[o].dep /\ d # op[o].old /\ rows'[d] = rows[d]
    BY DEF XInv, OneCall, StepTo
  <1>4. OneCall'
    BY <1>0, <1>1, <1>2 DEF XInv, OneCall
  <1>5. Uncut'
    BY <1>0 DEF XInv, Uncut, StepTo
  <1>6. Tracked'
    <2> SUFFICES ASSUME NEW x \in Ops, op'[x].kind # "none"
                 PROVE  /\ op'[x].dep # op'[x].old
                        /\ InState(op'[x], rows'[op'[x].dep].state)
                        /\ op'[x].old # 0 => rows'[op'[x].old].state = "ACTIVE"
      BY DEF Tracked, InState
    <2>1. CASE x = o
      <3>1. c.kind # "none" /\ InState(c, rows'[c.dep].state) /\ c.dep # c.old
        BY <1>0, <1>1, <2>1 DEF StepTo
      <3>2. c.old # 0 => c.old = op[o].old /\ rows[op[o].old].state = "ACTIVE" /\ rows'[op[o].old] = rows[op[o].old]
        BY <1>1, <1>2 DEF XInv, Tracked, StepTo
      <3> QED
        BY <1>0, <2>1, <3>1, <3>2
    <2>2. CASE x # o
      <3>1. op'[x] = op[x]
        BY <1>0, <2>2
      <3>2. /\ op[x].dep # op[x].old /\ InState(op[x], rows[op[x].dep].state)
            /\ op[x].old # 0 => rows[op[x].old].state = "ACTIVE"
        BY <3>1 DEF XInv, Tracked
      <3>3. op[x].dep \in 1..Len(rows) /\ op[x].old \in 0..Len(rows)
        BY <3>1, Calls
      <3>4. rows'[op[x].dep] = rows[op[x].dep] /\ (op[x].old # 0 => rows'[op[x].old] = rows[op[x].old])
        BY <1>3, <2>2, <3>3
      <3> QED
        BY <3>1, <3>2, <3>4
    <2> QED
      BY <2>1, <2>2
  <1>b. ASSUME NEW d \in 1..Len(rows), ~Busy(d)'
        PROVE  /\ d # op[o].dep /\ d # op[o].old => ~Busy(d) /\ rows'[d] = rows[d]
               /\ d = op[o].dep => c.dep # op[o].dep
               /\ d = op[o].old => rows'[d].state = "ACTIVE"
    <2>1. \A x \in Ops : op'[x].dep # d /\ op'[x].old # d
      BY <1>b DEF Busy
    <2>2. d # op[o].dep /\ d # op[o].old => ~Busy(d)
      BY <1>0, <2>1 DEF Busy
    <2>3. d # op[o].dep => rows'[d] = rows[d]
      BY DEF StepTo
    <2>4. d = op[o].old => rows[d].state = "ACTIVE" /\ d # op[o].dep
      BY <1>1 DEF XInv, Tracked
    <2>5. c.dep # d
      BY <1>0, <2>1
    <2> QED
      BY <2>2, <2>3, <2>4, <2>5
  <1>7. Rested'
    <2> SUFFICES ASSUME NEW d \in 1..Len(rows), ~Busy(d)'
                 PROVE  rows'[d].state \notin Passing
      BY <1>0 DEF Rested, Busy
    <2>1. CASE d = op[o].dep
      BY <1>b, <2>1 DEF StepTo
    <2>2. CASE d = op[o].old
      BY <1>b, <2>2 DEF Passing
    <2>3. CASE d # op[o].dep /\ d # op[o].old
      BY <1>b, <2>3 DEF XInv, Rested
    <2> QED
      BY <2>1, <2>2, <2>3
  <1>8. HandlesIssued'
    BY DEF SlotsKept, HandlesIssued
  <1>9. Emptied'
    <2> SUFFICES ASSUME NEW x \in Ops, op'[x].kind = "teardown"
                 PROVE  /\ op'[x].pc = "stop" => \A i \in 1..Len(op'[x].refs) : i > op'[x].left => Freed(live', cur', op'[x].dep, op'[x].refs[i].node)
                        /\ op'[x].pc = "done" => \A i \in 1..Len(op'[x].refs) : Freed(live', cur', op'[x].dep, op'[x].refs[i].node)
      BY DEF Emptied
    <2>1. CASE x = o
      BY <1>0, <2>1
    <2>2. CASE x # o
      <3>1. op'[x] = op[x]
        BY <1>0, <2>2
      <3>2. op[x].dep \in 1..Len(rows) /\ op[x].dep # op[o].dep
        BY <1>3, <2>2, <3>1, Calls
      <3>3. \A i \in 1..Len(op[x].refs) : Freed(live, cur, op[x].dep, op[x].refs[i].node) => Freed(live', cur', op[x].dep, op[x].refs[i].node)
        BY <3>2, Agents DEF SlotsKept
      <3> QED
        BY <3>1, <3>3 DEF XInv, Emptied
    <2> QED
      BY <2>1, <2>2
  <1>10. StoppedFreed'
    <2> SUFFICES ASSUME NEW d \in 1..Len(rows), ~Busy(d)', rows'[d].state = "STOPPED"
                 PROVE  \A i \in 1..Len(rows'[d].engines) : Freed(live', cur', d, rows'[d].engines[i].node)
      BY <1>0 DEF StoppedFreed, Busy
    <2>1. CASE d = op[o].dep
      BY <1>b, <2>1 DEF StepTo
    <2>2. CASE d = op[o].old
      BY <1>b, <2>2
    <2>3. CASE d # op[o].dep /\ d # op[o].old
      <3>1. ~Busy(d) /\ rows'[d] = rows[d]
        BY <1>b, <2>3
      <3>2. \A i \in 1..Len(rows[d].engines) : Freed(live, cur, d, rows[d].engines[i].node)
        BY <3>1 DEF XInv, StoppedFreed
      <3> QED
        BY <2>3, <3>1, <3>2, Agents DEF SlotsKept
    <2> QED
      BY <2>1, <2>2, <2>3
  <1> QED
    BY <1>4, <1>5, <1>6, <1>7, <1>8, <1>9, <1>10 DEF XInv

\* Engines that disappear leave slots free.
LEMMA SlotsShrink ==
    ASSUME XInv, live' \subseteq live, cur' = cur, next' = next, NEW o \in Ops
    PROVE  /\ SlotsKept(o)
           /\ \A d, n : Freed(live, cur, d, n) => Freed(live', cur', d, n)
  BY DEF XInv, HandlesIssued, SlotsKept, Freed

\* An engine of d takes no slot from the point of view of the others.
LEMMA SlotsStart ==
    ASSUME IInv, XInv, NEW o \in Ops, NEW n \in Nodes, NEW role, AgentStart(n, role, op[o].dep)
    PROVE  SlotsKept(o)
  <1> DEFINE e0 == [node |-> n, role |-> role, handle |-> next + 1, dep |-> op[o].dep]
  <1>1. next \in Nat /\ cur \in [Nodes -> Nat] /\ \A e \in live : e.handle \in 1..next
    BY DEF IInv, TypeOK, XInv, HandlesIssued
  <1>2. live' = live \cup {e0} /\ next' = next + 1 /\ cur' = [cur EXCEPT ![n] = next + 1]
    BY DEF AgentStart
  <1>3. e0.handle = next + 1 /\ e0.dep = op[o].dep
    OBVIOUS
  <1> HIDE DEF e0
  <1>4. \A e \in live' : e.handle \in 1..next'
    BY <1>1, <1>2, <1>3
  <1>5. ASSUME NEW d \in 1..Len(rows), NEW m \in Nodes, d # op[o].dep, Freed(live, cur, d, m), NEW e \in live'
        PROVE  ~(e.dep = d /\ e.node = m /\ e.handle = cur'[m])
    <2>1. CASE e = e0
      BY <1>3, <1>5, <2>1
    <2>2. CASE e \in live /\ m # n
      BY <1>1, <1>2, <1>5, <2>2 DEF Freed
    <2>3. CASE e \in live /\ m = n
      <3>1. cur'[m] = next + 1 /\ e.handle \in 1..next
        BY <1>1, <1>2, <2>3
      <3> QED
        BY <1>1, <3>1
    <2> QED
      BY <1>2, <2>1, <2>2, <2>3
  <1> QED
    BY <1>4, <1>5 DEF SlotsKept, Freed

\* StopEngine frees the agent's slot of everyone.
LEMMA SlotsStop ==
    ASSUME IInv, XInv, NEW o \in Ops, NEW n \in Nodes, AgentStop(n), next' = next
    PROVE  /\ SlotsKept(o)
           /\ \A d : \A m \in Nodes : Freed(live, cur, d, m) \/ m = n => Freed(live', cur', d, m)
  <1>1. cur \in [Nodes -> Nat] /\ \A e \in live : e.handle \in 1..next
    BY DEF IInv, TypeOK, XInv, HandlesIssued
  <1>2. live' \subseteq live /\ cur' = [cur EXCEPT ![n] = 0]
    BY DEF AgentStop
  <1>3. ASSUME NEW d, NEW m \in Nodes, Freed(live, cur, d, m) \/ m = n, NEW e \in live'
        PROVE  ~(e.dep = d /\ e.node = m /\ e.handle = cur'[m])
    <2>1. CASE m = n
      <3>1. cur'[m] = 0 /\ e.handle \in 1..next
        BY <1>1, <1>2, <2>1
      <3> QED
        BY <3>1
    <2>2. CASE m # n
      BY <1>1, <1>2, <1>3, <2>2 DEF Freed
    <2> QED
      BY <2>1, <2>2
  <1>4. \A d : \A m \in Nodes : Freed(live, cur, d, m) \/ m = n => Freed(live', cur', d, m)
    BY <1>3 DEF Freed
  <1> QED
    BY <1>1, <1>2, <1>4 DEF SlotsKept

\* A write reaches the registry.
LEMMA PersistExact ==
    ASSUME Exclusive, IInv, XInv, NEW o \in Ops, NEW d \in 1..Len(rows), NEW state, NEW engines, NEW host,
           Persist(o, d, state, engines, host)
    PROVE  /\ faults' = faults /\ Len(rows') = Len(rows)
           /\ rows'[d].state = state /\ rows'[d].engines = engines
           /\ \A x \in 1..Len(rows) : x # d => rows'[x] = rows[x]
  <1>1. op[o].ctx
    BY DEF XInv, Uncut
  <1>2. /\ faults' = faults
        /\ rows' = [rows EXCEPT ![d] = [state |-> state, plan |-> rows[d].plan, engines |-> engines, host |-> host]]
    BY <1>1, NoFault DEF Persist, CallOK, CallLost
  <1>3. rows \in Seq(Row)
    BY DEF IInv, TypeOK
  <1> DEFINE r == [state |-> state, plan |-> rows[d].plan, engines |-> engines, host |-> host]
  <1>4. r.state = state /\ r.engines = engines
    OBVIOUS
  <1> HIDE DEF r
  <1>5. rows' = [rows EXCEPT ![d] = r]
    BY <1>2 DEF r
  <1> QED
    BY <1>2, <1>3, <1>4, <1>5

\* What a call at a point of its code is, and the state of its deployment.
LEMMA AtPoint ==
    ASSUME IInv, XInv, NEW o \in Ops, op[o].pc # "idle"
    PROVE  /\ op[o] \in Call /\ op[o].kind \in {"apply", "teardown", "restart"} /\ op[o].ctx
           /\ op[o].dep \in 1..Len(rows) /\ op[o].old \in 0..Len(rows) /\ op[o].dep # op[o].old
           /\ InState(op[o], rows[op[o].dep].state)
           /\ op[o].old # 0 => rows[op[o].old].state = "ACTIVE"
           /\ op[o].kind = "apply" => op[o].pc \in {"start", "wait", "persist", "publish", "stop"}
           /\ op[o].kind = "teardown" => op[o].pc \in {"get", "mark", "stop", "done"} /\ op[o].old = 0
           /\ op[o].kind = "restart" => op[o].pc \in {"get", "start", "wait", "persist"} /\ op[o].old = 0
           /\ op[o].left <= Len(op[o].refs)
  <1>1. /\ op[o] \in Call /\ op[o].kind # "none" /\ op[o].dep \in 1..Len(rows) /\ op[o].old \in 0..Len(rows)
        /\ GoodCall(op[o], rows[op[o].dep].plan, ready[op[o].dep])
    BY InProgress
  <1>2. op[o].kind \in {"apply", "teardown", "restart"}
    BY <1>1 DEF Call
  <1> QED
    BY <1>1, <1>2 DEF XInv, Uncut, Tracked, GoodCall, GoodApply, GoodTeardown, GoodRestart

-----------------------------------------------------------------------------
(***************************************************************************)
(* The steps of a call                                                     *)
(***************************************************************************)
\* A step that leaves the rows alone and ends the call or moves it to another point.
LEMMA QuietMoves ==
    ASSUME IInv, XInv, NEW o \in Ops, op[o].pc # "idle", NEW c,
           op' = [op EXCEPT ![o] = c], rows' = rows, faults' = faults, SlotsKept(o),
           \/ c = NoCall /\ rows[op[o].dep].state \in {"ACTIVE", "FAILED"}
           \/ /\ c.ctx = op[o].ctx /\ c.kind = op[o].kind /\ c.dep = op[o].dep /\ c.old = op[o].old
              /\ InState(c, rows[op[o].dep].state),
           c.kind = "teardown" =>
             /\ c.pc = "stop" => \A i \in 1..Len(c.refs) : i > c.left => Freed(live', cur', c.dep, c.refs[i].node)
             /\ c.pc = "done" => \A i \in 1..Len(c.refs) : Freed(live', cur', c.dep, c.refs[i].node)
    PROVE  XInv'
  <1>1. /\ op[o].kind # "none" /\ op[o].ctx /\ op[o].dep \in 1..Len(rows)
    BY AtPoint
  <1>2. NoCall.kind = "none" /\ NoCall.dep = 0 /\ NoCall.old = 0 /\ NoCall.ctx
    BY DEF NoCall
  <1>3. StepTo(o, c)
    BY <1>1, <1>2 DEF StepTo, Passing
  <1> QED
    BY <1>1, <1>3, ExclusiveStep

LEMMA XStartEngine == ASSUME IInv, XInv, NEW o \in Ops, StartEngine(o) PROVE XInv'
  <1> DEFINE c == [op[o] EXCEPT !.pc = "wait", !.handle = next + 1]
  <1>1. op[o].pc = "start" /\ op[o] \in Call /\ op[o].kind \in {"apply", "restart"} /\ InState(op[o], rows[op[o].dep].state)
    BY AtPoint DEF StartEngine
  <1>2. op' = [op EXCEPT ![o] = c]
    BY DEF StartEngine
  <1>3. c.ctx = op[o].ctx /\ c.kind = op[o].kind /\ c.dep = op[o].dep /\ c.old = op[o].old /\ c.pc = "wait"
    BY <1>1 DEF Call
  <1> HIDE DEF c
  <1>4. NextEngine(o).node \in Nodes
    BY <1>1, NextEngineFacts
  <1>5. SlotsKept(o)
    BY <1>4, SlotsStart DEF StartEngine
  <1>6. InState(c, rows[op[o].dep].state)
    BY <1>1, <1>3 DEF InState
  <1> QED
    BY <1>1, <1>2, <1>3, <1>5, <1>6, QuietMoves DEF StartEngine

LEMMA XAborts == ASSUME IInv, XInv, NEW o \in Ops, StartRefused(o) \/ EngineNotReady(o) PROVE XInv'
  <1> DEFINE b == [op[o] EXCEPT !.pc = "stop", !.left = Len(op[o].refs), !.handle = 0]
             c == IF op[o].kind = "apply" THEN b ELSE NoCall
  <1>0. op[o].pc \in {"start", "wait"}
    BY DEF StartRefused, EngineNotReady
  <1>1. /\ op[o].pc # "idle" /\ op[o] \in Call /\ op[o].kind \in {"apply", "restart"}
        /\ InState(op[o], rows[op[o].dep].state)
    BY <1>0, AtPoint
  <1>2. op' = [op EXCEPT ![o] = c]
    BY DEF StartRefused, EngineNotReady, Abort
  <1>3. b.ctx = op[o].ctx /\ b.kind = op[o].kind /\ b.dep = op[o].dep /\ b.old = op[o].old /\ b.pc = "stop"
    BY <1>1 DEF Call
  <1>4. live' \subseteq live /\ cur' = cur /\ next' = next /\ rows' = rows /\ faults' = faults
    BY DEF StartRefused, EngineNotReady
  <1>5. SlotsKept(o)
    BY <1>4, SlotsShrink
  <1>6. NoCall.kind = "none"
    BY DEF NoCall
  <1> HIDE DEF b
  <1>7. CASE op[o].kind = "apply"
    <2>1. InState(b, rows[op[o].dep].state)
      BY <1>0, <1>1, <1>3, <1>7 DEF InState
    <2> QED
      BY <1>1, <1>2, <1>3, <1>4, <1>5, <1>7, <2>1, QuietMoves
  <1>8. CASE op[o].kind = "restart"
    <2>1. rows[op[o].dep].state = "ACTIVE"
      BY <1>1, <1>8 DEF InState
    <2> QED
      BY <1>1, <1>2, <1>4, <1>5, <1>6, <1>8, <2>1, QuietMoves
  <1> QED
    BY <1>1, <1>7, <1>8

LEMMA XEngineReady == ASSUME IInv, XInv, NEW o \in Ops, EngineReady(o) PROVE XInv'
  <1>0. op[o].pc = "wait"
    BY DEF EngineReady
  <1>1. /\ op[o].pc # "idle" /\ op[o] \in Call /\ op[o].kind \in {"apply", "restart"}
        /\ InState(op[o], rows[op[o].dep].state)
    BY <1>0, AtPoint
  <1>2. live' = live /\ cur' = cur /\ next' = next /\ rows' = rows /\ faults' = faults
    BY DEF EngineReady
  <1>3. SlotsKept(o)
    BY <1>2, SlotsShrink
  <1>4. \E refs, host, pc :
          /\ op' = [op EXCEPT ![o] = [op[o] EXCEPT !.refs = refs, !.handle = 0, !.pc = pc, !.host = host]]
          /\ pc \in {"persist", "start"}
    <2> DEFINE p == PlanOf(op[o].dep)
               e == NextEngine(o)
               ref == [node |-> e.node, role |-> e.role, handle |-> op[o].handle]
    <2>1. CASE op[o].kind = "apply"
      <3> DEFINE refs == Append(op[o].refs, ref)
                 pc == IF Len(refs) = Len(Roster(p)) THEN "persist" ELSE "start"
                 host == IF Len(refs) = Len(Roster(p)) THEN p.host ELSE NoNode
      <3>1. op' = [op EXCEPT ![o] = [op[o] EXCEPT !.refs = refs, !.handle = 0, !.pc = pc, !.host = host]]
        BY <2>1 DEF EngineReady
      <3>2. pc \in {"persist", "start"}
        OBVIOUS
      <3> HIDE DEF refs, pc, host
      <3> QED
        BY <3>1, <3>2
    <2>2. CASE op[o].kind # "apply"
      <3> DEFINE i == CHOOSE j \in DOMAIN op[o].refs : op[o].refs[j].node = op[o].node
                 refs == [op[o].refs EXCEPT ![i] = ref]
      <3>1. op' = [op EXCEPT ![o] = [op[o] EXCEPT !.refs = refs, !.handle = 0, !.pc = "persist"]]
        BY <2>2 DEF EngineReady
      <3> HIDE DEF refs
      <3>2. [op[o] EXCEPT !.refs = refs, !.handle = 0, !.pc = "persist"]
              = [op[o] EXCEPT !.refs = refs, !.handle = 0, !.pc = "persist", !.host = op[o].host]
        BY <1>1 DEF Call
      <3> QED
        BY <3>1, <3>2
    <2> QED
      BY <2>1, <2>2
  <1>5. PICK refs, host, pc :
          /\ op' = [op EXCEPT ![o] = [op[o] EXCEPT !.refs = refs, !.handle = 0, !.pc = pc, !.host = host]]
          /\ pc \in {"persist", "start"}
    BY <1>4
  <1> DEFINE c == [op[o] EXCEPT !.refs = refs, !.handle = 0, !.pc = pc, !.host = host]
  <1>6. c.ctx = op[o].ctx /\ c.kind = op[o].kind /\ c.dep = op[o].dep /\ c.old = op[o].old /\ c.pc = pc
    BY <1>1 DEF Call
  <1>7. op' = [op EXCEPT ![o] = c]
    BY <1>5
  <1> HIDE DEF c
  <1>8. InState(c, rows[op[o].dep].state)
    BY <1>0, <1>1, <1>5, <1>6 DEF InState
  <1> QED
    BY <1>1, <1>2, <1>3, <1>6, <1>7, <1>8, QuietMoves

\* A step that writes the row of the call's own deployment.
LEMMA WritingMoves ==
    ASSUME Exclusive, IInv, XInv, NEW o \in Ops, op[o].pc # "idle", NEW c,
           NEW state, NEW engines, NEW host, Persist(o, op[o].dep, state, engines, host),
           op' = [op EXCEPT ![o] = c], UNCHANGED <<live, cur, next>>,
           \/ /\ c = NoCall /\ state \notin Passing
              /\ state = "STOPPED" => \A i \in 1..Len(engines) : Freed(live, cur, op[o].dep, engines[i].node)
           \/ /\ c.ctx = op[o].ctx /\ c.kind = op[o].kind /\ c.dep = op[o].dep /\ c.old = op[o].old
              /\ InState(c, state),
           c.kind = "teardown" => c.pc = "stop" /\ c.left = Len(c.refs) /\ c.left \in Nat
    PROVE  XInv'
  <1>1. /\ op[o].kind # "none" /\ op[o].ctx /\ op[o].dep \in 1..Len(rows)
    BY AtPoint
  <1>2. NoCall.kind = "none" /\ NoCall.dep = 0 /\ NoCall.old = 0 /\ NoCall.ctx
    BY DEF NoCall
  <1>3. /\ faults' = faults /\ Len(rows') = Len(rows)
        /\ rows'[op[o].dep].state = state /\ rows'[op[o].dep].engines = engines
        /\ \A x \in 1..Len(rows) : x # op[o].dep => rows'[x] = rows[x]
    BY <1>1, PersistExact
  <1>4. live' = live /\ cur' = cur /\ next' = next
    OBVIOUS
  <1>5. StepTo(o, c)
    BY <1>1, <1>2, <1>3, <1>4 DEF StepTo
  <1>6. SlotsKept(o)
    BY <1>4, SlotsShrink
  <1>7. c.kind = "teardown" => \A i \in 1..Len(c.refs) : ~(i > c.left)
    OBVIOUS
  <1> QED
    BY <1>1, <1>5, <1>6, <1>7, ExclusiveStep

LEMMA XPersistActive == ASSUME Exclusive, IInv, XInv, NEW o \in Ops, PersistActive(o) PROVE XInv'
  <1> DEFINE b == [op[o] EXCEPT !.pc = "publish"]
             c == IF op[o].kind = "apply" THEN b ELSE NoCall
  <1>0. op[o].pc = "persist" /\ Persist(o, op[o].dep, "ACTIVE", op[o].refs, op[o].host)
    BY DEF PersistActive
  <1>1. op[o].pc # "idle" /\ op[o] \in Call /\ op[o].kind \in {"apply", "restart"}
    BY <1>0, AtPoint
  <1>2. op' = [op EXCEPT ![o] = c] /\ UNCHANGED <<live, cur, next>>
    BY DEF PersistActive
  <1>3. b.ctx = op[o].ctx /\ b.kind = op[o].kind /\ b.dep = op[o].dep /\ b.old = op[o].old /\ b.pc = "publish"
    BY <1>1 DEF Call
  <1>4. NoCall.kind = "none" /\ "ACTIVE" \notin Passing
    BY DEF NoCall, Passing
  <1> HIDE DEF b
  <1>5. op[o].kind = "apply" => InState(b, "ACTIVE")
    BY <1>3 DEF InState
  <1> QED
    BY <1>0, <1>1, <1>2, <1>3, <1>4, <1>5, WritingMoves

LEMMA XPersistFailed == ASSUME Exclusive, IInv, XInv, NEW o \in Ops, PersistFailed(o) PROVE XInv'
  <1>0. op[o].pc = "stop" /\ Persist(o, op[o].dep, "FAILED", op[o].refs, NoNode)
    BY DEF PersistFailed
  <1>1. op' = [op EXCEPT ![o] = NoCall] /\ UNCHANGED <<live, cur, next>>
    BY DEF PersistFailed
  <1>2. NoCall.kind = "none" /\ "FAILED" \notin Passing
    BY DEF NoCall, Passing
  <1> QED
    BY <1>0, <1>1, <1>2, WritingMoves

LEMMA XPersistStopped == ASSUME Exclusive, IInv, XInv, NEW o \in Ops, PersistStopped(o) PROVE XInv'
  <1>0. op[o].pc = "done" /\ Persist(o, op[o].dep, "STOPPED", op[o].refs, op[o].host)
    BY DEF PersistStopped
  <1>1. op' = [op EXCEPT ![o] = NoCall] /\ UNCHANGED <<live, cur, next>>
    BY DEF PersistStopped
  <1>2. NoCall.kind = "none" /\ "STOPPED" \notin Passing
    BY DEF NoCall, Passing
  <1>3. op[o].kind = "teardown"
    BY <1>0, AtPoint
  <1>4. \A i \in 1..Len(op[o].refs) : Freed(live, cur, op[o].dep, op[o].refs[i].node)
    BY <1>0, <1>3 DEF XInv, Emptied
  <1> QED
    BY <1>0, <1>1, <1>2, <1>4, WritingMoves

LEMMA XMarkStopping == ASSUME Exclusive, IInv, XInv, NEW o \in Ops, MarkStopping(o) PROVE XInv'
  <1> DEFINE c == [op[o] EXCEPT !.pc = "stop", !.left = Len(op[o].refs)]
  <1>0. op[o].pc = "mark" /\ Persist(o, op[o].dep, "STOPPING", op[o].refs, op[o].host)
    BY DEF MarkStopping
  <1>1. op' = [op EXCEPT ![o] = c] /\ UNCHANGED <<live, cur, next>>
    BY DEF MarkStopping
  <1>2. op[o].kind = "teardown" /\ op[o] \in Call /\ Len(op[o].refs) \in Nat
    BY <1>0, AtPoint, Agents
  <1>3. /\ c.ctx = op[o].ctx /\ c.kind = op[o].kind /\ c.dep = op[o].dep /\ c.old = op[o].old /\ c.pc = "stop"
        /\ c.left = Len(c.refs) /\ c.left \in Nat
    BY <1>2 DEF Call
  <1> HIDE DEF c
  <1>4. InState(c, "STOPPING")
    BY <1>2, <1>3 DEF InState
  <1> QED
    BY <1>0, <1>1, <1>3, <1>4, WritingMoves

LEMMA XDeleteRoute == ASSUME Exclusive, IInv, XInv, NEW o \in Ops, DeleteRoute(o) PROVE XInv'
  <1> DEFINE c == [op[o] EXCEPT !.pc = "done"]
  <1>0. op[o].pc = "stop" /\ op[o].kind = "teardown" /\ op[o].left = 0
    BY DEF DeleteRoute
  <1>1. op' = [op EXCEPT ![o] = c] /\ UNCHANGED <<rows, live, cur, next>>
    BY DEF DeleteRoute
  <1>2. op[o] \in Call /\ InState(op[o], rows[op[o].dep].state) /\ op[o].ctx
    BY <1>0, AtPoint
  <1>3. /\ c.ctx = op[o].ctx /\ c.kind = op[o].kind /\ c.dep = op[o].dep /\ c.old = op[o].old /\ c.pc = "done"
        /\ c.refs = op[o].refs
    BY <1>2 DEF Call
  <1>4. faults' = faults
    BY <1>2, NoFault DEF DeleteRoute, SetRoute, CallOK, CallLost
  <1> HIDE DEF c
  <1>5. InState(c, rows[op[o].dep].state)
    BY <1>0, <1>2, <1>3 DEF InState
  <1>6. \A i \in 1..Len(c.refs) : Freed(live', cur', c.dep, c.refs[i].node)
    BY <1>0, <1>1, <1>3 DEF XInv, Emptied
  <1>7. SlotsKept(o)
    BY <1>1, SlotsShrink
  <1> QED
    BY <1>0, <1>1, <1>3, <1>4, <1>5, <1>6, <1>7, QuietMoves

LEMMA XStopNext == ASSUME Exclusive, IInv, XInv, NEW o \in Ops, StopNext(o) PROVE XInv'
  <1> DEFINE c == [op[o] EXCEPT !.left = op[o].left - 1]
             n == op[o].refs[op[o].left].node
  <1>0. op[o].pc = "stop" /\ op[o].left > 0
    BY DEF StopNext
  <1>1. op' = [op EXCEPT ![o] = c] /\ UNCHANGED <<rows, next>>
    BY DEF StopNext
  <1>2. /\ op[o] \in Call /\ InState(op[o], rows[op[o].dep].state) /\ op[o].left <= Len(op[o].refs)
        /\ op[o].left \in Nat /\ Len(op[o].refs) \in Nat
    BY <1>0, AtPoint, Agents DEF Call
  <1>3. /\ c.ctx = op[o].ctx /\ c.kind = op[o].kind /\ c.dep = op[o].dep /\ c.old = op[o].old /\ c.pc = "stop"
        /\ c.refs = op[o].refs /\ c.left = op[o].left - 1
    BY <1>0, <1>2 DEF Call
  <1>4. n \in Nodes
    BY <1>0, <1>2, Agents
  <1>5. faults' = faults /\ AgentStop(n)
    BY NoFault DEF StopNext
  <1> HIDE DEF c
  <1>6. InState(c, rows[op[o].dep].state)
    BY <1>0, <1>2, <1>3 DEF InState
  <1>7. /\ SlotsKept(o)
        /\ \A d : \A m \in Nodes : Freed(live, cur, d, m) \/ m = n => Freed(live', cur', d, m)
    BY <1>1, <1>4, <1>5, SlotsStop
  <1>8. ASSUME c.kind = "teardown", NEW i \in 1..Len(c.refs), i > c.left
        PROVE  Freed(live', cur', c.dep, c.refs[i].node)
    <2>1. c.refs[i].node \in Nodes
      BY <1>3, Agents
    <2>2. CASE i = op[o].left
      BY <1>3, <1>7, <2>1, <2>2
    <2>3. CASE i > op[o].left
      BY <1>0, <1>3, <1>7, <1>8, <2>1, <2>3 DEF XInv, Emptied
    <2> QED
      BY <1>2, <1>3, <1>8, <2>2, <2>3
  <1> HIDE DEF n
  <1> QED
    BY <1>0, <1>1, <1>3, <1>5, <1>6, <1>7, <1>8, QuietMoves

LEMMA XPublishRoute == ASSUME Exclusive, IInv, XInv, NEW o \in Ops, PublishRoute(o) PROVE XInv'
  <1> DEFINE b == [NoCall EXCEPT !.kind = "teardown", !.pc = "get", !.dep = op[o].old]
             c == IF op[o].old = 0 THEN NoCall ELSE b
  <1>0. op[o].pc = "publish"
    BY DEF PublishRoute
  <1>1. /\ op[o].kind = "apply" /\ op[o].ctx /\ rows[op[o].dep].state = "ACTIVE"
        /\ op[o].old # 0 => rows[op[o].old].state = "ACTIVE"
        /\ op[o].dep \in 1..Len(rows)
    BY <1>0, AtPoint DEF InState
  <1>2. op' = [op EXCEPT ![o] = c] /\ UNCHANGED <<rows, live, cur, next>>
    BY DEF PublishRoute
  <1>3. faults' = faults
    BY <1>1, NoFault DEF PublishRoute, SetRoute, CallOK, CallLost
  <1>4. NoCall.kind = "none" /\ NoCall.dep = 0 /\ NoCall.old = 0 /\ NoCall.ctx
    BY DEF NoCall
  <1>5. b.kind = "teardown" /\ b.pc = "get" /\ b.dep = op[o].old /\ b.old = 0 /\ b.ctx
    BY DEF NoCall
  <1> HIDE DEF b
  <1>6. op[o].old # 0 => InState(b, rows[b.dep].state)
    BY <1>1, <1>5 DEF InState, Passing
  <1>7. SlotsKept(o)
    BY <1>2, SlotsShrink
  <1>8. StepTo(o, c)
    <2>1. CASE op[o].old = 0
      BY <1>1, <1>2, <1>3, <1>4, <2>1 DEF StepTo, Passing
    <2>2. CASE op[o].old # 0
      BY <1>1, <1>2, <1>3, <1>5, <1>6, <2>2 DEF StepTo, Passing
    <2> QED
      BY <2>1, <2>2
  <1>9. c.kind = "teardown" => c.pc \notin {"stop", "done"}
    BY <1>4, <1>5
  <1> HIDE DEF c
  <1> QED
    BY <1>1, <1>7, <1>8, <1>9, ExclusiveStep

LEMMA XGetDeployment == ASSUME IInv, XInv, NEW o \in Ops, GetDeployment(o) PROVE XInv'
  <1> DEFINE r == rows[op[o].dep]
             b == [op[o] EXCEPT !.refs = r.engines, !.host = r.host,
                                !.pc = IF op[o].kind = "restart" THEN "start" ELSE "mark"]
             gone == op[o].kind = "restart" /\ \A i \in DOMAIN r.engines : r.engines[i].node # op[o].node
  <1>0. op[o].pc = "get"
    BY DEF GetDeployment
  <1>1. op[o] \in Call /\ op[o].kind \in {"teardown", "restart"} /\ InState(op[o], r.state)
    BY <1>0, AtPoint
  <1>2. op' = [op EXCEPT ![o] = IF gone THEN NoCall ELSE b] /\ UNCHANGED <<rows, live, cur, next, faults>>
    BY DEF GetDeployment, CallOK
  <1>3. /\ b.ctx = op[o].ctx /\ b.kind = op[o].kind /\ b.dep = op[o].dep /\ b.old = op[o].old
        /\ b.pc = IF op[o].kind = "restart" THEN "start" ELSE "mark"
    BY <1>1 DEF Call
  <1>4. NoCall.kind = "none"
    BY DEF NoCall
  <1> HIDE DEF b
  <1>5. InState(b, r.state) /\ (gone => r.state = "ACTIVE")
    BY <1>0, <1>1, <1>3 DEF InState
  <1>6. SlotsKept(o)
    BY <1>2, SlotsShrink
  <1> HIDE DEF gone
  <1>7. CASE gone
    BY <1>0, <1>2, <1>4, <1>5, <1>6, <1>7, QuietMoves
  <1>8. CASE ~gone
    BY <1>0, <1>2, <1>3, <1>5, <1>6, <1>8, QuietMoves
  <1> QED
    BY <1>7, <1>8

-----------------------------------------------------------------------------
(***************************************************************************)
(* Calls begin                                                             *)
(***************************************************************************)
LEMMA BeginStep ==
    ASSUME IInv, XInv, NEW o \in Ops, Idle(o), NEW c, op' = [op EXCEPT ![o] = c],
           UNCHANGED <<live, cur, next, faults>>,
           c.kind # "none", c.ctx, c.pc \in {"get", "start"}, c.dep # c.old,
           c.dep \in 1..Len(rows'), c.dep \in 1..Len(rows) => ~Busy(c.dep), InState(c, rows'[c.dep].state),
           c.old = 0 \/ (c.old \in 1..Len(rows) /\ ~Busy(c.old) /\ rows[c.old].state = "ACTIVE"),
           Len(rows') \in Nat, Len(rows) <= Len(rows'),
           \A d \in 1..Len(rows) : rows'[d] = rows[d],
           \A d \in 1..Len(rows') : d \in 1..Len(rows) \/ d = c.dep
    PROVE  XInv'
  <1>0. /\ op'[o] = c /\ \A x \in Ops : x # o => op'[x] = op[x]
        /\ Len(rows) \in Nat /\ op[o].dep = 0 /\ op[o].old = 0
        /\ live' = live /\ cur' = cur /\ next' = next /\ faults' = faults
    BY Agents, Calls DEF IInv, TypeOK, Idle
  <1>1. \A x \in Ops : op[x].dep \in 0..Len(rows) /\ op[x].old \in 0..Len(rows) /\ (op[x].kind # "none" => op[x].dep \in 1..Len(rows))
    BY <1>0, Calls
  <1>2. \A x \in Ops : x # o => op[x].dep # c.dep /\ op[x].old # c.dep /\ (c.old # 0 => op[x].dep # c.old /\ op[x].old # c.old)
    BY <1>0, <1>1 DEF Busy
  <1>3. ASSUME NEW d \in 1..Len(rows'), ~Busy(d)'
        PROVE  d \in 1..Len(rows) /\ ~Busy(d) /\ rows'[d] = rows[d]
    <2>1. \A x \in Ops : op'[x].dep # d /\ op'[x].old # d
      BY <1>3 DEF Busy
    <2>2. d \in 1..Len(rows)
      BY <1>0, <2>1
    <2>3. ~Busy(d)
      BY <1>0, <2>1, <2>2 DEF Busy
    <2> QED
      BY <2>2, <2>3
  <1>4. OneCall'
    <2> SUFFICES ASSUME NEW x \in Ops, NEW y \in Ops, NEW d \in 1..Len(rows'),
                        op'[x].dep = d \/ op'[x].old = d, op'[y].dep = d \/ op'[y].old = d
                 PROVE  x = y
      BY DEF OneCall
    <2>1. CASE x = o \/ y = o
      BY <1>0, <1>2, <2>1
    <2>2. CASE x # o /\ y # o
      <3>1. op'[x] = op[x] /\ op'[y] = op[y]
        BY <1>0, <2>2
      <3>2. d \in 1..Len(rows)
        BY <1>0, <1>1, <3>1
      <3> QED
        BY <3>1, <3>2 DEF XInv, OneCall
    <2> QED
      BY <2>1, <2>2
  <1>5. Uncut'
    BY <1>0 DEF XInv, Uncut
  <1>6. Tracked'
    <2> SUFFICES ASSUME NEW x \in Ops, op'[x].kind # "none"
                 PROVE  /\ op'[x].dep # op'[x].old
                        /\ InState(op'[x], rows'[op'[x].dep].state)
                        /\ op'[x].old # 0 => rows'[op'[x].old].state = "ACTIVE"
      BY DEF Tracked, InState
    <2>1. CASE x = o
      BY <1>0, <2>1
    <2>2. CASE x # o
      <3>1. op'[x] = op[x]
        BY <1>0, <2>2
      <3>2. /\ op[x].dep # op[x].old /\ InState(op[x], rows[op[x].dep].state)
            /\ op[x].old # 0 => rows[op[x].old].state = "ACTIVE"
        BY <3>1 DEF XInv, Tracked
      <3>3. rows'[op[x].dep] = rows[op[x].dep] /\ (op[x].old # 0 => rows'[op[x].old] = rows[op[x].old])
        BY <1>0, <1>1, <3>1
      <3> QED
        BY <3>1, <3>2, <3>3
    <2> QED
      BY <2>1, <2>2
  <1>7. Rested'
    <2> SUFFICES ASSUME NEW d \in 1..Len(rows'), ~Busy(d)'
                 PROVE  rows'[d].state \notin Passing
      BY DEF Rested, Busy
    <2> QED
      BY <1>3 DEF XInv, Rested
  <1>8. HandlesIssued'
    BY <1>0 DEF XInv, HandlesIssued
  <1>9. Emptied'
    <2> SUFFICES ASSUME NEW x \in Ops, op'[x].kind = "teardown"
                 PROVE  /\ op'[x].pc = "stop" => \A i \in 1..Len(op'[x].refs) : i > op'[x].left => Freed(live', cur', op'[x].dep, op'[x].refs[i].node)
                        /\ op'[x].pc = "done" => \A i \in 1..Len(op'[x].refs) : Freed(live', cur', op'[x].dep, op'[x].refs[i].node)
      BY DEF Emptied
    <2>1. CASE x = o
      BY <1>0, <2>1
    <2>2. CASE x # o
      <3>1. op'[x] = op[x]
        BY <1>0, <2>2
      <3> QED
        BY <1>0, <3>1 DEF XInv, Emptied
    <2> QED
      BY <2>1, <2>2
  <1>10. StoppedFreed'
    <2> SUFFICES ASSUME NEW d \in 1..Len(rows'), ~Busy(d)', rows'[d].state = "STOPPED"
                 PROVE  \A i \in 1..Len(rows'[d].engines) : Freed(live', cur', d, rows'[d].engines[i].node)
      BY DEF StoppedFreed, Busy
    <2> QED
      BY <1>0, <1>3 DEF XInv, StoppedFreed
  <1> QED
    BY <1>4, <1>5, <1>6, <1>7, <1>8, <1>9, <1>10 DEF XInv

LEMMA XApplyBegin ==
    ASSUME IInv, XInv, NEW o \in Ops, NEW p \in Plans, NEW old, ApplyBegin(o, p, old),
           old = 0 \/ (old \in 1..Len(rows) /\ ~Busy(old) /\ rows[old].state = "ACTIVE")
    PROVE  XInv'
  <1> DEFINE c == [NoCall EXCEPT !.kind = "apply", !.pc = "start", !.dep = Len(rows) + 1, !.old = old]
             n == NewRow(p)
  <1>1. Idle(o) /\ op' = [op EXCEPT ![o] = c] /\ UNCHANGED <<live, cur, next, faults>> /\ rows' = Append(rows, n)
    BY DEF ApplyBegin, Begin
  <1>2. c.kind = "apply" /\ c.pc = "start" /\ c.dep = Len(rows) + 1 /\ c.old = old /\ c.ctx
    BY DEF NoCall
  <1>3. n.state = "PROVISIONING"
    BY DEF NewRow
  <1>4. rows \in Seq(Row) /\ Len(rows) \in Nat
    BY DEF IInv, TypeOK
  <1> HIDE DEF c, n
  <1>5. /\ Len(rows') = Len(rows) + 1 /\ rows'[Len(rows) + 1] = n
        /\ \A d \in 1..Len(rows) : rows'[d] = rows[d]
    BY <1>1, <1>4
  <1>6. InState(c, rows'[c.dep].state)
    BY <1>2, <1>3, <1>5 DEF InState
  <1>7. c.dep \notin 1..Len(rows) /\ c.dep \in 1..Len(rows') /\ c.dep # c.old
    BY <1>2, <1>4, <1>5
  <1>8. \A d \in 1..Len(rows') : d \in 1..Len(rows) \/ d = c.dep
    BY <1>2, <1>4, <1>5
  <1>9. Len(rows') \in Nat /\ Len(rows) <= Len(rows')
    BY <1>4, <1>5
  <1>10. c.kind # "none" /\ c.pc \in {"get", "start"} /\ (c.dep \in 1..Len(rows) => ~Busy(c.dep))
    BY <1>2, <1>7
  <1>11. c.old = 0 \/ (c.old \in 1..Len(rows) /\ ~Busy(c.old) /\ rows[c.old].state = "ACTIVE")
    BY <1>2
  <1> QED
    BY <1>1, <1>2, <1>5, <1>6, <1>7, <1>8, <1>9, <1>10, <1>11, BeginStep

LEMMA XCallBegin ==
    ASSUME Exclusive, IInv, XInv, NEW o \in Ops, NEW d \in 1..Len(rows),
           TeardownBegin(o, d) \/ (o = Rec /\ \E n \in Nodes : RestartBegin(d, n))
    PROVE  XInv'
  <1>1. Idle(o) /\ ~Busy(d) /\ UNCHANGED <<rows, live, cur, next, faults>>
    BY DEF TeardownBegin, RestartBegin, Begin, Free, Exclusive
  <1>2. rows[d].state \notin Passing
    BY <1>1 DEF XInv, Rested
  <1>3. \E c : /\ op' = [op EXCEPT ![o] = c]
               /\ c.pc = "get" /\ c.dep = d /\ c.old = 0 /\ c.ctx /\ c.kind \in {"teardown", "restart"}
               /\ c.kind = "restart" => rows[d].state = "ACTIVE"
    <2>1. CASE TeardownBegin(o, d)
      <3> DEFINE c == [NoCall EXCEPT !.kind = "teardown", !.pc = "get", !.dep = d]
      <3>1. op' = [op EXCEPT ![o] = c]
        BY <2>1 DEF TeardownBegin, Begin
      <3>2. c.pc = "get" /\ c.dep = d /\ c.old = 0 /\ c.ctx /\ c.kind = "teardown"
        BY DEF NoCall
      <3> HIDE DEF c
      <3> QED
        BY <3>1, <3>2
    <2>2. CASE o = Rec /\ \E n \in Nodes : RestartBegin(d, n)
      <3>0. PICK n \in Nodes : RestartBegin(d, n)
        BY <2>2
      <3> DEFINE c == [NoCall EXCEPT !.kind = "restart", !.pc = "get", !.dep = d, !.node = n]
      <3>1. op' = [op EXCEPT ![o] = c] /\ rows[d].state = "ACTIVE"
        BY <2>2, <3>0 DEF RestartBegin, Begin
      <3>2. c.pc = "get" /\ c.dep = d /\ c.old = 0 /\ c.ctx /\ c.kind = "restart"
        BY DEF NoCall
      <3> HIDE DEF c
      <3> QED
        BY <3>1, <3>2
    <2> QED
      BY <2>1, <2>2
  <1>4. PICK c : /\ op' = [op EXCEPT ![o] = c]
                 /\ c.pc = "get" /\ c.dep = d /\ c.old = 0 /\ c.ctx /\ c.kind \in {"teardown", "restart"}
                 /\ c.kind = "restart" => rows[d].state = "ACTIVE"
    BY <1>3
  <1>5. InState(c, rows[d].state)
    BY <1>2, <1>4 DEF InState
  <1>6. Len(rows) \in Nat /\ rows' = rows
    BY <1>1, Agents
  <1>7. Len(rows') \in Nat /\ Len(rows) <= Len(rows') /\ d # 0
    BY <1>6
  <1>8. c.kind # "none" /\ c.pc \in {"get", "start"} /\ c.dep # c.old /\ c.dep \in 1..Len(rows')
    BY <1>4, <1>6, <1>7
  <1>9. InState(c, rows'[c.dep].state) /\ (c.dep \in 1..Len(rows) => ~Busy(c.dep))
    BY <1>1, <1>4, <1>5
  <1>10. (\A x \in 1..Len(rows) : rows'[x] = rows[x]) /\ (\A x \in 1..Len(rows') : x \in 1..Len(rows) \/ x = c.dep)
    BY <1>6
  <1> QED
    BY <1>1, <1>4, <1>7, <1>8, <1>9, <1>10, BeginStep

-----------------------------------------------------------------------------
(***************************************************************************)
(* The invariant                                                           *)
(***************************************************************************)
LEMMA XInit == Init => XInv
  <1> SUFFICES ASSUME Init PROVE XInv
    OBVIOUS
  <1>1. rows = <<>> /\ live = {} /\ faults = 0 /\ \A o \in Ops : op[o] = NoCall
    BY DEF Init
  <1>2. Len(rows) = 0
    BY <1>1
  <1>3. NoCall.kind = "none" /\ NoCall.ctx
    BY DEF NoCall
  <1>4. \A o \in Ops : op[o].kind = "none" /\ op[o].ctx
    BY <1>1, <1>3
  <1>5. 1..Len(rows) = {}
    BY <1>2
  <1> QED
    BY <1>1, <1>4, <1>5 DEF XInv, OneCall, Uncut, Tracked, Rested, HandlesIssued, Emptied, StoppedFreed

LEMMA XStep ==
    ASSUME Exclusive, IInv, XInv, NEW o \in Ops, Step(o)
    PROVE  XInv'
  <1>1. ~GetFails(o)
    <2>1. op[o].ctx
      BY DEF XInv, Uncut
    <2> QED
      BY <2>1, NoFault DEF GetFails, CallLost
  <1> QED
    BY <1>1, XStartEngine, XAborts, XEngineReady, XPersistActive, XPublishRoute, XStopNext, XPersistFailed,
       XGetDeployment, XMarkStopping, XDeleteRoute, XPersistStopped DEF Step

LEMMA XNext == ASSUME Exclusive, IInv, XInv, [Next]_vars PROVE XInv'
  <1>0. DOMAIN rows = 1..Len(rows) /\ Rec \in Ops /\ Api \subseteq Ops
    BY Agents DEF Ops
  <1>1. ASSUME NEW o \in Api, NEW p \in Plans, Deploy(o, p) PROVE XInv'
    <2>1. o \in Ops /\ ApplyBegin(o, p, 0)
      BY <1>0, <1>1 DEF Deploy
    <2> QED
      BY <2>1, XApplyBegin
  <1>2. ASSUME NEW d \in DOMAIN rows, NEW p \in Plans, Failover(d, p) PROVE XInv'
    <2>1. ApplyBegin(Rec, p, d) /\ ~Busy(d) /\ rows[d].state = "ACTIVE"
      BY <1>2 DEF Failover, Free, Exclusive
    <2> QED
      BY <1>0, <2>1, XApplyBegin
  <1>3. ASSUME NEW o \in Ops, NEW d \in DOMAIN rows, TeardownBegin(o, d) PROVE XInv'
    BY <1>0, <1>3, XCallBegin
  <1>4. ASSUME NEW d \in DOMAIN rows, NEW n \in Nodes, RestartBegin(d, n) PROVE XInv'
    BY <1>0, <1>4, XCallBegin
  <1>5. ASSUME NEW o \in Ops, Step(o) PROVE XInv'
    BY <1>5, XStep
  <1>6. ASSUME NEW o \in Api, Cancel(o) PROVE XInv'
    BY <1>6, NoFault DEF Cancel
  <1>7. CASE Crash
    BY <1>7, NoFault DEF Crash
  <1>8. CASE UNCHANGED vars
    BY <1>8 DEF vars, XInv, OneCall, Uncut, Tracked, InState, Rested, Busy, HandlesIssued, Emptied, StoppedFreed, Freed
  <1> QED
    BY <1>1, <1>2, <1>3, <1>4, <1>5, <1>6, <1>7, <1>8 DEF Next, CallSteps

\* XInv is an invariant: a deployment is one call's at a time, and the state of its row is
\* the one that call's position in Apply, Teardown or RestartEngine leaves it in.
THEOREM ExclusiveInvariance == Exclusive => (Spec => []XInv)
  <1> SUFFICES ASSUME Exclusive PROVE Spec => []XInv
    OBVIOUS
  <1>1. IInv /\ XInv /\ [Next]_vars => XInv'
    BY XNext
  <1> QED
    BY <1>1, XInit, Invariance, PTL DEF Spec

\* Teardown frees what it lists: StoppedFreesSlots, for any fleet, plans and number of
\* calls in progress, when calls on one deployment do not overlap and none is lost.
THEOREM StoppedFrees == Exclusive => (Spec => []StoppedFreesSlots)
  <1> SUFFICES ASSUME Exclusive PROVE Spec => []StoppedFreesSlots
    OBVIOUS
  <1>1. ASSUME IInv, XInv PROVE StoppedFreesSlots
    <2> SUFFICES ASSUME NEW d \in DOMAIN rows, rows[d].state = "STOPPED", ~Busy(d),
                        NEW i \in DOMAIN rows[d].engines, NEW e \in live,
                        e.dep = d, e.node = rows[d].engines[i].node, e.handle = cur[e.node]
                 PROVE  FALSE
      BY DEF StoppedFreesSlots
    <2>1. d \in 1..Len(rows) /\ i \in 1..Len(rows[d].engines)
      BY <1>1, Agents
    <2>2. Freed(live, cur, d, rows[d].engines[i].node)
      BY <1>1, <2>1 DEF XInv, StoppedFreed
    <2> QED
      BY <2>2 DEF Freed
  <1>2. IInv /\ XInv => StoppedFreesSlots
    BY <1>1
  <1>3. Spec => []XInv
    BY ExclusiveInvariance
  <1> QED
    BY <1>2, <1>3, Invariance, PTL

-----------------------------------------------------------------------------
(***************************************************************************)
(* The rows implement DeploymentLifecycle                                  *)
(***************************************************************************)
\* The abstract state: what readers see of the rows.
Seen == [d \in DOMAIN rows |-> rows[d].state]

LEMMA SeenFacts ==
    ASSUME IInv
    PROVE  /\ Seen \in Seq(States) /\ Len(Seen) = Len(rows) /\ DOMAIN Seen = 1..Len(rows)
           /\ \A d \in 1..Len(rows) : Seen[d] = rows[d].state /\ rows[d].state \in States
  <1>1. rows \in Seq(Row) /\ DOMAIN rows = 1..Len(rows) /\ Len(rows) \in Nat
    BY DEF IInv, TypeOK
  <1>2. \A d \in 1..Len(rows) : rows[d].state \in States
    <2>1. \A d \in 1..Len(rows) : rows[d] \in Row
      BY <1>1
    <2> QED
      BY <2>1 DEF Row
  <1>3. Seen \in [1..Len(rows) -> States]
    BY <1>1, <1>2 DEF Seen
  <1> QED
    BY <1>1, <1>2, <1>3 DEF Seen

\* A step that writes no row is a stutter.
LEMMA UnseenStep ==
    ASSUME rows' = rows
    PROVE  [Lifecycle!Next]_Seen
  BY DEF Seen

\* A write of the call's deployment is a move of the lifecycle, or repeats its state.
LEMMA SeenWrite ==
    ASSUME Exclusive, IInv, XInv, NEW o \in Ops, op[o].pc # "idle",
           NEW state, NEW engines, NEW host, Persist(o, op[o].dep, state, engines, host),
           \/ <<rows[op[o].dep].state, state>> \in Lifecycle!Allowed
           \/ rows[op[o].dep].state = state
    PROVE  [Lifecycle!Next]_Seen
  <1>1. PICK d \in 1..Len(rows) : d = op[o].dep
    BY AtPoint
  <1>2. /\ op[o].ctx
        /\ rows' = [rows EXCEPT ![d] = [state |-> state, plan |-> rows[d].plan, engines |-> engines, host |-> host]]
    BY <1>1, NoFault DEF XInv, Uncut, Persist, CallOK, CallLost
  <1>3. rows'[d].state = state /\ \A x \in 1..Len(rows) : x # d => rows'[x] = rows[x]
    BY <1>1, PersistExact
  <1>4. DOMAIN rows' = DOMAIN rows /\ DOMAIN rows = 1..Len(rows)
    BY <1>2, Agents
  <1>5. Seen' = [Seen EXCEPT ![d] = state]
    BY <1>1, <1>3, <1>4 DEF Seen
  <1>6. d \in DOMAIN Seen /\ Seen[d] = rows[d].state
    BY <1>1, SeenFacts
  <1>7. CASE rows[op[o].dep].state = state
    BY <1>1, <1>5, <1>6, <1>7 DEF Seen
  <1>8. CASE <<rows[op[o].dep].state, state>> \in Lifecycle!Allowed
    <2> DEFINE t == <<rows[d].state, state>>
    <2>1. t \in Lifecycle!Allowed /\ t[1] = Seen[d] /\ t[2] = state
      BY <1>1, <1>6, <1>8
    <2> HIDE DEF t
    <2>2. Lifecycle!Move(d)
      BY <1>5, <2>1 DEF Lifecycle!Move, Seen
    <2>3. \E x \in DOMAIN Seen : Lifecycle!Move(x)
      BY <1>6, <2>2
    <2> QED
      BY <2>3 DEF Lifecycle!Next, Seen
  <1> QED
    BY <1>7, <1>8

\* CreateDeployment is the lifecycle's Create.
LEMMA SeenCreate ==
    ASSUME IInv, NEW o \in Ops, NEW p, NEW old, ApplyBegin(o, p, old)
    PROVE  [Lifecycle!Next]_Seen
  <1> DEFINE n == NewRow(p)
  <1>1. rows' = Append(rows, n) /\ Len(rows) < MaxDeps
    BY DEF ApplyBegin
  <1>2. n.state = "PROVISIONING"
    BY DEF NewRow
  <1>3. rows \in Seq(Row) /\ Len(rows) \in Nat /\ DOMAIN rows = 1..Len(rows)
    BY DEF IInv, TypeOK
  <1> HIDE DEF n
  <1>4. /\ Len(rows') = Len(rows) + 1 /\ rows'[Len(rows) + 1] = n /\ DOMAIN rows' = 1..(Len(rows) + 1)
        /\ \A d \in 1..Len(rows) : rows'[d] = rows[d]
    BY <1>1, <1>3
  <1>5. Seen \in Seq(States) /\ Len(Seen) = Len(rows) /\ \A d \in 1..Len(rows) : Seen[d] = rows[d].state
    BY SeenFacts
  <1>6. DOMAIN Seen' = 1..(Len(rows) + 1) /\ \A d \in 1..(Len(rows) + 1) : Seen'[d] = rows'[d].state
    BY <1>4 DEF Seen
  <1> DEFINE a == Append(Seen, "PROVISIONING")
  <1>7. /\ DOMAIN a = 1..(Len(rows) + 1) /\ a[Len(rows) + 1] = "PROVISIONING"
        /\ \A d \in 1..Len(rows) : a[d] = Seen[d]
        /\ a = [d \in 1..(Len(rows) + 1) |-> a[d]]
    <2>1. "PROVISIONING" \in States
      BY DEF States
    <2>2. a \in Seq(States) /\ Len(a) = Len(rows) + 1
      BY <1>5, <2>1
    <2>3. \A s \in Seq(States) : DOMAIN s = 1..Len(s) /\ s = [d \in 1..Len(s) |-> s[d]]
      OBVIOUS
    <2>4. a[Len(rows) + 1] = "PROVISIONING" /\ \A d \in 1..Len(rows) : a[d] = Seen[d]
      BY <1>5, <2>1
    <2> HIDE DEF a
    <2> QED
      BY <2>2, <2>3, <2>4
  <1> HIDE DEF a
  <1>8. ASSUME NEW d \in 1..(Len(rows) + 1) PROVE Seen'[d] = a[d]
    <2>1. CASE d = Len(rows) + 1
      BY <1>2, <1>4, <1>6, <1>7, <2>1
    <2>2. CASE d \in 1..Len(rows)
      BY <1>4, <1>5, <1>6, <1>7, <2>2
    <2> QED
      BY <1>3, <2>1, <2>2
  <1>9. Seen' = [d \in 1..(Len(rows) + 1) |-> Seen'[d]]
    BY <1>4, <1>6 DEF Seen
  <1>10. Seen' = a
    BY <1>7, <1>8, <1>9
  <1> QED
    BY <1>1, <1>5, <1>10 DEF a, Lifecycle!Next, Lifecycle!Create, Seen

LEMMA SeenStep ==
    ASSUME Exclusive, IInv, XInv, NEW o \in Ops, Step(o)
    PROVE  [Lifecycle!Next]_Seen
  <1>1. CASE PersistActive(o)
    <2>1. op[o].pc = "persist" /\ Persist(o, op[o].dep, "ACTIVE", op[o].refs, op[o].host)
      BY <1>1 DEF PersistActive
    <2>2. rows[op[o].dep].state \in {"PROVISIONING", "ACTIVE"}
      BY <2>1, AtPoint DEF InState
    <2> QED
      BY <2>1, <2>2, SeenWrite DEF Lifecycle!Allowed
  <1>2. CASE PersistFailed(o)
    <2>1. op[o].pc = "stop" /\ op[o].kind = "apply" /\ Persist(o, op[o].dep, "FAILED", op[o].refs, NoNode)
      BY <1>2 DEF PersistFailed
    <2>2. rows[op[o].dep].state = "PROVISIONING"
      BY <2>1, AtPoint DEF InState
    <2> QED
      BY <2>1, <2>2, SeenWrite DEF Lifecycle!Allowed
  <1>3. CASE MarkStopping(o)
    <2>1. op[o].pc = "mark" /\ Persist(o, op[o].dep, "STOPPING", op[o].refs, op[o].host)
      BY <1>3 DEF MarkStopping
    <2>2. op[o].kind = "teardown" /\ op[o].dep \in 1..Len(rows) /\ InState(op[o], rows[op[o].dep].state)
      BY <2>1, AtPoint
    <2>3. rows[op[o].dep].state \in {"ACTIVE", "STOPPED", "FAILED"}
      BY <2>1, <2>2, SeenFacts DEF InState, Passing, States
    <2> QED
      BY <2>1, <2>3, SeenWrite DEF Lifecycle!Allowed
  <1>4. CASE PersistStopped(o)
    <2>1. op[o].pc = "done" /\ Persist(o, op[o].dep, "STOPPED", op[o].refs, op[o].host)
      BY <1>4 DEF PersistStopped
    <2>2. rows[op[o].dep].state = "STOPPING"
      BY <2>1, AtPoint DEF InState
    <2> QED
      BY <2>1, <2>2, SeenWrite DEF Lifecycle!Allowed
  <1>5. CASE \/ StartEngine(o) \/ StartRefused(o) \/ EngineReady(o) \/ EngineNotReady(o)
             \/ PublishRoute(o) \/ StopNext(o) \/ GetDeployment(o) \/ GetFails(o) \/ DeleteRoute(o)
    <2>1. rows' = rows
      BY <1>5 DEF StartEngine, StartRefused, EngineReady, EngineNotReady, PublishRoute, StopNext,
                  GetDeployment, GetFails, DeleteRoute
    <2> QED
      BY <2>1, UnseenStep
  <1> QED
    BY <1>1, <1>2, <1>3, <1>4, <1>5 DEF Step

LEMMA SeenNext == ASSUME Exclusive, IInv, XInv, [Next]_vars PROVE [Lifecycle!Next]_Seen
  <1>0. Rec \in Ops /\ Api \subseteq Ops
    BY DEF Ops
  <1>1. ASSUME NEW o \in Api, NEW p \in Plans, Deploy(o, p) PROVE [Lifecycle!Next]_Seen
    BY <1>0, <1>1, SeenCreate DEF Deploy
  <1>2. ASSUME NEW d \in DOMAIN rows, NEW p \in Plans, Failover(d, p) PROVE [Lifecycle!Next]_Seen
    BY <1>0, <1>2, SeenCreate DEF Failover
  <1>3. ASSUME NEW o \in Ops, Step(o) PROVE [Lifecycle!Next]_Seen
    BY <1>3, SeenStep
  <1>4. CASE \/ \E o \in Ops, d \in DOMAIN rows : TeardownBegin(o, d)
             \/ \E d \in DOMAIN rows, n \in Nodes : RestartBegin(d, n)
             \/ \E o \in Api : Cancel(o)
             \/ Crash \/ UNCHANGED vars
    <2>1. rows' = rows
      BY <1>4 DEF TeardownBegin, RestartBegin, Cancel, Crash, vars
    <2> QED
      BY <2>1, UnseenStep
  <1> QED
    BY <1>1, <1>2, <1>3, <1>4 DEF Next, CallSteps

\* When calls on one deployment do not overlap and none is lost, the rows go through
\* the abstract lifecycle and nothing else: a rollout ends ACTIVE or FAILED, either is
\* left only by a teardown, and what is STOPPED is not ACTIVE again.
THEOREM LifecycleImplemented == Exclusive => (Spec => Lifecycle!Safety)
  <1> SUFFICES ASSUME Exclusive PROVE Spec => Lifecycle!Safety
    OBVIOUS
  <1>1. Init => Lifecycle!Init
    <2> SUFFICES ASSUME Init PROVE Lifecycle!Init
      OBVIOUS
    <2>1. rows = <<>>
      BY DEF Init
    <2> QED
      BY <2>1 DEF Lifecycle!Init
  <1>2. IInv /\ XInv /\ [Next]_vars => [Lifecycle!Next]_Seen
    BY SeenNext
  <1>3. Spec => []XInv
    BY ExclusiveInvariance
  <1> QED
    BY <1>1, <1>2, <1>3, Invariance, PTL DEF Spec, Seen, Lifecycle!Safety
=============================================================================
