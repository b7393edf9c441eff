------------------------------- MODULE Planner -------------------------------
(***************************************************************************)
(* The planner's pipeline (planner/plan), as its callers see it: a plan    *)
(* with its failover alternatives, each computed by a goroutine of its     *)
(* own, and a replica set, whose groups are planned concurrently. The      *)
(* caller's context can be cancelled at any point.                         *)
(*                                                                         *)
(* A job is what a request brings together: the fleet and its links, the   *)
(* model and the operator's constraints                                    *)
(*   [hw, links, quants, kv, draft,                                        *)
(*    include, exclude, allowed, force, host, quant, pins, replicas]       *)
(* with sets and 0 for "not given". Names, explanations and the throughput *)
(* estimate are left out.                                                  *)
(***************************************************************************)
EXTENDS Partition

CONSTANT Jobs        \* the requests that may arrive

Machine(h) == h.ram \in Nat /\ h.vram \in Nat /\ h.disk \in Nat /\ h.bw \in Nat

\* Numbers are not negative, 0 is no node's number, and Inf is more than a path through the
\* fleet can cost.
ASSUME JobsAssumption ==
    \A j \in Jobs :
        /\ IsFiniteSet(DOMAIN j.hw) /\ DOMAIN j.hw \subseteq Nat \ {0}
        /\ \A n \in DOMAIN j.hw : Machine(j.hw[n])
        /\ \A a, b \in DOMAIN j.hw :
              j.links[a][b] \in Nat /\ Cardinality(DOMAIN j.hw) * edgeCost(j.links, a, b) < Inf
        /\ j.quants \in Seq(Nat) /\ j.kv \in Nat /\ j.draft \in BOOLEAN
        /\ j.force \in Nat /\ j.replicas \in Nat \ {0} /\ Len(j.pins) \in Nat

VARIABLES
    job,             \* the request being served
    stage,           \* "idle", "failover", "replicas", "done"
    plan,            \* the primary plan
    running,         \* goroutines that have not sent their result
    collected,       \* their results
    cancelled        \* the request's context

planVars == <<job, stage, plan, running, collected, cancelled>>

NoPlan == [ok |-> FALSE, quant |-> 0, as |-> <<>>, cost |-> 0]

(***************************************************************************)
(* planInternal                                                            *)
(***************************************************************************)

\* readyStates: only READY and RUNNING nodes are planned on.
loadFleet(j) == {n \in DOMAIN j.hw : j.hw[n].state \in {"READY", "RUNNING"}}

applyNodeFilter(nodes, j) == {n \in nodes \ j.exclude : j.include = {} \/ n \in j.include}
allowedNodes(nodes, j) == {n \in nodes : j.allowed = {} \/ n \in j.allowed}

\* The least factor of the nodes that report one, in percent.
minPCF(nodes, j) == LET f == {j.hw[n].pcf : n \in nodes} \ {0} IN IF f = {} THEN 0 ELSE Min(f)

sumRam(nodes, j) == FoldFunction(+, 0, [n \in nodes |-> j.hw[n].ram])

\* quants is in descending quality; 0 is an error. The fit is of the aggregate RAM, not
\* of the memory the partition may use.
selectQuantization(nodes, j, kv) ==
    LET fits(q) == sumRam(nodes, j) >= j.quants[q] + kv + Overhead * Cardinality(nodes)
        all == {q \in DOMAIN j.quants : fits(q)}
    IN  IF j.quant # 0 THEN (IF j.quant \in DOMAIN j.quants /\ fits(j.quant) THEN j.quant ELSE 0)
        ELSE IF all = {} THEN 0 ELSE Min(all)

singleNodePlan(n, q) ==
    [ok |-> TRUE, quant |-> q, cost |-> 0,
     as |-> <<[node |-> n, host |-> TRUE, start |-> 0, end |-> Layers - 1, draft |-> FALSE]>>]

\* stageTimesForPlan: the stage times of an assembled plan, whether they fit or not.
stageTimesForPlan(as, j, weight) ==
    [m \in 1 .. Len(as) |->
        computeTime(j.hw[as[m].node], weight, as[m].end - as[m].start + 1)
          + (IF m = 1 THEN 0 ELSE commTime(j.links, as[m - 1].node, as[m].node))]

\* variance, times 144: exact for up to four stages.
variance(xs) ==
    LET k == Len(xs)
        sum == FoldFunction(+, 0, xs)
        squares == FoldFunction(+, 0, [i \in 1 .. k |-> xs[i] * xs[i]])
    IN  IF k < 2 THEN 0 ELSE (144 \div (k * k)) * (k * squares - sum * sum)

\* costFunction without the terms that are the same for every candidate, times 144.
costFunction(as, times, j) ==
    LET hop(m) == commTime(j.links, as[m].node, as[m + 1].node)
    IN  144 * (10 * (Len(as) - 1) + FoldFunction(+, 0, [m \in 1 .. Len(as) - 1 |-> hop(m)])) + 5 * variance(times)

\* multiNodePlan. Ordering an ordered set again gives the same order, so the loop that
\* alternates ordering and partition ends in its first round.
multiNodePlan(subset, j, q) ==
    LET priced(as) == [ok |-> TRUE, quant |-> q, as |-> as,
                       cost |-> costFunction(as, stageTimesForPlan(as, j, j.quants[q]), j)]
        assembled(part, order) ==
            IF part.bottleneck = Inf THEN NoPlan
            ELSE priced(applyPinnedRanges(reconstructCuts(part.cuts, order), order, j.pins))
        along(order) == assembled(dpPartition(order, j.hw, j.links, j.quants[q], j.kv), order)
    IN  along(orderNodes(ToSet(subset), j.hw, j.links, j.host))

layersOn(p, n) ==
    FoldFunction(+, 0, [m \in {m \in DOMAIN p.as : p.as[m].node = n} |-> p.as[m].end - p.as[m].start + 1])

nodesOf(p) == {p.as[m].node : m \in DOMAIN p.as}

\* Mutant: every shard is compared on its own.
validatePlanMemoryPerShard(p, j) ==
    \A m \in DOMAIN p.as :
        stageFits(j.hw[p.as[m].node], j.quants[p.quant], j.kv, p.as[m].end - p.as[m].start + 1)

\* validatePlanMemory: what each node ends up with, summed over its shards, with the
\* headroom when the plan spans several nodes. The cache is counted in full.
validatePlanMemory(p, j) ==
    \A n \in nodesOf(p) :
        IF Cardinality(nodesOf(p)) > 1 THEN stageFits(j.hw[n], j.quants[p.quant], j.kv, layersOn(p, n))
        ELSE stageMemNeed(j.quants[p.quant], j.kv, layersOn(p, n)) <= usefulMemoryForFit(j.hw[n]) * Layers

\* placeDraft: on the first shard with the largest end.
placeDraft(p, j) ==
    LET tail == Min({m \in DOMAIN p.as : \A k \in DOMAIN p.as : p.as[k].end <= p.as[m].end})
    IN  IF j.draft THEN [p EXCEPT !.as = [m \in DOMAIN p.as |-> [p.as[m] EXCEPT !.draft = (m = tail)]]] ELSE p

\* The cheapest candidate, the first of equals.
selectCandidate(subsets, j, q) ==
    LET first(cands, ok) ==
            IF ok = {} THEN NoPlan
            ELSE cands[Min({i \in ok : \A k \in ok : cands[i].cost <= cands[k].cost})]
        cheapest(cands) == first(cands, {i \in DOMAIN cands : cands[i].ok})
    IN  IF Len(subsets[1]) = 1 THEN singleNodePlan(subsets[1][1], q)
        ELSE cheapest([i \in DOMAIN subsets |->
                          IF Len(subsets[i]) < 2 THEN NoPlan ELSE multiNodePlan(subsets[i], j, q)])

planInternal(fleet, j) ==
    LET validated(p) == IF ~p.ok \/ ~validatePlanMemory(p, j) THEN NoPlan ELSE placeDraft(p, j)
        fromSubsets(subsets, q) == IF subsets = <<>> THEN NoPlan ELSE validated(selectCandidate(subsets, j, q))
        quantized(nodes, kv, q) ==
            IF q = 0 THEN NoPlan ELSE fromSubsets(candidateSubsets(nodes, j.hw, j.quants[q], kv, j.force), q)
        withCache(nodes, kv) == quantized(nodes, kv, selectQuantization(nodes, j, kv))
        planOn(nodes) ==
            IF nodes = {} \/ (j.allowed # {} /\ j.host # 0 /\ j.host \notin j.allowed) THEN NoPlan
            ELSE withCache(nodes, kvCacheInMemory(j.kv, minPCF(nodes, j)))
    IN  planOn(allowedNodes(applyNodeFilter(fleet, j), j))

(***************************************************************************)
(* Plan and computeFailoverPlans                                           *)
(***************************************************************************)

\* Mutant: the alternative is planned on the whole fleet.
nodesExcludingNone(nodes, dead) == nodes

nodesExcluding(nodes, dead) == nodes \ {dead}

\* The primary plan; one goroutine per node it uses starts when there is one.
PlanPrimary ==
    /\ stage = "idle" /\ job.replicas = 1
    /\ plan' = IF cancelled THEN NoPlan ELSE planInternal(loadFleet(job), job)
    /\ running' = nodesOf(plan')
    /\ stage' = IF plan'.ok THEN "failover" ELSE "done"
    /\ UNCHANGED <<job, collected, cancelled>>

\* A goroutine sends its result.
Collect(k, p) == [x \in DOMAIN collected \cup {k} |-> IF x = k THEN p ELSE collected[x]]

\* One goroutine ends, in any order. A cancelled context makes planInternal fail, which
\* is collected like a fleet that cannot absorb the loss.
computeFailoverPlans(dead) ==
    /\ stage = "failover" /\ dead \in running
    /\ running' = running \ {dead}
    /\ LET nodes == allowedNodes(applyNodeFilter(loadFleet(job), job), job)
       IN  collected' = Collect(dead, IF cancelled THEN NoPlan ELSE planInternal(nodesExcluding(nodes, dead), job))
    /\ stage' = IF running' = {} THEN "done" ELSE stage
    /\ UNCHANGED <<job, plan, cancelled>>

(***************************************************************************)
(* PlanReplicaSet                                                          *)
(***************************************************************************)

rankForFit(nodes, j) == sortedBy(nodes, [n \in nodes |-> usefulMemoryForFit(j.hw[n])])

\* Mutant: a group starts one node early.
replicaGroupOverlaps(j, i) ==
    LET ranked == rankForFit(loadFleet(j), j)
        size == Len(ranked) \div j.replicas
    IN  ToSet(SubSeq(ranked, IF i = 1 THEN 1 ELSE (i - 1) * size, IF i = j.replicas THEN Len(ranked) ELSE i * size))

\* The i-th of the equal groups of the ranking; the last absorbs the remainder.
replicaGroup(j, i) ==
    LET ranked == rankForFit(loadFleet(j), j)
        size == Len(ranked) \div j.replicas
    IN  ToSet(SubSeq(ranked, (i - 1) * size + 1, IF i = j.replicas THEN Len(ranked) ELSE i * size))

\* The trial plan that sizes a replica: the top half and one more, then the fleet.
trialPlan(j) ==
    LET ranked == rankForFit(loadFleet(j), j)
        on == <<ToSet(SubSeq(ranked, 1, Len(ranked) \div 2 + 1)), loadFleet(j)>>
        firstOf(trial) == IF trial[1].ok THEN trial[1] ELSE trial[2]
    IN  firstOf([i \in 1 .. 2 |-> planInternal(on[i], j)])

\* The fleet is too small, or empty, for so many replicas of the trial plan.
tooSmall(trial, j) == ~trial.ok \/ Cardinality(loadFleet(j)) < Len(trial.as) * j.replicas

PlanReplicaSet ==
    /\ stage = "idle" /\ job.replicas > 1
    /\ IF cancelled \/ loadFleet(job) = {} \/ tooSmall(trialPlan(job), job)
       THEN stage' = "done" /\ UNCHANGED running
       ELSE stage' = "replicas" /\ running' = 1 .. job.replicas
    /\ UNCHANGED <<job, plan, collected, cancelled>>

\* One group is planned; the set fails when one of them does.
PlanGroup(i) ==
    /\ stage = "replicas" /\ i \in running
    /\ running' = running \ {i}
    /\ collected' = Collect(i, IF cancelled THEN NoPlan ELSE planInternal(replicaGroup(job, i), job))
    /\ stage' = IF running' = {} THEN "done" ELSE stage
    /\ UNCHANGED <<job, plan, cancelled>>

ReplicaSetReturned == job.replicas > 1 /\ stage = "done" /\ collected # <<>> /\ \A i \in DOMAIN collected : collected[i].ok

(***************************************************************************)
(* The request                                                             *)
(***************************************************************************)

\* The client goes away while goroutines are planning.
CancelPlan ==
    /\ stage # "done" /\ ~cancelled
    /\ cancelled' = TRUE
    /\ UNCHANGED <<job, stage, plan, running, collected>>

PlannerInit ==
    /\ job \in Jobs
    /\ stage = "idle" /\ plan = NoPlan /\ running = {} /\ collected = <<>> /\ cancelled = FALSE

PlannerNext ==
    \/ PlanPrimary \/ PlanReplicaSet \/ CancelPlan
    \/ \E n \in running : computeFailoverPlans(n) \/ PlanGroup(n)

PlannerSpec == PlannerInit /\ [][PlannerNext]_planVars

(***************************************************************************)
(* Properties                                                              *)
(***************************************************************************)

\* A plan is deployable: its shards cover the layers in order and without gaps, on nodes
\* of the fleet the operator allows, no node holds more than its memory whatever the
\* pins and forced counts did, and a draft rides on exactly the shard with the last layer.
Deployable(p, fleet, j) ==
    LET last == Len(p.as)
    IN  /\ p.as[1].start = 0 /\ p.as[last].end = Layers - 1
        /\ \A m \in 1 .. last : p.as[m].start <= p.as[m].end /\ (m < last => p.as[m + 1].start = p.as[m].end + 1)
        /\ nodesOf(p) \subseteq fleet \ j.exclude
        /\ j.include # {} => nodesOf(p) \subseteq j.include
        /\ j.allowed # {} => nodesOf(p) \subseteq j.allowed
        /\ \A n \in nodesOf(p) :
              (j.quants[p.quant] + j.kv) * layersOn(p, n) + Overhead * Layers <= usefulMemoryForFit(j.hw[n]) * Layers
        /\ \A m \in 1 .. last : p.as[m].draft = (j.draft /\ m = last)

\* planInternal and validatePlanMemory: every plan that reaches a caller is deployable.
PlanSound == plan.ok => Deployable(plan, loadFleet(job), job)

\* computeFailoverPlans: whatever order the goroutines end in, the alternative for a node
\* is deployable without that node, and in the end every node of the plan has an entry.
FailoverSound ==
    plan.ok =>
        /\ \A n \in DOMAIN collected :
              collected[n].ok => Deployable(collected[n], loadFleet(job) \ {n}, job)
        /\ stage = "done" => DOMAIN collected = nodesOf(plan)

\* PlanReplicaSet: the replicas of one set share no node, each is deployable.
ReplicasDisjoint ==
    ReplicaSetReturned =>
        /\ DOMAIN collected = 1 .. job.replicas
        /\ \A i \in DOMAIN collected : Deployable(collected[i], loadFleet(job), job)
        /\ \A i, k \in DOMAIN collected : i # k => nodesOf(collected[i]) \cap nodesOf(collected[k]) = {}

\* dpPartition: on the order the planner chooses for the fleet, the partition's bottleneck is
\* the least of all contiguous splits over a prefix of the order, at every quantization.
DPOptimal ==
    stage = "idle" /\ ~cancelled /\ DOMAIN job.hw # {} =>
        LET isBest(part, times) ==
                /\ part.bottleneck = Min({Inf} \cup {times[c] : c \in DOMAIN times})
                /\ part.bottleneck < Inf => times[part.cuts] = part.bottleneck
            partitioned(order, weight) ==
                isBest(dpPartition(order, job.hw, job.links, weight, job.kv),
                       [c \in Splits(order) |-> SplitTime(order, job.hw, job.links, weight, job.kv, c)])
            everyQuant(order) == \A q \in DOMAIN job.quants : partitioned(order, job.quants[q])
        IN  everyQuant(orderNodes(DOMAIN job.hw, job.hw, job.links, job.host))

\* orderNodes: it starts at the host, it is a shortest directed path through the nodes when
\* it is computed exactly, and 2-opt never ends dearer than the greedy path it starts from.
OrderOptimal ==
    stage = "idle" /\ ~cancelled /\ DOMAIN job.hw # {} =>
        LET nodes == DOMAIN job.hw
            host == chooseHost(nodes, job.hw, job.host)
            cost(p) == orderCost(p, job.links)
            isShort(order) ==
                /\ order \in PathsFrom(host, nodes)
                /\ Cardinality(nodes) <= HKThreshold => \A p \in PathsFrom(host, nodes) : cost(order) <= cost(p)
            improves(greedy) == cost(twoOptImprove(greedy, job.links)) <= cost(greedy)
        IN  /\ isShort(orderNodes(nodes, job.hw, job.links, job.host))
            /\ improves(nearestNeighborOrder(<<host>> \o sortedBy(nodes \ {host}, [n \in nodes |-> 0]), job.links))
=============================================================================
