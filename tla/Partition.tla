------------------------------ MODULE Partition ------------------------------
(***************************************************************************)
(* The planner's algorithms (planner/plan): memory fit, the candidate      *)
(* subsets, the partition DP, the pipeline ordering and the pins.          *)
(*                                                                         *)
(* A node is a number, its place in the order of ids. Gigabytes, tokens    *)
(* and milliseconds are small integers, and a comparison of quotients is   *)
(* cross-multiplied so that none is rounded. The slowdown of a shard that  *)
(* spills to disk is left out of the stage time; the memory it adds is in. *)
(***************************************************************************)
EXTENDS Integers, Sequences, FiniteSets, SequencesExt, FiniteSetsExt

CONSTANTS
    Layers,          \* layers of the model
    Overhead,        \* overheadOSRuntimeGB
    PlanDelta,       \* planDelta
    HKThreshold,     \* orderingThreshold
    TwoOptMaxPasses, \* twoOptMaxPasses
    MissingLink      \* missingLinkPenaltyMs

ASSUME PartitionAssumption ==
    /\ Layers \in Nat \ {0} /\ Overhead \in Nat /\ PlanDelta \in Nat
    /\ HKThreshold \in Nat /\ TwoOptMaxPasses \in Nat /\ MissingLink \in Nat

Inf == 1000000       \* math.Inf: more than any time or cost below

(***************************************************************************)
(* Memory. hw[n] = [ram, vram, unified, disk, bw]; disk is what KV offload *)
(* may use, 0 when it is off; bw is 0 when the node reports none.          *)
(***************************************************************************)

usefulMemory(h) ==
    IF h.unified \/ h.vram = 0 THEN h.ram ELSE IF h.ram < h.vram THEN h.ram ELSE h.vram

\* Half of the disk, as long as the sum stays within twice the (V)RAM.
usefulMemoryForFit(h) ==
    LET base == usefulMemory(h)
        capBase == IF h.vram > 0 THEN h.vram ELSE h.ram
        ssd == IF h.disk \div 2 < 2 * capBase - base THEN h.disk \div 2 ELSE 2 * capBase - base
    IN  IF h.disk > 0 /\ ssd > 0 THEN base + ssd ELSE base

\* RefBw stands for referenceMemBandwidthGBs.
RefBw == 2
normalizeBandwidth(bw) == IF bw <= 0 THEN RefBw ELSE bw
usefulCapacity(h) == usefulMemory(h) * normalizeBandwidth(h.bw)

\* The KV cache that must be resident with a prefix caching factor of f percent.
kvCacheInMemory(kv, f) == IF f <= 0 \/ f >= 100 THEN kv ELSE (kv * (100 - f)) \div 100

\* stageMemNeed for l layers, times Layers: the weights' and the cache's share, and
\* the overhead once.
stageMemNeed(weight, kv, l) == (weight + kv) * l + Overhead * Layers

\* With the headroom of a tenth.
stageFits(h, weight, kv, l) == 10 * stageMemNeed(weight, kv, l) <= 9 * usefulMemoryForFit(h) * Layers

\* computeTime in units of 1/(Layers * 2): streaming the shard's weights.
computeTime(h, weight, l) == (weight * l * 2) \div normalizeBandwidth(h.bw)

(***************************************************************************)
(* Phase B                                                                 *)
(***************************************************************************)

\* The nodes by descending key; the sort is stable and the fleet comes in the order of ids.
sortedBy(nodes, key) ==
    CHOOSE s \in [1 .. Cardinality(nodes) -> nodes] : \A i, k \in 1 .. Cardinality(nodes) :
        i < k => key[s[i]] > key[s[k]] \/ (key[s[i]] = key[s[k]] /\ s[i] < s[k])

rankByCapacity(nodes, hw) == sortedBy(nodes, [n \in nodes |-> usefulCapacity(hw[n])])

aggregateFit(ranked, hw, k) == FoldLeft(LAMBDA acc, n : acc + usefulMemoryForFit(hw[n]), 0, SubSeq(ranked, 1, k))

\* The prefixes of the ranking from the first that holds the model in aggregate up to
\* PlanDelta more; force fixes the length (0: free).
candidateSubsets(nodes, hw, weight, kv, force) ==
    LET ranked == rankByCapacity(nodes, hw)
        n == Len(ranked)
        fits == {k \in 1 .. n : aggregateFit(ranked, hw, k) >= weight + kv + Overhead * k}
        kMin == Min(fits)
    IN  IF force > 0 THEN <<SubSeq(ranked, 1, IF force > n THEN n ELSE force)>>
        ELSE IF fits = {} THEN <<>>
        ELSE [i \in 1 .. Min({kMin + PlanDelta, n}) - kMin + 1 |-> SubSeq(ranked, 1, kMin + i - 1)]

(***************************************************************************)
(* Phase C                                                                 *)
(***************************************************************************)

\* links[a][b] is a link's RTT and transfer in milliseconds, 0 for none. A stage that
\* receives over an unknown link pays nothing.
commTime(links, a, b) == links[a][b]

\* stageTimeAtIdx: stage m of the order on layers i+1 .. j.
stageTime(order, hw, links, weight, kv, m, i, j) ==
    IF ~stageFits(hw[order[m]], weight, kv, j - i) THEN Inf
    ELSE computeTime(hw[order[m]], weight, j - i) + (IF m >= 2 THEN commTime(links, order[m - 1], order[m]) ELSE 0)

larger(a, b) == IF a > b THEN a ELSE b

\* Mutant: each node takes as many layers as it can hold.
dpPartitionGreedy(order, hw, links, weight, kv) ==
    LET fill[m \in 0 .. Len(order)] ==
            IF m = 0 THEN 0
            ELSE Max({j \in fill[m - 1] .. Layers : j = fill[m - 1]
                          \/ stageFits(hw[order[m]], weight, kv, j - fill[m - 1])})
        cover == {m \in 1 .. Len(order) : fill[m] = Layers}
        time(m) == stageTime(order, hw, links, weight, kv, m, fill[m - 1], fill[m])
    IN  IF cover = {} THEN [cuts |-> <<>>, bottleneck |-> Inf]
        ELSE [cuts |-> [m \in 1 .. Min(cover) |-> fill[m]],
              bottleneck |-> Max({time(m) : m \in 1 .. Min(cover)})]

\* The times of all stages m on layers i+1 .. j, at <<m, i, j>>.
stageTimes(order, hw, links, weight, kv) ==
    [t \in (1 .. Len(order)) \X (0 .. Layers) \X (0 .. Layers) |-> stageTime(order, hw, links, weight, kv, t[1], t[2], t[3])]

\* dp[m][j]: the least bottleneck of the first j layers on the first m of n nodes.
dpTable(n, time) ==
    LET dp[m \in 0 .. n] ==
            IF m = 0 THEN [j \in 0 .. Layers |-> IF j = 0 THEN 0 ELSE Inf]
            ELSE LET prev == dp[m - 1] IN
                 [j \in 0 .. Layers |-> Min({Inf} \cup {larger(prev[i], time[<<m, i, j>>]) : i \in 0 .. j - 1})]
    IN  dp

\* cut[m][j]: the first split point that attains dp[m][j].
dpCut(dp, time, m, j) == Min({i \in 0 .. j - 1 : larger(dp[m - 1][i], time[<<m, i, j>>]) = dp[m][j]})

\* The ends of the shards of all layers on the first usedM nodes.
dpEnds(dp, time, usedM) ==
    LET ends[m \in 1 .. usedM] == IF m = usedM THEN Layers ELSE dpCut(dp, time, m + 1, ends[m + 1])
    IN  [m \in 1 .. usedM |-> ends[m]]

\* dpPartition: the shortest prefix that attains the least bottleneck of all layers wins.
dpPartition(order, hw, links, weight, kv) ==
    LET best(dp) == Min({Inf} \cup {dp[m][Layers] : m \in 1 .. Len(order)})
        partition(dp, time, b) ==
            IF b = Inf THEN [cuts |-> <<>>, bottleneck |-> Inf]
            ELSE [cuts |-> dpEnds(dp, time, Min({m \in 1 .. Len(order) : dp[m][Layers] = b})), bottleneck |-> b]
        searched(dp, time) == partition(dp, time, best(dp))
        timed(time) == searched(dpTable(Len(order), time), time)
    IN  timed(stageTimes(order, hw, links, weight, kv))

\* reconstructCuts: one contiguous shard per used node, the first is the host.
reconstructCuts(cuts, order) ==
    [m \in 1 .. Len(cuts) |->
        [node |-> order[m], host |-> m = 1, start |-> IF m = 1 THEN 0 ELSE cuts[m - 1], end |-> cuts[m] - 1, draft |-> FALSE]]

\* The first shard that holds a pinned range whole moves to the pinned node; a pin outside
\* the subset or across shards changes nothing.
applyPin(as, order, p) ==
    LET holder == {i \in 1 .. Len(as) : as[i].start <= p.start /\ p.end <= as[i].end}
    IN  IF p.node \notin ToSet(order) \/ holder = {} THEN as ELSE [as EXCEPT ![Min(holder)].node = p.node]

applyPinnedRanges(assignments, order, pins) ==
    LET pinned[k \in 0 .. Len(pins)] == IF k = 0 THEN assignments ELSE applyPin(pinned[k - 1], order, pins[k])
    IN  pinned[Len(pins)]

(***************************************************************************)
(* Phase D                                                                 *)
(***************************************************************************)

edgeCost(links, a, b) == IF links[a][b] = 0 THEN MissingLink ELSE links[a][b]

orderCost(order, links) ==
    FoldFunction(+, 0, [i \in 1 .. Len(order) - 1 |-> edgeCost(links, order[i], order[i + 1])])

\* The forced host when it is in the set (0: none), else the most capable node.
chooseHost(nodes, hw, forceHost) ==
    IF forceHost \in nodes THEN forceHost ELSE Head(rankByCapacity(nodes, hw))

\* Mutant: the table is symmetric.
heldKarpPathUndirected(start, links) ==
    LET n == Len(start)
        sym == [a \in DOMAIN links |-> [b \in DOMAIN links |-> links[IF a < b THEN a ELSE b][IF a < b THEN b ELSE a]]]
        paths == {p \in [1 .. n -> ToSet(start)] : p[1] = start[1] /\ Cardinality(ToSet(p)) = n}
    IN  CHOOSE p \in paths : \A q \in paths : orderCost(p, sym) <= orderCost(q, sym)

\* dp[<<S, j>>]: the least cost of a path from the first of n nodes through S that ends in j.
hkTable(n, cost) ==
    LET dp[p \in (SUBSET (1 .. n)) \X (1 .. n)] ==
            IF p[1] = {1} THEN (IF p[2] = 1 THEN 0 ELSE Inf)
            ELSE IF p[2] = 1 \/ ~{1, p[2]} \subseteq p[1] THEN Inf
            ELSE Min({dp[<<p[1] \ {p[2]}, i>>] + cost[<<i, p[2]>>] : i \in p[1] \ {p[2]}})
    IN  dp

\* The cell before: parent is the node before the last, ties to the lowest index.
hkBefore(dp, cost, p) ==
    LET rest == p[1] \ {p[2]}
    IN  <<rest, Min({i \in rest : dp[<<rest, i>>] + cost[<<i, p[2]>>] = dp[p]})>>

\* The path through all nodes that ends in last, followed back to the host.
hkPath(start, dp, cost, last) ==
    LET n == Len(start)
        back[k \in 0 .. n - 1] == IF k = 0 THEN <<1 .. n, last>> ELSE hkBefore(dp, cost, back[k - 1])
    IN  [k \in 1 .. n |-> start[back[n - k][2]]]

\* heldKarpPath: the cheapest end of a path through all nodes, ties to the lowest index of
\* start. The host is start[1].
heldKarpPath(start, links) ==
    LET n == Len(start)
        bestEnd(dp) == Min({j \in 1 .. n : \A k \in 1 .. n : dp[<<1 .. n, j>>] <= dp[<<1 .. n, k>>]})
        searched(dp, cost) == hkPath(start, dp, cost, bestEnd(dp))
        priced(cost) == searched(hkTable(n, cost), cost)
    IN  IF n = 1 THEN start
        ELSE priced([e \in (1 .. n) \X (1 .. n) |-> edgeCost(links, start[e[1]], start[e[2]])])

\* The node that is the cheapest next hop of a route, ties to the lowest index.
nearestNext(start, links, route) ==
    LET left == {k \in 1 .. Len(start) : start[k] \notin ToSet(route)}
        c(k) == edgeCost(links, route[Len(route)], start[k])
    IN  start[Min({k \in left : \A l \in left : c(k) <= c(l)})]

\* The route after each hop.
nearestNeighborOrder(start, links) ==
    LET grow[k \in 0 .. Len(start) - 1] ==
            IF k = 0 THEN <<start[1]>> ELSE Append(grow[k - 1], nearestNext(start, links, grow[k - 1]))
    IN  grow[Len(start) - 1]

\* The segment i .. k reversed, when that is cheaper. The host stays.
reversed(r, i, k) == [x \in 1 .. Len(r) |-> IF x \in i .. k THEN r[i + k - x] ELSE r[x]]

twoOptTry(links, r, i, k) ==
    IF 2 <= i /\ i < k /\ orderCost(reversed(r, i, k), links) < orderCost(r, links) THEN reversed(r, i, k) ELSE r

\* One sweep over the segments; the one numbered c is c \div (n + 1) .. c % (n + 1).
twoOptSweep(links, r) ==
    LET n == Len(r)
        swept[c \in 0 .. n * (n + 1) + n] ==
            IF c = 0 THEN r ELSE twoOptTry(links, swept[c - 1], c \div (n + 1), c % (n + 1))
    IN  swept[n * (n + 1) + n]

\* twoOptImprove: sweeps until one keeps none, TwoOptMaxPasses at most. After a sweep that
\* keeps none the others keep none.
twoOptImprove(route, links) ==
    LET best[pass \in 0 .. TwoOptMaxPasses] == IF pass = 0 THEN route ELSE twoOptSweep(links, best[pass - 1])
    IN  IF Len(route) < 4 THEN route ELSE best[TwoOptMaxPasses]

\* orderNodes: sorted by id, the host swapped to the front, then the exact path or the
\* heuristic one.
orderNodes(nodes, hw, links, forceHost) ==
    LET byId == sortedBy(nodes, [n \in nodes |-> 0])
        host == chooseHost(nodes, hw, forceHost)
        at == CHOOSE i \in 1 .. Len(byId) : byId[i] = host
        start == [byId EXCEPT ![1] = host, ![at] = byId[1]]
    IN  IF Len(byId) <= HKThreshold THEN heldKarpPath(start, links)
        ELSE twoOptImprove(nearestNeighborOrder(start, links), links)

(***************************************************************************)
(* Reference definitions                                                   *)
(***************************************************************************)

\* Every split of the layers into contiguous shards over a prefix of the order.
Splits(order) ==
    UNION {{c \in [1 .. m -> 1 .. Layers] : c[m] = Layers /\ \A i \in 1 .. m - 1 : c[i] < c[i + 1]} : m \in 1 .. Len(order)}

SplitTime(order, hw, links, weight, kv, c) ==
    Max({stageTime(order, hw, links, weight, kv, m, IF m = 1 THEN 0 ELSE c[m - 1], c[m]) : m \in 1 .. Len(c)})

PathsFrom(host, nodes) ==
    {p \in [1 .. Cardinality(nodes) -> nodes] : p[1] = host /\ Cardinality(ToSet(p)) = Cardinality(nodes)}
=============================================================================
