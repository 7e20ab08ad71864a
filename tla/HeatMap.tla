------------------------------- MODULE HeatMap --------------------------------
(***************************************************************************)
(* heatLSM: the tree of key ranges that decides which keys are hot.  One   *)
(* goroutine takes sampled writes from a channel, walks to the leaf of the *)
(* key and adds it there, splitting the leaf when it is full; another, on  *)
(* a memtable flush, walks the tree, decays every leaf, folds cold         *)
(* branches and publishes the hot ranges that IsHotKey looks up.           *)
(*                                                                         *)
(* Keys are sequences of bytes.  The overwrite ratio comes from a          *)
(* HyperLogLog estimate; it is a class here: 0 below the sum that pruning  *)
(* asks for, 2 at least 0.85, 1 between.  Thresholds are scaled down and   *)
(* the same at every level.                                                *)
(***************************************************************************)
EXTENDS Integers, FiniteSets, FiniteSetsExt, Sequences, SequencesExt, TLC

CONSTANTS
  HeatKeys,          \* keys that are written
  MaxByte,           \* the largest byte; its successor wraps to 0
  ReservoirCap, SplitThreshold,
  GuaranteedFanOut, DensityMin,     \* groups always kept; samples that keep another
  PruneWrites,       \* writes of an epoch that keep a branch
  SampleChCap,       \* capacity of sampleCh
  HeatMaxSamples, HeatMaxEpochs, HeatMaxNodes     \* bounds

ASSUME HeatAssumption == ReservoirCap \in Nat \ {0} /\ SplitThreshold \in Nat /\ MaxByte \in Nat

VARIABLES
  heatNodes,    \* sequence of nodes; the root is the first
  slots,        \* StatsChunks: sequence of RegionStats
  FreeList,
  sampleCh, search,     \* the sampling goroutine
  decay,                \* the decaying goroutine: stack of visits, candidates
  pruneLock,            \* node that goroutine holds locked, or 0
  hotZones,             \* hotZonesSnapshot
  heatPanic,            \* a slice expression was out of range
  admitted, heatSent, epochs     \* history and bounds
heatVars == <<heatNodes, slots, FreeList, sampleCh, search, decay, pruneLock, hotZones, heatPanic,
              admitted, heatSent, epochs>>

-----------------------------------------------------------------------------
(* Keys: bytes.Compare, NextKeySameLength, prefixes.                       *)
KeyLess(a, b) ==
  \/ IsStrictPrefix(a, b)
  \/ \E i \in 1 .. Len(a) : /\ i <= Len(b) /\ a[i] < b[i]
                            /\ \A j \in 1 .. i - 1 : a[j] = b[j]
commonPrefixLen(a, b) ==
  Cardinality({n \in 1 .. Len(a) : n <= Len(b) /\ \A j \in 1 .. n : a[j] = b[j]})
calcCommonPrefix(keys) ==
  SubSeq(keys[1], 1, Cardinality({n \in 1 .. Len(keys[1]) :
                                    \A i \in 1 .. Len(keys) : commonPrefixLen(keys[1], keys[i]) >= n}))
NextKeySameLength(key) ==
  LET carries(i) == \A j \in i + 1 .. Len(key) : key[j] = MaxByte
  IN [i \in 1 .. Len(key) |-> IF carries(i) THEN (key[i] + 1) % (MaxByte + 1) ELSE key[i]]
byteAt(k, i) == IF i >= Len(k) THEN -1 ELSE k[i + 1]
dropBytes(k, n) == SubSeq(k, n + 1, Len(k))

(* Left-closed, right-open ranges; an empty bound is infinite.             *)
InRange(z, k) == ~ KeyLess(k, z.start) /\ (z.end = <<>> \/ KeyLess(k, z.end))

-----------------------------------------------------------------------------
(* The pool of statistics.  AllocateStats takes as many slots as it is     *)
(* given statistics, the last freed first.                                 *)
NewStats == [active |-> TRUE, writes |-> 0, epochStart |-> 0, ratio |-> 0, samples |-> <<>>]
Pool(sl, free) == [slots |-> sl, free |-> free]
AllocateStats(pool, sts) ==
  LET f == Len(pool.free)
      ids == [j \in 1 .. Len(sts) |-> IF j <= f THEN pool.free[f - j + 1] ELSE Len(pool.slots) + j - f]
      more == IF Len(sts) > f THEN Len(sts) - f ELSE 0
      owner(i) == {j \in 1 .. Len(sts) : ids[j] = i}
  IN [ids |-> ids,
      pool |-> Pool([i \in 1 .. Len(pool.slots) + more |->
                       IF owner(i) = {} THEN pool.slots[i] ELSE sts[CHOOSE j \in owner(i) : TRUE]],
                    SubSeq(pool.free, 1, f + more - Len(sts)))]
FreeStats(pool, id) ==
  Pool([pool.slots EXCEPT ![id].active = FALSE, ![id].samples = <<>>], Append(pool.free, id))

newHeatNode(start, end, seg, id) ==
  [start |-> start, end |-> end, seg |-> seg, leaf |-> TRUE, children |-> <<>>, splitKeys |-> <<>>,
   threshold |-> SplitThreshold, stats |-> id]

NewHeatmapManager ==
  /\ heatNodes = <<newHeatNode(<<>>, <<>>, <<>>, 1)>> /\ slots = <<NewStats>> /\ FreeList = <<>>
  /\ sampleCh = <<>> /\ search = [pc |-> "idle", node |-> 1, key |-> <<>>]
  /\ decay = [pc |-> "idle", stack |-> <<>>, found |-> {}, i |-> 0, sum |-> 0] /\ pruneLock = 0
  /\ hotZones = <<>> /\ heatPanic = FALSE
  /\ admitted = {} /\ heatSent = 0 /\ epochs = 0

-----------------------------------------------------------------------------
(* FindTopNPrefixGroups: runs of the sorted reservoir R that agree on the  *)
(* first byte after the prefix all share.  The most frequent are kept,     *)
(* ties in any order.                                                      *)
prefixGroups(R) ==
  LET base == commonPrefixLen(R[1], R[Len(R)])
      byte(i) == byteAt(R[i], base)
  IN {g \in [first : 1 .. Len(R), last : 1 .. Len(R)] :
        /\ g.first <= g.last /\ byte(g.first) = byte(g.last)
        /\ g.first > 1 => byte(g.first - 1) # byte(g.first)
        /\ g.last < Len(R) => byte(g.last + 1) # byte(g.last)}
count(g) == g.last - g.first + 1
FindTopNPrefixGroups(R) ==
  LET all == prefixGroups(R)
      dense == {g \in all : count(g) >= DensityMin}
      n == IF Cardinality(dense) > GuaranteedFanOut THEN Cardinality(dense)
           ELSE IF Cardinality(all) < GuaranteedFanOut THEN Cardinality(all) ELSE GuaranteedFanOut
  IN {G \in SUBSET all : Cardinality(G) = n /\ \A g \in G, h \in all \ G : count(g) >= count(h)}

(* Both sorts, by the rank of an element: the number of those before it.   *)
sortedSamples(s) ==
  LET before(i) == {j \in DOMAIN s : KeyLess(s[j], s[i]) \/ (s[j] = s[i] /\ j < i)}
  IN [k \in 1 .. Len(s) |-> s[CHOOSE i \in DOMAIN s : Cardinality(before(i)) = k - 1]]
inOrder(G) ==
  [k \in 1 .. Cardinality(G) |-> CHOOSE g \in G : Cardinality({h \in G : h.first < g.first}) = k - 1]

(* splitReservoir: the ranges of the children of a node.  Before the first *)
(* group, and after each one unless the next range follows at once, comes  *)
(* a gap without a prefix.                                                 *)
splitRanges(nd, P) ==
  LET m == Len(P)
      own(key, otherwise) == IF nd.seg = <<>> THEN key ELSE otherwise
      range(s, e, g) == [start |-> s, end |-> e, seg |-> g, gap |-> g = <<>>]
      afterEnd(i) == IF i = m THEN own(nd.end, <<>>) ELSE P[i + 1]
      group(i) == LET e == NextKeySameLength(P[i]) IN
                  <<[range(P[i], e, P[i]) EXCEPT !.gap = FALSE]>>
                  \o (IF afterEnd(i) = e THEN <<>> ELSE <<range(e, afterEnd(i), <<>>)>>)
  IN <<range(own(nd.start, <<>>), P[1], <<>>)>> \o FlattenSeq([i \in 1 .. m |-> group(i)])

(* SplitRangeKey: every child's end but that of a gap at the end.          *)
splitKeysOf(D) == LET n == IF D[Len(D)].gap THEN Len(D) - 1 ELSE Len(D) IN [i \in 1 .. n |-> D[i].end]

(* CalculateRangeRatio: where the samples of a range end.                  *)
rangeEndIndex(R, end) ==
  IF end = <<>> THEN Len(R) ELSE Cardinality({i \in 1 .. Len(R) : KeyLess(R[i], end)})
rangeStartIndex(R, D, j) == IF j = 1 THEN 0 ELSE rangeEndIndex(R, D[j - 1].end)

(* What child j takes over from its parent's statistics: its share of the  *)
(* samples without the prefix, of the writes up to half a threshold, and   *)
(* the ratio if it has writes at all.                                      *)
inherit(st, R, D, j, ratio) ==
  LET a == rangeStartIndex(R, D, j)
      b == rangeEndIndex(R, D[j].end)
      mine == SubSeq(R, a + 1, b)
      kept == SubSeq(mine, 1, IF Len(mine) > ReservoirCap THEN ReservoirCap ELSE Len(mine))
      share == (st.writes * (b - a)) \div Len(R)
      w == IF share > SplitThreshold \div 2 THEN SplitThreshold \div 2 ELSE share
  IN [active |-> TRUE, writes |-> w, epochStart |-> w, ratio |-> IF w > 0 THEN ratio ELSE 0,
      samples |-> [i \in 1 .. Len(kept) |-> dropBytes(kept[i], Len(D[j].seg))]]

(* Evolve: the leaf n becomes a router over new leaves, its own slot goes  *)
(* to the free list.  A child whose samples would end before they start    *)
(* is a slice out of range.                                                *)
Evolve(n, st) ==
  \E R \in {sortedSamples(st.samples)}, ratio \in 0 .. 2 : \E G \in FindTopNPrefixGroups(R) :
  \E order \in {inOrder(G)} :
  \E P \in {[i \in 1 .. Len(order) |-> calcCommonPrefix(SubSeq(R, order[i].first, order[i].last))]} :
  \E D \in {splitRanges(heatNodes[n], P)} :
    IF \E j \in 1 .. Len(D) : rangeStartIndex(R, D, j) > rangeEndIndex(R, D[j].end)
    THEN heatPanic' = TRUE /\ UNCHANGED <<heatNodes, slots, FreeList>>
    ELSE
      \E a \in {AllocateStats(Pool(slots, FreeList), [j \in 1 .. Len(D) |-> inherit(st, R, D, j, ratio)])} :
        /\ Len(heatNodes) + Len(D) <= HeatMaxNodes
        /\ heatNodes' = [heatNodes EXCEPT
             ![n] = [@ EXCEPT !.leaf = FALSE, !.stats = 0, !.splitKeys = splitKeysOf(D),
                              !.children = [j \in 1 .. Len(D) |-> Len(heatNodes) + j]]]
             \o [j \in 1 .. Len(D) |-> newHeatNode(D[j].start, D[j].end, D[j].seg, a.ids[j])]
        /\ LET pool == FreeStats(a.pool, heatNodes[n].stats) IN slots' = pool.slots /\ FreeList' = pool.free
        /\ UNCHANGED heatPanic

(* AddSample.  A node that was split or folded meanwhile drops the sample; *)
(* a full reservoir replaces a random sample or none, then may split; a    *)
(* leaf with a very high ratio doubles its threshold instead.              *)
AddSample ==
  LET n == search.node
      nd == heatNodes[n]
      st == slots[nd.stats]
      counted == [st EXCEPT !.writes = @ + 1]
      stats(new) == slots' = [slots EXCEPT ![nd.stats] = new]
  IN /\ search.pc = "add" /\ pruneLock # n /\ search' = [search EXCEPT !.pc = "idle"]
     /\ \/ /\ ~ nd.leaf \/ nd.stats = 0
           /\ UNCHANGED <<heatNodes, slots, FreeList, heatPanic>>
        \/ /\ nd.leaf /\ nd.stats # 0 /\ Len(st.samples) < ReservoirCap
           /\ stats([counted EXCEPT !.samples = Append(@, search.key)])
           /\ UNCHANGED <<heatNodes, FreeList, heatPanic>>
        \/ /\ nd.leaf /\ nd.stats # 0 /\ Len(st.samples) >= ReservoirCap
           /\ \E r \in 0 .. ReservoirCap :
                LET new == IF r = 0 THEN counted ELSE [counted EXCEPT !.samples[r] = search.key] IN
                \/ /\ new.writes <= nd.threshold /\ stats(new) /\ UNCHANGED <<heatNodes, FreeList, heatPanic>>
                \/ /\ new.writes > nd.threshold /\ st.ratio = 2 /\ stats(new)
                   /\ heatNodes' = [heatNodes EXCEPT ![n].threshold = 2 * @] /\ UNCHANGED <<FreeList, heatPanic>>
                \/ /\ new.writes > nd.threshold /\ st.ratio < 2 /\ Evolve(n, new)
     /\ UNCHANGED <<sampleCh, decay, pruneLock, hotZones, admitted, heatSent, epochs>>

(* RecordWriteAsync: a full channel drops the sample.                      *)
RecordWriteAsync(k) ==
  /\ heatSent < HeatMaxSamples /\ heatSent' = heatSent + 1
  /\ sampleCh' = IF Len(sampleCh) < SampleChCap THEN Append(sampleCh, k) ELSE sampleCh
  /\ UNCHANGED <<heatNodes, slots, FreeList, search, decay, pruneLock, hotZones, heatPanic, admitted, epochs>>

asyncProcessSamples ==
  /\ search.pc = "idle" /\ sampleCh # <<>> /\ sampleCh' = Tail(sampleCh)
  /\ search' = [pc |-> "walk", node |-> 1, key |-> Head(sampleCh)]
  /\ UNCHANGED <<heatNodes, slots, FreeList, decay, pruneLock, hotZones, heatPanic, admitted, heatSent, epochs>>

(* Mutant: a key equal to a split key goes to the left of it.              *)
childOf_atSplit(nd, key) ==
  LET above == {i \in 1 .. Len(nd.splitKeys) : ~ KeyLess(nd.splitKeys[i], key)}
      i == IF above = {} THEN Len(nd.splitKeys) + 1 ELSE Min(above)
  IN nd.children[IF i > Len(nd.children) THEN Len(nd.children) ELSE i]

(* The child a key goes to: the first split key above it, the last child   *)
(* when there is none.                                                     *)
childOf(nd, key) ==
  LET above == {i \in 1 .. Len(nd.splitKeys) : KeyLess(key, nd.splitKeys[i])}
      i == IF above = {} THEN Len(nd.splitKeys) + 1 ELSE Min(above)
  IN nd.children[IF i > Len(nd.children) THEN Len(nd.children) ELSE i]

(* SearchLeaf, one node under its read lock.                               *)
SearchLeaf ==
  LET nd == heatNodes[search.node]
      rest == dropBytes(search.key, Len(nd.seg))
  IN /\ search.pc = "walk" /\ pruneLock # search.node
     /\ search' = IF ~ IsPrefix(nd.seg, search.key) THEN [search EXCEPT !.pc = "idle"]
                  ELSE IF nd.leaf THEN [search EXCEPT !.pc = "add", !.key = rest]
                  ELSE [search EXCEPT !.node = childOf(nd, rest), !.key = rest]
     /\ UNCHANGED <<heatNodes, slots, FreeList, sampleCh, decay, pruneLock, hotZones, heatPanic,
                    admitted, heatSent, epochs>>

-----------------------------------------------------------------------------
(* A visit of the traversal: the node, what the path spells, the absolute  *)
(* bounds of the parent, the children copied, the next one.                *)
frame(n, prefix, z) == [node |-> n, prefix |-> prefix, zone |-> z, kids |-> <<>>, next |-> 0]
absolute(f) ==
  LET nd == heatNodes[f.node] IN
  [start |-> IF nd.start = <<>> THEN f.zone.start ELSE f.prefix \o nd.start,
   end |-> IF nd.end = <<>> THEN f.zone.end ELSE f.prefix \o nd.end]
top == Last(decay.stack)
pop == [decay EXCEPT !.stack = Front(@), !.pc = IF Len(decay.stack) = 1 THEN "publish" ELSE "walk"]

(* OnMemtableFlush, with flushThreshold 1: one decay at a time.            *)
OnMemtableFlush ==
  /\ epochs < HeatMaxEpochs /\ epochs' = epochs + 1
  /\ decay' = IF decay.pc # "idle" THEN decay
              ELSE [pc |-> "walk", stack |-> <<frame(1, <<>>, [start |-> <<>>, end |-> <<>>])>>,
                    found |-> {}, i |-> 0, sum |-> 0]
  /\ UNCHANGED <<heatNodes, slots, FreeList, sampleCh, search, pruneLock, hotZones, heatPanic, admitted, heatSent>>

(* First lock of a node: a leaf is decayed, and becomes a candidate unless *)
(* cold; a router's children are copied.                                   *)
decayLeaf ==
  LET nd == heatNodes[top.node]
      st == slots[nd.stats]
  IN /\ decay.pc = "walk" /\ top.next = 0 /\ nd.leaf
     /\ \/ /\ nd.stats = 0 /\ decay' = pop /\ UNCHANGED slots
        \/ /\ nd.stats # 0
           /\ \E r \in 0 .. 2 :
                /\ st.writes = st.epochStart => r <= st.ratio
                /\ slots' = [slots EXCEPT ![nd.stats].ratio = r, ![nd.stats].epochStart = st.writes]
                /\ decay' = [pop EXCEPT !.found = IF r = 0 THEN @ ELSE @ \cup {absolute(top) @@ [top |-> r = 2]}]
     /\ UNCHANGED <<heatNodes, FreeList, sampleCh, search, pruneLock, hotZones, heatPanic, admitted, heatSent, epochs>>

visitRouter ==
  LET f == top
      nd == heatNodes[f.node]
      kids == IF f.next = 0 THEN nd.children ELSE f.kids
      i == f.next + 1
      below == [f EXCEPT !.kids = kids, !.next = i]
  IN /\ decay.pc = "walk" /\ (f.next = 0 => ~ nd.leaf)
     /\ \/ /\ i <= Len(kids)
           /\ decay' = [decay EXCEPT !.stack = Append([@ EXCEPT ![Len(@)] = below],
                                                      frame(kids[i], f.prefix \o nd.seg, absolute(f)))]
           /\ UNCHANGED pruneLock
        \/ /\ i > Len(kids) /\ pruneLock' = f.node
           /\ decay' = [decay EXCEPT !.pc = "check", !.i = 1, !.sum = 0]
     /\ UNCHANGED <<heatNodes, slots, FreeList, sampleCh, search, hotZones, heatPanic, admitted, heatSent, epochs>>

(* Pruning, with the node locked: the children are looked at one by one    *)
(* under their read locks, then freed one by one under their locks.  (The  *)
(* mutant leaves a freed child its StatsID.)                               *)
checkChild ==
  LET nd == heatNodes[top.node]
      c == heatNodes[nd.children[decay.i]]
      st == slots[c.stats]
      sum == decay.sum + (IF c.stats = 0 THEN 0 ELSE st.writes - st.epochStart)
  IN /\ decay.pc = "check"
     /\ IF c.leaf /\ (c.stats = 0 \/ st.ratio = 0) /\ sum < PruneWrites
        THEN /\ decay' = [decay EXCEPT !.sum = sum,
                                       !.pc = IF decay.i = Len(nd.children) THEN "free" ELSE "check",
                                       !.i = IF decay.i = Len(nd.children) THEN 1 ELSE @ + 1]
             /\ UNCHANGED pruneLock
        ELSE decay' = pop /\ pruneLock' = 0
     /\ UNCHANGED <<heatNodes, slots, FreeList, sampleCh, search, hotZones, heatPanic, admitted, heatSent, epochs>>

freeChild_keepId ==
  LET nd == heatNodes[top.node]
      c == nd.children[decay.i]
      pool == FreeStats(Pool(slots, FreeList), heatNodes[c].stats)
  IN /\ decay.pc = "free"
     /\ IF heatNodes[c].stats = 0 THEN UNCHANGED <<slots, FreeList>>
        ELSE slots' = pool.slots /\ FreeList' = pool.free
     /\ decay' = [decay EXCEPT !.pc = IF decay.i = Len(nd.children) THEN "fold" ELSE "free", !.i = @ + 1]
     /\ UNCHANGED <<heatNodes, sampleCh, search, pruneLock, hotZones, heatPanic, admitted, heatSent, epochs>>

freeChild ==
  LET nd == heatNodes[top.node]
      c == nd.children[decay.i]
      pool == FreeStats(Pool(slots, FreeList), heatNodes[c].stats)
  IN /\ decay.pc = "free"
     /\ IF heatNodes[c].stats = 0 THEN UNCHANGED <<heatNodes, slots, FreeList>>
        ELSE slots' = pool.slots /\ FreeList' = pool.free /\ heatNodes' = [heatNodes EXCEPT ![c].stats = 0]
     /\ decay' = [decay EXCEPT !.pc = IF decay.i = Len(nd.children) THEN "fold" ELSE "free", !.i = @ + 1]
     /\ UNCHANGED <<sampleCh, search, pruneLock, hotZones, heatPanic, admitted, heatSent, epochs>>

(* The node is a leaf again, with new statistics.                          *)
foldNode ==
  LET a == AllocateStats(Pool(slots, FreeList), <<NewStats>>) IN
  /\ decay.pc = "fold" /\ pruneLock' = 0 /\ decay' = pop
  /\ heatNodes' = [heatNodes EXCEPT ![top.node] = [@ EXCEPT !.leaf = TRUE, !.children = <<>>,
                                                            !.splitKeys = <<>>, !.stats = a.ids[1]]]
  /\ slots' = a.pool.slots /\ FreeList' = a.pool.free
  /\ UNCHANGED <<sampleCh, search, hotZones, heatPanic, admitted, heatSent, epochs>>

(* Adjacent zones of a sorted sequence become one.                         *)
mergeZones(zones) ==
  FoldLeft(LAMBDA acc, z : IF acc # <<>> /\ Last(acc).end # <<>> /\ Last(acc).end = z.start
                           THEN Append(Front(acc), [Last(acc) EXCEPT !.end = z.end])
                           ELSE Append(acc, z),
           <<>>, zones)

sortedZones(zones) ==
  SetToSortSeq(zones, LAMBDA x, y : KeyLess(x.start, y.start) \/ (x.start = y.start /\ KeyLess(x.end, y.end)))

(* Admission by rank and quota: any candidates, the ones above the bypass  *)
(* ratio always.  The new snapshot replaces the old one at once.           *)
publishSnapshot ==
  /\ decay.pc = "publish"
  /\ \E A \in SUBSET decay.found :
       /\ \A c \in decay.found : c.top => c \in A
       /\ LET zones == {[start |-> c.start, end |-> c.end] : c \in A} IN
          /\ hotZones' = mergeZones(sortedZones(zones)) /\ admitted' = zones
  /\ decay' = [decay EXCEPT !.pc = "idle", !.found = {}]
  /\ UNCHANGED <<heatNodes, slots, FreeList, sampleCh, search, pruneLock, heatPanic, heatSent, epochs>>

EpochDecayAndSnapshot == decayLeaf \/ visitRouter \/ checkChild \/ freeChild \/ foldNode \/ publishSnapshot

(* IsHotKey: sort.Search for the first zone that ends above the key.       *)
sortSearch(key) ==
  LET endsAbove(j) == hotZones[j].end = <<>> \/ KeyLess(key, hotZones[j].end)
      n == Len(hotZones)
      go[lo \in 0 .. n, hi \in 0 .. n] ==
        IF lo >= hi THEN lo
        ELSE LET h == (lo + hi) \div 2 IN IF endsAbove(h + 1) THEN go[lo, h] ELSE go[h + 1, hi]
  IN go[0, n] + 1
IsHotKey(key) ==
  LET i == sortSearch(key)
  IN i <= Len(hotZones) /\ ~ KeyLess(key, hotZones[i].start)

HeatMapNext ==
  /\ ~ heatPanic
  /\ \/ \E k \in HeatKeys : RecordWriteAsync(k)
     \/ asyncProcessSamples \/ SearchLeaf \/ AddSample
     \/ OnMemtableFlush \/ EpochDecayAndSnapshot
HeatMapSpec == NewHeatmapManager /\ [][HeatMapNext]_heatVars

-----------------------------------------------------------------------------
(* A statistics slot has one owner: no two nodes share it, and one that is *)
(* owned is active and not on the free list, however splits of the         *)
(* sampling goroutine and folds of the decaying one interleave             *)
(* (AllocateStats, FreeStats, Evolve, EpochDecayAndSnapshot).              *)
SlotsOwnedOnce ==
  /\ \A i, j \in 1 .. Len(FreeList) : FreeList[i] = FreeList[j] => i = j
  /\ \A n \in 1 .. Len(heatNodes) : heatNodes[n].stats # 0 =>
       /\ slots[heatNodes[n].stats].active /\ heatNodes[n].stats \notin ToSet(FreeList)
       /\ \A m \in 1 .. Len(heatNodes) : heatNodes[m].stats = heatNodes[n].stats => m = n

(* The tree partitions the keys: from the root every key reaches a leaf,   *)
(* at no node does its prefix fail to match, and the leaf's absolute range *)
(* holds the key; and no split slices its samples out of range             *)
(* (splitReservoir, SearchLeaf), for keys of which none is a prefix of     *)
(* another and none has the largest byte.                                  *)
RoutesHome ==
  /\ ~ heatPanic
  /\ pruneLock = 0 => \A k \in HeatKeys :
       LET walk[d \in 0 .. Len(heatNodes)] ==
             IF d = 0 THEN [f |-> frame(1, <<>>, [start |-> <<>>, end |-> <<>>]), rest |-> k, ok |-> TRUE]
             ELSE LET w == walk[d - 1]
                      nd == heatNodes[w.f.node]
                      rest == dropBytes(w.rest, Len(nd.seg))
                  IN IF ~ w.ok \/ ~ IsPrefix(nd.seg, w.rest) THEN [w EXCEPT !.ok = FALSE]
                     ELSE IF nd.leaf THEN w
                     ELSE [f |-> frame(childOf(nd, rest), w.f.prefix \o nd.seg, absolute(w.f)),
                           rest |-> rest, ok |-> TRUE]
           end == walk[Len(heatNodes)]
       IN end.ok /\ InRange(absolute(end.f), k)

(* A key is hot exactly if it lies in a range the last ranking admitted,   *)
(* after sorting, merging of neighbours and binary search (IsHotKey).      *)
HotZonesExact == \A k \in HeatKeys : IsHotKey(k) <=> \E z \in admitted : InRange(z, k)

(* Both ways of locating a key agree with the ranges they stand for: the   *)
(* samples' (SearchLeaf) and the flush's (IsHotKey), while splits, folds   *)
(* and new snapshots change both.                                          *)
KeysLocated == RoutesHome /\ HotZonesExact

(* Every active slot belongs to a node of the tree ("all slots the         *)
(* children occupy are released", EpochDecayAndSnapshot).  A child split   *)
(* between the check and the fold leaves its own children's slots behind,  *)
(* so it does not hold.                                                    *)
SlotsReachable ==
  LET inTree[d \in 0 .. Len(heatNodes)] ==
        IF d = 0 THEN {1}
        ELSE inTree[d - 1] \cup UNION {ToSet(heatNodes[n].children) : n \in inTree[d - 1]}
  IN \A s \in 1 .. Len(slots) : slots[s].active =>
       \E n \in inTree[Len(heatNodes)] : heatNodes[n].stats = s
-----------------------------------------------------------------------------
(* What SlotsOwnedOnce rests on.  Only a leaf has statistics, children lie *)
(* behind their parent, and the free list names slots.                     *)
isTuple(s) == s \in Seq(ToSet(s))
NodesMade ==
  /\ isTuple(heatNodes) /\ heatNodes # <<>>
  /\ \A n \in 1 .. Len(heatNodes) :
       /\ DOMAIN heatNodes[n] = {"start", "end", "seg", "leaf", "children", "splitKeys", "threshold", "stats"}
       /\ heatNodes[n].leaf \in BOOLEAN /\ heatNodes[n].stats \in 0 .. Len(slots)
       /\ heatNodes[n].children \in Seq(n + 1 .. Len(heatNodes)) /\ isTuple(heatNodes[n].splitKeys)
       /\ ~ heatNodes[n].leaf => heatNodes[n].stats = 0 /\ heatNodes[n].children # <<>>
PoolMade ==
  /\ isTuple(slots) /\ FreeList \in Seq(1 .. Len(slots))
  /\ \A i \in 1 .. Len(slots) : /\ DOMAIN slots[i] = {"active", "writes", "epochStart", "ratio", "samples"}
                                 /\ isTuple(slots[i].samples)

(* The decaying goroutine has routers above it, each before the next; the  *)
(* one it prunes stays a router until it folds it.                         *)
StackMade ==
  /\ isTuple(decay.stack)
  /\ \A k \in 1 .. Len(decay.stack) : LET f == decay.stack[k] IN
       /\ DOMAIN f = {"node", "prefix", "zone", "kids", "next"} /\ f.next \in Nat
       /\ f.node \in 1 .. Len(heatNodes)
       /\ f.next > 0 => ~ heatNodes[f.node].leaf /\ f.kids \in Seq(f.node + 1 .. Len(heatNodes))
       /\ k < Len(decay.stack) => f.next > 0
       /\ \A l \in k + 1 .. Len(decay.stack) : f.node < decay.stack[l].node
SearchMade == DOMAIN search = {"pc", "node", "key"} /\ search.node \in 1 .. Len(heatNodes)
DecayMade ==
  /\ DOMAIN decay = {"pc", "stack", "found", "i", "sum"} /\ StackMade
  /\ decay.pc \in {"walk", "check", "free", "fold"} => decay.stack # <<>>
  /\ decay.pc \in {"check", "free", "fold"} => ~ heatNodes[top.node].leaf
  /\ decay.pc \in {"check", "free"} => decay.i \in 1 .. Len(heatNodes[top.node].children)

HeatInv == NodesMade /\ PoolMade /\ SearchMade /\ DecayMade /\ SlotsOwnedOnce
=============================================================================
