------------------------------- MODULE ValueLog -------------------------------
(***************************************************************************)
(* value.go and discard.go: the value log with its cold and its hot track, *)
(* its garbage collection, and the iterators that delay the deletion of    *)
(* files.  The LSM tree is kept as far as the value log depends on it: in  *)
(* which place a copy of an entry is, which copy a lookup finds first, and *)
(* which versions a compaction drops.  (Levels has the tree itself; here   *)
(* every flush and every compaction is one step.)                          *)
(*                                                                         *)
(* All values are above the threshold, so a put lives in a file and the    *)
(* tree holds a pointer [fid, off] to it.                                  *)
(***************************************************************************)
EXTENDS Integers, FiniteSets, SequencesExt

CONSTANTS
  VKeys,                \* user keys
  VKinds,               \* what commits write: subset of {"put", "del"}
  VMaxTs,               \* bound: commits
  VMaxMem,              \* bound: memtables
  VMaxFile,             \* bound: files of a track
  ValueLogMaxEntries,   \* a file with more entries than this is closed
  Iterators             \* iterators that may be open at the same time

HotVlogFidMask == 100   \* any number above all cold file ids

ASSUME ValueLogAssumption ==
  /\ {VMaxTs, VMaxMem, ValueLogMaxEntries} \subseteq Nat /\ VMaxFile \in 1 .. HotVlogFidMask - 1
  /\ VKinds \subseteq {"put", "del"}

VARIABLES
  vTs,         \* last commit
  heat,        \* the keys IsHotKey calls hot
  mems,        \* all memtables ever made, as sets of copies; the last is db.mt
  nFlushed,    \* of these, the first ones that are flushed
  tree,        \* place -> sequence of tables (sets of copies), oldest first
  l0run,       \* how many tables the running L0 -> L0 compaction has picked, 0 without one
  files,       \* filesMap: fid -> sequence of the entries in the file
  maxFid, hotMaxFid,
  discardStats,
  filesToBeDeleted,
  gc,          \* the running GC, or NoGC
  iters,       \* iterator -> what it has captured, or NoIter
  newest,      \* history: key -> its last commit
  upset        \* history: keys of which a newer copy may be found after an older one

vlogVars == <<vTs, heat, mems, nFlushed, tree, l0run, files, maxFid, hotMaxFid, discardStats,
              filesToBeDeleted, gc, iters, newest, upset>>
treeVars == <<mems, nFlushed, tree, l0run>>
fileVars == <<files, maxFid, hotMaxFid>>

Fids   == 1 .. VMaxFile \cup {HotVlogFidMask + n : n \in 1 .. VMaxFile}
NoGC   == [phase |-> "idle"]
NoIter == [phase |-> "none"]
None   == [ver |-> 0]
Places == {"l98", "l99", "l0", "base"}

(* open of an empty directory: one file for each track.                    *)
ValueLogInit ==
  /\ vTs = 0 /\ heat \in SUBSET VKeys
  /\ mems = <<{}>> /\ nFlushed = 0
  /\ tree = [p \in Places |-> <<>>] /\ l0run = 0
  /\ maxFid = 1 /\ hotMaxFid = HotVlogFidMask + 1
  /\ files = [f \in {maxFid, hotMaxFid} |-> <<>>]
  /\ discardStats = [f \in Fids |-> 0] /\ filesToBeDeleted = {}
  /\ gc = NoGC /\ iters = [i \in Iterators |-> NoIter]
  /\ newest = [k \in VKeys |-> None] /\ upset = {}

isHotVlog(fid) == fid > HotVlogFidMask

-----------------------------------------------------------------------------
(* Lookups.  DB.get looks at the memtables, then at levels 98, 99, 0 and   *)
(* below, in each at the newest first; of copies of one version the first  *)
(* one found wins, and a hit in level 98 skips level 99.                   *)
rank(tier) == CASE tier = "mem" -> 0 [] tier = "l98" -> 1 [] tier = "l99" -> 2 [] tier = "l0" -> 3 [] OTHER -> 4
earlier(r, s) == rank(r.tier) < rank(s.tier) \/ (r.tier = s.tier /\ r.n > s.n)

memsOf(lo, hi) == {[tier |-> "mem", n |-> i] : i \in lo .. hi}
tablesOf(t, p) == {[tier |-> p, n |-> i] : i \in 1 .. Len(t[p])}
content(t, s) == IF s.tier = "mem" THEN mems[s.n] ELSE t[s.tier][s.n]
copiesIn(t, sources) == UNION {content(t, s) : s \in sources}

hits(t, sources, k, asOf) == {c \in copiesIn(t, sources) : c.key = k /\ c.ver <= asOf}
holds(t, s, ver, k) == \E c \in content(t, s) : c.key = k /\ c.ver = ver
isFirst(t, sources, s, ver, k) ==
  s \in sources /\ holds(t, s, ver, k) /\ \A r \in sources : earlier(r, s) => ~ holds(t, r, ver, k)
firstOf(t, sources, ver, k) ==
  LET s == CHOOSE s \in sources : isFirst(t, sources, s, ver, k)
  IN  CHOOSE c \in content(t, s) : c.key = k /\ c.ver = ver

found(t, sources, k, asOf) ==
  LET vers == {c.ver : c \in hits(t, sources, k, asOf)}
  IN  IF vers = {} THEN None ELSE firstOf(t, sources, Max(vers), k)

levelsFor(t, k, asOf) ==
  UNION {tablesOf(t, p) : p \in IF hits(t, tablesOf(t, "l98"), k, asOf) = {} THEN Places ELSE Places \ {"l99"}}

vget(k, asOf) == found(tree, memsOf(nFlushed + 1, Len(mems)) \cup levelsFor(tree, k, asOf), k, asOf)

-----------------------------------------------------------------------------
(* valueLog.write of one request: every put is appended to the active file *)
(* of the track that the heat map says, and toDisk then closes the files   *)
(* that have become too long.  Files are given as a record, so that a      *)
(* request of several entries is written one by one.                       *)
Vlog == [files |-> files, cold |-> maxFid, hot |-> hotMaxFid]

appendTo(v, e) ==
  LET fid == IF e.key \in heat THEN v.hot ELSE v.cold
  IN  [v EXCEPT !.files[fid] = Append(@, [key |-> e.key, ver |-> e.ver])]

pointerTo(v, e) ==
  LET fid == IF e.key \in heat THEN v.hot ELSE v.cold
  IN  [key |-> e.key, ver |-> e.ver, kind |-> "put", fid |-> fid, off |-> Len(v.files[fid]) + 1]

tombstone(e) == [key |-> e.key, ver |-> e.ver, kind |-> "del", fid |-> 0, off |-> 0]

(* createVlogFile for the tracks whose file is full.                       *)
createVlogFile(v) ==
  LET isFull(fid) == Len(v.files[fid]) > ValueLogMaxEntries
      cold == IF isFull(v.cold) THEN v.cold + 1 ELSE v.cold
      hot  == IF isFull(v.hot) THEN v.hot + 1 ELSE v.hot
  IN  [files |-> [f \in DOMAIN v.files \cup {cold, hot} |->
                    IF f \in DOMAIN v.files THEN v.files[f] ELSE <<>>],
       cold |-> cold, hot |-> hot]

(* skl.Put overwrites the copy of the same key and version.                *)
Put(mt, c) == {d \in mt : d.key # c.key \/ d.ver # c.ver} \cup {c}

(* The files and the memtable after the first n entries of a request.      *)
writeOne(w, e) ==
  IF e.kind = "del" THEN [w EXCEPT !.mt = Put(@, tombstone(e))]
  ELSE [v |-> appendTo(w.v, e), mt |-> Put(w.mt, pointerTo(w.v, e))]

vwrite(entries) ==
  LET w[n \in 0 .. Len(entries)] ==
        IF n = 0 THEN [v |-> Vlog, mt |-> mems[Len(mems)]] ELSE writeOne(w[n - 1], entries[n])
  IN  w[Len(entries)]

(* writeRequests: the value log, then the memtable.                        *)
writeRequest(entries) ==
  LET w == vwrite(entries)
      v == createVlogFile(w.v)
  IN  /\ v.cold <= VMaxFile /\ v.hot <= HotVlogFidMask + VMaxFile
      /\ files' = v.files /\ maxFid' = v.cold /\ hotMaxFid' = v.hot
      /\ mems' = [mems EXCEPT ![Len(mems)] = w.mt]

Commit(k, kind) ==
  /\ vTs < VMaxTs /\ vTs' = vTs + 1
  /\ writeRequest(<<[key |-> k, ver |-> vTs + 1, kind |-> kind]>>)
  /\ newest' = [newest EXCEPT ![k] = [ver |-> vTs + 1, kind |-> kind]]
  /\ UNCHANGED <<heat, nFlushed, tree, l0run, discardStats, filesToBeDeleted, gc, iters, upset>>

-----------------------------------------------------------------------------
(* The tree around the value log.                                          *)
rotateMem ==
  /\ Len(mems) < VMaxMem /\ mems[Len(mems)] # {}
  /\ mems' = Append(mems, {})
  /\ UNCHANGED <<vTs, heat, nFlushed, tree, l0run, fileVars, discardStats, filesToBeDeleted, gc, iters, newest, upset>>

addTable(t, p, s) == IF s = {} THEN t ELSE [t EXCEPT ![p] = Append(@, s)]

(* buildFlushTables: deletions go to both tiers.  The memtable is freed    *)
(* unless an iterator may hold it.                                         *)
flushMem ==
  /\ nFlushed < Len(mems) - 1
  /\ LET m == mems[nFlushed + 1]
     IN  tree' = addTable(addTable(tree, "l98", {c \in m : c.kind = "del" \/ c.key \in heat}),
                          "l0", {c \in m : c.kind = "del" \/ c.key \notin heat})
  /\ nFlushed' = nFlushed + 1
  /\ mems' = IF \A i \in Iterators : iters[i] = NoIter THEN [mems EXCEPT ![nFlushed + 1] = {}] ELSE mems
  /\ UNCHANGED <<vTs, heat, l0run, fileVars, discardStats, filesToBeDeleted, gc, iters, newest, upset>>

(* discardAtOrBelow is not above an open reader.                           *)
discardLimit == Min({vTs} \cup {iters[i].ts : i \in {i \in Iterators : iters[i] # NoIter}})

(* MergeIterator: of equal keys the copy of the newer table.               *)
mergeTables(sources) == {c \in copiesIn(tree, sources) : c = firstOf(tree, sources, c.ver, c.key)}

(* subcompact with NumVersionsToKeep = 1.                                  *)
kept(merged, hasOverlap) ==
  {c \in merged : \/ c.ver > discardLimit
                  \/ /\ \A d \in merged : d.key = c.key /\ d.ver <= discardLimit => d.ver <= c.ver
                     /\ c.kind = "del" => hasOverlap}

(* updateDiscardStats: what a compaction drops counts against its file.    *)
addStats(dropped) ==
  [f \in Fids |-> discardStats[f] + Cardinality({c \in dropped : c.kind = "put" /\ c.fid = f})]

hasKeysOf(p, s) == \E c \in copiesIn(tree, tablesOf(tree, p)), d \in s : c.key = d.key

(* All tables of "from" (newest first) into the one table of "to".         *)
compactInto(from, to, overlapPlaces) ==
  /\ tree[from] # <<>>
  /\ from = "l0" => l0run = 0
  /\ LET merged == mergeTables(tablesOf(tree, from) \cup tablesOf(tree, to))
         out    == kept(merged, \E p \in overlapPlaces : hasKeysOf(p, merged))
     IN  /\ tree' = addTable([tree EXCEPT ![from] = <<>>, ![to] = <<>>], to, out)
         /\ discardStats' = addStats(merged \ out)
  /\ UNCHANGED <<vTs, heat, mems, nFlushed, l0run, fileVars, filesToBeDeleted, gc, iters, newest, upset>>

compactL98 == compactInto("l98", "l99", {"l0", "base"})
compactL99 == compactInto("l99", "base", {"l0", "base"})
compactL0  == compactInto("l0", "base", {"l98", "l99"})

(* L0 -> L0: the tables are picked, later they are replaced by one, and    *)
(* the level is sorted by smallest key, newest version first; sort.Slice   *)
(* leaves few equal elements in their order, the new table being last.     *)
startL0ToL0 ==
  /\ l0run = 0 /\ Len(tree["l0"]) >= 2
  /\ l0run' = Len(tree["l0"])
  /\ UNCHANGED <<vTs, heat, mems, nFlushed, tree, fileVars, discardStats, filesToBeDeleted, gc, iters, newest, upset>>

smallestKey(s) ==
  CHOOSE c \in s : \A d \in s : c.key < d.key \/ (c.key = d.key /\ c.ver >= d.ver)
before(s, t) ==
  LET a == smallestKey(s)
      b == smallestKey(t)
  IN  a.key < b.key \/ (a.key = b.key /\ a.ver > b.ver)

(* at lists the places of a sequence of tables in their sorted order.      *)
sorts(at, tables) ==
  \A i, j \in DOMAIN at : i < j =>
    before(tables[at[i]], tables[at[j]]) \/ (~ before(tables[at[j]], tables[at[i]]) /\ at[i] < at[j])
orders(n) == {at \in [1 .. n -> 1 .. n] : \A j \in 1 .. n : \E i \in 1 .. n : at[i] = j}

keysIn(s) == {c.key : c \in s}

(* A key of two of the tables may be found in the older one afterwards.    *)
finishL0ToL0 ==
  /\ l0run # 0
  /\ LET merged == mergeTables({[tier |-> "l0", n |-> i] : i \in 1 .. l0run})
         out    == kept(merged, \E p \in Places \ {"l0"} : hasKeysOf(p, merged))
         rest   == SubSeq(tree["l0"], l0run + 1, Len(tree["l0"]))
         tables == addTable([tree EXCEPT !["l0"] = rest], "l0", out)["l0"]
     IN  /\ \E at \in orders(Len(tables)) :
              /\ sorts(at, tables)
              /\ tree' = [tree EXCEPT !["l0"] = [i \in 1 .. Len(tables) |-> tables[at[i]]]]
         /\ upset' = upset \cup {k \in VKeys : \E i \in 1 .. Len(rest) :
              /\ k \in keysIn(rest[i])
              /\ k \in keysIn(merged) \/ \E j \in 1 .. Len(rest) : j # i /\ k \in keysIn(rest[j])}
         /\ discardStats' = addStats(merged \ out)
  /\ l0run' = 0
  /\ UNCHANGED <<vTs, heat, mems, nFlushed, fileVars, filesToBeDeleted, gc, iters, newest>>

(* The heat map changes its mind.                                          *)
changeHeat(k) ==
  /\ newest[k] # None
  /\ heat' = IF k \in heat THEN heat \ {k} ELSE heat \cup {k}
  /\ upset' = upset \cup {k}
  /\ UNCHANGED <<vTs, treeVars, fileVars, discardStats, filesToBeDeleted, gc, iters, newest>>

-----------------------------------------------------------------------------
(* Garbage collection; garbageCh admits one at a time.  MaxDiscard: the    *)
(* file with most garbage, the first of several.                           *)
garbage == {f \in Fids : discardStats[f] > 0}
MaxDiscard ==
  CHOOSE f \in garbage : \A g \in garbage :
    discardStats[g] < discardStats[f] \/ (discardStats[g] = discardStats[f] /\ f <= g)

isActive(f) == f = IF isHotVlog(f) THEN hotMaxFid ELSE maxFid

(* pickLog: a file that is gone only has its statistics reset, and the     *)
(* next one is looked at.                                                  *)
pickLogMissing ==
  /\ gc = NoGC /\ garbage # {} /\ MaxDiscard \notin DOMAIN files
  /\ discardStats' = [discardStats EXCEPT ![MaxDiscard] = 0]
  /\ UNCHANGED <<vTs, heat, treeVars, fileVars, filesToBeDeleted, gc, iters, newest, upset>>

(* runGC on the picked file (the discard ratio may be anything), unless it *)
(* takes writes or rewrite finds it marked for deletion.                   *)
runGC ==
  /\ gc = NoGC /\ garbage # {} /\ MaxDiscard \in DOMAIN files
  /\ ~ isActive(MaxDiscard) /\ MaxDiscard \notin filesToBeDeleted
  /\ gc' = [phase |-> "scan", fid |-> MaxDiscard, pos |-> 1, wb |-> <<>>]
  /\ UNCHANGED <<vTs, heat, treeVars, fileVars, discardStats, filesToBeDeleted, iters, newest, upset>>

discardEntry(e, c) == c.ver # e.ver \/ c.kind = "del"

(* The tree still points to this very entry.                               *)
isLive_anyFile(e, c, fid, off) == ~ discardEntry(e, c) /\ c.fid < fid
isLive(e, c, fid, off) == ~ discardEntry(e, c) /\ c.fid = fid /\ c.off = off

(* rewrite, one entry: live ones are collected.                            *)
rewriteEntry ==
  /\ gc.phase = "scan" /\ gc.pos <= Len(files[gc.fid])
  /\ LET e == files[gc.fid][gc.pos]
         c == vget(e.key, e.ver)
         w == [key |-> e.key, ver |-> e.ver, kind |-> "put"]
     IN  gc' = [gc EXCEPT !.pos = @ + 1,
                  !.wb = IF isLive(e, c, gc.fid, gc.pos) THEN Append(@, w) ELSE @]
  /\ UNCHANGED <<vTs, heat, treeVars, fileVars, discardStats, filesToBeDeleted, iters, newest, upset>>

(* batchSet: a request like any other, with the old versions.  An old      *)
(* version of a hot key may come to lie in level 98 above a newer one.     *)
rewriteBatch ==
  /\ gc.phase = "scan" /\ gc.pos > Len(files[gc.fid])
  /\ writeRequest(gc.wb)
  /\ gc' = [gc EXCEPT !.phase = "delete", !.wb = <<>>]
  /\ upset' = upset \cup {k \in heat : \E i \in 1 .. Len(gc.wb) : gc.wb[i].key = k /\ gc.wb[i].ver < newest[k].ver}
  /\ UNCHANGED <<vTs, heat, nFlushed, tree, l0run, discardStats, filesToBeDeleted, iters, newest>>

(* batchSet fails (writes are blocked): the file stays.                    *)
rewriteError ==
  /\ gc.phase = "scan" /\ gc.wb # <<>> /\ gc' = NoGC
  /\ UNCHANGED <<vTs, heat, treeVars, fileVars, discardStats, filesToBeDeleted, iters, newest, upset>>

iteratorCount == Cardinality({i \in Iterators : iters[i].phase = "open"})

removeFiles(fids) == files' = [f \in DOMAIN files \ fids |-> files[f]]
resetStats(fids) == discardStats' = [f \in Fids |-> IF f \in fids THEN 0 ELSE discardStats[f]]

(* The end of rewrite and of doRunGC.  An iterator that is being opened    *)
(* when a file goes is no longer "clean" (history).                        *)
deleteNow ==
  /\ removeFiles({gc.fid}) /\ UNCHANGED filesToBeDeleted
  /\ iters' = [i \in Iterators |-> IF iters[i].phase = "mems" THEN [iters[i] EXCEPT !.clean = FALSE] ELSE iters[i]]

deleteLogFile_always ==
  /\ gc.phase = "delete"
  /\ deleteNow
  /\ resetStats({gc.fid}) /\ gc' = NoGC
  /\ UNCHANGED <<vTs, heat, treeVars, maxFid, hotMaxFid, newest, upset>>

deleteLogFile ==
  /\ gc.phase = "delete"
  /\ \/ iteratorCount = 0 /\ deleteNow
     \/ /\ iteratorCount > 0 /\ UNCHANGED <<files, iters>>
        /\ filesToBeDeleted' = filesToBeDeleted \cup {gc.fid}
  /\ resetStats({gc.fid}) /\ gc' = NoGC
  /\ UNCHANGED <<vTs, heat, treeVars, maxFid, hotMaxFid, newest, upset>>

-----------------------------------------------------------------------------
(* Txn.NewIterator takes references to the memtables, then raises the      *)
(* count and takes references to the tables.                               *)
newIteratorMems(i) ==
  /\ iters[i] = NoIter
  /\ iters' = [iters EXCEPT ![i] = [phase |-> "mems", ts |-> vTs, lo |-> nFlushed + 1,
                                   hi |-> Len(mems), tables |-> <<>>, clean |-> TRUE]]
  /\ UNCHANGED <<vTs, heat, treeVars, fileVars, discardStats, filesToBeDeleted, gc, newest, upset>>

newIteratorTables(i) ==
  /\ iters[i].phase = "mems"
  /\ iters' = [iters EXCEPT ![i].phase = "open", ![i].tables = tree]
  /\ UNCHANGED <<vTs, heat, treeVars, fileVars, discardStats, filesToBeDeleted, gc, newest, upset>>

(* decrIteratorCount: the last one deletes what waits for it, after it has *)
(* the lock, which others may take first.                                  *)
decrIteratorCount(i) ==
  /\ iters[i].phase = "open"
  /\ \/ iteratorCount > 1 /\ iters' = [iters EXCEPT ![i] = NoIter]
     \/ iteratorCount = 1 /\ iters' = [iters EXCEPT ![i] = [phase |-> "last", ts |-> vTs]]
  /\ UNCHANGED <<vTs, heat, treeVars, fileVars, discardStats, filesToBeDeleted, gc, newest, upset>>

deleteWaiting(i) ==
  /\ iters[i].phase = "last"
  /\ iters' = [j \in Iterators |->
                 IF j = i THEN NoIter
                 ELSE IF iters[j].phase \in {"mems", "open"} /\ filesToBeDeleted # {}
                      THEN [iters[j] EXCEPT !.clean = FALSE] ELSE iters[j]]
  /\ removeFiles(filesToBeDeleted) /\ resetStats(filesToBeDeleted) /\ filesToBeDeleted' = {}
  /\ UNCHANGED <<vTs, heat, treeVars, maxFid, hotMaxFid, gc, newest, upset>>

-----------------------------------------------------------------------------
vlogTreeStep ==
  \/ \E k \in VKeys, kind \in VKinds : Commit(k, kind)
  \/ rotateMem \/ flushMem \/ compactL98 \/ compactL99 \/ compactL0
  \/ startL0ToL0 \/ finishL0ToL0
  \/ \E k \in VKeys : changeHeat(k)

gcStep ==
  pickLogMissing \/ runGC \/ rewriteEntry \/ rewriteBatch \/ rewriteError \/ deleteLogFile

iterStep ==
  \E i \in Iterators :
    newIteratorMems(i) \/ newIteratorTables(i) \/ decrIteratorCount(i) \/ deleteWaiting(i)

ValueLogNext == vlogTreeStep \/ gcStep \/ iterStep

ValueLogSpec == ValueLogInit /\ [][ValueLogNext]_vlogVars

-----------------------------------------------------------------------------
(* The value a copy in the tree stands for can be read.                    *)
readable(c) ==
  c.ver > 0 /\ c.kind = "put" =>
    /\ c.fid \in DOMAIN files /\ c.off \in 1 .. Len(files[c.fid])
    /\ files[c.fid][c.off] = [key |-> c.key, ver |-> c.ver]

(* What an iterator shows for k.                                           *)
itemOf(it, k) ==
  found(it.tables, memsOf(it.lo, it.hi) \cup UNION {tablesOf(it.tables, p) : p \in Places}, k, it.ts)

(* Txn.Get at the latest timestamp never finds a pointer into a file that  *)
(* GC has deleted, whatever writes, flushes, compactions and GC do between *)
(* the steps of rewrite.  It does not hold: a key the heat map moves, an   *)
(* old version of a hot key that GC writes back, or a reordered level 0    *)
(* hides the copy GC wrote, or makes GC take a live one for dead (README,  *)
(* section 5).                                                             *)
NoDanglingRead == \A k \in VKeys : readable(vget(k, vTs))

(* As far as the code ensures it: for keys about which the heat map has    *)
(* not changed its mind, of which GC has not written an old version into   *)
(* the hot tier, and whose tables no L0 -> L0 compaction has reordered.    *)
NoDanglingReadSettled == \A k \in VKeys \ upset : readable(vget(k, vTs))

(* The files an open iterator needs stay until it is closed.  It does not  *)
(* hold: a file can go while NewIterator takes its references, or with the *)
(* lock of a decrIteratorCount that was under way.                         *)
IteratorKeepsFiles ==
  \A i \in Iterators : iters[i].phase = "open" => \A k \in VKeys : readable(itemOf(iters[i], k))

(* As far as the code ensures it: no file was deleted while the iterator   *)
(* was between its two steps, or by the last step of one closed before.    *)
IteratorKeepsFilesSettled ==
  \A i \in Iterators :
    iters[i].phase = "open" /\ iters[i].clean => \A k \in VKeys \ upset : readable(itemOf(iters[i], k))

(* Txn.Get shows the last commit, although GC writes old versions back: a  *)
(* hit in level 98 is the newest one of the hot tier (getHotTier), and a   *)
(* deleted key stays deleted.                                              *)
shows(c) == IF c.ver > 0 /\ c.kind = "put" THEN c.ver ELSE 0
GetShowsLastCommit == \A k \in VKeys : shows(vget(k, vTs)) = shows(newest[k])

-----------------------------------------------------------------------------
(* The inductive invariant behind NoDanglingReadSettled (ValueLogProofs).  *)
Copy    == [key : VKeys, ver : Nat \ {0}, kind : {"put", "del"}, fid : Nat, off : Nat]
Entry   == [key : VKeys, ver : Nat \ {0}]
WbEntry == [key : VKeys, ver : Nat \ {0}, kind : {"put"}]

sourcesNow == memsOf(nFlushed + 1, Len(mems)) \cup UNION {tablesOf(tree, p) : p \in Places}
copiesNow  == copiesIn(tree, sourcesNow)

VlogTyped ==
  /\ vTs \in Nat /\ heat \subseteq VKeys
  /\ mems \in Seq(SUBSET Copy) /\ nFlushed \in Nat /\ nFlushed < Len(mems)
  /\ tree \in [Places -> Seq(SUBSET Copy)] /\ Len(tree["l99"]) <= 1 /\ Len(tree["base"]) <= 1
  /\ l0run \in 0 .. Len(tree["l0"])
  /\ DOMAIN newest = VKeys /\ \A k \in VKeys : newest[k].ver \in 0 .. vTs
  /\ DOMAIN iters = Iterators
  /\ \A i \in Iterators : iters[i] = NoIter \/ ("ts" \in DOMAIN iters[i] /\ iters[i].ts \in Nat)

(* A file below the active one of its track takes no more writes.          *)
isOld(f) == f < IF isHotVlog(f) THEN hotMaxFid ELSE maxFid

FilesMade ==
  /\ maxFid \in 1 .. HotVlogFidMask /\ hotMaxFid \in Nat /\ isHotVlog(hotMaxFid)
  /\ {maxFid, hotMaxFid} \subseteq DOMAIN files /\ files \in [DOMAIN files -> Seq(Entry)]
  /\ \A f \in DOMAIN files : f \in Nat /\ (isOld(f) \/ isActive(f))
  /\ \A f \in filesToBeDeleted : f \in Nat /\ isOld(f)

(* What is to be written back are entries of the file already read.        *)
GcMade ==
  gc = NoGC \/
    /\ gc \in [phase : {"scan", "delete"}, fid : DOMAIN files, pos : Nat \ {0}, wb : Seq(WbEntry)]
    /\ isOld(gc.fid) /\ gc.fid \notin filesToBeDeleted
    /\ \A j \in DOMAIN gc.wb : \E i \in DOMAIN files[gc.fid] :
         files[gc.fid][i] = [key |-> gc.wb[j].key, ver |-> gc.wb[j].ver]

(* A version is in a memtable or table once, and everywhere of one kind;   *)
(* an entry of a file is a put that was committed.                         *)
VersionsAgree ==
  /\ \A c \in copiesNow : c.ver <= newest[c.key].ver
  /\ \A s \in sourcesNow : \A c, d \in content(tree, s) : c.key = d.key /\ c.ver = d.ver => c = d
  /\ \A c, d \in copiesNow : c.key = d.key /\ c.ver = d.ver => c.kind = d.kind
  /\ \A f \in DOMAIN files : \A i \in DOMAIN files[f] :
       /\ files[f][i].ver <= newest[files[f][i].key].ver
       /\ \A c \in copiesNow : c.key = files[f][i].key /\ c.ver = files[f][i].ver => c.kind = "put"

(* The tiers keep apart what the heat map keeps apart.                     *)
isHotSource(s) == s.tier \in {"l98", "l99"}
TiersApart ==
  \A s \in sourcesNow : \A c \in content(tree, s) : c.key \notin upset /\ c.kind = "put" =>
    /\ isHotSource(s) => c.key \in heat
    /\ s.tier = "l0" => c.key \notin heat

(* On the way through the hot tier, what is found earlier is not older.    *)
goesHot(c) == c.kind = "del" \/ c.key \in heat
VersionsRise ==
  \A r, s \in {s \in sourcesNow : s.tier = "mem" \/ isHotSource(s)} : earlier(r, s) =>
    \A c \in content(tree, r), d \in content(tree, s) :
      c.key = d.key /\ c.key \notin upset /\ goesHot(c) /\ goesHot(d) => c.ver >= d.ver

(* A copy whose value is gone, or will go with a file that waits for its   *)
(* deletion, or with the one GC has read past it without keeping it.       *)
isLost(c) ==
  /\ c.kind = "put"
  /\ \/ ~ readable(c)
     \/ c.fid \in filesToBeDeleted
     \/ /\ gc # NoGC /\ c.fid = gc.fid
        /\ \/ gc.phase = "delete"
           \/ /\ c.off < gc.pos
              /\ \A j \in DOMAIN gc.wb : gc.wb[j] # [key |-> c.key, ver |-> c.ver, kind |-> "put"]

(* Such a copy lies behind another of its version, or at the bottom of the *)
(* tree behind a newer version.                                            *)
LostAreHidden ==
  \A s \in sourcesNow : \A c \in content(tree, s) :
    c.key \notin upset /\ isLost(c) /\ isFirst(tree, sourcesNow, s, c.ver, c.key) =>
      s.tier = "base" /\ \E d \in copiesNow : d.key = c.key /\ d.ver > c.ver

VlogInv ==
  VlogTyped /\ FilesMade /\ GcMade /\ VersionsAgree /\ TiersApart /\ VersionsRise /\ LostAreHidden
=============================================================================
