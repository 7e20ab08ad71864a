-------------------------------- MODULE Levels --------------------------------
(***************************************************************************)
(* levels.go, level_handler.go and the memtable part of db.go: the LSM     *)
(* tree with its cold levels 0 .. MaxLevel and the hot tier 98 (unordered) *)
(* and 99 (ordered).  The processes are the writer, the flusher, the       *)
(* compactor goroutines and one reader; every lock-protected step of the   *)
(* code is one action.                                                     *)
(*                                                                         *)
(* The scores of pickCompactLevels only say when a compaction is tried, so *)
(* any compaction may be tried at any time; which tables it takes and what *)
(* it drops is modelled exactly.                                           *)
(***************************************************************************)
EXTENDS CompactStatus, SequencesExt

CONSTANTS
  NumKeys,                  \* user keys are 1 .. NumKeys
  MaxTs,                    \* bound: number of commits
  MaxReadTs,                \* bound: commits before and during a lookup by the reader
  Kinds,                    \* what a commit writes: subset of {"put", "del", "ttl"}
  MaxLevel,                 \* the last cold level (6 by default)
  BaseLevelSize, LevelSizeMultiplier,
  BigSize,                  \* 0.8 * fileSz[0], in entries
  FileSz,                   \* target size of a table of the last level, in entries
  EvictSize,                \* level 99 evicts when it has more entries than this
  NumMemtables, NumLevelZeroTablesStall, NumVersionsToKeep,
  DiscardLag,               \* bound: how far discardAtOrBelow lags behind the readers
  Compactors,               \* the compactor goroutines that run, of which
  CompactorZero,            \*   id 0 alone compacts level 0 into itself,
  CompactorTwo,             \*   id 2 alone rewrites the last level, and
  CompactorThree,           \*   id 3 alone evicts from level 99
  LmaxCompaction,           \* Options.LmaxCompaction
  HotKeys,                  \* keys the heat map may call hot
  ReadKeys                  \* keys the reader asks for ({}: no reader)

ASSUME SizeAssumption ==
  /\ {NumKeys, MaxTs, MaxLevel, BaseLevelSize, LevelSizeMultiplier, BigSize, FileSz,
      NumMemtables, NumLevelZeroTablesStall, NumVersionsToKeep} \subseteq Nat \ {0}
  /\ {EvictSize, DiscardLag, MaxReadTs} \subseteq Nat /\ MaxLevel < 98
ASSUME ChoiceAssumption ==
  /\ Kinds \subseteq {"put", "del", "ttl"}
  /\ HotKeys \subseteq 1 .. NumKeys /\ ReadKeys \subseteq 1 .. NumKeys
  /\ LmaxCompaction \in BOOLEAN

VARIABLES
  ts,        \* timestamp of the last commit
  hist,      \* every entry ever written
  expired,   \* versions whose TTL is over
  mt, imm,   \* db.mt and db.imm, as sets of entries
  flush,     \* the flusher: stage and the entries of the cold table to add
  levels,    \* level id -> sequence of tables
  cstatus,   \* levelsController.cstatus
  running,   \* compactor id -> its compactDef, or Idle
  reader     \* the running Txn.Get

vars == <<ts, hist, expired, mt, imm, flush, levels, cstatus, running, reader>>

Key     == 1 .. NumKeys
Cold    == 0 .. MaxLevel
LevelId == Cold \cup {98, 99}
Idle    == [phase |-> "idle"]
NoRead  == [stage |-> "idle"]

Init ==
  /\ ts = 0 /\ hist = {} /\ expired = {}
  /\ mt = {} /\ imm = <<>>
  /\ flush = [stage |-> "idle", cold |-> {}]
  /\ levels = [l \in LevelId |-> <<>>]
  /\ cstatus = newStatus(LevelId)
  /\ running = [c \in Compactors |-> Idle]
  /\ reader = NoRead

-----------------------------------------------------------------------------
(* Tables.  File ids only tell live tables apart, so a new table takes the *)
(* first id that no live table with the same entries has.                  *)
Tables(l) == ToSet(levels[l])

LiveTables ==
  (UNION {Tables(l) : l \in LevelId}) \cup cstatus.tables
    \cup (UNION {ToSet(running[c].out) : c \in {c \in Compactors : running[c] # Idle}})

newTable(ents, stale) ==
  LET used == {t.id : t \in {t \in LiveTables : t.ents = ents}}
  IN  [id |-> Min((0 .. Cardinality(used)) \ used), ents |-> ents, stale |-> stale]

SizeOf(tables) == Cardinality(UNION {{t} \X t.ents : t \in tables})

(* isDeletedOrExpired.                                                     *)
dead(e) == e.kind = "del" \/ (e.kind = "ttl" /\ e.ver \in expired)

MaxVersion(t) == Max({e.ver : e \in t.ents})

(* Internal keys: by user key, then newest version first (CompareKeys).    *)
Before(a, b) == a.key < b.key \/ (a.key = b.key /\ a.ver > b.ver)
SmallestOf(t) == CHOOSE e \in t.ents : \A f \in t.ents : f = e \/ Before(e, f)
BiggestOf(t)  == CHOOSE e \in t.ents : \A f \in t.ents : f = e \/ Before(f, e)

overlappingTables(l, r) == {t \in Tables(l) : overlapsWith(getKeyRange({t}), r)}

(* The i-th smallest of a set of integers; a sequence without some tables. *)
nth(S, i) == CHOOSE k \in S : Cardinality({h \in S : h < k}) = i - 1

Without(s, tables) ==
  LET stay == {i \in DOMAIN s : s[i] \notin tables}
  IN  [i \in 1 .. Cardinality(stay) |-> s[nth(stay, i)]]

-----------------------------------------------------------------------------
(* writeToLSM: a commit puts its entries, all with the same version, in    *)
(* the memtable.                                                           *)
writeToLSM(ks, kind) ==
  /\ ts < (IF reader = NoRead THEN MaxTs ELSE MaxReadTs) /\ ks # {}
  /\ ts' = ts + 1
  /\ LET ents == {[key |-> k, ver |-> ts + 1, kind |-> kind] : k \in ks}
     IN  mt' = mt \cup ents /\ hist' = hist \cup ents
  /\ UNCHANGED <<expired, imm, flush, levels, cstatus, running, reader>>

(* ensureRoomForWrite of a full memtable.  The write that follows may be   *)
(* one to keys outside Key.                                                *)
flushChanHasRoom == Len(imm) - (IF flush.stage = "idle" THEN 0 ELSE 1) < NumMemtables

ensureRoomForWrite ==
  /\ mt # {}
  /\ flushChanHasRoom
  /\ imm' = Append(imm, mt) /\ mt' = {}
  /\ UNCHANGED <<ts, hist, expired, flush, levels, cstatus, running, reader>>

(* Time passes: the TTL of an entry is over.                               *)
Expire(v) ==
  /\ \E e \in hist : e.ver = v /\ e.kind = "ttl"
  /\ v \notin expired
  /\ expired' = expired \cup {v}
  /\ UNCHANGED <<ts, hist, mt, imm, flush, levels, cstatus, running, reader>>

(* buildFlushTables: hot keys (by the heatmap) to the hot table, others to *)
(* the cold one, deleted and expired entries to both.                      *)
HotPart(ents, hot)  == {e \in ents : dead(e) \/ e.key \in hot}
ColdPart(ents, hot) == {e \in ents : dead(e) \/ e.key \notin hot}

(* handleMemTableFlush up to addHotTable, which never stalls.              *)
flushHot(hot) ==
  /\ flush.stage = "idle" /\ imm # <<>>
  /\ flush' = [stage |-> "cold", cold |-> ColdPart(imm[1], hot)]
  /\ LET ents == HotPart(imm[1], hot)
     IN  levels' = IF ents = {} THEN levels
                   ELSE [levels EXCEPT ![98] = Append(@, newTable(ents, 0))]
  /\ UNCHANGED <<ts, hist, expired, mt, imm, cstatus, running, reader>>

(* tryAddLevel0Table, repeated until level 0 has room.                     *)
tryAddLevel0Table ==
  /\ flush.stage = "cold"
  /\ \/ flush.cold = {} /\ UNCHANGED levels
     \/ /\ flush.cold # {} /\ Len(levels[0]) < NumLevelZeroTablesStall
        /\ levels' = [levels EXCEPT ![0] = Append(@, newTable(flush.cold, 0))]
  /\ flush' = [stage |-> "drop", cold |-> {}]
  /\ UNCHANGED <<ts, hist, expired, mt, imm, cstatus, running, reader>>

(* flushMemtable drops the flushed memtable from imm.                      *)
dropImm ==
  /\ flush.stage = "drop"
  /\ imm' = Tail(imm) /\ flush' = [flush EXCEPT !.stage = "idle"]
  /\ UNCHANGED <<ts, hist, expired, mt, levels, cstatus, running, reader>>

-----------------------------------------------------------------------------
(* levelTargets: the base level, from the size of the last level, sunk     *)
(* past empty levels.                                                      *)
LevelSize(l) == SizeOf(Tables(l))
ShareOf(l)   == LevelSize(MaxLevel) \div LevelSizeMultiplier ^ (MaxLevel - l)
targetSz(l)  == Max({ShareOf(l), BaseLevelSize})

baseLevel ==
  LET first == Max({0} \cup {l \in 1 .. MaxLevel : targetSz(l) <= BaseLevelSize})
      sunk  == Max({first} \cup {l \in first + 1 .. MaxLevel - 1 :
                                  \A m \in first + 1 .. l : levels[m] = <<>>})
  IN  IF sunk < MaxLevel /\ levels[sunk] = <<>> /\ LevelSize(sunk + 1) < targetSz(sunk + 1)
      THEN sunk + 1 ELSE sunk

(* A compactDef that takes "top" from level "this" to level "next".        *)
compactDef(this, next, top, bot, thisRange, nextRange) ==
  [phase |-> "picked", this |-> this, next |-> next, top |-> top, bot |-> bot,
   thisRange |-> thisRange, nextRange |-> nextRange, base |-> baseLevel, out |-> <<>>]

(* The common case: bot is what overlaps top in the next level, whose      *)
(* claimed range is that of bot, or that of top when there is no bot.      *)
nextRangeOf(thisRange, bot) == IF bot = {} THEN thisRange ELSE getKeyRange(bot)

intoNext(this, next, top) ==
  LET thisRange == getKeyRange(top)
      bot       == overlappingTables(next, thisRange)
  IN  compactDef(this, next, top, bot, thisRange, nextRangeOf(thisRange, bot))

(* fillTables*: the compactDef is registered in cstatus.                   *)
register(c, cd) ==
  /\ running[c] = Idle
  /\ cstatus' = claim(cstatus, cd)
  /\ running' = [running EXCEPT ![c] = cd]
  /\ UNCHANGED <<ts, hist, expired, mt, imm, flush, levels, reader>>

(* From the oldest table on, as long as the next one overlaps the range of *)
(* those before it.                                                        *)
overlappingPrefix(s) ==
  LET first(n) == {s[i] : i \in 1 .. n}
      n == Max({n \in 1 .. Len(s) : \A i \in 2 .. n :
                  overlapsWith(getKeyRange(first(i - 1)), getKeyRange({s[i]}))})
  IN  first(n)

fillTablesL0ToLbase(c) ==
  /\ levels[0] # <<>> /\ baseLevel > 0
  /\ SizeOf({levels[0][1]}) >= BigSize
  /\ LET cd == intoNext(0, baseLevel, overlappingPrefix(levels[0]))
     IN  compareOk(cstatus, cd) /\ register(c, cd)

(* The run of tables fillTablesL0ToL0 collects: it starts at the first     *)
(* table it may take and ends before the next one it may not, or when the  *)
(* target size is reached.                                                 *)
L0Taken(t) ==
  \/ t \in cstatus.tables
  \/ SizeOf({levels[0][1]}) >= BigSize /\ SizeOf({t}) >= BigSize

L0Run ==
  LET s     == levels[0]
      free  == {i \in 1 .. Len(s) : ~ L0Taken(s[i])}
      first == Min(free)
      upTo(n) == {s[i] : i \in first .. n}
      last  == Max({n \in first .. Len(s) :
                      /\ \A i \in first .. n : i \in free
                      /\ n > first => SizeOf(upTo(n - 1)) < BigSize})
  IN  IF free = {} THEN {} ELSE upTo(last)

(* Not worth it for one table, nor for two or three small ones.            *)
L0RunPays_moreThanTwo ==
  Cardinality(L0Run) > 2 /\ (Cardinality(L0Run) >= 4 \/ SizeOf(L0Run) >= BigSize \div 2)
L0RunPays ==
  Cardinality(L0Run) >= 2 /\ (Cardinality(L0Run) >= 4 \/ SizeOf(L0Run) >= BigSize \div 2)

(* All of level 0 is claimed without asking, and no next range.  Tried when *)
(* fillTablesL0ToLbase refuses, which it also does for an adjusted score    *)
(* below 1, whatever the tables are.                                        *)
fillTablesL0ToL0(c) ==
  /\ c = CompactorZero /\ L0RunPays
  /\ running[c] = Idle
  /\ LET cd == compactDef(0, 0, L0Run, {}, infRange, emptyRange)
     IN  /\ cstatus' = [ranges |-> [cstatus.ranges EXCEPT ![0] = @ \cup {infRange}],
                        tables |-> cstatus.tables \cup L0Run]
         /\ running' = [running EXCEPT ![c] = cd]
  /\ UNCHANGED <<ts, hist, expired, mt, imm, flush, levels, reader>>

fillTablesL98(c) ==
  /\ levels[98] # <<>>
  /\ LET cd == intoNext(98, 99, overlappingPrefix(levels[98]))
     IN  compareOk(cstatus, cd) /\ register(c, cd)

(* fillTablesL99 and fillTables: the table with the smallest MaxVersion    *)
(* whose ranges are free.                                                  *)
fillOne(c, this, next) ==
  LET free == {t \in Tables(this) : compareOk(cstatus, intoNext(this, next, {t}))}
  IN  \E t \in free :
        /\ \A u \in free : MaxVersion(t) <= MaxVersion(u)
        /\ register(c, intoNext(this, next, {t}))

fillTablesL99(c) ==
  /\ c = CompactorThree /\ LevelSize(99) > EvictSize /\ baseLevel > 0
  /\ fillOne(c, 99, baseLevel)

fillTables(c, l) == fillOne(c, l, l + 1)

(* discardAtOrBelow is never above the timestamp of an open reader.        *)
discardLimit == IF reader = NoRead THEN ts ELSE reader.ts

(* fillMaxLevelTables for one table of the last level with stale data (the *)
(* tests on its age and stale size only skip tables): a big one is         *)
(* rewritten alone, a small one with the tables that follow it up to       *)
(* FileSz.  When the range of those is claimed, the table is taken alone   *)
(* with no next range.                                                     *)
fillMaxLevelTables(c, i) ==
  /\ LmaxCompaction /\ c = CompactorTwo
  /\ LET s     == levels[MaxLevel]
         t     == s[i]
         kr    == getKeyRange({t})
         last  == Max({n \in i .. Len(s) : n > i => SizeOf({s[j] : j \in i .. n}) < FileSz})
         bot   == IF SizeOf({t}) >= FileSz THEN {} ELSE {s[j] : j \in i + 1 .. last}
         whole == compactDef(MaxLevel, MaxLevel, {t}, bot, kr, getKeyRange({t} \cup bot))
         alone == compactDef(MaxLevel, MaxLevel, {t}, {}, kr, emptyRange)
     IN  /\ t.stale > 0 /\ MaxVersion(t) <= discardLimit
         /\ ~ levelOverlaps(cstatus, MaxLevel, kr)
         /\ register(c, IF compareOk(cstatus, whole) THEN whole ELSE alone)

-----------------------------------------------------------------------------
(* checkOverlap: may an older version of a key in the compacted tables be  *)
(* in a level that does not take part?  A cold compaction looks at the     *)
(* levels below its target, and at the hot tier when it starts above the   *)
(* base level; a hot one looks at every cold level.                        *)
checkOverlap(cd) ==
  \E l \in {l \in Cold : cd.this >= 98 \/ l > cd.next}
             \cup (IF cd.this < cd.base THEN {98, 99} ELSE {}) :
    overlappingTables(l, getKeyRange(allTables(cd))) # {}

(* subcompact: of the versions at or below discardTs of a key it keeps the *)
(* first NumVersionsToKeep up to a dead one, which stays as a marker only  *)
(* if there is overlap.                                                    *)
keeps_noMarker(merged, hasOverlap, discardTs, e) ==
  LET newer == {f \in merged : f.key = e.key /\ e.ver < f.ver /\ f.ver <= discardTs}
  IN  \/ e.ver > discardTs
      \/ (\A f \in newer : ~ dead(f)) /\ Cardinality(newer) < NumVersionsToKeep /\ ~ dead(e)

keeps(merged, hasOverlap, discardTs, e) ==
  LET newer == {f \in merged : f.key = e.key /\ e.ver < f.ver /\ f.ver <= discardTs}
  IN  \/ e.ver > discardTs
      \/ /\ \A f \in newer : ~ dead(f)
         /\ Cardinality(newer) < NumVersionsToKeep
         /\ dead(e) => hasOverlap

(* The output is cut into tables between keys; level 0 gets one table.     *)
tablesOf(kept, cuts) ==
  LET group(k) == {e \in kept : \A c \in cuts : (e.key > c) <=> (k > c)}
      heads    == {k \in {e.key : e \in kept} : \A e \in group(k) : k <= e.key}
      cut(i)   == group(nth(heads, i))
  IN  [i \in 1 .. Cardinality(heads) |-> newTable(cut(i), Cardinality({e \in cut(i) : dead(e)}))]

compactBuildTables(c, discardTs, cuts) ==
  /\ running[c].phase = "picked"
  /\ running[c].next = 0 => cuts = {}
  /\ LET cd     == running[c]
         merged == UNION {t.ents : t \in allTables(cd)}
         kept   == {e \in merged : keeps(merged, checkOverlap(cd), discardTs, e)}
     IN  running' = [running EXCEPT ![c].phase = "built", ![c].out = tablesOf(kept, cuts)]
  /\ UNCHANGED <<ts, hist, expired, mt, imm, flush, levels, cstatus, reader>>

(* replaceTables on the next level, which is then sorted by smallest key,  *)
(* level 0 included.  sort.Slice leaves equal ones in any order.           *)
replaced_unsorted(s, bot, out) == {Without(s, bot) \o out}

replaced(s, bot, out) ==
  {q \in SetToSeqs((ToSet(s) \ bot) \cup ToSet(out)) :
     \A i \in 1 .. Len(q) - 1 : ~ Before(SmallestOf(q[i + 1]), SmallestOf(q[i]))}

replaceTables(c) ==
  /\ running[c].phase = "built"
  /\ LET cd == running[c]
     IN  \E q \in replaced(levels[cd.next], cd.bot, cd.out) : levels' = [levels EXCEPT ![cd.next] = q]
  /\ running' = [running EXCEPT ![c].phase = "replaced"]
  /\ UNCHANGED <<ts, hist, expired, mt, imm, flush, cstatus, reader>>

(* deleteTables on this level, then the claims are given up.  One step:    *)
(* claims held a moment longer only refuse what may be refused anyway.     *)
deleteTables(c) ==
  /\ running[c].phase = "replaced"
  /\ LET cd == running[c]
     IN  /\ levels' = [levels EXCEPT ![cd.this] = Without(@, cd.top)]
         /\ cstatus' = delete(cstatus, cd)
  /\ running' = [running EXCEPT ![c] = Idle]
  /\ UNCHANGED <<ts, hist, expired, mt, imm, flush, reader>>

(* Building the tables or writing the manifest fails.                      *)
compactError(c) ==
  /\ running[c].phase \in {"picked", "built"}
  /\ cstatus' = delete(cstatus, running[c])
  /\ running' = [running EXCEPT ![c] = Idle]
  /\ UNCHANGED <<ts, hist, expired, mt, imm, flush, levels, reader>>

-----------------------------------------------------------------------------
(* Lookups return a version, 0 for none.                                   *)
newestIn(ents, k, asOf) == Max({0} \cup {e.ver : e \in {e \in ents : e.key = k /\ e.ver <= asOf}})

memEntries == mt \cup UNION ToSet(imm)

(* getTableForKey: all tables of an unordered level, else the first one    *)
(* that does not end before the key.                                       *)
getTableForKey(l, k, asOf) ==
  IF l \in {0, 98} THEN Tables(l)
  ELSE LET i == SelectInSeq(levels[l], LAMBDA t : ~ Before(BiggestOf(t), [key |-> k, ver |-> asOf]))
       IN  IF i = 0 THEN {} ELSE {levels[l][i]}

levelGet(l, k, asOf) == newestIn(UNION {t.ents : t \in getTableForKey(l, k, asOf)}, k, asOf)

(* The reader: a transaction is opened, the memtables are looked at, then  *)
(* the levels one at a time in the order 98, 99, 0, 1, ...; a hit in 98    *)
(* skips 99 (getHotTier), a hit at exactly the read timestamp ends the     *)
(* lookup.                                                                 *)
openReader(k) ==
  /\ reader = NoRead /\ ts <= MaxReadTs
  /\ reader' = [stage |-> "open", key |-> k, ts |-> ts, found |-> 0, at |-> 98]
  /\ UNCHANGED <<ts, hist, expired, mt, imm, flush, levels, cstatus, running>>

nextLevelToRead(l, v) == IF l = 98 THEN (IF v > 0 THEN 0 ELSE 99) ELSE IF l = 99 THEN 0 ELSE l + 1

readMemTables ==
  /\ reader.stage = "open"
  /\ LET v == newestIn(memEntries, reader.key, reader.ts)
     IN  reader' = [reader EXCEPT !.found = v,
                      !.stage = IF v > 0 /\ v = reader.ts THEN "done" ELSE "levels"]
  /\ UNCHANGED <<ts, hist, expired, mt, imm, flush, levels, cstatus, running>>

endsLookup_anyHit(v) == v > 0 \/ reader.at = MaxLevel
endsLookup(v) == (v > 0 /\ v = reader.ts) \/ reader.at = MaxLevel

readLevel ==
  /\ reader.stage = "levels"
  /\ LET v    == levelGet(reader.at, reader.key, reader.ts)
         next == nextLevelToRead(reader.at, v)
     IN  reader' = [reader EXCEPT !.found = Max({@, v}),
                      !.at = next, !.stage = IF endsLookup(v) THEN "done" ELSE @]
  /\ UNCHANGED <<ts, hist, expired, mt, imm, flush, levels, cstatus, running>>

closeReader ==
  /\ reader.stage \in {"open", "done"}
  /\ reader' = NoRead
  /\ UNCHANGED <<ts, hist, expired, mt, imm, flush, levels, cstatus, running>>

-----------------------------------------------------------------------------
WriterStep ==
  \/ \E ks \in SUBSET Key, kind \in Kinds : writeToLSM(ks, kind)
  \/ ensureRoomForWrite

FlushStep == (\E hot \in SUBSET HotKeys : flushHot(hot)) \/ tryAddLevel0Table \/ dropImm

PickStep(c) ==
  \/ fillTablesL0ToLbase(c) \/ fillTablesL0ToL0(c)
  \/ fillTablesL98(c) \/ fillTablesL99(c)
  \/ \E l \in 1 .. MaxLevel - 1 : fillTables(c, l)
  \/ \E i \in 1 .. Len(levels[MaxLevel]) : fillMaxLevelTables(c, i)

RunStep(c) ==
  \/ \E d \in Max({0, discardLimit - DiscardLag}) .. discardLimit, cuts \in SUBSET (1 .. NumKeys - 1) : compactBuildTables(c, d, cuts)
  \/ replaceTables(c) \/ deleteTables(c)

ReadStep ==
  (\E k \in ReadKeys : openReader(k)) \/ readMemTables \/ readLevel \/ closeReader

Next ==
  \/ WriterStep \/ FlushStep \/ ReadStep
  \/ \E v \in 1 .. ts : Expire(v)
  \/ \E c \in Compactors : PickStep(c) \/ RunStep(c) \/ compactError(c)

Spec == Init /\ [][Next]_vars

(* The flusher runs when it can.  Level 0 is first in the queue of         *)
(* compactor 0, which polls every 50 ms, so it gets a compaction of level  *)
(* 0, of one kind or the other, if some is possible again and again;       *)
(* builds do not fail for ever.                                            *)
FairSpec ==
  /\ Spec
  /\ WF_vars(FlushStep)
  /\ \A c \in Compactors :
       /\ SF_vars(fillTablesL0ToLbase(c) \/ fillTablesL0ToL0(c))
       /\ SF_vars(RunStep(c) /\ running[c].phase = "picked")
       /\ SF_vars(replaceTables(c)) /\ WF_vars(deleteTables(c))

-----------------------------------------------------------------------------
(* What the user sees of version v of k: nothing if it is dead.            *)
Shown(k, v) == IF \E e \in hist : e.key = k /\ e.ver = v /\ ~ dead(e) THEN v ELSE 0

lookup(k, asOf) ==
  LET hot == levelGet(98, k, asOf)
  IN  Max({newestIn(memEntries, k, asOf),
           IF hot > 0 THEN hot ELSE levelGet(99, k, asOf)} \cup {levelGet(l, k, asOf) : l \in Cold})

(* DB.get at the latest timestamp, and at that of an open reader, shows    *)
(* the newest entry written: no flush and no compaction, whatever they     *)
(* interleave with, hides a live version or brings back one that was       *)
(* overwritten, deleted or expired.                                        *)
LookupCorrect ==
  \A k \in Key, asOf \in {ts} \cup (IF reader = NoRead THEN {} ELSE {reader.ts}) :
    Shown(k, lookup(k, asOf)) = Shown(k, newestIn(hist, k, asOf))

(* levelsController.get reads one level after the other, without a lock on *)
(* the tree: tables that move between levels during the lookup are not     *)
(* missed.                                                                 *)
ReaderCorrect ==
  reader # NoRead /\ reader.stage = "done" =>
    Shown(reader.key, reader.found) = Shown(reader.key, newestIn(hist, reader.key, reader.ts))

Active == {c \in Compactors : running[c] # Idle}

(* The tables that a rewrite of level l with itself has replaced and is    *)
(* about to delete.                                                        *)
Leaving(l) ==
  UNION {running[c].top : c \in {c \in Active : /\ running[c].phase = "replaced"
                                                /\ running[c].this = l /\ running[c].next = l}}

(* levelHandler.validate, and what getTableForKey's binary search needs:   *)
(* the tables of an ordered level are disjoint and sorted, but for those a *)
(* rewrite of the level is just replacing.                                 *)
SortedLevels ==
  \A l \in LevelId \ {0, 98} :
    LET s == Without(levels[l], Leaving(l))
    IN  \A i \in 1 .. Len(s) - 1 : Before(BiggestOf(s[i]), SmallestOf(s[i + 1]))

(* No table is in two compactions, and the tables of a compaction are      *)
(* still in their levels when they are replaced.                           *)
CompactionsDisjoint ==
  /\ \A c, d \in Active : c # d => allTables(running[c]) \cap allTables(running[d]) = {}
  /\ \A c \in Active :
       /\ running[c].top \subseteq Tables(running[c].this)
       /\ running[c].phase # "replaced" => running[c].bot \subseteq Tables(running[c].next)

(* When no compaction runs, nothing is claimed (doCompact: "Remove the     *)
(* ranges from compaction status").                                        *)
RangesReleased ==
  Active = {} => cstatus = newStatus(LevelId)

(* The flusher is not stalled for ever by a full level 0.                  *)
FlushFinishes == flush.stage = "cold" ~> flush.stage = "drop"

-----------------------------------------------------------------------------
(* Why: the inductive invariant behind CompactionsDisjoint and, without    *)
(* rewrites of the last level, RangesReleased.                             *)
Entries   == [key : Key, ver : Nat, kind : {"put", "del", "ttl"}]
EntrySets == {S \in SUBSET Entries : IsFiniteSet(S)}
TableSet  == [id : Nat, ents : EntrySets \ {{}}, stale : Nat]
Ranges    == [left : Nat, right : Nat, inf : BOOLEAN]

CompactDefs ==
  [phase : {"picked", "built", "replaced"}, this : LevelId, next : LevelId, top : SUBSET TableSet, bot : SUBSET TableSet,
   thisRange : Ranges, nextRange : Ranges, base : Cold, out : Seq(TableSet)]

LevelsType ==
  /\ ts \in Nat /\ mt \in EntrySets /\ imm \in Seq(EntrySets)
  /\ flush \in [stage : {"idle", "cold", "drop"}, cold : EntrySets]
  /\ flush.stage # "idle" => imm # <<>>
  /\ levels \in [LevelId -> Seq(TableSet)] /\ IsFiniteSet(LiveTables)
  /\ cstatus \in [ranges : [LevelId -> SUBSET Ranges], tables : SUBSET TableSet]
  /\ running \in [Compactors -> CompactDefs \cup {Idle}]

(* A table is in one place of one level; the output of a compaction is new *)
(* until it replaces the tables of the next level.                         *)
built(c) == c \in Active /\ running[c].phase = "built"

OnePlace ==
  /\ \A l \in LevelId : IsInjective(levels[l])
  /\ \A l, m \in LevelId : l # m => Tables(l) \cap Tables(m) = {}
  /\ \A c \in Compactors : built(c) =>
       /\ ToSet(running[c].out) \cap cstatus.tables = {}
       /\ \A l \in LevelId : ToSet(running[c].out) \cap Tables(l) = {}
       /\ \A d \in Compactors \ {c} : built(d) => ToSet(running[c].out) \cap ToSet(running[d].out) = {}

(* The tables of a compaction are registered, and those it has replaced    *)
(* are in no level.                                                        *)
TablesTaken ==
  \A c \in Active :
    /\ allTables(running[c]) \subseteq cstatus.tables /\ running[c].top \cap running[c].bot = {}
    /\ running[c].phase = "replaced" => \A l \in LevelId : running[c].bot \cap Tables(l) = {}

(* Its ranges are registered, hold its tables, and are its own.            *)
proper(r) == r.inf \/ (1 <= r.left /\ r.left <= r.right)
inRange(r, tables) == \A t \in tables : \A k \in KeysOf(t) : r.inf \/ (r.left <= k /\ k <= r.right)
claims(cd) ==
  {<<cd.this, cd.thisRange>>} \cup (IF cd.this = cd.next /\ cd.bot = {} THEN {} ELSE {<<cd.next, cd.nextRange>>})

ClaimsHeld ==
  \A c \in Active :
    /\ \A p \in claims(running[c]) : p[2] \in cstatus.ranges[p[1]] /\ proper(p[2])
    /\ inRange(running[c].thisRange, running[c].top) /\ inRange(running[c].nextRange, running[c].bot)
    /\ (running[c].thisRange.inf => c = CompactorZero) /\ ~ running[c].nextRange.inf
    /\ \A d \in Active \ {c} : claims(running[c]) \cap claims(running[d]) = {}

(* Nothing else is registered, but for what rewrites leave behind.         *)
NothingLeft ==
  ~ LmaxCompaction =>
    /\ cstatus.tables \subseteq UNION {allTables(running[c]) : c \in Active}
    /\ \A l \in LevelId : \A r \in cstatus.ranges[l] : \E c \in Active : <<l, r>> \in claims(running[c])
    /\ \A c \in Active : running[c].this = running[c].next => running[c].bot = {}

CompactionsInv == LevelsType /\ OnePlace /\ TablesTaken /\ ClaimsHeld /\ NothingLeft /\ CompactionsDisjoint
=============================================================================
