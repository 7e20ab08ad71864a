# A TLA+ verification project for priZzlBadger

priZzlBadger is a fork of BadgerDB v4, an embedded key-value store in Go: a
multi-version LSM tree with values in a separate log, serializable snapshot
isolation, and (the fork's addition) a *hot tier* of two levels, 98 and 99, that
lives beside the numbered levels and receives the keys a heat map considers hot.

This directory holds models of its parts, the TLC runs that check them and the
TLAPS proofs. `PROJECT.json` ties every definition to the lines it models.

## 1. Inventory

| Part | Source | State | Operations | Talks to |
|---|---|---|---|---|
| Watermark | `y/watermark.go` | `doneUntil`, heap of indices, pending counts, waiters, `markCh` | Begin, Done, WaitForMark, the `process` goroutine | used twice by the oracle |
| Oracle and transactions | `txn.go` | `nextTxnTs`, `readMark`, `txnMark`, `committedTxns`, `lastCleanupTs`, `writeChLock`; per transaction reads, pending writes, timestamps | NewTransaction, Get, Set/Delete, Commit, Discard | watermark, write path, compaction (`discardAtOrBelow`) |
| Write path | `db.go` | `writeCh`, the running batch, `db.mt`, `db.imm`, `blockWrites` | sendToWriteCh, doWrites, writeRequests, writeToLSM, ensureRoomForWrite | oracle, value log, memtable, publisher |
| Flush and routing | `db.go` | `flushChan`, `imm` | buildFlushTables, handleMemTableFlush, addFlushTables, flushMemtable | levels, heat map, manifest |
| Levels and compaction | `levels.go`, `level_handler.go`, `util.go` | tables per level, hot tier 98 (unordered) and 99 (ordered) | levelTargets, six ways to pick tables, subcompact, replaceTables, deleteTables, get, getHotTier | compaction status, oracle, value log, manifest |
| Compaction status | `compaction.go` | claimed key ranges per level, tables in use | compareAndAdd, delete | compactors |
| Value log and GC | `value.go`, `discard.go` | hot and cold log files, discard statistics, iterator count, files waiting for deletion | write, rewrite, doRunGC, deleteLogFile | write path, LSM tree, iterators |
| WAL, recovery, manifest | `memtable.go`, `manifest.go`, `db.go` | log files, table files, records of the manifest | logEntry, replay, addChanges, rewrite, Open, Close, Sync | everything persistent |
| Key registry | `key_registry.go` | data keys, registry file | LatestDataKey, storeDataKey, OpenKeyRegistry | tables and logs |
| Life cycle and drops | `db.go` | `blockWrites`, closers, the channel's reader | blockWrite, prepareToDrop, DropAll, DropPrefix, Close | write path, flush, levels |
| Sequence | `db.go` | stored lease; `next` and `leased` of a handle | GetSequence, Next, updateLease, Release | transactions |
| Merge operator | `merge.go` | versions of one key | Add, Get, compact | write channel, levels |
| Write batch | `batch.go`, `y/y.go` | current transaction, first error, throttle | SetEntry, commit, callback, Flush, Cancel | transactions |
| Publisher | `publisher.go`, `trie/` | subscribers, their channels, the trie | sendUpdates, publishUpdates, newSubscriber, deleteSubscriber, Subscribe | write path |
| Iterators | `iterator.go`, `table/` | position in every source, prefetched items | Seek, Rewind, Next, parseItem | levels, value log |
| Stream and backup | `stream.go`, `backup.go` | range and list channels, context | produceRanges, produceKVs, streamKVs, Orchestrate, Backup | transactions |
| Stream writer | `stream_writer.go` | a sorted writer per stream, throttle, `prevLevel`, `maxVersion` | Prepare, PrepareIncremental, Write, Flush, Cancel | levels, manifest, oracle |
| Skip list | `skl/` | towers of pointers | Put, findSpliceForLevel, findNear | memtable |
| Heat map | `heatLSM/` | tree of key ranges, statistics slots, snapshot of hot zones | RecordWriteAsync, AddSample, Evolve, EpochDecayAndSnapshot, IsHotKey | write path, flush |
| Tables, options, metrics, command line, generated code | `table/`, `options.go`, `badger/`, `pb/`, `fb/` | bytes | encoding | - |

What is hard in this code, and where correctness rests:

* **Concurrency by lagging watermarks.** Begin and Done only push into a channel.
  Everything that throws information away (compaction, cleanup of conflict
  information) relies on `doneUntil`, which another goroutine moves later. It has
  to be conservative at every moment, and a waiter must never be forgotten.
* **Ordering.** Commit timestamps, the write channel and the memtable have to
  agree on one order although different locks protect them; updates, streams and
  merges pass several goroutines and have to come out in order and complete.
* **Failures half-way.** A write can fail between the entries of one transaction, a
  send after the timestamp was taken, a compaction before its manifest entry, a
  lease after it was handed out, a background commit after its caller went on.
* **Crashes** between any two steps that touch files, of the process or of the
  machine.
* **Things that move under readers.** Lookups take one level lock after the other;
  iterators hold tables and log files that compaction and GC want to remove; up to
  four compactors pick tables concurrently; the skip list and the heat map change
  under their readers without a common lock.
* **Two tiers.** Older versions of a key may be in a place the original overlap
  check did not know: level 98/99 while the cold tree is compacted, or the reverse;
  drops, garbage collection and merge entries meet the same problem.
* **Hand-over and shutdown.** The write channel gets a new reader at every drop;
  everything that is stopped must drain what was sent to it.

The list of hazards, each with its line and the properties aimed at it, is in
`PROJECT.json`.

## 2. Modules

| Module | Models | |
|---|---|---|
| `WaterMark` | `y/watermark.go` | a watermark as a record, its methods as operators; the accounting `WaterMarkInv` |
| `Oracle` (extends `WaterMark`) | `txn.go`, write path of `db.go`, the discarding side of `levels.go` | the transactional core |
| `SerializableStore` | what `NewTransaction` and `Txn` document | abstract specification: a log of commits |
| `CompactStatus`, `Levels` (extends it) | `compaction.go`; `levels.go`, `level_handler.go`, memtable part of `db.go` | writer, flusher, compactors and a reader on the tree of tables |
| `ValueLog` | `value.go`, `discard.go`, the tree as far as it holds pointers | writes, GC, iterators, both tracks |
| `Recovery` | `memtable.go`, `manifest.go`, Open/Close/Sync | files and crashes |
| `KeyRegistry` | `key_registry.go` | data keys, torn writes, reopening |
| `Lifecycle` | `db.go` | writers, drops and Close around the write channel |
| `WriteBatch`, `Publisher`, `Sequence`, `MergeOperator` | `batch.go`, `publisher.go`, `db.go`, `merge.go` | clients of the core, each with its own promise |
| `Stream`, `StreamWriter` | `stream.go`, `backup.go`; `stream_writer.go` | bulk reading and bulk loading |
| `SkipList`, `Iterators`, `HeatMap` | `skl/`, `iterator.go` and `table/`, `heatLSM/` | data structures |
| `WaterMarkProofs`, `OracleProofs` | | proofs about the oracle, its reads and its refinement |
| `LevelsProofs`, `SkipListProofs`, `ValueLogProofs` | | proofs about one component each |
| `StorageProofs` | | proofs about `Recovery` and `KeyRegistry` |
| `ClientProofs` | | proofs about `Lifecycle` and `WriteBatch` |
| `PartsProofs` | | proofs about `Sequence`, `HeatMap` and `Stream` |
| `MCOracle`, `MCLevels`, `MCCommits`, `MCClients`, `MCStorage`, `MCParts` | | small instances for TLC |

`MCCommits` (`Oracle`, `WriteBatch`), `MCClients` (`Lifecycle`, `Publisher`), `MCStorage`
(`Oracle`, `ValueLog`, `Recovery`, `KeyRegistry`) and `MCParts` (the others) hold
several components. A constant set
`Parts` names them and the variable `part`, chosen once, says which one runs: a
behaviour is one of a single component, the others stay in their initial states. So
a run checks each of its components completely, and nothing about how they
interact; where they do, one module has both sides (`ValueLog` its tree,
`Lifecycle` the write path, flusher and tiers, `MergeOperator` the channel and the
levels, `Oracle` the write path and compaction). `Parts` restricted to one name
checks that component alone.

### Oracle

Each transaction is one goroutine whose position is `pc[t]`: `idle`, `begin`
(timestamp taken, not yet waited), `wait` (parked in `txnMark`), `active`, `send`
(commit timestamp taken, `writeChLock` held), `sent`, `discard`, `done`. One action is
one critical section of the code: `NewTransaction` is `readTs` up to the unlock,
`newCommitTs` the whole locked function including `doneRead`,
`cleanupCommittedTransactions` and `txnMark.Begin`. `writeToLSM` puts one entry per
step, because a reader can look at the memtable between two of them. The goroutines
of both watermarks, the writer and a compactor are processes of their own. `seen`
records what each Get found, `lsm[k]` the versions of `k` anywhere in the tree (0 is
"no version"). Conflict detection works on fingerprints `Fp[k]`, as in the code. A
failed `sendToWriteCh` and a failed `writeRequests` may happen at any point if
`SendErrors` and `WriteErrors` allow it.

### Levels

A table is a record with an identifier, the set of its entries and its stale count;
a level is a sequence of tables. User keys are `1 .. NumKeys`, an entry is a key, a
version and a kind (`put`, `del`, `ttl`); `Expire` lets the time of a `ttl` entry pass.
Sizes are counted in entries. Compaction is split where the code releases its locks:
picking (`fillTables*`, which also registers the claim), `compactBuildTables` (with
`checkOverlap` and the choice of versions in `keeps`), `replaceTables`, `deleteTables`
together with giving up the claim; `compactError` is a build or manifest error. The
reader takes one step for the memtables and one per level.

Scores only decide *when* a compaction is tried, so any may be tried at any time;
age tests are left out; how the output is cut into tables is arbitrary at key
boundaries; `sort.Slice` in `replaceTables` is not stable, so tables with the same smallest
key come out in any order. Which keys of `HotKeys` are hot is arbitrary at every flush. The discard
timestamp is at most `DiscardLag` behind what the readers allow. One commit writes
one kind.

### Files

`ValueLog`: all values are above the threshold, so the tree holds pointers. The tree
is kept by place (memtables, 98, 99, level 0, base), and a flush or a compaction is one
step, except that level 0 into itself is two, as its order of tables matters. GC is
cut where the code lets go: pick, one entry of `rewrite`, one batch written back,
the deletion. `changeHeat` lets the heat map change its mind; `upset` notes the keys it
did so for, hot keys of which GC wrote an old version back, and keys whose tables in
level 0 a merge of that level may have reordered. An iterator takes memtables and tables in two steps and is released in two.

`Recovery`: a log is a sequence of records and its synced length. `CrashProcess` keeps
the files, `CrashMachine` cuts each log anywhere above its synced length. A flush and a
compaction take one step per effect on a file or on the tree, manifest records
included; `addChanges` may fail or be torn. `Open` replays manifest and logs as the
code does and may return an error, which is the state `failed`.

`KeyRegistry`: a file of records, each complete or torn in its header or its body.

### Clients, streams and data structures

`Lifecycle` has the hand-over of the write channel: reading `blockWrites` and sending are
two steps, `doWrites` and its single writing goroutine, the drain in `prepareToDrop`,
drop steps with `db.lock`, resumption, and Close with its last memtable. A request is
either of a commit or of somebody else (GC, merges, loads). A commit has taken its timestamp under
`writeChLock`, which it holds until it has sent, and the reads that DropPrefix begins with wait
until no commit has a timestamp that is not done (`uncommitted`, `viewBegins`). Taking the timestamp and
reading `blockWrites` are one step, and so are the write and `doneCommit`: a commit that finds writes
blocked gives its timestamp back at once, so the steps left out delay that read, but do not stop it.
`WriteBatch` and `StreamWriter` have the throttle with its slots and its channel of errors.
`Publisher` has the trie with ignored positions, the publishing goroutine that holds the
lock while it sends, and a goroutine per subscriber. `Sequence` has transactions that
conflict, fail or are written although they failed, and handles that are forgotten
(a crash). `MergeOperator` follows merged entries through channel, memtable, both
tiers and compaction. `Stream` has producers, sender and Orchestrate with a cancelled
context. `StreamWriter` runs several sessions one after the other, each with a deferred
Cancel, with commits, flushes and compactions from the end of Flush, or of that Cancel, on; the order in which tables
reach a level is the order in which their goroutines happen to end. In `SkipList` one
step is one atomic access. `Iterators` is the one component without a schedule: its
initial states are all placements of versions in sources together with all options, and
its steps are the calls of the iterator; it is compared with a definition over sets.
`HeatMap` takes a step per lock that the sampling and the decaying goroutine hold.

## 3. Runs

All runs use two workers and end within about three minutes.

| Run | Bounds | Shows |
|---|---|---|
| `oracle_serial` | 2 transactions, 2 keys, 2 timestamps, all errors | `SnapshotRead`, `Serializable`, assertions of the code; implements `SerializableStore`; the inductive invariant `StoreInv` |
| `levels_tree` | 1 key, 3 commits of puts and deletes, compactors 0 and 3, eviction, a lookup begun at version 2 at most | nothing deleted or overwritten comes back; a lookup racing with compaction and flush is right; no table is in two compactions; claims are released |
| `levels_rewrite` | 2 keys, 2 commits with TTL, compactors 1 and 2, rewrites of the last level | ordered levels stay sorted and disjoint |
| `levels_live` | 1 key, 3 commits, compactor 0, fairness | a stalled flush gets room |
| `commits` | oracle: 2 transactions, 1 key, 2 timestamps, all errors; batch: 2 callers, 3 entries, 2 pending; fairness | `NewTransaction` and `Commit` return; Flush commits or reports, the calls of a batch return |
| `clients` | life cycle: 2 writers with 1 request, 2 keys, one with the prefix, 2 droppers, channel of 1; publisher: 2 subscribers, 2 updates; fairness | drops drop cold data, writes that returned stay, requests are answered and drops end, unless DropPrefix waits for a late commit; updates arrive in order, all of them, and nobody blocks for ever |
| `storage` | oracle: 3 transactions, 1 key, 3 timestamps, no errors; value log: 1 key, 2 commits, 3 memtables and 3 files a track, 1 entry a file, 2 iterators; recovery: 2 keys, one of them hot, 2 requests, 2 crashes; registry: 2 callers, 4 keys, 2 restarts | the discard watermark is below readers, conflict information is kept, snapshots are stable; no read finds a deleted log file; iterators keep their files; commits are atomic and durable through crashes; Open succeeds; data keys survive |
| `parts` | skip list: 2 putters, 2 keys, height 3; iterator: 2 keys, 2 versions, 3 sources; heat map: 5 samples, 1 epoch; stream: 2 ranges, 2 commits; sequence: 2 handles, lease up to 3, 1 failure; merge: 3 values; stream writer: 2 streams, 2 sessions, 1 error or commit | each data structure or helper does what its caller relies on |
| `levels_evict_overlap`, `vlog_stale`, `drop_hot`, `drop_prefix_stuck` | | the disagreements of section 5 |

Why the bounds are enough to be interesting. Two transactions and two keys are the
smallest instance with write skew; three transactions are needed for a reader, a
committer it conflicts with and a third one whose end moves the watermark and
triggers the cleanup. `MarkChCap` is 2 or 3, so that a full channel happens (100 in
the code). Three commits to one key give an oldest, a deleting and a new version in
three different tables; with `MaxLevel = 2` there is a base level and a last level below
it. `BigSize` and `EvictSize` are chosen per run so that the compaction the run is about
is reachable: 1 lets every table leave level 0, 2 makes level 0 merge into itself first,
`EvictSize = 0` makes level 99 evict, 9 never. One entry per log file makes every
version a candidate for GC, two versions are what GC confuses. Two crashes are the
smallest number with a crash after a recovery. Channels and throttles have capacity 1
or 2, so that full and empty both happen. Two subscribers share a node of the trie in
spite of different prefixes. Two sources that hold the same version, and one without,
are what the merge iterator has to tell apart. Two samples fill a leaf of the heat
map, so five split twice and one epoch folds what was split. Two sessions of the
stream writer, with a commit between them, reach every case of `PrepareIncremental`:
empty, above a level, memtable not empty, flattened.

Runs say `CHECK_DEADLOCK FALSE` where the system really stops: an idle database has
nothing to compact, a number of requests, samples or sessions is bounded.
`oracle_serial` keeps deadlock checking.

Symmetry is used in runs without temporal properties that could be confused by it:
transactions of `Oracle` (the refinement maps a log of commits, which has no names of
transactions in it), iterators, putters and sequence handles; no definition tells two of
them apart. In `storage` the three transactions begin in a fixed order (`beginInTurn`), for the same
reason, instead of a second symmetry.

### Fairness

* `Oracle`: weak fairness of what the code does by itself (waiting, sending, the
  callback after the write, the deferred Discard), of the writer and of the two
  watermark goroutines: runnable goroutines run. No user action is fair; a
  transaction may stay open for ever.
* `Levels`: weak fairness of the flusher; strong fairness of "compactor 0 gets some
  compaction of level 0", since it polls every 50 ms with level 0 at the front of its
  queue (`moveL0toFront`), and of building and replacing tables, that is, compactions do
  not fail for ever.
* `Lifecycle`: `doWrites`, each writer between its two steps, and each drop go on when
  they can (a drop whose read waits cannot). Nobody has to call anything, and flushes and evictions need not happen.
* `WriteBatch`: each call goes on, and every commit in the background ends, with or
  without an error.
* `Publisher`: the publishing goroutine, the sending side and each subscriber go on,
  which includes that the callback of a subscriber returns. A subscriber need not
  leave, and its context need not be cancelled.

## 4. Proofs

Every theorem holds for all values of the constants that satisfy the named ASSUMEs of
its module, which say that bounds and capacities are numbers, that a set of
transactions is finite and that sentinels (`NoTxn`, `NotRead`, `"none"`) are outside the sets they
mark; TLC evaluates them in the runs. Each inductive invariant was first checked with
TLC on the instance of its component's run.

| Module | Theorems | Invariant |
|---|---|---|
| `OracleProofs` (on `WaterMarkProofs`) | `OracleInvariant`, `TypeCorrect`, `MarksAccounted`, `DiscardIsSafe`, `ConflictInfoIsKept`, `AssertionsNeverFail` | `OracleInv` |
| | `StoreInvariant`, `ReadsAreSnapshots`, `CommitsAreSerializable`, `SnapshotsAreStable`, `StoreImplemented` | `StoreInv` |
| `LevelsProofs` | `CompactionsInvariant`, `TablesInOneCompaction`, `RangesAreReleased` | `CompactionsInv` |
| `StorageProofs` | `ManifestInvariant`, `StoreCanBeReopened` | `ManifestInv` |
| | `DurableInvariant`, `CommitsThatReturnedStay`, `CommitsAreWhole` | `DurableInv`, with `ManifestInv` |
| | `SyncInvariant`, `SyncsAreKept` | `SyncInv`, with `DurableInv` |
| | `RegistryInvariant`, `KeysAreKept` | `RegistryInv` |
| `ValueLogProofs` | `ValueLogInvariant`, `LiveValuesStay` | `VlogInv` |
| `SkipListProofs` | `SkipListInvariant`, `PutsAreKept`, `SearchesFindNearest` | `SklInv` |
| `ClientProofs` | `LifecycleInvariant`, `DropsDropCold`, `AckedWritesKept` | `LifecycleInv` |
| | `BatchInvariant`, `FlushesCommit` | `BatchInv` |
| `PartsProofs` | `SequenceInvariant`, `SequenceNumbersUnique` | `SequenceInv` |
| | `HeatMapInvariant`, `SlotsHaveOneOwner` | `HeatInv` |
| | `StreamInvariant`, `BackupsAreExact` | `StreamInv` |

**The watermarks.** None of the oracle's invariants is inductive: whether `doneUntil` may
move depends on marks that are still in the channel. `WaterMarkInv` accounts for them.
A transaction *holds* an index when the goroutine has received its Begin and not
yet its Done. Then `pending[i]` is the number of holders of `i`; every held index is
in the heap; Begins are in the channel in the order of their indices, none below
`doneUntil` or below an index of the heap; each transaction has at most one Begin
and one Done in the channel, in this order. `WaterMarkProofs` shows that Begin (at
an index not below any before it), Done, a wait and every iteration of `process`
preserve it, and that it implies: `doneUntil` is at or below the index of every
caller between Begin and Done, it never decreases, and no mark arrives below it.
`Oracle` calls Begin under its lock with timestamps that never decrease, which is
the hypothesis of the lemma for Begin. `ConflictInfoKept` is then preserved by the
cleanup: what is dropped is at or below the discard watermark, hence at or below
the `readTs` of everybody who still runs.

**The store.** `StoreInv` adds what a read depends on. Commit timestamps are unique and
without gaps; `txnMark` is *strictly* below every commit that is not decided, and at or
above the `readTs` of everybody it has released (`SnapshotsReadyInv`): so when a
transaction becomes active all commits below its `readTs` have been answered. A request
is in one place between the channel and its answer (`RequestsInv`). The tree holds, for
each entry that was put by a commit that did not fail, its version or a newer one that
is at or below the discard timestamp, hence at or below every reader (`TreeInv`). With
`ReadsCurrent`, which says the same of the conflict check and includes commits that fail
later, this gives `SnapshotRead` and `Serializable`. `SnapshotsAreStable` is an action
property: a put has a version above every active `readTs`, and what compaction drops is
covered by a newer version below it. `StoreImplemented` maps each step to one of
`SerializableStore` or to a stutter: taking a commit timestamp appends to the log, marking
it done decides its outcome, the wait for `txnMark` takes the snapshot, a Get is a read.
It is stated under `DetectConflicts`, as the abstract store promises serializability and a
database opened without conflict detection does not.

**Compactions.** That no table is in two compactions rests on the claimed ranges for five
of the six ways to pick tables and on the set of tables in use for the sixth (level 0
into itself). `CompactionsInv` therefore says where every table is: in one place of one
level (`OnePlace`), or in the output of one compaction that has not been installed; the
tables of a running compaction are registered and, once replaced, in no level
(`TablesTaken`); its ranges are registered, are not empty, hold the keys of its tables
and are nobody else's (`ClaimsHeld`). If a range that is asked for is free, tables within
it cannot be anybody's, for a common key would make the ranges overlap
(`TakenApart`). The infinite range is not asked for, but only compactor 0 ever claims
it. The lemmas on the operators (`nth`, `Without`, `replaced`, `newTable`, `tablesOf`,
`getKeyRange`, `overlapsWith`) say what they return for any table and any level; output
tables are fresh because `newTable` takes an id that no live table with its entries has.
`RangesAreReleased` assumes `~ LmaxCompaction`, the default: a rewrite of the last level
that collects further tables leaves its second range behind (section 5), so without the
assumption it is false.

**The life cycle.** `ChannelHanded`: while somebody else reads the write channel, `doWrites`
is off and has nothing in hand, and one dropper at a time has taken over. `RequestsOnce`:
a request is in the channel, with `doWrites`, in the running batch or with the dropper
that drains, once, and its writer waits. `DropProgress`: what a drop has emptied stays
empty until it resumes. From these, acknowledged writes are never lost between the
owners of the channel, and a drop has seen everything committed before it. None of this
depends on the wait of DropPrefix, which only delays its steps.

**Batch, sequence, registry.** `BatchInv`: who holds the lock of the batch, that nothing
is sent to the background after the throttle was closed, and that each accepted entry is
committed, in the open transaction, or on its way, unless an error was recorded.
`SequenceInv`: what a transaction that may still commit has read is the stored lease;
each number has at most one owner among the handles and what was returned, as long as
no handle is used after an error. `RegistryInv`: a key that was returned is a complete
record of the file, ids are unique, and the open registry has what the file has.

**The skip list.** `SklInv` says of every level that it is sorted, that a node is reached
at a level only if it is at the level below, and that between two linked keys the
pointers go on (`LevelSorted`); and of every Put that the neighbours it has found are linked
on either side of its key (`Placed`), though others may have been linked in between. A
splice then either fails its compare-and-swap or keeps the level sorted, and nothing that was
linked at level 0 ever leaves it: hence `PutsKept`. A search stays on linked nodes below its
key, so what it returns is the nearest key of those present when it began, or one put since.

**The heat map.** `SlotsOwnedOnce` depends on where the decaying goroutine is between its locks:
`HeatInv` has the shape of the tree (only leaves have statistics, children lie behind their
parent in the order of allocation), that the free list names slots, and that the routers above the
decaying goroutine remain routers, each before the next, while samples split leaves around it.

**Backups.** `StreamInv` follows each key from the ranges nobody has taken, through the one producer
that has it ahead, to the keys read, and each list of a key read from the channel through the sender's
batch to the output. The ranges are assumed disjoint, as `Ranges` cuts the key space. A list stays what
it was when its range's transaction began, since commits take later timestamps; lists of different keys
differ, so none is written twice. When Orchestrate returns no error, every producer ended with all
ranges taken and the sender with an empty channel: `DumpExact` is what is left of the invariant then.

**The manifest.** `ManifestInv` relates the records on disk, replayed, to the tables in the
tree and to the copy in memory: of the tables whose files exist the first names those of the tree
and the second what they will be after the one change that is inside `addChanges`. What else
they name is left from an `addChanges` that failed (`ghosts`). Since a record is appended whole or
torn, and a torn one is cut off, whatever a crash leaves can be replayed. The lemmas on replay say
that it goes by prefixes, so one more record is one more `applyChangeSet`.

**What survives.** `DurableInv` has an open store and a closed one. Open: replaying the log of a
memtable gives its entries, without those of a commit still under way (`logMade`); what is
*settled*, in tables or in what logs would give back, are whole commits (`closed`), each entry of which is
in a table or is found in every prefix of its log that may be left (`isLeft`); all it points to is in
the value log (`Pointed`); and a built table has what its memtable or its inputs have (`JobsMade`).
`safe` is the condition under which this is promised: `SyncWrites`, or no crash of the machine so far.
Without it there remains, if GC has moved nothing, that every log has every commit whole or not at all
wherever it is cut (`WholeCommits`). Closed: the same of what Open will find. A crash turns the first
into the second and Open the second into the first; a flush removes a log only when the tables that
replace it are in the manifest on disk. `AckedSurvive` and `CommitsAtomic` follow in every state.

**What Sync covers.** `SyncInv` follows, as long as GC has moved nothing, each entry that `DB.Sync` covered
on the cold track from a table or the active memtable. It has a copy in a table, or in its log at
every length a crash may leave (`keptCopy`), and the copy's value lies before the synced end of the active
cold file or in an older file (`syncedValue`). Between the two steps of `Sync`, when only the log is
synced, the value is merely there (`coldValue`), for a crash then covers nothing. An entry of the commit
under way is not covered, because it was not acknowledged before its finish mark was in the log. A new
memtable leaves the synced log as it is, a later commit only appends to the files, a flush removes the log
when the table has all of it, and after Open every log is read whole and every file with a value is an
older one. The hypotheses are those of `SyncedColdSurvive`; without them it is false (section 5).

**The value log.** GC decides by a lookup that an entry is dead and deletes its file many steps
later, while flushes and compactions go on moving the copies that lookup saw. `VlogInv` therefore
speaks of a copy that `isLost`: its file is gone, waits for iterators, or is the one GC has read
past it without keeping it. Such a copy is never the first of its version on the way of a lookup, unless
it lies at the bottom of the tree behind a newer one (`LostAreHidden`); so when the newest version
is found, its value is there. That this lasts needs where copies can be. A memtable or table has
a version once, and all copies of a version are of one kind (`VersionsAgree`); the flusher sends a
key to the tier of its heat, so the hot levels and level 0 have no put in common (`TiersApart`);
from the memtables to level 98 and level 99 what is found earlier is not older (`VersionsRise`); no write
goes to a file GC may take (`FilesMade`), and what it writes back are entries of that file
(`GcMade`). A flush and a compaction then keep, of the versions they merge, the copy that was found first,
or drop a version in favour of a newer one on the same way; a write-back puts a copy before all
others of its version before the file goes. The proof did not go through for the property as it first
stood: `VersionsRise` fails for a hot key of which GC writes an old version back, and a level 0
that is merged into itself can change the order of the copies of a key in two of its tables. TLC has
the behaviours (section 5), and `upset` records those keys.

Only model-checked, and why:

* Liveness (`levels_live` and the temporal properties of `commits` and `clients`) and
  everything that needs ENABLED: out of the prover's reach.
* `Levels.LookupCorrect`, `ReaderCorrect` and `SortedLevels`: false for some constants
  (section 5: the evictions that overlap, TTL), so they are statements about the
  instances of their runs.
* `MergeOperator`, `Publisher` and `StreamWriter` compute with folds or
  `SelectSeq`, which the prover does not expand; what they return for every input is
  induction over data. (`Recovery`, `HeatMap`, `Stream` and `ValueLog` order things by their rank or
  take the least, and replay with recursive functions, so that they can be proved about.)
  `Iterators` declares a RECURSIVE operator (the tree of merge iterators), so nothing can
  be proved in a module that uses it; no other module does.
* `HeatMap.KeysLocated` and `ValueLog.IteratorKeepsFilesSettled`: not proved.

## 5. Where the code and its documentation disagree

Shown by runs that expect a violation:

1. `levels_evict_overlap`. Level 0 and level 99 both compact into the base level. The
   claim of a compaction in the next level is the range of the tables it found
   there, which can be smaller than the range it writes, so both can be admitted and
   the base level, which `getTableForKey` searches by bisection, gets overlapping
   tables.
2. `vlog_stale`. GC sends old versions that an iterator still needs through the normal
   write path. A flush can put one into level 98 while the newer version is in level 99,
   and `getHotTier` returns the first hit. If GC then comes to the newer version, its
   lookup finds the old one, the entry counts as dead and its file is deleted: after the
   next compaction of level 98 the last commit of the key cannot be read any more. The
   run needs two commits and one file for the stale read; the loss takes more commits
   and two collections.
3. `drop_hot`. `DropAll` takes the tables of the numbered levels; what was flushed as hot
   is readable afterwards.
4. `drop_prefix_stuck`. `DropPrefix` looks for the prefix in a transaction, and
   `NewTransaction` waits for every commit that has a timestamp (`txn.go:102`). A commit that read
   `blockWrites` before it was set and sends after the channel was drained is written only by a
   new `doWrites`, which only the end of `DropPrefix` starts: both wait for ever, and so does
   every writer after them. The same happens when such a commit finds the channel full.
   `RequestsAnswered` says that this is the one way in which a request in the channel stays
   unanswered or a drop does not end (`ViewStuck`). In managed mode that transaction does not wait.

Stronger properties the code does not have. They are stated in the modules and no run
checks them; the passing runs check what is left, usually under a name with a suffix.
TLC finds the counterexample with the constants given (others as in the run's cfg).

| Property | What happens | Constants |
|---|---|---|
| `Oracle.FailedCommitLeavesNoTrace` | `writeToLSM` fails at the second entry, or SyncWAL after the last: the commit reports an error and its entries are readable (`txn.go:703` says they are not). `SerializableStore` therefore lets a read see writes of a commit that failed | `oracle_serial` |
| `Levels.LookupCorrect` with TTL | an entry that expires after its flush is in one tier only; a rewrite of the last level, which does not look at the hot tier (`levels.go:989`), or a merge within level 0, which does not look at tables outside its run (`levels.go:1636`), drops it, and an older version comes back | `levels_tree` with `Kinds <- PutTTL` and, for the rewrite, `LmaxCompaction = TRUE` |
| `Levels.RangesReleased` with rewrites of the last level | one that collects further tables never gives up its second range (`compaction.go:256`) | `levels_rewrite` |
| `ValueLog.NoDanglingRead` | a key the heat map moves, an old version of a hot key that GC wrote back (2. above), or a level 0 reordered by merging into itself, whether or not the tables were merged, shows an old copy whose file is gone, or makes GC take a live one for dead | `storage`, part `vlog` |
| `ValueLog.IteratorKeepsFiles` | a file goes between the two steps of `NewIterator`, or with the last step of an earlier iterator | `vlog` with `VMaxTs = 3` and one iterator (`OneIterator`) |
| `Recovery.SyncedSurvive` | `DB.Sync` (`db.go:796`) leaves out the hot log file, memtables that wait for their flush, and what GC moves | `storage`, part `recovery` |
| `KeyRegistry.RegistryOpens` | a record after a torn one is read as part of it, and Open fails | `storage`, part `registry` |
| `Sequence.SequenceUnique` | `updateLease` sets `next` and `leased` before a commit that fails; a handle that is used after an error hands out numbers twice | `parts`, part `sequence` |
| `MergeOperator.MergeComplete` | a change of heat between flushes puts the merged entry and what it merged into different tiers | `parts`, part `merge` |
| `WriteBatch.BatchReturns` | with more failed commits than `MaxPending`, `Throttle.Done` blocks on the full channel of errors and `Finish` waits for it (`y/y.go:222`) | `commits`, part `batch`, with `MaxPending = 1` |
| `Publisher.CloseReturns` | a match that does not parse after one that does leaves a subscriber in the trie that nobody drains or removes | `clients`, part `publisher`, such a sequence in `SubMatches` |
| `HeatMap.SlotsReachable` | a child that is split between the check and the fold leaves the slots of its own children behind | `parts`, part `heatmap` |
| `HeatMap.RoutesHome` | a key that is a prefix of another, or has the largest byte, may be left without a leaf | `heatmap` with `HeatKeys <- PrefixKeys`, or `MaxByte = 1` |
| `Stream.IncrementalComplete` | the version a backup returns is to be incremented for the next (`backup.go`), so a commit with that very version is skipped; without incrementing, one of a smaller version that arrived after its range was read | `stream` with `MaxBackups = 2` and `SinceNext = 1`; or `SinceNext = 0`, `StreamMaxTs = 3` |
| `StreamWriter.NewerAbove` | Flatten leaves a store alone whose only level is level 0, and the tables then go to the last level but one, below older data; and level 0 is compacted into the last level past them | `parts`, part `streamwriter` |

Not in a model, met while reading: after `Cancel`, or a Flush that fails early, the
tables of a stream writer stay unsorted in an ordered level until the next Flush or
restart, where lookups and compactions rely on their order; `DropAll` resets `nextFileID` to 1 while files of the hot tier keep their
numbers; `Flush` of the stream writer asks the stopped oracle for a read timestamp,
which waits for ever if the last commit's mark was still in `markCh` when it stopped.

For deletions the double write at flush time makes each tier self-sufficient:
`levels_tree` finds no behaviour in which one is forgotten.

## 6. Not modelled

Left out for good: file formats, checksums, compression, ciphers, caches, metrics,
options, the command line and generated code, all functions of bytes or without
behaviour of their own. Left out of a modelled part: managed mode of the oracle
(timestamps come from the user there) and iteration over pending writes; the
splitting of a compaction into parallel subcompactions (the cuts are arbitrary
instead); merge entries in `Levels` (they are in `MergeOperator`); `Load` of a backup, a
batch loop; the hot tier in `StreamWriter`. Three numbered levels are what `Levels` can
be checked with; a base level that is placed below a level with tables needs four.

Steps that the code takes one by one and a model takes together, and what is lost by that:

* `Oracle.newCommitTs` pushes to `readMark`, reads its `doneUntil` and pushes to `txnMark` under one
  lock. The goroutine of the mark may run in between and move `doneUntil`; but it never passes a
  reader that still runs (`WaterMarkInv`, whatever the goroutine does), and this is all that the
  cleanup needs of what it reads.
* `SkipList.linkNode`: a node's own pointer and the compare-and-swap. The node cannot be reached at
  that level before the second.
* `HeatMap.Evolve`: the slots of a split are taken and given back one by one under the lock of the
  pool; the other goroutine that uses it can only change which number a slot gets.
* `MergeOperator.compact`: the merged entry has the version of the newest it was merged from; what is
  committed between the read and the send is newer, and the entry takes effect only when it is applied.
* `Levels.compactDef`: the base level is that of the step in which tables are picked; the code
  computed it before, and other compactions may have ended since (a hazard of `PROJECT.json`).

Errors left out: those of a drop; `CompactStatus.delete` stops the process when a range or a table
it looks for is not registered, which `ClaimsHeld` and `TablesTaken` exclude, for every value of the
constants; a table file that cannot be removed (`replaceTables`, which then skips `deleteTables`); and a
compaction's `addChanges`, or a rewrite of the manifest, that fails. The copy of the manifest in memory then
has the outputs, whose files are removed, in place of the inputs, and the next rewrite makes that
permanent. `Stream.iterate` passes over a key whose `KeyToList` fails with a warning; that of
Backup cannot fail, for `yieldItemValue` returns no error (`iterator.go:188`) and the iterator
leaves out versions below `since` before it comes to it (`iterator.go:660`).
