------------------------------- MODULE Recovery -------------------------------
(***************************************************************************)
(* What survives a crash: the write-ahead logs of the memtables            *)
(* (memtable.go), the manifest (manifest.go), the table files a flush or a *)
(* compaction creates and removes, the tails of the value log, and Open,   *)
(* Close and Sync (db.go, value.go), which put them together.              *)
(*                                                                         *)
(* A crash is one of the process (everything written stays) or of the      *)
(* machine (of a log, only what was synced must stay; a longer prefix may, *)
(* and a damaged entry ends it because of its checksum).  Table files are  *)
(* synced when they are created, and directory entries are taken to be     *)
(* durable at once.                                                        *)
(***************************************************************************)
EXTENDS Integers, FiniteSets, SequencesExt

CONSTANTS
  RKeys,            \* user keys
  RHot,             \* those of them the heat map calls hot
  RMaxRequest,      \* bound: commits, and values moved by garbage collection
  RMaxWal,          \* bound: memtable files
  RMaxTable,        \* bound: table files
  RMaxCrash,        \* bound: crashes and closes
  DeletionsRewriteThreshold, DeletionsRatio   \* of the manifest

ASSUME RecoveryAssumption ==
  /\ RKeys \subseteq Nat /\ IsFiniteSet(RKeys) /\ RHot \subseteq RKeys
  /\ {RMaxRequest, RMaxWal, RMaxTable, RMaxCrash, DeletionsRewriteThreshold, DeletionsRatio} \subseteq Nat

VARIABLES
  \* on disk
  wal,        \* fid -> [recs, synced] of the memtable files
  manifest,   \* the records of MANIFEST: sets of changes, or Torn
  sst,        \* id -> the entries of a table file
  vlogf,      \* track -> sequence of value log files, the last one active
  vsynced,    \* track -> synced length of the active file
  \* in memory
  status,     \* "up", "down" or "failed" (Open returned an error)
  syncWrites, \* the option
  mt, imm,    \* fids of the memtables
  skl,        \* fid -> the entries of the memtable
  tables,     \* id -> level of the tables in the tree
  mf,         \* mf.manifest: [tables, creations, deletions]
  nextTs, nextMem, nextId,
  writer, flusher, compactor,
  appendLock, \* who is inside addChanges, and how it ends
  syncer,     \* DB.Sync between its two steps
  \* history
  nCommit, nCrash, nMoved,
  started,    \* entries of all commits
  acked,      \* entries of the commits that returned
  promised,   \* what a later Sync covered
  lossy,      \* the machine has crashed
  ghosts      \* tables removed after addChanges had failed

diskVars == <<wal, manifest, sst, vlogf, vsynced>>
memVars  == <<mt, imm, skl, tables, mf, nextTs, nextMem, nextId>>
jobVars  == <<writer, flusher, compactor, appendLock, syncer>>
histVars == <<nCommit, nCrash, nMoved, started, acked, promised, lossy, ghosts>>
recoveryVars == <<diskVars, memVars, jobVars, histVars, status, syncWrites>>

Torn   == {[op |-> "torn", id |-> 0, level |-> 0]}   \* a record written in part
Idle   == [phase |-> "idle"]
Tracks == {"cold", "hot"}
trackOf(k) == IF k \in RHot THEN "hot" ELSE "cold"
without(f, S) == [x \in DOMAIN f \ S |-> f[x]]
with(f, x, v) == [y \in DOMAIN f \cup {x} |-> IF y = x THEN v ELSE f[y]]

(* Open of an empty directory.                                             *)
RecoveryInit ==
  /\ wal = [f \in {1} |-> [recs |-> <<>>, synced |-> 0]]
  /\ manifest = <<{}>> /\ sst = [i \in {} |-> {}]
  /\ vlogf = [t \in Tracks |-> <<<<>>>>] /\ vsynced = [t \in Tracks |-> 0]
  /\ status = "up" /\ syncWrites \in BOOLEAN
  /\ mt = 1 /\ imm = <<>> /\ skl = [f \in {1} |-> {}]
  /\ tables = [i \in {} |-> 0] /\ mf = [tables |-> tables, creations |-> 0, deletions |-> 0]
  /\ nextTs = 1 /\ nextMem = 2 /\ nextId = 1
  /\ writer = Idle /\ flusher = Idle /\ compactor = Idle /\ appendLock = Idle /\ syncer = Idle
  /\ nCommit = 0 /\ nCrash = 0 /\ nMoved = 0 /\ started = {}
  /\ acked = {} /\ promised = {} /\ lossy = FALSE /\ ghosts = {}

-----------------------------------------------------------------------------
(* Writing.  valueLog.write appends the value of each entry to the active  *)
(* file of its track; with SyncWrites it then syncs both.                  *)
vwriteOne(acc, e) ==
  LET t == trackOf(e.key)
      n == Len(acc.vl[t])
  IN  [vl  |-> [acc.vl EXCEPT ![t][n] = Append(@, e)],
       out |-> Append(acc.out, [e |-> e, tr |-> t, file |-> n, pos |-> Len(acc.vl[t][n]) + 1])]

vwriteAll(entries) ==
  LET acc[n \in 0 .. Len(entries)] ==
        IF n = 0 THEN [vl |-> vlogf, out |-> <<>>] ELSE vwriteOne(acc[n - 1], entries[n])
  IN  acc[Len(entries)]

vlogWrite(entries, txn) ==
  LET r == vwriteAll(entries)
  IN  /\ vlogf' = r.vl
      /\ vsynced' = IF syncWrites THEN [t \in Tracks |-> Len(Last(r.vl[t]))] ELSE vsynced
      /\ writer' = [phase |-> "lsm", todo |-> r.out, txn |-> txn, ts |-> entries[1].ts,
                    entries |-> ToSet(entries)]

(* Keys and file ids are ordered by their rank.                            *)
inOrder(S) == [n \in 1 .. Cardinality(S) |-> CHOOSE x \in S : Cardinality({y \in S : y < x}) = n - 1]

(* A commit of at least one key: the entries carry bitTxn, and an entry    *)
(* with bitFinTxn follows them.                                            *)
startCommit(ks) ==
  /\ status = "up" /\ writer = Idle /\ nCommit + nMoved < RMaxRequest
  /\ nCommit' = nCommit + 1 /\ nextTs' = nextTs + 1
  /\ LET s == inOrder(ks)
         entries == [i \in DOMAIN s |-> [key |-> s[i], ts |-> nextTs, id |-> nCommit + 1]]
     IN  vlogWrite(entries, TRUE) /\ started' = started \cup ToSet(entries)
  /\ UNCHANGED <<wal, manifest, sst, status, syncWrites, mt, imm, skl, tables, mf, nextMem, nextId,
                 flusher, compactor, appendLock, syncer, nCrash, nMoved, acked, promised, lossy, ghosts>>

visible == (UNION {skl[f] : f \in DOMAIN skl}) \cup (UNION {sst[i] : i \in DOMAIN tables})

(* An entry moved by garbage collection has neither bit.                   *)
startMoved(c) ==
  /\ status = "up" /\ writer = Idle /\ nCommit + nMoved < RMaxRequest
  /\ nMoved' = nMoved + 1
  /\ vlogWrite(<<c.e>>, FALSE)
  /\ UNCHANGED <<wal, manifest, sst, status, syncWrites, memVars,
                 flusher, compactor, appendLock, syncer, nCommit, nCrash, started, acked, promised, lossy, ghosts>>

sklPut(s, c) == {d \in s : d.e.key # c.e.key \/ d.e.ts # c.e.ts} \cup {c}

(* memTable.Put: the log first, then the skip list.                        *)
memPut ==
  /\ writer.phase = "lsm" /\ writer.todo # <<>>
  /\ LET c == Head(writer.todo)
         r == [kind |-> IF writer.txn THEN "txn" ELSE "moved", c |-> c]
     IN  /\ wal' = [wal EXCEPT ![mt].recs = Append(@, r)]
         /\ skl' = [skl EXCEPT ![mt] = sklPut(@, c)]
  /\ writer' = [writer EXCEPT !.todo = Tail(@)]
  /\ UNCHANGED <<manifest, sst, vlogf, vsynced, status, syncWrites, mt, imm, tables, mf, nextTs, nextMem, nextId,
                 flusher, compactor, appendLock, syncer, histVars>>

(* The finish mark goes to the log only; then writeToLSM syncs it if asked *)
(* to, and the commit returns.                                             *)
memPutFin ==
  /\ writer.phase = "lsm" /\ writer.todo = <<>>
  /\ LET recs == wal[mt].recs \o (IF writer.txn THEN <<[kind |-> "fin", ts |-> writer.ts]>> ELSE <<>>)
     IN  wal' = [wal EXCEPT ![mt] = [recs |-> recs, synced |-> IF syncWrites THEN Len(recs) ELSE @.synced]]
  /\ writer' = Idle
  /\ acked' = acked \cup writer.entries
  /\ UNCHANGED <<manifest, sst, vlogf, vsynced, status, syncWrites, memVars,
                 flusher, compactor, appendLock, syncer, nCommit, nCrash, nMoved, started, promised, lossy, ghosts>>

(* ensureRoomForWrite, between two requests, when the memtable is full.    *)
newMemTable ==
  /\ status = "up" /\ writer = Idle /\ skl[mt] # {} /\ nextMem <= RMaxWal
  /\ imm' = Append(imm, mt) /\ mt' = nextMem /\ nextMem' = nextMem + 1
  /\ wal' = with(wal, nextMem, [recs |-> <<>>, synced |-> 0])
  /\ skl' = with(skl, nextMem, {})
  /\ UNCHANGED <<manifest, sst, vlogf, vsynced, status, syncWrites, tables, mf, nextTs, nextId, jobVars, histVars>>

readableValue(c) ==
  /\ c.tr \in Tracks /\ c.file \in DOMAIN vlogf[c.tr]
  /\ c.pos \in Nat \ {0} /\ c.pos <= Len(vlogf[c.tr][c.file])
  /\ vlogf[c.tr][c.file][c.pos] = c.e

(* DB.Sync: the log of the active memtable, then the active file of the    *)
(* cold track.                                                             *)
covered(c) == [e |-> c.e, safe |-> c.tr = "cold" /\ \A f \in ToSet(imm) : c \notin skl[f]]

SyncWAL ==
  /\ status = "up" /\ syncer = Idle /\ ~ syncWrites /\ (acked \cap {c.e : c \in visible}) \ {p.e : p \in promised} # {}
  /\ wal' = [wal EXCEPT ![mt].synced = Len(wal[mt].recs)]
  /\ syncer' = [phase |-> "vlog",
                covers |-> {covered(c) : c \in {d \in visible : d.e \in acked /\ readableValue(d)}}]
  /\ UNCHANGED <<manifest, sst, vlogf, vsynced, status, syncWrites, memVars, writer, flusher, compactor,
                 appendLock, histVars>>

vlogSync_never ==
  /\ syncer.phase = "vlog" /\ status = "up"
  /\ promised' = promised \cup syncer.covers
  /\ syncer' = Idle
  /\ UNCHANGED <<diskVars, status, syncWrites, memVars, writer, flusher, compactor,
                 appendLock, nCommit, nCrash, nMoved, started, acked, lossy, ghosts>>

vlogSync ==
  /\ syncer.phase = "vlog" /\ status = "up"
  /\ vsynced' = [vsynced EXCEPT !["cold"] = Len(Last(vlogf["cold"]))]
  /\ promised' = promised \cup syncer.covers
  /\ syncer' = Idle
  /\ UNCHANGED <<wal, manifest, sst, vlogf, status, syncWrites, memVars, writer, flusher, compactor,
                 appendLock, nCommit, nCrash, nMoved, started, acked, lossy, ghosts>>

-----------------------------------------------------------------------------
(* The manifest.  applyManifestChange: a table is created once and removed *)
(* only if it is there.                                                    *)
createChange(id, lvl) == [op |-> "create", id |-> id, level |-> lvl]
deleteChange(id)      == [op |-> "delete", id |-> id, level |-> 0]

created(cs) == {c \in cs : c.op = "create"}
deleted(cs) == {c.id : c \in {d \in cs : d.op = "delete"}}
validSet(m, cs) ==
  /\ \A c \in created(cs) : c.id \notin DOMAIN m.tables
  /\ deleted(cs) \subseteq DOMAIN m.tables

applyChangeSet(m, cs) ==
  LET new == {c.id : c \in created(cs)}
      lvl(i) == (CHOOSE c \in created(cs) : c.id = i).level
  IN  [tables    |-> [i \in (DOMAIN m.tables \ deleted(cs)) \cup new |->
                        IF i \in new THEN lvl(i) ELSE m.tables[i]],
       creations |-> m.creations + Cardinality(new),
       deletions |-> m.deletions + Cardinality(deleted(cs))]

asChanges(m) == {createChange(i, m.tables[i]) : i \in DOMAIN m.tables}

(* addChanges under appendLock: the copy in memory first; then the file is *)
(* appended to, or a new one is written and renamed over it.               *)
needsRewrite(m) ==
  /\ m.deletions > DeletionsRewriteThreshold
  /\ m.deletions > DeletionsRatio * (m.creations - m.deletions)

addChanges(owner, cs) ==
  LET m == applyChangeSet(mf, cs)
  IN  /\ appendLock = Idle
      /\ mf' = m
      /\ appendLock' = [phase |-> IF needsRewrite(m) THEN "rewrite" ELSE "append", owner |-> owner, cs |-> cs]

addChangesEnd(owner) ==
  /\ appendLock # Idle /\ appendLock.owner = owner /\ appendLock' = Idle
  /\ \/ /\ appendLock.phase = "append"
        /\ manifest' = Append(manifest, appendLock.cs) /\ mf' = mf
     \/ /\ appendLock.phase = "rewrite"
        /\ manifest' = <<asChanges(mf)>>
        /\ mf' = [mf EXCEPT !.creations = Cardinality(DOMAIN mf.tables), !.deletions = 0]

(* It fails after the copy in memory was changed: nothing is written, or   *)
(* the record is there but its sync failed.                                *)
addChangesError(owner) ==
  /\ appendLock # Idle /\ appendLock.owner = owner /\ appendLock.phase = "append"
  /\ appendLock' = Idle /\ mf' = mf
  /\ manifest' \in {manifest, Append(manifest, appendLock.cs)}

(* ReplayManifestFile: a partial record at the end is cut off; one in the  *)
(* middle, a second creation or a removal of nothing is an error.          *)
EmptyManifest == [tables |-> [i \in {} |-> 0], creations |-> 0, deletions |-> 0, ok |-> TRUE]
replayRecord(m, cs) ==
  IF ~ m.ok \/ cs = Torn \/ ~ validSet(m, cs) THEN [m EXCEPT !.ok = FALSE]
  ELSE LET a == applyChangeSet(m, cs)
       IN  [tables |-> a.tables, creations |-> a.creations, deletions |-> a.deletions, ok |-> TRUE]
truncateManifest_never(recs) == recs
truncateManifest(recs) == IF Last(recs) = Torn THEN Front(recs) ELSE recs
ReplayManifest(recs) ==
  LET m[n \in 0 .. Len(recs)] == IF n = 0 THEN EmptyManifest ELSE replayRecord(m[n - 1], recs[n])
  IN  m[Len(recs)]

-----------------------------------------------------------------------------
(* flushMemtable: the table files, the manifest, the tree, and then the    *)
(* memtable with its log goes.                                             *)
flushBuild ==
  /\ status = "up" /\ flusher = Idle /\ imm # <<>> /\ nextId + 1 <= RMaxTable
  /\ LET m == skl[Head(imm)]
         parts == {t \in Tracks : \E c \in m : trackOf(c.e.key) = t}
         idOf(t) == IF t = "hot" /\ "cold" \in parts THEN nextId + 1 ELSE nextId
     IN  /\ sst' = [i \in DOMAIN sst \cup {idOf(t) : t \in parts} |->
                      IF i \in DOMAIN sst THEN sst[i]
                      ELSE {c \in m : idOf(trackOf(c.e.key)) = i}]
         /\ flusher' = [phase |-> "built",
                        cs |-> {createChange(idOf(t), IF t = "hot" THEN 98 ELSE 0) : t \in parts}]
         /\ nextId' = nextId + Cardinality(parts)
  /\ UNCHANGED <<wal, manifest, vlogf, vsynced, status, syncWrites, mt, imm, skl, tables, mf, nextTs, nextMem,
                 writer, compactor, appendLock, syncer, histVars>>

flushManifest ==
  /\ flusher.phase = "built" /\ addChanges("flush", flusher.cs)
  /\ flusher' = [flusher EXCEPT !.phase = "manifest"]
  /\ UNCHANGED <<diskVars, status, syncWrites, mt, imm, skl, tables, nextTs, nextMem, nextId,
                 writer, compactor, syncer, histVars>>

(* addFlushTables goes on to the tree.                                     *)
flushAdd ==
  /\ flusher.phase = "manifest" /\ addChangesEnd("flush")
  /\ tables' = [i \in DOMAIN tables \cup {c.id : c \in flusher.cs} |->
                  IF i \in DOMAIN tables THEN tables[i] ELSE (CHOOSE c \in flusher.cs : c.id = i).level]
  /\ flusher' = [phase |-> "added"]
  /\ UNCHANGED <<wal, sst, vlogf, vsynced, status, syncWrites, mt, imm, skl, nextTs, nextMem, nextId,
                 writer, compactor, syncer, histVars>>

(* On an error the new tables lose their only reference, and the flush is  *)
(* tried again.                                                            *)
flushError ==
  /\ flusher.phase = "manifest" /\ addChangesError("flush")
  /\ sst' = without(sst, {c.id : c \in flusher.cs})
  /\ ghosts' = ghosts \cup {c.id : c \in flusher.cs}
  /\ flusher' = Idle
  /\ UNCHANGED <<wal, vlogf, vsynced, status, syncWrites, mt, imm, skl, tables, nextTs, nextMem, nextId,
                 writer, compactor, syncer, nCommit, nCrash, nMoved, started, acked, promised, lossy>>

flushDone ==
  /\ flusher.phase = "added"
  /\ wal' = without(wal, {Head(imm)}) /\ skl' = without(skl, {Head(imm)})
  /\ imm' = Tail(imm) /\ flusher' = Idle
  /\ UNCHANGED <<manifest, sst, vlogf, vsynced, status, syncWrites, mt, tables, mf, nextTs, nextMem, nextId,
                 writer, compactor, appendLock, syncer, histVars>>

(* runCompactDef: all tables of a tier into one of the level below; the    *)
(* manifest is written after the new file and before the old ones go.      *)
compactBuild(lvl) ==
  /\ status = "up" /\ compactor = Idle /\ nextId <= RMaxTable
  /\ LET top == {i \in DOMAIN tables : tables[i] = lvl}
     IN  /\ top # {}
         /\ sst' = with(sst, nextId, UNION {sst[i] : i \in top})
         /\ compactor' = [phase |-> "built", top |-> top, id |-> nextId,
                          cs |-> {createChange(nextId, lvl + 1)} \cup {deleteChange(i) : i \in top}]
  /\ nextId' = nextId + 1
  /\ UNCHANGED <<wal, manifest, vlogf, vsynced, status, syncWrites, mt, imm, skl, tables, mf, nextTs, nextMem,
                 writer, flusher, appendLock, syncer, histVars>>

compactManifest ==
  /\ compactor.phase = "built" /\ addChanges("compact", compactor.cs)
  /\ compactor' = [compactor EXCEPT !.phase = "manifest"]
  /\ UNCHANGED <<diskVars, status, syncWrites, mt, imm, skl, tables, nextTs, nextMem, nextId,
                 writer, flusher, syncer, histVars>>

compactReplace ==
  /\ compactor.phase = "manifest" /\ addChangesEnd("compact")
  /\ tables' = with(without(tables, compactor.top), compactor.id,
                    (CHOOSE c \in created(compactor.cs) : TRUE).level)
  /\ compactor' = [phase |-> "replaced", top |-> compactor.top]
  /\ UNCHANGED <<wal, sst, vlogf, vsynced, status, syncWrites, mt, imm, skl, nextTs, nextMem, nextId,
                 writer, flusher, syncer, histVars>>

compactDelete ==
  /\ compactor.phase = "replaced"
  /\ sst' = without(sst, compactor.top) /\ compactor' = Idle
  /\ UNCHANGED <<wal, manifest, vlogf, vsynced, status, syncWrites, memVars,
                 writer, flusher, appendLock, syncer, histVars>>

-----------------------------------------------------------------------------
(* A crash.  Of each log a prefix remains; an append to the manifest may   *)
(* be missing, partial or complete; a rewrite is visible or not.           *)
prefixes(s, from) == {SubSeq(s, 1, n) : n \in from .. Len(s)}

crashedManifests ==
  IF appendLock = Idle THEN {manifest}
  ELSE IF appendLock.phase = "append"
       THEN {manifest, Append(manifest, Torn), Append(manifest, appendLock.cs)}
       ELSE {manifest, <<asChanges(mf)>>}

goDown ==
  /\ status' = "down" /\ nCrash' = nCrash + 1
  /\ mt' = 0 /\ imm' = <<>> /\ skl' = [f \in {} |-> {}] /\ tables' = [i \in {} |-> 0]
  /\ mf' = [tables |-> [i \in {} |-> 0], creations |-> 0, deletions |-> 0]
  /\ nextTs' = 0 /\ nextMem' = 0 /\ nextId' = 0
  /\ writer' = Idle /\ flusher' = Idle /\ compactor' = Idle /\ appendLock' = Idle /\ syncer' = Idle
  /\ UNCHANGED <<sst, syncWrites, nCommit, nMoved, started, acked, promised, ghosts>>

CrashProcess ==
  /\ status = "up" /\ nCrash < RMaxCrash
  /\ manifest' \in crashedManifests
  /\ goDown /\ UNCHANGED <<wal, vlogf, vsynced, lossy>>

CrashMachine ==
  /\ status = "up" /\ nCrash < RMaxCrash
  /\ manifest' \in crashedManifests
  /\ \E keep \in [DOMAIN wal -> 0 .. Max({Len(wal[f].recs) : f \in DOMAIN wal})] :
       /\ \A f \in DOMAIN wal : keep[f] \in wal[f].synced .. Len(wal[f].recs)
       /\ wal' = [f \in DOMAIN wal |-> [wal[f] EXCEPT !.recs = SubSeq(@, 1, keep[f])]]
  /\ \E c \in prefixes(Last(vlogf["cold"]), vsynced["cold"]), h \in prefixes(Last(vlogf["hot"]), vsynced["hot"]) :
       vlogf' = [vlogf EXCEPT !["cold"] = Append(Front(@), c), !["hot"] = Append(Front(@), h)]
  /\ lossy' = TRUE
  /\ goDown /\ UNCHANGED vsynced

(* DB.Close: no request is under way, the last memtable was pushed to the  *)
(* flusher and flushed (an empty one is removed), the value log is closed. *)
Close ==
  /\ status = "up" /\ nCrash < RMaxCrash
  /\ writer = Idle /\ flusher = Idle /\ compactor = Idle /\ imm = <<>> /\ skl[mt] = {} /\ syncer = Idle
  /\ wal' = without(wal, {mt})
  /\ vsynced' = [t \in Tracks |-> Len(Last(vlogf[t]))]
  /\ goDown /\ UNCHANGED <<manifest, vlogf, lossy>>

-----------------------------------------------------------------------------
(* logFile.iterate: the entries of a transaction count when its finish     *)
(* mark is reached; the first thing out of order ends the log.             *)
StartReplay == [last |-> 0, pend |-> {}, out |-> {}, stop |-> FALSE, n |-> 0, end |-> 0]

addAll(out, pend) == {c \in out : \A d \in pend : c.e.key # d.e.key \/ c.e.ts # d.e.ts} \cup pend

stopReplay(acc)        == [acc EXCEPT !.stop = TRUE]
accept(acc, copies)    == [acc EXCEPT !.last = 0, !.pend = {}, !.out = addAll(@, copies), !.end = acc.n + 1]

replayOne_atOnce(acc, r) == IF r.kind = "fin" THEN accept(acc, {}) ELSE accept(acc, {r.c})

replayOne(acc, r) ==
  CASE r.kind = "txn" -> IF acc.last \notin {0, r.c.e.ts} THEN stopReplay(acc)
                         ELSE [acc EXCEPT !.last = r.c.e.ts, !.pend = @ \cup {r.c}]
    [] r.kind = "fin" -> IF acc.last # r.ts THEN stopReplay(acc) ELSE accept(acc, acc.pend)
    [] OTHER          -> IF acc.last # 0 THEN stopReplay(acc) ELSE accept(acc, {r.c})

replayEntry(acc, r) == IF acc.stop THEN acc ELSE [replayOne(acc, r) EXCEPT !.n = @ + 1]

UpdateSkipList(recs) ==
  LET acc[n \in 0 .. Len(recs)] == IF n = 0 THEN StartReplay ELSE replayEntry(acc[n - 1], recs[n])
  IN  acc[Len(recs)]

(* MaxVersion, from which nextTxnTs is set.                                *)
MaxVersion_tables(contents) == Max({0} \cup {c.e.ts : c \in UNION {sst[i] : i \in DOMAIN sst}})
MaxVersion(contents) == Max({0} \cup {c.e.ts : c \in contents})

(* Open: the manifest; the memtables in the order of their ids, the empty  *)
(* ones removed; a new memtable; revertToManifest; the value log with new  *)
(* files.                                                                  *)
Open ==
  LET recs == truncateManifest(manifest)
      m    == ReplayManifest(recs)
      log  == [f \in DOMAIN wal |-> UpdateSkipList(wal[f].recs)]
      mems == [f \in DOMAIN wal |-> log[f].out]
      live == {f \in DOMAIN wal : mems[f] # {}}
      new  == Max({0} \cup DOMAIN wal) + 1
      ids  == DOMAIN m.tables
  IN  /\ status = "down" /\ m.ok /\ ids \subseteq DOMAIN sst
      /\ status' = "up"
      /\ manifest' = recs
      /\ mf' = [tables |-> m.tables, creations |-> m.creations, deletions |-> m.deletions]
      /\ tables' = m.tables
      /\ sst' = [i \in ids |-> sst[i]]
      /\ nextId' = Max({0} \cup ids) + 1
      /\ imm' = inOrder(live) /\ mt' = new /\ nextMem' = new + 1
      /\ skl' = [f \in live \cup {new} |-> IF f = new THEN {} ELSE mems[f]]
      /\ wal' = [f \in live \cup {new} |-> IF f = new THEN [recs |-> <<>>, synced |-> 0]
                                           ELSE [recs |-> SubSeq(wal[f].recs, 1, log[f].end), synced |-> log[f].end]]
      /\ nextTs' = MaxVersion((UNION {mems[f] : f \in live}) \cup (UNION {sst[i] : i \in ids})) + 1
      /\ vlogf' = [t \in Tracks |-> Append(vlogf[t], <<>>)] /\ vsynced' = [t \in Tracks |-> 0]
      /\ UNCHANGED <<syncWrites, jobVars, histVars>>

OpenError ==
  LET m == ReplayManifest(truncateManifest(manifest))
  IN  /\ status = "down" /\ ~ (m.ok /\ DOMAIN m.tables \subseteq DOMAIN sst)
      /\ status' = "failed"
      /\ UNCHANGED <<diskVars, memVars, jobVars, histVars, syncWrites>>

-----------------------------------------------------------------------------
writeStep ==
  \/ \E ks \in (SUBSET RKeys) \ {{}} : startCommit(ks)
  \/ \E c \in visible : startMoved(c)
  \/ memPut \/ memPutFin \/ newMemTable \/ SyncWAL \/ vlogSync

flushStep == flushBuild \/ flushManifest \/ flushAdd \/ flushError \/ flushDone

mergeStep ==
  \/ \E lvl \in {0, 98} : compactBuild(lvl)
  \/ compactManifest \/ compactReplace \/ compactDelete

RecoveryNext ==
  writeStep \/ flushStep \/ mergeStep \/ CrashProcess \/ CrashMachine \/ Close \/ Open \/ OpenError

RecoverySpec == RecoveryInit /\ [][RecoveryNext]_recoveryVars

-----------------------------------------------------------------------------
inProgress == IF writer = Idle \/ ~ writer.txn THEN {} ELSE {e.id : e \in writer.entries}

(* Of every commit the store holds all entries or none, through crashes of *)
(* either kind and whatever was synced: replay waits for the finish mark,  *)
(* and both tables of a flush reach the manifest in one record.  (An entry *)
(* that GC moved to a newer log can outlive the rest of its commit if logs *)
(* are not synced and the machine crashes.)                                *)
entriesOf(id, S) == {e \in S : e.id = id}
CommitsAtomic ==
  status = "up" /\ (syncWrites \/ ~ lossy \/ nMoved = 0) =>
    LET seen == {c.e : c \in visible}
    IN  \A e \in seen : e.id \notin inProgress => entriesOf(e.id, seen) = entriesOf(e.id, started)

(* A commit that returned is there with its values after every reopening:  *)
(* with SyncWrites after any crash, without it after a crash of the        *)
(* process.  No later commit takes its place under the same timestamp.     *)
AckedSurvive ==
  status = "up" /\ (syncWrites \/ ~ lossy) =>
    \A e \in acked : /\ \E c \in visible : c.e = e /\ readableValue(c)
                     /\ \A c \in visible : c.e.key = e.key /\ c.e.ts = e.ts => c.e = e

(* DB.Sync "syncs database content to disk": what it covered is there      *)
(* after a crash of the machine.  It does not hold for values in the hot    *)
(* log file, which sync leaves out (README, 5).                            *)
survives(p) == \E c \in visible : c.e = p.e /\ readableValue(c)
SyncedSurvive == status = "up" => \A p \in promised : survives(p)

(* As far as the code ensures it: for values of the cold track that were   *)
(* not in a memtable waiting to be flushed, and that GC has not moved.     *)
SyncedColdSurvive == status = "up" /\ nMoved = 0 => \A p \in promised : p.safe => survives(p)

(* A store that was open can be opened again: the manifest can be replayed *)
(* and names existing files, unless a failed addChanges left them behind.  *)
OpenSucceeds == status = "failed" => ghosts # {}

-----------------------------------------------------------------------------
(* What OpenSucceeds rests on.  Each job made what it is about to add, and  *)
(* the one that is inside addChanges holds the lock.                       *)
madeIn(cs) == {c.id : c \in created(cs)}

FlusherMade ==
  \/ flusher \in {Idle, [phase |-> "added"]}
  \/ /\ DOMAIN flusher = {"phase", "cs"} /\ flusher.phase \in {"built", "manifest"}
     /\ flusher.cs # Torn /\ created(flusher.cs) = flusher.cs
     /\ madeIn(flusher.cs) \subseteq DOMAIN sst \ DOMAIN tables

CompactorMade ==
  \/ compactor = Idle
  \/ /\ DOMAIN compactor = {"phase", "top", "id", "cs"} /\ compactor.phase \in {"built", "manifest"}
     /\ compactor.cs # Torn /\ deleted(compactor.cs) = compactor.top /\ compactor.top \subseteq DOMAIN tables
     /\ madeIn(compactor.cs) = {compactor.id} /\ compactor.id \in DOMAIN sst \ DOMAIN tables
  \/ /\ DOMAIN compactor = {"phase", "top"} /\ compactor.phase = "replaced"
     /\ compactor.top \subseteq DOMAIN sst \ DOMAIN tables

holdsLock(owner, job) ==
  IF job.phase = "manifest"
  THEN /\ DOMAIN appendLock = {"phase", "owner", "cs"} /\ appendLock.phase \in {"append", "rewrite"}
       /\ appendLock.owner = owner /\ appendLock.cs = job.cs
  ELSE appendLock = Idle \/ appendLock.owner # owner

LockMade ==
  /\ holdsLock("flush", flusher) /\ holdsLock("compact", compactor)
  /\ appendLock = Idle \/ appendLock.owner \in {"flush", "compact"}

(* The two jobs have nothing in common.                                    *)
JobsApart ==
  /\ flusher.phase \in {"built", "manifest"} /\ compactor.phase \in {"built", "manifest"} =>
       compactor.id \notin madeIn(flusher.cs)
  /\ flusher.phase \in {"built", "manifest"} /\ compactor.phase = "replaced" =>
       compactor.top \cap madeIn(flusher.cs) = {}

(* Of the tables whose files exist, the file of the manifest names those   *)
(* of the tree, and the copy in memory what they will be after the change  *)
(* under way; the others they name are left from a failed addChanges.      *)
onDisk(m) == DOMAIN m.tables \cap DOMAIN sst
afterChange ==
  IF flusher.phase = "manifest" THEN DOMAIN tables \cup madeIn(flusher.cs)
  ELSE IF compactor.phase = "manifest" THEN (DOMAIN tables \ compactor.top) \cup {compactor.id}
  ELSE DOMAIN tables

replayable(recs) ==
  /\ recs \in Seq(ToSet(recs)) /\ recs # <<>>
  /\ Last(recs) # Torn /\ ReplayManifest(recs).ok

ManifestUp ==
  LET r == ReplayManifest(manifest) IN
  /\ replayable(manifest)
  /\ DOMAIN mf = {"tables", "creations", "deletions"}
  /\ DOMAIN tables \subseteq DOMAIN sst
  /\ onDisk(r) = DOMAIN tables /\ onDisk(mf) = afterChange
  /\ DOMAIN r.tables \cup DOMAIN mf.tables \subseteq DOMAIN sst \cup ghosts
  /\ nextId \in 1 .. RMaxTable + 1
  /\ DOMAIN r.tables \cup DOMAIN mf.tables \cup DOMAIN sst \subseteq 1 .. nextId - 1

ManifestDown ==
  LET recs == truncateManifest(manifest)
      r    == ReplayManifest(recs)
  IN /\ replayable(recs)
     /\ DOMAIN r.tables \subseteq 1 .. RMaxTable
     /\ DOMAIN r.tables \subseteq DOMAIN sst \cup ghosts

JobsInv == FlusherMade /\ CompactorMade /\ LockMade /\ JobsApart
ManifestInv ==
  /\ status = "up" => JobsInv /\ ManifestUp
  /\ status = "down" => ManifestDown
  /\ status # "up" => writer = Idle /\ flusher = Idle /\ compactor = Idle /\ appendLock = Idle /\ syncer = Idle
  /\ status \in {"up", "down", "failed"} /\ OpenSucceeds

-----------------------------------------------------------------------------
(* What CommitsAtomic and AckedSurvive rest on.  Replaying the log L of a   *)
(* memtable gives its entries s, but for those of a commit that is being    *)
(* written, with timestamp t; no part of it that may be left gives others.  *)
entriesIn(C) == {c.e : c \in C}
readTo(L, k) == UpdateSkipList(SubSeq(L.recs, 1, k)).out
afterLosing(L) == L.synced .. Len(L.recs)
logMade(L, s, t) ==
  LET a == UpdateSkipList(L.recs)
  IN  /\ DOMAIN L = {"recs", "synced"} /\ L.recs \in Seq(ToSet(L.recs)) /\ L.synced \in 0 .. Len(L.recs)
      /\ ~ a.stop /\ s = a.out \cup a.pend
      /\ a.last = (IF a.pend = {} THEN 0 ELSE t) /\ (t = 0 => a.pend = {})
      /\ \A k \in afterLosing(L) : entriesIn(readTo(L, k)) \subseteq entriesIn(a.out)

(* What a crash of the process leaves.                                     *)
committing == writer.phase = "lsm" /\ writer.txn
underWay(f) == IF f = mt /\ committing THEN writer.ts ELSE 0
pending == UpdateSkipList(wal[mt].recs).pend
inTables == UNION {sst[i] : i \in DOMAIN tables}
logLeft(f) == UpdateSkipList(wal[f].recs).out
settled == inTables \cup (UNION {logLeft(f) : f \in DOMAIN wal})

(* The request of the writer: what is still to be put and what was.        *)
CommitMade ==
  LET todo == ToSet(writer.todo)
  IN  /\ entriesIn(todo) \cup entriesIn(pending) = writer.entries
      /\ writer.ts \in Nat \ {0} /\ nextTs = writer.ts + 1
      /\ writer.entries = {e \in started : e.id = nCommit}
      /\ \A e \in writer.entries : e.ts = writer.ts
      /\ \A c \in settled : c.e.ts < writer.ts
      /\ \A i, j \in DOMAIN writer.todo : writer.todo[i].e.key = writer.todo[j].e.key => i = j
      /\ \A c \in todo, d \in pending : c.e.key # d.e.key

WriterMade ==
  \/ writer = Idle
  \/ /\ DOMAIN writer = {"phase", "todo", "txn", "ts", "entries"} /\ writer.phase = "lsm" /\ writer.txn \in BOOLEAN
     /\ writer.todo \in Seq(ToSet(writer.todo)) /\ entriesIn(ToSet(writer.todo)) \subseteq writer.entries
     /\ writer.entries # {}
     /\ IF writer.txn THEN CommitMade ELSE nMoved # 0 /\ writer.entries \subseteq entriesIn(settled)

(* A key has one entry under a timestamp, below the next one.              *)
oneVersion(C) == \A c, d \in C : c.e.key = d.e.key /\ c.e.ts = d.e.ts => c.e = d.e
VersionsMade ==
  /\ {nCommit, nMoved} \subseteq Nat /\ nextTs \in 1 .. nCommit + 1
  /\ \A e \in started : e.id \in 1 .. nCommit
  /\ entriesIn(visible) \subseteq started /\ oneVersion(visible)
  /\ \A c \in visible : c.e.ts \in 1 .. nextTs - 1

MemtablesMade ==
  /\ imm \in Seq(ToSet(imm)) /\ \A i, j \in DOMAIN imm : imm[i] = imm[j] => i = j
  /\ mt \notin ToSet(imm) /\ DOMAIN skl = {mt} \cup ToSet(imm) /\ DOMAIN wal = DOMAIN skl
  /\ nCrash \in Nat /\ nextMem \in 1 .. RMaxWal + 2 + nCrash /\ DOMAIN wal \subseteq 1 .. nextMem - 1
  /\ \A f \in DOMAIN wal : logMade(wal[f], skl[f], underWay(f))

(* What the jobs take from the memtables and from the tables.              *)
JobsMade ==
  /\ flusher.phase # "idle" => imm # <<>>
  /\ flusher.phase \in {"built", "manifest"} => UNION {sst[i] : i \in madeIn(flusher.cs)} = skl[Head(imm)]
  /\ flusher.phase = "added" => skl[Head(imm)] \subseteq inTables
  /\ compactor.phase \in {"built", "manifest"} => sst[compactor.id] = UNION {sst[i] : i \in compactor.top}

(* With SyncWrites, or without crashes of the machine, the entries that    *)
(* every part of a log has that may be left are, with those of the tables, *)
(* all that are settled; and the values they point to are there.           *)
safe == syncWrites \/ ~ lossy
mayBeLeft(L) == IF syncWrites THEN afterLosing(L) ELSE {Len(L.recs)}
staysIn(L, e) == \A k \in mayBeLeft(L) : e \in entriesIn(readTo(L, k))
isLeft(e) == e \in entriesIn(inTables) \/ \E f \in DOMAIN wal : staysIn(wal[f], e)
closed(E) == \A e \in E : entriesOf(e.id, started) \subseteq E

KeptMade ==
  /\ acked \subseteq entriesIn(settled) /\ closed(entriesIn(settled))
  /\ \A e \in entriesIn(settled) : isLeft(e)
Pointed ==
  /\ \A c \in visible : readableValue(c)
  /\ \A f \in DOMAIN wal : \A k \in mayBeLeft(wal[f]) : \A c \in readTo(wal[f], k) : readableValue(c)
  /\ writer.phase = "lsm" => \A c \in ToSet(writer.todo) : readableValue(c)
ValuesMade ==
  /\ DOMAIN vlogf = Tracks /\ vsynced \in [Tracks -> Nat]
  /\ \A t \in Tracks : vlogf[t] \in Seq(Seq(started)) /\ vlogf[t] # <<>>
  /\ syncWrites => \A t \in Tracks : vsynced[t] = Len(Last(vlogf[t]))

(* Without moved entries a log has every commit in whole, or not, wherever *)
(* it ends.                                                                *)
WholeCommits ==
  /\ closed(entriesIn(inTables))
  /\ \A f \in DOMAIN wal : \A k \in afterLosing(wal[f]) : closed(entriesIn(readTo(wal[f], k)))

DataUp ==
  /\ WriterMade /\ VersionsMade /\ MemtablesMade /\ JobsMade /\ ValuesMade
  /\ safe => Pointed /\ KeptMade
  /\ nMoved = 0 => WholeCommits

(* While the store is closed: what Open will find.                         *)
tablesLeft ==
  UNION {sst[i] : i \in DOMAIN ReplayManifest(truncateManifest(manifest)).tables \cap DOMAIN sst}
allLeft == tablesLeft \cup (UNION {logLeft(f) : f \in DOMAIN wal})

DataDown ==
  /\ nCrash \in Nat /\ DOMAIN wal \subseteq 1 .. RMaxWal + nCrash
  /\ \A f \in DOMAIN wal : wal[f].recs \in Seq(ToSet(wal[f].recs))
  /\ {nCommit, nMoved} \subseteq Nat /\ \A e \in started : e.id \in 1 .. nCommit
  /\ entriesIn(allLeft) \subseteq started /\ oneVersion(allLeft) /\ \A c \in allLeft : c.e.ts \in 1 .. nCommit
  /\ ValuesMade
  /\ safe => /\ \A c \in allLeft : readableValue(c)
             /\ acked \subseteq entriesIn(allLeft) /\ closed(entriesIn(allLeft))
  /\ nMoved = 0 => /\ closed(entriesIn(tablesLeft))
                   /\ \A f \in DOMAIN wal : closed(entriesIn(logLeft(f)))

DurableInv ==
  /\ status = "up" => DataUp
  /\ status = "down" => DataDown

-----------------------------------------------------------------------------
(* What SyncedColdSurvive rests on, as long as GC has moved nothing: a copy *)
(* that Sync covered is in a table, or in its log wherever a crash may cut  *)
(* it, and its value is in a part of the file that no crash cuts off.  When *)
(* only the log is synced, the value is just there.                         *)
keptCopy(c) == c \in inTables \/ \E f \in DOMAIN wal : \A k \in afterLosing(wal[f]) : c \in readTo(wal[f], k)
coldValue(c) == c.tr = "cold" /\ readableValue(c)
syncedValue(c) == coldValue(c) /\ (c.file = Len(vlogf["cold"]) => c.pos <= vsynced["cold"])

SyncUp ==
  /\ \A p \in promised : p.safe => \E c \in settled : c.e = p.e /\ keptCopy(c) /\ syncedValue(c)
  /\ syncer # Idle =>
       \A p \in syncer.covers : p.safe => \E c \in settled : c.e = p.e /\ keptCopy(c) /\ coldValue(c)
  /\ committing => acked \cap writer.entries = {}

SyncDown == \A p \in promised : p.safe => \E c \in allLeft : c.e = p.e /\ coldValue(c)

SyncInv ==
  nMoved = 0 => /\ acked \subseteq started
                /\ status = "up" => SyncUp
                /\ status = "down" => SyncDown
=============================================================================
