-------------------------------- MODULE Oracle -------------------------------
(***************************************************************************)
(* txn.go: the timestamp oracle and the transactions that use it, together *)
(* with the part of the write path (db.go) that decides when a commit is   *)
(* visible and the part of compaction (levels.go) that decides which       *)
(* versions may be thrown away.  Normal (not managed) mode.                *)
(*                                                                         *)
(* Every txn in Txn is one *Txn object used by one goroutine; the other    *)
(* processes are the two watermark goroutines, the single writer goroutine *)
(* of doWrites and a compactor.                                            *)
(***************************************************************************)
EXTENDS WaterMark

CONSTANTS Key,              \* user keys
          Fp,               \* Fp[k]: z.MemHash(k), collisions allowed
          DetectConflicts,  \* Options.DetectConflicts
          SendErrors,       \* may sendToWriteCh fail (blocked writes, txn too big)?
          WriteErrors,      \* may writeRequests fail (memtable, WAL or value log)?
          NoTxn, NotRead    \* sentinels outside Txn and TS

ASSUME NoTxnAssumption == NoTxn \notin Txn
ASSUME KeyAssumption   == DOMAIN Fp = Key
ASSUME FlagAssumption  == {DetectConflicts, SendErrors, WriteErrors} \subseteq BOOLEAN
ASSUME NotReadAssumption == NotRead \notin Nat

VARIABLES
  nextTxnTs, readMark, txnMark, committedTxns, lastCleanupTs, writeChLock,
  pc,             \* where the goroutine of each txn is
  update, readTs, commitTs, reads, pendingWrites, doneRead,   \* fields of Txn
  seen,           \* the version each Get found in the LSM tree
  writeCh,        \* db.writeCh: transactions whose entries were sent
  batch, put,     \* requests of the running writeRequests, entries already put
  reqState,       \* request.Err/Wg: "none", "queued", "ok" or "err"
  lsm,            \* versions of each key in memtables and levels (0: absent)
  discardTs       \* discardTs of the running compaction, or NotRead

oracleVars == <<nextTxnTs, readMark, txnMark, committedTxns, lastCleanupTs, writeChLock>>
txnVars    == <<pc, update, readTs, commitTs, reads, pendingWrites, doneRead, seen>>
writeVars  == <<writeCh, batch, put, reqState>>
vars       == <<oracleVars, txnVars, writeVars, lsm, discardTs>>

Init ==
  /\ nextTxnTs = 1
  /\ readMark = NewWaterMark /\ txnMark = NewWaterMark
  /\ committedTxns = {} /\ lastCleanupTs = 0
  /\ writeChLock = NoTxn
  /\ pc = [t \in Txn |-> "idle"]
  /\ update = [t \in Txn |-> FALSE]
  /\ readTs = [t \in Txn |-> 0] /\ commitTs = [t \in Txn |-> 0]
  /\ reads = [t \in Txn |-> {}] /\ pendingWrites = [t \in Txn |-> {}]
  /\ doneRead = [t \in Txn |-> FALSE]
  /\ seen = [t \in Txn |-> [k \in Key |-> NotRead]]
  /\ writeCh = <<>> /\ batch = <<>> /\ put = {}
  /\ reqState = [t \in Txn |-> "none"]
  /\ lsm = [k \in Key |-> {0}]
  /\ discardTs = NotRead

-----------------------------------------------------------------------------
(* oracle.readTs: the timestamp is taken and announced to readMark under   *)
(* the oracle lock ...                                                     *)
nextReadTs == nextTxnTs - 1

NewTransaction(t, upd) ==
  /\ pc[t] = "idle" /\ HasRoom(readMark)
  /\ update' = [update EXCEPT ![t] = upd]
  /\ readTs' = [readTs EXCEPT ![t] = nextReadTs]
  /\ readMark' = Begin(readMark, nextReadTs, t)
  /\ pc' = [pc EXCEPT ![t] = "begin"]
  /\ UNCHANGED <<nextTxnTs, txnMark, committedTxns, lastCleanupTs, writeChLock,
                 commitTs, reads, pendingWrites, doneRead, seen, writeVars, lsm, discardTs>>

(* ... and outside it the goroutine waits for the commits at or below it:  *)
(* WaitForMark returns at once or pushes a waiter.                         *)
mustWait(t) == txnMark.doneUntil < readTs[t]

WaitForMark(t) ==
  /\ pc[t] = "begin"
  /\ \/ /\ ~ mustWait(t)
        /\ pc' = [pc EXCEPT ![t] = "active"]
        /\ UNCHANGED txnMark
     \/ /\ mustWait(t) /\ HasRoom(txnMark)
        /\ txnMark' = Wait(txnMark, readTs[t], t)
        /\ pc' = [pc EXCEPT ![t] = "wait"]
  /\ UNCHANGED <<nextTxnTs, readMark, committedTxns, lastCleanupTs, writeChLock,
                 update, readTs, commitTs, reads, pendingWrites, doneRead, seen,
                 writeVars, lsm, discardTs>>

(* The waiter's channel has been closed by process.                        *)
WaitOver(t) ==
  /\ pc[t] = "wait" /\ t \in txnMark.closed
  /\ pc' = [pc EXCEPT ![t] = "active"]
  /\ UNCHANGED <<oracleVars, update, readTs, commitTs, reads, pendingWrites, doneRead,
                 seen, writeVars, lsm, discardTs>>

(* The newest version of k at or below ts in the tree (db.get).            *)
Visible_strict(k, ts) == Max({v \in lsm[k] : v < ts} \cup {0})
Visible(k, ts) == Max({v \in lsm[k] : v <= ts} \cup {0})

(* Txn.Get of a key that is not among the pending writes (those are served *)
(* from the transaction itself and leave no trace).                        *)
Get(t, k) ==
  /\ pc[t] = "active"
  /\ ~ (update[t] /\ k \in pendingWrites[t])
  /\ reads' = IF update[t] THEN [reads EXCEPT ![t] = @ \cup {Fp[k]}] ELSE reads
  /\ seen' = [seen EXCEPT ![t][k] = Visible(k, readTs[t])]
  /\ UNCHANGED <<oracleVars, pc, update, readTs, commitTs, pendingWrites, doneRead,
                 writeVars, lsm, discardTs>>

(* Txn.modify: Set, SetEntry and Delete.                                   *)
Modify(t, k) ==
  /\ pc[t] = "active" /\ update[t]
  /\ pendingWrites' = [pendingWrites EXCEPT ![t] = @ \cup {k}]
  /\ UNCHANGED <<oracleVars, pc, update, readTs, commitTs, reads, doneRead, seen,
                 writeVars, lsm, discardTs>>

(* Txn.Discard with oracle.doneRead: called by the user, by Commit when    *)
(* nothing was written, and deferred by Commit on every other path.        *)
Discard(t) ==
  /\ pc[t] \in {"active", "discard"}
  /\ \/ doneRead[t] /\ UNCHANGED <<doneRead, readMark>>
     \/ /\ ~ doneRead[t] /\ HasRoom(readMark)
        /\ doneRead' = [doneRead EXCEPT ![t] = TRUE]
        /\ readMark' = Done(readMark, readTs[t], t)
  /\ pc' = [pc EXCEPT ![t] = "done"]
  /\ UNCHANGED <<nextTxnTs, txnMark, committedTxns, lastCleanupTs, writeChLock, update,
                 readTs, commitTs, reads, pendingWrites, seen, writeVars, lsm, discardTs>>

-----------------------------------------------------------------------------
conflictKeys(t) == {Fp[k] : k \in pendingWrites[t]}

hasConflict_offByOne(t) ==
  \E c \in committedTxns : c.ts > readTs[t] + 1 /\ reads[t] \cap c.conflictKeys # {}

hasConflict(t) ==
  \E c \in committedTxns : c.ts > readTs[t] /\ reads[t] \cap c.conflictKeys # {}

discardAtOrBelow_byCommits == txnMark.doneUntil
discardAtOrBelow == readMark.doneUntil

(* cleanupCommittedTransactions, on the slice as it is under the lock.     *)
cleanup_byCommits(committed) == {c \in committed : c.ts > txnMark.doneUntil}

cleanupCommittedTransactions(committed) ==
  IF ~ DetectConflicts \/ discardAtOrBelow = lastCleanupTs
  THEN committed
  ELSE {c \in committed : c.ts > discardAtOrBelow}

cleanupTs == IF DetectConflicts THEN discardAtOrBelow ELSE lastCleanupTs

lockFree == writeChLock = NoTxn

(* commitAndSend up to newCommitTs returning a conflict.                   *)
CommitConflict(t) ==
  /\ pc[t] = "active" /\ pendingWrites[t] # {} /\ lockFree
  /\ hasConflict(t)
  /\ pc' = [pc EXCEPT ![t] = "discard"]
  /\ UNCHANGED <<oracleVars, update, readTs, commitTs, reads, pendingWrites, doneRead,
                 seen, writeVars, lsm, discardTs>>

(* commitAndSend up to newCommitTs returning a timestamp: writeChLock      *)
(* stays held until the entries are in the write channel.                  *)
newCommitTs(t) ==
  /\ pc[t] = "active" /\ pendingWrites[t] # {} /\ lockFree
  /\ ~ hasConflict(t)
  /\ nextTxnTs <= MaxTs
  /\ HasRoom(readMark) /\ HasRoom(txnMark)
  /\ doneRead' = [doneRead EXCEPT ![t] = TRUE]
  /\ readMark' = Done(readMark, readTs[t], t)
  /\ lastCleanupTs' = cleanupTs
  /\ committedTxns' = cleanupCommittedTransactions(committedTxns) \cup
       IF DetectConflicts THEN {[ts |-> nextTxnTs, conflictKeys |-> conflictKeys(t)]} ELSE {}
  /\ commitTs' = [commitTs EXCEPT ![t] = nextTxnTs]
  /\ nextTxnTs' = nextTxnTs + 1
  /\ txnMark' = Begin(txnMark, nextTxnTs, t)
  /\ writeChLock' = t
  /\ pc' = [pc EXCEPT ![t] = "send"]
  /\ UNCHANGED <<update, readTs, reads, pendingWrites, seen, writeVars, lsm, discardTs>>

(* sendToWriteCh, then the deferred unlock of writeChLock.                 *)
sendToWriteCh(t) ==
  /\ pc[t] = "send"
  /\ writeCh' = Append(writeCh, t)
  /\ reqState' = [reqState EXCEPT ![t] = "queued"]
  /\ writeChLock' = NoTxn
  /\ pc' = [pc EXCEPT ![t] = "sent"]
  /\ UNCHANGED <<nextTxnTs, readMark, txnMark, committedTxns, lastCleanupTs, update, readTs,
                 commitTs, reads, pendingWrites, doneRead, seen, batch, put, lsm, discardTs>>

(* sendToWriteCh returns an error: the timestamp is released by doneCommit.*)
SendError(t) ==
  /\ SendErrors
  /\ pc[t] = "send" /\ HasRoom(txnMark)
  /\ txnMark' = Done(txnMark, commitTs[t], t)
  /\ reqState' = [reqState EXCEPT ![t] = "err"]
  /\ writeChLock' = NoTxn
  /\ pc' = [pc EXCEPT ![t] = "discard"]
  /\ UNCHANGED <<nextTxnTs, readMark, committedTxns, lastCleanupTs, update, readTs, commitTs,
                 reads, pendingWrites, doneRead, seen, writeCh, batch, put, lsm, discardTs>>

requestDone_early(t) == reqState[t] # "none"
requestDone(t) == reqState[t] \in {"ok", "err"}

(* The callback of commitAndSend: req.Wait returned, whatever the error.   *)
doneCommit(t) ==
  /\ pc[t] = "sent" /\ requestDone(t) /\ HasRoom(txnMark)
  /\ txnMark' = Done(txnMark, commitTs[t], t)
  /\ pc' = [pc EXCEPT ![t] = "discard"]
  /\ UNCHANGED <<nextTxnTs, readMark, committedTxns, lastCleanupTs, writeChLock, update,
                 readTs, commitTs, reads, pendingWrites, doneRead, seen, writeVars, lsm, discardTs>>

-----------------------------------------------------------------------------
(* doWrites hands a non-empty prefix of the write channel to writeRequests *)
(* (at most one runs: pendingCh has capacity 1).                           *)
doWrites(n) ==
  /\ batch = <<>> /\ n \in 1 .. Len(writeCh)
  /\ batch' = SubSeq(writeCh, 1, n)
  /\ writeCh' = SubSeq(writeCh, n + 1, Len(writeCh))
  /\ UNCHANGED <<oracleVars, txnVars, put, reqState, lsm, discardTs>>

InBatch(t) == \E i \in 1 .. Len(batch) : batch[i] = t
Finished(t) == \A k \in pendingWrites[t] : <<t, k>> \in put

(* writeToLSM puts the entries of the first unfinished request one by one; *)
(* each is visible to readers of the memtable as soon as it is put.        *)
writeToLSM(t, k) ==
  /\ \E i \in 1 .. Len(batch) : batch[i] = t /\ \A j \in 1 .. i - 1 : Finished(batch[j])
  /\ k \in pendingWrites[t] /\ <<t, k>> \notin put
  /\ put' = put \cup {<<t, k>>}
  /\ lsm' = [lsm EXCEPT ![k] = @ \cup {commitTs[t]}]
  /\ UNCHANGED <<oracleVars, txnVars, writeCh, batch, reqState, discardTs>>

(* done(err): every request of the batch gets the same result.             *)
finishBatch(result) ==
  /\ reqState' = [t \in Txn |-> IF InBatch(t) THEN result ELSE reqState[t]]
  /\ batch' = <<>> /\ put' = {}
  /\ UNCHANGED <<oracleVars, txnVars, writeCh, lsm, discardTs>>

writeRequestsOk ==
  /\ batch # <<>> /\ \A i \in 1 .. Len(batch) : Finished(batch[i])
  /\ finishBatch("ok")

(* vlog.write, ensureRoomForWrite, Put or SyncWAL fails, at any point.     *)
writeRequestsError_silent ==
  /\ WriteErrors /\ batch # <<>>
  /\ batch' = <<>> /\ put' = {}
  /\ UNCHANGED <<oracleVars, txnVars, writeCh, reqState, lsm, discardTs>>

writeRequestsError ==
  /\ WriteErrors /\ batch # <<>>
  /\ finishBatch("err")

-----------------------------------------------------------------------------
processReadMark ==
  /\ readMark.markCh # <<>>
  /\ readMark' = process(readMark)
  /\ UNCHANGED <<nextTxnTs, txnMark, committedTxns, lastCleanupTs, writeChLock, txnVars,
                 writeVars, lsm, discardTs>>

processTxnMark ==
  /\ txnMark.markCh # <<>>
  /\ txnMark' = process(txnMark)
  /\ UNCHANGED <<nextTxnTs, readMark, committedTxns, lastCleanupTs, writeChLock, txnVars,
                 writeVars, lsm, discardTs>>

(* subcompact reads discardAtOrBelow once, before it merges the tables ... *)
compactStart_byCommits ==
  /\ discardTs = NotRead
  /\ discardTs' = txnMark.doneUntil
  /\ UNCHANGED <<oracleVars, txnVars, writeVars, lsm>>

compactStart ==
  /\ discardTs = NotRead
  /\ discardTs' = discardAtOrBelow
  /\ UNCHANGED <<oracleVars, txnVars, writeVars, lsm>>

(* ... and of the versions at or below it keeps the newest of each key.    *)
Kept(k) ==
  {v \in lsm[k] : v > discardTs \/ v = Max({u \in lsm[k] : u <= discardTs} \cup {0})}

compactFinish(ks) ==
  /\ discardTs # NotRead
  /\ lsm' = [k \in Key |-> IF k \in ks THEN Kept(k) ELSE lsm[k]]
  /\ discardTs' = NotRead
  /\ UNCHANGED <<oracleVars, txnVars, writeVars>>

-----------------------------------------------------------------------------
(* The goroutine of t: user calls, and the steps the code takes by itself. *)
UserStep(t) ==
  \/ \E upd \in BOOLEAN : NewTransaction(t, upd)
  \/ \E k \in Key : Get(t, k) \/ Modify(t, k)
  \/ Discard(t) \/ CommitConflict(t) \/ newCommitTs(t)

InternalStep(t) ==
  WaitForMark(t) \/ WaitOver(t) \/ sendToWriteCh(t) \/ SendError(t) \/ doneCommit(t)

WriterStep ==
  \/ \E n \in 1 .. Len(writeCh) : doWrites(n)
  \/ \E t \in Txn, k \in Key : writeToLSM(t, k)
  \/ writeRequestsOk \/ writeRequestsError

CompactStep == compactStart \/ \E ks \in SUBSET Key : compactFinish(ks)

Next ==
  \/ \E t \in Txn : UserStep(t) \/ InternalStep(t)
  \/ WriterStep
  \/ processReadMark \/ processTxnMark
  \/ CompactStep

Spec == Init /\ [][Next]_vars

(* Goroutines that are runnable run.  Nothing is assumed of the user: a    *)
(* transaction may stay open for ever.                                     *)
Fairness ==
  /\ \A t \in Txn : WF_vars(InternalStep(t)) /\ WF_vars(pc[t] = "discard" /\ Discard(t))
  /\ WF_vars(WriterStep)
  /\ WF_vars(processReadMark) /\ WF_vars(processTxnMark)

FairSpec == Spec /\ Fairness

-----------------------------------------------------------------------------
TypeOK ==
  /\ nextTxnTs \in 1 .. MaxTs + 1
  /\ readMark \in WaterMarkType /\ txnMark \in WaterMarkType
  /\ committedTxns \subseteq [ts : TS, conflictKeys : SUBSET {Fp[k] : k \in Key}]
  /\ lastCleanupTs \in TS /\ writeChLock \in Txn \cup {NoTxn}
  /\ pc \in [Txn -> {"idle", "begin", "wait", "active", "send", "sent", "discard", "done"}]
  /\ update \in [Txn -> BOOLEAN] /\ doneRead \in [Txn -> BOOLEAN]
  /\ readTs \in [Txn -> TS] /\ commitTs \in [Txn -> TS]
  /\ reads \in [Txn -> SUBSET {Fp[k] : k \in Key}]
  /\ pendingWrites \in [Txn -> SUBSET Key]
  /\ seen \in [Txn -> [Key -> TS \cup {NotRead}]]
  /\ writeCh \in Seq(Txn) /\ batch \in Seq(Txn) /\ put \subseteq Txn \X Key
  /\ reqState \in [Txn -> {"none", "queued", "ok", "err"}]
  /\ lsm \in [Key -> SUBSET TS] /\ discardTs \in TS \cup {NotRead}

Committed == {t \in Txn : commitTs[t] # 0}
Reading(t) == pc[t] # "idle" /\ ~ doneRead[t]

Began == {t \in Txn : pc[t] # "idle"}
Ended == {t \in Txn : doneRead[t]}
CommitEnded == {t \in Committed : pc[t] \in {"discard", "done"}}
Failed(t) == reqState[t] = "err"

(* Versions a reader at ts must take into account: those of every commit   *)
(* that was not rolled back by an error.                                   *)
CommittedVersions(k, ts) ==
  {commitTs[u] : u \in {u \in Committed : k \in pendingWrites[u] /\ commitTs[u] <= ts}}

-----------------------------------------------------------------------------
(* The assertions of the code: processOne never sees a mark below          *)
(* doneUntil, the read watermark never moves below the last cleanup, and a *)
(* new commit timestamp is never below it.                                 *)
AssertionsHold ==
  /\ HeadIsFresh(readMark) /\ HeadIsFresh(txnMark)
  /\ lastCleanupTs <= discardAtOrBelow
  /\ lastCleanupTs <= nextTxnTs

(* discardAtOrBelow (compaction) and cleanupCommittedTransactions trust    *)
(* readMark, which lags behind the callers: whatever the delay of its      *)
(* goroutine, it never passes the read timestamp of a running transaction. *)
DiscardBelowReaders ==
  \A t \in Txn : Reading(t) => discardAtOrBelow <= readTs[t]

(* The accounting of both watermarks (see WaterMark).                      *)
MarksInv ==
  /\ WaterMarkInv(readMark, readTs, Began, Ended, nextTxnTs - 1)
  /\ WaterMarkInv(txnMark, commitTs, Committed, CommitEnded, nextTxnTs - 1)

(* Timestamps are below nextTxnTs, and a transaction has a commit timestamp *)
(* exactly when newCommitTs gave it one.                                   *)
PhaseInv ==
  \A t \in Txn :
    /\ readTs[t] < nextTxnTs /\ commitTs[t] < nextTxnTs
    /\ pc[t] \in {"idle", "begin", "wait", "active"} => commitTs[t] = 0 /\ ~ doneRead[t]
    /\ pc[t] \in {"send", "sent"} => commitTs[t] # 0

(* cleanupCommittedTransactions keeps the write set of every commit that a *)
(* running transaction could still conflict with.                          *)
ConflictInfoKept ==
  DetectConflicts =>
    \A t \in Txn : Reading(t) =>
      \A u \in Committed : commitTs[u] > readTs[t] =>
        [ts |-> commitTs[u], conflictKeys |-> conflictKeys(u)] \in committedTxns

(* The inductive invariant behind the theorems of OracleProofs.            *)
OracleInv ==
  TypeOK /\ MarksInv /\ PhaseInv /\ lastCleanupTs <= discardAtOrBelow /\ ConflictInfoKept

(* Txn.Get returned the newest committed version at or below readTs: every *)
(* commit at or below readTs that did not fail had already been put, and   *)
(* compaction had not removed the version the snapshot needs.              *)
SnapshotRead ==
  \A t \in Txn, k \in Key : seen[t][k] # NotRead =>
    /\ seen[t][k] \in CommittedVersions(k, readTs[t]) \cup {0}
    /\ \A u \in Committed : k \in pendingWrites[u] /\ commitTs[u] <= readTs[t] /\ ~ Failed(u)
          => commitTs[u] <= seen[t][k]

(* NewTransaction's promise of "serializable snapshot isolation, avoiding  *)
(* write skews": what a committed transaction read is still current at its *)
(* own commit timestamp, so commit order is a serial order.                *)
Serializable ==
  DetectConflicts =>
    \A t \in Committed, k \in Key : seen[t][k] # NotRead =>
      \A u \in Committed : k \in pendingWrites[u] /\ commitTs[u] < commitTs[t] /\ ~ Failed(u)
        => commitTs[u] <= seen[t][k]

(* The parts of the inductive invariant behind SnapshotRead, Serializable   *)
(* and ImplementsStore.  Commit timestamps are given out once each, without *)
(* gaps.                                                                    *)
TimestampsInv ==
  /\ \A t, u \in Committed : commitTs[t] = commitTs[u] => t = u
  /\ \A i \in 1 .. nextTxnTs - 1 : \E t \in Committed : commitTs[t] = i

(* A transaction is handed to the user when txnMark has passed its readTs,  *)
(* and txnMark stays below every commit that is not decided.                *)
SnapshotsReadyInv ==
  /\ StrictInv(txnMark, commitTs, Committed, CommitEnded)
  /\ WaitersInv(txnMark, readTs, Began)
  /\ \A t \in Txn : pc[t] = "active" => readTs[t] <= txnMark.doneUntil

(* What the user's calls leave in a transaction.                            *)
CallsInv ==
  \A t \in Txn :
    /\ pendingWrites[t] # {} => update[t]
    /\ pc[t] = "idle" => pendingWrites[t] = {} /\ \A k \in Key : seen[t][k] = NotRead
    /\ update[t] => \A k \in Key : seen[t][k] # NotRead => Fp[k] \in reads[t]

(* A request is in the write channel or in the batch, once, until it is     *)
(* answered, and Commit decides only on an answered one.                    *)
RequestsInv ==
  /\ \A i \in 1 .. Len(writeCh) :
       pc[writeCh[i]] = "sent" /\ reqState[writeCh[i]] = "queued" /\ ~ InBatch(writeCh[i])
  /\ \A i, j \in 1 .. Len(writeCh) : i # j => writeCh[i] # writeCh[j]
  /\ \A t \in Txn : InBatch(t) => pc[t] = "sent" /\ reqState[t] = "queued"
  /\ \A t \in Txn, k \in Key : <<t, k>> \in put => InBatch(t)
  /\ \A t \in Txn : pc[t] \in {"idle", "begin", "wait", "active", "send"} => reqState[t] = "none"
  /\ \A t \in CommitEnded : reqState[t] \in {"ok", "err"}

(* The tree holds versions of commits only, and for every entry put by one  *)
(* that did not fail the version itself or a newer one below every reader.  *)
TreeInv ==
  /\ \A k \in Key : \A v \in lsm[k] :
       v = 0 \/ \E u \in Committed : k \in pendingWrites[u] /\ commitTs[u] = v
  /\ \A u \in Committed : \A k \in pendingWrites[u] :
       <<u, k>> \in put \/ reqState[u] = "ok" =>
         \E v \in lsm[k] : v = commitTs[u] \/ (commitTs[u] < v /\ v <= discardAtOrBelow)
  /\ discardTs # NotRead => discardTs <= discardAtOrBelow

(* What a committed transaction read was not written between its snapshot   *)
(* and its commit, not even by a commit that failed later.                  *)
ReadsCurrent ==
  DetectConflicts =>
    \A t \in Committed, k \in Key : seen[t][k] # NotRead =>
      \A u \in Committed : k \in pendingWrites[u] /\ commitTs[u] < commitTs[t]
        => commitTs[u] <= readTs[t]

(* The inductive invariant of the reads, in OracleProofs.                   *)
StoreInv ==
  /\ OracleInv
  /\ TimestampsInv /\ SnapshotsReadyInv /\ CallsInv /\ RequestsInv /\ TreeInv
  /\ SnapshotRead /\ ReadsCurrent

(* Txn.Commit: "In case of a non-nil error, the LSM tree won't be updated" *)
(* (txn.go).  Does not hold when writeRequests fails after some entries    *)
(* were put, or in SyncWAL after all of them were.                         *)
FailedCommitLeavesNoTrace ==
  \A t \in Txn : Failed(t) => \A k \in Key : commitTs[t] \notin lsm[k]

(* A version readable at the snapshot of a running transaction stays the   *)
(* readable one: no write and no compaction changes a snapshot.            *)
SnapshotStable ==
  [][\A t \in Txn, k \in Key :
        pc[t] = "active" /\ pc'[t] = "active" => Visible(k, readTs[t])' = Visible(k, readTs[t])]_vars

(* NewTransaction returns: the wait for earlier commits always ends, since *)
(* every timestamp handed out is eventually marked done, errors included.  *)
NewTransactionReturns ==
  \A t \in Txn : pc[t] \in {"begin", "wait"} ~> pc[t] = "active"

(* A call of Commit always returns.                                        *)
CommitReturns ==
  \A t \in Txn : pc[t] \in {"send", "sent", "discard"} ~> pc[t] = "done"

-----------------------------------------------------------------------------
(* The refinement mapping to SerializableStore: position i of the log is   *)
(* the transaction with commit timestamp i; the outcome of a commit is     *)
(* decided when it is marked done in txnMark.                              *)
Committer(i) == CHOOSE t \in Txn : commitTs[t] = i

OutcomeOf(t) ==
  IF pc[t] \in {"send", "sent"} THEN "pending"
  ELSE IF Failed(t) THEN "failed" ELSE "done"

AbsLog == [i \in 1 .. nextTxnTs - 1 |->
             [writes |-> pendingWrites[Committer(i)], state |-> OutcomeOf(Committer(i))]]

AbsPhase == [t \in Txn |->
  IF pc[t] = "idle" THEN "idle"
  ELSE IF pc[t] \in {"begin", "wait"} THEN "starting"
  ELSE IF pc[t] = "active" THEN "started" ELSE "ended"]

Store == INSTANCE SerializableStore
           WITH log <- AbsLog, phase <- AbsPhase, snap <- readTs, view <- seen

(* The oracle, the watermarks, the write channel and compaction together   *)
(* implement the serializable store NewTransaction documents.              *)
ImplementsStore == Store!Spec
=============================================================================
