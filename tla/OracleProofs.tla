----------------------------- MODULE OracleProofs -----------------------------
(***************************************************************************)
(* Theorems about Oracle, for any number of transactions, keys and         *)
(* timestamps: first about the oracle and its marks; then what             *)
(* NewTransaction and Txn promise (reads are snapshots, snapshots are      *)
(* stable, committed transactions are serializable in the order of their   *)
(* commit timestamps), and that Oracle implements SerializableStore.       *)
(***************************************************************************)
EXTENDS Oracle, WaterMarkProofs, SequenceTheorems

(* WaterMarkInv's bound on the indices used so far may be raised.           *)
LEMMA TopGrows ==
  ASSUME NEW w, NEW idx, NEW began, NEW ended, NEW top \in TS, NEW top2 \in TS, top <= top2,
         WaterMarkInv(w, idx, began, ended, top)
  PROVE  WaterMarkInv(w, idx, began, ended, top2)
<1>1. w \in WaterMarkType
  BY DEF WaterMarkInv
<1>2. w.indices \subseteq TS /\ w.doneUntil \in TS /\ w.markCh \in Seq(MarkType)
  BY <1>1 DEF WaterMarkType
<1>3. \A p \in 1 .. Len(w.markCh) : w.markCh[p].index \in TS
  <2>1. \A p \in 1 .. Len(w.markCh) : w.markCh[p] \in MarkType
    BY <1>2
  <2> QED BY <2>1 DEF MarkType
<1>4. \A x \in TS : x <= top => x <= top2
  BY MaxTsAssumption DEF TS
<1>5. HeapInv(w, idx, began, ended, top2)
  BY <1>2, <1>3, <1>4 DEF WaterMarkInv, HeapInv
<1> QED BY <1>5 DEF WaterMarkInv

(* In the initial state nobody has begun and the channel is empty.          *)
LEMMA NewWaterMarkInv ==
  ASSUME NEW idx
  PROVE  WaterMarkInv(NewWaterMark, idx, {}, {}, 0)
<1> DEFINE w == NewWaterMark
<1>1. 0 \in TS
  BY MaxTsAssumption DEF TS
<1>2. /\ w.doneUntil = 0 /\ w.markCh = <<>> /\ w.indices = {}
      /\ w.pending = [i \in TS |-> 0]
  BY DEF NewWaterMark
<1>3. w \in WaterMarkType
  BY <1>1 DEF NewWaterMark, WaterMarkType
<1> HIDE DEF w
<1>4. Len(w.markCh) = 0
  BY <1>2
<1>5. ChannelInv(w, idx, {}, {})
  BY <1>4 DEF ChannelInv
<1>6. HeapInv(w, idx, {}, {}, 0)
  <2>1. \A i \in TS : Holders(w, idx, {}, {}, i) = {}
    BY DEF Holders, Held
  <2>2. \A i \in TS : w.pending[i] = Cardinality(Holders(w, idx, {}, {}, i))
    BY <1>2, <2>1, FS_EmptySet
  <2>3. \A t \in Txn : ~ Held(w, {}, {}, t)
    BY DEF Held
  <2> QED BY <1>2, <1>4, <2>2, <2>3 DEF HeapInv
<1> QED BY <1>3, <1>5, <1>6 DEF WaterMarkInv, w

-----------------------------------------------------------------------------
(* newOracle and Open on an empty directory establish the invariant.        *)
LEMMA InitInv == Init => OracleInv
<1> SUFFICES ASSUME Init PROVE OracleInv
  OBVIOUS
<1>1. 0 \in TS /\ nextTxnTs = 1 /\ nextTxnTs - 1 = 0
  BY MaxTsAssumption DEF TS, Init
<1>2. Began = {} /\ Ended = {} /\ Committed = {} /\ CommitEnded = {}
  BY DEF Init, Began, Ended, Committed, CommitEnded
<1>3. MarksInv
  BY <1>1, <1>2, NewWaterMarkInv DEF Init, MarksInv
<1>4. TypeOK
  <2>1. readMark \in WaterMarkType /\ txnMark \in WaterMarkType
    BY <1>3 DEF MarksInv, WaterMarkInv
  <2> QED BY <1>1, <2>1, MaxTsAssumption DEF Init, TypeOK
<1>5. PhaseInv
  BY <1>1 DEF Init, PhaseInv
<1>6. lastCleanupTs <= discardAtOrBelow
  BY DEF Init, discardAtOrBelow, NewWaterMark
<1>7. ConflictInfoKept
  BY <1>2 DEF ConflictInfoKept
<1> QED BY <1>3, <1>4, <1>5, <1>6, <1>7 DEF OracleInv

(* Facts of every state of the invariant, in the form the lemmas on          *)
(* watermarks want them.                                                     *)
LEMMA MarkFacts ==
  ASSUME OracleInv
  PROVE  /\ readTs \in [Txn -> TS] /\ commitTs \in [Txn -> TS] /\ nextTxnTs - 1 \in TS
         /\ Began \in SUBSET Txn /\ Ended \in SUBSET Txn
         /\ Committed \in SUBSET Txn /\ CommitEnded \in SUBSET Txn
         /\ WaterMarkInv(readMark, readTs, Began, Ended, nextTxnTs - 1)
         /\ WaterMarkInv(txnMark, commitTs, Committed, CommitEnded, nextTxnTs - 1)
         /\ readMark.doneUntil \in TS /\ txnMark.doneUntil \in TS
         /\ readMark.doneUntil <= nextTxnTs - 1
<1>1. readMark \in WaterMarkType /\ txnMark \in WaterMarkType
  BY DEF OracleInv, TypeOK
<1>2. readMark.doneUntil \in TS /\ txnMark.doneUntil \in TS
  BY <1>1 DEF WaterMarkType
<1>3. readMark.doneUntil <= nextTxnTs - 1
  BY DEF OracleInv, MarksInv, WaterMarkInv, HeapInv
<1>4. nextTxnTs - 1 \in TS
  BY MaxTsAssumption DEF OracleInv, TypeOK, TS
<1>5. /\ Began \in SUBSET Txn /\ Ended \in SUBSET Txn
      /\ Committed \in SUBSET Txn /\ CommitEnded \in SUBSET Txn
  BY DEF Began, Ended, Committed, CommitEnded
<1> QED BY <1>2, <1>3, <1>4, <1>5 DEF OracleInv, TypeOK, MarksInv

(* A running transaction holds the read watermark at or below its readTs.   *)
LEMMA ReadersHold == OracleInv => DiscardBelowReaders
<1> SUFFICES ASSUME OracleInv, NEW t \in Txn, Reading(t)
             PROVE  discardAtOrBelow <= readTs[t]
  BY DEF DiscardBelowReaders
<1>1. t \in Began /\ t \notin Ended
  BY DEF Reading, Began, Ended
<1> QED BY <1>1, MarkFacts, DoneUntilIsSafe DEF discardAtOrBelow

-----------------------------------------------------------------------------
(* The disjuncts of Next, by name: a case analysis used by the proofs below. *)
LEMMA NextCases ==
  ASSUME Next, NEW P,
         \A t \in Txn : \A upd \in BOOLEAN : NewTransaction(t, upd) => P,
         \A t \in Txn : WaitForMark(t) => P,
         \A t \in Txn : WaitOver(t) \/ CommitConflict(t) \/ sendToWriteCh(t) => P,
         \A t \in Txn : \A k \in Key : Get(t, k) \/ Modify(t, k) => P,
         \A t \in Txn : Discard(t) => P,
         \A t \in Txn : newCommitTs(t) => P,
         \A t \in Txn : SendError(t) \/ doneCommit(t) => P,
         WriterStep => P,
         CompactStep => P,
         processReadMark => P,
         processTxnMark => P
  PROVE  P
BY DEF Next, UserStep, InternalStep

(* Which variables the groups of actions outside the oracle leave alone.     *)
LEMMA WriterFrame ==
  ASSUME WriterStep
  PROVE  UNCHANGED <<oracleVars, txnVars, discardTs>>
BY DEF WriterStep, doWrites, writeToLSM, writeRequestsOk, writeRequestsError, finishBatch

(* The compactor touches the tree and its own discardTs only.               *)
LEMMA CompactFrame ==
  ASSUME CompactStep
  PROVE  UNCHANGED <<oracleVars, txnVars, writeVars>>
BY DEF CompactStep, compactStart, compactFinish

-----------------------------------------------------------------------------
(* The bookkeeping of phases and timestamps.                                 *)
LEMMA PhaseNext == OracleInv /\ Next => PhaseInv'
<1> SUFFICES ASSUME OracleInv, Next PROVE PhaseInv'
  OBVIOUS
<1>1. /\ readTs \in [Txn -> TS] /\ commitTs \in [Txn -> TS] /\ nextTxnTs \in 1 .. MaxTs + 1
      /\ doneRead \in [Txn -> BOOLEAN]
      /\ pc \in [Txn -> {"idle", "begin", "wait", "active", "send", "sent", "discard", "done"}]
      /\ PhaseInv
  BY DEF OracleInv, TypeOK
<1>2. nextTxnTs - 1 \in TS
  BY MarkFacts
<1>3. ASSUME NEW t \in Txn, NEW upd \in BOOLEAN, NewTransaction(t, upd) PROVE PhaseInv'
  BY <1>1, <1>2, <1>3, MaxTsAssumption DEF NewTransaction, nextReadTs, PhaseInv, TS
<1>4. ASSUME NEW t \in Txn, WaitForMark(t) PROVE PhaseInv'
  BY <1>1, <1>4 DEF WaitForMark, PhaseInv
<1>5. ASSUME NEW t \in Txn, WaitOver(t) \/ CommitConflict(t) \/ sendToWriteCh(t) PROVE PhaseInv'
  BY <1>1, <1>5 DEF WaitOver, CommitConflict, sendToWriteCh, PhaseInv, oracleVars
<1>6. ASSUME NEW t \in Txn, NEW k \in Key, Get(t, k) \/ Modify(t, k) PROVE PhaseInv'
  BY <1>1, <1>6 DEF Get, Modify, PhaseInv, oracleVars
<1>7. ASSUME NEW t \in Txn, Discard(t) PROVE PhaseInv'
  BY <1>1, <1>7 DEF Discard, PhaseInv
<1>8. ASSUME NEW t \in Txn, newCommitTs(t) PROVE PhaseInv'
  BY <1>1, <1>8, MaxTsAssumption DEF newCommitTs, PhaseInv, TS
<1>9. ASSUME NEW t \in Txn, SendError(t) \/ doneCommit(t) PROVE PhaseInv'
  BY <1>1, <1>9 DEF SendError, doneCommit, PhaseInv
<1>10. ASSUME UNCHANGED <<nextTxnTs, txnVars>> PROVE PhaseInv'
  BY <1>1, <1>10 DEF PhaseInv, txnVars
<1>11. WriterStep \/ CompactStep \/ processReadMark \/ processTxnMark => PhaseInv'
  BY <1>10, WriterFrame, CompactFrame DEF processReadMark, processTxnMark, oracleVars
<1> QED BY <1>3, <1>4, <1>5, <1>6, <1>7, <1>8, <1>9, <1>11, NextCases

(* Both watermarks keep their accounting.                                    *)
LEMMA MarksNext == OracleInv /\ Next => MarksInv'
<1> SUFFICES ASSUME OracleInv, Next PROVE MarksInv'
  OBVIOUS
<1>1. /\ readTs \in [Txn -> TS] /\ commitTs \in [Txn -> TS] /\ nextTxnTs \in 1 .. MaxTs + 1
      /\ doneRead \in [Txn -> BOOLEAN]
      /\ pc \in [Txn -> {"idle", "begin", "wait", "active", "send", "sent", "discard", "done"}]
      /\ PhaseInv
  BY DEF OracleInv, TypeOK
<1>2. /\ nextTxnTs - 1 \in TS
      /\ Began \in SUBSET Txn /\ Ended \in SUBSET Txn
      /\ Committed \in SUBSET Txn /\ CommitEnded \in SUBSET Txn
      /\ WaterMarkInv(readMark, readTs, Began, Ended, nextTxnTs - 1)
      /\ WaterMarkInv(txnMark, commitTs, Committed, CommitEnded, nextTxnTs - 1)
  BY MarkFacts
<1>3. ASSUME NEW t \in Txn, NEW upd \in BOOLEAN, NewTransaction(t, upd) PROVE MarksInv'
  <2>1. t \notin Began /\ t \notin Ended
    BY <1>1, <1>3 DEF NewTransaction, Began, Ended, PhaseInv
  <2>2. Began' = Began \cup {t} /\ Ended' = Ended
    BY <1>1, <1>3 DEF NewTransaction, Began, Ended
  <2>3. Committed' = Committed /\ CommitEnded' = CommitEnded
    BY <1>1, <1>3 DEF NewTransaction, Committed, CommitEnded, PhaseInv
  <2>4. nextTxnTs - 1 <= nextTxnTs - 1
    BY <1>1
  <2>5. WaterMarkInv(Begin(readMark, nextTxnTs - 1, t), [readTs EXCEPT ![t] = nextTxnTs - 1],
                     Began \cup {t}, Ended, nextTxnTs - 1)
    BY <1>1, <1>2, <2>1, <2>4, BeginPreservesInv
  <2> QED BY <1>2, <1>3, <2>2, <2>3, <2>5 DEF NewTransaction, nextReadTs, MarksInv
<1>4. ASSUME NEW t \in Txn, WaitForMark(t) PROVE MarksInv'
  <2>1. Began' = Began /\ Ended' = Ended /\ Committed' = Committed /\ CommitEnded' = CommitEnded
    BY <1>1, <1>4 DEF WaitForMark, Began, Ended, Committed, CommitEnded
  <2>2. readTs[t] \in TS
    BY <1>1
  <2>3. WaterMarkInv(Wait(txnMark, readTs[t], t), commitTs, Committed, CommitEnded, nextTxnTs - 1)
    BY <1>1, <1>2, <2>2, WaitPreservesInv
  <2> QED BY <1>2, <1>4, <2>1, <2>3 DEF WaitForMark, MarksInv
<1>5. ASSUME NEW t \in Txn, WaitOver(t) \/ CommitConflict(t) \/ sendToWriteCh(t) PROVE MarksInv'
  <2>1. Began' = Began /\ Ended' = Ended /\ Committed' = Committed /\ CommitEnded' = CommitEnded
    BY <1>1, <1>5 DEF WaitOver, CommitConflict, sendToWriteCh, oracleVars,
                      Began, Ended, Committed, CommitEnded, PhaseInv
  <2> QED BY <1>2, <1>5, <2>1 DEF WaitOver, CommitConflict, sendToWriteCh, oracleVars, MarksInv
<1>6. ASSUME NEW t \in Txn, NEW k \in Key, Get(t, k) \/ Modify(t, k) PROVE MarksInv'
  <2>1. Began' = Began /\ Ended' = Ended /\ Committed' = Committed /\ CommitEnded' = CommitEnded
    BY <1>6 DEF Get, Modify, Began, Ended, Committed, CommitEnded
  <2> QED BY <1>2, <1>6, <2>1 DEF Get, Modify, oracleVars, MarksInv
<1>7. ASSUME NEW t \in Txn, Discard(t) PROVE MarksInv'
  <2>1. Began' = Began /\ t \in Began /\ Committed' = Committed /\ CommitEnded' = CommitEnded
    BY <1>1, <1>7 DEF Discard, Began, Committed, CommitEnded, PhaseInv
  <2>2. CASE UNCHANGED <<doneRead, readMark>>
    <3>1. Ended' = Ended
      BY <2>2 DEF Ended
    <3> QED BY <1>2, <1>7, <2>1, <2>2, <3>1 DEF Discard, MarksInv
  <2>3. CASE /\ ~ doneRead[t] /\ doneRead' = [doneRead EXCEPT ![t] = TRUE]
             /\ readMark' = Done(readMark, readTs[t], t)
    <3>1. Ended' = Ended \cup {t} /\ t \notin Ended
      BY <1>1, <2>3 DEF Ended
    <3>2. WaterMarkInv(Done(readMark, readTs[t], t), readTs, Began, Ended \cup {t}, nextTxnTs - 1)
      BY <1>1, <1>2, <2>1, <3>1, DonePreservesInv
    <3> QED BY <1>2, <1>7, <2>1, <2>3, <3>1, <3>2 DEF Discard, MarksInv
  <2> QED BY <1>7, <2>2, <2>3 DEF Discard
<1>8. ASSUME NEW t \in Txn, newCommitTs(t) PROVE MarksInv'
  <2>1. Began' = Began /\ t \in Began /\ Ended' = Ended \cup {t} /\ t \notin Ended
    BY <1>1, <1>8 DEF newCommitTs, Began, Ended, PhaseInv
  <2>2. /\ Committed' = Committed \cup {t} /\ t \notin Committed
        /\ CommitEnded' = CommitEnded /\ t \notin CommitEnded
    BY <1>1, <1>8 DEF newCommitTs, Committed, CommitEnded, PhaseInv
  <2>3. /\ nextTxnTs \in TS /\ nextTxnTs - 1 <= nextTxnTs
        /\ nextTxnTs' = nextTxnTs + 1 /\ nextTxnTs' - 1 = nextTxnTs
    BY <1>1, <1>8, MaxTsAssumption DEF newCommitTs, TS
  <2>4. WaterMarkInv(Begin(txnMark, nextTxnTs, t), [commitTs EXCEPT ![t] = nextTxnTs],
                     Committed \cup {t}, CommitEnded, nextTxnTs)
    BY <1>1, <1>2, <2>2, <2>3, BeginPreservesInv
  <2>5. WaterMarkInv(Done(readMark, readTs[t], t), readTs, Began, Ended \cup {t}, nextTxnTs - 1)
    BY <1>1, <1>2, <2>1, DonePreservesInv
  <2>6. WaterMarkInv(Done(readMark, readTs[t], t), readTs, Began, Ended \cup {t}, nextTxnTs)
    BY <1>2, <2>3, <2>5, TopGrows
  <2> QED BY <1>8, <2>1, <2>2, <2>3, <2>4, <2>6 DEF newCommitTs, MarksInv
<1>9. ASSUME NEW t \in Txn, SendError(t) \/ doneCommit(t) PROVE MarksInv'
  <2>1. Began' = Began /\ Ended' = Ended /\ Committed' = Committed
    BY <1>1, <1>9 DEF SendError, doneCommit, Began, Ended, Committed
  <2>2. t \in Committed /\ t \notin CommitEnded /\ CommitEnded' = CommitEnded \cup {t}
    BY <1>1, <1>9 DEF SendError, doneCommit, Committed, CommitEnded, PhaseInv
  <2>3. WaterMarkInv(Done(txnMark, commitTs[t], t), commitTs, Committed, CommitEnded \cup {t},
                     nextTxnTs - 1)
    BY <1>1, <1>2, <2>2, DonePreservesInv
  <2> QED BY <1>2, <1>9, <2>1, <2>2, <2>3 DEF SendError, doneCommit, MarksInv
<1>10. ASSUME UNCHANGED txnVars
       PROVE  Began' = Began /\ Ended' = Ended /\ Committed' = Committed /\ CommitEnded' = CommitEnded
  BY <1>10 DEF txnVars, Began, Ended, Committed, CommitEnded
<1>11. ASSUME UNCHANGED <<oracleVars, txnVars>> PROVE MarksInv'
  BY <1>2, <1>10, <1>11 DEF oracleVars, txnVars, MarksInv
<1>12. WriterStep \/ CompactStep => MarksInv'
  BY <1>11, WriterFrame, CompactFrame
<1>13. ASSUME processReadMark PROVE MarksInv'
  <2>1. WaterMarkInv(process(readMark), readTs, Began, Ended, nextTxnTs - 1)
    BY <1>1, <1>2, <1>13, ProcessPreservesInv DEF processReadMark
  <2> QED BY <1>2, <1>10, <1>13, <2>1 DEF processReadMark, MarksInv, txnVars
<1>14. ASSUME processTxnMark PROVE MarksInv'
  <2>1. WaterMarkInv(process(txnMark), commitTs, Committed, CommitEnded, nextTxnTs - 1)
    BY <1>1, <1>2, <1>14, ProcessPreservesInv DEF processTxnMark
  <2> QED BY <1>2, <1>10, <1>14, <2>1 DEF processTxnMark, MarksInv, txnVars
<1> QED BY <1>3, <1>4, <1>5, <1>6, <1>7, <1>8, <1>9, <1>12, <1>13, <1>14, NextCases

-----------------------------------------------------------------------------
(* db.get answers with a timestamp.                                         *)
LEMMA VisibleType ==
  ASSUME TypeOK, NEW k \in Key, NEW ts
  PROVE  Visible(k, ts) \in TS
<1> DEFINE S == {v \in lsm[k] : v <= ts} \cup {0}
<1>1. S \subseteq TS /\ S # {}
  BY MaxTsAssumption DEF TypeOK, TS
<1>2. Max(S) \in S
  <2> HIDE DEF S
  <2> QED BY <1>1, MaxOfTS
<1> QED BY <1>1, <1>2 DEF Visible

(* Every action keeps the types: no timestamp leaves TS, no mark is built   *)
(* from a transaction without one.                                          *)
LEMMA TypeNext == OracleInv /\ Next => TypeOK'
<1> SUFFICES ASSUME OracleInv, Next PROVE TypeOK'
  OBVIOUS
<1>1. TypeOK /\ readMark.doneUntil \in TS
  BY MarkFacts DEF OracleInv
<1>2. readMark' \in WaterMarkType /\ txnMark' \in WaterMarkType
  BY MarksNext DEF MarksInv, WaterMarkInv
<1>3. ASSUME NEW t \in Txn, NEW upd \in BOOLEAN, NewTransaction(t, upd) PROVE TypeOK'
  <2>1. nextTxnTs - 1 \in TS
    BY MarkFacts
  <2> QED BY <1>1, <1>2, <1>3, <2>1 DEF NewTransaction, nextReadTs, TypeOK, writeVars
<1>4. ASSUME NEW t \in Txn, WaitForMark(t) PROVE TypeOK'
  BY <1>1, <1>2, <1>4 DEF WaitForMark, TypeOK, writeVars
<1>5. ASSUME NEW t \in Txn, WaitOver(t) \/ CommitConflict(t) \/ sendToWriteCh(t) PROVE TypeOK'
  <2>1. CASE WaitOver(t) \/ CommitConflict(t)
    BY <1>1, <1>2, <2>1 DEF WaitOver, CommitConflict, TypeOK, oracleVars, writeVars
  <2>2. CASE sendToWriteCh(t)
    <3>1. Append(writeCh, t) \in Seq(Txn)
      BY <1>1 DEF TypeOK
    <3> QED BY <1>1, <1>2, <2>2, <3>1 DEF sendToWriteCh, TypeOK
  <2> QED BY <1>5, <2>1, <2>2
<1>6. ASSUME NEW t \in Txn, NEW k \in Key, Get(t, k) \/ Modify(t, k) PROVE TypeOK'
  <2>1. CASE Get(t, k)
    <3>1. Visible(k, readTs[t]) \in TS
      BY <1>1, VisibleType
    <3>2. seen' \in [Txn -> [Key -> TS \cup {NotRead}]]
      BY <1>1, <2>1, <3>1 DEF Get, TypeOK
    <3>3. reads' \in [Txn -> SUBSET {Fp[j] : j \in Key}]
      <4>1. reads[t] \cup {Fp[k]} \in SUBSET {Fp[j] : j \in Key}
        BY <1>1 DEF TypeOK
      <4>2. reads \in [Txn -> SUBSET {Fp[j] : j \in Key}]
        BY <1>1 DEF TypeOK
      <4>3. reads' = reads \/ reads' = [reads EXCEPT ![t] = reads[t] \cup {Fp[k]}]
        BY <2>1 DEF Get
      <4> HIDE DEF TypeOK
      <4> QED BY <4>1, <4>2, <4>3
    <3> QED BY <1>1, <1>2, <2>1, <3>2, <3>3 DEF Get, TypeOK, oracleVars, writeVars
  <2>2. CASE Modify(t, k)
    BY <1>1, <1>2, <2>2 DEF Modify, TypeOK, oracleVars, writeVars
  <2> QED BY <1>6, <2>1, <2>2
<1>7. ASSUME NEW t \in Txn, Discard(t) PROVE TypeOK'
  <2>1. doneRead' \in [Txn -> BOOLEAN]
    BY <1>1, <1>7 DEF Discard, TypeOK
  <2> QED BY <1>1, <1>2, <1>7, <2>1 DEF Discard, TypeOK, writeVars
<1>8. ASSUME NEW t \in Txn, newCommitTs(t) PROVE TypeOK'
  <2>1. nextTxnTs \in TS /\ nextTxnTs + 1 \in 1 .. MaxTs + 1
    BY <1>1, <1>8, MaxTsAssumption DEF newCommitTs, TypeOK, TS
  <2>2. lastCleanupTs' \in TS
    BY <1>1, <1>8 DEF newCommitTs, TypeOK, cleanupTs, discardAtOrBelow
  <2>3. committedTxns' \subseteq [ts : TS, conflictKeys : SUBSET {Fp[k] : k \in Key}]
    <3> DEFINE R == [ts : TS, conflictKeys : SUBSET {Fp[k] : k \in Key}]
               c == [ts |-> nextTxnTs, conflictKeys |-> conflictKeys(t)]
    <3>1. conflictKeys(t) \in SUBSET {Fp[k] : k \in Key}
      BY <1>1 DEF TypeOK, conflictKeys
    <3>2. c \in R
      BY <2>1, <3>1
    <3>3. cleanupCommittedTransactions(committedTxns) \subseteq R
      BY <1>1 DEF TypeOK, cleanupCommittedTransactions
    <3>4. committedTxns' = cleanupCommittedTransactions(committedTxns) \cup
                             IF DetectConflicts THEN {c} ELSE {}
      BY <1>8 DEF newCommitTs
    <3> HIDE DEF R, c
    <3>5. committedTxns' \subseteq R
      BY <3>2, <3>3, <3>4
    <3> QED BY <3>5 DEF R
  <2>4. doneRead' \in [Txn -> BOOLEAN]
    BY <1>1, <1>8 DEF newCommitTs, TypeOK
  <2> QED BY <1>1, <1>2, <1>8, <2>1, <2>2, <2>3, <2>4 DEF newCommitTs, TypeOK, writeVars
<1>9. ASSUME NEW t \in Txn, SendError(t) \/ doneCommit(t) PROVE TypeOK'
  BY <1>1, <1>2, <1>9 DEF SendError, doneCommit, TypeOK, writeVars
<1>10. ASSUME WriterStep PROVE TypeOK'
  <2>1. ASSUME NEW n \in 1 .. Len(writeCh), doWrites(n) PROVE TypeOK'
    <3>1. writeCh \in Seq(Txn) /\ Len(writeCh) \in Nat
      BY <1>1 DEF TypeOK
    <3>2. SubSeq(writeCh, 1, n) \in Seq(Txn) /\ SubSeq(writeCh, n + 1, Len(writeCh)) \in Seq(Txn)
      BY <3>1
    <3> QED BY <1>1, <1>2, <2>1, <3>2 DEF doWrites, TypeOK, oracleVars, txnVars
  <2>2. ASSUME NEW t \in Txn, NEW k \in Key, writeToLSM(t, k) PROVE TypeOK'
    BY <1>1, <1>2, <2>2 DEF writeToLSM, TypeOK, oracleVars, txnVars
  <2>3. ASSUME NEW result \in {"ok", "err"}, finishBatch(result) PROVE TypeOK'
    <3>1. <<>> \in Seq(Txn)
      OBVIOUS
    <3> QED BY <1>1, <1>2, <2>3, <3>1 DEF finishBatch, TypeOK, oracleVars, txnVars
  <2> QED BY <1>10, <2>1, <2>2, <2>3 DEF WriterStep, writeRequestsOk, writeRequestsError
<1>11. ASSUME CompactStep PROVE TypeOK'
  <2>1. CASE compactStart
    BY <1>1, <1>2, <2>1 DEF compactStart, discardAtOrBelow, TypeOK, oracleVars, txnVars, writeVars
  <2>2. ASSUME NEW ks \in SUBSET Key, compactFinish(ks) PROVE TypeOK'
    <3>1. \A k \in Key : Kept(k) \subseteq TS
      BY <1>1 DEF TypeOK, Kept
    <3>2. lsm' \in [Key -> SUBSET TS]
      BY <1>1, <2>2, <3>1 DEF compactFinish, TypeOK
    <3> QED BY <1>1, <1>2, <2>2, <3>2 DEF compactFinish, TypeOK, oracleVars, txnVars, writeVars
  <2> QED BY <1>11, <2>1, <2>2 DEF CompactStep
<1>12. processReadMark => TypeOK'
  BY <1>1, <1>2 DEF processReadMark, TypeOK, txnVars, writeVars
<1>13. processTxnMark => TypeOK'
  BY <1>1, <1>2 DEF processTxnMark, TypeOK, txnVars, writeVars
<1> QED BY <1>3, <1>4, <1>5, <1>6, <1>7, <1>8, <1>9, <1>10, <1>11, <1>12, <1>13, NextCases

-----------------------------------------------------------------------------
(* Only the goroutine of readMark moves the discard watermark, upwards.     *)
LEMMA DiscardGrows == OracleInv /\ Next => discardAtOrBelow <= discardAtOrBelow'
<1> SUFFICES ASSUME OracleInv, Next PROVE readMark.doneUntil <= readMark'.doneUntil
  BY DEF discardAtOrBelow
<1>1. readMark \in WaterMarkType /\ readTs \in [Txn -> TS] /\ nextTxnTs - 1 \in TS
  BY MarkFacts DEF OracleInv, TypeOK
<1>2. \A x \in TS : x <= x
  BY MaxTsAssumption DEF TS
<1>3. readMark.doneUntil \in TS
  BY MarkFacts
<1>4. readMark' = readMark => readMark.doneUntil <= readMark'.doneUntil
  BY <1>2, <1>3
<1>5. \A t \in Txn, i \in TS :
        /\ Begin(readMark, i, t).doneUntil = readMark.doneUntil
        /\ Done(readMark, i, t).doneUntil = readMark.doneUntil
  BY <1>1, SendFacts DEF Begin, Done
<1>6. ASSUME processReadMark PROVE readMark.doneUntil <= readMark'.doneUntil
  BY <1>1, <1>6, MarkFacts, DoneUntilGrows DEF processReadMark
<1>7. \A t \in Txn : \A upd \in BOOLEAN : NewTransaction(t, upd) =>
        readMark.doneUntil <= readMark'.doneUntil
  BY <1>1, <1>2, <1>3, <1>5 DEF NewTransaction, nextReadTs
<1>8. \A t \in Txn : Discard(t) \/ newCommitTs(t) => readMark.doneUntil <= readMark'.doneUntil
  BY <1>1, <1>2, <1>3, <1>4, <1>5 DEF Discard, newCommitTs
<1>9. WriterStep \/ CompactStep => readMark' = readMark
  BY WriterFrame, CompactFrame DEF oracleVars
<1>10. \A t \in Txn : \/ WaitForMark(t) \/ WaitOver(t) \/ CommitConflict(t) \/ sendToWriteCh(t)
                       \/ SendError(t) \/ doneCommit(t)
                    => readMark' = readMark
  BY DEF WaitForMark, WaitOver, CommitConflict, sendToWriteCh, SendError, doneCommit, oracleVars
<1>11. \A t \in Txn : \A k \in Key : Get(t, k) \/ Modify(t, k) => readMark' = readMark
  BY DEF Get, Modify, oracleVars
<1>12. processTxnMark => readMark' = readMark
  BY DEF processTxnMark
<1> QED BY <1>4, <1>6, <1>7, <1>8, <1>9, <1>10, <1>11, <1>12, NextCases

(* cleanupCommittedTransactions records a discard watermark that later ones *)
(* never fall below (its AssertTrue on maxReadTs).                          *)
LEMMA CleanupNext == OracleInv /\ Next => lastCleanupTs' <= discardAtOrBelow'
<1> SUFFICES ASSUME OracleInv, Next PROVE lastCleanupTs' <= discardAtOrBelow'
  OBVIOUS
<1>1. discardAtOrBelow <= discardAtOrBelow' /\ lastCleanupTs <= discardAtOrBelow
  BY DiscardGrows DEF OracleInv
<1>2. lastCleanupTs \in TS /\ discardAtOrBelow \in TS /\ discardAtOrBelow' \in TS
  <2>1. readMark' \in WaterMarkType
    BY TypeNext DEF TypeOK
  <2>2. readMark'.doneUntil \in TS
    BY <2>1 DEF WaterMarkType
  <2> QED BY <2>2, MarkFacts DEF OracleInv, TypeOK, discardAtOrBelow
<1>3. lastCleanupTs' = lastCleanupTs \/ lastCleanupTs' = discardAtOrBelow
  <2> DEFINE G == lastCleanupTs' = lastCleanupTs \/ lastCleanupTs' = discardAtOrBelow
  <2>1. \A t \in Txn : newCommitTs(t) => G
    BY DEF newCommitTs, cleanupTs
  <2>2. \A t \in Txn : \A upd \in BOOLEAN : NewTransaction(t, upd) => G
    BY DEF NewTransaction
  <2>3. \A t \in Txn : \/ WaitForMark(t) \/ WaitOver(t) \/ CommitConflict(t) \/ sendToWriteCh(t)
                        \/ SendError(t) \/ doneCommit(t) \/ Discard(t)
                    => G
    BY DEF WaitForMark, WaitOver, CommitConflict, sendToWriteCh, SendError, doneCommit, Discard,
           oracleVars
  <2>4. \A t \in Txn : \A k \in Key : Get(t, k) \/ Modify(t, k) => G
    BY DEF Get, Modify, oracleVars
  <2>5. WriterStep \/ CompactStep \/ processReadMark \/ processTxnMark => G
    BY WriterFrame, CompactFrame DEF oracleVars, processReadMark, processTxnMark
  <2> HIDE DEF G
  <2>6. G
    BY <2>1, <2>2, <2>3, <2>4, <2>5, NextCases
  <2> QED BY <2>6 DEF G
<1> QED BY <1>1, <1>2, <1>3, MaxTsAssumption DEF TS

-----------------------------------------------------------------------------
(* cleanupCommittedTransactions forgets nothing a reader still needs: what   *)
(* it drops is at or below the discard watermark, hence at or below every    *)
(* running transaction's readTs.                                             *)
LEMMA ConflictNext == OracleInv /\ Next => ConflictInfoKept'
<1> DEFINE rec(u) == [ts |-> commitTs[u], conflictKeys |-> conflictKeys(u)]
<1> SUFFICES ASSUME OracleInv, Next, DetectConflicts PROVE ConflictInfoKept'
  BY DEF ConflictInfoKept
<1>1. /\ readTs \in [Txn -> TS] /\ commitTs \in [Txn -> TS] /\ nextTxnTs \in 1 .. MaxTs + 1
      /\ doneRead \in [Txn -> BOOLEAN]
      /\ pc \in [Txn -> {"idle", "begin", "wait", "active", "send", "sent", "discard", "done"}]
      /\ pendingWrites \in [Txn -> SUBSET Key]
      /\ PhaseInv /\ readMark.doneUntil \in TS
  BY MarkFacts DEF OracleInv, TypeOK
<1>2. \A t \in Txn, u \in Committed :
        Reading(t) /\ commitTs[u] > readTs[t] => rec(u) \in committedTxns
  BY DEF OracleInv, ConflictInfoKept
<1> DEFINE Goal == \A t \in Txn, u \in Committed' :
                     Reading(t)' /\ commitTs'[u] > readTs'[t] => rec(u)' \in committedTxns'
<1>3. Goal => ConflictInfoKept'
  BY DEF ConflictInfoKept
(* Steps that start no reader, commit nothing and touch no write set.        *)
<1>4. ASSUME UNCHANGED <<committedTxns, commitTs, readTs, pendingWrites>>,
             \A t \in Txn : Reading(t)' => Reading(t)
      PROVE  Goal
  <2>1. Committed' = Committed
    BY <1>4 DEF Committed
  <2>2. \A u : rec(u)' = rec(u)
    BY <1>4 DEF conflictKeys
  <2> QED BY <1>2, <1>4, <2>1, <2>2
<1>5. ASSUME NEW t \in Txn, NEW upd \in BOOLEAN, NewTransaction(t, upd) PROVE Goal
  <2>1. Committed' = Committed /\ committedTxns' = committedTxns /\ commitTs' = commitTs
    BY <1>5 DEF NewTransaction, Committed
  <2>2. \A u : rec(u)' = rec(u)
    BY <1>5 DEF NewTransaction, conflictKeys
  <2>3. /\ readTs'[t] = nextTxnTs - 1
        /\ \A r \in Txn : r # t => readTs'[r] = readTs[r] /\ (Reading(r)' => Reading(r))
    BY <1>1, <1>5 DEF NewTransaction, nextReadTs, Reading
  <2>4. \A u \in Committed : ~ (commitTs[u] > nextTxnTs - 1)
    BY <1>1, MaxTsAssumption DEF PhaseInv, Committed, TS
  <2>5. ASSUME NEW r \in Txn, NEW u \in Committed', Reading(r)', commitTs'[u] > readTs'[r]
        PROVE  rec(u)' \in committedTxns'
    <3>1. r # t /\ u \in Committed
      BY <2>1, <2>3, <2>4, <2>5
    <3>2. rec(u) \in committedTxns
      BY <1>2, <2>1, <2>3, <2>5, <3>1
    <3> QED BY <2>1, <2>2, <3>2
  <2> QED BY <2>5
<1>6. ASSUME NEW t \in Txn, newCommitTs(t) PROVE Goal
  <2> SUFFICES ASSUME NEW r \in Txn, NEW u \in Committed', Reading(r)', commitTs'[u] > readTs'[r]
               PROVE  rec(u)' \in committedTxns'
    OBVIOUS
  <2>1. r # t /\ Reading(r) /\ readTs' = readTs /\ pendingWrites' = pendingWrites
    BY <1>1, <1>6 DEF newCommitTs, Reading
  <2>2. CASE u = t
    <3>1. rec(t)' = [ts |-> nextTxnTs, conflictKeys |-> conflictKeys(t)]
      BY <1>1, <1>6, <2>1 DEF newCommitTs, conflictKeys
    <3> QED BY <1>6, <2>2, <3>1 DEF newCommitTs
  <2>3. CASE u # t
    <3>1. u \in Committed /\ commitTs'[u] = commitTs[u] /\ rec(u)' = rec(u)
      BY <1>1, <1>6, <2>1, <2>3 DEF newCommitTs, Committed, conflictKeys
    <3>2. rec(u) \in committedTxns
      BY <1>2, <2>1, <3>1
    <3>3. discardAtOrBelow <= readTs[r]
      BY <2>1, ReadersHold DEF DiscardBelowReaders
    <3>4. rec(u).ts > discardAtOrBelow
      BY <1>1, <2>1, <3>1, <3>3, MaxTsAssumption DEF TS, discardAtOrBelow, Committed
    <3>5. rec(u) \in cleanupCommittedTransactions(committedTxns)
      BY <3>2, <3>4 DEF cleanupCommittedTransactions
    <3> QED BY <1>6, <3>1, <3>5 DEF newCommitTs
  <2> QED BY <2>2, <2>3
<1>7. ASSUME NEW t \in Txn, NEW k \in Key, Get(t, k) \/ Modify(t, k) PROVE Goal
  <2>1. CASE Get(t, k)
    BY <1>4, <2>1 DEF Get, oracleVars, Reading
  <2>2. CASE Modify(t, k)
    <3>1. Committed' = Committed /\ t \notin Committed
      BY <1>1, <2>2 DEF Modify, Committed, PhaseInv
    <3>2. \A u \in Committed : rec(u)' = rec(u)
      BY <1>1, <2>2, <3>1 DEF Modify, conflictKeys, Committed
    <3> QED BY <1>2, <2>2, <3>1, <3>2 DEF Modify, oracleVars, Reading
  <2> QED BY <1>7, <2>1, <2>2
<1>8. ASSUME NEW t \in Txn, WaitForMark(t) PROVE Goal
  BY <1>1, <1>4, <1>8 DEF WaitForMark, Reading
<1>9. ASSUME NEW t \in Txn, WaitOver(t) \/ CommitConflict(t) \/ sendToWriteCh(t) PROVE Goal
  BY <1>1, <1>4, <1>9 DEF WaitOver, CommitConflict, sendToWriteCh, oracleVars, Reading
<1>10. ASSUME NEW t \in Txn, Discard(t) PROVE Goal
  BY <1>1, <1>4, <1>10 DEF Discard, Reading
<1>11. ASSUME NEW t \in Txn, SendError(t) \/ doneCommit(t) PROVE Goal
  BY <1>1, <1>4, <1>11 DEF SendError, doneCommit, Reading
<1>12. WriterStep \/ CompactStep \/ processReadMark \/ processTxnMark => Goal
  <2>1. UNCHANGED <<committedTxns, txnVars>> => Goal
    BY <1>4 DEF txnVars, Reading
  <2> QED BY <2>1, WriterFrame, CompactFrame DEF processReadMark, processTxnMark, oracleVars
<1> HIDE DEF Goal
<1> QED BY <1>3, <1>5, <1>6, <1>7, <1>8, <1>9, <1>10, <1>11, <1>12, NextCases

-----------------------------------------------------------------------------
(* The invariant is inductive.                                              *)
LEMMA OracleInvNext == OracleInv /\ [Next]_vars => OracleInv'
<1> SUFFICES ASSUME OracleInv, [Next]_vars PROVE OracleInv'
  OBVIOUS
<1>1. CASE Next
  BY <1>1, TypeNext, MarksNext, PhaseNext, CleanupNext, ConflictNext DEF OracleInv
<1>2. CASE UNCHANGED vars
  <2>1. UNCHANGED <<nextTxnTs, readMark, txnMark, committedTxns, lastCleanupTs, writeChLock,
                    pc, update, readTs, commitTs, reads, pendingWrites, doneRead, seen,
                    writeCh, batch, put, reqState, lsm, discardTs>>
    BY <1>2 DEF vars, oracleVars, txnVars, writeVars
  <2>2. TypeOK'
    BY <2>1 DEF OracleInv, TypeOK
  <2>3. Began' = Began /\ Ended' = Ended /\ Committed' = Committed /\ CommitEnded' = CommitEnded
    BY <2>1 DEF Began, Ended, Committed, CommitEnded
  <2>4. MarksInv'
    BY <2>1, <2>3 DEF OracleInv, MarksInv
  <2>5. PhaseInv' /\ lastCleanupTs' <= discardAtOrBelow'
    BY <2>1 DEF OracleInv, PhaseInv, discardAtOrBelow
  <2>6. ConflictInfoKept'
    BY <2>1, <2>3 DEF OracleInv, ConflictInfoKept, Reading, conflictKeys
  <2> QED BY <2>2, <2>4, <2>5, <2>6 DEF OracleInv
<1> QED BY <1>1, <1>2

(* The conjunction of types, watermark accounting, phases and conflict      *)
(* information holds in every reachable state of the oracle (txn.go) with its *)
(* two watermarks, for any set of transactions, keys and fingerprints.      *)
THEOREM OracleInvariant == Spec => []OracleInv
<1>1. Init => OracleInv
  BY InitInv
<1>2. OracleInv /\ [Next]_vars => OracleInv'
  BY OracleInvNext
<1> QED BY <1>1, <1>2, PTL DEF Spec

(* Every variable of the oracle, the transactions and the write path keeps   *)
(* its type, timestamps within the bound included.                           *)
THEOREM TypeCorrect == Spec => []TypeOK
<1>1. OracleInv => TypeOK
  BY DEF OracleInv
<1> QED BY <1>1, OracleInvariant, PTL

(* The accounting of both watermarks: pending counts exactly the callers     *)
(* whose Begin was received and whose Done was not, and the heap holds their  *)
(* indices (watermark.go, process).                                          *)
THEOREM MarksAccounted == Spec => []MarksInv
<1>1. OracleInv => MarksInv
  BY DEF OracleInv
<1> QED BY <1>1, OracleInvariant, PTL

(* The discard watermark that compaction and the cleanup of committed         *)
(* transactions trust never passes the readTs of a running transaction, for   *)
(* any number of transactions and any lag of the watermark goroutine.         *)
THEOREM DiscardIsSafe == Spec => []DiscardBelowReaders
<1>1. OracleInv => DiscardBelowReaders
  BY ReadersHold
<1> QED BY <1>1, OracleInvariant, PTL

(* hasConflict is decided on complete information: the write set of every     *)
(* commit after a running transaction's readTs is still in committedTxns.     *)
THEOREM ConflictInfoIsKept == Spec => []ConflictInfoKept
<1>1. OracleInv => ConflictInfoKept
  BY DEF OracleInv
<1> QED BY <1>1, OracleInvariant, PTL

(* None of the assertions of the oracle and of the watermarks can fail.       *)
THEOREM AssertionsNeverFail == Spec => []AssertionsHold
<1>1. OracleInv => AssertionsHold
  <2> SUFFICES ASSUME OracleInv PROVE AssertionsHold
    OBVIOUS
  <2>1. HeadIsFresh(readMark) /\ HeadIsFresh(txnMark)
    BY MarkFacts, HeadFresh
  <2>2. lastCleanupTs <= discardAtOrBelow /\ lastCleanupTs \in TS
    BY DEF OracleInv, TypeOK
  <2>3. discardAtOrBelow <= nextTxnTs - 1 /\ discardAtOrBelow \in TS /\ nextTxnTs - 1 \in TS
    BY MarkFacts DEF discardAtOrBelow
  <2>4. nextTxnTs \in 1 .. MaxTs + 1
    BY DEF OracleInv, TypeOK
  <2>5. lastCleanupTs <= nextTxnTs
    BY <2>2, <2>3, <2>4, MaxTsAssumption DEF TS
  <2> QED BY <2>1, <2>2, <2>5 DEF AssertionsHold
<1> QED BY <1>1, OracleInvariant, PTL

-----------------------------------------------------------------------------
(* Facts of every state of the invariant.                                   *)
LEMMA StoreFacts ==
  ASSUME StoreInv
  PROVE  /\ OracleInv /\ TypeOK /\ PhaseInv
         /\ TimestampsInv /\ SnapshotsReadyInv /\ CallsInv /\ RequestsInv /\ TreeInv
         /\ SnapshotRead /\ ReadsCurrent /\ ConflictInfoKept /\ DiscardBelowReaders
         /\ readTs \in [Txn -> TS] /\ commitTs \in [Txn -> TS] /\ nextTxnTs \in 1 .. MaxTs + 1
         /\ doneRead \in [Txn -> BOOLEAN] /\ update \in [Txn -> BOOLEAN]
         /\ pc \in [Txn -> {"idle", "begin", "wait", "active", "send", "sent", "discard", "done"}]
         /\ reads \in [Txn -> SUBSET {Fp[k] : k \in Key}]
         /\ pendingWrites \in [Txn -> SUBSET Key]
         /\ seen \in [Txn -> [Key -> TS \cup {NotRead}]]
         /\ writeCh \in Seq(Txn) /\ batch \in Seq(Txn) /\ put \subseteq Txn \X Key
         /\ reqState \in [Txn -> {"none", "queued", "ok", "err"}]
         /\ lsm \in [Key -> SUBSET TS] /\ discardTs \in TS \cup {NotRead}
         /\ discardAtOrBelow \in TS /\ txnMark.doneUntil \in TS
BY MarkFacts, ReadersHold DEF StoreInv, OracleInv, TypeOK, discardAtOrBelow

(* Commit timestamps are given by newCommitTs only.                         *)
LEMMA CommitTsFrame ==
  ASSUME Next, \A t \in Txn : ~ newCommitTs(t)
  PROVE  /\ commitTs' = commitTs /\ nextTxnTs' = nextTxnTs
         /\ committedTxns' = committedTxns /\ Committed' = Committed
<1> DEFINE G == commitTs' = commitTs /\ nextTxnTs' = nextTxnTs /\ committedTxns' = committedTxns
<1>1. \A t \in Txn : \A upd \in BOOLEAN : NewTransaction(t, upd) => G
  BY DEF NewTransaction
<1>2. \A t \in Txn : WaitForMark(t) => G
  BY DEF WaitForMark
<1>3. \A t \in Txn : WaitOver(t) \/ CommitConflict(t) \/ sendToWriteCh(t) => G
  BY DEF WaitOver, CommitConflict, sendToWriteCh, oracleVars
<1>4. \A t \in Txn : \A k \in Key : Get(t, k) \/ Modify(t, k) => G
  BY DEF Get, Modify, oracleVars
<1>5. \A t \in Txn : Discard(t) => G
  BY DEF Discard
<1>6. \A t \in Txn : SendError(t) \/ doneCommit(t) => G
  BY DEF SendError, doneCommit
<1>7. WriterStep \/ CompactStep \/ processReadMark \/ processTxnMark => G
  BY WriterFrame, CompactFrame DEF processReadMark, processTxnMark, oracleVars, txnVars
<1> HIDE DEF G
<1>8. G
  BY <1>1, <1>2, <1>3, <1>4, <1>5, <1>6, <1>7, NextCases
<1> QED BY <1>8 DEF G, Committed

(* newCommitTs makes its transaction a committed one, with a timestamp above *)
(* every other.                                                              *)
LEMMA NewCommit ==
  ASSUME StoreInv, NEW t \in Txn, newCommitTs(t)
  PROVE  /\ Committed' = Committed \cup {t} /\ t \notin Committed
         /\ CommitEnded' = CommitEnded /\ t \notin CommitEnded
         /\ commitTs' = [commitTs EXCEPT ![t] = nextTxnTs] /\ commitTs'[t] = nextTxnTs
         /\ \A u \in Txn : u # t => commitTs'[u] = commitTs[u]
         /\ \A u \in Txn : commitTs[u] < nextTxnTs /\ readTs[u] < nextTxnTs
         /\ nextTxnTs \in TS /\ nextTxnTs - 1 < nextTxnTs /\ nextTxnTs' = nextTxnTs + 1
         /\ nextTxnTs - 1 \in TS /\ nextTxnTs # 0
<1>1. /\ commitTs \in [Txn -> TS] /\ nextTxnTs \in 1 .. MaxTs + 1 /\ PhaseInv
      /\ pc \in [Txn -> {"idle", "begin", "wait", "active", "send", "sent", "discard", "done"}]
  BY StoreFacts
<1>2. /\ nextTxnTs \in TS /\ nextTxnTs - 1 < nextTxnTs /\ nextTxnTs' = nextTxnTs + 1
      /\ nextTxnTs - 1 \in TS /\ nextTxnTs # 0
  BY <1>1, MaxTsAssumption DEF newCommitTs, TS
<1>3. commitTs' = [commitTs EXCEPT ![t] = nextTxnTs] /\ commitTs[t] = 0
  BY <1>1 DEF newCommitTs, PhaseInv
<1>4. CommitEnded' = CommitEnded /\ t \notin CommitEnded
  BY <1>1, <1>3 DEF newCommitTs, Committed, CommitEnded
<1>5. Committed' = Committed \cup {t} /\ t \notin Committed
  BY <1>1, <1>2, <1>3 DEF Committed
<1> QED BY <1>1, <1>2, <1>3, <1>4, <1>5 DEF PhaseInv

-----------------------------------------------------------------------------
(* Commit timestamps stay unique and without gaps.                          *)
LEMMA TimestampsNext == StoreInv /\ Next => TimestampsInv'
<1> SUFFICES ASSUME StoreInv, Next PROVE TimestampsInv'
  OBVIOUS
<1>1. TimestampsInv /\ commitTs \in [Txn -> TS] /\ nextTxnTs \in 1 .. MaxTs + 1
  BY StoreFacts
<1>2. ASSUME NEW t \in Txn, newCommitTs(t) PROVE TimestampsInv'
  <2>1. \A u, v \in Committed' : commitTs'[u] = commitTs'[v] => u = v
    BY <1>1, <1>2, NewCommit DEF TimestampsInv, Committed
  <2>2. ASSUME NEW i \in 1 .. nextTxnTs' - 1 PROVE \E u \in Committed' : commitTs'[u] = i
    <3>1. CASE i = nextTxnTs
      BY <1>2, <3>1, NewCommit
    <3>2. CASE i \in 1 .. nextTxnTs - 1
      <4>1. PICK u \in Committed : commitTs[u] = i
        BY <1>1, <3>2 DEF TimestampsInv
      <4> QED BY <1>2, <4>1, NewCommit DEF Committed
    <3> QED BY <1>1, <1>2, <3>1, <3>2, NewCommit
  <2> QED BY <2>1, <2>2 DEF TimestampsInv
<1>3. CASE \A t \in Txn : ~ newCommitTs(t)
  BY <1>1, <1>3, CommitTsFrame DEF TimestampsInv
<1> QED BY <1>2, <1>3

(* The sets behind the two watermarks, for steps that leave pc's phases.    *)
LEMMA NoCommitSets ==
  ASSUME StoreInv, Next, \A t \in Txn : ~ newCommitTs(t) /\ ~ SendError(t) /\ ~ doneCommit(t)
  PROVE  Committed' = Committed /\ CommitEnded' = CommitEnded
<1>1. /\ commitTs' = commitTs /\ Committed' = Committed
  BY CommitTsFrame
<1> DEFINE ended(p) == p \in {"discard", "done"}
           G == \A u \in Committed : ended(pc'[u]) <=> ended(pc[u])
<1>2. /\ pc \in [Txn -> {"idle", "begin", "wait", "active", "send", "sent", "discard", "done"}]
      /\ PhaseInv
  BY StoreFacts
<1>3. \A t \in Txn : \A upd \in BOOLEAN : NewTransaction(t, upd) => G
  BY <1>2 DEF NewTransaction, Committed, PhaseInv
<1>4. \A t \in Txn : WaitForMark(t) => G
  BY <1>2 DEF WaitForMark, Committed, PhaseInv
<1>5. \A t \in Txn : WaitOver(t) \/ CommitConflict(t) \/ sendToWriteCh(t) => G
  BY <1>2 DEF WaitOver, CommitConflict, sendToWriteCh, Committed, PhaseInv
<1>6. \A t \in Txn : \A k \in Key : Get(t, k) \/ Modify(t, k) => G
  BY <1>2 DEF Get, Modify
<1>7. \A t \in Txn : Discard(t) => G
  BY <1>2 DEF Discard, Committed, PhaseInv
<1>8. WriterStep \/ CompactStep \/ processReadMark \/ processTxnMark => G
  BY WriterFrame, CompactFrame DEF processReadMark, processTxnMark, txnVars
<1> HIDE DEF G
<1>9. G
  BY <1>3, <1>4, <1>5, <1>6, <1>7, <1>8, NextCases
<1> QED BY <1>1, <1>9 DEF G, CommitEnded

(* A commit that is not decided keeps txnMark below its timestamp.          *)
LEMMA UndecidedAbove ==
  ASSUME StoreInv, NEW u \in Committed, u \notin CommitEnded
  PROVE  txnMark.doneUntil < commitTs[u]
<1>1. /\ WaterMarkInv(txnMark, commitTs, Committed, CommitEnded, nextTxnTs - 1)
      /\ StrictInv(txnMark, commitTs, Committed, CommitEnded)
  BY StoreFacts, MarkFacts DEF SnapshotsReadyInv
<1>2. u \in Txn
  BY DEF Committed
<1>3. CASE Held(txnMark, Committed, CommitEnded, u)
  BY <1>1, <1>2, <1>3 DEF StrictInv
<1>4. CASE ~ Held(txnMark, Committed, CommitEnded, u)
  <2>1. PICK p \in 1 .. Len(txnMark.markCh) : txnMark.markCh[p].kind = "begin" /\ txnMark.markCh[p].who = u
    BY <1>4 DEF Held, InCh
  <2>2. txnMark.markCh[p].index = commitTs[u]
    BY <1>1, <2>1 DEF WaterMarkInv, ChannelInv
  <2> QED BY <1>1, <2>1, <2>2 DEF StrictInv
<1> QED BY <1>3, <1>4

(* A transaction that is active sees decided commits only.                  *)
LEMMA ActiveSeesDecided ==
  ASSUME StoreInv, NEW t \in Txn, pc[t] = "active", NEW u \in Committed, commitTs[u] <= readTs[t]
  PROVE  u \in CommitEnded
<1>1. readTs[t] <= txnMark.doneUntil
  BY StoreFacts DEF SnapshotsReadyInv
<1>2. u \notin CommitEnded => txnMark.doneUntil < commitTs[u]
  BY UndecidedAbove
<1>3. readTs[t] \in TS /\ commitTs[u] \in TS /\ txnMark.doneUntil \in TS
  BY StoreFacts DEF Committed
<1> QED BY <1>1, <1>2, <1>3, MaxTsAssumption DEF TS

-----------------------------------------------------------------------------
(* Only process moves doneUntil.                                            *)
LEMMA SendLeavesDoneUntil ==
  ASSUME NEW w \in WaterMarkType, NEW kind \in {"begin", "done", "wait"},
         NEW i \in TS, NEW t \in Txn
  PROVE  Send(w, kind, i, t).doneUntil = w.doneUntil
BY SendFacts

(* The transaction watermark stays ahead of active transactions and behind  *)
(* undecided commits.                                                       *)
LEMMA SnapshotsReadyNext == StoreInv /\ Next => SnapshotsReadyInv'
<1> SUFFICES ASSUME StoreInv, Next PROVE SnapshotsReadyInv'
  OBVIOUS
<1>1. /\ readTs \in [Txn -> TS] /\ commitTs \in [Txn -> TS] /\ nextTxnTs \in 1 .. MaxTs + 1
      /\ pc \in [Txn -> {"idle", "begin", "wait", "active", "send", "sent", "discard", "done"}]
      /\ PhaseInv /\ nextTxnTs - 1 \in TS /\ txnMark.doneUntil \in TS
      /\ Began \in SUBSET Txn
      /\ Committed \in SUBSET Txn /\ CommitEnded \in SUBSET Txn
      /\ txnMark \in WaterMarkType
      /\ WaterMarkInv(txnMark, commitTs, Committed, CommitEnded, nextTxnTs - 1)
  BY StoreFacts, MarkFacts DEF TypeOK
<1>2. /\ StrictInv(txnMark, commitTs, Committed, CommitEnded)
      /\ WaitersInv(txnMark, readTs, Began)
      /\ \A t \in Txn : pc[t] = "active" => readTs[t] <= txnMark.doneUntil
  BY StoreFacts DEF SnapshotsReadyInv
<1> DEFINE ActiveReady == \A t \in Txn : pc'[t] = "active" => readTs'[t] <= txnMark'.doneUntil
(* Steps that leave the watermark, the timestamps and who has begun alone.   *)
<1>3. ASSUME UNCHANGED <<txnMark, readTs, commitTs>>, Began' = Began,
             Committed' = Committed, CommitEnded' = CommitEnded, ActiveReady
      PROVE  SnapshotsReadyInv'
  BY <1>2, <1>3 DEF SnapshotsReadyInv
<1>4. ASSUME NEW t \in Txn, NEW upd \in BOOLEAN, NewTransaction(t, upd) PROVE SnapshotsReadyInv'
  <2>1. t \notin Began /\ Began' = Began \cup {t} /\ readTs' = [readTs EXCEPT ![t] = nextTxnTs - 1]
    BY <1>1, <1>4 DEF NewTransaction, nextReadTs, Began
  <2>2. Committed' = Committed /\ CommitEnded' = CommitEnded /\ commitTs' = commitTs /\ txnMark' = txnMark
    BY <1>1, <1>4 DEF NewTransaction, Committed, CommitEnded, PhaseInv
  <2>3. WaitersInv(txnMark, readTs', Began')
    BY <1>1, <1>2, <2>1 DEF WaitersInv
  <2>4. ActiveReady
    BY <1>1, <1>2, <1>4, <2>1, <2>2 DEF NewTransaction
  <2> QED BY <1>2, <2>2, <2>3, <2>4 DEF SnapshotsReadyInv
<1>5. ASSUME NEW t \in Txn, WaitForMark(t) PROVE SnapshotsReadyInv'
  <2>1. /\ Began' = Began /\ Committed' = Committed /\ CommitEnded' = CommitEnded
        /\ readTs' = readTs /\ commitTs' = commitTs /\ t \in Began
    BY <1>1, <1>5 DEF WaitForMark, Began, Committed, CommitEnded
  <2>2. CASE ~ mustWait(t) /\ pc' = [pc EXCEPT ![t] = "active"] /\ UNCHANGED txnMark
    <3>1. readTs[t] <= txnMark.doneUntil
      BY <1>1, <2>2, MaxTsAssumption DEF mustWait, TS
    <3>2. ActiveReady
      BY <1>1, <1>2, <2>1, <2>2, <3>1
    <3> QED BY <1>3, <2>1, <2>2, <3>2
  <2>3. CASE txnMark' = Wait(txnMark, readTs[t], t) /\ pc' = [pc EXCEPT ![t] = "wait"]
    <3>1. readTs[t] \in TS /\ txnMark'.doneUntil = txnMark.doneUntil
      BY <1>1, <2>3, SendLeavesDoneUntil DEF Wait
    <3>2. \A u \in Txn : Held(txnMark', Committed, CommitEnded, u)
                           => Held(txnMark, Committed, CommitEnded, u)
      <4>1. \A k, u : InCh(txnMark', k, u) <=> InCh(txnMark, k, u) \/ (k = "wait" /\ u = t)
        BY <1>1, <2>3, <3>1, InChSend DEF Wait
      <4> QED BY <4>1 DEF Held
    <3>3. StrictInv(txnMark', commitTs, Committed, CommitEnded)
      BY <1>1, <1>2, <2>3, <3>1, <3>2, SendKeepsStrict DEF Wait
    <3>4. WaitersInv(txnMark', readTs, Began)
      BY <1>1, <1>2, <2>1, <2>3, WaitKeepsWaiters
    <3>5. ActiveReady
      BY <1>1, <1>2, <2>1, <2>3, <3>1
    <3> QED BY <2>1, <3>3, <3>4, <3>5 DEF SnapshotsReadyInv
  <2> QED BY <1>5, <2>2, <2>3 DEF WaitForMark
<1>6. ASSUME NEW t \in Txn, WaitOver(t) PROVE SnapshotsReadyInv'
  <2>1. /\ Began' = Began /\ Committed' = Committed /\ CommitEnded' = CommitEnded
        /\ readTs' = readTs /\ commitTs' = commitTs /\ txnMark' = txnMark
    BY <1>1, <1>6 DEF WaitOver, Began, Committed, CommitEnded, oracleVars
  <2>2. readTs[t] <= txnMark.doneUntil
    BY <1>2, <1>6 DEF WaitOver, WaitersInv
  <2>3. ActiveReady
    BY <1>1, <1>2, <1>6, <2>1, <2>2 DEF WaitOver
  <2> QED BY <1>3, <2>1, <2>3
<1>7. ASSUME NEW t \in Txn, CommitConflict(t) \/ sendToWriteCh(t) \/ Discard(t) PROVE SnapshotsReadyInv'
  <2>1. /\ Began' = Began /\ Committed' = Committed /\ CommitEnded' = CommitEnded
        /\ readTs' = readTs /\ commitTs' = commitTs /\ txnMark' = txnMark
    BY <1>1, <1>7 DEF CommitConflict, sendToWriteCh, Discard, Began, Committed, CommitEnded,
                      PhaseInv, oracleVars
  <2>2. ActiveReady
    BY <1>1, <1>2, <1>7, <2>1 DEF CommitConflict, sendToWriteCh, Discard
  <2> QED BY <1>3, <2>1, <2>2
<1>8. ASSUME NEW t \in Txn, newCommitTs(t) PROVE SnapshotsReadyInv'
  <2>1. Began' = Began /\ readTs' = readTs
    BY <1>1, <1>8 DEF newCommitTs, Began
  <2>2. /\ Committed' = Committed \cup {t} /\ t \notin Committed
        /\ CommitEnded' = CommitEnded /\ t \notin CommitEnded
        /\ commitTs' = [commitTs EXCEPT ![t] = nextTxnTs]
        /\ nextTxnTs \in TS /\ nextTxnTs - 1 < nextTxnTs
    BY <1>8, NewCommit
  <2>3. txnMark' = Begin(txnMark, nextTxnTs, t) /\ txnMark'.doneUntil = txnMark.doneUntil
    <3>1. txnMark' = Begin(txnMark, nextTxnTs, t)
      BY <1>8 DEF newCommitTs
    <3> QED BY <1>1, <2>2, <3>1, SendLeavesDoneUntil DEF Begin
  <2>4. StrictInv(txnMark', commitTs', Committed', CommitEnded')
    BY <1>1, <1>2, <2>2, <2>3, BeginKeepsStrict
  <2>5. WaitersInv(txnMark', readTs, Began)
    BY <1>1, <1>2, <2>2, <2>3, SendKeepsWaiters DEF Begin
  <2>6. ActiveReady
    BY <1>1, <1>2, <1>8, <2>1, <2>3 DEF newCommitTs
  <2> QED BY <2>1, <2>4, <2>5, <2>6 DEF SnapshotsReadyInv
<1>9. ASSUME NEW t \in Txn, SendError(t) \/ doneCommit(t) PROVE SnapshotsReadyInv'
  <2>1. Began' = Began /\ readTs' = readTs /\ commitTs' = commitTs
    BY <1>1, <1>9 DEF SendError, doneCommit, Began
  <2>2. /\ t \in Committed /\ t \notin CommitEnded /\ Committed' = Committed
        /\ CommitEnded' = CommitEnded \cup {t}
    BY <1>1, <1>9 DEF SendError, doneCommit, Committed, CommitEnded, PhaseInv
  <2>3. /\ txnMark' = Send(txnMark, "done", commitTs[t], t) /\ commitTs[t] \in TS
        /\ txnMark'.doneUntil = txnMark.doneUntil
    <3>1. txnMark' = Send(txnMark, "done", commitTs[t], t) /\ commitTs[t] \in TS
      BY <1>1, <1>9 DEF SendError, doneCommit, Done
    <3> QED BY <1>1, <3>1, SendLeavesDoneUntil
  <2>4. \A u \in Txn : Held(txnMark', Committed, CommitEnded \cup {t}, u)
                         => Held(txnMark, Committed, CommitEnded, u)
    <3>1. \A k, u : InCh(txnMark', k, u) <=> InCh(txnMark, k, u) \/ (k = "done" /\ u = t)
      BY <1>1, <2>3, InChSend
    <3> QED BY <2>2, <3>1 DEF Held
  <2>5. StrictInv(txnMark', commitTs', Committed', CommitEnded')
    BY <1>1, <1>2, <2>1, <2>2, <2>3, <2>4, SendKeepsStrict
  <2>6. WaitersInv(txnMark', readTs, Began)
    BY <1>1, <1>2, <2>3, SendKeepsWaiters
  <2>7. ActiveReady
    BY <1>1, <1>2, <1>9, <2>1, <2>3 DEF SendError, doneCommit
  <2> QED BY <2>1, <2>5, <2>6, <2>7 DEF SnapshotsReadyInv
<1>10. ASSUME UNCHANGED <<txnMark, txnVars>> PROVE SnapshotsReadyInv'
  <2>1. /\ Began' = Began /\ Committed' = Committed /\ CommitEnded' = CommitEnded
        /\ readTs' = readTs /\ commitTs' = commitTs /\ pc' = pc /\ txnMark' = txnMark
    BY <1>10 DEF txnVars, Began, Committed, CommitEnded
  <2> QED BY <1>2, <1>3, <2>1
<1>11. ASSUME NEW t \in Txn, NEW k \in Key, Get(t, k) \/ Modify(t, k) PROVE SnapshotsReadyInv'
  <2>1. /\ Began' = Began /\ Committed' = Committed /\ CommitEnded' = CommitEnded
        /\ readTs' = readTs /\ commitTs' = commitTs /\ pc' = pc /\ txnMark' = txnMark
    BY <1>11 DEF Get, Modify, oracleVars, Began, Committed, CommitEnded
  <2> QED BY <1>2, <1>3, <2>1
<1>12. WriterStep \/ CompactStep \/ processReadMark => SnapshotsReadyInv'
  BY <1>10, WriterFrame, CompactFrame DEF processReadMark, oracleVars
<1>13. ASSUME processTxnMark PROVE SnapshotsReadyInv'
  <2>1. /\ Began' = Began /\ Committed' = Committed /\ CommitEnded' = CommitEnded
        /\ readTs' = readTs /\ commitTs' = commitTs /\ pc' = pc
        /\ txnMark.markCh # <<>> /\ txnMark' = process(txnMark)
    BY <1>13 DEF processTxnMark, txnVars, Began, Committed, CommitEnded
  <2>2. StrictInv(txnMark', commitTs, Committed, CommitEnded)
    BY <1>1, <1>2, <2>1, ProcessKeepsStrict
  <2>3. WaitersInv(txnMark', readTs, Began)
    BY <1>1, <1>2, <2>1, ProcessKeepsWaiters
  <2>4. txnMark.doneUntil <= txnMark'.doneUntil /\ txnMark'.doneUntil \in TS
    <3>1. txnMark' \in WaterMarkType
      BY <1>1, <2>1, ProcessPreservesInv DEF WaterMarkInv
    <3> QED BY <1>1, <2>1, <3>1, DoneUntilGrows DEF WaterMarkType
  <2>5. ActiveReady
    BY <1>1, <1>2, <2>1, <2>4, TSOrder
  <2> QED BY <2>1, <2>2, <2>3, <2>5 DEF SnapshotsReadyInv
<1> QED BY <1>4, <1>5, <1>6, <1>7, <1>8, <1>9, <1>11, <1>12, <1>13, NextCases

-----------------------------------------------------------------------------
(* What the user's calls leave in a transaction.                            *)
LEMMA CallsNext == StoreInv /\ Next => CallsInv'
<1> SUFFICES ASSUME StoreInv, Next PROVE CallsInv'
  OBVIOUS
<1>1. /\ pendingWrites \in [Txn -> SUBSET Key] /\ update \in [Txn -> BOOLEAN]
      /\ pc \in [Txn -> {"idle", "begin", "wait", "active", "send", "sent", "discard", "done"}]
      /\ reads \in [Txn -> SUBSET {Fp[k] : k \in Key}]
      /\ seen \in [Txn -> [Key -> TS \cup {NotRead}]]
      /\ CallsInv
  BY StoreFacts
<1>2. ASSUME UNCHANGED <<update, pendingWrites, seen, reads>>,
             \A t \in Txn : pc'[t] = "idle" => pc[t] = "idle"
      PROVE  CallsInv'
  BY <1>1, <1>2 DEF CallsInv
<1>3. ASSUME NEW t \in Txn, NEW upd \in BOOLEAN, NewTransaction(t, upd) PROVE CallsInv'
  BY <1>1, <1>3 DEF NewTransaction, CallsInv
<1>4. ASSUME NEW t \in Txn, WaitForMark(t) PROVE CallsInv'
  BY <1>1, <1>2, <1>4 DEF WaitForMark
<1>5. ASSUME NEW t \in Txn, WaitOver(t) \/ CommitConflict(t) \/ sendToWriteCh(t) PROVE CallsInv'
  BY <1>1, <1>2, <1>5 DEF WaitOver, CommitConflict, sendToWriteCh
<1>6. ASSUME NEW t \in Txn, NEW k \in Key, Get(t, k) \/ Modify(t, k) PROVE CallsInv'
  <2>1. CASE Get(t, k)
    <3>1. /\ pc' = pc /\ update' = update /\ pendingWrites' = pendingWrites /\ pc[t] = "active"
          /\ reads' = IF update[t] THEN [reads EXCEPT ![t] = @ \cup {Fp[k]}] ELSE reads
          /\ seen' = [seen EXCEPT ![t][k] = Visible(k, readTs[t])]
      BY <2>1 DEF Get
    <3>2. \A u \in Txn, j \in Key : u # t \/ j # k => seen'[u][j] = seen[u][j]
      BY <1>1, <3>1
    <3>3. /\ \A u \in Txn : reads[u] \subseteq reads'[u]
          /\ update[t] => Fp[k] \in reads'[t]
      BY <1>1, <3>1
    <3> QED BY <3>1, <3>2, <3>3, <1>1 DEF CallsInv
  <2>2. CASE Modify(t, k)
    BY <1>1, <2>2 DEF Modify, CallsInv
  <2> QED BY <1>6, <2>1, <2>2
<1>7. ASSUME NEW t \in Txn, Discard(t) PROVE CallsInv'
  BY <1>1, <1>2, <1>7 DEF Discard
<1>8. ASSUME NEW t \in Txn, newCommitTs(t) PROVE CallsInv'
  BY <1>1, <1>2, <1>8 DEF newCommitTs
<1>9. ASSUME NEW t \in Txn, SendError(t) \/ doneCommit(t) PROVE CallsInv'
  BY <1>1, <1>2, <1>9 DEF SendError, doneCommit
<1>10. WriterStep \/ CompactStep \/ processReadMark \/ processTxnMark => CallsInv'
  BY <1>2, WriterFrame, CompactFrame DEF processReadMark, processTxnMark, txnVars
<1> QED BY <1>3, <1>4, <1>5, <1>6, <1>7, <1>8, <1>9, <1>10, NextCases

-----------------------------------------------------------------------------
(* The two halves of a sequence that is cut after its first n elements.     *)
LEMMA CutSeq ==
  ASSUME NEW S, NEW q \in Seq(S), NEW n \in 0 .. Len(q)
  PROVE  LET a == SubSeq(q, 1, n)
             b == SubSeq(q, n + 1, Len(q))
         IN  /\ a \in Seq(S) /\ b \in Seq(S)
             /\ Len(q) \in Nat /\ Len(a) = n /\ Len(b) = Len(q) - n
             /\ \A i \in 1 .. n : a[i] = q[i]
             /\ \A i \in 1 .. Len(q) - n : b[i] = q[i + n]
<1>1. Len(q) \in Nat /\ \A i \in 1 .. Len(q) : q[i] \in S
  OBVIOUS
<1>2. n \in Int /\ 0 <= n /\ n <= Len(q)
  BY <1>1
<1>3. /\ SubSeq(q, 1, n) \in Seq(S)
      /\ Len(SubSeq(q, 1, n)) = IF 1 <= n THEN n - 1 + 1 ELSE 0
      /\ \A i \in 1 .. n - 1 + 1 : SubSeq(q, 1, n)[i] = q[1 + i - 1]
  <2>1. \A i \in 1 .. n : q[i] \in S
    BY <1>1, <1>2
  <2> QED BY <1>2, <2>1, SubSeqProperties
<1>4. /\ SubSeq(q, n + 1, Len(q)) \in Seq(S)
      /\ Len(SubSeq(q, n + 1, Len(q))) = IF n + 1 <= Len(q) THEN Len(q) - (n + 1) + 1 ELSE 0
      /\ \A i \in 1 .. Len(q) - (n + 1) + 1 : SubSeq(q, n + 1, Len(q))[i] = q[(n + 1) + i - 1]
  <2>1. \A i \in n + 1 .. Len(q) : q[i] \in S
    BY <1>1, <1>2
  <2>2. n + 1 \in Int
    BY <1>2
  <2> QED BY <1>1, <2>1, <2>2, SubSeqProperties
<1> DEFINE a == SubSeq(q, 1, n)
           b == SubSeq(q, n + 1, Len(q))
<1>5. /\ Len(a) = n /\ \A i \in 1 .. n : a[i] = q[i]
  <2>1. n - 1 + 1 = n /\ \A i \in 1 .. n : 1 + i - 1 = i
    BY <1>2
  <2> HIDE DEF a
  <2> QED BY <1>2, <1>3, <2>1 DEF a
<1>6. /\ Len(b) = Len(q) - n /\ \A i \in 1 .. Len(q) - n : b[i] = q[i + n]
  <2>1. Len(q) - (n + 1) + 1 = Len(q) - n /\ \A i \in 1 .. Len(q) - n : (n + 1) + i - 1 = i + n
    BY <1>1, <1>2
  <2> HIDE DEF b
  <2> QED BY <1>1, <1>2, <1>4, <2>1 DEF b
<1> QED BY <1>1, <1>3, <1>4, <1>5, <1>6

(* A request is in one place until it is answered.                          *)
LEMMA RequestsNext == StoreInv /\ Next => RequestsInv'
<1> SUFFICES ASSUME StoreInv, Next PROVE RequestsInv'
  OBVIOUS
<1>1. /\ pc \in [Txn -> {"idle", "begin", "wait", "active", "send", "sent", "discard", "done"}]
      /\ writeCh \in Seq(Txn) /\ batch \in Seq(Txn) /\ put \subseteq Txn \X Key
      /\ reqState \in [Txn -> {"none", "queued", "ok", "err"}]
      /\ RequestsInv /\ PhaseInv /\ commitTs \in [Txn -> TS]
  BY StoreFacts
<1> DEFINE early(p) == p \in {"idle", "begin", "wait", "active", "send"}
(* Steps outside the write path: a queued request's transaction stays where  *)
(* it is, and only an answered one ends.                                     *)
<1>2. ASSUME UNCHANGED writeVars,
             \A t \in Txn : pc[t] = "sent" /\ reqState[t] = "queued" => pc'[t] = "sent",
             \A t \in Txn : early(pc'[t]) => early(pc[t]),
             \A t \in Txn : t \in CommitEnded' => t \in CommitEnded \/ reqState[t] \in {"ok", "err"}
      PROVE  RequestsInv'
  <2>1. /\ writeCh' = writeCh /\ batch' = batch /\ put' = put /\ reqState' = reqState
        /\ \A t : InBatch(t)' <=> InBatch(t)
        /\ \A t \in CommitEnded' : t \in Txn
        /\ \A i \in 1 .. Len(writeCh) : writeCh[i] \in Txn
    BY <1>1, <1>2 DEF writeVars, InBatch, CommitEnded, Committed
  <2> QED BY <1>1, <1>2, <2>1 DEF RequestsInv
<1>3. ASSUME NEW t \in Txn, NEW upd \in BOOLEAN, NewTransaction(t, upd) PROVE RequestsInv'
  BY <1>1, <1>2, <1>3 DEF NewTransaction, CommitEnded, Committed, PhaseInv
<1>4. ASSUME NEW t \in Txn, WaitForMark(t) PROVE RequestsInv'
  BY <1>1, <1>2, <1>4 DEF WaitForMark, CommitEnded, Committed, PhaseInv
<1>5. ASSUME NEW t \in Txn, WaitOver(t) \/ CommitConflict(t) PROVE RequestsInv'
  BY <1>1, <1>2, <1>5 DEF WaitOver, CommitConflict, CommitEnded, Committed, PhaseInv
<1>6. ASSUME NEW t \in Txn, sendToWriteCh(t) PROVE RequestsInv'
  <2>1. /\ pc[t] = "send" /\ writeCh' = Append(writeCh, t) /\ batch' = batch /\ put' = put
        /\ reqState' = [reqState EXCEPT ![t] = "queued"] /\ pc' = [pc EXCEPT ![t] = "sent"]
        /\ commitTs' = commitTs
    BY <1>6 DEF sendToWriteCh
  <2>2. \A u : InBatch(u)' <=> InBatch(u)
    BY <2>1 DEF InBatch
  <2>3. /\ ~ InBatch(t) /\ \A i \in 1 .. Len(writeCh) : writeCh[i] # t /\ writeCh[i] \in Txn
    BY <1>1, <2>1 DEF RequestsInv
  <2>4. /\ Len(writeCh') = Len(writeCh) + 1 /\ Len(writeCh) \in Nat
        /\ \A i \in 1 .. Len(writeCh) : writeCh'[i] = writeCh[i]
        /\ writeCh'[Len(writeCh) + 1] = t
    BY <1>1, <2>1
  <2>5. CommitEnded' = CommitEnded
    BY <1>1, <2>1 DEF CommitEnded, Committed
  <2>6. \A i \in 1 .. Len(writeCh') :
          pc'[writeCh'[i]] = "sent" /\ reqState'[writeCh'[i]] = "queued" /\ ~ InBatch(writeCh'[i])
    <3> SUFFICES ASSUME NEW i \in 1 .. Len(writeCh')
                 PROVE  pc'[writeCh'[i]] = "sent" /\ reqState'[writeCh'[i]] = "queued"
                        /\ ~ InBatch(writeCh'[i])
      OBVIOUS
    <3>1. CASE i = Len(writeCh) + 1
      BY <1>1, <2>1, <2>3, <2>4, <3>1
    <3>2. CASE i \in 1 .. Len(writeCh)
      BY <1>1, <2>1, <2>3, <2>4, <3>2 DEF RequestsInv
    <3> QED BY <2>4, <3>1, <3>2
  <2>7. \A i, j \in 1 .. Len(writeCh') : i # j => writeCh'[i] # writeCh'[j]
    BY <1>1, <2>3, <2>4 DEF RequestsInv
  <2>8. /\ \A u \in Txn : InBatch(u) => pc'[u] = "sent" /\ reqState'[u] = "queued"
        /\ \A u \in Txn, k \in Key : <<u, k>> \in put => InBatch(u)
        /\ \A u \in Txn : early(pc'[u]) => reqState'[u] = "none"
        /\ \A u \in CommitEnded : reqState'[u] \in {"ok", "err"}
    BY <1>1, <2>1, <2>3 DEF RequestsInv, CommitEnded, Committed
  <2> QED BY <2>1, <2>2, <2>5, <2>6, <2>7, <2>8 DEF RequestsInv
<1>7. ASSUME NEW t \in Txn, NEW k \in Key, Get(t, k) \/ Modify(t, k) PROVE RequestsInv'
  BY <1>1, <1>2, <1>7 DEF Get, Modify, CommitEnded, Committed
<1>8. ASSUME NEW t \in Txn, Discard(t) PROVE RequestsInv'
  BY <1>1, <1>2, <1>8 DEF Discard, CommitEnded, Committed, PhaseInv
<1>9. ASSUME NEW t \in Txn, newCommitTs(t) PROVE RequestsInv'
  <2>1. CommitEnded' = CommitEnded
    BY <1>9, NewCommit
  <2> QED BY <1>1, <1>2, <1>9, <2>1 DEF newCommitTs
<1>10. ASSUME NEW t \in Txn, SendError(t) PROVE RequestsInv'
  <2>1. /\ pc[t] = "send" /\ UNCHANGED <<writeCh, batch, put, commitTs>>
        /\ reqState' = [reqState EXCEPT ![t] = "err"] /\ pc' = [pc EXCEPT ![t] = "discard"]
    BY <1>10 DEF SendError
  <2>2. /\ \A u : InBatch(u)' <=> InBatch(u)
        /\ CommitEnded' \subseteq CommitEnded \cup {t}
        /\ \A u \in CommitEnded : u \in Txn
    BY <1>1, <2>1 DEF InBatch, CommitEnded, Committed
  <2>3. \A i \in 1 .. Len(writeCh) : writeCh[i] \in Txn
    BY <1>1
  <2> QED BY <1>1, <2>1, <2>2, <2>3 DEF RequestsInv
<1>11. ASSUME NEW t \in Txn, doneCommit(t) PROVE RequestsInv'
  <2>1. reqState[t] \in {"ok", "err"}
    BY <1>11 DEF doneCommit, requestDone
  <2> QED BY <1>1, <1>2, <1>11, <2>1 DEF doneCommit, CommitEnded, Committed
<1>12. ASSUME NEW n \in 1 .. Len(writeCh), doWrites(n) PROVE RequestsInv'
  <2>1. /\ batch = <<>> /\ batch' = SubSeq(writeCh, 1, n)
        /\ writeCh' = SubSeq(writeCh, n + 1, Len(writeCh))
        /\ UNCHANGED <<pc, commitTs, put, reqState>>
    BY <1>12 DEF doWrites, txnVars
  <2>2. /\ Len(batch') = n /\ Len(writeCh') = Len(writeCh) - n /\ Len(writeCh) \in Nat
        /\ \A i \in 1 .. n : batch'[i] = writeCh[i]
        /\ \A i \in 1 .. Len(writeCh) - n : writeCh'[i] = writeCh[i + n]
        /\ \A i \in 1 .. Len(writeCh) - n : i + n \in 1 .. Len(writeCh) /\ i + n > n
    <3>1. n \in 0 .. Len(writeCh) /\ Len(writeCh) \in Nat
      BY <1>1
    <3> QED BY <1>1, <2>1, <3>1, CutSeq
  <2>3. \A u : InBatch(u)' <=> \E i \in 1 .. n : writeCh[i] = u
    BY <2>2 DEF InBatch
  <2>4. put = {}
    BY <1>1, <2>1 DEF RequestsInv, InBatch
  <2>5. CommitEnded' = CommitEnded
    BY <2>1 DEF CommitEnded, Committed
  <2>6. \A i, j \in 1 .. Len(writeCh) : i # j => writeCh[i] # writeCh[j]
    BY <1>1 DEF RequestsInv
  <2>7. \A i \in 1 .. Len(writeCh') : ~ \E j \in 1 .. n : writeCh[j] = writeCh'[i]
    BY <2>2, <2>6
  <2>8. \A i, j \in 1 .. Len(writeCh') : i # j => writeCh'[i] # writeCh'[j]
    BY <2>2, <2>6
  <2>9. /\ \A i \in 1 .. Len(writeCh) : pc[writeCh[i]] = "sent" /\ reqState[writeCh[i]] = "queued"
        /\ \A u \in Txn : early(pc[u]) => reqState[u] = "none"
        /\ \A u \in CommitEnded : reqState[u] \in {"ok", "err"}
    BY <1>1 DEF RequestsInv
  <2>10. /\ \A i \in 1 .. Len(writeCh') : pc[writeCh'[i]] = "sent" /\ reqState[writeCh'[i]] = "queued"
         /\ \A u \in Txn : InBatch(u)' => pc[u] = "sent" /\ reqState[u] = "queued"
    <3>1. 1 .. n \subseteq 1 .. Len(writeCh)
      BY <2>2
    <3>2. \A u \in Txn : InBatch(u)' => pc[u] = "sent" /\ reqState[u] = "queued"
      BY <2>3, <2>9, <3>1
    <3> QED BY <2>2, <2>9, <3>2
  <2>11. \A i \in 1 .. Len(writeCh') : ~ InBatch(writeCh[i])'
    BY <2>3, <2>7
  <2> QED BY <2>1, <2>4, <2>5, <2>8, <2>9, <2>10, <2>11 DEF RequestsInv
<1>13. ASSUME NEW t \in Txn, NEW k \in Key, writeToLSM(t, k) PROVE RequestsInv'
  <2>1. /\ put' = put \cup {<<t, k>>} /\ InBatch(t)
        /\ UNCHANGED <<pc, commitTs, reqState, batch, writeCh>>
    BY <1>13 DEF writeToLSM, txnVars, InBatch
  <2>2. (\A u : InBatch(u)' <=> InBatch(u)) /\ CommitEnded' = CommitEnded
    BY <2>1 DEF InBatch, CommitEnded, Committed
  <2> QED BY <1>1, <2>1, <2>2 DEF RequestsInv
<1>14. ASSUME NEW r \in {"ok", "err"}, finishBatch(r) PROVE RequestsInv'
  <2>1. /\ reqState' = [t \in Txn |-> IF InBatch(t) THEN r ELSE reqState[t]]
        /\ batch' = <<>> /\ put' = {} /\ UNCHANGED <<pc, commitTs, writeCh>>
    BY <1>14 DEF finishBatch, txnVars
  <2>2. (\A u : ~ InBatch(u)') /\ CommitEnded' = CommitEnded /\ \A u \in CommitEnded : u \in Txn
    BY <2>1 DEF InBatch, CommitEnded, Committed
  <2>3. \A i \in 1 .. Len(writeCh) : writeCh[i] \in Txn /\ ~ InBatch(writeCh[i])
    BY <1>1 DEF RequestsInv
  <2>4. \A u \in Txn : ~ InBatch(u) => reqState'[u] = reqState[u]
    BY <2>1
  <2>5. \A u \in CommitEnded : ~ InBatch(u)
    BY <1>1, <2>2 DEF RequestsInv
  <2>6. \A u \in Txn : early(pc[u]) => ~ InBatch(u)
    BY <1>1 DEF RequestsInv
  <2> QED BY <1>1, <2>1, <2>2, <2>3, <2>4, <2>5, <2>6 DEF RequestsInv
<1>15. WriterStep => RequestsInv'
  BY <1>12, <1>13, <1>14 DEF WriterStep, writeRequestsOk, writeRequestsError
<1>16. CompactStep \/ processReadMark \/ processTxnMark => RequestsInv'
  <2>1. UNCHANGED <<writeVars, txnVars>> => RequestsInv'
    BY <1>2 DEF txnVars, CommitEnded, Committed
  <2> QED BY <2>1, CompactFrame DEF processReadMark, processTxnMark
<1> QED BY <1>3, <1>4, <1>5, <1>6, <1>7, <1>8, <1>9, <1>10, <1>11, <1>15, <1>16, NextCases

-----------------------------------------------------------------------------
(* What every step that commits nothing leaves alone: the write sets and the *)
(* read timestamps that matter, and the fact that a request failed.          *)
LEMMA StepFrame ==
  ASSUME StoreInv, Next
  PROVE  /\ \A u \in Committed : pendingWrites'[u] = pendingWrites[u]
         /\ \A u \in Txn : pc[u] # "idle" => readTs'[u] = readTs[u] /\ update'[u] = update[u]
         /\ \A u \in Txn : Failed(u) => Failed(u)'
<1>1. /\ pc \in [Txn -> {"idle", "begin", "wait", "active", "send", "sent", "discard", "done"}]
      /\ readTs \in [Txn -> TS] /\ update \in [Txn -> BOOLEAN]
      /\ pendingWrites \in [Txn -> SUBSET Key]
      /\ reqState \in [Txn -> {"none", "queued", "ok", "err"}]
      /\ PhaseInv /\ RequestsInv
  BY StoreFacts
<1> DEFINE A == \A u \in Committed : pendingWrites'[u] = pendingWrites[u]
           B == \A u \in Txn : pc[u] # "idle" => readTs'[u] = readTs[u] /\ update'[u] = update[u]
           C == \A u \in Txn : reqState[u] = "err" => reqState'[u] = "err"
<1>2. UNCHANGED <<readTs, update, pendingWrites, reqState>> => A /\ B /\ C
  OBVIOUS
<1>3. \A t \in Txn : \A upd \in BOOLEAN : NewTransaction(t, upd) => A /\ B /\ C
  BY <1>1 DEF NewTransaction, writeVars
<1>4. \A t \in Txn : WaitForMark(t) => A /\ B /\ C
  BY <1>2 DEF WaitForMark, writeVars
<1>5. \A t \in Txn : WaitOver(t) \/ CommitConflict(t) => A /\ B /\ C
  BY <1>2 DEF WaitOver, CommitConflict, writeVars
<1>6. \A t \in Txn : sendToWriteCh(t) => A /\ B /\ C
  BY <1>1 DEF sendToWriteCh, RequestsInv
<1>7. \A t \in Txn : \A k \in Key : Get(t, k) \/ Modify(t, k) => A /\ B /\ C
  BY <1>1 DEF Get, Modify, writeVars, Committed, PhaseInv
<1>8. \A t \in Txn : Discard(t) => A /\ B /\ C
  BY <1>2 DEF Discard, writeVars
<1>9. \A t \in Txn : newCommitTs(t) => A /\ B /\ C
  BY <1>2 DEF newCommitTs, writeVars
<1>10. \A t \in Txn : SendError(t) \/ doneCommit(t) => A /\ B /\ C
  BY <1>1 DEF SendError, doneCommit, writeVars
<1>11. WriterStep => A /\ B /\ C
  <2>1. WriterStep => A /\ B
    BY WriterFrame DEF txnVars
  <2>2. \A r : finishBatch(r) => C
    BY <1>1 DEF finishBatch, RequestsInv
  <2>3. WriterStep => C
    BY <1>2, <2>2 DEF WriterStep, doWrites, writeToLSM, writeRequestsOk, writeRequestsError, txnVars
  <2> QED BY <2>1, <2>3
<1>12. CompactStep \/ processReadMark \/ processTxnMark => A /\ B /\ C
  BY <1>2, CompactFrame DEF processReadMark, processTxnMark, txnVars, writeVars
<1> HIDE DEF A, B, C
<1>13. A /\ B /\ C
  BY <1>3, <1>4, <1>5, <1>6, <1>7, <1>8, <1>9, <1>10, <1>11, <1>12, NextCases
<1> QED BY <1>13 DEF A, B, C, Failed

(* The newest version of a set at or below ts: what db.get and compaction   *)
(* look for.                                                                *)
LEMMA MaxBelow ==
  ASSUME NEW S \in SUBSET TS, NEW ts \in TS
  PROVE  LET m == Max({v \in S : v <= ts} \cup {0})
         IN  /\ m \in TS /\ m <= ts /\ (m = 0 \/ m \in S)
             /\ \A u \in S : u <= ts => u <= m
<1> DEFINE T == {v \in S : v <= ts} \cup {0}
<1>1. T \subseteq TS /\ T # {} /\ 0 <= ts
  <2>1. 0 \in TS /\ 0 <= ts
    BY MaxTsAssumption DEF TS
  <2> QED BY <2>1
<1>2. Max(T) \in T /\ \A y \in T : y <= Max(T)
  <2> HIDE DEF T
  <2> QED BY <1>1, MaxOfTS
<1> QED BY <1>1, <1>2

(* An active transaction is running, and compaction stays below it.         *)
LEMMA ActiveAboveDiscard ==
  ASSUME StoreInv, NEW t \in Txn, pc[t] = "active"
  PROVE  t \notin Committed /\ ~ doneRead[t] /\ discardAtOrBelow <= readTs[t]
<1>1. PhaseInv /\ DiscardBelowReaders
  BY StoreFacts
<1> QED BY <1>1 DEF PhaseInv, DiscardBelowReaders, Reading, Committed

-----------------------------------------------------------------------------
(* What compaction keeps of a key is enough: every version it drops has a    *)
(* newer one at or below discardTs, which it keeps.                          *)
LEMMA KeptIsEnough ==
  ASSUME StoreInv, discardTs # NotRead, NEW k \in Key
  PROVE  /\ Kept(k) \subseteq lsm[k]
         /\ \A v \in lsm[k] : v \in Kept(k) \/ \E m \in Kept(k) : v < m /\ m <= discardTs
<1>1. lsm[k] \in SUBSET TS /\ discardTs \in TS
  BY StoreFacts
<1> DEFINE m == Max({u \in lsm[k] : u <= discardTs} \cup {0})
<1>2. /\ m \in TS /\ m <= discardTs /\ (m = 0 \/ m \in lsm[k])
      /\ \A u \in lsm[k] : u <= discardTs => u <= m
  BY <1>1, MaxBelow
<1>3. Kept(k) = {v \in lsm[k] : v > discardTs \/ v = m}
  BY DEF Kept
<1> HIDE DEF m
<1>4. ASSUME NEW v \in lsm[k], v \notin Kept(k)
      PROVE  \E x \in Kept(k) : v < x /\ x <= discardTs
  <2>1. v \in TS /\ v # m /\ v <= discardTs
    BY <1>1, <1>3, <1>4, TSOrder
  <2>2. v <= m
    BY <1>2, <2>1
  <2>3. v < m
    BY <1>2, <2>1, <2>2, TSOrder
  <2>4. m # 0
    BY <2>1, <2>3 DEF TS
  <2>5. m \in Kept(k)
    BY <1>2, <1>3, <2>4
  <2> QED BY <1>2, <2>3, <2>5
<1> QED BY <1>3, <1>4

(* The tree holds what readers need.                                        *)
LEMMA TreeNext == StoreInv /\ Next => TreeInv'
<1> SUFFICES ASSUME StoreInv, Next PROVE TreeInv'
  OBVIOUS
<1>1. /\ pc \in [Txn -> {"idle", "begin", "wait", "active", "send", "sent", "discard", "done"}]
      /\ commitTs \in [Txn -> TS] /\ pendingWrites \in [Txn -> SUBSET Key]
      /\ reqState \in [Txn -> {"none", "queued", "ok", "err"}]
      /\ lsm \in [Key -> SUBSET TS] /\ discardTs \in TS \cup {NotRead}
      /\ discardAtOrBelow \in TS
      /\ TreeInv /\ RequestsInv /\ PhaseInv
  BY StoreFacts
<1>2. /\ discardAtOrBelow <= discardAtOrBelow' /\ discardAtOrBelow' \in TS
      /\ \A v \in TS : v <= discardAtOrBelow => v <= discardAtOrBelow'
  <2>1. discardAtOrBelow <= discardAtOrBelow'
    BY DiscardGrows, StoreFacts
  <2>2. readMark' \in WaterMarkType
    BY TypeNext, StoreFacts DEF TypeOK
  <2>3. discardAtOrBelow' \in TS
    BY <2>2 DEF WaterMarkType, discardAtOrBelow
  <2> QED BY <1>1, <2>1, <2>3, TSOrder
<1>3. \A u \in Committed : pendingWrites'[u] = pendingWrites[u]
  BY StepFrame
<1> DEFINE T1 == \A k \in Key : \A v \in lsm'[k] :
                   v = 0 \/ \E u \in Committed' : k \in pendingWrites'[u] /\ commitTs'[u] = v
           T2 == \A u \in Committed' : \A k \in pendingWrites'[u] :
                   <<u, k>> \in put' \/ reqState'[u] = "ok" =>
                     \E v \in lsm'[k] :
                        v = commitTs'[u] \/ (commitTs'[u] < v /\ v <= discardAtOrBelow')
           T3 == discardTs' # NotRead => discardTs' <= discardAtOrBelow'
<1>4. T1 /\ T2 /\ T3 => TreeInv'
  BY DEF TreeInv
(* The old tree, seen with the new discard watermark.                        *)
<1>5. /\ \A k \in Key : \A v \in lsm[k] :
           v = 0 \/ \E u \in Committed : k \in pendingWrites[u] /\ commitTs[u] = v
      /\ \A u \in Committed : \A k \in pendingWrites[u] :
           <<u, k>> \in put \/ reqState[u] = "ok" =>
             \E v \in lsm[k] : v = commitTs[u] \/ (commitTs[u] < v /\ v <= discardAtOrBelow')
      /\ discardTs # NotRead => discardTs <= discardAtOrBelow'
  <2>1. \A u \in Committed : u \in Txn /\ pendingWrites[u] \subseteq Key
    BY <1>1 DEF Committed
  <2>2. discardTs # NotRead => discardTs <= discardAtOrBelow'
    BY <1>1, <1>2 DEF TreeInv
  <2>3. \A k \in Key : lsm[k] \subseteq TS
    BY <1>1
  <2> QED BY <1>1, <1>2, <2>1, <2>2, <2>3 DEF TreeInv
(* Steps that put nothing and finish nothing.                                *)
<1>6. ASSUME UNCHANGED <<lsm, discardTs, put>>, Committed' = Committed, commitTs' = commitTs,
             \A u \in Committed : reqState'[u] = "ok" => reqState[u] = "ok"
      PROVE  TreeInv'
  BY <1>3, <1>4, <1>5, <1>6
<1> HIDE DEF T1, T2, T3
<1>7. ASSUME NEW t \in Txn, newCommitTs(t) PROVE TreeInv'
  <2>1. /\ Committed' = Committed \cup {t} /\ t \notin Committed
        /\ \A u \in Committed : commitTs'[u] = commitTs[u]
    BY <1>7, NewCommit DEF Committed
  <2>2. UNCHANGED <<lsm, discardTs, put, reqState, pendingWrites>>
    BY <1>7 DEF newCommitTs, writeVars
  <2>3. reqState[t] # "ok" /\ \A k \in Key : <<t, k>> \notin put
    BY <1>1, <1>7 DEF newCommitTs, RequestsInv
  <2>4. T1
    BY <1>5, <2>1, <2>2 DEF T1
  <2>5. pendingWrites[t] \subseteq Key
    BY <1>1
  <2>6. T2
    BY <1>5, <2>1, <2>2, <2>3, <2>5 DEF T2
  <2>7. T3
    BY <1>5, <2>2 DEF T3
  <2> QED BY <1>4, <2>4, <2>6, <2>7
<1>8. ASSUME NEW t \in Txn, NEW k \in Key, writeToLSM(t, k) PROVE TreeInv'
  <2>1. /\ InBatch(t) /\ k \in pendingWrites[t]
        /\ put' = put \cup {<<t, k>>} /\ lsm' = [lsm EXCEPT ![k] = @ \cup {commitTs[t]}]
        /\ UNCHANGED <<commitTs, pendingWrites, reqState, discardTs>>
    BY <1>8 DEF writeToLSM, InBatch, txnVars
  <2>2. t \in Committed /\ Committed' = Committed
    BY <1>1, <2>1 DEF RequestsInv, PhaseInv, Committed
  <2>3. lsm'[k] = lsm[k] \cup {commitTs[t]} /\ \A j \in Key : j # k => lsm'[j] = lsm[j]
    BY <1>1, <2>1
  <2>4. T1
    BY <1>5, <2>1, <2>2, <2>3 DEF T1
  <2>5. \A u \in Committed : pendingWrites[u] \subseteq Key
    BY <1>1 DEF Committed
  <2>6. \A j \in Key : lsm[j] \subseteq lsm'[j]
    BY <2>3
  <2>7. ASSUME NEW u \in Committed, NEW j \in pendingWrites[u],
               <<u, j>> \in put' \/ reqState[u] = "ok"
        PROVE  \E v \in lsm'[j] : v = commitTs[u] \/ (commitTs[u] < v /\ v <= discardAtOrBelow')
    <3>1. CASE u = t /\ j = k
      BY <2>3, <3>1
    <3>2. CASE <<u, j>> \in put \/ reqState[u] = "ok"
      BY <1>5, <2>5, <2>6, <2>7, <3>2
    <3> QED BY <2>1, <2>7, <3>1, <3>2
  <2>8. T2
    BY <2>1, <2>2, <2>7 DEF T2
  <2>9. T3
    BY <1>5, <2>1 DEF T3
  <2> QED BY <1>4, <2>4, <2>8, <2>9
<1>9. ASSUME writeRequestsOk PROVE TreeInv'
  <2>1. /\ \A i \in 1 .. Len(batch) : Finished(batch[i])
        /\ reqState' = [t \in Txn |-> IF InBatch(t) THEN "ok" ELSE reqState[t]]
        /\ put' = {} /\ UNCHANGED <<commitTs, pendingWrites, lsm, discardTs>>
    BY <1>9 DEF writeRequestsOk, finishBatch, txnVars
  <2>2. Committed' = Committed /\ \A u \in Committed : u \in Txn
    BY <2>1 DEF Committed
  <2>3. \A u : InBatch(u) => \A k \in pendingWrites[u] : <<u, k>> \in put
    BY <2>1 DEF InBatch, Finished
  <2>4. \A u \in Committed : reqState'[u] = "ok" =>
          reqState[u] = "ok" \/ \A k \in pendingWrites[u] : <<u, k>> \in put
    BY <2>1, <2>2, <2>3
  <2>5. T1
    BY <1>5, <2>1, <2>2 DEF T1
  <2>6. T2
    <3>1. put' = {} /\ UNCHANGED <<commitTs, pendingWrites, lsm, discardTs>>
      BY <2>1
    <3>2. ASSUME NEW u \in Committed, NEW k \in pendingWrites[u], reqState'[u] = "ok"
          PROVE  \E v \in lsm[k] : v = commitTs[u] \/ (commitTs[u] < v /\ v <= discardAtOrBelow')
      <4>1. <<u, k>> \in put \/ reqState[u] = "ok"
        BY <2>4, <3>2
      <4> QED BY <1>5, <4>1
    <3> QED BY <2>2, <3>1, <3>2 DEF T2
  <2>7. T3
    BY <1>5, <2>1 DEF T3
  <2> QED BY <1>4, <2>5, <2>6, <2>7
<1>10. ASSUME writeRequestsError PROVE TreeInv'
  <2>1. /\ reqState' = [t \in Txn |-> IF InBatch(t) THEN "err" ELSE reqState[t]]
        /\ put' = {} /\ UNCHANGED <<commitTs, pendingWrites, lsm, discardTs>>
    BY <1>10 DEF writeRequestsError, finishBatch, txnVars
  <2>2. Committed' = Committed /\ \A u \in Committed : u \in Txn
    BY <2>1 DEF Committed
  <2>3. \A u \in Committed : reqState'[u] = "ok" => reqState[u] = "ok"
    BY <2>1, <2>2
  <2>4. T1
    BY <1>5, <2>1, <2>2 DEF T1
  <2>5. T2
    <3>1. put' = {} /\ UNCHANGED <<commitTs, pendingWrites, lsm, discardTs>>
      BY <2>1
    <3>2. ASSUME NEW u \in Committed, NEW k \in pendingWrites[u], reqState'[u] = "ok"
          PROVE  \E v \in lsm[k] : v = commitTs[u] \/ (commitTs[u] < v /\ v <= discardAtOrBelow')
      <4>1. <<u, k>> \in put \/ reqState[u] = "ok"
        BY <2>3, <3>2
      <4> QED BY <1>5, <4>1
    <3> QED BY <2>2, <3>1, <3>2 DEF T2
  <2>6. T3
    BY <1>5, <2>1 DEF T3
  <2> QED BY <1>4, <2>4, <2>5, <2>6
<1>11. ASSUME NEW n \in 1 .. Len(writeCh), doWrites(n) PROVE TreeInv'
  BY <1>6, <1>11 DEF doWrites, txnVars, Committed
<1>12. WriterStep => TreeInv'
  BY <1>8, <1>9, <1>10, <1>11 DEF WriterStep
<1>13. ASSUME compactStart PROVE TreeInv'
  <2>1. discardTs' = discardAtOrBelow /\ UNCHANGED <<commitTs, pendingWrites, reqState, put, lsm>>
    BY <1>13 DEF compactStart, txnVars, writeVars
  <2>2. Committed' = Committed
    BY <2>1 DEF Committed
  <2>3. T1
    BY <1>5, <2>1, <2>2 DEF T1
  <2>4. T2
    BY <1>5, <2>1, <2>2 DEF T2
  <2>5. T3
    BY <1>2, <2>1 DEF T3
  <2> QED BY <1>4, <2>3, <2>4, <2>5
<1>14. ASSUME NEW ks \in SUBSET Key, compactFinish(ks) PROVE TreeInv'
  <2>1. /\ discardTs # NotRead /\ discardTs' = NotRead
        /\ lsm' = [k \in Key |-> IF k \in ks THEN Kept(k) ELSE lsm[k]]
        /\ UNCHANGED <<commitTs, pendingWrites, reqState, put>>
    BY <1>14 DEF compactFinish, txnVars, writeVars
  <2>2. Committed' = Committed /\ \A u \in Committed : u \in Txn /\ pendingWrites[u] \subseteq Key
    BY <1>1, <2>1 DEF Committed
  <2>3. \A k \in Key : /\ lsm'[k] \subseteq lsm[k]
                       /\ \A v \in lsm[k] : v \in lsm'[k] \/ \E m \in lsm'[k] : v < m /\ m <= discardTs
    BY <2>1, KeptIsEnough
  <2>4. T1
    BY <1>5, <2>1, <2>2, <2>3 DEF T1
  <2>5. discardTs <= discardAtOrBelow' /\ discardTs \in TS /\ \A k \in Key : lsm[k] \subseteq TS
    BY <1>1, <1>5, <2>1
  <2>6. ASSUME NEW u \in Committed, NEW k \in pendingWrites[u],
               <<u, k>> \in put \/ reqState[u] = "ok"
        PROVE  \E v \in lsm'[k] : v = commitTs[u] \/ (commitTs[u] < v /\ v <= discardAtOrBelow')
    <3>1. k \in Key /\ commitTs[u] \in TS
      BY <1>1, <2>2
    <3>2. PICK v \in lsm[k] : v = commitTs[u] \/ (commitTs[u] < v /\ v <= discardAtOrBelow')
      BY <1>5, <2>6
    <3>3. CASE v \in lsm'[k]
      BY <3>2, <3>3
    <3>4. CASE v \notin lsm'[k]
      <4>1. PICK m \in lsm'[k] : v < m /\ m <= discardTs
        BY <2>3, <3>1, <3>4
      <4>2. m \in TS /\ v \in TS
        BY <2>3, <2>5, <3>1
      <4>3. commitTs[u] < m /\ m <= discardAtOrBelow'
        BY <1>2, <2>5, <3>1, <3>2, <4>1, <4>2, TSOrder
      <4> QED BY <4>3
    <3> QED BY <3>3, <3>4
  <2>7. T2
    BY <2>1, <2>2, <2>6 DEF T2
  <2>8. T3
    BY <2>1 DEF T3
  <2> QED BY <1>4, <2>4, <2>7, <2>8
<1>15. CompactStep => TreeInv'
  BY <1>13, <1>14 DEF CompactStep
<1>16. ASSUME NEW t \in Txn, NEW upd \in BOOLEAN, NewTransaction(t, upd) PROVE TreeInv'
  BY <1>6, <1>16 DEF NewTransaction, writeVars, Committed
<1>17. ASSUME NEW t \in Txn, WaitForMark(t) PROVE TreeInv'
  BY <1>6, <1>17 DEF WaitForMark, writeVars, Committed
<1>18. ASSUME NEW t \in Txn, WaitOver(t) \/ CommitConflict(t) \/ sendToWriteCh(t) PROVE TreeInv'
  <2>1. CASE sendToWriteCh(t)
    BY <1>1, <1>6, <2>1 DEF sendToWriteCh, Committed
  <2> QED BY <1>6, <1>18, <2>1 DEF WaitOver, CommitConflict, writeVars, Committed
<1>19. ASSUME NEW t \in Txn, NEW k \in Key, Get(t, k) \/ Modify(t, k) PROVE TreeInv'
  BY <1>6, <1>19 DEF Get, Modify, writeVars, Committed
<1>20. ASSUME NEW t \in Txn, Discard(t) PROVE TreeInv'
  BY <1>6, <1>20 DEF Discard, writeVars, Committed
<1>21. ASSUME NEW t \in Txn, SendError(t) \/ doneCommit(t) PROVE TreeInv'
  BY <1>1, <1>6, <1>21 DEF SendError, doneCommit, writeVars, Committed
<1>22. processReadMark \/ processTxnMark => TreeInv'
  BY <1>6 DEF processReadMark, processTxnMark, txnVars, writeVars, Committed
<1> QED BY <1>7, <1>12, <1>15, <1>16, <1>17, <1>18, <1>19, <1>20, <1>21, <1>22, NextCases

-----------------------------------------------------------------------------
(* What db.get answers to an active transaction: the version of a commit at *)
(* or below its readTs, or none, and not older than any such commit that    *)
(* was acknowledged.                                                        *)
LEMMA VisibleIsSnapshot ==
  ASSUME StoreInv, NEW t \in Txn, NEW k \in Key, pc[t] = "active"
  PROVE  LET v == Visible(k, readTs[t])
         IN  /\ v \in TS /\ v <= readTs[t]
             /\ v = 0 \/ \E u \in Committed : k \in pendingWrites[u] /\ commitTs[u] = v
             /\ \A u \in Committed : k \in pendingWrites[u] /\ commitTs[u] <= readTs[t] /\ ~ Failed(u)
                  => commitTs[u] <= v
<1>1. /\ lsm[k] \in SUBSET TS /\ readTs[t] \in TS /\ TreeInv /\ RequestsInv
      /\ commitTs \in [Txn -> TS] /\ discardAtOrBelow \in TS
  BY StoreFacts
<1> DEFINE v == Visible(k, readTs[t])
<1>2. /\ v \in TS /\ v <= readTs[t] /\ (v = 0 \/ v \in lsm[k])
      /\ \A x \in lsm[k] : x <= readTs[t] => x <= v
  BY <1>1, MaxBelow DEF Visible
<1> HIDE DEF v
<1>3. v = 0 \/ \E u \in Committed : k \in pendingWrites[u] /\ commitTs[u] = v
  BY <1>1, <1>2 DEF TreeInv
<1>4. ASSUME NEW u \in Committed, k \in pendingWrites[u], commitTs[u] <= readTs[t], ~ Failed(u)
      PROVE  commitTs[u] <= v
  <2>1. reqState[u] = "ok"
    BY <1>1, <1>4, ActiveSeesDecided DEF RequestsInv, Failed
  <2>2. PICK x \in lsm[k] : x = commitTs[u] \/ (commitTs[u] < x /\ x <= discardAtOrBelow)
    BY <1>1, <1>4, <2>1 DEF TreeInv
  <2>3. /\ x \in TS /\ commitTs[u] \in TS /\ commitTs[u] <= x /\ x <= readTs[t]
    <3>1. x \in TS /\ commitTs[u] \in TS /\ discardAtOrBelow <= readTs[t]
      BY <1>1, ActiveAboveDiscard DEF Committed
    <3> QED BY <1>1, <1>4, <2>2, <3>1, TSOrder
  <2>4. x <= v
    BY <1>2, <2>3
  <2> QED BY <1>2, <2>3, <2>4, TSOrder
<1> QED BY <1>2, <1>3, <1>4 DEF v

(* What a transaction has read stays a read of its snapshot.                 *)
LEMMA SnapshotReadNext == StoreInv /\ Next => SnapshotRead'
<1> SUFFICES ASSUME StoreInv, Next PROVE SnapshotRead'
  OBVIOUS
<1>1. /\ seen \in [Txn -> [Key -> TS \cup {NotRead}]] /\ SnapshotRead /\ CallsInv
      /\ readTs \in [Txn -> TS] /\ commitTs \in [Txn -> TS] /\ nextTxnTs \in 1 .. MaxTs + 1
  BY StoreFacts
<1>2. /\ \A u \in Committed : pendingWrites'[u] = pendingWrites[u] /\ u \in Txn
      /\ \A t \in Txn, k \in Key : seen[t][k] # NotRead => readTs'[t] = readTs[t]
      /\ \A u \in Txn : Failed(u) => Failed(u)'
  <2>1. \A t \in Txn, k \in Key : seen[t][k] # NotRead => pc[t] # "idle"
    BY <1>1 DEF CallsInv
  <2> QED BY <2>1, StepFrame DEF Committed
<1> DEFINE Read(t, k, v) ==
             /\ v = 0 \/ \E u \in Committed : /\ k \in pendingWrites[u] /\ commitTs[u] <= readTs[t]
                                              /\ commitTs[u] = v
             /\ \A u \in Committed : k \in pendingWrites[u] /\ commitTs[u] <= readTs[t] /\ ~ Failed(u)
                  => commitTs[u] <= v
           ReadAfter(t, k, v) ==
             /\ v = 0 \/ \E u \in Committed' : /\ k \in pendingWrites'[u] /\ commitTs'[u] <= readTs'[t]
                                               /\ commitTs'[u] = v
             /\ \A u \in Committed' : k \in pendingWrites'[u] /\ commitTs'[u] <= readTs'[t] /\ ~ Failed(u)'
                  => commitTs'[u] <= v
<1>3. \A t \in Txn, k \in Key : seen[t][k] # NotRead => Read(t, k, seen[t][k])
  BY <1>1 DEF SnapshotRead, CommittedVersions
<1>4. (\A t \in Txn, k \in Key : seen'[t][k] # NotRead => ReadAfter(t, k, seen'[t][k])) => SnapshotRead'
  BY DEF SnapshotRead, CommittedVersions
(* Steps that do not commit keep every reading.                              *)
<1>5. ASSUME Committed' = Committed, commitTs' = commitTs,
             NEW t \in Txn, NEW k \in Key, NEW v, readTs'[t] = readTs[t], Read(t, k, v)
      PROVE  ReadAfter(t, k, v)
  BY <1>2, <1>5
<1> HIDE DEF Read, ReadAfter
<1>6. ASSUME NEW t \in Txn, NEW k \in Key, Get(t, k) PROVE SnapshotRead'
  <2>1. /\ pc[t] = "active" /\ UNCHANGED <<readTs, commitTs>>
        /\ seen' = [seen EXCEPT ![t][k] = Visible(k, readTs[t])]
    BY <1>6 DEF Get
  <2>2. Committed' = Committed
    BY <2>1 DEF Committed
  <2>3. Read(t, k, Visible(k, readTs[t]))
    BY <2>1, VisibleIsSnapshot DEF Read
  <2>4. /\ seen'[t][k] = Visible(k, readTs[t])
        /\ \A u \in Txn, j \in Key : u # t \/ j # k => seen'[u][j] = seen[u][j]
    BY <1>1, <2>1
  <2>5. \A u \in Txn, j \in Key : seen'[u][j] # NotRead => Read(u, j, seen'[u][j])
    BY <1>3, <2>3, <2>4
  <2> QED BY <1>4, <1>5, <2>1, <2>2, <2>5
<1>7. ASSUME seen' = seen, Committed' = Committed, commitTs' = commitTs PROVE SnapshotRead'
  BY <1>2, <1>3, <1>4, <1>5, <1>7
<1>8. ASSUME NEW t \in Txn, newCommitTs(t) PROVE SnapshotRead'
  <2>1. seen' = seen /\ readTs' = readTs
    BY <1>8 DEF newCommitTs
  <2>2. /\ Committed' = Committed \cup {t} /\ t \notin Committed /\ commitTs'[t] = nextTxnTs
        /\ \A u \in Committed : commitTs'[u] = commitTs[u]
        /\ \A u \in Txn : readTs[u] < nextTxnTs
    BY <1>8, NewCommit DEF Committed
  <2>3. \A u \in Txn : ~ (commitTs'[t] <= readTs'[u])
    BY <1>1, <2>1, <2>2, MaxTsAssumption DEF TS
  <2>4. ASSUME NEW u \in Txn, NEW k \in Key, seen[u][k] # NotRead PROVE ReadAfter(u, k, seen[u][k])
    BY <1>2, <1>3, <2>1, <2>2, <2>3, <2>4 DEF Read, ReadAfter
  <2> QED BY <1>4, <2>1, <2>4
<1>9. ASSUME \A t \in Txn : ~ newCommitTs(t), \A t \in Txn, k \in Key : ~ Get(t, k)
      PROVE  SnapshotRead'
  <2>1. seen' = seen
    <3>1. \A t \in Txn : \A upd \in BOOLEAN : NewTransaction(t, upd) => seen' = seen
      BY DEF NewTransaction
    <3>2. \A t \in Txn : WaitForMark(t) => seen' = seen
      BY DEF WaitForMark
    <3>3. \A t \in Txn : WaitOver(t) \/ CommitConflict(t) \/ sendToWriteCh(t) => seen' = seen
      BY DEF WaitOver, CommitConflict, sendToWriteCh
    <3>4. \A t \in Txn : \A k \in Key : Get(t, k) \/ Modify(t, k) => seen' = seen
      BY <1>9 DEF Modify
    <3>5. \A t \in Txn : Discard(t) \/ newCommitTs(t) => seen' = seen
      BY DEF Discard, newCommitTs
    <3>6. \A t \in Txn : SendError(t) \/ doneCommit(t) => seen' = seen
      BY DEF SendError, doneCommit
    <3>7. WriterStep \/ CompactStep \/ processReadMark \/ processTxnMark => seen' = seen
      BY WriterFrame, CompactFrame DEF processReadMark, processTxnMark, txnVars
    <3> QED BY <3>1, <3>2, <3>3, <3>4, <3>5, <3>6, <3>7, NextCases
  <2> QED BY <1>7, <1>9, <2>1, CommitTsFrame
<1> QED BY <1>6, <1>8, <1>9

-----------------------------------------------------------------------------
(* What newCommitTs checked: nothing the transaction read was written by a   *)
(* commit after its snapshot.                                                *)
LEMMA NoConflictMeansCurrent ==
  ASSUME StoreInv, DetectConflicts, NEW t \in Txn, newCommitTs(t),
         NEW k \in Key, seen[t][k] # NotRead, NEW u \in Committed, k \in pendingWrites[u]
  PROVE  commitTs[u] <= readTs[t]
<1>1. /\ readTs \in [Txn -> TS] /\ commitTs \in [Txn -> TS] /\ u \in Txn
      /\ pc \in [Txn -> {"idle", "begin", "wait", "active", "send", "sent", "discard", "done"}]
      /\ CallsInv /\ ConflictInfoKept
  BY StoreFacts DEF Committed
<1>2. Reading(t)
  BY ActiveAboveDiscard DEF newCommitTs, Reading
<1>3. Fp[k] \in reads[t] /\ Fp[k] \in conflictKeys(u)
  BY <1>1 DEF newCommitTs, CallsInv, conflictKeys
<1>4. commitTs[u] > readTs[t] =>
        [ts |-> commitTs[u], conflictKeys |-> conflictKeys(u)] \in committedTxns
  BY <1>1, <1>2 DEF ConflictInfoKept
<1>5. \A c \in committedTxns : c.ts > readTs[t] => reads[t] \cap c.conflictKeys = {}
  BY DEF newCommitTs, hasConflict
<1>6. ~ (commitTs[u] > readTs[t])
  <2> SUFFICES ASSUME commitTs[u] > readTs[t] PROVE FALSE
    OBVIOUS
  <2> DEFINE c == [ts |-> commitTs[u], conflictKeys |-> conflictKeys(u)]
  <2>1. c \in committedTxns /\ c.ts = commitTs[u] /\ c.conflictKeys = conflictKeys(u)
    BY <1>4
  <2> HIDE DEF c
  <2>2. reads[t] \cap conflictKeys(u) = {}
    BY <1>5, <2>1
  <2> QED BY <1>3, <2>2
<1> QED BY <1>1, <1>6, TSOrder

(* The conflict check is enough: what a committed transaction read stays     *)
(* unwritten between its snapshot and its commit.                            *)
LEMMA ReadsCurrentNext == StoreInv /\ Next => ReadsCurrent'
<1> SUFFICES ASSUME StoreInv, Next, DetectConflicts PROVE ReadsCurrent'
  BY DEF ReadsCurrent
<1>1. /\ seen \in [Txn -> [Key -> TS \cup {NotRead}]] /\ ReadsCurrent /\ PhaseInv
      /\ readTs \in [Txn -> TS] /\ commitTs \in [Txn -> TS] /\ nextTxnTs \in 1 .. MaxTs + 1
  BY StoreFacts
<1>2. /\ \A u \in Committed : /\ pendingWrites'[u] = pendingWrites[u] /\ u \in Txn
                              /\ readTs'[u] = readTs[u]
  BY <1>1, StepFrame DEF Committed, PhaseInv
<1>3. ASSUME NEW t \in Txn, newCommitTs(t) PROVE ReadsCurrent'
  <2>1. seen' = seen /\ readTs' = readTs /\ pendingWrites' = pendingWrites
    BY <1>3 DEF newCommitTs
  <2>2. /\ Committed' = Committed \cup {t} /\ t \notin Committed /\ commitTs'[t] = nextTxnTs
        /\ \A u \in Committed : commitTs'[u] = commitTs[u] /\ commitTs[u] < nextTxnTs /\ commitTs[u] \in TS
        /\ nextTxnTs \in TS
    BY <1>1, <1>3, NewCommit DEF Committed
  <2>3. \A k \in Key : seen[t][k] # NotRead =>
          \A u \in Committed : k \in pendingWrites[u] => commitTs[u] <= readTs[t]
    BY <1>3, NoConflictMeansCurrent
  <2>4. ASSUME NEW x \in Committed', NEW k \in Key, seen[x][k] # NotRead,
               NEW u \in Committed', k \in pendingWrites[u], commitTs'[u] < commitTs'[x]
        PROVE  commitTs'[u] <= readTs[x]
    <3>1. CASE x = t
      <4>1. u \in Committed
        BY <2>2, <2>4, <3>1, TSOrder
      <4> QED BY <2>2, <2>3, <2>4, <3>1, <4>1
    <3>2. CASE x \in Committed
      <4>1. u \in Committed
        BY <2>2, <2>4, <3>2, TSOrder
      <4> QED BY <1>1, <2>2, <2>4, <3>2, <4>1 DEF ReadsCurrent
    <3> QED BY <2>2, <3>1, <3>2
  <2> QED BY <2>1, <2>4 DEF ReadsCurrent
<1>4. ASSUME \A t \in Txn : ~ newCommitTs(t) PROVE ReadsCurrent'
  <2>1. commitTs' = commitTs /\ Committed' = Committed
    BY <1>4, CommitTsFrame
  <2>2. \A u \in Committed, k \in Key : seen'[u][k] = seen[u][k]
    <3> DEFINE Same == \A u \in Committed, k \in Key : seen'[u][k] = seen[u][k]
    <3>1. \A t \in Txn : \A upd \in BOOLEAN : NewTransaction(t, upd) => Same
      BY DEF NewTransaction
    <3>2. \A t \in Txn : WaitForMark(t) => Same
      BY DEF WaitForMark
    <3>3. \A t \in Txn : WaitOver(t) \/ CommitConflict(t) \/ sendToWriteCh(t) => Same
      BY DEF WaitOver, CommitConflict, sendToWriteCh
    <3>4. ASSUME NEW t \in Txn, NEW k \in Key, Get(t, k) \/ Modify(t, k) PROVE Same
      <4>1. CASE Get(t, k)
        <5>1. t \notin Committed
          BY <4>1, ActiveAboveDiscard DEF Get
        <5>2. seen' = [seen EXCEPT ![t][k] = Visible(k, readTs[t])]
          BY <4>1 DEF Get
        <5> QED BY <1>1, <1>2, <5>1, <5>2
      <4> QED BY <3>4, <4>1 DEF Modify
    <3>5. \A t \in Txn : Discard(t) \/ newCommitTs(t) => Same
      BY DEF Discard, newCommitTs
    <3>6. \A t \in Txn : SendError(t) \/ doneCommit(t) => Same
      BY DEF SendError, doneCommit
    <3>7. WriterStep \/ CompactStep \/ processReadMark \/ processTxnMark => Same
      BY WriterFrame, CompactFrame DEF processReadMark, processTxnMark, txnVars
    <3> HIDE DEF Same
    <3>8. Same
      BY <3>1, <3>2, <3>3, <3>4, <3>5, <3>6, <3>7, NextCases
    <3> QED BY <3>8 DEF Same
  <2> QED BY <1>1, <1>2, <2>1, <2>2 DEF ReadsCurrent
<1> QED BY <1>3, <1>4

-----------------------------------------------------------------------------
(* The invariant holds when the database has been opened.                   *)
LEMMA InitStoreInv == Init => StoreInv
<1> SUFFICES ASSUME Init PROVE StoreInv
  OBVIOUS
<1>1. Committed = {} /\ CommitEnded = {} /\ Began = {} /\ nextTxnTs = 1
  BY DEF Init, Committed, CommitEnded, Began
<1>2. OracleInv
  BY InitInv
<1>3. TimestampsInv
  BY <1>1 DEF TimestampsInv
<1>4. SnapshotsReadyInv
  <2>1. txnMark.markCh = <<>> /\ txnMark.waiters = {} /\ txnMark.closed = {}
    BY DEF Init, NewWaterMark
  <2>2. StrictInv(txnMark, commitTs, Committed, CommitEnded)
    BY <1>1, <2>1 DEF StrictInv, Held
  <2>3. WaitersInv(txnMark, readTs, Began)
    BY <1>1, <2>1 DEF WaitersInv, InCh
  <2>4. \A t \in Txn : pc[t] # "active"
    BY DEF Init
  <2> QED BY <2>2, <2>3, <2>4 DEF SnapshotsReadyInv
<1>5. CallsInv
  BY DEF Init, CallsInv
<1>6. RequestsInv
  BY <1>1 DEF Init, RequestsInv, InBatch
<1>7. TreeInv
  BY <1>1 DEF Init, TreeInv
<1>8. SnapshotRead /\ ReadsCurrent
  BY <1>1 DEF Init, SnapshotRead, ReadsCurrent
<1> QED BY <1>2, <1>3, <1>4, <1>5, <1>6, <1>7, <1>8 DEF StoreInv

(* StoreInv is inductive.                                                    *)
LEMMA StoreInvNext == StoreInv /\ [Next]_vars => StoreInv'
<1> SUFFICES ASSUME StoreInv, [Next]_vars PROVE StoreInv'
  OBVIOUS
<1>1. OracleInv'
  BY OracleInvNext DEF StoreInv
<1>2. CASE Next
  BY <1>1, <1>2, TimestampsNext, SnapshotsReadyNext, CallsNext, RequestsNext, TreeNext,
     SnapshotReadNext, ReadsCurrentNext DEF StoreInv
<1>3. CASE UNCHANGED vars
  <2>1. /\ nextTxnTs' = nextTxnTs /\ readMark' = readMark /\ txnMark' = txnMark
        /\ pc' = pc /\ update' = update /\ readTs' = readTs /\ commitTs' = commitTs
        /\ reads' = reads /\ pendingWrites' = pendingWrites /\ seen' = seen
        /\ writeCh' = writeCh /\ batch' = batch /\ put' = put /\ reqState' = reqState
        /\ lsm' = lsm /\ discardTs' = discardTs
    BY <1>3 DEF vars, oracleVars, txnVars, writeVars
  <2>2. /\ Committed' = Committed /\ CommitEnded' = CommitEnded /\ Began' = Began
        /\ \A t : InBatch(t)' <=> InBatch(t)
        /\ \A t : Failed(t)' <=> Failed(t)
    BY <2>1 DEF Committed, CommitEnded, Began, InBatch, Failed
  <2>3. TimestampsInv' /\ CallsInv' /\ ReadsCurrent'
    BY <2>1, <2>2 DEF StoreInv, TimestampsInv, CallsInv, ReadsCurrent
  <2>4. SnapshotsReadyInv'
    BY <2>1, <2>2 DEF StoreInv, SnapshotsReadyInv
  <2>5. RequestsInv'
    BY <2>1, <2>2 DEF StoreInv, RequestsInv
  <2>6. TreeInv'
    BY <2>1, <2>2 DEF StoreInv, TreeInv, discardAtOrBelow
  <2>7. SnapshotRead'
    BY <2>1, <2>2 DEF StoreInv, SnapshotRead, CommittedVersions
  <2> QED BY <1>1, <2>3, <2>4, <2>5, <2>6, <2>7 DEF StoreInv
<1> QED BY <1>2, <1>3

(* The oracle, the transactions, the write channel and compaction keep       *)
(* together what SnapshotRead and Serializable need, for any number of       *)
(* transactions, keys and timestamps (txn.go, db.go doWrites, levels.go).    *)
THEOREM StoreInvariant == Spec => []StoreInv
BY InitStoreInv, StoreInvNext, PTL DEF Spec

(* Txn.Get returns the newest version at or below readTs of a commit that    *)
(* did not fail: NewTransaction waited for those commits, and compaction     *)
(* never drops a version a running transaction needs.                        *)
THEOREM ReadsAreSnapshots == Spec => []SnapshotRead
<1>1. StoreInv => SnapshotRead
  BY DEF StoreInv
<1> QED BY <1>1, StoreInvariant, PTL

(* Serializable snapshot isolation, the promise of NewTransaction: with      *)
(* conflict detection, what a committed transaction read is still current at *)
(* its commit timestamp, so the order of commit timestamps is serial.        *)
THEOREM CommitsAreSerializable == Spec => []Serializable
<1>1. StoreInv => Serializable
  <2> SUFFICES ASSUME StoreInv, DetectConflicts,
                      NEW t \in Committed, NEW k \in Key, seen[t][k] # NotRead,
                      NEW u \in Committed, k \in pendingWrites[u], commitTs[u] < commitTs[t], ~ Failed(u)
               PROVE  commitTs[u] <= seen[t][k]
    BY DEF Serializable
  <2>1. commitTs[u] <= readTs[t]
    BY StoreFacts DEF ReadsCurrent
  <2>2. t \in Txn
    BY DEF Committed
  <2> QED BY <2>1, <2>2, StoreFacts DEF SnapshotRead
<1> QED BY <1>1, StoreInvariant, PTL

-----------------------------------------------------------------------------
(* Neither a write nor a compaction changes what an active transaction can   *)
(* read.                                                                     *)
LEMMA SnapshotStableNext ==
  ASSUME StoreInv, Next, NEW t \in Txn, NEW k \in Key, pc[t] = "active", pc'[t] = "active"
  PROVE  Visible(k, readTs[t])' = Visible(k, readTs[t])
<1>1. /\ readTs[t] \in TS /\ readTs'[t] = readTs[t] /\ lsm \in [Key -> SUBSET TS]
      /\ commitTs \in [Txn -> TS] /\ discardAtOrBelow \in TS /\ txnMark.doneUntil \in TS
      /\ discardTs \in TS \cup {NotRead}
      /\ TreeInv /\ RequestsInv /\ PhaseInv /\ readTs[t] <= txnMark.doneUntil
  BY StoreFacts, StepFrame DEF SnapshotsReadyInv
<1> DEFINE G == Visible(k, readTs[t])' = Visible(k, readTs[t])
<1>2. {v \in lsm'[k] : v <= readTs[t]} = {v \in lsm[k] : v <= readTs[t]} => G
  BY <1>1 DEF Visible
<1>3. lsm' = lsm => G
  BY <1>1 DEF Visible
<1> HIDE DEF G
<1>4. ASSUME NEW u \in Txn, NEW j \in Key, writeToLSM(u, j) PROVE G
  <2>1. InBatch(u) /\ lsm' = [lsm EXCEPT ![j] = @ \cup {commitTs[u]}]
    BY <1>4 DEF writeToLSM, InBatch
  <2>2. u \in Committed /\ u \notin CommitEnded
    BY <1>1, <2>1 DEF RequestsInv, PhaseInv, Committed, CommitEnded
  <2>3. readTs[t] < commitTs[u] /\ commitTs[u] \in TS
    BY <1>1, <2>2, UndecidedAbove, TSOrder
  <2>4. ~ (commitTs[u] <= readTs[t])
    BY <1>1, <2>3, MaxTsAssumption DEF TS
  <2>5. lsm'[k] = lsm[k] \/ lsm'[k] = lsm[k] \cup {commitTs[u]}
    BY <1>1, <2>1
  <2> QED BY <1>2, <2>4, <2>5
<1>5. ASSUME NEW ks \in SUBSET Key, compactFinish(ks) PROVE G
  <2>1. discardTs # NotRead /\ lsm' = [j \in Key |-> IF j \in ks THEN Kept(j) ELSE lsm[j]]
    BY <1>5 DEF compactFinish
  <2>2. /\ lsm'[k] \subseteq lsm[k]
        /\ \A v \in lsm[k] : v \in lsm'[k] \/ \E m \in lsm'[k] : v < m /\ m <= discardTs
    BY <2>1, KeptIsEnough
  <2>3. discardTs \in TS /\ discardTs <= readTs[t]
    BY <1>1, <2>1, ActiveAboveDiscard, TSOrder DEF TreeInv
  <2> DEFINE v1 == Visible(k, readTs[t])
             v2 == Max({v \in lsm'[k] : v <= readTs[t]} \cup {0})
  <2>4. /\ v1 \in TS /\ v1 <= readTs[t] /\ (v1 = 0 \/ v1 \in lsm[k])
        /\ \A x \in lsm[k] : x <= readTs[t] => x <= v1
    BY <1>1, MaxBelow DEF Visible
  <2>5. /\ v2 \in TS /\ v2 <= readTs[t] /\ (v2 = 0 \/ v2 \in lsm'[k])
        /\ \A x \in lsm'[k] : x <= readTs[t] => x <= v2
    <3>1. lsm'[k] \in SUBSET TS
      BY <1>1, <2>2
    <3> QED BY <1>1, <3>1, MaxBelow
  <2>6. Visible(k, readTs[t])' = v2
    BY <1>1 DEF Visible
  <2> HIDE DEF v1, v2
  <2>7. v2 <= v1
    BY <2>2, <2>4, <2>5 DEF TS
  <2>8. v1 <= v2
    <3>1. CASE v1 = 0
      BY <2>5, <3>1 DEF TS
    <3>2. CASE v1 \in lsm'[k]
      BY <2>4, <2>5, <3>2
    <3>3. ASSUME v1 \in lsm[k], v1 \notin lsm'[k] PROVE FALSE
      <4>1. PICK m \in lsm'[k] : v1 < m /\ m <= discardTs
        BY <2>2, <3>3
      <4>2. m \in TS /\ m \in lsm[k]
        BY <1>1, <2>2
      <4>3. m <= v1
        BY <1>1, <2>3, <2>4, <4>1, <4>2, TSOrder
      <4> QED BY <2>4, <4>1, <4>2, <4>3, MaxTsAssumption DEF TS
    <3> QED BY <2>4, <3>1, <3>2, <3>3
  <2>9. v1 = v2
    BY <2>4, <2>5, <2>7, <2>8, TSOrder
  <2> QED BY <2>6, <2>9 DEF G, v1
<1>6. WriterStep => G
  BY <1>3, <1>4 DEF WriterStep, doWrites, writeRequestsOk, writeRequestsError, finishBatch
<1>7. CompactStep => G
  BY <1>3, <1>5 DEF CompactStep, compactStart
<1>8. \A u \in Txn : \A upd \in BOOLEAN : NewTransaction(u, upd) => G
  BY <1>3 DEF NewTransaction
<1>9. \A u \in Txn : WaitForMark(u) => G
  BY <1>3 DEF WaitForMark
<1>10. \A u \in Txn : WaitOver(u) \/ CommitConflict(u) \/ sendToWriteCh(u) => G
  BY <1>3 DEF WaitOver, CommitConflict, sendToWriteCh
<1>11. \A u \in Txn : \A j \in Key : Get(u, j) \/ Modify(u, j) => G
  BY <1>3 DEF Get, Modify
<1>12. \A u \in Txn : Discard(u) \/ newCommitTs(u) => G
  BY <1>3 DEF Discard, newCommitTs
<1>13. \A u \in Txn : SendError(u) \/ doneCommit(u) => G
  BY <1>3 DEF SendError, doneCommit
<1>14. processReadMark \/ processTxnMark => G
  BY <1>3 DEF processReadMark, processTxnMark
<1>15. G
  BY <1>6, <1>7, <1>8, <1>9, <1>10, <1>11, <1>12, <1>13, <1>14, NextCases
<1> QED BY <1>15 DEF G

(* A snapshot is stable: the version db.get finds for an active transaction  *)
(* does not change while writers put entries and compaction drops versions.  *)
THEOREM SnapshotsAreStable == Spec => SnapshotStable
<1> DEFINE A == \A t \in Txn, k \in Key :
                  pc[t] = "active" /\ pc'[t] = "active" =>
                    Visible(k, readTs[t])' = Visible(k, readTs[t])
<1>1. StoreInv /\ [Next]_vars => [A]_vars
  BY SnapshotStableNext
<1>2. Spec => [][A]_vars
  <2> HIDE DEF A
  <2> QED BY <1>1, StoreInvariant, PTL DEF Spec
<1> QED BY <1>2 DEF SnapshotStable

-----------------------------------------------------------------------------
(* The refinement mapping.  A commit timestamp determines its transaction,   *)
(* and every position of the abstract log has one.                           *)
LEMMA CommitterUnique ==
  ASSUME NEW c, NEW i, NEW u \in Txn, c[u] = i, \A v \in Txn : c[v] = i => v = u
  PROVE  (CHOOSE t \in Txn : c[t] = i) = u
OBVIOUS

LEMMA CommitterFacts ==
  ASSUME StoreInv
  PROVE  /\ \A i \in 1 .. nextTxnTs - 1 : Committer(i) \in Committed /\ commitTs[Committer(i)] = i
         /\ \A u \in Committed : Committer(commitTs[u]) = u /\ commitTs[u] \in 1 .. nextTxnTs - 1
<1>1. TimestampsInv /\ PhaseInv /\ commitTs \in [Txn -> TS] /\ nextTxnTs \in 1 .. MaxTs + 1
  BY StoreFacts
<1>2. \A u \in Committed : commitTs[u] \in 1 .. nextTxnTs - 1 /\ u \in Txn /\ commitTs[u] # 0
  BY <1>1, MaxTsAssumption DEF Committed, PhaseInv, TS
<1>3. ASSUME NEW u \in Committed PROVE Committer(commitTs[u]) = u
  <2>1. \A v \in Txn : commitTs[v] = commitTs[u] => v = u
    BY <1>1, <1>2 DEF TimestampsInv, Committed
  <2> QED BY <1>2, <2>1, CommitterUnique DEF Committer
<1>4. \A i \in 1 .. nextTxnTs - 1 : Committer(i) \in Committed /\ commitTs[Committer(i)] = i
  BY <1>1, <1>3 DEF TimestampsInv
<1> QED BY <1>2, <1>3, <1>4

(* The abstract log, entry by entry.                                         *)
LEMMA LogFacts ==
  ASSUME StoreInv
  PROVE  /\ nextTxnTs \in Nat /\ DOMAIN AbsLog = 1 .. nextTxnTs - 1 /\ Len(AbsLog) = nextTxnTs - 1
         /\ \A u \in Committed : /\ commitTs[u] \in 1 .. nextTxnTs - 1
                                 /\ AbsLog[commitTs[u]].writes = pendingWrites[u]
                                 /\ AbsLog[commitTs[u]].state = OutcomeOf(u)
         /\ \A i \in 1 .. nextTxnTs - 1 : \E u \in Committed : commitTs[u] = i
<1>1. nextTxnTs \in 1 .. MaxTs + 1
  BY StoreFacts
<1>2. nextTxnTs - 1 \in Nat /\ nextTxnTs \in Nat
  BY <1>1, MaxTsAssumption
<1>3. DOMAIN AbsLog = 1 .. nextTxnTs - 1 /\ Len(AbsLog) = nextTxnTs - 1
  BY <1>2 DEF AbsLog
<1>4. ASSUME NEW u \in Committed
      PROVE  /\ commitTs[u] \in 1 .. nextTxnTs - 1
             /\ AbsLog[commitTs[u]].writes = pendingWrites[u]
             /\ AbsLog[commitTs[u]].state = OutcomeOf(u)
  <2>1. commitTs[u] \in 1 .. nextTxnTs - 1 /\ Committer(commitTs[u]) = u
    BY CommitterFacts
  <2>2. AbsLog[commitTs[u]] = [writes |-> pendingWrites[u], state |-> OutcomeOf(u)]
    BY <2>1 DEF AbsLog
  <2> QED BY <2>1, <2>2
<1>5. \A i \in 1 .. nextTxnTs - 1 : \E u \in Committed : commitTs[u] = i
  BY CommitterFacts
<1> QED BY <1>2, <1>3, <1>4, <1>5

(* A decided commit is one that has been marked done in txnMark.             *)
LEMMA OutcomeFacts ==
  ASSUME StoreInv, NEW u \in Committed
  PROVE  /\ u \in CommitEnded <=> OutcomeOf(u) # "pending"
         /\ u \in CommitEnded => (OutcomeOf(u) = "done" <=> ~ Failed(u))
         /\ pc[u] \in {"send", "sent", "discard", "done"}
<1>1. /\ pc \in [Txn -> {"idle", "begin", "wait", "active", "send", "sent", "discard", "done"}]
      /\ PhaseInv /\ u \in Txn
  BY StoreFacts DEF Committed
<1> QED BY <1>1 DEF PhaseInv, Committed, CommitEnded, OutcomeOf

(* Steps that commit nothing and decide nothing leave the log alone.         *)
LEMMA LogFrame ==
  ASSUME StoreInv, commitTs' = commitTs, nextTxnTs' = nextTxnTs,
         \A u \in Committed : pendingWrites'[u] = pendingWrites[u] /\ OutcomeOf(u)' = OutcomeOf(u)
  PROVE  AbsLog' = AbsLog
<1>1. \A i : Committer(i)' = Committer(i)
  BY DEF Committer
<1>2. \A i \in 1 .. nextTxnTs - 1 : Committer(i) \in Committed
  BY CommitterFacts
<1>3. ASSUME NEW i \in 1 .. nextTxnTs - 1
      PROVE  pendingWrites'[Committer(i)'] = pendingWrites[Committer(i)]
             /\ OutcomeOf(Committer(i))' = OutcomeOf(Committer(i))
  BY <1>1, <1>2
<1> QED BY <1>3 DEF AbsLog

(* Every commit at or below a timestamp txnMark has passed is decided.       *)
LEMMA PrefixDecided ==
  ASSUME StoreInv, NEW ts \in TS, ts <= txnMark.doneUntil
  PROVE  /\ ts <= nextTxnTs - 1
         /\ \A u \in Committed : commitTs[u] <= ts => u \in CommitEnded
         /\ \A i \in 1 .. ts : i \in 1 .. nextTxnTs - 1 /\ AbsLog[i].state # "pending"
<1>1. /\ txnMark.doneUntil \in TS /\ commitTs \in [Txn -> TS]
      /\ nextTxnTs - 1 \in TS /\ txnMark.doneUntil <= nextTxnTs - 1
  BY StoreFacts, MarkFacts DEF WaterMarkInv, HeapInv
<1>2. ts <= nextTxnTs - 1
  BY <1>1, TSOrder
<1>3. ASSUME NEW u \in Committed, commitTs[u] <= ts PROVE u \in CommitEnded
  <2>1. commitTs[u] \in TS
    BY <1>1 DEF Committed
  <2>2. ~ (txnMark.doneUntil < commitTs[u])
    BY <1>1, <1>3, <2>1, MaxTsAssumption DEF TS
  <2> QED BY <2>2, UndecidedAbove
<1>4. ASSUME NEW i \in 1 .. ts PROVE i \in 1 .. nextTxnTs - 1 /\ AbsLog[i].state # "pending"
  <2>1. i \in 1 .. nextTxnTs - 1 /\ i <= ts
    BY <1>1, <1>2, MaxTsAssumption DEF TS
  <2>2. PICK u \in Committed : commitTs[u] = i
    BY <2>1, LogFacts
  <2>3. OutcomeOf(u) # "pending" /\ AbsLog[i].state = OutcomeOf(u)
    BY <1>3, <2>1, <2>2, LogFacts, OutcomeFacts
  <2> QED BY <2>1, <2>3
<1> QED BY <1>2, <1>3, <1>4

(* Open maps to the empty store.                                             *)
LEMMA RefinesInit == Init => Store!Init
<1> SUFFICES ASSUME Init PROVE Store!Init
  OBVIOUS
<1>1. nextTxnTs - 1 = 0
  BY DEF Init
<1>2. AbsLog = <<>>
  BY <1>1 DEF AbsLog
<1>3. AbsPhase = [t \in Txn |-> "idle"]
  BY DEF Init, AbsPhase
<1> QED BY <1>2, <1>3 DEF Init, Store!Init

(* NewTransaction takes its snapshot: all commits so far.                    *)
LEMMA RefinesBegin ==
  ASSUME StoreInv, NEW t \in Txn, NEW upd \in BOOLEAN, NewTransaction(t, upd)
  PROVE  Store!Begin(t)
<1>1. /\ pc \in [Txn -> {"idle", "begin", "wait", "active", "send", "sent", "discard", "done"}]
      /\ PhaseInv
  BY StoreFacts
<1>2. /\ pc[t] = "idle" /\ pc' = [pc EXCEPT ![t] = "begin"]
      /\ readTs' = [readTs EXCEPT ![t] = nextTxnTs - 1]
      /\ UNCHANGED <<nextTxnTs, commitTs, pendingWrites, reqState, seen>>
  BY DEF NewTransaction, nextReadTs, writeVars
<1>3. \A u \in Committed : OutcomeOf(u)' = OutcomeOf(u)
  BY <1>1, <1>2 DEF Committed, PhaseInv, OutcomeOf, Failed
<1>4. AbsLog' = AbsLog
  BY <1>2, <1>3, LogFrame
<1>5. AbsPhase[t] = "idle" /\ AbsPhase' = [AbsPhase EXCEPT ![t] = "starting"]
  BY <1>1, <1>2 DEF AbsPhase
<1> QED BY <1>2, <1>4, <1>5, LogFacts DEF Store!Begin

(* NewTransaction returns: everything in the snapshot is decided.            *)
LEMMA RefinesStart ==
  ASSUME StoreInv, NEW t \in Txn, pc[t] \in {"begin", "wait"}, readTs[t] <= txnMark.doneUntil,
         pc' = [pc EXCEPT ![t] = "active"],
         UNCHANGED <<nextTxnTs, commitTs, readTs, pendingWrites, reqState, seen>>
  PROVE  Store!Start(t)
<1>1. /\ pc \in [Txn -> {"idle", "begin", "wait", "active", "send", "sent", "discard", "done"}]
      /\ PhaseInv /\ readTs[t] \in TS
  BY StoreFacts
<1>2. \A u \in Committed : OutcomeOf(u)' = OutcomeOf(u)
  BY <1>1 DEF Committed, PhaseInv, OutcomeOf, Failed
<1>3. AbsLog' = AbsLog
  BY <1>2, LogFrame
<1>4. AbsPhase[t] = "starting" /\ AbsPhase' = [AbsPhase EXCEPT ![t] = "started"]
  BY <1>1 DEF AbsPhase
<1>5. \A i \in 1 .. readTs[t] : AbsLog[i].state # "pending"
  BY <1>1, PrefixDecided
<1> QED BY <1>3, <1>4, <1>5 DEF Store!Start

(* Get reads a version the snapshot admits.                                  *)
LEMMA RefinesRead ==
  ASSUME StoreInv, NEW t \in Txn, NEW k \in Key, Get(t, k)
  PROVE  Store!Read(t, k)
<1>1. /\ readTs[t] \in TS /\ readTs[t] <= txnMark.doneUntil /\ commitTs \in [Txn -> TS]
      /\ pc[t] = "active"
  BY StoreFacts DEF SnapshotsReadyInv, Get
<1> DEFINE v == Visible(k, readTs[t])
           writers == {i \in 1 .. readTs[t] : AbsLog[i].state # "pending" /\ k \in AbsLog[i].writes}
<1>2. /\ v \in TS /\ v <= readTs[t]
      /\ v = 0 \/ \E u \in Committed : k \in pendingWrites[u] /\ commitTs[u] = v
      /\ \A u \in Committed : k \in pendingWrites[u] /\ commitTs[u] <= readTs[t] /\ ~ Failed(u)
           => commitTs[u] <= v
  BY <1>1, VisibleIsSnapshot
<1>3. /\ \A u \in Committed : commitTs[u] <= readTs[t] => u \in CommitEnded
      /\ \A i \in 1 .. readTs[t] : i \in 1 .. nextTxnTs - 1 /\ AbsLog[i].state # "pending"
  BY <1>1, PrefixDecided
<1> HIDE DEF v
<1>4. v \in writers \cup {0}
  <2>1. CASE v = 0
    BY <2>1
  <2>2. ASSUME NEW u \in Committed, k \in pendingWrites[u], commitTs[u] = v PROVE v \in writers
    <3>1. AbsLog[v].writes = pendingWrites[u] /\ v \in 1 .. nextTxnTs - 1
      BY <2>2, LogFacts
    <3>2. v \in 1 .. readTs[t]
      BY <1>1, <1>2, <3>1, MaxTsAssumption DEF TS
    <3> QED BY <1>3, <2>2, <3>1, <3>2
  <2> QED BY <1>2, <2>1, <2>2
<1>5. ASSUME NEW j \in writers, AbsLog[j].state = "done" PROVE j <= v
  <2>1. j \in 1 .. nextTxnTs - 1 /\ j <= readTs[t] /\ k \in AbsLog[j].writes
    BY <1>1, <1>3, MaxTsAssumption DEF TS
  <2>2. PICK u \in Committed : commitTs[u] = j
    BY <2>1, LogFacts
  <2>3. k \in pendingWrites[u] /\ OutcomeOf(u) = "done"
    BY <1>5, <2>1, <2>2, LogFacts
  <2>4. ~ Failed(u)
    BY <1>3, <2>1, <2>2, <2>3, OutcomeFacts
  <2> QED BY <1>2, <2>1, <2>2, <2>3, <2>4
<1>6. v \in Store!Readable(k, readTs[t])
  BY <1>4, <1>5 DEF Store!Readable
<1>7. /\ pc' = pc /\ seen' = [seen EXCEPT ![t][k] = v]
      /\ UNCHANGED <<nextTxnTs, commitTs, readTs, pendingWrites, reqState>>
  BY DEF Get, oracleVars, writeVars, v
<1>8. AbsLog' = AbsLog
  <2>1. \A u \in Committed : OutcomeOf(u)' = OutcomeOf(u)
    BY <1>7 DEF OutcomeOf, Failed
  <2> QED BY <1>7, <2>1, LogFrame
<1>9. AbsPhase[t] = "started" /\ AbsPhase' = AbsPhase
  BY <1>1, <1>7 DEF AbsPhase
<1> QED BY <1>6, <1>7, <1>8, <1>9 DEF Store!Read

(* A transaction ends without committing: Discard, or Commit with a conflict. *)
LEMMA RefinesEnd ==
  ASSUME StoreInv, NEW t \in Txn, pc[t] = "active", NEW p \in {"discard", "done"},
         pc' = [pc EXCEPT ![t] = p],
         UNCHANGED <<nextTxnTs, commitTs, readTs, pendingWrites, reqState, seen>>
  PROVE  Store!End(t)
<1>1. /\ pc \in [Txn -> {"idle", "begin", "wait", "active", "send", "sent", "discard", "done"}]
      /\ PhaseInv
  BY StoreFacts
<1>2. \A u \in Committed : OutcomeOf(u)' = OutcomeOf(u)
  BY <1>1 DEF Committed, PhaseInv, OutcomeOf, Failed
<1>3. AbsLog' = AbsLog
  BY <1>2, LogFrame
<1>4. AbsPhase[t] = "started" /\ AbsPhase' = [AbsPhase EXCEPT ![t] = "ended"]
  BY <1>1 DEF AbsPhase
<1> QED BY <1>3, <1>4 DEF Store!End

(* newCommitTs appends to the log, and only if nothing that was read has     *)
(* been written after the snapshot.                                          *)
LEMMA RefinesCommit ==
  ASSUME StoreInv, DetectConflicts, NEW t \in Txn, newCommitTs(t)
  PROVE  Store!Commit(t, pendingWrites[t])
<1>1. /\ pc \in [Txn -> {"idle", "begin", "wait", "active", "send", "sent", "discard", "done"}]
      /\ commitTs \in [Txn -> TS] /\ nextTxnTs \in 1 .. MaxTs + 1 /\ nextTxnTs \in Nat
      /\ readTs[t] \in TS
  BY StoreFacts, LogFacts
<1>2. /\ pc[t] = "active" /\ pc' = [pc EXCEPT ![t] = "send"] /\ pendingWrites[t] # {}
      /\ UNCHANGED <<readTs, pendingWrites, seen, reqState>>
  BY DEF newCommitTs, writeVars
<1>3. /\ Committed' = Committed \cup {t} /\ t \notin Committed
      /\ commitTs'[t] = nextTxnTs /\ nextTxnTs' = nextTxnTs + 1
      /\ \A u \in Txn : u # t => commitTs'[u] = commitTs[u]
      /\ \A u \in Txn : commitTs[u] < nextTxnTs
  BY NewCommit
<1>0. PICK n \in Nat : n = nextTxnTs
  BY <1>1
<1> DEFINE e == [writes |-> pendingWrites[t], state |-> "pending"]
<1>4. Committer(n)' = t
  <2>1. \A v \in Txn : commitTs'[v] = n => v = t
    BY <1>0, <1>1, <1>3, MaxTsAssumption DEF TS
  <2> QED BY <1>0, <1>3, <2>1, CommitterUnique DEF Committer
<1>5. ASSUME NEW i \in 1 .. n - 1
      PROVE  /\ Committer(i)' = Committer(i) /\ Committer(i) \in Committed
             /\ OutcomeOf(Committer(i))' = OutcomeOf(Committer(i))
  <2>0. PICK u \in Committed : u = Committer(i)
    BY <1>0, CommitterFacts
  <2>1. commitTs[u] = i /\ u \in Txn /\ u # t
    BY <1>0, <1>3, <2>0, CommitterFacts DEF Committed
  <2>2. \A v \in Committed : commitTs[v] = i => v = u
    BY <2>0, CommitterFacts
  <2>3. commitTs'[u] = i
    BY <1>3, <2>1
  <2>4. \A v \in Txn : commitTs'[v] = i => v = u
    <3> SUFFICES ASSUME NEW v \in Txn, commitTs'[v] = i PROVE v = u
      OBVIOUS
    <3>1. i # n /\ i # 0
      BY <1>0
    <3>2. v # t /\ commitTs[v] = i
      BY <1>0, <1>3, <3>1
    <3>3. v \in Committed
      BY <3>1, <3>2 DEF Committed
    <3> QED BY <2>2, <3>2, <3>3
  <2>5. Committer(i)' = u
    BY <2>1, <2>3, <2>4, CommitterUnique DEF Committer
  <2>6. OutcomeOf(u)' = OutcomeOf(u)
    BY <1>1, <1>2, <2>1 DEF OutcomeOf, Failed
  <2> QED BY <2>0, <2>5, <2>6
<1>6. AbsLog' = Append(AbsLog, e)
  <2>1. /\ DOMAIN AbsLog' = 1 .. n /\ DOMAIN AbsLog = 1 .. n - 1 /\ Len(AbsLog) = n - 1
        /\ AbsLog' = [i \in 1 .. n |-> AbsLog'[i]]
    BY <1>0, <1>1, <1>3, LogFacts DEF AbsLog
  <2>2. \A i \in 1 .. n - 1 : AbsLog'[i] = AbsLog[i]
    <3> SUFFICES ASSUME NEW i \in 1 .. n - 1 PROVE AbsLog'[i] = AbsLog[i]
      OBVIOUS
    <3>1. i \in 1 .. nextTxnTs' - 1
      BY <1>0, <1>1, <1>3
    <3>2. AbsLog'[i] = [writes |-> pendingWrites'[Committer(i)'], state |-> OutcomeOf(Committer(i))']
      BY <3>1 DEF AbsLog
    <3> QED BY <1>0, <1>2, <1>5, <3>2 DEF AbsLog
  <2>3. AbsLog'[n] = e
    <3>1. n \in 1 .. nextTxnTs' - 1
      BY <1>0, <1>1, <1>3
    <3>2. AbsLog'[n] = [writes |-> pendingWrites'[Committer(n)'], state |-> OutcomeOf(Committer(n))']
      BY <3>1 DEF AbsLog
    <3>3. OutcomeOf(t)' = "pending"
      BY <1>1, <1>2 DEF OutcomeOf
    <3> QED BY <1>2, <1>4, <3>2, <3>3
  <2> QED BY <1>0, <2>1, <2>2, <2>3
<1>7. AbsPhase[t] = "started" /\ AbsPhase' = [AbsPhase EXCEPT ![t] = "ended"]
  BY <1>1, <1>2 DEF AbsPhase
<1>8. ASSUME NEW k \in Key, seen[t][k] # NotRead, NEW i \in readTs[t] + 1 .. Len(AbsLog)
      PROVE  k \notin AbsLog[i].writes
  <2>1. i \in 1 .. n - 1 /\ ~ (i <= readTs[t])
    BY <1>0, <1>1, LogFacts, MaxTsAssumption DEF TS
  <2>2. PICK u \in Committed : commitTs[u] = i
    BY <1>0, <2>1, LogFacts
  <2>3. k \notin pendingWrites[u]
    BY <1>8, <2>1, <2>2, NoConflictMeansCurrent
  <2> QED BY <2>2, <2>3, LogFacts
<1> QED BY <1>2, <1>6, <1>7, <1>8 DEF Store!Commit

(* The call marked done in txnMark decides a commit: the callback of         *)
(* commitAndSend, or the error path of sendToWriteCh.                        *)
LEMMA RefinesDecide ==
  ASSUME StoreInv, NEW t \in Txn, pc[t] \in {"send", "sent"}, NEW r \in {"ok", "err"},
         pc' = [pc EXCEPT ![t] = "discard"], reqState'[t] = r,
         \A u \in Txn : u # t => reqState'[u] = reqState[u],
         UNCHANGED <<nextTxnTs, commitTs, readTs, pendingWrites, seen>>
  PROVE  \E i \in 1 .. Len(AbsLog), outcome \in {"done", "failed"} : Store!Decide(i, outcome)
<1>1. /\ pc \in [Txn -> {"idle", "begin", "wait", "active", "send", "sent", "discard", "done"}]
      /\ PhaseInv
  BY StoreFacts
<1>2. t \in Committed
  BY <1>1 DEF PhaseInv, Committed
<1> DEFINE i == commitTs[t]
           outcome == IF r = "err" THEN "failed" ELSE "done"
<1>3. i \in 1 .. Len(AbsLog) /\ AbsLog[i].state = "pending"
  BY <1>2, LogFacts DEF OutcomeOf
<1>4. OutcomeOf(t)' = outcome /\ \A u \in Txn : u # t => OutcomeOf(u)' = OutcomeOf(u)
  BY <1>1 DEF OutcomeOf, Failed
<1>5. AbsLog' = [AbsLog EXCEPT ![i].state = outcome]
  <2>1. \A j : Committer(j)' = Committer(j)
    BY DEF Committer
  <2>2. Committer(i) = t
    BY <1>2, CommitterFacts
  <2>3. \A j \in 1 .. nextTxnTs - 1 : Committer(j) \in Txn /\ commitTs[Committer(j)] = j
    BY CommitterFacts DEF Committed
  <2>4. ASSUME NEW j \in 1 .. nextTxnTs - 1
        PROVE  OutcomeOf(Committer(j))' = IF j = i THEN outcome ELSE OutcomeOf(Committer(j))
    <3>1. PICK u \in Txn : u = Committer(j)
      BY <2>3
    <3>2. OutcomeOf(u)' = IF j = i THEN outcome ELSE OutcomeOf(u)
      BY <1>4, <2>2, <2>3, <3>1
    <3> QED BY <2>1, <3>1, <3>2
  <2> HIDE DEF i, outcome
  <2>5. AbsLog' = [j \in 1 .. nextTxnTs - 1 |->
                    [writes |-> pendingWrites[Committer(j)],
                     state |-> IF j = i THEN outcome ELSE OutcomeOf(Committer(j))]]
    BY <2>1, <2>4 DEF AbsLog
  <2> QED BY <2>5 DEF AbsLog
<1>6. AbsPhase' = AbsPhase
  BY <1>1 DEF AbsPhase
<1> QED BY <1>3, <1>5, <1>6 DEF Store!Decide

(* Steps the abstract store does not see.                                    *)
LEMMA RefinesStutter ==
  ASSUME StoreInv, UNCHANGED <<nextTxnTs, commitTs, readTs, seen>>,
         \A u \in Committed : pendingWrites'[u] = pendingWrites[u] /\ OutcomeOf(u)' = OutcomeOf(u),
         AbsPhase' = AbsPhase
  PROVE  UNCHANGED Store!vars
BY LogFrame DEF Store!vars

(* Every step of the implementation is a step of the store or a stutter.     *)
LEMMA RefinesNext ==
  ASSUME StoreInv, DetectConflicts, Next
  PROVE  Store!Next \/ UNCHANGED Store!vars
<1>1. /\ pc \in [Txn -> {"idle", "begin", "wait", "active", "send", "sent", "discard", "done"}]
      /\ reqState \in [Txn -> {"none", "queued", "ok", "err"}]
      /\ readTs \in [Txn -> TS] /\ commitTs \in [Txn -> TS] /\ pendingWrites \in [Txn -> SUBSET Key]
      /\ txnMark.doneUntil \in TS /\ PhaseInv /\ SnapshotsReadyInv /\ RequestsInv
  BY StoreFacts
<1>2. \A u \in Committed : u \in Txn /\ pc[u] \in {"send", "sent", "discard", "done"}
  BY OutcomeFacts DEF Committed
<1> DEFINE G == Store!Next \/ UNCHANGED Store!vars
<1>3. ASSUME NEW t \in Txn,
             Store!Begin(t) \/ Store!Start(t) \/ Store!End(t) \/ \E k \in Key : Store!Read(t, k)
      PROVE  G
  BY <1>3 DEF Store!Next
<1>4. ASSUME NEW t \in Txn, NEW ws \in SUBSET Key, Store!Commit(t, ws) PROVE G
  BY <1>4 DEF Store!Next
<1>5. (\E i \in 1 .. Len(AbsLog), outcome \in {"done", "failed"} : Store!Decide(i, outcome)) => G
  BY DEF Store!Next
<1>6. ASSUME UNCHANGED <<nextTxnTs, commitTs, readTs, seen>>,
             \A u \in Committed : pendingWrites'[u] = pendingWrites[u] /\ OutcomeOf(u)' = OutcomeOf(u),
             AbsPhase' = AbsPhase
      PROVE  G
  BY <1>6, RefinesStutter
<1> HIDE DEF G
<1>7. \A t \in Txn : \A upd \in BOOLEAN : NewTransaction(t, upd) => G
  BY <1>3, RefinesBegin
<1>8. ASSUME NEW t \in Txn, WaitForMark(t) PROVE G
  <2>1. /\ pc[t] = "begin"
        /\ UNCHANGED <<nextTxnTs, commitTs, readTs, pendingWrites, reqState, seen>>
    BY <1>8 DEF WaitForMark, writeVars
  <2>2. CASE ~ mustWait(t) /\ pc' = [pc EXCEPT ![t] = "active"]
    <3>1. readTs[t] <= txnMark.doneUntil
      BY <1>1, <2>2, MaxTsAssumption DEF mustWait, TS
    <3> QED BY <1>3, <2>1, <2>2, <3>1, RefinesStart
  <2>3. CASE pc' = [pc EXCEPT ![t] = "wait"]
    <3>1. AbsPhase' = AbsPhase
      BY <1>1, <2>1, <2>3 DEF AbsPhase
    <3>2. \A u \in Committed : OutcomeOf(u)' = OutcomeOf(u)
      BY <1>1, <1>2, <2>1, <2>3 DEF OutcomeOf, Failed
    <3> QED BY <1>6, <2>1, <3>1, <3>2
  <2> QED BY <1>8, <2>2, <2>3 DEF WaitForMark
<1>9. ASSUME NEW t \in Txn, WaitOver(t) PROVE G
  <2>1. /\ pc[t] = "wait" /\ pc' = [pc EXCEPT ![t] = "active"] /\ t \in txnMark.closed
        /\ UNCHANGED <<nextTxnTs, commitTs, readTs, pendingWrites, reqState, seen>>
    BY <1>9 DEF WaitOver, oracleVars, writeVars
  <2>2. readTs[t] <= txnMark.doneUntil
    BY <1>1, <2>1 DEF SnapshotsReadyInv, WaitersInv
  <2> QED BY <1>3, <2>1, <2>2, RefinesStart
<1>10. ASSUME NEW t \in Txn, CommitConflict(t) PROVE G
  <2>1. /\ pc[t] = "active" /\ pc' = [pc EXCEPT ![t] = "discard"]
        /\ UNCHANGED <<nextTxnTs, commitTs, readTs, pendingWrites, reqState, seen>>
    BY <1>10 DEF CommitConflict, oracleVars, writeVars
  <2> QED BY <1>3, <2>1, RefinesEnd
<1>11. ASSUME NEW t \in Txn, sendToWriteCh(t) PROVE G
  <2>1. /\ pc[t] = "send" /\ pc' = [pc EXCEPT ![t] = "sent"]
        /\ \A u \in Txn : u # t => reqState'[u] = reqState[u]
        /\ UNCHANGED <<nextTxnTs, commitTs, readTs, pendingWrites, seen>>
    BY <1>1, <1>11 DEF sendToWriteCh
  <2>2. AbsPhase' = AbsPhase
    BY <1>1, <2>1 DEF AbsPhase
  <2>3. \A u \in Committed : OutcomeOf(u)' = OutcomeOf(u)
    BY <1>1, <1>2, <2>1 DEF OutcomeOf, Failed
  <2> QED BY <1>6, <2>1, <2>2, <2>3
<1>12. ASSUME NEW t \in Txn, NEW k \in Key, Get(t, k) \/ Modify(t, k) PROVE G
  <2>1. CASE Modify(t, k)
    <3>1. /\ pc[t] = "active" /\ \A u \in Txn : u # t => pendingWrites'[u] = pendingWrites[u]
          /\ UNCHANGED <<pc, nextTxnTs, commitTs, readTs, reqState, seen>>
      BY <1>1, <2>1 DEF Modify, oracleVars, writeVars
    <3>2. AbsPhase' = AbsPhase /\ \A u \in Committed : OutcomeOf(u)' = OutcomeOf(u)
      BY <3>1 DEF AbsPhase, OutcomeOf, Failed
    <3>3. \A u \in Committed : pendingWrites'[u] = pendingWrites[u]
      BY <1>2, <3>1
    <3> QED BY <1>6, <3>1, <3>2, <3>3
  <2>2. CASE Get(t, k)
    BY <1>3, <2>2, RefinesRead
  <2> QED BY <1>12, <2>1, <2>2
<1>13. ASSUME NEW t \in Txn, Discard(t) PROVE G
  <2>1. /\ pc[t] \in {"active", "discard"} /\ pc' = [pc EXCEPT ![t] = "done"]
        /\ UNCHANGED <<nextTxnTs, commitTs, readTs, pendingWrites, reqState, seen>>
    BY <1>13 DEF Discard, writeVars
  <2>2. CASE pc[t] = "active"
    BY <1>3, <2>1, <2>2, RefinesEnd
  <2>3. CASE pc[t] = "discard"
    <3>1. AbsPhase' = AbsPhase
      BY <1>1, <2>1, <2>3 DEF AbsPhase
    <3>2. \A u \in Committed : OutcomeOf(u)' = OutcomeOf(u)
      BY <1>1, <1>2, <2>1, <2>3 DEF OutcomeOf, Failed
    <3> QED BY <1>6, <2>1, <3>1, <3>2
  <2> QED BY <2>1, <2>2, <2>3
<1>14. \A t \in Txn : newCommitTs(t) => G
  BY <1>1, <1>4, RefinesCommit
<1>15. ASSUME NEW t \in Txn, SendError(t) \/ doneCommit(t) PROVE G
  <2>1. /\ pc[t] \in {"send", "sent"} /\ pc' = [pc EXCEPT ![t] = "discard"]
        /\ \A u \in Txn : u # t => reqState'[u] = reqState[u]
        /\ UNCHANGED <<nextTxnTs, commitTs, readTs, pendingWrites, seen>>
    BY <1>1, <1>15 DEF SendError, doneCommit, writeVars
  <2>2. reqState'[t] \in {"ok", "err"}
    BY <1>1, <1>15 DEF SendError, doneCommit, requestDone, writeVars
  <2> QED BY <1>5, <2>1, <2>2, RefinesDecide
<1>16. WriterStep => G
  <2>1. ASSUME WriterStep PROVE UNCHANGED <<pc, nextTxnTs, commitTs, readTs, pendingWrites, seen>>
    BY <2>1, WriterFrame DEF oracleVars, txnVars
  <2>2. ASSUME WriterStep, NEW u \in Txn, pc[u] # "sent" PROVE reqState'[u] = reqState[u]
    <3>1. ~ InBatch(u)
      BY <1>1, <2>2 DEF RequestsInv
    <3>2. \A r : finishBatch(r) => reqState'[u] = reqState[u]
      BY <3>1 DEF finishBatch
    <3> QED BY <2>2, <3>2 DEF WriterStep, doWrites, writeToLSM, writeRequestsOk, writeRequestsError
  <2>3. ASSUME WriterStep PROVE AbsPhase' = AbsPhase /\ \A u \in Committed : OutcomeOf(u)' = OutcomeOf(u)
    BY <1>2, <2>1, <2>2, <2>3 DEF AbsPhase, OutcomeOf, Failed
  <2> QED BY <1>6, <2>1, <2>3
<1>17. CompactStep \/ processReadMark \/ processTxnMark => G
  <2>1. ASSUME CompactStep \/ processReadMark \/ processTxnMark
        PROVE  UNCHANGED <<pc, nextTxnTs, commitTs, readTs, pendingWrites, seen, reqState>>
    BY <2>1, CompactFrame DEF processReadMark, processTxnMark, oracleVars, txnVars, writeVars
  <2>2. ASSUME CompactStep \/ processReadMark \/ processTxnMark
        PROVE  AbsPhase' = AbsPhase /\ \A u \in Committed : OutcomeOf(u)' = OutcomeOf(u)
    BY <2>1, <2>2 DEF AbsPhase, OutcomeOf, Failed
  <2> QED BY <1>6, <2>1, <2>2
<1>18. G
  BY <1>7, <1>8, <1>9, <1>10, <1>11, <1>12, <1>13, <1>14, <1>15, <1>16, <1>17, NextCases
<1> QED BY <1>18 DEF G

(* With conflict detection, the oracle, the watermarks, the write channel    *)
(* and compaction implement the serializable store that NewTransaction and   *)
(* Txn document, for any number of transactions, keys and timestamps.        *)
THEOREM StoreImplemented == ASSUME DetectConflicts PROVE Spec => ImplementsStore
<1>1. Init => Store!Init
  BY RefinesInit
<1>2. StoreInv /\ [Next]_vars => [Store!Next]_Store!vars
  <2> SUFFICES ASSUME StoreInv, [Next]_vars PROVE Store!Next \/ UNCHANGED Store!vars
    OBVIOUS
  <2>1. CASE Next
    BY <2>1, RefinesNext
  <2>2. CASE UNCHANGED vars
    <3>1. UNCHANGED <<pc, nextTxnTs, commitTs, readTs, pendingWrites, seen, reqState>>
      BY <2>2 DEF vars, oracleVars, txnVars, writeVars
    <3>2. AbsPhase' = AbsPhase /\ \A u \in Committed : OutcomeOf(u)' = OutcomeOf(u)
      BY <3>1 DEF AbsPhase, OutcomeOf, Failed
    <3> QED BY <3>1, <3>2, RefinesStutter
  <2> QED BY <2>1, <2>2
<1> QED BY <1>1, <1>2, StoreInvariant, PTL DEF Spec, ImplementsStore, Store!Spec
=============================================================================
