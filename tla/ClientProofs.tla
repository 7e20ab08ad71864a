------------------------------ MODULE ClientProofs ----------------------------
(***************************************************************************)
(* Proofs about Lifecycle.tla, for every number of writers and droppers    *)
(* and every capacity: drops drop what was committed before them and never *)
(* reached the hot tier, and no write that was acknowledged is lost.  And  *)
(* about WriteBatch.tla, for every number of callers, transaction size and *)
(* limit of pending transactions: a Flush that returns without an error    *)
(* has committed everything the batch accepted.                            *)
(***************************************************************************)
EXTENDS Lifecycle, WriteBatch, TLAPS

-----------------------------------------------------------------------------
(* The life cycle.                                                         *)

(* What the records become.                                                *)
LEMMA OffOrDrop ==
  ASSUME LifecycleType, NEW d \in Droppers
  PROVE  (dp[d] = Off /\ dp[d].pc = "off") \/ (dp[d] \in Drops /\ dp[d] # Off /\ dp[d].pc # "off")
BY DEF LifecycleType, Off, Drops

LEMMA DropFields ==
  ASSUME NEW q \in Drops, NEW p \in {"drain", "prepared", "locked", "levels", "resume"}, NEW r, r = [q EXCEPT !.pc = p]
  PROVE  r \in Drops /\ r # Off /\ r.pc = p /\ r.kind = q.kind /\ r.reqs = q.reqs /\ r.before = q.before
<1>1. r \in Drops /\ r.pc = p /\ r.kind = q.kind /\ r.reqs = q.reqs /\ r.before = q.before
  BY DEF Drops
<1>. QED BY <1>1 DEF Off

(* A dropper goes on to its next step, and the others stay.                *)
Advances(d, p) ==
  /\ dp' \in [Droppers -> {Off} \cup Drops] /\ dp'[d] # Off
  /\ dp'[d].pc = p /\ dp'[d].kind = dp[d].kind /\ dp'[d].before = dp[d].before
  /\ \A e \in Droppers \ {d} : dp'[e] = dp[e]

LEMMA DropAdvances ==
  ASSUME LifecycleType, NEW d \in Droppers, dp[d].pc # "off",
         NEW p \in {"drain", "prepared", "locked", "levels", "resume"}, dropGoesTo(d, p)
  PROVE  Advances(d, p) /\ dp'[d].reqs = dp[d].reqs
<1>1. dp[d] \in Drops /\ dp \in [Droppers -> {Off} \cup Drops]
  BY OffOrDrop DEF LifecycleType
<1>. DEFINE r == [dp[d] EXCEPT !.pc = p]
<1>2. /\ r \in Drops /\ r # Off /\ r.pc = p /\ r.kind = dp[d].kind
      /\ r.reqs = dp[d].reqs /\ r.before = dp[d].before
  BY <1>1, DropFields
<1>3. dp' = [dp EXCEPT ![d] = r]
  BY DEF dropGoesTo
<1>. HIDE DEF r
<1>. QED BY <1>1, <1>2, <1>3 DEF Advances

(* done wakes the writers whose requests were written.                     *)
LEMMA WritersWake ==
  ASSUME LifecycleType, NEW items \in SUBSET Items, writeItems(items)
  PROVE  /\ lw' \in [LWriters -> Writers]
         /\ \A w \in LWriters :
              /\ lw'[w].n = lw[w].n /\ lw'[w].item = lw[w].item
              /\ lw'[w].pc = IF lw[w].pc = "sent" /\ lw[w].item \in items THEN "idle" ELSE lw[w].pc
<1>1. \A w \in LWriters : lw[w] \in Writers
  BY DEF LifecycleType
<1>2. ASSUME NEW w \in LWriters
      PROVE  /\ lw'[w] \in Writers /\ lw'[w].n = lw[w].n /\ lw'[w].item = lw[w].item
             /\ lw'[w].pc = IF lw[w].pc = "sent" /\ lw[w].item \in items THEN "idle" ELSE lw[w].pc
  <2>1. ASSUME NEW q \in Writers, NEW r, r = [q EXCEPT !.pc = "idle"]
        PROVE  r \in Writers /\ r.pc = "idle" /\ r.n = q.n /\ r.item = q.item
    BY <2>1 DEF Writers
  <2>2. lw'[w] = IF lw[w].pc = "sent" /\ lw[w].item \in items THEN [lw[w] EXCEPT !.pc = "idle"] ELSE lw[w]
    BY DEF writeItems
  <2>. QED BY <1>1, <2>1, <2>2
<1>3. lw' = [w \in LWriters |-> lw'[w]]
  BY DEF writeItems
<1>4. lw' \in [LWriters -> Writers]
  BY <1>2, <1>3
<1>. QED BY <1>2, <1>4

-----------------------------------------------------------------------------
(* Steps that leave the requests, or the channel and the droppers, alone.  *)
LEMMA RequestsFrame ==
  ASSUME RequestsOnce, UNCHANGED <<lw, writeCh, dwReqs, pendingBatch, ackedItems>>,
         \A d \in Droppers : drained(d)' = drained(d) /\ (dp'[d].pc = "wait" => dp'[d].reqs = {})
  PROVE  RequestsOnce'
<1>1. \A i \in Items : onTheWay(i)' <=> onTheWay(i)
  BY DEF onTheWay, inChannel
<1>. QED BY <1>1 DEF RequestsOnce

LEMMA ChannelFrame == ASSUME ChannelHanded, UNCHANGED <<chanVars, dp, closing>> PROVE ChannelHanded'
BY DEF ChannelHanded, chanVars

LEMMA LifecycleStarts == LifecycleInit => LifecycleInv
<1>. SUFFICES ASSUME LifecycleInit PROVE LifecycleInv
  OBVIOUS
<1>. USE LifecycleAssumption DEF LifecycleInit
<1>1. \A d \in Droppers : dp[d] = Off /\ dp[d].pc = "off"
  BY DEF Off
<1>2. \A w \in LWriters : lw[w] \in Writers /\ lw[w].pc = "idle"
  BY DEF Writers
<1>3. writeCh \in Seq(Items) /\ Len(writeCh) = 0
  OBVIOUS
<1>4. LifecycleType
  <2>1. lw \in [LWriters -> Writers] /\ dp \in [Droppers -> {Off} \cup Drops]
    BY <1>1, <1>2
  <2>. QED BY <1>3, <2>1 DEF LifecycleType
<1>5. ChannelHanded
  BY <1>1 DEF ChannelHanded
<1>6. RequestsOnce
  BY <1>1, <1>2, <1>3 DEF RequestsOnce, onTheWay, inChannel, drained
<1>7. DropProgress /\ DropDropsCold /\ AckedKept
  BY <1>1 DEF DropProgress, DropDropsCold, AckedKept
<1>. QED BY <1>4, <1>5, <1>6, <1>7 DEF LifecycleInv

-----------------------------------------------------------------------------
(* Flush by heat and eviction move items, and what leaves a memtable for   *)
(* the hot tier is remembered as such.                                     *)
LEMMA FlushKeeps ==
  ASSUME LifecycleInv, NEW hotKeys \in SUBSET LKeys, flushAll(hotKeys) PROVE LifecycleInv'
<1>1. /\ UNCHANGED <<chanVars, lw, flushing, compacting, dp, closing, lhistVars>> /\ inMem' = {}
      /\ inHot' = inHot \cup {i \in inMem : i.key \in hotKeys}
      /\ inLevels' = inLevels \cup {i \in inMem : i.key \notin hotKeys}
      /\ everHot' = everHot \cup {i \in inMem : i.key \in hotKeys}
      /\ \A d \in Droppers : dp[d].pc # "locked"
  BY DEF flushAll, toTiers
<1>2. LifecycleType'
  BY <1>1 DEF LifecycleInv, LifecycleType, Drops, chanVars, lhistVars
<1>3. ChannelHanded'
  BY <1>1, ChannelFrame DEF LifecycleInv
<1>4. RequestsOnce'
  BY <1>1, RequestsFrame DEF LifecycleInv, drained, chanVars, lhistVars, RequestsOnce
<1>5. DropProgress'
  BY <1>1 DEF LifecycleInv, DropProgress, covers, lhistVars
<1>6. DropDropsCold' /\ AckedKept'
  BY <1>1 DEF LifecycleInv, DropDropsCold, AckedKept, lhistVars
<1>. QED BY <1>2, <1>3, <1>4, <1>5, <1>6 DEF LifecycleInv

LEMMA EvictKeeps == ASSUME LifecycleInv, evictHot PROVE LifecycleInv'
<1>1. /\ UNCHANGED <<chanVars, lw, flushing, compacting, inMem, everHot, dp, closing, lhistVars>>
      /\ inHot' = {} /\ inLevels' = inLevels \cup inHot
  BY DEF evictHot
<1>2. LifecycleType'
  BY <1>1 DEF LifecycleInv, LifecycleType, Drops, chanVars, lhistVars
<1>3. ChannelHanded'
  BY <1>1, ChannelFrame DEF LifecycleInv
<1>4. RequestsOnce'
  BY <1>1, RequestsFrame DEF LifecycleInv, drained, chanVars, lhistVars, RequestsOnce
<1>5. DropProgress'
  BY <1>1 DEF LifecycleInv, LifecycleType, DropProgress, covers, lhistVars
<1>6. DropDropsCold' /\ AckedKept'
  BY <1>1 DEF LifecycleInv, DropDropsCold, AckedKept, lhistVars
<1>. QED BY <1>2, <1>3, <1>4, <1>5, <1>6 DEF LifecycleInv

-----------------------------------------------------------------------------
(* The steps of a dropper that has the channel for itself: nothing is on   *)
(* its way but what is still in the channel, and nobody writes.            *)
LEMMA AloneKeeps ==
  ASSUME LifecycleInv, NEW d \in Droppers, dp[d].pc \in {"wait", "drain", "prepared", "locked", "levels"},
         NEW p \in {"drain", "prepared", "locked", "levels", "resume"}, p = "drain" <=> dp[d].pc = "wait",
         dp[d].pc = "drain" => dp[d].reqs = {},
         dwPc = "off", Advances(d, p), dp'[d].reqs = dp[d].reqs, UNCHANGED <<chanVars, lw, closing, ackedItems>>
  PROVE  ChannelHanded' /\ RequestsOnce' /\ \A e \in Droppers \ {d} : dp'[e].pc = "off"
<1>1. dp[d] # Off /\ \A e \in Droppers \ {d} : dp[e] = Off
  BY OffOrDrop DEF LifecycleInv, ChannelHanded, Off
<1>2. \A e \in Droppers \ {d} : dp[e].pc = "off"
  BY <1>1 DEF Off
<1>3. ChannelHanded'
  BY <1>1 DEF LifecycleInv, ChannelHanded, Advances, chanVars
<1>4. dp[d].pc = "wait" => dp[d].reqs = {}
  BY DEF LifecycleInv, RequestsOnce
<1>5. \A e \in Droppers : drained(e)' = drained(e) /\ (dp'[e].pc = "wait" => dp'[e].reqs = {})
  BY <1>1, <1>2, <1>4 DEF drained, Advances
<1>6. RequestsOnce'
  BY <1>5, RequestsFrame DEF LifecycleInv, chanVars
<1>. QED BY <1>2, <1>3, <1>6 DEF Advances

LEMMA WaitKeeps == ASSUME LifecycleInv, NEW d \in Droppers, waitWrites(d) PROVE LifecycleInv'
<1>1. /\ dp[d].pc = "wait" /\ dwPc = "off" /\ dropGoesTo(d, "drain")
      /\ UNCHANGED <<chanVars, lw, flushing, compacting, dataVars, closing, lhistVars>>
  BY DEF waitWrites
<1>2. Advances(d, "drain") /\ dp'[d].reqs = dp[d].reqs
  BY <1>1, DropAdvances DEF LifecycleInv
<1>3. ChannelHanded' /\ RequestsOnce' /\ \A e \in Droppers \ {d} : dp'[e].pc = "off"
  BY <1>1, <1>2, AloneKeeps DEF lhistVars
<1>4. LifecycleType'
  BY <1>1, <1>2 DEF LifecycleInv, LifecycleType, Drops, Advances, chanVars, dataVars, lhistVars
<1>5. DropProgress'
  BY <1>2, <1>3 DEF DropProgress, Advances
<1>6. DropDropsCold' /\ AckedKept'
  BY <1>1 DEF LifecycleInv, DropDropsCold, AckedKept, dataVars, lhistVars
<1>. QED BY <1>3, <1>4, <1>5, <1>6 DEF LifecycleInv

(* DropAll throws the memtables away, with whatever was acknowledged.      *)
LEMMA DropMemKeeps == ASSUME LifecycleInv, NEW d \in Droppers, dropMem(d) PROVE LifecycleInv'
<1>1. /\ dp[d].pc = "prepared" /\ dp[d].kind = "all" /\ dropGoesTo(d, "locked")
      /\ compacting' = FALSE /\ inMem' = {} /\ excused' = excused \cup ackedItems
      /\ UNCHANGED <<chanVars, lw, flushing, inLevels, inHot, everHot, closing, ackedItems, gone>>
  BY DEF dropMem
<1>2. dwPc = "off" /\ Advances(d, "locked") /\ dp'[d].reqs = dp[d].reqs
  BY <1>1, DropAdvances, OffOrDrop DEF LifecycleInv, ChannelHanded
<1>3. ChannelHanded' /\ RequestsOnce' /\ \A e \in Droppers \ {d} : dp'[e].pc = "off"
  BY <1>1, <1>2, AloneKeeps
<1>4. LifecycleType'
  BY <1>1, <1>2 DEF LifecycleInv, LifecycleType, Drops, Advances, chanVars
<1>5. DropProgress'
  BY <1>1, <1>2, <1>3 DEF DropProgress, Advances
<1>6. DropDropsCold' /\ AckedKept'
  BY <1>1 DEF LifecycleInv, DropDropsCold, AckedKept
<1>. QED BY <1>3, <1>4, <1>5, <1>6 DEF LifecycleInv

(* ... and then the tables; by then all that was acknowledged is excused.  *)
LEMMA DropTreeKeeps == ASSUME LifecycleInv, NEW d \in Droppers, dropTree(d) PROVE LifecycleInv'
<1>1. /\ dp[d].pc = "locked" /\ inLevels' = {} /\ dropGoesTo(d, "resume")
      /\ UNCHANGED <<chanVars, lw, flushing, compacting, inMem, inHot, everHot, closing, lhistVars>>
  BY DEF dropTree
<1>2. /\ dwPc = "off" /\ Advances(d, "resume") /\ dp'[d].reqs = dp[d].reqs
      /\ inMem = {} /\ ackedItems \subseteq excused
  BY <1>1, DropAdvances, OffOrDrop DEF LifecycleInv, ChannelHanded, DropProgress
<1>3. ChannelHanded' /\ RequestsOnce' /\ \A e \in Droppers \ {d} : dp'[e].pc = "off"
  BY <1>1, <1>2, AloneKeeps DEF lhistVars
<1>4. LifecycleType'
  BY <1>1, <1>2 DEF LifecycleInv, LifecycleType, Drops, Advances, chanVars, lhistVars
<1>5. DropProgress'
  BY <1>1, <1>2, <1>3 DEF DropProgress, Advances
<1>6. DropDropsCold' /\ AckedKept'
  BY <1>1, <1>2 DEF LifecycleInv, DropDropsCold, AckedKept, lhistVars
<1>. QED BY <1>3, <1>4, <1>5, <1>6 DEF LifecycleInv

LEMMA DropNoneKeeps == ASSUME LifecycleInv, NEW d \in Droppers, dropPrefixNone(d) PROVE LifecycleInv'
<1>1. /\ dp[d].pc = "prepared" /\ dp[d].kind = "prefix" /\ dropGoesTo(d, "resume")
      /\ \A i \in inMem \cup inLevels \cup inHot : i.key \notin LPrefix
      /\ UNCHANGED <<chanVars, lw, flushing, compacting, dataVars, closing, lhistVars>>
  BY DEF dropPrefixNone
<1>2. dwPc = "off" /\ Advances(d, "resume") /\ dp'[d].reqs = dp[d].reqs
  BY <1>1, DropAdvances, OffOrDrop DEF LifecycleInv, ChannelHanded
<1>3. ChannelHanded' /\ RequestsOnce' /\ \A e \in Droppers \ {d} : dp'[e].pc = "off"
  BY <1>1, <1>2, AloneKeeps DEF lhistVars
<1>4. LifecycleType'
  BY <1>1, <1>2 DEF LifecycleInv, LifecycleType, Drops, Advances, chanVars, dataVars, lhistVars
<1>5. DropProgress'
  BY <1>1, <1>2, <1>3 DEF DropProgress, Advances, covers, dataVars
<1>6. DropDropsCold' /\ AckedKept'
  BY <1>1 DEF LifecycleInv, DropDropsCold, AckedKept, dataVars, lhistVars
<1>. QED BY <1>3, <1>4, <1>5, <1>6 DEF LifecycleInv

(* DropPrefix flushes the memtables without the prefix, by heat, ...       *)
LEMMA DropPrefixKeeps ==
  ASSUME LifecycleInv, NEW d \in Droppers, NEW hotKeys \in SUBSET LKeys, dropPrefix(d, hotKeys) PROVE LifecycleInv'
<1>1. /\ dp[d].pc = "prepared" /\ dp[d].kind = "prefix" /\ dropGoesTo(d, "levels")
      /\ inMem' = {} /\ compacting' = FALSE /\ excused' = excused \cup (ackedItems \cap covers(d))
      /\ inHot' = inHot \cup {i \in withoutPrefix(inMem) : i.key \in hotKeys}
      /\ inLevels' = inLevels \cup {i \in withoutPrefix(inMem) : i.key \notin hotKeys}
      /\ everHot' = everHot \cup {i \in withoutPrefix(inMem) : i.key \in hotKeys}
      /\ UNCHANGED <<chanVars, lw, flushing, closing, ackedItems, gone>>
  BY DEF dropPrefix, toTiers
<1>2. dwPc = "off" /\ Advances(d, "levels") /\ dp'[d].reqs = dp[d].reqs
  BY <1>1, DropAdvances, OffOrDrop DEF LifecycleInv, ChannelHanded
<1>3. ChannelHanded' /\ RequestsOnce' /\ \A e \in Droppers \ {d} : dp'[e].pc = "off"
  BY <1>1, <1>2, AloneKeeps
<1>4. LifecycleType'
  BY <1>1, <1>2 DEF LifecycleInv, LifecycleType, Drops, Advances, chanVars, covers, withoutPrefix
<1>5. DropProgress'
  BY <1>1, <1>2, <1>3 DEF DropProgress, Advances, covers
<1>6. DropDropsCold' /\ AckedKept'
  BY <1>1 DEF LifecycleInv, LifecycleType, DropDropsCold, AckedKept, covers, withoutPrefix
<1>. QED BY <1>3, <1>4, <1>5, <1>6 DEF LifecycleInv

(* ... and rewrites the levels without it.                                 *)
LEMMA DropPrefixesKeeps == ASSUME LifecycleInv, NEW d \in Droppers, dropPrefixes(d) PROVE LifecycleInv'
<1>1. /\ dp[d].pc = "levels" /\ inLevels' = withoutPrefix(inLevels) /\ dropGoesTo(d, "resume")
      /\ UNCHANGED <<chanVars, lw, flushing, compacting, inMem, inHot, everHot, closing, lhistVars>>
  BY DEF dropPrefixes
<1>2. /\ dwPc = "off" /\ Advances(d, "resume") /\ dp'[d].reqs = dp[d].reqs
      /\ inMem = {} /\ dp[d].kind = "prefix" /\ ackedItems \cap covers(d) \subseteq excused
  BY <1>1, DropAdvances, OffOrDrop DEF LifecycleInv, ChannelHanded, DropProgress
<1>3. ChannelHanded' /\ RequestsOnce' /\ \A e \in Droppers \ {d} : dp'[e].pc = "off"
  BY <1>1, <1>2, AloneKeeps DEF lhistVars
<1>4. LifecycleType'
  BY <1>1, <1>2 DEF LifecycleInv, LifecycleType, Drops, Advances, chanVars, lhistVars, withoutPrefix
<1>5. DropProgress'
  BY <1>1, <1>2, <1>3 DEF DropProgress, Advances, covers, withoutPrefix
<1>6. DropDropsCold' /\ AckedKept'
  BY <1>1, <1>2 DEF LifecycleInv, LifecycleType, DropDropsCold, AckedKept, lhistVars, covers, withoutPrefix
<1>. QED BY <1>3, <1>4, <1>5, <1>6 DEF LifecycleInv

(* The first dropper finds no other: writes are blocked while one works.   *)
LEMMA BlockKeeps ==
  ASSUME LifecycleInv, NEW d \in Droppers, NEW kind \in {"all", "prefix"}, blockWrite(d, kind) PROVE LifecycleInv'
<1>1. /\ dp[d] = Off /\ closing = "no"
      /\ UNCHANGED <<chClosed, writeCh, lw, dwPc, dwReqs, pendingBatch, flushing, compacting, dataVars, closing, lhistVars>>
  BY DEF blockWrite
<1>2. CASE blockWrites
  <2>1. UNCHANGED lifeVars
    BY <1>1, <1>2 DEF blockWrite, lifeVars, dataVars, lhistVars
  <2>2. UNCHANGED <<chanVars, dp, closing>> /\ \A e \in Droppers : drained(e)' = drained(e)
    BY <2>1 DEF lifeVars, chanVars, drained
  <2>3. RequestsOnce'
    BY <2>1, <2>2, RequestsFrame DEF LifecycleInv, lifeVars, RequestsOnce
  <2>4. ChannelHanded'
    BY <2>2, ChannelFrame DEF LifecycleInv
  <2>. QED BY <2>1, <2>3, <2>4 DEF LifecycleInv, lifeVars, LifecycleType, Drops, DropProgress, covers,
              DropDropsCold, AckedKept
<1>3. CASE ~ blockWrites
  <2>. DEFINE r == [pc |-> "wait", kind |-> kind, reqs |-> {}, before |-> ackedItems]
  <2>1. blockWrites' = TRUE /\ signalled' = TRUE /\ dp' = [dp EXCEPT ![d] = r]
    BY <1>3 DEF blockWrite
  <2>2. r \in Drops /\ r # Off /\ r.pc = "wait" /\ r.reqs = {}
    BY DEF LifecycleInv, LifecycleType, Drops, Off
  <2>. HIDE DEF r
  <2>3. \A e \in Droppers : dp[e] = Off /\ dp[e].pc = "off"
    BY <1>3 DEF LifecycleInv, ChannelHanded, Off
  <2>4. dp' \in [Droppers -> {Off} \cup Drops] /\ dp'[d] = r /\ \A e \in Droppers \ {d} : dp'[e] = Off /\ dp'[e].pc = "off"
    BY <2>1, <2>2, <2>3 DEF LifecycleInv, LifecycleType
  <2>5. LifecycleType'
    BY <1>1, <2>1, <2>4 DEF LifecycleInv, LifecycleType, Drops, dataVars, lhistVars
  <2>6. ChannelHanded'
    BY <1>1, <2>1, <2>2, <2>4 DEF LifecycleInv, ChannelHanded
  <2>7. \A e \in Droppers : drained(e)' = drained(e) /\ (dp'[e].pc = "wait" => dp'[e].reqs = {})
    BY <2>2, <2>3, <2>4 DEF drained
  <2>8. RequestsOnce'
    BY <1>1, <2>7, RequestsFrame DEF LifecycleInv, lhistVars
  <2>9. DropProgress' /\ DropDropsCold' /\ AckedKept'
    BY <1>1, <2>2, <2>4 DEF LifecycleInv, DropProgress, DropDropsCold, AckedKept, dataVars, lhistVars
  <2>. QED BY <2>5, <2>6, <2>8, <2>9 DEF LifecycleInv
<1>. QED BY <1>2, <1>3

(* A new doWrites takes the channel; the drop counts as done.              *)
LEMMA UnblockKeeps == ASSUME LifecycleInv, NEW d \in Droppers, unblockWrite(d) PROVE LifecycleInv'
<1>1. /\ dp[d].pc = "resume" /\ dp' = [dp EXCEPT ![d] = Off]
      /\ compacting' = TRUE /\ flushing' = TRUE
      /\ dwPc' = "run" /\ signalled' = FALSE /\ blockWrites' = FALSE
      /\ gone' = gone \cup (dp[d].before \cap covers(d))
      /\ UNCHANGED <<chClosed, writeCh, lw, dwReqs, pendingBatch, dataVars, closing, ackedItems, excused>>
  BY DEF unblockWrite
<1>2. dp[d] \in Drops /\ dp[d] # Off /\ \A e \in Droppers \ {d} : dp[e] = Off
  BY <1>1, OffOrDrop DEF LifecycleInv, ChannelHanded
<1>3. Off.pc = "off" /\ \A e \in Droppers : dp'[e] = Off
  BY <1>1, <1>2 DEF LifecycleInv, LifecycleType, Off
<1>4. dp' \in [Droppers -> {Off} \cup Drops'] /\ dp[d].before \subseteq ackedItems
  BY <1>1, <1>2 DEF LifecycleInv, LifecycleType, Drops
<1>5. LifecycleType'
  BY <1>1, <1>4 DEF LifecycleInv, LifecycleType, covers, dataVars
<1>6. ChannelHanded'
  BY <1>1, <1>3 DEF LifecycleInv, ChannelHanded
<1>7. \A e \in Droppers : drained(e)' = drained(e) /\ (dp'[e].pc = "wait" => dp'[e].reqs = {})
  BY <1>1, <1>2, <1>3 DEF drained
<1>8. RequestsOnce'
  BY <1>1, <1>7, RequestsFrame DEF LifecycleInv
<1>9. DropProgress' /\ AckedKept'
  BY <1>1, <1>3 DEF LifecycleInv, DropProgress, AckedKept, dataVars
<1>10. DropDropsCold'
  <2>1. (inMem \cup inLevels) \cap covers(d) \subseteq everHot /\ inHot \subseteq everHot
    BY <1>1 DEF LifecycleInv, LifecycleType, DropProgress
  <2>. QED BY <1>1, <2>1 DEF LifecycleInv, DropDropsCold, dataVars
<1>. QED BY <1>5, <1>6, <1>8, <1>9, <1>10 DEF LifecycleInv

-----------------------------------------------------------------------------
(* Close.  It starts when no drop is running, and it does not touch data.  *)
LEMMA CloseKeeps == ASSUME LifecycleInv, closeStep PROVE LifecycleInv'
<1>1. UNCHANGED <<writeCh, lw, dwPc, dwReqs, pendingBatch, dataVars, dp, lhistVars>>
  BY DEF closeStep, startClose, closeWriteCh, closeFlushed, chanVars, dataVars, lhistVars
<1>2. {blockWrites', chClosed', signalled', flushing', compacting'} \subseteq BOOLEAN /\ closing' \in {"no", "wait", "flush", "closed"}
  BY DEF LifecycleInv, LifecycleType, closeStep, startClose, closeWriteCh, closeFlushed, chanVars
<1>3. LifecycleType'
  BY <1>1, <1>2 DEF LifecycleInv, LifecycleType, Drops, dataVars, lhistVars
<1>4. ChannelHanded'
  BY <1>1 DEF LifecycleInv, LifecycleType, ChannelHanded, closeStep, startClose, closeWriteCh, closeFlushed, chanVars
<1>5. RequestsOnce'
  BY <1>1, RequestsFrame DEF LifecycleInv, drained, lhistVars, RequestsOnce
<1>6. DropProgress'
  BY <1>1 DEF LifecycleInv, DropProgress, covers, dataVars, lhistVars
<1>7. DropDropsCold' /\ AckedKept'
  BY <1>1 DEF LifecycleInv, DropDropsCold, AckedKept, dataVars, lhistVars
<1>. QED BY <1>3, <1>4, <1>5, <1>6, <1>7 DEF LifecycleInv

-----------------------------------------------------------------------------
(* A write of requests that were on their way and no longer are: their     *)
(* writers go on, nobody else's do, and none of them was acknowledged, so  *)
(* none of them is gone.                                                   *)
LEMMA WriteKeeps ==
  ASSUME LifecycleInv, NEW items \in SUBSET Items, \A i \in items : onTheWay(i), writeItems(items),
         \A i \in Items : onTheWay(i)' => onTheWay(i) /\ i \notin items,
         dwReqs' \subseteq dwReqs, pendingBatch' \subseteq pendingBatch,
         \A d \in Droppers : drained(d)' \subseteq drained(d) /\ (dp'[d].pc = "wait" => dp[d].pc = "wait" /\ dp'[d].reqs = dp[d].reqs),
         UNCHANGED <<writeCh, inLevels, inHot, everHot, gone, excused>>
  PROVE  /\ RequestsOnce' /\ DropDropsCold' /\ AckedKept'
         /\ lw' \in [LWriters -> Writers] /\ ackedItems' = ackedItems \cup items /\ inMem' = inMem \cup items
<1>1. /\ lw' \in [LWriters -> Writers]
      /\ \A w \in LWriters :
           /\ lw'[w].n = lw[w].n /\ lw'[w].item = lw[w].item
           /\ lw'[w].pc = IF lw[w].pc = "sent" /\ lw[w].item \in items THEN "idle" ELSE lw[w].pc
  BY WritersWake DEF LifecycleInv
<1>2. inMem' = inMem \cup items /\ ackedItems' = ackedItems \cup items
  BY DEF writeItems
<1>3. \A i \in Items : i.w \in LWriters
  BY DEF Items
<1>4. \A i \in items : lw[i.w].pc = "sent" /\ lw[i.w].item = i /\ i \notin ackedItems /\ i.n = lw[i.w].n
  BY <1>3 DEF LifecycleInv, RequestsOnce
<1>5. RequestsOnce'
  <2>1. \A i \in Items : onTheWay(i)' => lw'[i.w].pc = "sent" /\ lw'[i.w].item = i
    BY <1>1, <1>3 DEF LifecycleInv, RequestsOnce
  <2>2. ASSUME NEW w \in LWriters, lw'[w].pc \in {"checked", "sent"}
        PROVE  lw'[w].item \in Items \ ackedItems' /\ lw'[w].item.w = w /\ lw'[w].item.n = lw'[w].n
    <3>1. lw[w].pc \in {"checked", "sent"} /\ lw[w].item \in Items \ ackedItems /\ lw[w].item.w = w /\ lw[w].item.n = lw[w].n
      BY <1>1, <2>2 DEF LifecycleInv, RequestsOnce
    <3>2. lw[w].item \notin items
      BY <1>1, <1>4, <2>2, <3>1
    <3>. QED BY <1>1, <1>2, <3>1, <3>2
  <2>3. \A i \in ackedItems' : i.n <= lw'[i.w].n
    <3>1. ASSUME NEW i \in ackedItems PROVE i.n <= lw'[i.w].n
      BY <1>1, <1>3 DEF LifecycleInv, RequestsOnce, LifecycleType
    <3>2. ASSUME NEW i \in items PROVE i.n <= lw'[i.w].n
      BY <1>1, <1>3, <1>4 DEF Items
    <3>. QED BY <1>2, <3>1, <3>2
  <2>4. dwReqs' \cap pendingBatch' = {}
    BY DEF LifecycleInv, RequestsOnce
  <2>5. \A k \in 1 .. Len(writeCh') :
          /\ writeCh'[k] \notin dwReqs' \cup pendingBatch' /\ \A d \in Droppers : writeCh'[k] \notin drained(d)'
          /\ \A j \in 1 .. Len(writeCh') : writeCh'[j] = writeCh'[k] => j = k
    BY DEF LifecycleInv, RequestsOnce
  <2>6. \A d \in Droppers : dp'[d].pc = "wait" => dp'[d].reqs = {}
    BY DEF LifecycleInv, RequestsOnce
  <2>. QED BY <2>1, <2>2, <2>3, <2>4, <2>5, <2>6 DEF RequestsOnce
<1>6. DropDropsCold'
  BY <1>2, <1>4 DEF LifecycleInv, LifecycleType, DropDropsCold
<1>7. AckedKept'
  BY <1>2 DEF LifecycleInv, AckedKept
<1>. QED BY <1>1, <1>2, <1>5, <1>6, <1>7

LEMMA WriteBatchKeeps == ASSUME LifecycleInv, writeBatch PROVE LifecycleInv'
<1>1. /\ pendingBatch # {} /\ writeItems(pendingBatch) /\ pendingBatch' = {}
      /\ UNCHANGED <<blockWrites, chClosed, writeCh, dwPc, dwReqs, signalled, flushing, compacting,
                     inLevels, inHot, everHot, dp, closing, gone, excused>>
  BY DEF writeBatch
<1>2. \A i \in Items : onTheWay(i)' => onTheWay(i) /\ i \notin pendingBatch
  <2>1. ASSUME NEW i \in pendingBatch, NEW d \in Droppers PROVE i \notin drained(d)
    BY OffOrDrop DEF LifecycleInv, ChannelHanded, drained
  <2>. QED BY <1>1, <2>1 DEF onTheWay, inChannel, drained, LifecycleInv, RequestsOnce
<1>3. pendingBatch \in SUBSET Items /\ \A i \in pendingBatch : onTheWay(i)
  BY DEF onTheWay, LifecycleInv, LifecycleType
<1>4. /\ RequestsOnce' /\ DropDropsCold' /\ AckedKept' /\ lw' \in [LWriters -> Writers]
      /\ ackedItems' = ackedItems \cup pendingBatch /\ inMem' = inMem \cup pendingBatch
  BY <1>1, <1>2, <1>3, WriteKeeps DEF drained
<1>5. LifecycleType'
  BY <1>1, <1>3, <1>4 DEF LifecycleInv, LifecycleType, Drops
<1>6. ChannelHanded'
  BY <1>1 DEF LifecycleInv, ChannelHanded
<1>7. DropProgress'
  BY <1>1, OffOrDrop DEF LifecycleInv, ChannelHanded, DropProgress
<1>. QED BY <1>4, <1>5, <1>6, <1>7 DEF LifecycleInv

LEMMA LastKeeps == ASSUME LifecycleInv, dwLast PROVE LifecycleInv'
<1>1. /\ dwPc = "drain" /\ pendingBatch = {} /\ writeItems(dwReqs) /\ dwReqs' = {} /\ dwPc' = "off"
      /\ UNCHANGED <<blockWrites, chClosed, writeCh, signalled, pendingBatch, flushing, compacting,
                     inLevels, inHot, everHot, dp, closing, gone, excused>>
  BY DEF dwLast
<1>2. \A i \in Items : onTheWay(i)' => onTheWay(i) /\ i \notin dwReqs
  <2>1. ASSUME NEW d \in Droppers PROVE drained(d) = {}
    BY <1>1, OffOrDrop DEF LifecycleInv, ChannelHanded, drained
  <2>. QED BY <1>1, <2>1 DEF onTheWay, inChannel, drained, LifecycleInv, RequestsOnce
<1>3. dwReqs \in SUBSET Items /\ \A i \in dwReqs : onTheWay(i)
  BY DEF onTheWay, LifecycleInv, LifecycleType
<1>4. /\ RequestsOnce' /\ DropDropsCold' /\ AckedKept' /\ lw' \in [LWriters -> Writers]
      /\ ackedItems' = ackedItems \cup dwReqs /\ inMem' = inMem \cup dwReqs
  BY <1>1, <1>2, <1>3, WriteKeeps DEF drained
<1>5. LifecycleType'
  BY <1>1, <1>3, <1>4 DEF LifecycleInv, LifecycleType, Drops
<1>6. ChannelHanded'
  BY <1>1 DEF LifecycleInv, ChannelHanded
<1>7. DropProgress'
  BY <1>1, OffOrDrop DEF LifecycleInv, ChannelHanded, DropProgress
<1>. QED BY <1>4, <1>5, <1>6, <1>7 DEF LifecycleInv

(* prepareToDrop writes what it has drained.                               *)
LEMMA PrepareKeeps == ASSUME LifecycleInv, NEW d \in Droppers, prepareToDrop(d) PROVE LifecycleInv'
<1>1. /\ dp[d].pc = "drain" /\ writeItems(dp[d].reqs) /\ flushing' = FALSE /\ dropGoesTo(d, "prepared")
      /\ UNCHANGED <<chanVars, compacting, inLevels, inHot, everHot, closing, gone, excused>>
  BY DEF prepareToDrop
<1>2. dp[d] \in Drops /\ dp[d] # Off /\ dwPc = "off" /\ (\A e \in Droppers \ {d} : dp[e] = Off)
  BY <1>1, OffOrDrop DEF LifecycleInv, ChannelHanded
<1>3. Advances(d, "prepared") /\ dp'[d].reqs = dp[d].reqs
  BY <1>1, DropAdvances DEF LifecycleInv
<1>4. drained(d) = dp[d].reqs /\ drained(d)' = {} /\ \A e \in Droppers \ {d} : drained(e) = {} /\ drained(e)' = {}
  BY <1>1, <1>2, <1>3 DEF drained, Advances, Off
<1>5. \A i \in Items : onTheWay(i)' => onTheWay(i) /\ i \notin dp[d].reqs
  <2>1. dwReqs' = {} /\ pendingBatch' = {} /\ writeCh' = writeCh
    BY <1>1, <1>2 DEF LifecycleInv, ChannelHanded, chanVars
  <2>2. \A i \in Items : onTheWay(i)' => inChannel(i)
    BY <1>4, <2>1 DEF onTheWay, inChannel
  <2>3. \A i \in Items : inChannel(i) => i \notin drained(d)
    BY DEF inChannel, LifecycleInv, RequestsOnce
  <2>. QED BY <1>4, <2>2, <2>3 DEF onTheWay
<1>6. dp[d].reqs \in SUBSET Items /\ \A i \in dp[d].reqs : onTheWay(i)
  BY <1>2, <1>4 DEF onTheWay, Drops
<1>7. \A e \in Droppers : drained(e)' \subseteq drained(e) /\ dp'[e].pc # "wait"
  BY <1>2, <1>3, <1>4 DEF Advances, Off
<1>8. /\ RequestsOnce' /\ DropDropsCold' /\ AckedKept' /\ lw' \in [LWriters -> Writers]
      /\ ackedItems' = ackedItems \cup dp[d].reqs /\ inMem' = inMem \cup dp[d].reqs
  BY <1>1, <1>5, <1>6, <1>7, WriteKeeps DEF chanVars
<1>9. LifecycleType'
  <2>1. dp' \in [Droppers -> {Off} \cup Drops']
    BY <1>3, <1>8 DEF Advances, Drops
  <2>. QED BY <1>1, <1>6, <1>8, <2>1 DEF LifecycleInv, LifecycleType, chanVars
<1>10. ChannelHanded'
  BY <1>1, <1>2, <1>3 DEF LifecycleInv, ChannelHanded, Advances, chanVars
<1>11. DropProgress'
  BY <1>2, <1>3 DEF DropProgress, Advances, Off
<1>. QED BY <1>8, <1>9, <1>10, <1>11 DEF LifecycleInv

-----------------------------------------------------------------------------
(* The first request leaves the channel.                                   *)
LEMMA HeadLeaves ==
  ASSUME NEW s \in Seq(Items), s # <<>>
  PROVE  /\ Head(s) = s[1] /\ s[1] \in Items /\ Tail(s) \in Seq(Items) /\ Len(s) \in Nat \ {0}
         /\ Len(Tail(s)) = Len(s) - 1 /\ \A k \in 1 .. Len(Tail(s)) : Tail(s)[k] = s[k + 1]
OBVIOUS

(* A request that moves from the channel to doWrites, or to the dropper,   *)
(* is still in one place.                                                  *)
LEMMA ReceiveKeeps ==
  ASSUME LifecycleInv, writeCh # <<>>, writeCh' = Tail(writeCh), UNCHANGED <<lw, pendingBatch, ackedItems>>,
         \A d \in Droppers : dp'[d].pc = "wait" => dp[d].pc = "wait" /\ dp'[d].reqs = dp[d].reqs,
         \/ /\ dwReqs' = dwReqs \cup {Head(writeCh)} /\ \A d \in Droppers : drained(d)' = drained(d)
         \/ /\ dwReqs' = dwReqs
            /\ \E d \in Droppers :
                 /\ drained(d)' = drained(d) \cup {Head(writeCh)}
                 /\ \A e \in Droppers \ {d} : drained(e)' = drained(e)
  PROVE  RequestsOnce' /\ writeCh' \in Seq(Items) /\ Head(writeCh) \in Items
<1>. DEFINE i == Head(writeCh)
<1>1. /\ i = writeCh[1] /\ i \in Items /\ writeCh' \in Seq(Items) /\ Len(writeCh) \in Nat \ {0}
      /\ Len(writeCh') = Len(writeCh) - 1 /\ \A k \in 1 .. Len(writeCh') : writeCh'[k] = writeCh[k + 1]
  BY HeadLeaves DEF LifecycleInv, LifecycleType
<1>. HIDE DEF i
<1>2. /\ \A k \in 1 .. Len(writeCh') : k + 1 \in 1 .. Len(writeCh) /\ k + 1 # 1
      /\ 1 \in 1 .. Len(writeCh)
  BY <1>1
<1>3. \A k \in 1 .. Len(writeCh') : writeCh'[k] # i /\ inChannel(writeCh'[k])
  BY <1>1, <1>2 DEF LifecycleInv, RequestsOnce, inChannel
<1>4. inChannel(i) /\ \A j \in Items : inChannel(j)' => inChannel(j)
  BY <1>1, <1>2 DEF inChannel
<1>5. \A j \in Items : onTheWay(j)' => onTheWay(j)
  BY <1>4 DEF onTheWay, i
<1>6. \A j \in Items : onTheWay(j)' => lw'[j.w].pc = "sent" /\ lw'[j.w].item = j
  BY <1>5 DEF LifecycleInv, RequestsOnce
<1>7. dwReqs' \cap pendingBatch' = {}
  BY <1>1, <1>2 DEF LifecycleInv, RequestsOnce, i
<1>8. \A k \in 1 .. Len(writeCh') :
        /\ writeCh'[k] \notin dwReqs' \cup pendingBatch' /\ \A d \in Droppers : writeCh'[k] \notin drained(d)'
        /\ \A j \in 1 .. Len(writeCh') : writeCh'[j] = writeCh'[k] => j = k
  <2>1. ASSUME NEW k \in 1 .. Len(writeCh')
        PROVE  /\ writeCh'[k] \notin dwReqs \cup pendingBatch /\ \A d \in Droppers : writeCh'[k] \notin drained(d)
               /\ \A j \in 1 .. Len(writeCh') : writeCh'[j] = writeCh'[k] => j = k
    BY <1>1, <1>2 DEF LifecycleInv, RequestsOnce
  <2>2. /\ dwReqs' \cup pendingBatch' \subseteq dwReqs \cup pendingBatch \cup {i}
        /\ \A d \in Droppers : drained(d)' \subseteq drained(d) \cup {i}
    BY DEF i
  <2>3. \A k \in 1 .. Len(writeCh') : writeCh'[k] # i
    BY <1>3
  <2>. QED BY <2>1, <2>2, <2>3
<1>9. \A d \in Droppers : dp'[d].pc = "wait" => dp'[d].reqs = {}
  BY DEF LifecycleInv, RequestsOnce
<1>10. /\ \A j \in ackedItems' : j.n <= lw'[j.w].n
       /\ \A w \in LWriters : lw'[w].pc \in {"checked", "sent"} =>
            lw'[w].item \in Items \ ackedItems' /\ lw'[w].item.w = w /\ lw'[w].item.n = lw'[w].n
  BY DEF LifecycleInv, RequestsOnce
<1>. QED BY <1>1, <1>6, <1>7, <1>8, <1>9, <1>10 DEF RequestsOnce, i

LEMMA DrainKeeps == ASSUME LifecycleInv, NEW d \in Droppers, drainOne(d) PROVE LifecycleInv'
<1>. DEFINE i == Head(writeCh)
            r == [dp[d] EXCEPT !.reqs = dp[d].reqs \cup {i}]
<1>1. /\ dp[d].pc = "drain" /\ writeCh # <<>> /\ writeCh' = Tail(writeCh) /\ dp' = [dp EXCEPT ![d] = r]
      /\ UNCHANGED <<blockWrites, chClosed, lw, dwPc, dwReqs, signalled, pendingBatch, flushing, compacting,
                     dataVars, closing, lhistVars>>
  BY DEF drainOne
<1>2. i \in Items /\ Tail(writeCh) \in Seq(Items)
  BY <1>1, HeadLeaves DEF LifecycleInv, LifecycleType
<1>3. dp[d] \in Drops /\ dp[d] # Off /\ dwPc = "off" /\ (\A e \in Droppers \ {d} : dp[e] = Off)
  BY <1>1, OffOrDrop DEF LifecycleInv, ChannelHanded
<1>. HIDE DEF i
<1>4. r \in Drops /\ r.pc = "drain" /\ r.reqs = dp[d].reqs \cup {i} /\ r.kind = dp[d].kind /\ r # Off
  <2>1. r \in Drops /\ r.pc = "drain" /\ r.reqs = dp[d].reqs \cup {i} /\ r.kind = dp[d].kind
    BY <1>1, <1>2, <1>3 DEF Drops
  <2>. QED BY <2>1 DEF Off
<1>. HIDE DEF r
<1>5. dp' \in [Droppers -> {Off} \cup Drops] /\ dp'[d] = r /\ \A e \in Droppers \ {d} : dp'[e] = Off
  BY <1>1, <1>3, <1>4 DEF LifecycleInv, LifecycleType
<1>6. /\ drained(d)' = drained(d) \cup {Head(writeCh)} /\ \A e \in Droppers \ {d} : drained(e)' = drained(e)
      /\ \A e \in Droppers : dp'[e].pc # "wait"
  BY <1>1, <1>3, <1>4, <1>5 DEF drained, Off, i
<1>7. RequestsOnce'
  BY <1>1, <1>6, ReceiveKeeps DEF lhistVars
<1>8. LifecycleType'
  BY <1>1, <1>2, <1>5 DEF LifecycleInv, LifecycleType, Drops, dataVars, lhistVars
<1>9. ChannelHanded'
  BY <1>1, <1>3, <1>4, <1>5 DEF LifecycleInv, ChannelHanded
<1>10. DropProgress'
  BY <1>4, <1>5 DEF DropProgress, Off
<1>11. DropDropsCold' /\ AckedKept'
  BY <1>1 DEF LifecycleInv, DropDropsCold, AckedKept, dataVars, lhistVars
<1>. QED BY <1>7, <1>8, <1>9, <1>10, <1>11 DEF LifecycleInv

LEMMA CollectKeeps == ASSUME LifecycleInv, dwReceive \/ dwDrain PROVE LifecycleInv'
<1>1. /\ dwPc \in {"run", "drain"} /\ writeCh # <<>> /\ dwReqs' = dwReqs \cup {Head(writeCh)} /\ writeCh' = Tail(writeCh)
      /\ UNCHANGED <<blockWrites, chClosed, lw, dwPc, signalled, pendingBatch, flushing, compacting, dataVars,
                     dp, closing, lhistVars>>
  BY DEF dwReceive, dwDrain
<1>2. RequestsOnce' /\ writeCh' \in Seq(Items) /\ Head(writeCh) \in Items
  BY <1>1, ReceiveKeeps DEF drained, lhistVars
<1>3. LifecycleType'
  BY <1>1, <1>2 DEF LifecycleInv, LifecycleType, Drops, dataVars, lhistVars
<1>4. ChannelHanded'
  BY <1>1 DEF LifecycleInv, ChannelHanded
<1>5. DropProgress' /\ DropDropsCold' /\ AckedKept'
  BY <1>1 DEF LifecycleInv, DropProgress, DropDropsCold, AckedKept, covers, dataVars, lhistVars
<1>. QED BY <1>2, <1>3, <1>4, <1>5 DEF LifecycleInv

LEMMA SpawnKeeps == ASSUME LifecycleInv, dwSpawn PROVE LifecycleInv'
<1>1. /\ dwPc = "run" /\ pendingBatch = {} /\ pendingBatch' = dwReqs /\ dwReqs' = {}
      /\ UNCHANGED <<blockWrites, chClosed, writeCh, lw, dwPc, signalled, flushing, compacting, dataVars,
                     dp, closing, lhistVars>>
  BY DEF dwSpawn
<1>2. \A i \in Items : onTheWay(i)' <=> onTheWay(i)
  BY <1>1 DEF onTheWay, inChannel, drained
<1>3. RequestsOnce'
  BY <1>1, <1>2 DEF LifecycleInv, RequestsOnce, drained, lhistVars
<1>4. LifecycleType'
  BY <1>1 DEF LifecycleInv, LifecycleType, Drops, dataVars, lhistVars
<1>5. ChannelHanded'
  BY <1>1 DEF LifecycleInv, ChannelHanded
<1>6. DropProgress' /\ DropDropsCold' /\ AckedKept'
  BY <1>1 DEF LifecycleInv, DropProgress, DropDropsCold, AckedKept, covers, dataVars, lhistVars
<1>. QED BY <1>3, <1>4, <1>5, <1>6 DEF LifecycleInv

LEMMA ClosedKeeps == ASSUME LifecycleInv, dwClosed PROVE LifecycleInv'
<1>1. /\ dwPc = "run" /\ signalled /\ dwPc' = "drain"
      /\ UNCHANGED <<blockWrites, chClosed, writeCh, lw, dwReqs, signalled, pendingBatch, flushing, compacting,
                     dataVars, dp, closing, lhistVars>>
  BY DEF dwClosed
<1>2. RequestsOnce'
  BY <1>1, RequestsFrame DEF LifecycleInv, drained, lhistVars, RequestsOnce
<1>3. LifecycleType'
  BY <1>1 DEF LifecycleInv, LifecycleType, Drops, dataVars, lhistVars
<1>4. ChannelHanded'
  BY <1>1 DEF LifecycleInv, ChannelHanded
<1>5. DropProgress' /\ DropDropsCold' /\ AckedKept'
  BY <1>1 DEF LifecycleInv, DropProgress, DropDropsCold, AckedKept, covers, dataVars, lhistVars
<1>. QED BY <1>2, <1>3, <1>4, <1>5 DEF LifecycleInv

-----------------------------------------------------------------------------
(* A request is new: its number is above those of the writer's earlier     *)
(* ones.                                                                   *)
LEMMA CheckKeeps ==
  ASSUME LifecycleInv, NEW w \in LWriters, NEW k \in LKeys, NEW commit \in BOOLEAN, checkBlocked(w, k, commit)
  PROVE  LifecycleInv'
<1>. USE LifecycleAssumption
<1>. DEFINE n == lw[w].n + 1
            i == [w |-> w, n |-> n, key |-> k, commit |-> commit]
            r == [pc |-> IF blockWrites THEN "idle" ELSE "checked", n |-> n, item |-> i]
<1>1. /\ lw[w].pc = "idle" /\ lw[w].n < LMaxReq /\ lw' = [lw EXCEPT ![w] = r]
      /\ UNCHANGED <<chanVars, flushing, compacting, dataVars, dp, closing, lhistVars>>
  BY DEF checkBlocked
<1>2. lw[w].n \in 0 .. LMaxReq /\ n \in 1 .. LMaxReq
  BY <1>1 DEF LifecycleInv, LifecycleType, Writers
<1>3. i \in Items /\ i.w = w /\ i.n = n
  BY <1>2 DEF Items
<1>4. r \in Writers /\ r.pc \in {"idle", "checked"} /\ r.n = n /\ r.item = i
  BY <1>2, <1>3 DEF Writers
<1>5. i \notin ackedItems
  BY <1>2, <1>3 DEF LifecycleInv, RequestsOnce
<1>. HIDE DEF i, r
<1>6. lw' \in [LWriters -> Writers] /\ lw'[w] = r /\ \A v \in LWriters \ {w} : lw'[v] = lw[v]
  BY <1>1, <1>4 DEF LifecycleInv, LifecycleType
<1>7. \A j \in Items : j.w \in LWriters
  BY DEF Items
<1>8. RequestsOnce'
  <2>1. \A j \in Items : onTheWay(j)' <=> onTheWay(j)
    BY <1>1 DEF onTheWay, inChannel, drained, chanVars
  <2>2. \A j \in Items : onTheWay(j)' => lw'[j.w].pc = "sent" /\ lw'[j.w].item = j
    BY <1>1, <1>6, <1>7, <2>1 DEF LifecycleInv, RequestsOnce
  <2>3. \A v \in LWriters : lw'[v].pc \in {"checked", "sent"} =>
          lw'[v].item \in Items \ ackedItems' /\ lw'[v].item.w = v /\ lw'[v].item.n = lw'[v].n
    BY <1>1, <1>3, <1>4, <1>5, <1>6 DEF LifecycleInv, RequestsOnce, lhistVars
  <2>4. \A j \in ackedItems' : j.n <= lw'[j.w].n
    <3>1. ASSUME NEW j \in ackedItems PROVE j.n <= lw'[j.w].n
      <4>1. j.n \in Int /\ j.n <= lw[j.w].n /\ j.w \in LWriters
        BY DEF LifecycleInv, LifecycleType, RequestsOnce, Items
      <4>2. CASE j.w = w
        BY <1>2, <1>4, <1>6, <4>1, <4>2
      <4>3. CASE j.w # w
        BY <1>6, <4>1, <4>3
      <4>. QED BY <4>2, <4>3
    <3>. QED BY <1>1, <3>1 DEF lhistVars
  <2>. QED BY <1>1, <2>2, <2>3, <2>4 DEF LifecycleInv, RequestsOnce, drained, chanVars
<1>9. LifecycleType'
  BY <1>1, <1>6 DEF LifecycleInv, LifecycleType, Drops, chanVars, dataVars, lhistVars
<1>10. ChannelHanded'
  BY <1>1, ChannelFrame DEF LifecycleInv
<1>11. DropProgress' /\ DropDropsCold' /\ AckedKept'
  BY <1>1 DEF LifecycleInv, DropProgress, DropDropsCold, AckedKept, covers, dataVars, lhistVars
<1>. QED BY <1>8, <1>9, <1>10, <1>11 DEF LifecycleInv

LEMMA SendKeeps == ASSUME LifecycleInv, NEW w \in LWriters, sendReq(w) PROVE LifecycleInv'
<1>. DEFINE p == IF chClosed THEN "panic" ELSE "sent"
            r == [lw[w] EXCEPT !.pc = p]
            i == lw[w].item
<1>1. /\ lw[w].pc = "checked" /\ lw' = [lw EXCEPT ![w] = r]
      /\ writeCh' = IF chClosed THEN writeCh ELSE Append(writeCh, i)
      /\ UNCHANGED <<blockWrites, chClosed, dwPc, dwReqs, signalled, pendingBatch, flushing, compacting,
                     dataVars, dp, closing, lhistVars>>
  BY DEF sendReq
<1>2. lw[w] \in Writers /\ i \in Items \ ackedItems /\ i.w = w /\ i.n = lw[w].n
  BY <1>1 DEF LifecycleInv, LifecycleType, RequestsOnce
<1>3. r \in Writers /\ r.pc = p /\ r.n = lw[w].n /\ r.item = i
  BY <1>2 DEF Writers
<1>4. ~ onTheWay(i)
  BY <1>1, <1>2 DEF LifecycleInv, RequestsOnce
<1>. HIDE DEF r, i
<1>5. lw' \in [LWriters -> Writers] /\ lw'[w] = r /\ \A v \in LWriters \ {w} : lw'[v] = lw[v]
  BY <1>1, <1>3 DEF LifecycleInv, LifecycleType
<1>6. \A j \in Items : j.w \in LWriters
  BY DEF Items
<1>7. \A v \in LWriters : lw'[v].pc \in {"checked", "sent"} =>
        lw'[v].item \in Items \ ackedItems' /\ lw'[v].item.w = v /\ lw'[v].item.n = lw'[v].n
  BY <1>1, <1>2, <1>3, <1>5 DEF LifecycleInv, RequestsOnce, lhistVars, i
<1>8. \A j \in ackedItems' : j.n <= lw'[j.w].n
  BY <1>1, <1>3, <1>5 DEF LifecycleInv, RequestsOnce, LifecycleType, lhistVars, Items
<1>9. RequestsOnce' /\ writeCh' \in Seq(Items)
  <2>1. CASE chClosed
    <3>1. \A j \in Items : onTheWay(j)' <=> onTheWay(j)
      BY <1>1, <2>1 DEF onTheWay, inChannel, drained
    <3>2. \A j \in Items : onTheWay(j)' => lw'[j.w].pc = "sent" /\ lw'[j.w].item = j
      BY <1>1, <1>5, <1>6, <3>1 DEF LifecycleInv, RequestsOnce
    <3>3. writeCh' = writeCh
      BY <1>1, <2>1
    <3>. QED BY <1>1, <1>7, <1>8, <3>2, <3>3 DEF LifecycleInv, LifecycleType, RequestsOnce, drained
  <2>2. CASE ~ chClosed
    <3>1. /\ writeCh' \in Seq(Items) /\ Len(writeCh) \in Nat /\ Len(writeCh') = Len(writeCh) + 1
          /\ writeCh'[Len(writeCh) + 1] = i /\ \A k \in 1 .. Len(writeCh) : writeCh'[k] = writeCh[k]
      BY <1>1, <1>2, <2>2 DEF LifecycleInv, LifecycleType
    <3>2. \A k \in 1 .. Len(writeCh') : k = Len(writeCh) + 1 \/ k \in 1 .. Len(writeCh)
      BY <3>1
    <3>3. \A j \in Items : onTheWay(j)' => onTheWay(j) \/ j = i
      BY <1>1, <3>1, <3>2 DEF onTheWay, inChannel, drained
    <3>4. \A j \in Items : onTheWay(j)' => lw'[j.w].pc = "sent" /\ lw'[j.w].item = j
      <4>1. lw'[i.w].pc = "sent" /\ lw'[i.w].item = i
        BY <1>2, <1>3, <1>5, <2>2 DEF i
      <4>2. \A j \in Items : onTheWay(j) => j.w # w
        BY <1>1 DEF LifecycleInv, RequestsOnce
      <4>. QED BY <1>5, <1>6, <3>3, <4>1, <4>2 DEF LifecycleInv, RequestsOnce
    <3>5. \A k \in 1 .. Len(writeCh) : inChannel(writeCh[k]) /\ writeCh[k] \in Items
      BY DEF inChannel, LifecycleInv, LifecycleType
    <3>6. \A k \in 1 .. Len(writeCh') :
            /\ writeCh'[k] \notin dwReqs' \cup pendingBatch' /\ \A d \in Droppers : writeCh'[k] \notin drained(d)'
            /\ \A j \in 1 .. Len(writeCh') : writeCh'[j] = writeCh'[k] => j = k
      <4>1. i \notin dwReqs \cup pendingBatch /\ \A d \in Droppers : i \notin drained(d)
        BY <1>4 DEF onTheWay
      <4>2. \A k \in 1 .. Len(writeCh) : writeCh[k] # i
        BY <1>4, <3>5 DEF onTheWay
      <4>. QED BY <1>1, <3>1, <3>2, <4>1, <4>2 DEF LifecycleInv, RequestsOnce, drained
    <3>. QED BY <1>1, <1>7, <1>8, <3>1, <3>4, <3>6 DEF LifecycleInv, RequestsOnce
  <2>. QED BY <2>1, <2>2
<1>10. LifecycleType'
  BY <1>1, <1>5, <1>9 DEF LifecycleInv, LifecycleType, Drops, dataVars, lhistVars
<1>11. ChannelHanded'
  BY <1>1 DEF LifecycleInv, ChannelHanded
<1>12. DropProgress' /\ DropDropsCold' /\ AckedKept'
  BY <1>1 DEF LifecycleInv, DropProgress, DropDropsCold, AckedKept, covers, dataVars, lhistVars
<1>. QED BY <1>9, <1>10, <1>11, <1>12 DEF LifecycleInv

-----------------------------------------------------------------------------
(* Writers, doWrites, flushes and evictions, drops and Close keep the      *)
(* channel with one reader and every request in one place.                 *)
THEOREM LifecycleInvariant == LifecycleSpec => []LifecycleInv
<1>1. ASSUME LifecycleInv, [LifecycleNext]_lifeVars PROVE LifecycleInv'
  <2>1. CASE writersStep
    BY <1>1, <2>1, CheckKeeps, SendKeeps DEF writersStep
  <2>2. CASE doWritesStep
    BY <1>1, <2>2, CollectKeeps, SpawnKeeps, WriteBatchKeeps, ClosedKeeps, LastKeeps DEF doWritesStep
  <2>3. CASE tierStep
    BY <1>1, <2>3, FlushKeeps, EvictKeeps DEF tierStep
  <2>4. ASSUME NEW d \in Droppers, dropStep(d) PROVE LifecycleInv'
    BY <1>1, <2>4, WaitKeeps, DrainKeeps, PrepareKeeps, DropMemKeeps, DropTreeKeeps, DropNoneKeeps,
       DropPrefixKeeps, DropPrefixesKeeps, UnblockKeeps DEF dropStep
  <2>5. CASE UNCHANGED lifeVars
    BY <1>1, <2>5 DEF LifecycleInv, lifeVars, LifecycleType, Drops, ChannelHanded, RequestsOnce, onTheWay, inChannel,
       drained, DropProgress, covers, DropDropsCold, AckedKept
  <2>. QED BY <1>1, <2>1, <2>2, <2>3, <2>4, <2>5, CloseKeeps, BlockKeeps DEF LifecycleNext
<1>. QED BY <1>1, LifecycleStarts, PTL DEF LifecycleSpec

(* What was committed before DropAll or DropPrefix was called, and never   *)
(* reached the hot tier, is nowhere after it, and does not come back.      *)
THEOREM DropsDropCold == LifecycleSpec => []DropDropsCold
BY LifecycleInvariant, PTL DEF LifecycleInv

(* A write that returned is in a memtable or in a tier, through drops that *)
(* take the write channel over, flushes, evictions and Close, unless a     *)
(* drop that covers it did its work after it.                              *)
THEOREM AckedWritesKept == LifecycleSpec => []AckedKept
BY LifecycleInvariant, PTL DEF LifecycleInv

-----------------------------------------------------------------------------
(* Write batches.                                                          *)

(* What a step does to the callers: one of them gets on with its call, or  *)
(* returns from it.                                                        *)
Calling(c, pc, op, ok) ==
  /\ caller' \in [BatchCallers -> Calls]
  /\ caller'[c].pc = pc /\ caller'[c].op = op /\ caller'[c].ok = ok
  /\ pc \in {"commit", "do", "sent"} /\ op = "set" => caller'[c].e \in BatchEntries
  /\ \A d \in BatchCallers \ {c} : caller'[d] = caller[d]

LEMMA CallSet ==
  ASSUME BatchType, NEW c \in BatchCallers, NEW r \in Calls, caller' = [caller EXCEPT ![c] = r],
         r.pc \in {"commit", "do", "sent"} /\ r.op = "set" => r.e \in BatchEntries
  PROVE  Calling(c, r.pc, r.op, r.ok)
BY DEF BatchType, Calling

LEMMA CallReturns ==
  ASSUME BatchType, NEW c \in BatchCallers, NEW op \in {"none", "set", "flush", "cancel"}, NEW ok \in BOOLEAN,
         caller' = [caller EXCEPT ![c] = [IdleCaller EXCEPT !.op = op, !.ok = ok]]
  PROVE  Calling(c, "idle", op, ok)
<1>. DEFINE r == [IdleCaller EXCEPT !.op = op, !.ok = ok]
<1>1. r \in Calls /\ r.pc = "idle" /\ r.op = op /\ r.ok = ok
  BY DEF IdleCaller, Calls
<1>. HIDE DEF r
<1>2. caller' = [caller EXCEPT ![c] = r]
  BY DEF r
<1>. QED BY <1>1, <1>2, CallSet

LEMMA CallGoesOn ==
  ASSUME BatchType, CallsInOrder, NEW c \in BatchCallers, caller[c].pc \in {"commit", "do", "sent"},
         NEW p \in {"idle", "commit", "do", "sent", "finish"}, caller' = [caller EXCEPT ![c].pc = p]
  PROVE  Calling(c, p, caller[c].op, caller[c].ok)
<1>. DEFINE r == [caller[c] EXCEPT !.pc = p]
<1>1. r \in Calls /\ r.pc = p /\ r.op = caller[c].op /\ r.ok = caller[c].ok /\ r.e = caller[c].e
  BY DEF BatchType, Calls
<1>. HIDE DEF r
<1>2. caller' = [caller EXCEPT ![c] = r]
  BY DEF r
<1>. QED BY <1>1, <1>2, CallSet DEF CallsInOrder

LEMMA CallerFields ==
  ASSUME BatchType, NEW c \in BatchCallers
  PROVE  /\ caller[c].op \in {"none", "set", "flush", "cancel"} /\ caller[c].e \in BatchEntries \cup {"none"}
         /\ caller[c].ok \in BOOLEAN
BY DEF BatchType, Calls

LEMMA BatchStarts == BatchInit => BatchInv
<1>. SUFFICES ASSUME BatchInit PROVE BatchInv
  OBVIOUS
<1>. USE DEF BatchInit
<1>1. IdleCaller \in Calls /\ IdleCaller.pc = "idle" /\ IdleCaller.op = "none" /\ IdleCaller.ok = FALSE
  BY DEF IdleCaller, Calls
<1>2. BatchType
  BY <1>1 DEF BatchType
<1>3. CallsInOrder
  BY <1>1 DEF CallsInOrder
<1>4. NothingDropped /\ FlushCommits
  BY <1>1 DEF NothingDropped, hasFlushed, FlushCommits
<1>. QED BY <1>2, <1>3, <1>4 DEF BatchInv

-----------------------------------------------------------------------------
(* A call that is refused, returns an error, or starts, changes no entry.  *)
LEMMA CallKeeps ==
  ASSUME BatchInv, NEW c \in BatchCallers, NEW pc, NEW op, NEW ok, Calling(c, pc, op, ok), ok \in BOOLEAN,
         UNCHANGED <<batchTxn, inFlight, finish, accepted, committed>>,
         batchErr' \in BOOLEAN, batchErr => batchErr', batchFinished' \in BOOLEAN, batchFinished => batchFinished',
         \A d \in BatchCallers \ {c} : batchLock = d => batchLock' = d /\ batchFinished' = batchFinished,
         pc \in {"commit", "do"} \/ (pc = "finish" /\ op = "cancel") => batchLock' = c, pc # "sent",
         pc = "do" => ~ batchFinished', pc = "finish" => batchFinished' /\ op = "cancel",
         ok => pc = "idle" /\ op # "flush"
  PROVE  BatchInv'
<1>1. BatchType'
  BY DEF BatchInv, BatchType, Calling
<1>2. CallsInOrder'
  BY DEF BatchInv, CallsInOrder, Calling
<1>3. \A d \in BatchCallers : /\ hasFlushed(d)' => hasFlushed(d) /\ caller'[d].ok = caller[d].ok
                              /\ caller'[d].pc = "sent" => caller[d].pc = "sent"
  BY DEF hasFlushed, Calling
<1>4. NothingDropped'
  BY <1>3 DEF BatchInv, BatchType, NothingDropped, running
<1>5. FlushCommits'
  BY DEF BatchInv, FlushCommits, Calling
<1>. QED BY <1>1, <1>2, <1>4, <1>5 DEF BatchInv

LEMMA StartKeeps ==
  ASSUME BatchInv, NEW c \in BatchCallers, Flush(c) \/ Cancel(c) \/ commitCheck(c) \/ doError(c) PROVE BatchInv'
<1>. USE BatchAssumption DEF NoCaller
<1>0. BatchType /\ batchErr \in BOOLEAN /\ batchFinished \in BOOLEAN /\ caller[c].op \in {"none", "set", "flush", "cancel"}
  BY CallerFields DEF BatchInv, BatchType
<1>1. CASE Flush(c)
  <2>. DEFINE r == [pc |-> "commit", op |-> "flush", e |-> "none", ok |-> FALSE]
  <2>1. /\ batchLock = "none" /\ batchLock' = c /\ caller' = [caller EXCEPT ![c] = r]
        /\ UNCHANGED <<batchTxn, batchErr, batchFinished, inFlight, finish, accepted, committed>>
    BY <1>1 DEF Flush, throttleVars, bhistVars
  <2>2. r \in Calls
    BY DEF Calls
  <2>3. Calling(c, "commit", "flush", FALSE)
    BY <1>0, <2>1, <2>2, CallSet
  <2>. QED BY <1>0, <2>1, <2>3, CallKeeps
<1>2. CASE Cancel(c)
  <2>. DEFINE r == [pc |-> "finish", op |-> "cancel", e |-> "none", ok |-> FALSE]
  <2>1. /\ batchLock = "none" /\ batchLock' = c /\ batchFinished' = TRUE /\ caller' = [caller EXCEPT ![c] = r]
        /\ UNCHANGED <<batchTxn, batchErr, inFlight, finish, accepted, committed>>
    BY <1>2 DEF Cancel, throttleVars, bhistVars
  <2>2. r \in Calls
    BY DEF Calls
  <2>3. Calling(c, "finish", "cancel", FALSE)
    BY <1>0, <2>1, <2>2, CallSet
  <2>. QED BY <1>0, <2>1, <2>3, CallKeeps
<1>3. CASE commitCheck(c)
  <2>1. /\ caller[c].pc = "commit" /\ batchLock = c /\ ~ caller[c].ok /\ caller[c].ok \in BOOLEAN
        /\ UNCHANGED <<batchTxn, batchErr, batchFinished, inFlight, finish, accepted, committed>>
    BY <1>0, <1>3, CallerFields DEF commitCheck, throttleVars, bhistVars, BatchInv, CallsInOrder
  <2>2. CASE batchErr \/ batchFinished
    <3>1. batchLock' = "none" /\ Calling(c, "idle", caller[c].op, FALSE)
      BY <1>0, <1>3, <2>2, CallReturns DEF commitCheck, returnUnlocked
    <3>. QED BY <1>0, <2>1, <3>1, CallKeeps
  <2>3. CASE ~ (batchErr \/ batchFinished)
    <3>1. batchLock' = c /\ Calling(c, "do", caller[c].op, caller[c].ok)
      BY <1>0, <1>3, <2>1, <2>3, CallGoesOn DEF commitCheck, BatchInv
    <3>. QED BY <1>0, <2>1, <2>3, <3>1, CallKeeps
  <2>. QED BY <2>2, <2>3
<1>4. CASE doError(c)
  <2>1. /\ batchLock = c /\ batchLock' = "none" /\ batchErr' = TRUE /\ Calling(c, "idle", caller[c].op, FALSE)
        /\ UNCHANGED <<batchTxn, batchFinished, inFlight, finish, accepted, committed>>
    BY <1>0, <1>4, CallReturns DEF doError, returnUnlocked, bhistVars, BatchInv, CallsInOrder
  <2>. QED BY <1>0, <2>1, CallKeeps
<1>. QED BY <1>1, <1>2, <1>3, <1>4

LEMMA SetKeeps ==
  ASSUME BatchInv, NEW c \in BatchCallers, NEW e \in BatchEntries, SetEntry(c, e) PROVE BatchInv'
<1>. USE BatchAssumption DEF NoCaller
<1>0. BatchType /\ batchErr \in BOOLEAN /\ batchFinished \in BOOLEAN /\ batchTxn \in [open : BOOLEAN, entries : SUBSET BatchEntries]
  BY DEF BatchInv, BatchType
<1>1. /\ caller[c].pc = "idle" /\ batchLock = "none"
      /\ UNCHANGED <<batchErr, batchFinished, inFlight, finish, committed>>
  BY DEF SetEntry, throttleVars
<1>2. CASE returnUnlocked(c, "set", FALSE) /\ UNCHANGED <<batchTxn, accepted>>
  <2>1. batchLock' = "none" /\ Calling(c, "idle", "set", FALSE)
    BY <1>0, <1>2, CallReturns DEF returnUnlocked
  <2>. QED BY <1>0, <1>1, <1>2, <2>1, CallKeeps
<1>3. CASE /\ batchTxn.open /\ batchTxn' = [batchTxn EXCEPT !.entries = @ \cup {e}] /\ accepted' = accepted \cup {e}
           /\ returnUnlocked(c, "set", TRUE)
  <2>1. batchLock' = "none" /\ Calling(c, "idle", "set", TRUE)
    BY <1>0, <1>3, CallReturns DEF returnUnlocked
  <2>2. batchTxn' \in [open : BOOLEAN, entries : SUBSET BatchEntries] /\ batchTxn'.entries = batchTxn.entries \cup {e}
    BY <1>0, <1>3
  <2>3. \A d \in BatchCallers : ~ hasFlushed(d) /\ ~ hasFlushed(d)' /\ caller'[d].pc # "sent"
    BY <1>1, <1>3, <2>1 DEF BatchInv, CallsInOrder, NothingDropped, hasFlushed, Calling
  <2>4. BatchType'
    BY <1>0, <1>1, <2>1, <2>2 DEF BatchType, Calling
  <2>5. CallsInOrder'
    BY <1>1, <2>1 DEF BatchInv, CallsInOrder, Calling
  <2>6. NothingDropped'
    BY <1>1, <1>3, <2>2, <2>3 DEF BatchInv, NothingDropped, running
  <2>7. FlushCommits'
    BY <2>3 DEF FlushCommits, hasFlushed
  <2>. QED BY <2>4, <2>5, <2>6, <2>7 DEF BatchInv
<1>4. CASE /\ batchLock' = c /\ caller' = [caller EXCEPT ![c] = [pc |-> "commit", op |-> "set", e |-> e, ok |-> FALSE]]
           /\ UNCHANGED <<batchTxn, accepted>>
  <2>. DEFINE r == [pc |-> "commit", op |-> "set", e |-> e, ok |-> FALSE]
  <2>1. r \in Calls
    BY DEF Calls
  <2>2. Calling(c, "commit", "set", FALSE)
    BY <1>0, <1>4, <2>1, CallSet
  <2>. QED BY <1>0, <1>1, <1>4, <2>2, CallKeeps
<1>. QED BY <1>2, <1>3, <1>4 DEF SetEntry

-----------------------------------------------------------------------------
(* The transaction goes to the background with the entries it has.         *)
LEMMA DoCommitKeeps == ASSUME BatchInv, NEW c \in BatchCallers, doCommit(c) PROVE BatchInv'
<1>. USE BatchAssumption DEF NoCaller
<1>. DEFINE t == [entries |-> batchTxn.entries, pc |-> "running", by |-> c]
<1>0. /\ BatchType /\ batchTxn \in [open : BOOLEAN, entries : SUBSET BatchEntries] /\ caller[c].ok \in BOOLEAN
  BY CallerFields DEF BatchInv, BatchType
<1>1. /\ caller[c].pc = "do" /\ inFlight' = inFlight \cup {t}
      /\ UNCHANGED <<batchErr, batchFinished, batchLock, finish, accepted, committed>>
      /\ batchTxn' = [open |-> TRUE, entries |-> {}]
      /\ batchLock = c /\ ~ batchFinished /\ ~ caller[c].ok /\ finish.state # "closed"
  BY DEF doCommit, bhistVars, BatchInv, CallsInOrder
<1>2. inFlight' \subseteq [entries : SUBSET BatchEntries, pc : {"running", "error", "release"}, by : BatchCallers]
  BY <1>0, <1>1 DEF BatchType
<1>3. running' = running \cup batchTxn.entries
  <2>1. t.pc = "running" /\ t.entries = batchTxn.entries
    OBVIOUS
  <2>. HIDE DEF t
  <2>. QED BY <1>1, <2>1 DEF running
<1>. HIDE DEF t
<1>4. Calling(c, "sent", caller[c].op, caller[c].ok)
  BY <1>0, <1>1, CallGoesOn DEF doCommit, BatchInv
<1>5. \A d \in BatchCallers : ~ hasFlushed(d) /\ ~ hasFlushed(d)'
  BY <1>1, <1>4 DEF BatchInv, NothingDropped, hasFlushed, Calling
<1>6. BatchType'
  BY <1>0, <1>1, <1>2, <1>4 DEF BatchType, Calling
<1>7. CallsInOrder'
  BY <1>1, <1>4 DEF BatchInv, CallsInOrder, Calling
<1>8. NothingDropped'
  BY <1>1, <1>3, <1>5 DEF BatchInv, NothingDropped
<1>9. FlushCommits'
  BY <1>5 DEF FlushCommits, hasFlushed
<1>. QED BY <1>6, <1>7, <1>8, <1>9 DEF BatchInv

(* The new transaction takes the entry, or Flush closes it, empty.         *)
LEMMA CommitReturnsKeeps == ASSUME BatchInv, NEW c \in BatchCallers, commitReturns(c) PROVE BatchInv'
<1>. USE BatchAssumption DEF NoCaller
<1>0. /\ BatchType /\ batchErr \in BOOLEAN /\ batchTxn \in [open : BOOLEAN, entries : SUBSET BatchEntries]
      /\ caller[c].op \in {"none", "set", "flush", "cancel"} /\ caller[c].ok \in BOOLEAN
  BY CallerFields DEF BatchInv, BatchType
<1>1. /\ caller[c].pc = "sent" /\ UNCHANGED <<batchErr, inFlight, finish, committed>>
      /\ batchLock = c /\ ~ batchFinished /\ ~ caller[c].ok /\ finish.state # "closed" /\ batchTxn.entries = {}
      /\ caller[c].op = "set" => caller[c].e \in BatchEntries
  BY DEF commitReturns, throttleVars, BatchInv, CallsInOrder, NothingDropped
<1>2. \A d \in BatchCallers : ~ hasFlushed(d) /\ (d # c => caller[d].pc # "sent")
  BY <1>1 DEF BatchInv, CallsInOrder, NothingDropped
<1>3. running' = running
  BY <1>1 DEF running
<1>4. CASE /\ batchErr /\ returnUnlocked(c, caller[c].op, FALSE) /\ UNCHANGED <<batchTxn, batchFinished, accepted>>
  <2>1. Calling(c, "idle", caller[c].op, FALSE) /\ batchLock' = "none"
    BY <1>0, <1>4, CallReturns DEF returnUnlocked
  <2>. QED BY <1>0, <1>1, <1>4, <2>1, CallKeeps DEF BatchInv, BatchType
<1>5. CASE /\ ~ batchErr /\ caller[c].op = "set" /\ returnUnlocked(c, "set", TRUE)
           /\ batchTxn' = [open |-> TRUE, entries |-> {caller[c].e}]
           /\ accepted' = accepted \cup {caller[c].e} /\ UNCHANGED batchFinished
  <2>1. Calling(c, "idle", "set", TRUE) /\ batchLock' = "none"
    BY <1>0, <1>5, CallReturns DEF returnUnlocked
  <2>2. batchTxn' \in [open : BOOLEAN, entries : SUBSET BatchEntries] /\ batchTxn'.entries = {caller[c].e}
    BY <1>1, <1>5
  <2>3. \A d \in BatchCallers : ~ hasFlushed(d)' /\ caller'[d].pc # "sent"
    BY <1>2, <2>1 DEF hasFlushed, Calling
  <2>4. BatchType'
    BY <1>0, <1>1, <1>5, <2>1, <2>2 DEF BatchType, Calling
  <2>5. CallsInOrder'
    BY <1>1, <1>5, <2>1 DEF BatchInv, CallsInOrder, Calling
  <2>6. accepted' \subseteq committed' \cup batchTxn'.entries \cup running'
    BY <1>1, <1>3, <1>5, <2>2 DEF BatchInv, NothingDropped
  <2>. QED BY <2>3, <2>4, <2>5, <2>6 DEF BatchInv, NothingDropped, FlushCommits, hasFlushed
<1>6. CASE /\ ~ batchErr /\ caller[c].op = "flush" /\ batchLock' = NoCaller
           /\ batchFinished' = TRUE /\ batchTxn' = [open |-> FALSE, entries |-> {}]
           /\ caller' = [caller EXCEPT ![c].pc = "finish"] /\ UNCHANGED accepted
  <2>1. Calling(c, "finish", "flush", FALSE)
    BY <1>0, <1>1, <1>6, CallGoesOn DEF BatchInv
  <2>2. \A d \in BatchCallers : (~ caller'[d].ok \/ caller'[d].op # "flush") /\ caller'[d].pc # "sent"
    BY <1>2, <2>1 DEF hasFlushed, Calling
  <2>3. BatchType'
    BY <1>0, <1>1, <1>6, <2>1 DEF BatchType, Calling
  <2>4. CallsInOrder'
    BY <1>1, <1>6, <2>1 DEF BatchInv, CallsInOrder, Calling
  <2>5. accepted' \subseteq committed' \cup running'
    BY <1>1, <1>3, <1>6 DEF BatchInv, NothingDropped
  <2>. QED BY <1>6, <2>2, <2>3, <2>4, <2>5 DEF BatchInv, NothingDropped, FlushCommits, hasFlushed
<1>. QED BY <1>4, <1>5, <1>6 DEF commitReturns

-----------------------------------------------------------------------------
(* A commit that ends moves its entries from running to committed, or sets *)
(* the error; what Done does to the throttle matters to no entry.          *)
LEMMA CallbackKeeps ==
  ASSUME BatchInv, NEW t \in inFlight, inFlight \ {t} \subseteq inFlight',
         inFlight' \subseteq [entries : SUBSET BatchEntries, pc : {"running", "error", "release"}, by : BatchCallers],
         UNCHANGED <<batchTxn, batchFinished, batchLock, caller, finish, accepted>>,
         batchErr' \in BOOLEAN, batchErr => batchErr', committed \subseteq committed',
         t.pc = "running" /\ ~ batchErr' => t.entries \subseteq committed'
  PROVE  BatchInv'
<1>1. BatchType'
  BY DEF BatchInv, BatchType
<1>2. CallsInOrder'
  BY DEF BatchInv, CallsInOrder
<1>3. ~ batchErr' => running \subseteq committed' \cup running'
  BY DEF running
<1>4. NothingDropped' /\ FlushCommits'
  BY <1>3 DEF BatchInv, NothingDropped, FlushCommits, hasFlushed
<1>. QED BY <1>1, <1>2, <1>4 DEF BatchInv

LEMMA InFlightStep ==
  ASSUME BatchType, NEW t \in inFlight, NEW p \in {"running", "error", "release"},
         inFlight' = (inFlight \ {t}) \cup {[t EXCEPT !.pc = p]}
  PROVE  inFlight' \subseteq [entries : SUBSET BatchEntries, pc : {"running", "error", "release"}, by : BatchCallers]
<1>1. [t EXCEPT !.pc = p] \in [entries : SUBSET BatchEntries, pc : {"running", "error", "release"}, by : BatchCallers]
  BY DEF BatchType
<1>. QED BY <1>1 DEF BatchType

LEMMA BackgroundKeeps == ASSUME BatchInv, backgroundStep PROVE BatchInv'
<1>. PICK t \in inFlight : DoneError(t) \/ DoneRelease(t) \/ \E ok \in BOOLEAN : commitEnds(t, ok)
  BY DEF backgroundStep
<1>0. BatchType /\ batchErr \in BOOLEAN
  BY DEF BatchInv, BatchType
<1>1. CASE DoneError(t)
  <2>1. /\ t.pc = "error" /\ inFlight' = (inFlight \ {t}) \cup {[t EXCEPT !.pc = "release"]}
        /\ UNCHANGED <<batchTxn, batchErr, batchFinished, batchLock, caller, finish, accepted, committed>>
    BY <1>1 DEF DoneError, bhistVars
  <2>. QED BY <1>0, <2>1, InFlightStep, CallbackKeeps
<1>2. CASE DoneRelease(t)
  <2>1. /\ t.pc = "release" /\ inFlight' = inFlight \ {t}
        /\ UNCHANGED <<batchTxn, batchErr, batchFinished, batchLock, caller, finish, accepted, committed>>
    BY <1>2 DEF DoneRelease, bhistVars
  <2>2. inFlight' \subseteq [entries : SUBSET BatchEntries, pc : {"running", "error", "release"}, by : BatchCallers]
    BY <1>0, <2>1 DEF BatchType
  <2>. QED BY <1>0, <2>1, <2>2, CallbackKeeps
<1>3. ASSUME NEW ok \in BOOLEAN, commitEnds(t, ok) PROVE BatchInv'
  <2>. DEFINE p == IF ok THEN "release" ELSE "error"
  <2>1. /\ inFlight' = (inFlight \ {t}) \cup {[t EXCEPT !.pc = p]} /\ p \in {"running", "error", "release"}
        /\ batchErr' = (batchErr \/ ~ ok) /\ committed' = IF ok THEN committed \cup t.entries ELSE committed
        /\ UNCHANGED <<batchTxn, batchFinished, batchLock, caller, finish, accepted>>
    BY <1>3 DEF commitEnds
  <2>. HIDE DEF p
  <2>2. inFlight' \subseteq [entries : SUBSET BatchEntries, pc : {"running", "error", "release"}, by : BatchCallers]
    BY <1>0, <2>1, InFlightStep
  <2>3. /\ batchErr' \in BOOLEAN /\ (batchErr => batchErr') /\ committed \subseteq committed'
        /\ ~ batchErr' => t.entries \subseteq committed'
    BY <1>0, <2>1
  <2>. QED BY <2>1, <2>2, <2>3, CallbackKeeps
<1>. QED BY <1>1, <1>2, <1>3

-----------------------------------------------------------------------------
(* Finish closes the throttle with nothing in flight, so that a Flush that *)
(* finds no error then has everything committed.                           *)
LEMMA FinishKeeps == ASSUME BatchInv, NEW c \in BatchCallers, Finish(c) PROVE BatchInv'
<1>. DEFINE f == [state |-> "closed", err |-> errCh > 0]
<1>1. /\ caller[c].pc = "finish" /\ inFlight = {} /\ finish' = f
      /\ UNCHANGED <<batchTxn, batchErr, batchFinished, batchLock, caller, inFlight, accepted, committed>>
  BY DEF Finish, waitsFor, bhistVars
<1>2. f \in [state : {"no", "closed"}, err : BOOLEAN] /\ f.state = "closed"
  OBVIOUS
<1>. HIDE DEF f
<1>3. BatchType'
  BY <1>1, <1>2 DEF BatchInv, BatchType
<1>4. CallsInOrder'
  BY <1>1 DEF BatchInv, CallsInOrder
<1>5. NothingDropped' /\ FlushCommits'
  BY <1>1, <1>2 DEF BatchInv, NothingDropped, FlushCommits, hasFlushed, running
<1>. QED BY <1>3, <1>4, <1>5 DEF BatchInv

LEMMA FlushReturnsKeeps == ASSUME BatchInv, NEW c \in BatchCallers, FlushReturns(c) PROVE BatchInv'
<1>. DEFINE ok == ~ finish.err /\ ~ batchErr
<1>0. BatchType /\ ok \in BOOLEAN
  BY DEF BatchInv, BatchType
<1>1. /\ caller[c].pc = "finish" /\ caller[c].op = "flush" /\ finish.state = "closed" /\ inFlight = {}
      /\ caller' = [caller EXCEPT ![c] = [IdleCaller EXCEPT !.op = "flush", !.ok = ok]] /\ (ok => ~ batchErr)
      /\ UNCHANGED <<batchTxn, batchErr, batchFinished, batchLock, inFlight, finish, accepted, committed>>
  BY DEF FlushReturns, throttleVars, bhistVars, BatchInv, CallsInOrder
<1>. HIDE DEF ok
<1>2. Calling(c, "idle", "flush", ok)
  BY <1>0, <1>1, CallReturns
<1>3. \A d \in BatchCallers : (hasFlushed(d)' => hasFlushed(d)) /\ (caller'[d].pc = "sent" => caller[d].pc = "sent")
  BY <1>1, <1>2 DEF hasFlushed, Calling
<1>4. ~ batchErr => accepted \subseteq committed
  BY <1>1 DEF BatchInv, NothingDropped, hasFlushed, running
<1>5. BatchType'
  BY <1>0, <1>1, <1>2 DEF BatchType, Calling
<1>6. CallsInOrder'
  BY <1>1, <1>2 DEF BatchInv, CallsInOrder, Calling
<1>7. FlushCommits'
  BY <1>1, <1>2, <1>4 DEF BatchInv, FlushCommits, Calling
<1>8. NothingDropped'
  BY <1>1, <1>3 DEF BatchInv, NothingDropped, running
<1>. QED BY <1>5, <1>6, <1>7, <1>8 DEF BatchInv

LEMMA CancelReturnsKeeps == ASSUME BatchInv, NEW c \in BatchCallers, CancelReturns(c) PROVE BatchInv'
<1>0. BatchType
  BY DEF BatchInv
<1>1. /\ caller[c].pc = "finish" /\ batchFinished /\ batchLock = c /\ batchLock' = NoCaller
      /\ batchTxn' = [open |-> FALSE, entries |-> {}] /\ Calling(c, "idle", "cancel", TRUE)
      /\ UNCHANGED <<batchErr, batchFinished, inFlight, finish, accepted, committed>>
  BY <1>0, CallReturns DEF CancelReturns, returnUnlocked, throttleVars, bhistVars, BatchInv, CallsInOrder
<1>2. \A d \in BatchCallers : hasFlushed(d)' => hasFlushed(d) /\ caller'[d] = caller[d]
  BY <1>1 DEF hasFlushed, Calling
<1>3. BatchType'
  BY <1>0, <1>1 DEF BatchType, Calling
<1>4. CallsInOrder'
  BY <1>1, BatchAssumption DEF BatchInv, CallsInOrder, Calling, NoCaller
<1>5. NothingDropped' /\ FlushCommits'
  BY <1>1, <1>2 DEF BatchInv, NothingDropped, FlushCommits, hasFlushed, running
<1>. QED BY <1>3, <1>4, <1>5 DEF BatchInv

LEMMA StutterKeeps == ASSUME BatchInv, UNCHANGED batchVars PROVE BatchInv'
BY DEF BatchInv, BatchType, CallsInOrder, NothingDropped, FlushCommits, hasFlushed, running, batchVars, throttleVars, bhistVars

-----------------------------------------------------------------------------
(* The inductive invariant of the batch, for any number of goroutines.     *)
THEOREM BatchInvariant == BatchSpec => []BatchInv
<1>1. BatchInv /\ [BatchNext]_batchVars => BatchInv'
  <2>. SUFFICES ASSUME BatchInv, [BatchNext]_batchVars PROVE BatchInv'
    OBVIOUS
  <2>1. ASSUME NEW c \in BatchCallers, callerStep(c) PROVE BatchInv'
    BY <2>1, StartKeeps, DoCommitKeeps, CommitReturnsKeeps, FinishKeeps, FlushReturnsKeeps, CancelReturnsKeeps DEF callerStep
  <2>2. ASSUME NEW c \in BatchCallers, Flush(c) \/ Cancel(c) \/ \E e \in BatchEntries : SetEntry(c, e) PROVE BatchInv'
    BY <2>2, StartKeeps, SetKeeps
  <2>. QED BY <2>1, <2>2, BackgroundKeeps, StutterKeeps DEF BatchNext
<1>. QED BY <1>1, BatchStarts, PTL DEF BatchSpec

(* A Flush that returns nil has committed every entry the batch accepted,  *)
(* whatever other goroutines set, flush and cancel meanwhile.              *)
THEOREM FlushesCommit == BatchSpec => []FlushCommits
<1>1. BatchInv => FlushCommits
  BY DEF BatchInv
<1>. QED BY <1>1, BatchInvariant, PTL

===============================================================================
