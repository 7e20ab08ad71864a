------------------------------ MODULE Lifecycle -------------------------------
(***************************************************************************)
(* db.go: DropAll, DropPrefix and Close against concurrent writers.  The   *)
(* write channel changes hands: doWrites reads it, prepareToDrop drains it *)
(* while writes are blocked, and a new doWrites takes over afterwards.     *)
(* A request is of a commit, which has a timestamp a read waits for, or of *)
(* batchSet, batchSetAsync (GC, merges, loads) or BanNamespace, without.   *)
(* The data is kept by the place it is in: the memtables, the numbered     *)
(* levels, the hot tier.                                                   *)
(***************************************************************************)
EXTENDS Integers, FiniteSets, Sequences

CONSTANTS
  LWriters,       \* goroutines that write
  LMaxReq,        \* bound: requests of one writer
  LKeys, LPrefix, \* keys, and those with the prefix DropPrefix is called for
  Droppers,       \* goroutines that call DropAll or DropPrefix
  WriteChCap      \* capacity of writeCh

ASSUME LifecycleAssumption ==
  LMaxReq \in Nat /\ WriteChCap \in Nat \ {0} /\ LPrefix \subseteq LKeys

VARIABLES
  blockWrites, chClosed, writeCh,
  lw,          \* writer -> where it is in sendToWriteCh and Wait
  dwPc, dwReqs,\* doWrites: "run", "drain", "off", and what it has collected
  signalled,   \* closers.writes
  pendingBatch,\* the batch of the goroutine that holds pendingCh
  flushing, compacting,    \* these goroutines run
  inMem, inLevels, inHot,  \* items by place
  dp,          \* dropper -> what it does
  closing,     \* Close: "no", "wait", "flush", "closed"
  ackedItems, gone, excused, everHot    \* history

lifeVars == <<blockWrites, chClosed, writeCh, lw, dwPc, dwReqs, signalled, pendingBatch, flushing, compacting,
              inMem, inLevels, inHot, dp, closing, ackedItems, gone, excused, everHot>>
chanVars == <<blockWrites, chClosed, writeCh, dwPc, dwReqs, signalled, pendingBatch>>
dataVars == <<inMem, inLevels, inHot, everHot>>
lhistVars == <<ackedItems, gone, excused>>

Off == [pc |-> "off"]
Items == [w : LWriters, n : 1 .. LMaxReq, key : LKeys, commit : BOOLEAN]

LifecycleInit ==
  /\ blockWrites = FALSE /\ chClosed = FALSE /\ writeCh = <<>>
  /\ lw = [w \in LWriters |-> [pc |-> "idle", n |-> 0, item |-> Off]]
  /\ dwPc = "run" /\ dwReqs = {} /\ signalled = FALSE /\ pendingBatch = {}
  /\ flushing = TRUE /\ compacting = TRUE
  /\ inMem = {} /\ inLevels = {} /\ inHot = {}
  /\ dp = [d \in Droppers |-> Off] /\ closing = "no"
  /\ ackedItems = {} /\ gone = {} /\ excused = {} /\ everHot = {}

-----------------------------------------------------------------------------
(* Commits that have taken a timestamp in newCommitTs and have not called  *)
(* doneCommit; of those, the one that has not sent yet holds writeChLock.  *)
uncommitted == {w \in LWriters : lw[w].pc \in {"checked", "sent"} /\ lw[w].item.commit}
holdsWriteChLock(w) == w \in uncommitted /\ lw[w].pc = "checked"

(* sendToWriteCh reads blockWrites first: a commit by then has its         *)
(* timestamp, and gives it back at once when writes are blocked ...        *)
checkBlocked(w, k, commit) ==
  /\ lw[w].pc = "idle" /\ lw[w].n < LMaxReq
  /\ commit => \A v \in LWriters : ~ holdsWriteChLock(v)
  /\ lw' = [lw EXCEPT ![w] = [pc |-> IF blockWrites THEN "idle" ELSE "checked", n |-> @.n + 1,
                              item |-> [w |-> w, n |-> @.n + 1, key |-> k, commit |-> commit]]]
  /\ UNCHANGED <<chanVars, flushing, compacting, dataVars, dp, closing, lhistVars>>

(* ... and sends later, whatever has happened since.  Sending on a closed  *)
(* channel panics.                                                         *)
sendReq(w) ==
  /\ lw[w].pc = "checked" /\ (Len(writeCh) < WriteChCap \/ chClosed)
  /\ \/ chClosed /\ lw' = [lw EXCEPT ![w].pc = "panic"] /\ UNCHANGED writeCh
     \/ ~ chClosed /\ lw' = [lw EXCEPT ![w].pc = "sent"] /\ writeCh' = Append(writeCh, lw[w].item)
  /\ UNCHANGED <<blockWrites, chClosed, dwPc, dwReqs, signalled, pendingBatch, flushing, compacting,
                 dataVars, dp, closing, lhistVars>>

(* writeRequests: into the memtable, and done wakes the writers, which     *)
(* call doneCommit.                                                        *)
writeItems(items) ==
  /\ inMem' = inMem \cup items /\ ackedItems' = ackedItems \cup items
  /\ lw' = [w \in LWriters |-> IF lw[w].pc = "sent" /\ lw[w].item \in items
                               THEN [lw[w] EXCEPT !.pc = "idle"] ELSE lw[w]]

(* doWrites collects requests and hands them to one goroutine at a time.   *)
dwReceive ==
  /\ dwPc = "run" /\ writeCh # <<>>
  /\ dwReqs' = dwReqs \cup {Head(writeCh)} /\ writeCh' = Tail(writeCh)
  /\ UNCHANGED <<blockWrites, chClosed, lw, dwPc, signalled, pendingBatch, flushing, compacting, dataVars,
                 dp, closing, lhistVars>>

dwSpawn ==
  /\ dwPc = "run" /\ dwReqs # {} /\ pendingBatch = {}
  /\ pendingBatch' = dwReqs /\ dwReqs' = {}
  /\ UNCHANGED <<blockWrites, chClosed, writeCh, lw, dwPc, signalled, flushing, compacting, dataVars,
                 dp, closing, lhistVars>>

writeBatch ==
  /\ pendingBatch # {} /\ writeItems(pendingBatch) /\ pendingBatch' = {}
  /\ UNCHANGED <<blockWrites, chClosed, writeCh, dwPc, dwReqs, signalled, flushing, compacting,
                 inLevels, inHot, everHot, dp, closing, gone, excused>>

(* The closed case: what is in the channel now, then the last write.       *)
dwClosed ==
  /\ dwPc = "run" /\ signalled /\ dwPc' = "drain"
  /\ UNCHANGED <<blockWrites, chClosed, writeCh, lw, dwReqs, signalled, pendingBatch, flushing, compacting,
                 dataVars, dp, closing, lhistVars>>

dwDrain ==
  /\ dwPc = "drain" /\ writeCh # <<>>
  /\ dwReqs' = dwReqs \cup {Head(writeCh)} /\ writeCh' = Tail(writeCh)
  /\ UNCHANGED <<blockWrites, chClosed, lw, dwPc, signalled, pendingBatch, flushing, compacting, dataVars,
                 dp, closing, lhistVars>>

dwLast ==
  /\ dwPc = "drain" /\ writeCh = <<>> /\ pendingBatch = {}
  /\ writeItems(dwReqs) /\ dwReqs' = {} /\ dwPc' = "off"
  /\ UNCHANGED <<blockWrites, chClosed, writeCh, signalled, pendingBatch, flushing, compacting,
                 inLevels, inHot, everHot, dp, closing, gone, excused>>

-----------------------------------------------------------------------------
(* Flush by heat, and eviction of the hot tier into the levels.            *)
toTiers(items, hotKeys) ==
  /\ inHot' = inHot \cup {i \in items : i.key \in hotKeys}
  /\ inLevels' = inLevels \cup {i \in items : i.key \notin hotKeys}
  /\ everHot' = everHot \cup {i \in items : i.key \in hotKeys}

flushAll(hotKeys) ==
  /\ flushing /\ inMem # {} /\ \A d \in Droppers : dp[d].pc # "locked"
  /\ toTiers(inMem, hotKeys) /\ inMem' = {}
  /\ UNCHANGED <<chanVars, lw, flushing, compacting, dp, closing, lhistVars>>

evictHot ==
  /\ compacting /\ inHot # {}
  /\ inLevels' = inLevels \cup inHot /\ inHot' = {}
  /\ UNCHANGED <<chanVars, lw, flushing, compacting, inMem, everHot, dp, closing, lhistVars>>

-----------------------------------------------------------------------------
covers(d) == {i \in Items : dp[d].kind = "all" \/ i.key \in LPrefix}
dropGoesTo(d, pc) == dp' = [dp EXCEPT ![d].pc = pc]

(* blockWrite: only one at a time.                                         *)
blockWrite(d, kind) ==
  /\ dp[d] = Off /\ closing = "no"
  /\ IF blockWrites THEN UNCHANGED <<dp, blockWrites, signalled>>
     ELSE /\ blockWrites' = TRUE /\ signalled' = TRUE
          /\ dp' = [dp EXCEPT ![d] = [pc |-> "wait", kind |-> kind, reqs |-> {}, before |-> ackedItems]]
  /\ UNCHANGED <<chClosed, writeCh, lw, dwPc, dwReqs, pendingBatch, flushing, compacting, dataVars,
                 closing, lhistVars>>

waitWrites(d) ==
  /\ dp[d].pc = "wait" /\ dwPc = "off"
  /\ dropGoesTo(d, "drain")
  /\ UNCHANGED <<chanVars, lw, flushing, compacting, dataVars, closing, lhistVars>>

(* prepareToDrop: requests that slipped in are written, too; then the      *)
(* flusher stops.                                                          *)
drainOne(d) ==
  /\ dp[d].pc = "drain" /\ writeCh # <<>>
  /\ dp' = [dp EXCEPT ![d].reqs = @ \cup {Head(writeCh)}] /\ writeCh' = Tail(writeCh)
  /\ UNCHANGED <<blockWrites, chClosed, lw, dwPc, dwReqs, signalled, pendingBatch, flushing, compacting,
                 dataVars, closing, lhistVars>>

prepareToDrop(d) ==
  /\ dp[d].pc = "drain" /\ writeCh = <<>>
  /\ writeItems(dp[d].reqs) /\ flushing' = FALSE
  /\ dropGoesTo(d, "prepared")
  /\ UNCHANGED <<chanVars, compacting, inLevels, inHot, everHot, closing, gone, excused>>

(* DropAll: compactions stop; with db.lock held the memtables go, and      *)
(* dropTree takes the tables of the numbered levels.                       *)
dropMem_keepImm(d) ==
  /\ dp[d].pc = "prepared" /\ dp[d].kind = "all"
  /\ compacting' = FALSE /\ excused' = excused \cup ackedItems
  /\ dropGoesTo(d, "locked")
  /\ UNCHANGED <<chanVars, lw, flushing, inMem, inLevels, inHot, everHot, closing, ackedItems, gone>>

dropMem(d) ==
  /\ dp[d].pc = "prepared" /\ dp[d].kind = "all"
  /\ compacting' = FALSE /\ inMem' = {} /\ excused' = excused \cup ackedItems
  /\ dropGoesTo(d, "locked")
  /\ UNCHANGED <<chanVars, lw, flushing, inLevels, inHot, everHot, closing, ackedItems, gone>>

dropTree(d) ==
  /\ dp[d].pc = "locked" /\ inLevels' = {}
  /\ dropGoesTo(d, "resume")
  /\ UNCHANGED <<chanVars, lw, flushing, compacting, inMem, inHot, everHot, closing, lhistVars>>

(* DropPrefix looks for the prefix in a View, whose NewTransaction waits   *)
(* for every commit that has a timestamp, those included that passed       *)
(* blockWrites in time and sent after the drain.                           *)
viewBegins == uncommitted = {}

(* Nothing is done if no key has the prefix; else the memtables are        *)
(* flushed without it, compactions stop, and the numbered levels are       *)
(* rewritten without it.                                                   *)
dropPrefixNone(d) ==
  /\ dp[d].pc = "prepared" /\ dp[d].kind = "prefix" /\ viewBegins
  /\ \A i \in inMem \cup inLevels \cup inHot : i.key \notin LPrefix
  /\ dropGoesTo(d, "resume")
  /\ UNCHANGED <<chanVars, lw, flushing, compacting, dataVars, closing, lhistVars>>

withoutPrefix(items) == {i \in items : i.key \notin LPrefix}

dropPrefix(d, hotKeys) ==
  /\ dp[d].pc = "prepared" /\ dp[d].kind = "prefix" /\ viewBegins
  /\ \E i \in inMem \cup inLevels \cup inHot : i.key \in LPrefix
  /\ toTiers(withoutPrefix(inMem), hotKeys)
  /\ inMem' = {} /\ compacting' = FALSE
  /\ excused' = excused \cup (ackedItems \cap covers(d))
  /\ dropGoesTo(d, "levels")
  /\ UNCHANGED <<chanVars, lw, flushing, closing, ackedItems, gone>>

dropPrefixes(d) ==
  /\ dp[d].pc = "levels" /\ inLevels' = withoutPrefix(inLevels)
  /\ dropGoesTo(d, "resume")
  /\ UNCHANGED <<chanVars, lw, flushing, compacting, inMem, inHot, everHot, closing, lhistVars>>

(* Resume: compactions, flushes, and a new doWrites before blockWrites is  *)
(* reset.                                                                  *)
unblockWrite_noWriter(d) ==
  /\ dp[d].pc = "resume" /\ dp' = [dp EXCEPT ![d] = Off]
  /\ compacting' = TRUE /\ flushing' = TRUE /\ blockWrites' = FALSE /\ signalled' = FALSE
  /\ gone' = gone \cup (dp[d].before \cap covers(d))
  /\ UNCHANGED <<chClosed, writeCh, lw, dwPc, dwReqs, pendingBatch, dataVars, closing, ackedItems, excused>>

unblockWrite(d) ==
  /\ dp[d].pc = "resume" /\ dp' = [dp EXCEPT ![d] = Off]
  /\ compacting' = TRUE /\ flushing' = TRUE
  /\ dwPc' = "run" /\ signalled' = FALSE /\ blockWrites' = FALSE
  /\ gone' = gone \cup (dp[d].before \cap covers(d))
  /\ UNCHANGED <<chClosed, writeCh, lw, dwReqs, pendingBatch, dataVars, closing, ackedItems, excused>>

-----------------------------------------------------------------------------
(* DB.Close, called when no drop is running.                               *)
startClose ==
  /\ closing = "no" /\ \A d \in Droppers : dp[d] = Off
  /\ blockWrites' = TRUE /\ signalled' = TRUE /\ closing' = "wait"
  /\ UNCHANGED <<chClosed, writeCh, lw, dwPc, dwReqs, pendingBatch, flushing, compacting, dataVars, dp, lhistVars>>

closeWriteCh ==
  /\ closing = "wait" /\ dwPc = "off"
  /\ chClosed' = TRUE /\ closing' = "flush"
  /\ UNCHANGED <<blockWrites, writeCh, lw, dwPc, dwReqs, signalled, pendingBatch, flushing, compacting,
                 dataVars, dp, lhistVars>>

(* The last memtable is pushed and flushed before the flusher stops.       *)
closeFlushed_noWait ==
  /\ closing = "flush" /\ closing' = "closed"
  /\ inMem' = {} /\ flushing' = FALSE /\ compacting' = FALSE
  /\ UNCHANGED <<chanVars, lw, inLevels, inHot, everHot, dp, lhistVars>>

closeFlushed ==
  /\ closing = "flush" /\ inMem = {} /\ closing' = "closed"
  /\ flushing' = FALSE /\ compacting' = FALSE
  /\ UNCHANGED <<chanVars, lw, dataVars, dp, lhistVars>>

-----------------------------------------------------------------------------
writersStep == \E w \in LWriters : (\E k \in LKeys, commit \in BOOLEAN : checkBlocked(w, k, commit)) \/ sendReq(w)
doWritesStep == dwReceive \/ dwSpawn \/ writeBatch \/ dwClosed \/ dwDrain \/ dwLast
tierStep == (\E h \in SUBSET LKeys : flushAll(h)) \/ evictHot
dropStep(d) ==
  \/ waitWrites(d) \/ drainOne(d) \/ prepareToDrop(d) \/ dropMem(d) \/ dropTree(d)
  \/ dropPrefixNone(d) \/ (\E h \in SUBSET LKeys : dropPrefix(d, h)) \/ dropPrefixes(d) \/ unblockWrite(d)
closeStep == startClose \/ closeWriteCh \/ closeFlushed

LifecycleNext ==
  \/ writersStep \/ doWritesStep \/ tierStep \/ closeStep
  \/ \E d \in Droppers : dropStep(d) \/ (\E kind \in {"all", "prefix"} : blockWrite(d, kind))

(* Goroutines that can run do run; nobody has to call anything.            *)
LifecycleFairness ==
  /\ WF_lifeVars(doWritesStep) /\ \A w \in LWriters : WF_lifeVars(sendReq(w))
  /\ \A d \in Droppers : WF_lifeVars(dropStep(d))

LifecycleSpec == LifecycleInit /\ [][LifecycleNext]_lifeVars /\ LifecycleFairness

-----------------------------------------------------------------------------
(* DropAll "would drop all the data stored in Badger": what was committed  *)
(* before the call is not there after it.                                  *)
DropDrops == gone \cap (inMem \cup inLevels \cup inHot) = {}

(* As far as the code ensures it: for data that was never in the hot tier. *)
DropDropsCold == (gone \ everHot) \cap (inMem \cup inLevels \cup inHot) = {}

(* "DropAll is resilient to concurrent writes": a write that returned is   *)
(* there, unless a drop that covers its key finished its work after it;    *)
(* Close loses nothing, either.                                            *)
AckedKept == ackedItems \ excused \subseteq inMem \cup inLevels \cup inHot

(* DropPrefix, too, ends with "Resume memtable flushes, compactions and    *)
(* writes": a drop that has blocked the writes gives them back.            *)
DropsResume == \A d \in Droppers : dp[d].pc # "off" ~> dp[d].pc = "off"

(* What stands in the way: DropPrefix waits for a commit whose request is  *)
(* in the channel or finds it full, and nobody reads the channel before    *)
(* DropPrefix ends.                                                        *)
ViewStuck(d) ==
  /\ dp[d].pc = "prepared" /\ dp[d].kind = "prefix"
  /\ \E w \in uncommitted : lw[w].pc = "sent" \/ Len(writeCh) = WriteChCap

(* Whatever else happens while the channel changes hands, a request that   *)
(* got into it is answered, unless the store is being closed, and the drop *)
(* that is running comes to its end.                                       *)
RequestsAnswered ==
  /\ \A w \in LWriters :
       lw[w].pc = "sent" ~> (lw[w].pc # "sent" \/ closing # "no" \/ \E d \in Droppers : ViewStuck(d))
  /\ \A d \in Droppers : dp[d].pc # "off" ~> (dp[d].pc = "off" \/ ViewStuck(d))

-----------------------------------------------------------------------------
(* Why: the inductive invariant behind DropDropsCold and AckedKept.        *)
Writers == [pc : {"idle", "checked", "sent", "panic"}, n : 0 .. LMaxReq, item : Items \cup {Off}]
Drops ==
  [pc : {"wait", "drain", "prepared", "locked", "levels", "resume"}, kind : {"all", "prefix"},
   reqs : SUBSET Items, before : SUBSET ackedItems]

LifecycleType ==
  /\ {blockWrites, chClosed, signalled, flushing, compacting} \subseteq BOOLEAN
  /\ writeCh \in Seq(Items) /\ dwPc \in {"run", "drain", "off"}
  /\ lw \in [LWriters -> Writers]
  /\ dwReqs \cup pendingBatch \cup inMem \cup inLevels \cup inHot \cup everHot \subseteq Items
  /\ dp \in [Droppers -> {Off} \cup Drops]
  /\ closing \in {"no", "wait", "flush", "closed"}
  /\ ackedItems \cup gone \cup excused \subseteq Items /\ gone \subseteq ackedItems /\ inHot \subseteq everHot

(* The write channel changes hands: doWrites has nothing left when it is   *)
(* off, which is only until blockWrites is reset, and one dropper at a     *)
(* time takes over, with nobody else writing and, later, flushing.         *)
ChannelHanded ==
  /\ dwPc = "off" => dwReqs = {} /\ pendingBatch = {}
  /\ signalled \/ dwPc # "run" => blockWrites
  /\ \A d \in Droppers : dp[d] # Off =>
       /\ blockWrites /\ closing = "no" /\ \A e \in Droppers : dp[e] # Off => e = d
       /\ dp[d].pc # "wait" => dwPc = "off"

(* A request is in one place on its way, not acknowledged yet, and its     *)
(* writer waits for it.                                                    *)
inChannel(i) == \E k \in 1 .. Len(writeCh) : writeCh[k] = i
drained(d) == IF dp[d].pc = "drain" THEN dp[d].reqs ELSE {}
onTheWay(i) == inChannel(i) \/ i \in dwReqs \cup pendingBatch \/ \E d \in Droppers : i \in drained(d)

RequestsOnce ==
  /\ \A i \in Items : onTheWay(i) => lw[i.w].pc = "sent" /\ lw[i.w].item = i
  /\ \A w \in LWriters : lw[w].pc \in {"checked", "sent"} =>
       lw[w].item \in Items \ ackedItems /\ lw[w].item.w = w /\ lw[w].item.n = lw[w].n
  /\ \A i \in ackedItems : i.n <= lw[i.w].n
  /\ dwReqs \cap pendingBatch = {}
  /\ \A k \in 1 .. Len(writeCh) :
       /\ writeCh[k] \notin dwReqs \cup pendingBatch /\ \A d \in Droppers : writeCh[k] \notin drained(d)
       /\ \A j \in 1 .. Len(writeCh) : writeCh[j] = writeCh[k] => j = k
  /\ \A d \in Droppers : dp[d].pc = "wait" => dp[d].reqs = {}

(* How far a drop is.                                                      *)
DropProgress ==
  \A d \in Droppers :
    /\ dp[d].pc = "locked" => dp[d].kind = "all" /\ inMem = {} /\ ackedItems \subseteq excused
    /\ dp[d].pc = "levels" => dp[d].kind = "prefix" /\ inMem = {} /\ ackedItems \cap covers(d) \subseteq excused
    /\ dp[d].pc = "resume" => (inMem \cup inLevels) \cap covers(d) \subseteq everHot

LifecycleInv == LifecycleType /\ ChannelHanded /\ RequestsOnce /\ DropProgress /\ DropDropsCold /\ AckedKept
=============================================================================
