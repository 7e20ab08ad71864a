-------------------------------- MODULE Stream --------------------------------
(***************************************************************************)
(* stream.go and backup.go: Backup runs a Stream over the ranges of the    *)
(* key space.  One goroutine hands out the ranges, producers read each     *)
(* range in a transaction of their own and pass lists of key-values on,    *)
(* and one goroutine sends them.  Transactions commit meanwhile, and the   *)
(* version a backup returns is the starting point of the next one.         *)
(***************************************************************************)
EXTENDS Integers, FiniteSets, FiniteSetsExt, Sequences, SequencesExt

CONSTANTS
  StreamRanges,     \* db.Ranges: sequence of disjoint sets of keys
  StreamKinds,      \* kinds of writes: "put", "del", "disc" (discards earlier versions)
  StreamMaxTs,      \* bound: commits
  NumGo,            \* producer goroutines
  RangeChCap, KvChanCap,
  MaxBackups,       \* bound
  SinceNext         \* what is added to the returned version for the next backup

StreamKeys == UNION ToSet(StreamRanges)
Producers == 1 .. NumGo

ASSUME StreamAssumption ==
  /\ {NumGo, RangeChCap, KvChanCap} \subseteq Nat \ {0} /\ StreamKeys \subseteq Nat
  /\ \A r, s \in ToSet(StreamRanges) : r # s => r \cap s = {}

VARIABLES
  streamDb,     \* entries [key, ts, kind]
  streamTs,     \* last commit
  orchestrate,  \* "idle", "running", "closed" (kvChan), "ok", "err"
  since,
  rangesLeft, rangeCh, rangesClosed,
  producer,     \* goroutine -> [pc, ts, todo], the keys of its range it has not reached
  kvChan,       \* sequence of lists
  sender,       \* streamKVs: [pc, batch]
  cancelled,    \* the context
  dump,         \* what Send was given by this backup, a sequence
  maxVersion,
  lastVersion,  \* what the last successful backup returned
  dumps, backups, startTs, readAt     \* history
streamVars == <<streamDb, streamTs, orchestrate, since, rangesLeft, rangeCh, rangesClosed, producer, kvChan,
                sender, cancelled, dump, maxVersion, lastVersion, dumps, backups, startTs, readAt>>

IdleProducer == [pc |-> "new", ts |-> 0, todo |-> {}]
StreamInit ==
  /\ streamDb = {} /\ streamTs = 0 /\ orchestrate = "idle" /\ since = 0
  /\ rangesLeft = {} /\ rangeCh = <<>> /\ rangesClosed = TRUE
  /\ producer = [p \in Producers |-> IdleProducer] /\ kvChan = <<>>
  /\ sender = [pc |-> "wait", batch |-> <<>>] /\ cancelled = FALSE
  /\ dump = <<>> /\ maxVersion = 0 /\ lastVersion = 0
  /\ dumps = {} /\ backups = 0 /\ startTs = 0 /\ readAt = [k \in StreamKeys |-> 0]

-----------------------------------------------------------------------------
(* A transaction commits several keys at one timestamp.                    *)
streamCommit(ks, kind) ==
  /\ streamTs < StreamMaxTs /\ streamTs' = streamTs + 1
  /\ streamDb' = streamDb \cup {[key |-> k, ts |-> streamTs + 1, kind |-> kind] : k \in ks}
  /\ UNCHANGED <<orchestrate, since, rangesLeft, rangeCh, rangesClosed, producer, kvChan, sender, cancelled,
                 dump, maxVersion, dumps, lastVersion, backups, startTs, readAt>>

(* What the iterator shows of a key: versions above since, up to readTs.   *)
inStream(k, ts) == {e \in streamDb : e.key = k /\ e.ts <= ts /\ (since > 0 => e.ts > since)}

(* Backup's KeyToList: versions newest first, down to a deletion or to one *)
(* that discards what is older; the latter adds a deletion just below.     *)
KeyToList(k, ts) ==
  LET es == inStream(k, ts)
      ends == {e \in es : e.kind # "put"}
      listed == {e \in es : \A d \in ends : e.ts >= d.ts}
  IN listed \cup {[key |-> k, ts |-> e.ts - 1, kind |-> "del"] : e \in {e \in listed : e.kind = "disc"}}

(* Orchestrate begins: channels and goroutines are made.                   *)
Backup ==
  /\ orchestrate \in {"idle", "ok", "err"} /\ backups < MaxBackups /\ backups' = backups + 1
  /\ since' = IF lastVersion = 0 THEN 0 ELSE lastVersion + SinceNext
  /\ orchestrate' = "running" /\ rangesLeft' = ToSet(StreamRanges) /\ rangeCh' = <<>> /\ rangesClosed' = FALSE
  /\ producer' = [p \in Producers |-> IdleProducer] /\ kvChan' = <<>>
  /\ sender' = [pc |-> "wait", batch |-> <<>>] /\ cancelled' = FALSE /\ dump' = <<>> /\ maxVersion' = 0
  /\ startTs' = streamTs /\ readAt' = [k \in StreamKeys |-> 0]
  /\ UNCHANGED <<streamDb, streamTs, lastVersion, dumps>>

(* produceRanges: the largest first, any order here; it does not look at   *)
(* the context.                                                            *)
produceRanges ==
  /\ orchestrate = "running" /\ ~ rangesClosed
  /\ \/ \E r \in rangesLeft :
          /\ Len(rangeCh) < RangeChCap /\ rangeCh' = Append(rangeCh, r) /\ rangesLeft' = rangesLeft \ {r}
          /\ UNCHANGED rangesClosed
     \/ rangesLeft = {} /\ rangesClosed' = TRUE /\ UNCHANGED <<rangesLeft, rangeCh>>
  /\ UNCHANGED <<streamDb, streamTs, orchestrate, since, producer, kvChan, sender, cancelled, dump, maxVersion,
                 dumps, lastVersion, backups, startTs, readAt>>

(* produceKVs starts: its own read timestamp.                              *)
produceKVs(p) ==
  /\ orchestrate = "running" /\ producer[p].pc = "new"
  /\ producer' = [producer EXCEPT ![p] = [pc |-> "ranges", ts |-> streamTs, todo |-> {}]]
  /\ UNCHANGED <<streamDb, streamTs, orchestrate, since, rangesLeft, rangeCh, rangesClosed, kvChan, sender,
                 cancelled, dump, maxVersion, dumps, lastVersion, backups, startTs, readAt>>

(* It takes the next range, or ends when the channel is closed and empty.  *)
nextRange(p) ==
  /\ producer[p].pc = "ranges"
  /\ \/ /\ rangeCh # <<>> /\ rangeCh' = Tail(rangeCh)
        /\ producer' = [producer EXCEPT ![p].todo = Head(rangeCh),
                                        ![p].pc = IF Head(rangeCh) = {} THEN "ranges" ELSE "iterate"]
        /\ readAt' = [k \in StreamKeys |-> IF k \in Head(rangeCh) THEN producer[p].ts ELSE readAt[k]]
     \/ /\ rangeCh = <<>> /\ rangesClosed /\ producer' = [producer EXCEPT ![p].pc = "done"]
        /\ UNCHANGED <<rangeCh, readAt>>
  /\ UNCHANGED <<streamDb, streamTs, orchestrate, since, rangesLeft, rangesClosed, kvChan, sender, cancelled,
                 dump, maxVersion, dumps, lastVersion, backups, startTs>>

(* iterate and sendIt: the next key's list goes to kvChan; an empty list   *)
(* is skipped.                                                             *)
iterate(p) ==
  LET k == Min(producer[p].todo)
      list == KeyToList(k, producer[p].ts)
      rest == [producer EXCEPT ![p].todo = @ \ {k},
                               ![p].pc = IF producer[p].todo = {k} THEN "ranges" ELSE "iterate"]
  IN /\ producer[p].pc = "iterate" /\ producer' = rest
     /\ \/ list = {} /\ UNCHANGED kvChan
        \/ list # {} /\ Len(kvChan) < KvChanCap /\ kvChan' = Append(kvChan, list)
     /\ UNCHANGED <<streamDb, streamTs, orchestrate, since, rangesLeft, rangeCh, rangesClosed, sender, cancelled,
                    dump, maxVersion, dumps, lastVersion, backups, startTs, readAt>>

(* A cancelled context ends a producer wherever it selects.                *)
producerCancelled(p) ==
  /\ cancelled /\ producer[p].pc \in {"ranges", "iterate"}
  /\ producer' = [producer EXCEPT ![p].pc = "failed"]
  /\ UNCHANGED <<streamDb, streamTs, orchestrate, since, rangesLeft, rangeCh, rangesClosed, kvChan, sender,
                 cancelled, dump, maxVersion, dumps, lastVersion, backups, startTs, readAt>>

(* streamKVs takes a list and slurps what else is there; it ends when the  *)
(* channel is closed and empty.                                            *)
streamKVs ==
  /\ orchestrate \in {"running", "closed"} /\ sender.pc = "wait"
  /\ \/ /\ kvChan # <<>> /\ sender' = [pc |-> "send", batch |-> kvChan] /\ kvChan' = <<>>
     \/ /\ kvChan = <<>> /\ orchestrate = "closed" /\ sender' = [sender EXCEPT !.pc = "done"]
        /\ UNCHANGED kvChan
  /\ UNCHANGED <<streamDb, streamTs, orchestrate, since, rangesLeft, rangeCh, rangesClosed, producer, cancelled,
                 dump, maxVersion, dumps, lastVersion, backups, startTs, readAt>>

(* Backup's Send writes the lists and notes the largest version.           *)
Send ==
  /\ sender.pc = "send"
  /\ dump' = dump \o sender.batch
  /\ maxVersion' = Max({e.ts : e \in UNION ToSet(sender.batch)} \cup {maxVersion})
  /\ sender' = [pc |-> "wait", batch |-> <<>>]
  /\ UNCHANGED <<streamDb, streamTs, orchestrate, since, rangesLeft, rangeCh, rangesClosed, producer, kvChan,
                 cancelled, dumps, lastVersion, backups, startTs, readAt>>

SendFails ==
  /\ sender.pc = "send" /\ sender' = [pc |-> "failed", batch |-> <<>>] /\ cancelled' = TRUE
  /\ UNCHANGED <<streamDb, streamTs, orchestrate, since, rangesLeft, rangeCh, rangesClosed, producer, kvChan,
                 dump, maxVersion, dumps, lastVersion, backups, startTs, readAt>>

(* Orchestrate: once the producers are done kvChan is closed; an error of  *)
(* a producer is returned, else what the sender ended with.                *)
closeKvChan ==
  /\ orchestrate = "running" /\ \A p \in Producers : producer[p].pc \in {"done", "failed"}
  /\ orchestrate' = "closed"
  /\ UNCHANGED <<streamDb, streamTs, since, rangesLeft, rangeCh, rangesClosed, producer, kvChan, sender,
                 cancelled, dump, maxVersion, dumps, lastVersion, backups, startTs, readAt>>

(* Mutant: the sender is not waited for.                                   *)
outcome_noWait == IF \E p \in Producers : producer[p].pc = "failed" THEN "err" ELSE "ok"
outcome ==
  IF \E p \in Producers : producer[p].pc = "failed" THEN "err"
  ELSE CASE sender.pc = "done" -> "ok" [] sender.pc = "failed" -> "err" [] OTHER -> "closed"
OrchestrateReturns ==
  /\ orchestrate = "closed" /\ outcome # "closed" /\ orchestrate' = outcome
  /\ dumps' = IF outcome = "ok" THEN dumps \cup UNION ToSet(dump) ELSE dumps
  /\ kvChan' = <<>>
  /\ lastVersion' = IF outcome = "ok" THEN maxVersion ELSE lastVersion
  /\ UNCHANGED <<streamDb, streamTs, since, rangesLeft, rangeCh, rangesClosed, producer, sender, cancelled, dump, maxVersion,
                 backups, startTs, readAt>>

producerStep(p) == produceKVs(p) \/ nextRange(p) \/ iterate(p) \/ producerCancelled(p)
StreamNext ==
  \/ \E ks \in (SUBSET StreamKeys) \ {{}}, kind \in StreamKinds : streamCommit(ks, kind)
  \/ Backup \/ produceRanges \/ \E p \in Producers : producerStep(p)
  \/ streamKVs \/ Send \/ SendFails \/ closeKvChan \/ OrchestrateReturns
StreamSpec == StreamInit /\ [][StreamNext]_streamVars

-----------------------------------------------------------------------------
(* A backup that succeeds holds, for every key, exactly what its range's   *)
(* transaction saw, each list once, and no transaction is older than the   *)
(* call: no range is lost, read twice or cut off by the way the producers, *)
(* the sender and Orchestrate finish (Orchestrate, streamKVs, iterate).    *)
DumpExact ==
  orchestrate = "ok" =>
    /\ Len(dump) = Cardinality(ToSet(dump))
    /\ ToSet(dump) = {KeyToList(k, readAt[k]) : k \in StreamKeys} \ {{}}
    /\ \A k \in StreamKeys : readAt[k] >= startTs

(* Every version committed before a successful backup began is in one of   *)
(* the successful ones, unless it was hidden by a deletion that is ("can   *)
(* be passed into later invocation to generate incremental backup",        *)
(* Backup).  It does not hold with SinceNext = 1, as the comment on Backup *)
(* has it, nor for a commit that arrives late (README, 5).                 *)
IncrementalComplete ==
  orchestrate = "ok" =>
    \A e \in streamDb : e.ts <= startTs =>
      e \in dumps \/ \E d \in dumps : d.key = e.key /\ d.kind # "put" /\ d.ts >= e.ts
-----------------------------------------------------------------------------
(* What DumpExact rests on.  A key is in a range nobody has taken, ahead   *)
(* of one producer, or read.                                               *)
waiting == UNION (rangesLeft \cup ToSet(rangeCh))
RangesMade ==
  /\ rangesLeft \subseteq ToSet(StreamRanges) /\ rangeCh \in Seq(ToSet(StreamRanges))
  /\ \A i, j \in DOMAIN rangeCh : rangeCh[i] = rangeCh[j] => i = j
  /\ ToSet(rangeCh) \cap rangesLeft = {}
  /\ rangesClosed => rangesLeft = {}

ProducerMade(q) ==
  /\ DOMAIN q = {"pc", "ts", "todo"} /\ q.pc \in {"new", "ranges", "iterate", "done", "failed"}
  /\ q.pc \in {"new", "ranges", "done"} => q.todo = {}
  /\ q.pc \in {"ranges", "iterate"} => q.ts \in startTs .. streamTs
  /\ q.pc = "iterate" => q.todo # {} /\ \A k \in q.todo : readAt[k] = q.ts
  /\ q.pc = "done" => rangesClosed /\ rangeCh = <<>>
  /\ q.todo \subseteq StreamKeys \ waiting
ProducersMade ==
  /\ DOMAIN producer = Producers /\ \A p \in Producers : ProducerMade(producer[p])
  /\ \A p, q \in Producers : p # q => producer[p].todo \cap producer[q].todo = {}

SenderMade ==
  /\ DOMAIN sender = {"pc", "batch"} /\ sender.pc \in {"wait", "send", "done", "failed"}
  /\ sender.pc # "send" => sender.batch = <<>>
  /\ sender.pc = "done" => kvChan = <<>> /\ orchestrate \in {"closed", "ok", "err"}
OrchestrateMade ==
  /\ orchestrate \in {"idle", "running", "closed", "ok", "err"}
  /\ orchestrate \in {"closed", "ok", "err"} => \A p \in Producers : producer[p].pc \in {"done", "failed"}
  /\ orchestrate = "ok" => sender.pc = "done" /\ \A p \in Producers : producer[p].pc # "failed"

(* The lists of the keys read are, each once, on their way or sent, unless *)
(* somebody failed.                                                        *)
keysRead == {k \in StreamKeys \ waiting : \A p \in Producers : k \notin producer[p].todo}
listOf(k) == KeyToList(k, readAt[k])
readLists == {listOf(k) : k \in keysRead} \ {{}}
lists == (dump \o sender.batch) \o kvChan
nobodyFailed == sender.pc # "failed" /\ \A p \in Producers : producer[p].pc # "failed"
ListsMade ==
  /\ \A q \in {dump, sender.batch, kvChan} : q \in Seq(ToSet(q))
  /\ streamTs \in Nat /\ startTs \in 0 .. streamTs
  /\ \A k \in StreamKeys \ waiting : readAt[k] \in startTs .. streamTs
  /\ \A i, j \in DOMAIN lists : lists[i] = lists[j] => i = j
  /\ ToSet(lists) \subseteq readLists
  /\ orchestrate \in {"running", "closed", "ok"} /\ nobodyFailed => readLists \subseteq ToSet(lists)

StreamInv == RangesMade /\ ProducersMade /\ SenderMade /\ OrchestrateMade /\ ListsMade /\ DOMAIN readAt = StreamKeys
=============================================================================
