----------------------------- MODULE StreamWriter -----------------------------
(***************************************************************************)
(* stream_writer.go: goroutines write sorted streams of another store, one *)
(* sorted writer per stream builds tables, further goroutines put these    *)
(* straight into a level below the existing data (Prepare drops it first)  *)
(* or above it (PrepareIncremental).  One StreamWriter after the other is  *)
(* used, each with a deferred Cancel; ordinary commits, flushes and        *)
(* compactions run between them.  The hot tier is not in this module.      *)
(***************************************************************************)
EXTENDS Integers, FiniteSets, FiniteSetsExt, Sequences, SequencesExt

CONSTANTS
  SwInput,          \* sequence of streams, each the sequence of its [key, ver]
  SwMaxLevel,       \* MaxLevels - 1
  SwTableCap,       \* entries at which a builder has reached its capacity
  ReqChCap,         \* capacity of sortedWriter.reqCh
  SwThrottle,       \* NewThrottle(16)
  SwChunks,         \* bound: numbers of entries in one Write; 0 only ends the stream
  SwMaxSessions, SwMaxEvents   \* bounds: sessions, and errors and commits

Streams == 1 .. Len(SwInput)
SwInputVer == Max({e.ver : e \in UNION {ToSet(SwInput[s]) : s \in Streams}})
SwLevels == 0 .. SwMaxLevel
SwUnused == 0

ASSUME SwAssumption == {SwMaxLevel, SwTableCap} \subseteq Nat \ {0} /\ ReqChCap \in Nat \ {0} /\ SwThrottle \in Nat \ {0}

VARIABLES
  swLevels,       \* level -> sequence of tables, each a sequence of entries
  swManifest,     \* [level, tab]
  swMem, swNextTs,
  sw,             \* [state, prevLevel, maxVersion]
  swLock,         \* who holds writeLock: nobody, a stream's caller, or Flush and Cancel
  swCaller,       \* stream -> [pc, chunk, done, left]: the Write its goroutine is in
  sorted,         \* stream -> its sortedWriter
  creating,       \* goroutines of createTable
  swErrCh,        \* errors in the throttle's errCh
  swAccepted, swCompleted, swSession, swFails, swCommits   \* history and bounds
swDb == <<swLevels, swManifest, swMem, swNextTs>>
swHist == <<swAccepted, swCompleted, swSession, swCommits>>
swThrottle == <<creating, swErrCh>>
swVars == <<swDb, sw, swLock, swCaller, sorted, swThrottle, swHist, swFails>>

Ending == Len(SwInput) + 1    \* Flush or Cancel holds the lock
NoWriter == [pc |-> "none", ch |-> <<>>, hand |-> <<>>, builder |-> <<>>, lastKey |-> <<>>, level |-> 0]
NoCall(s) == [pc |-> "idle", chunk |-> <<>>, done |-> FALSE, left |-> SwInput[s]]

StreamWriterInit ==
  /\ swLevels = [l \in SwLevels |-> <<>>] /\ swManifest = {} /\ swMem = {} /\ swNextTs = 1
  /\ sw = [state |-> "none", prevLevel |-> 0, maxVersion |-> 0] /\ swLock = SwUnused
  /\ swCaller = [s \in Streams |-> NoCall(s)] /\ sorted = [s \in Streams |-> NoWriter]
  /\ creating = {} /\ swErrCh = 0
  /\ swAccepted = {} /\ swCompleted = {} /\ swSession = 0 /\ swFails = 0 /\ swCommits = 0

EntryLess(a, b) == a.key < b.key \/ (a.key = b.key /\ a.ver > b.ver)
entriesAt(l) == UNION {ToSet(t) : t \in ToSet(swLevels[l])}
stored == UNION {entriesAt(l) : l \in SwLevels}
tableOf(E) ==
  IF E = {} THEN <<>>
  ELSE <<[i \in 1 .. Cardinality(E) |-> CHOOSE e \in E : Cardinality({d \in E : EntryLess(d, e)}) = i - 1]>>
manifestOf(lv) == UNION {{[level |-> l, tab |-> t] : t \in ToSet(lv[l])} : l \in SwLevels}

(* Prepare stops the rest of the store, until Flush or Cancel returns.     *)
resumed == sw.state \in {"none", "ok", "err", "cancelResumed"}
(* What replaces the tables of the levels in the manifest; tables that are *)
(* still being created stay.                                               *)
levelsChanged == swManifest' = (swManifest \ manifestOf(swLevels)) \cup manifestOf(swLevels')

-----------------------------------------------------------------------------
(* The rest of the store: a commit, a flush, a compaction of level 0 into  *)
(* the base level of a small store, the last, or of another level into the *)
(* next.                                                                   *)
commitOne(k) ==
  /\ resumed /\ swFails + swCommits < SwMaxEvents /\ swCommits' = swCommits + 1
  /\ swMem' = swMem \cup {[key |-> k, ver |-> swNextTs]} /\ swNextTs' = swNextTs + 1
  /\ UNCHANGED <<swLevels, swManifest, sw, swLock, swCaller, sorted, swThrottle, swAccepted, swCompleted,
                 swSession, swFails>>

flushMem ==
  /\ resumed /\ swMem # {} /\ swMem' = {}
  /\ swLevels' = [swLevels EXCEPT ![0] = @ \o tableOf(swMem)] /\ levelsChanged
  /\ UNCHANGED <<swNextTs, sw, swLock, swCaller, sorted, swThrottle, swHist, swFails>>

compactLevel(l) ==
  LET next == IF l = 0 THEN SwMaxLevel ELSE l + 1 IN
  /\ resumed /\ l < SwMaxLevel /\ swLevels[l] # <<>>
  /\ swLevels' = [swLevels EXCEPT ![l] = <<>>, ![next] = tableOf(entriesAt(l) \cup entriesAt(next))]
  /\ levelsChanged
  /\ UNCHANGED <<swMem, swNextTs, sw, swLock, swCaller, sorted, swThrottle, swHist, swFails>>

-----------------------------------------------------------------------------
(* A new StreamWriter, prepared by dropping everything, or incrementally   *)
(* if the memtables are empty: then the first level with tables counts,    *)
(* and a tree with data in level 0 is flattened first, which leaves a      *)
(* single level where it is.                                               *)
newSession(state, prev) ==
  /\ sw.state = "none" /\ swSession < SwMaxSessions /\ swSession' = swSession + 1
  /\ sw' = [state |-> state, prevLevel |-> prev, maxVersion |-> 0]
  /\ swCaller' = [s \in Streams |-> NoCall(s)] /\ sorted' = [s \in Streams |-> NoWriter]
  /\ swErrCh' = 0 /\ swAccepted' = {}
  /\ UNCHANGED <<swLock, creating, swCommits>>

Prepare ==
  /\ swMem' = {}
  /\ \/ /\ newSession("prepared", 0) /\ swCompleted' = {}
        /\ swLevels' = [l \in SwLevels |-> <<>>] /\ swManifest' = {} /\ UNCHANGED swFails
     \/ /\ newSession("failed", 0) /\ swFails + swCommits < SwMaxEvents /\ swFails' = swFails + 1
        /\ UNCHANGED <<swCompleted, swLevels, swManifest>>
  /\ UNCHANGED swNextTs

topLevel == {l \in SwLevels : swLevels[l] # <<>>}
Flatten ==
  IF Cardinality(topLevel) <= 1 THEN UNCHANGED <<swLevels, swManifest>>
  ELSE /\ swLevels' = [l \in SwLevels |-> IF l = SwMaxLevel THEN tableOf(stored) ELSE <<>>]
       /\ swManifest' = manifestOf(swLevels')

PrepareIncremental ==
  /\ IF swMem # {} THEN newSession("failed", 0) /\ UNCHANGED <<swLevels, swManifest>>
     ELSE IF swLevels[0] # <<>> THEN newSession("prepared", SwMaxLevel) /\ Flatten
     ELSE /\ newSession("prepared", IF topLevel = {} THEN 0 ELSE Min(topLevel))
          /\ UNCHANGED <<swLevels, swManifest>>
  /\ UNCHANGED <<swMem, swNextTs, swCompleted, swFails>>

-----------------------------------------------------------------------------
(* Throttle.Do: a slot for a goroutine that creates the table, or the      *)
(* error of an earlier one.                                                *)
tableDo(s, builder) ==
  /\ Cardinality(creating) < SwThrottle
  /\ creating' = creating \cup {[level |-> sorted[s].level, tab |-> builder, pc |-> "new"]}
  /\ UNCHANGED swErrCh
throttleError == swErrCh > 0 /\ swErrCh' = swErrCh - 1 /\ UNCHANGED creating

(* createTable: the table's file and its entry in the manifest, then the   *)
(* level, which is not sorted; the slot is given back last.                *)
tableManifest(t) ==
  /\ t.pc = "new"
  /\ \/ /\ swManifest' = swManifest \cup {[level |-> t.level, tab |-> t.tab]}
        /\ creating' = (creating \ {t}) \cup {[t EXCEPT !.pc = "add"]} /\ UNCHANGED <<swErrCh, swFails>>
     \/ /\ swFails + swCommits < SwMaxEvents /\ swFails' = swFails + 1 /\ UNCHANGED swManifest
        /\ swErrCh < SwThrottle /\ swErrCh' = swErrCh + 1 /\ creating' = creating \ {t}
  /\ UNCHANGED <<swLevels, swMem, swNextTs, sw, swLock, swCaller, sorted, swHist>>
addTable(t) ==
  /\ t.pc = "add" /\ swLevels' = [swLevels EXCEPT ![t.level] = Append(@, t.tab)]
  /\ creating' = creating \ {t}
  /\ UNCHANGED <<swManifest, swMem, swNextTs, sw, swLock, swCaller, sorted, swErrCh, swHist, swFails>>
createTable(t) == tableManifest(t) \/ addTable(t)

(* handleRequests takes the requests, and what is left of them when it is  *)
(* told to end.                                                            *)
handleRequests(s) ==
  LET w == sorted[s] IN
  /\ w.pc \in {"running", "closing"} /\ w.hand = <<>>
  /\ \/ w.ch # <<>> /\ sorted' = [sorted EXCEPT ![s].hand = Head(w.ch), ![s].ch = Tail(w.ch)]
     \/ w.ch = <<>> /\ w.pc = "closing" /\ sorted' = [sorted EXCEPT ![s].pc = "ended"]
  /\ UNCHANGED <<swDb, sw, swLock, swCaller, swThrottle, swHist, swFails>>

(* Add: a new table is begun when the builder is full, never between two   *)
(* versions of a key.  Keys out of order and an error of the throttle are  *)
(* panics.                                                                 *)
beginsTable(w, e) == Len(w.builder) >= SwTableCap /\ e.key # Last(w.lastKey).key
addEntry(s) ==
  LET w == sorted[s]
      e == Head(w.hand)
      added(b) == [sorted EXCEPT ![s].hand = Tail(w.hand), ![s].lastKey = <<e>>, ![s].builder = Append(b, e)]
      ordered == w.lastKey # <<>> => EntryLess(Last(w.lastKey), e)
  IN /\ w.hand # <<>>
     /\ IF ~ ordered THEN sw' = [sw EXCEPT !.state = "panic"] /\ UNCHANGED <<sorted, swThrottle>>
        ELSE \/ /\ ~ beginsTable(w, e)
                /\ sorted' = added(w.builder) /\ UNCHANGED <<sw, swThrottle>>
             \/ /\ beginsTable(w, e) /\ tableDo(s, w.builder)
                /\ sorted' = added(<<>>) /\ UNCHANGED sw
             \/ /\ beginsTable(w, e) /\ throttleError
                /\ sw' = [sw EXCEPT !.state = "panic"] /\ UNCHANGED sorted
     /\ UNCHANGED <<swDb, swLock, swCaller, swHist, swFails>>

-----------------------------------------------------------------------------
(* Write: the buffer is read, the largest version and, the first time, the *)
(* last level noted, then the lock taken for all the rest.  A caller has   *)
(* one stream and marks its end after its last key.  Later sessions bring  *)
(* later versions.                                                         *)
call(s, pc) == swCaller' = [swCaller EXCEPT ![s].pc = pc]
Write(s, n) ==
  LET c == swCaller[s]
      chunk == [i \in 1 .. n |-> [c.left[i] EXCEPT !.ver = @ + SwInputVer * (swSession - 1)]]
  IN /\ sw.state = "prepared" /\ swLock = SwUnused /\ c.pc = "idle" /\ n <= Len(c.left)
     /\ \E done \in BOOLEAN :
          /\ n > 0 \/ done
          /\ done => n = Len(c.left)
          /\ swCaller' = [swCaller EXCEPT ![s] = [pc |-> "lock", chunk |-> chunk, done |-> done,
                                                  left |-> SubSeq(c.left, n + 1, Len(c.left))]]
     /\ sw' = IF n = 0 THEN sw
              ELSE [sw EXCEPT !.maxVersion = Max({@} \cup {e.ver : e \in ToSet(chunk)}),
                              !.prevLevel = IF @ = 0 THEN SwMaxLevel + 1 ELSE @]
     /\ UNCHANGED <<swDb, swLock, sorted, swThrottle, swHist, swFails>>

writeReturns(s, ok) ==
  /\ swLock' = SwUnused
  /\ call(s, IF ~ ok THEN "failed" ELSE IF swCaller[s].done THEN "ended" ELSE "idle")
  /\ swAccepted' = IF ok THEN swAccepted \cup ToSet(swCaller[s].chunk) ELSE swAccepted

(* The value log is written first and may fail; newWriter starts a         *)
(* goroutine one level above the one written before.                       *)
newWriter == [NoWriter EXCEPT !.pc = "running", !.level = sw.prevLevel - 1]
writeVlog(s) ==
  /\ swCaller[s].pc = "lock" /\ swLock = SwUnused
  /\ \/ /\ swFails + swCommits < SwMaxEvents /\ swFails' = swFails + 1 /\ writeReturns(s, FALSE) /\ UNCHANGED sorted
     \/ /\ swLock' = s /\ call(s, IF swCaller[s].chunk = <<>> THEN "close" ELSE "send")
        /\ sorted' = IF swCaller[s].chunk # <<>> /\ sorted[s].pc = "none"
                     THEN [sorted EXCEPT ![s] = newWriter] ELSE sorted
        /\ UNCHANGED <<swAccepted, swFails>>
  /\ UNCHANGED <<swDb, sw, swThrottle, swCompleted, swSession, swCommits>>

sendRequest(s) ==
  /\ swCaller[s].pc = "send" /\ Len(sorted[s].ch) < ReqChCap
  /\ sorted' = [sorted EXCEPT ![s].ch = Append(@, swCaller[s].chunk)]
  /\ IF swCaller[s].done THEN call(s, "close") /\ UNCHANGED <<swLock, swAccepted>> ELSE writeReturns(s, TRUE)
  /\ UNCHANGED <<swDb, sw, swThrottle, swCompleted, swSession, swFails, swCommits>>

(* The end of a stream: its goroutine is told to end and waited for, then  *)
(* Done sends the last table (a writer has had a request, so there is      *)
(* one), all with the lock held.                                           *)
signalled(W) == [s \in Streams |-> IF s \in W /\ sorted[s].pc = "running"
                                   THEN [sorted[s] EXCEPT !.pc = "closing"] ELSE sorted[s]]
closeStream(s) ==
  /\ swCaller[s].pc = "close"
  /\ IF sorted[s].pc = "none" THEN writeReturns(s, TRUE) /\ UNCHANGED sorted
     ELSE sorted' = signalled({s}) /\ call(s, "wait") /\ UNCHANGED <<swLock, swAccepted>>
  /\ UNCHANGED <<swDb, sw, swThrottle, swCompleted, swSession, swFails, swCommits>>

writerDone(s) ==
  /\ sorted[s].pc = "ended" /\ tableDo(s, sorted[s].builder)
  /\ sorted' = [sorted EXCEPT ![s] = [NoWriter EXCEPT !.pc = "nil"]]
writerDoneFails(s) == sorted[s].pc = "ended" /\ throttleError /\ UNCHANGED sorted

closedStream(s) ==
  /\ swCaller[s].pc = "wait"
  /\ \/ writerDone(s) /\ writeReturns(s, TRUE)
     \/ writerDoneFails(s) /\ writeReturns(s, FALSE)
  /\ UNCHANGED <<swDb, sw, swCompleted, swSession, swFails, swCommits>>

-----------------------------------------------------------------------------
(* Flush, when no Write is running: the goroutines end, Done for each      *)
(* stream left, the oracle is set beyond the largest version, all tables   *)
(* are waited for, sorted and validated.                                   *)
noneWriting == \A s \in Streams : swCaller[s].pc \in {"idle", "ended", "failed"}
writesOk == \A s \in Streams : swCaller[s].pc # "failed"
goroutinesEnded == \A s \in Streams : sorted[s].pc \notin {"running", "closing"}

Flush ==
  /\ sw.state = "prepared" /\ noneWriting /\ swLock = SwUnused /\ swLock' = Ending
  /\ sw' = [sw EXCEPT !.state = "done"] /\ sorted' = signalled(Streams)
  /\ UNCHANGED <<swDb, swCaller, swThrottle, swHist, swFails>>

flushReturns(state) == sw' = [sw EXCEPT !.state = state] /\ swLock' = SwUnused
flushDone(s) ==
  /\ sw.state = "done" /\ goroutinesEnded
  /\ \/ writerDone(s) /\ UNCHANGED <<sw, swLock>>
     \/ writerDoneFails(s) /\ flushReturns("err")
  /\ UNCHANGED <<swDb, swCaller, swHist, swFails>>

(* readTs of the stopped oracle is the last timestamp it gave.             *)
flushOracle ==
  LET last == Max({sw.maxVersion, swNextTs - 1}) IN
  /\ sw.state = "done" /\ \A s \in Streams : sorted[s].pc \in {"none", "nil"}
  /\ sw' = [sw EXCEPT !.state = "finish", !.maxVersion = last] /\ swNextTs' = last + 1
  /\ UNCHANGED <<swLevels, swManifest, swMem, swLock, swCaller, sorted, swThrottle, swHist, swFails>>

validate(lv) ==
  \A l \in SwLevels \ {0} : \A i \in 1 .. Len(lv[l]) - 1 : EntryLess(Last(lv[l][i]), Head(lv[l][i + 1]))
sortTables == [l \in SwLevels |-> SortSeq(swLevels[l], LAMBDA a, b : EntryLess(Head(a), Head(b)))]

(* Mutant: Flush does not wait for the throttle.                           *)
waited_not == TRUE
waited == creating = {}
flushFinish ==
  /\ sw.state = "finish" /\ waited
  /\ IF swErrCh > 0 THEN flushReturns("err") /\ UNCHANGED <<swLevels, swCompleted>>
     ELSE /\ swLevels' = sortTables
          /\ IF validate(sortTables) THEN flushReturns("ok") /\ swCompleted' = swCompleted \cup (IF writesOk THEN swAccepted ELSE {})
             ELSE flushReturns("err") /\ UNCHANGED swCompleted
  /\ UNCHANGED <<swManifest, swMem, swNextTs, swCaller, sorted, swThrottle, swAccepted, swSession,
                 swFails, swCommits>>

(* The deferred Cancel, after Flush or instead of it; what is in the       *)
(* builders is lost, and the rest of the store goes on if it did not yet.  *)
Cancel ==
  /\ sw.state \in {"prepared", "failed", "ok", "err"} /\ noneWriting /\ swLock = SwUnused /\ swLock' = Ending
  /\ sw' = [sw EXCEPT !.state = IF resumed THEN "cancelResumed" ELSE "cancel"]
  /\ sorted' = signalled(Streams)
  /\ UNCHANGED <<swDb, swCaller, swThrottle, swHist, swFails>>
cancelFinish ==
  /\ sw.state \in {"cancel", "cancelResumed"} /\ goroutinesEnded /\ creating = {}
  /\ flushReturns("none")
  /\ UNCHANGED <<swDb, swCaller, sorted, swThrottle, swHist, swFails>>

StreamWriterNext ==
  /\ sw.state # "panic"
  /\ \/ \E s \in Streams : \/ \E n \in SwChunks : Write(s, n)
                           \/ writeVlog(s) \/ sendRequest(s) \/ closeStream(s) \/ closedStream(s)
                           \/ handleRequests(s) \/ addEntry(s) \/ flushDone(s)
     \/ Prepare \/ PrepareIncremental \/ \E t \in creating : createTable(t)
     \/ Flush \/ flushOracle \/ flushFinish \/ Cancel \/ cancelFinish
     \/ \E k \in {e.key : e \in ToSet(SwInput[1])} : commitOne(k)
     \/ flushMem \/ \E l \in SwLevels : compactLevel(l)
StreamWriterSpec == StreamWriterInit /\ [][StreamWriterNext]_swVars

-----------------------------------------------------------------------------
(* When Flush has returned without an error, every entry of a session in   *)
(* which it did, and no Write failed, is in the tree, the levels and the   *)
(* manifest agree, versions of a key are in one table of a level, ordered  *)
(* levels are sorted and disjoint, and the next transaction reads above    *)
(* all of it; and without a failing step nothing panics and Flush returns  *)
(* no error (Flush, Add, createTable, closers and throttle).               *)
StreamsWritten ==
  /\ sw.state = "ok" =>
       /\ swCompleted \subseteq stored /\ swManifest = manifestOf(swLevels)
       /\ validate(swLevels)
       /\ \A l \in SwLevels \ {0} : \A s, t \in ToSet(swLevels[l]) :
            s # t => {e.key : e \in ToSet(s)} \cap {e.key : e \in ToSet(t)} = {}
       /\ \A e \in swCompleted \cup swMem : e.ver < swNextTs
  /\ swFails = 0 => sw.state \notin {"err", "panic"}

(* A newer version of a key is never below an older one, which compaction  *)
(* relies on to drop deletions ("the tables are written at one level above *)
(* the current base level", PrepareIncremental).  It does not hold:        *)
(* Flatten leaves a store alone whose only level is level 0, and the       *)
(* tables then go to the last level but one.                               *)
NewerAbove ==
  sw.state \in {"none", "ok"} =>
    \A l, m \in SwLevels : l < m =>
      \A d \in entriesAt(l), e \in entriesAt(m) : d.key = e.key => d.ver >= e.ver
=============================================================================
