---------------------------- MODULE StorageProofs -----------------------------
(***************************************************************************)
(* Proofs about what the files of the store keep through crashes, for      *)
(* every number of keys, logs, tables, callers and crashes.                *)
(*                                                                         *)
(* Recovery.tla: ManifestInv and DurableInv hold in every reachable state; *)
(* a store can therefore be opened again, a commit that returned is there  *)
(* with its values, and every commit is there in whole or not at all; and  *)
(* SyncInv, from which what DB.Sync covered of the cold track stays.       *)
(* First the replay of the manifest and each step of ManifestInv, then the *)
(* replay of a log, each step of DurableInv, and each step of SyncInv.     *)
(*                                                                         *)
(* KeyRegistry.tla: the registry keeps every data key it ever returned,    *)
(* through rotations, failed writes, crashes and restarts.                 *)
(***************************************************************************)
EXTENDS Recovery, KeyRegistry, FiniteSetTheorems, WellFoundedInduction, TLAPS

LEMMA Least ==
  ASSUME NEW S \in SUBSET Nat, S # {}
  PROVE  \E x \in S : \A y \in S : x <= y
<1>1. PICK x \in S : \A y \in S : ~ (<<y, x>> \in OpToRel(<, Nat))
  BY NatLessThanWellFounded, WFMin
<1>2. ASSUME NEW y \in S PROVE x <= y
  <2>1. y \in Nat /\ x \in Nat
    OBVIOUS
  <2>2. ~ (y < x)
    BY <1>1, <2>1 DEF OpToRel
  <2>. QED BY <2>1, <2>2
<1>. QED BY <1>2

-----------------------------------------------------------------------------
(* Replaying the manifest.  The recursive function exists, and what it has *)
(* for a prefix does not depend on the records after it.                   *)
Replayed(recs, n, g) ==
  g = [k \in 0 .. n |-> IF k = 0 THEN EmptyManifest ELSE replayRecord(g[k - 1], recs[k])]

LEMMA ReplayedExists ==
  ASSUME NEW recs, NEW n \in Nat
  PROVE  \E g : Replayed(recs, n, g)
<1>. DEFINE Bad == {k \in Nat : ~ \E g : Replayed(recs, k, g)}
<1>. SUFFICES ASSUME Bad # {} PROVE FALSE
  OBVIOUS
<1>1. PICK k \in Bad : \A j \in Bad : k <= j
  <2>. Bad \in SUBSET Nat
    OBVIOUS
  <2>. HIDE DEF Bad
  <2>. QED BY Least
<1>2. k \in Nat /\ ~ \E g : Replayed(recs, k, g)
  OBVIOUS
<1>3. k # 0
  <2>1. Replayed(recs, 0, [i \in 0 .. 0 |-> EmptyManifest])
    BY DEF Replayed
  <2>. QED BY <1>2, <2>1
<1>4. PICK g : Replayed(recs, k - 1, g)
  <2>1. k - 1 \in Nat /\ ~ (k <= k - 1)
    BY <1>2, <1>3
  <2>. QED BY <1>1, <2>1
<1>5. Replayed(recs, k, [i \in 0 .. k |-> IF i = k THEN replayRecord(g[k - 1], recs[k]) ELSE g[i]])
  <2>. DEFINE f == [i \in 0 .. k |-> IF i = k THEN replayRecord(g[k - 1], recs[k]) ELSE g[i]]
  <2>1. \A i \in 0 .. k : f[i] = IF i = 0 THEN EmptyManifest ELSE replayRecord(f[i - 1], recs[i])
    <3>. SUFFICES ASSUME NEW i \in 0 .. k
                  PROVE f[i] = IF i = 0 THEN EmptyManifest ELSE replayRecord(f[i - 1], recs[i])
      OBVIOUS
    <3>1. CASE i = k
      <4>1. k - 1 \in 0 .. k /\ k - 1 # k
        BY <1>2, <1>3
      <4>. QED BY <1>3, <3>1, <4>1
    <3>2. CASE i # k
      <4>1. i \in 0 .. k - 1 /\ f[i] = g[i]
        BY <1>2, <3>2
      <4>2. g[i] = IF i = 0 THEN EmptyManifest ELSE replayRecord(g[i - 1], recs[i])
        BY <1>4, <4>1 DEF Replayed
      <4>3. i # 0 => i - 1 \in 0 .. k /\ i - 1 # k
        BY <1>2, <4>1
      <4>. QED BY <4>1, <4>2, <4>3
    <3>. QED BY <3>1, <3>2
  <2>. QED BY <2>1 DEF Replayed
<1>. QED BY <1>2, <1>5

LEMMA ReplayedSame ==
  ASSUME NEW recs, NEW s, NEW n \in Nat, NEW m \in Nat, n <= m, NEW g, NEW h,
         Replayed(recs, n, g), Replayed(s, m, h), \A k \in 1 .. n : recs[k] = s[k]
  PROVE  g[n] = h[n]
<1>. DEFINE Bad == {k \in Nat : k <= n /\ g[k] # h[k]}
<1>. SUFFICES ASSUME Bad # {} PROVE FALSE
  OBVIOUS
<1>1. PICK k \in Bad : \A j \in Bad : k <= j
  <2>. Bad \in SUBSET Nat
    OBVIOUS
  <2>. HIDE DEF Bad
  <2>. QED BY Least
<1>2. k \in Nat /\ k <= n /\ g[k] # h[k]
  OBVIOUS
<1>3. /\ g[k] = IF k = 0 THEN EmptyManifest ELSE replayRecord(g[k - 1], recs[k])
      /\ h[k] = IF k = 0 THEN EmptyManifest ELSE replayRecord(h[k - 1], s[k])
  <2>1. k \in 0 .. n /\ k \in 0 .. m
    BY <1>2
  <2>. QED BY <2>1 DEF Replayed
<1>4. k # 0 => g[k - 1] = h[k - 1] /\ recs[k] = s[k]
  <2>1. k # 0 => k - 1 \in Nat /\ k - 1 <= n /\ ~ (k <= k - 1) /\ k \in 1 .. n
    BY <1>2
  <2>. QED BY <1>1, <2>1
<1>. QED BY <1>2, <1>3, <1>4

LEMMA ReplayIs ==
  ASSUME NEW recs, Len(recs) \in Nat
  PROVE  \E g : Replayed(recs, Len(recs), g) /\ ReplayManifest(recs) = g[Len(recs)]
<1>1. \E g : Replayed(recs, Len(recs), g)
  BY ReplayedExists
<1>2. ReplayManifest(recs) = (CHOOSE g : Replayed(recs, Len(recs), g))[Len(recs)]
  BY DEF ReplayManifest, Replayed
<1>. QED BY <1>1, <1>2

LEMMA ReplayAppended ==
  ASSUME NEW S, NEW recs \in Seq(S), NEW cs \in S
  PROVE  ReplayManifest(Append(recs, cs)) = replayRecord(ReplayManifest(recs), cs)
<1>. DEFINE s == Append(recs, cs)
            n == Len(recs)
<1>1. n \in Nat /\ s \in Seq(S) /\ Len(s) = n + 1 /\ s[n + 1] = cs /\ \A k \in 1 .. n : recs[k] = s[k]
  OBVIOUS
<1>2. PICK g : Replayed(recs, n, g) /\ ReplayManifest(recs) = g[n]
  BY <1>1, ReplayIs
<1>3. PICK h : Replayed(s, n + 1, h) /\ ReplayManifest(s) = h[n + 1]
  <2>1. Len(s) \in Nat
    BY <1>1
  <2>2. PICK h : Replayed(s, Len(s), h) /\ ReplayManifest(s) = h[Len(s)]
    BY <2>1, ReplayIs
  <2>. QED BY <1>1, <2>2
<1>. HIDE DEF s, n
<1>4. g[n] = h[n]
  <2>1. n + 1 \in Nat /\ n <= n + 1
    BY <1>1
  <2>. QED BY <1>1, <1>2, <1>3, <2>1, ReplayedSame
<1>5. h[n + 1] = replayRecord(h[n], s[n + 1])
  <2>1. n + 1 \in 0 .. n + 1 /\ n + 1 # 0 /\ (n + 1) - 1 = n
    BY <1>1
  <2>. QED BY <1>3, <2>1 DEF Replayed
<1>. QED BY <1>1, <1>2, <1>3, <1>4, <1>5 DEF s

(* One record.                                                             *)
LEMMA RecordReplayed ==
  ASSUME NEW m, m.ok, NEW cs, cs # Torn,
         madeIn(cs) \cap DOMAIN m.tables = {}, deleted(cs) \subseteq DOMAIN m.tables
  PROVE  /\ replayRecord(m, cs).ok
         /\ DOMAIN replayRecord(m, cs).tables = (DOMAIN m.tables \ deleted(cs)) \cup madeIn(cs)
<1>1. validSet(m, cs)
  BY DEF validSet, madeIn
<1>2. replayRecord(m, cs) = [tables |-> applyChangeSet(m, cs).tables, creations |-> applyChangeSet(m, cs).creations,
                             deletions |-> applyChangeSet(m, cs).deletions, ok |-> TRUE]
  BY <1>1 DEF replayRecord
<1>3. DOMAIN applyChangeSet(m, cs).tables = (DOMAIN m.tables \ deleted(cs)) \cup madeIn(cs)
  BY DEF applyChangeSet, madeIn
<1>. QED BY <1>2, <1>3

(* A file with a single record.                                            *)
LEMMA RewrittenReplayed ==
  ASSUME NEW m
  PROVE  /\ ReplayManifest(<<asChanges(m)>>).ok
         /\ DOMAIN ReplayManifest(<<asChanges(m)>>).tables = DOMAIN m.tables
<1>. DEFINE cs == asChanges(m)
<1>1. \A c \in cs : c.op = "create" /\ c.id \in DOMAIN m.tables
  BY DEF asChanges, createChange
<1>2. madeIn(cs) = DOMAIN m.tables
  <2>1. \A i \in DOMAIN m.tables : createChange(i, m.tables[i]) \in cs
    BY DEF asChanges
  <2>2. \A i \in DOMAIN m.tables : createChange(i, m.tables[i]).id = i /\ createChange(i, m.tables[i]).op = "create"
    BY DEF createChange
  <2>. HIDE DEF cs
  <2>. QED BY <1>1, <2>1, <2>2 DEF madeIn, created
<1>3. deleted(cs) = {}
  <2>. HIDE DEF cs
  <2>. QED BY <1>1 DEF deleted
<1>4. cs # Torn
  <2>1. [op |-> "torn", id |-> 0, level |-> 0] \notin cs
    <3>. HIDE DEF cs
    <3>. QED BY <1>1
  <2>. HIDE DEF cs
  <2>. QED BY <2>1 DEF Torn
<1>5. ReplayManifest(<<cs>>) = replayRecord(EmptyManifest, cs)
  <2>. HIDE DEF cs
  <2>1. <<>> \in Seq({cs}) /\ Append(<<>>, cs) = <<cs>> /\ Len(<<>>) = 0
    OBVIOUS
  <2>2. PICK g : Replayed(<<>>, 0, g) /\ ReplayManifest(<<>>) = g[0]
    BY <2>1, ReplayIs
  <2>3. ReplayManifest(<<>>) = EmptyManifest
    BY <2>2 DEF Replayed
  <2>4. ReplayManifest(Append(<<>>, cs)) = replayRecord(ReplayManifest(<<>>), cs)
    BY <2>1, ReplayAppended
  <2>. QED BY <2>1, <2>3, <2>4
<1>6. EmptyManifest.ok /\ DOMAIN EmptyManifest.tables = {}
  BY DEF EmptyManifest
<1>. HIDE DEF cs
<1>7. replayRecord(EmptyManifest, cs).ok /\ DOMAIN replayRecord(EmptyManifest, cs).tables = madeIn(cs)
  BY <1>3, <1>4, <1>6, RecordReplayed
<1>. QED BY <1>2, <1>5, <1>7 DEF cs

LEMMA TupleTyped ==
  ASSUME NEW S, NEW s \in Seq(S)
  PROVE  s \in Seq(ToSet(s))
<1>1. Len(s) \in Nat /\ s = [i \in 1 .. Len(s) |-> s[i]] /\ DOMAIN s = 1 .. Len(s)
  OBVIOUS
<1>2. \A i \in 1 .. Len(s) : s[i] \in ToSet(s)
  BY <1>1 DEF ToSet
<1>. QED BY <1>1, <1>2

(* A record more, and what opening makes of a file that lacks its end.     *)
LEMMA RecordAdded ==
  ASSUME NEW recs, replayable(recs), NEW cs, cs # Torn,
         madeIn(cs) \cap DOMAIN ReplayManifest(recs).tables = {}, deleted(cs) \subseteq DOMAIN ReplayManifest(recs).tables
  PROVE  /\ replayable(Append(recs, cs))
         /\ DOMAIN ReplayManifest(Append(recs, cs)).tables = (DOMAIN ReplayManifest(recs).tables \ deleted(cs)) \cup madeIn(cs)
<1>. DEFINE S == ToSet(recs) \cup {cs}
<1>1. recs \in Seq(S) /\ cs \in S
  <2>1. recs \in Seq(ToSet(recs))
    BY DEF replayable
  <2>. QED BY <2>1
<1>. HIDE DEF S
<1>2. Append(recs, cs) \in Seq(S) /\ Append(recs, cs) # <<>> /\ Last(Append(recs, cs)) = cs
  BY <1>1 DEF Last
<1>3. Append(recs, cs) \in Seq(ToSet(Append(recs, cs)))
  BY <1>2, TupleTyped
<1>4. ReplayManifest(Append(recs, cs)) = replayRecord(ReplayManifest(recs), cs)
  BY <1>1, ReplayAppended
<1>5. ReplayManifest(recs).ok
  BY DEF replayable
<1>. QED BY <1>2, <1>3, <1>4, <1>5, RecordReplayed DEF replayable

LEMMA FileRewritten ==
  ASSUME NEW m
  PROVE  /\ replayable(<<asChanges(m)>>)
         /\ DOMAIN ReplayManifest(<<asChanges(m)>>).tables = DOMAIN m.tables
<1>. DEFINE cs == asChanges(m)
<1>1. cs # Torn
  <2>1. \A c \in cs : c.op = "create"
    BY DEF asChanges, createChange
  <2>. HIDE DEF cs
  <2>2. [op |-> "torn", id |-> 0, level |-> 0] \notin cs
    BY <2>1
  <2>. QED BY <2>2 DEF Torn
<1>2. replayable(<<cs>>)
  <2>1. ReplayManifest(<<cs>>).ok
    BY RewrittenReplayed
  <2>. HIDE DEF cs
  <2>2. <<cs>> \in Seq({cs}) /\ <<cs>> # <<>> /\ Last(<<cs>>) = cs
    BY DEF Last
  <2>3. <<cs>> \in Seq(ToSet(<<cs>>))
    BY <2>2, TupleTyped
  <2>. QED BY <1>1, <2>1, <2>2, <2>3 DEF replayable
<1>. QED BY <1>2, RewrittenReplayed

LEMMA TornCutOff ==
  ASSUME NEW recs, replayable(recs)
  PROVE  /\ truncateManifest(recs) = recs
         /\ truncateManifest(Append(recs, Torn)) = recs
<1>1. truncateManifest(recs) = recs
  BY DEF truncateManifest, replayable
<1>. DEFINE S == ToSet(recs) \cup {Torn}
<1>2. recs \in Seq(S) /\ Torn \in S
  <2>1. recs \in Seq(ToSet(recs))
    BY DEF replayable
  <2>. QED BY <2>1
<1>. HIDE DEF S
<1>3. /\ Append(recs, Torn) \in Seq(S) /\ Len(recs) \in Nat /\ Len(Append(recs, Torn)) = Len(recs) + 1
      /\ Append(recs, Torn)[Len(recs) + 1] = Torn
      /\ \A i \in 1 .. Len(recs) : Append(recs, Torn)[i] = recs[i]
      /\ recs = [i \in 1 .. Len(recs) |-> recs[i]]
  BY <1>2
<1>. HIDE DEF Torn
<1>4. Last(Append(recs, Torn)) = Torn /\ Front(Append(recs, Torn)) = recs
  <2>1. Last(Append(recs, Torn)) = Torn
    BY <1>3 DEF Last
  <2>2. SubSeq(Append(recs, Torn), 1, Len(recs)) = recs
    BY <1>2
  <2>3. Len(Append(recs, Torn)) - 1 = Len(recs)
    BY <1>3
  <2>. QED BY <2>1, <2>2, <2>3 DEF Front
<1>. QED BY <1>1, <1>4 DEF truncateManifest

-----------------------------------------------------------------------------
(* The manifest and the tables.                                            *)
manifestVars == <<manifest, sst, tables, mf, nextId, flusher, compactor, appendLock, status, ghosts>>

LEMMA ManifestStarts == RecoveryInit => ManifestInv
<1>. SUFFICES ASSUME RecoveryInit PROVE ManifestInv
  OBVIOUS
<1>. USE DEF RecoveryInit
<1>1. replayable(<<{}>>) /\ DOMAIN ReplayManifest(<<{}>>).tables = {}
  <2>. DEFINE m == [tables |-> [i \in {} |-> 0]]
  <2>1. asChanges(m) = {} /\ DOMAIN m.tables = {}
    BY DEF asChanges
  <2>. HIDE DEF m
  <2>. QED BY <2>1, FileRewritten
<1>2. manifest = <<{}>> /\ DOMAIN sst = {} /\ DOMAIN tables = {} /\ DOMAIN mf = {"tables", "creations", "deletions"}
      /\ DOMAIN mf.tables = {} /\ nextId = 1 /\ status = "up"
  OBVIOUS
<1>3. JobsInv
  BY DEF JobsInv, FlusherMade, CompactorMade, LockMade, JobsApart, holdsLock, Idle
<1>4. ManifestUp
  BY <1>1, <1>2, RecoveryAssumption DEF ManifestUp, onDisk, afterChange, Idle
<1>. QED BY <1>2, <1>3, <1>4 DEF ManifestInv, OpenSucceeds

LEMMA OthersKeepManifest ==
  ASSUME ManifestInv, UNCHANGED manifestVars, status = "up" \/ UNCHANGED <<writer, syncer>>
  PROVE  ManifestInv'
<1>. USE DEF manifestVars
<1>1. JobsInv => JobsInv'
  BY DEF JobsInv, FlusherMade, CompactorMade, LockMade, JobsApart, holdsLock
<1>2. ManifestUp => ManifestUp'
  BY DEF ManifestUp, onDisk, afterChange
<1>3. ManifestDown => ManifestDown'
  BY DEF ManifestDown
<1>. QED BY <1>1, <1>2, <1>3 DEF ManifestInv, OpenSucceeds

LEMMA WritesKeepManifest == ManifestInv /\ writeStep => ManifestInv'
<1>. SUFFICES ASSUME ManifestInv, writeStep PROVE ManifestInv'
  OBVIOUS
<1>1. ASSUME NEW ks, startCommit(ks) PROVE ManifestInv'
  BY <1>1, OthersKeepManifest DEF startCommit, manifestVars
<1>2. ASSUME NEW c, startMoved(c) PROVE ManifestInv'
  BY <1>2, OthersKeepManifest DEF startMoved, manifestVars, memVars
<1>3. status = "up" \/ (writer.phase = "idle" /\ syncer.phase = "idle")
  BY DEF ManifestInv, Idle
<1>4. CASE memPut
  BY <1>3, <1>4, OthersKeepManifest DEF memPut, manifestVars, histVars
<1>5. CASE memPutFin
  BY <1>3, <1>5, OthersKeepManifest DEF memPutFin, manifestVars, memVars
<1>6. CASE newMemTable
  BY <1>6, OthersKeepManifest DEF newMemTable, manifestVars, jobVars, histVars
<1>7. CASE SyncWAL
  BY <1>7, OthersKeepManifest DEF SyncWAL, manifestVars, memVars, histVars
<1>8. CASE vlogSync
  BY <1>8, OthersKeepManifest DEF vlogSync, manifestVars, memVars
<1>. QED BY <1>1, <1>2, <1>4, <1>5, <1>6, <1>7, <1>8 DEF writeStep

(* The file, the trees and the copy in memory all know what a job made.    *)
LEMMA UpFacts ==
  ASSUME ManifestInv, status = "up"
  PROVE  /\ JobsInv /\ ManifestUp /\ OpenSucceeds
         /\ flusher.phase \in {"idle", "built", "manifest", "added"}
         /\ compactor.phase \in {"idle", "built", "manifest", "replaced"}
         /\ flusher.phase = "manifest" => compactor.phase # "manifest"
<1>1. JobsInv /\ ManifestUp /\ OpenSucceeds
  BY DEF ManifestInv
<1>2. flusher.phase \in {"idle", "built", "manifest", "added"}
  BY <1>1 DEF JobsInv, FlusherMade, Idle
<1>3. compactor.phase \in {"idle", "built", "manifest", "replaced"}
  BY <1>1 DEF JobsInv, CompactorMade, Idle
<1>4. flusher.phase = "manifest" => compactor.phase # "manifest"
  BY <1>1 DEF JobsInv, LockMade, holdsLock
<1>. QED BY <1>1, <1>2, <1>3, <1>4

LEMMA LiftUp ==
  ASSUME ManifestInv, status = "up", status' = status, JobsInv', ManifestUp'
  PROVE  ManifestInv'
BY DEF ManifestInv, OpenSucceeds

(* flushBuild.                                                             *)
(* The tables a flush builds.                                              *)
builtAs(N, C) ==
  /\ DOMAIN sst' = DOMAIN sst \cup N /\ N \cap DOMAIN sst = {} /\ \A i \in DOMAIN sst : sst'[i] = sst[i]
  /\ UNION {sst'[i] : i \in N} = skl[Head(imm)]
  /\ flusher' = [phase |-> "built", cs |-> C] /\ C # Torn /\ created(C) = C /\ madeIn(C) = N
  /\ N \subseteq nextId .. nextId' - 1 /\ nextId' \in nextId .. RMaxTable + 1

LEMMA TablesBuilt ==
  ASSUME ManifestUp, flushBuild
  PROVE  \E N, C : builtAs(N, C)
<1>. DEFINE m == skl[Head(imm)]
            parts == {t \in Tracks : \E c \in m : trackOf(c.e.key) = t}
            idOf(t) == IF t = "hot" /\ "cold" \in parts THEN nextId + 1 ELSE nextId
            new == {idOf(t) : t \in parts}
            cs == {createChange(idOf(t), IF t = "hot" THEN 98 ELSE 0) : t \in parts}
<1>3. sst' = [i \in DOMAIN sst \cup new |-> IF i \in DOMAIN sst THEN sst[i] ELSE {c \in m : idOf(trackOf(c.e.key)) = i}]
  BY DEF flushBuild
<1>4. flusher' = [phase |-> "built", cs |-> cs] /\ nextId' = nextId + Cardinality(parts)
  BY DEF flushBuild
<1>5. cs # Torn /\ created(cs) = cs /\ madeIn(cs) = new
  <2>1. \A t : createChange(idOf(t), IF t = "hot" THEN 98 ELSE 0).op = "create" /\
               createChange(idOf(t), IF t = "hot" THEN 98 ELSE 0).id = idOf(t)
    BY DEF createChange
  <2>. HIDE DEF parts, idOf
  <2>2. \A c \in cs : c.op = "create"
    BY <2>1
  <2>3. created(cs) = cs /\ [op |-> "torn", id |-> 0, level |-> 0] \notin cs
    BY <2>2 DEF created
  <2>4. madeIn(cs) = new
    <3>1. \A t \in parts : \E c \in cs : c.id = idOf(t)
      BY <2>1
    <3>2. \A c \in cs : \E t \in parts : c.id = idOf(t)
      BY <2>1
    <3>. HIDE DEF cs
    <3>. QED BY <2>3, <3>1, <3>2 DEF madeIn
  <2>. HIDE DEF cs
  <2>. QED BY <2>3, <2>4 DEF Torn
<1>6. nextId \in Nat \ {0} /\ RMaxTable \in Nat /\ nextId + 1 <= RMaxTable
  BY RecoveryAssumption DEF ManifestUp, flushBuild
<1>7. \/ parts = {} /\ Cardinality(parts) = 0
      \/ (parts = {"cold"} \/ parts = {"hot"}) /\ Cardinality(parts) = 1
      \/ parts = {"cold", "hot"} /\ Cardinality(parts) = 2
  <2>1. parts \subseteq {"cold", "hot"}
    BY DEF Tracks
  <2>. HIDE DEF parts
  <2>2. parts = {} \/ parts = {"cold"} \/ parts = {"hot"} \/ parts = {"cold", "hot"}
    BY <2>1
  <2>3. Cardinality({"cold", "hot"}) = 2
    <3>1. IsFiniteSet({"hot"}) /\ Cardinality({"hot"}) = 1 /\ "cold" \notin {"hot"} /\ {"hot"} \cup {"cold"} = {"cold", "hot"}
      BY FS_Singleton
    <3>. QED BY <3>1, FS_AddElement
  <2>. QED BY <2>2, <2>3, FS_Singleton, FS_EmptySet
<1>8. new \subseteq nextId .. nextId' - 1 /\ nextId' \in nextId .. RMaxTable + 1
  <2>. HIDE DEF parts
  <2>1. CASE parts = {} /\ Cardinality(parts) = 0
    BY <1>4, <1>6, <2>1
  <2>2. CASE parts = {"cold"} /\ Cardinality(parts) = 1
    BY <1>4, <1>6, <2>2
  <2>3. CASE parts = {"hot"} /\ Cardinality(parts) = 1
    BY <1>4, <1>6, <2>3
  <2>4. CASE parts = {"cold", "hot"} /\ Cardinality(parts) = 2
    BY <1>4, <1>6, <2>4
  <2>. QED BY <1>7, <2>1, <2>2, <2>3, <2>4
<1>. HIDE DEF m, parts, new, cs
<1>9. \A i \in new : i \notin DOMAIN sst
  <2>1. \A i \in DOMAIN sst : i \in 1 .. nextId - 1
    BY DEF ManifestUp
  <2>2. \A i \in nextId .. nextId' - 1 : i \notin 1 .. nextId - 1
    BY <1>6, <1>8
  <2>. QED BY <1>8, <2>1, <2>2
<1>10. \A c \in m : idOf(trackOf(c.e.key)) \in new
  <2>1. \A c \in m : trackOf(c.e.key) \in parts
    BY DEF parts, trackOf, Tracks
  <2>. QED BY <2>1 DEF new
<1>. HIDE DEF idOf
<1>11. DOMAIN sst' = DOMAIN sst \cup new /\ \A i \in DOMAIN sst : sst'[i] = sst[i]
  BY <1>3
<1>12. \A i \in new : sst'[i] = {c \in m : idOf(trackOf(c.e.key)) = i}
  BY <1>3, <1>9
<1>13. \A c : c \in UNION {sst'[i] : i \in new} <=> c \in m
  BY <1>10, <1>12
<1>14. UNION {sst'[i] : i \in new} = m
  BY <1>13
<1>15. UNION {sst'[i] : i \in new} = skl[Head(imm)]
  BY <1>14 DEF m
<1>16. builtAs(new, cs)
  BY <1>4, <1>5, <1>8, <1>9, <1>11, <1>15 DEF builtAs
<1>. QED BY <1>16

LEMMA FlushBuildKeepsManifest == ManifestInv /\ flushBuild => ManifestInv'
<1>. SUFFICES ASSUME ManifestInv, flushBuild PROVE ManifestInv'
  OBVIOUS
<1>1. status = "up" /\ flusher = Idle
  BY DEF flushBuild
<1>2. JobsInv /\ ManifestUp
  BY <1>1, UpFacts
<1>9. PICK N, C : builtAs(N, C)
  BY <1>2, TablesBuilt
<1>10. UNCHANGED <<manifest, tables, mf, compactor, appendLock, status, ghosts>>
  BY DEF flushBuild, histVars
<1>11. /\ DOMAIN sst' = DOMAIN sst \cup N /\ flusher' = [phase |-> "built", cs |-> C]
       /\ C # Torn /\ created(C) = C /\ madeIn(C) = N
  BY <1>9 DEF builtAs
<1>a. PICK a, b : a = nextId /\ b = nextId'
  OBVIOUS
<1>b. a \in Nat \ {0} /\ b \in a .. RMaxTable + 1 /\ N \subseteq a .. b - 1 /\ RMaxTable \in Nat
  <2>1. nextId \in 1 .. RMaxTable + 1
    BY <1>2 DEF ManifestUp
  <2>2. N \subseteq nextId .. nextId' - 1 /\ nextId' \in nextId .. RMaxTable + 1
    BY <1>9 DEF builtAs
  <2>3. RMaxTable \in Nat
    BY RecoveryAssumption
  <2>4. a \in Nat \ {0}
    BY <1>a, <2>1, <2>3
  <2>. QED BY <1>a, <2>2, <2>3, <2>4
<1>c. /\ \A i \in N : i \notin 1 .. a - 1 /\ i \in 1 .. b - 1
      /\ 1 .. a - 1 \subseteq 1 .. b - 1 /\ b \in 1 .. RMaxTable + 1
  BY <1>b
<1>12. N \cap DOMAIN sst = {} /\ N \cap DOMAIN tables = {} /\ N \cap DOMAIN mf.tables = {}
       /\ N \cap DOMAIN ReplayManifest(manifest).tables = {}
  <2>1. \A i \in DOMAIN ReplayManifest(manifest).tables \cup DOMAIN mf.tables \cup DOMAIN sst : i \in 1 .. nextId - 1
    BY <1>2 DEF ManifestUp
  <2>2. DOMAIN tables \subseteq DOMAIN sst
    BY <1>2 DEF ManifestUp
  <2>3. \A i \in N : i \notin 1 .. nextId - 1
    BY <1>a, <1>c
  <2>. QED BY <2>1, <2>2, <2>3
<1>13. JobsInv'
  <2>1. FlusherMade'
    BY <1>10, <1>11, <1>12 DEF FlusherMade
  <2>2. CompactorMade'
    BY <1>2, <1>10, <1>11 DEF JobsInv, CompactorMade
  <2>3. LockMade'
    BY <1>1, <1>2, <1>10, <1>11 DEF JobsInv, LockMade, holdsLock, Idle
  <2>4. JobsApart'
    BY <1>2, <1>10, <1>11, <1>12 DEF JobsInv, JobsApart, CompactorMade, Idle
  <2>. QED BY <2>1, <2>2, <2>3, <2>4 DEF JobsInv
<1>14. ManifestUp'
  <2>1. afterChange' = afterChange
    BY <1>1, <1>10, <1>11 DEF afterChange, Idle
  <2>2. onDisk(mf)' = onDisk(mf) /\ onDisk(ReplayManifest(manifest))' = onDisk(ReplayManifest(manifest))
    BY <1>10, <1>11, <1>12 DEF onDisk
  <2>3. DOMAIN sst' \subseteq 1 .. nextId' - 1
    BY <1>2, <1>11, <1>a, <1>c DEF ManifestUp
  <2>4. 1 .. nextId - 1 \subseteq 1 .. nextId' - 1 /\ nextId' \in 1 .. RMaxTable + 1
    BY <1>a, <1>c
  <2>. QED BY <1>2, <1>10, <1>11, <2>1, <2>2, <2>3, <2>4 DEF ManifestUp
<1>. QED BY <1>1, <1>10, <1>13, <1>14, LiftUp

LEMMA Applied ==
  ASSUME NEW m, NEW cs
  PROVE  /\ DOMAIN applyChangeSet(m, cs) = {"tables", "creations", "deletions"}
         /\ DOMAIN applyChangeSet(m, cs).tables = (DOMAIN m.tables \ deleted(cs)) \cup madeIn(cs)
BY DEF applyChangeSet, madeIn

LEMMA OnlyCreates == ASSUME NEW cs, created(cs) = cs PROVE deleted(cs) = {} /\ madeIn(cs) = {c.id : c \in cs}
<1>1. \A c \in cs : c.op = "create"
  BY DEF created
<1>. QED BY <1>1 DEF deleted, madeIn

(* addChanges begins and ends.                                             *)
LEMMA FlushManifestKeepsManifest == ManifestInv /\ flushManifest => ManifestInv'
<1>. SUFFICES ASSUME ManifestInv, flushManifest PROVE ManifestInv'
  OBVIOUS
<1>1. status = "up" /\ flusher.phase = "built"
  BY DEF ManifestInv, flushManifest, Idle
<1>2. JobsInv /\ ManifestUp
  BY <1>1, UpFacts
<1>3. PICK C : C = flusher.cs
  OBVIOUS
<1>4. /\ DOMAIN flusher = {"phase", "cs"} /\ C # Torn /\ created(C) = C /\ madeIn(C) \subseteq DOMAIN sst \ DOMAIN tables
      /\ deleted(C) = {}
  BY <1>1, <1>2, <1>3, OnlyCreates DEF JobsInv, FlusherMade, Idle
<1>5. /\ appendLock = Idle /\ mf' = applyChangeSet(mf, C) /\ DOMAIN flusher' = {"phase", "cs"} /\ flusher'.phase = "manifest"
      /\ flusher'.cs = C
      /\ DOMAIN appendLock' = {"phase", "owner", "cs"} /\ appendLock'.phase \in {"append", "rewrite"}
      /\ appendLock'.owner = "flush" /\ appendLock'.cs = C
  BY <1>3, <1>4 DEF flushManifest, addChanges
<1>6. UNCHANGED <<manifest, sst, tables, nextId, compactor, status, ghosts>>
  BY DEF flushManifest, diskVars, histVars
<1>7. compactor.phase # "manifest"
  BY <1>2, <1>5 DEF JobsInv, LockMade, holdsLock, Idle
<1>8. DOMAIN mf' = {"tables", "creations", "deletions"} /\ DOMAIN mf'.tables = DOMAIN mf.tables \cup madeIn(C)
  BY <1>4, <1>5, Applied
<1>9. JobsInv'
  <2>1. FlusherMade'
    BY <1>4, <1>5, <1>6 DEF FlusherMade
  <2>2. CompactorMade'
    BY <1>2, <1>6 DEF JobsInv, CompactorMade
  <2>3. LockMade'
    BY <1>5, <1>6, <1>7 DEF LockMade, holdsLock, Idle
  <2>4. JobsApart'
    BY <1>1, <1>2, <1>3, <1>5, <1>6, <1>7 DEF JobsInv, JobsApart
  <2>. QED BY <2>1, <2>2, <2>3, <2>4 DEF JobsInv
<1>10. ManifestUp'
  <2>1. afterChange = DOMAIN tables /\ afterChange' = DOMAIN tables \cup madeIn(C)
    BY <1>1, <1>5, <1>6, <1>7 DEF afterChange
  <2>2. onDisk(mf)' = onDisk(mf) \cup madeIn(C)
    BY <1>4, <1>6, <1>8 DEF onDisk
  <2>3. onDisk(ReplayManifest(manifest))' = onDisk(ReplayManifest(manifest))
    BY <1>6 DEF onDisk
  <2>4. madeIn(C) \subseteq DOMAIN sst
    BY <1>4
  <2>. QED BY <1>2, <1>6, <1>8, <2>1, <2>2, <2>3, <2>4 DEF ManifestUp
<1>. QED BY <1>1, <1>6, <1>9, <1>10, LiftUp

LEMMA CompactManifestKeepsManifest == ManifestInv /\ compactManifest => ManifestInv'
<1>. SUFFICES ASSUME ManifestInv, compactManifest PROVE ManifestInv'
  OBVIOUS
<1>1. status = "up" /\ compactor.phase = "built"
  BY DEF ManifestInv, compactManifest, Idle
<1>2. JobsInv /\ ManifestUp
  BY <1>1, UpFacts
<1>3. PICK C, top, id : C = compactor.cs /\ top = compactor.top /\ id = compactor.id
  OBVIOUS
<1>4. /\ DOMAIN compactor = {"phase", "top", "id", "cs"} /\ C # Torn /\ deleted(C) = top /\ madeIn(C) = {id}
      /\ top \subseteq DOMAIN tables /\ id \in DOMAIN sst \ DOMAIN tables
  BY <1>1, <1>2, <1>3 DEF JobsInv, CompactorMade, Idle
<1>5. /\ appendLock = Idle /\ mf' = applyChangeSet(mf, C)
      /\ DOMAIN compactor' = {"phase", "top", "id", "cs"} /\ compactor'.phase = "manifest"
      /\ compactor'.cs = C /\ compactor'.top = top /\ compactor'.id = id
      /\ DOMAIN appendLock' = {"phase", "owner", "cs"} /\ appendLock'.phase \in {"append", "rewrite"}
      /\ appendLock'.owner = "compact" /\ appendLock'.cs = C
  BY <1>3, <1>4 DEF compactManifest, addChanges
<1>6. UNCHANGED <<manifest, sst, tables, nextId, flusher, status, ghosts>>
  BY DEF compactManifest, diskVars, histVars
<1>7. flusher.phase # "manifest"
  BY <1>2, <1>5 DEF JobsInv, LockMade, holdsLock, Idle
<1>8. DOMAIN mf' = {"tables", "creations", "deletions"} /\ DOMAIN mf'.tables = (DOMAIN mf.tables \ top) \cup {id}
  BY <1>4, <1>5, Applied
<1>9. JobsInv'
  <2>1. CompactorMade'
    BY <1>4, <1>5, <1>6 DEF CompactorMade
  <2>2. FlusherMade'
    BY <1>2, <1>6 DEF JobsInv, FlusherMade
  <2>3. LockMade'
    BY <1>5, <1>6, <1>7 DEF LockMade, holdsLock, Idle
  <2>4. JobsApart'
    BY <1>1, <1>2, <1>3, <1>5, <1>6, <1>7 DEF JobsInv, JobsApart
  <2>. QED BY <2>1, <2>2, <2>3, <2>4 DEF JobsInv
<1>10. ManifestUp'
  <2>1. afterChange = DOMAIN tables /\ afterChange' = (DOMAIN tables \ top) \cup {id}
    BY <1>1, <1>5, <1>6, <1>7 DEF afterChange
  <2>2. onDisk(mf)' = (onDisk(mf) \ top) \cup {id}
    BY <1>4, <1>6, <1>8 DEF onDisk
  <2>3. onDisk(ReplayManifest(manifest))' = onDisk(ReplayManifest(manifest))
    BY <1>6 DEF onDisk
  <2>4. id \in DOMAIN sst
    BY <1>4
  <2>. QED BY <1>2, <1>6, <1>8, <2>1, <2>2, <2>3, <2>4 DEF ManifestUp
<1>. QED BY <1>1, <1>6, <1>9, <1>10, LiftUp

(* The file after the change C, whichever way it is written.               *)
Written(C) ==
  /\ replayable(manifest') /\ DOMAIN mf' = {"tables", "creations", "deletions"} /\ DOMAIN mf'.tables = DOMAIN mf.tables
  /\ \/ DOMAIN ReplayManifest(manifest').tables = DOMAIN mf.tables
     \/ DOMAIN ReplayManifest(manifest').tables = (DOMAIN ReplayManifest(manifest).tables \ deleted(C)) \cup madeIn(C)

LEMMA ChangesWritten ==
  ASSUME ManifestUp, NEW owner, addChangesEnd(owner), NEW C, C = appendLock.cs, C # Torn,
         madeIn(C) \cap DOMAIN tables = {}, deleted(C) \subseteq DOMAIN tables, madeIn(C) \subseteq DOMAIN sst
  PROVE  Written(C)
<1>1. PICK r : r = ReplayManifest(manifest)
  OBVIOUS
<1>2. replayable(manifest) /\ DOMAIN mf = {"tables", "creations", "deletions"} /\ onDisk(r) = DOMAIN tables
  BY <1>1 DEF ManifestUp
<1>3. madeIn(C) \cap DOMAIN r.tables = {} /\ deleted(C) \subseteq DOMAIN r.tables
  BY <1>2 DEF onDisk
<1>4. CASE manifest' = Append(manifest, C) /\ mf' = mf
  BY <1>1, <1>2, <1>3, <1>4, RecordAdded DEF Written
<1>5. CASE manifest' = <<asChanges(mf)>> /\ mf' = [mf EXCEPT !.creations = Cardinality(DOMAIN mf.tables), !.deletions = 0]
  <2>1. DOMAIN mf' = {"tables", "creations", "deletions"} /\ mf'.tables = mf.tables
    BY <1>2, <1>5
  <2>2. replayable(manifest') /\ DOMAIN ReplayManifest(manifest').tables = DOMAIN mf.tables
    BY <1>5, FileRewritten
  <2>. QED BY <2>1, <2>2 DEF Written
<1>. QED BY <1>4, <1>5 DEF addChangesEnd

LEMMA LockedChange ==
  ASSUME JobsInv, appendLock # Idle
  PROVE  LET C == appendLock.cs
         IN  /\ C # Torn /\ madeIn(C) \cap DOMAIN tables = {} /\ deleted(C) \subseteq DOMAIN tables
             /\ madeIn(C) \subseteq DOMAIN sst /\ afterChange = (DOMAIN tables \ deleted(C)) \cup madeIn(C)
             /\ \/ appendLock.owner = "flush" /\ flusher.phase = "manifest" /\ C = flusher.cs
                \/ appendLock.owner = "compact" /\ compactor.phase = "manifest" /\ C = compactor.cs
<1>1. CASE appendLock.owner = "flush"
  <2>1. flusher.phase = "manifest" /\ appendLock.cs = flusher.cs
    BY <1>1 DEF JobsInv, LockMade, holdsLock
  <2>2. /\ flusher.cs # Torn /\ created(flusher.cs) = flusher.cs /\ madeIn(flusher.cs) \subseteq DOMAIN sst \ DOMAIN tables
    BY <2>1 DEF JobsInv, FlusherMade, Idle
  <2>3. deleted(flusher.cs) = {}
    BY <2>2, OnlyCreates
  <2>. QED BY <1>1, <2>1, <2>2, <2>3 DEF afterChange
<1>2. CASE appendLock.owner = "compact"
  <2>1. compactor.phase = "manifest" /\ appendLock.cs = compactor.cs /\ flusher.phase # "manifest"
    BY <1>2 DEF JobsInv, LockMade, holdsLock
  <2>2. /\ compactor.cs # Torn /\ deleted(compactor.cs) = compactor.top /\ compactor.top \subseteq DOMAIN tables
        /\ madeIn(compactor.cs) = {compactor.id} /\ compactor.id \in DOMAIN sst \ DOMAIN tables
    BY <2>1 DEF JobsInv, CompactorMade, Idle
  <2>. QED BY <1>2, <2>1, <2>2 DEF afterChange
<1>. QED BY <1>1, <1>2 DEF JobsInv, LockMade

LEMMA FlushAddKeepsManifest == ManifestInv /\ flushAdd => ManifestInv'
<1>. SUFFICES ASSUME ManifestInv, flushAdd PROVE ManifestInv'
  OBVIOUS
<1>1. status = "up" /\ flusher.phase = "manifest" /\ appendLock # Idle /\ addChangesEnd("flush") /\ appendLock' = Idle
  BY DEF ManifestInv, flushAdd, Idle, addChangesEnd
<1>2. JobsInv /\ ManifestUp
  BY <1>1, UpFacts
<1>3. PICK C : C = appendLock.cs
  OBVIOUS
<1>4. /\ C # Torn /\ madeIn(C) \cap DOMAIN tables = {} /\ madeIn(C) \subseteq DOMAIN sst /\ C = flusher.cs
      /\ compactor.phase # "manifest" /\ deleted(C) = {} /\ madeIn(C) = {c.id : c \in C}
      /\ afterChange = DOMAIN tables \cup madeIn(C)
  <2>1. flusher.cs = C /\ created(C) = C /\ compactor.phase # "manifest"
    BY <1>1, <1>2, <1>3 DEF JobsInv, FlusherMade, LockMade, holdsLock, Idle
  <2>. QED BY <1>1, <1>2, <1>3, <2>1, OnlyCreates, LockedChange
<1>5. Written(C)
  BY <1>1, <1>2, <1>3, <1>4, ChangesWritten
<1>6. UNCHANGED <<sst, nextId, compactor, status, ghosts>> /\ flusher' = [phase |-> "added"]
      /\ DOMAIN tables' = DOMAIN tables \cup madeIn(C)
  BY <1>4 DEF flushAdd, histVars
<1>7. JobsInv'
  <2>1. FlusherMade'
    BY <1>6 DEF FlusherMade
  <2>2. CompactorMade'
    BY <1>2, <1>1, <1>4, <1>6 DEF JobsInv, CompactorMade, JobsApart
  <2>3. LockMade'
    BY <1>1, <1>4, <1>6 DEF LockMade, holdsLock, Idle
  <2>4. JobsApart'
    BY <1>6 DEF JobsApart
  <2>. QED BY <2>1, <2>2, <2>3, <2>4 DEF JobsInv
<1>8. ManifestUp'
  <2>1. afterChange' = DOMAIN tables'
    BY <1>4, <1>6 DEF afterChange
  <2>2. onDisk(mf)' = onDisk(mf) /\ onDisk(mf) = DOMAIN tables'
    BY <1>2, <1>4, <1>5, <1>6 DEF ManifestUp, onDisk, Written
  <2>3. onDisk(ReplayManifest(manifest))' = DOMAIN tables'
    BY <1>2, <1>4, <1>5, <1>6, <2>2 DEF ManifestUp, onDisk, Written
  <2>4. DOMAIN ReplayManifest(manifest').tables \subseteq DOMAIN ReplayManifest(manifest).tables \cup DOMAIN mf.tables \cup DOMAIN sst
    BY <1>4, <1>5 DEF Written
  <2>5. DOMAIN tables' \subseteq DOMAIN sst
    BY <1>2, <1>4, <1>6 DEF ManifestUp
  <2>6. DOMAIN ReplayManifest(manifest').tables \cup DOMAIN mf'.tables \subseteq DOMAIN sst \cup ghosts
    BY <1>2, <1>5, <2>4 DEF ManifestUp, Written
  <2>7. DOMAIN ReplayManifest(manifest').tables \cup DOMAIN mf'.tables \cup DOMAIN sst \subseteq 1 .. nextId - 1
    BY <1>2, <1>5, <2>4 DEF ManifestUp, Written
  <2>. QED BY <1>2, <1>5, <1>6, <2>1, <2>2, <2>3, <2>5, <2>6, <2>7 DEF ManifestUp, Written
<1>. QED BY <1>1, <1>6, <1>7, <1>8, LiftUp

LEMMA CompactReplaceKeepsManifest == ManifestInv /\ compactReplace => ManifestInv'
<1>. SUFFICES ASSUME ManifestInv, compactReplace PROVE ManifestInv'
  OBVIOUS
<1>1. status = "up" /\ compactor.phase = "manifest" /\ appendLock # Idle /\ addChangesEnd("compact") /\ appendLock' = Idle
  BY DEF ManifestInv, compactReplace, Idle, addChangesEnd
<1>2. JobsInv /\ ManifestUp
  BY <1>1, UpFacts
<1>3. PICK C, top, id : C = appendLock.cs /\ top = compactor.top /\ id = compactor.id
  OBVIOUS
<1>4. /\ C # Torn /\ C = compactor.cs /\ madeIn(C) = {id} /\ deleted(C) = top
      /\ id \in DOMAIN sst \ DOMAIN tables /\ top \subseteq DOMAIN tables
      /\ flusher.phase # "manifest" /\ afterChange = (DOMAIN tables \ top) \cup {id}
  <2>1. compactor.cs = C /\ flusher.phase # "manifest"
    BY <1>1, <1>2, <1>3 DEF JobsInv, LockMade, holdsLock, Idle
  <2>2. /\ C # Torn /\ madeIn(C) = {id} /\ deleted(C) = top
        /\ id \in DOMAIN sst \ DOMAIN tables /\ top \subseteq DOMAIN tables
    BY <1>1, <1>2, <1>3, <2>1 DEF JobsInv, CompactorMade, Idle
  <2>. QED BY <1>1, <1>3, <2>1, <2>2 DEF afterChange
<1>5. Written(C)
  BY <1>1, <1>2, <1>3, <1>4, ChangesWritten
<1>6. UNCHANGED <<sst, nextId, flusher, status, ghosts>> /\ compactor' = [phase |-> "replaced", top |-> top]
      /\ DOMAIN tables' = (DOMAIN tables \ top) \cup {id}
  BY <1>3 DEF compactReplace, histVars, with, without
<1>7. JobsInv'
  <2>1. FlusherMade'
    BY <1>1, <1>2, <1>3, <1>4, <1>6 DEF JobsInv, FlusherMade, JobsApart
  <2>2. CompactorMade'
    BY <1>2, <1>4, <1>6 DEF CompactorMade, ManifestUp
  <2>3. LockMade'
    BY <1>1, <1>4, <1>6 DEF LockMade, holdsLock, Idle
  <2>4. JobsApart'
    BY <1>2, <1>4, <1>6 DEF JobsInv, JobsApart, FlusherMade, Idle
  <2>. QED BY <2>1, <2>2, <2>3, <2>4 DEF JobsInv
<1>8. ManifestUp'
  <2>1. afterChange' = DOMAIN tables'
    BY <1>4, <1>6 DEF afterChange
  <2>2. onDisk(mf)' = onDisk(mf) /\ onDisk(mf) = DOMAIN tables'
    BY <1>2, <1>4, <1>5, <1>6 DEF ManifestUp, onDisk, Written
  <2>3. onDisk(ReplayManifest(manifest))' = DOMAIN tables'
    BY <1>2, <1>4, <1>5, <1>6, <2>2 DEF ManifestUp, onDisk, Written
  <2>4. DOMAIN ReplayManifest(manifest').tables \subseteq DOMAIN ReplayManifest(manifest).tables \cup DOMAIN mf.tables \cup DOMAIN sst
    BY <1>4, <1>5 DEF Written
  <2>5. DOMAIN tables' \subseteq DOMAIN sst
    BY <1>2, <1>4, <1>6 DEF ManifestUp
  <2>6. DOMAIN ReplayManifest(manifest').tables \cup DOMAIN mf'.tables \subseteq DOMAIN sst \cup ghosts
    BY <1>2, <1>5, <2>4 DEF ManifestUp, Written
  <2>7. DOMAIN ReplayManifest(manifest').tables \cup DOMAIN mf'.tables \cup DOMAIN sst \subseteq 1 .. nextId - 1
    BY <1>2, <1>5, <2>4 DEF ManifestUp, Written
  <2>. QED BY <1>2, <1>5, <1>6, <2>1, <2>2, <2>3, <2>5, <2>6, <2>7 DEF ManifestUp, Written
<1>. QED BY <1>1, <1>6, <1>7, <1>8, LiftUp

(* addChanges fails: the tables it was to add go, and may be named.        *)
LEMMA FlushErrorKeepsManifest == ManifestInv /\ flushError => ManifestInv'
<1>. SUFFICES ASSUME ManifestInv, flushError PROVE ManifestInv'
  OBVIOUS
<1>1. status = "up" /\ flusher.phase = "manifest" /\ appendLock # Idle /\ addChangesError("flush") /\ appendLock' = Idle
  BY DEF ManifestInv, flushError, Idle, addChangesError
<1>2. JobsInv /\ ManifestUp
  BY <1>1, UpFacts
<1>3. PICK C, r, new : C = appendLock.cs /\ r = ReplayManifest(manifest) /\ new = madeIn(C)
  OBVIOUS
<1>4. /\ C # Torn /\ new \cap DOMAIN tables = {} /\ new \subseteq DOMAIN sst /\ C = flusher.cs
      /\ compactor.phase # "manifest" /\ deleted(C) = {} /\ new = {c.id : c \in C}
      /\ afterChange = DOMAIN tables \cup new
  <2>1. flusher.cs = C /\ created(C) = C /\ compactor.phase # "manifest"
    BY <1>1, <1>2, <1>3 DEF JobsInv, FlusherMade, LockMade, holdsLock, Idle
  <2>. QED BY <1>1, <1>2, <1>3, <2>1, OnlyCreates, LockedChange
<1>5. UNCHANGED <<tables, nextId, compactor, status, mf>> /\ flusher' = Idle /\ ghosts' = ghosts \cup new
      /\ DOMAIN sst' = DOMAIN sst \ new /\ manifest' \in {manifest, Append(manifest, C)}
  BY <1>1, <1>3, <1>4 DEF flushError, addChangesError, without
<1>6. /\ replayable(manifest') /\ DOMAIN r.tables \subseteq DOMAIN ReplayManifest(manifest').tables
      /\ DOMAIN ReplayManifest(manifest').tables \subseteq DOMAIN r.tables \cup new
  <2>1. replayable(manifest) /\ onDisk(r) = DOMAIN tables
    BY <1>2, <1>3 DEF ManifestUp
  <2>2. new \cap DOMAIN r.tables = {}
    BY <1>4, <2>1 DEF onDisk
  <2>3. CASE manifest' = Append(manifest, C)
    <3>1. deleted(C) \subseteq DOMAIN r.tables
      BY <1>4
    <3>. QED BY <1>3, <1>4, <2>1, <2>2, <2>3, <3>1, RecordAdded
  <2>. QED BY <1>3, <1>5, <2>1, <2>3
<1>7. JobsInv'
  <2>1. FlusherMade'
    BY <1>5 DEF FlusherMade
  <2>2. CompactorMade'
    <3>1. compactor.phase = "built" => compactor.id \notin new
      BY <1>1, <1>2, <1>3, <1>4 DEF JobsInv, JobsApart
    <3>2. compactor.phase = "replaced" => compactor.top \cap new = {}
      BY <1>1, <1>2, <1>3, <1>4 DEF JobsInv, JobsApart
    <3>. QED BY <1>2, <1>4, <1>5, <3>1, <3>2 DEF JobsInv, CompactorMade
  <2>3. LockMade'
    BY <1>1, <1>4, <1>5 DEF LockMade, holdsLock, Idle
  <2>4. JobsApart'
    BY <1>5 DEF JobsApart, Idle
  <2>. QED BY <2>1, <2>2, <2>3, <2>4 DEF JobsInv
<1>8. ManifestUp'
  <2>1. afterChange' = DOMAIN tables'
    BY <1>4, <1>5 DEF afterChange, Idle
  <2>2. onDisk(mf)' = DOMAIN tables
    BY <1>2, <1>4, <1>5 DEF ManifestUp, onDisk
  <2>3. onDisk(ReplayManifest(manifest))' = DOMAIN tables
    BY <1>2, <1>3, <1>4, <1>5, <1>6 DEF ManifestUp, onDisk
  <2>4. DOMAIN tables \subseteq DOMAIN sst'
    BY <1>2, <1>4, <1>5 DEF ManifestUp
  <2>5. DOMAIN ReplayManifest(manifest').tables \cup DOMAIN mf.tables \subseteq DOMAIN sst' \cup ghosts'
    BY <1>2, <1>3, <1>5, <1>6 DEF ManifestUp
  <2>6. DOMAIN ReplayManifest(manifest').tables \cup DOMAIN mf.tables \cup DOMAIN sst' \subseteq 1 .. nextId - 1
    BY <1>2, <1>3, <1>4, <1>5, <1>6 DEF ManifestUp
  <2>. QED BY <1>2, <1>5, <1>6, <2>1, <2>2, <2>3, <2>4, <2>5, <2>6 DEF ManifestUp
<1>. QED BY <1>1, <1>5, <1>7, <1>8, LiftUp

LEMMA FlushDoneKeepsManifest == ManifestInv /\ flushDone => ManifestInv'
<1>. SUFFICES ASSUME ManifestInv, flushDone PROVE ManifestInv'
  OBVIOUS
<1>1. status = "up" /\ flusher.phase = "added"
  BY DEF ManifestInv, flushDone, Idle
<1>2. JobsInv /\ ManifestUp
  BY <1>1, UpFacts
<1>3. UNCHANGED <<manifest, sst, tables, mf, nextId, compactor, appendLock, status, ghosts>> /\ flusher' = Idle
  BY DEF flushDone, histVars
<1>4. JobsInv'
  BY <1>1, <1>2, <1>3 DEF JobsInv, FlusherMade, CompactorMade, LockMade, JobsApart, holdsLock, Idle
<1>5. ManifestUp'
  BY <1>1, <1>2, <1>3 DEF ManifestUp, onDisk, afterChange, Idle
<1>. QED BY <1>1, <1>3, <1>4, <1>5, LiftUp

(* compactBuild and the end of a compaction.                               *)
LEMMA CompactBuildKeepsManifest == ASSUME NEW lvl PROVE ManifestInv /\ compactBuild(lvl) => ManifestInv'
<1>. SUFFICES ASSUME ManifestInv, compactBuild(lvl) PROVE ManifestInv'
  OBVIOUS
<1>1. status = "up" /\ compactor = Idle
  BY DEF compactBuild
<1>2. JobsInv /\ ManifestUp
  BY <1>1, UpFacts
<1>. DEFINE top == {i \in DOMAIN tables : tables[i] = lvl}
            cs == {createChange(nextId, lvl + 1)} \cup {deleteChange(i) : i \in top}
<1>3. /\ DOMAIN sst' = DOMAIN sst \cup {nextId} /\ nextId' = nextId + 1
      /\ compactor' = [phase |-> "built", top |-> top, id |-> nextId, cs |-> cs]
      /\ UNCHANGED <<manifest, tables, mf, flusher, appendLock, status, ghosts>>
  BY DEF compactBuild, with, histVars
<1>4. /\ createChange(nextId, lvl + 1).op = "create" /\ createChange(nextId, lvl + 1).id = nextId
      /\ \A i : deleteChange(i).op = "delete" /\ deleteChange(i).id = i
  BY DEF createChange, deleteChange
<1>5. cs # Torn /\ madeIn(cs) = {nextId} /\ deleted(cs) = top
  <2>. HIDE DEF top
  <2>1. [op |-> "torn", id |-> 0, level |-> 0] \notin cs
    BY <1>4
  <2>2. created(cs) = {createChange(nextId, lvl + 1)}
    BY <1>4 DEF created
  <2>3. deleted(cs) = top
    <3>1. \A i \in top : deleteChange(i) \in cs
      OBVIOUS
    <3>2. \A c \in cs : c.op = "delete" => c.id \in top
      BY <1>4
    <3>. HIDE DEF cs
    <3>. QED BY <1>4, <3>1, <3>2 DEF deleted
  <2>. HIDE DEF cs
  <2>. QED BY <1>4, <2>1, <2>2, <2>3 DEF Torn, madeIn
<1>6. top \subseteq DOMAIN tables
  OBVIOUS
<1>. HIDE DEF top, cs
<1>7. nextId \in Nat \ {0} /\ RMaxTable \in Nat /\ nextId <= RMaxTable
  BY <1>2, RecoveryAssumption DEF ManifestUp, compactBuild
<1>8. PICK a, r : a = nextId /\ r = ReplayManifest(manifest)
  OBVIOUS
<1>9. /\ a \notin 1 .. a - 1 /\ a \in 1 .. a /\ (a + 1) - 1 = a /\ 1 .. a - 1 \subseteq 1 .. a
      /\ a + 1 \in 1 .. RMaxTable + 1
  BY <1>7, <1>8
<1>10. a \notin DOMAIN sst /\ a \notin DOMAIN tables /\ a \notin DOMAIN mf.tables /\ a \notin DOMAIN r.tables
  BY <1>2, <1>8, <1>9 DEF ManifestUp
<1>11. JobsInv'
  <2>1. FlusherMade'
    BY <1>2, <1>3 DEF JobsInv, FlusherMade
  <2>2. CompactorMade'
    BY <1>3, <1>5, <1>6, <1>8, <1>10 DEF CompactorMade
  <2>3. LockMade'
    BY <1>1, <1>2, <1>3 DEF JobsInv, LockMade, holdsLock, Idle
  <2>4. JobsApart'
    <3>1. flusher.phase \in {"built", "manifest"} => madeIn(flusher.cs) \subseteq DOMAIN sst
      BY <1>2 DEF JobsInv, FlusherMade, Idle
    <3>. QED BY <1>3, <1>8, <1>10, <3>1 DEF JobsApart
  <2>. QED BY <2>1, <2>2, <2>3, <2>4 DEF JobsInv
<1>12. ManifestUp'
  <2>1. afterChange' = afterChange
    BY <1>1, <1>3 DEF afterChange, Idle
  <2>2. onDisk(mf)' = onDisk(mf) /\ onDisk(ReplayManifest(manifest))' = onDisk(ReplayManifest(manifest))
    BY <1>3, <1>8, <1>10 DEF onDisk
  <2>3. DOMAIN r.tables \cup DOMAIN mf.tables \cup DOMAIN sst' \subseteq 1 .. nextId' - 1 /\ nextId' \in 1 .. RMaxTable + 1
    BY <1>2, <1>3, <1>8, <1>9 DEF ManifestUp
  <2>. QED BY <1>2, <1>3, <1>8, <2>1, <2>2, <2>3 DEF ManifestUp
<1>. QED BY <1>1, <1>3, <1>11, <1>12, LiftUp

LEMMA CompactDeleteKeepsManifest == ManifestInv /\ compactDelete => ManifestInv'
<1>. SUFFICES ASSUME ManifestInv, compactDelete PROVE ManifestInv'
  OBVIOUS
<1>1. status = "up" /\ compactor.phase = "replaced"
  BY DEF ManifestInv, compactDelete, Idle
<1>2. JobsInv /\ ManifestUp
  BY <1>1, UpFacts
<1>3. PICK top, r : top = compactor.top /\ r = ReplayManifest(manifest)
  OBVIOUS
<1>4. UNCHANGED <<manifest, tables, mf, nextId, flusher, appendLock, status, ghosts>> /\ compactor' = Idle
      /\ DOMAIN sst' = DOMAIN sst \ top
  BY <1>3 DEF compactDelete, memVars, histVars, without
<1>5. top \subseteq DOMAIN sst \ DOMAIN tables
  BY <1>1, <1>2, <1>3 DEF JobsInv, CompactorMade, Idle
<1>6. flusher.phase \in {"built", "manifest"} => top \cap madeIn(flusher.cs) = {}
  BY <1>1, <1>2, <1>3 DEF JobsInv, JobsApart
<1>7. JobsInv'
  <2>1. FlusherMade'
    BY <1>2, <1>4, <1>6 DEF JobsInv, FlusherMade
  <2>2. CompactorMade'
    BY <1>4 DEF CompactorMade
  <2>3. LockMade'
    BY <1>1, <1>2, <1>4 DEF JobsInv, LockMade, holdsLock, Idle
  <2>4. JobsApart'
    BY <1>4 DEF JobsApart, Idle
  <2>. QED BY <2>1, <2>2, <2>3, <2>4 DEF JobsInv
<1>8. ManifestUp'
  <2>1. afterChange' = afterChange /\ afterChange \cap top = {}
    BY <1>1, <1>4, <1>5, <1>6 DEF afterChange, Idle
  <2>2. /\ onDisk(mf)' = onDisk(mf) \ top /\ onDisk(r)' = onDisk(r) \ top
        /\ onDisk(mf) = afterChange /\ onDisk(r) = DOMAIN tables
    BY <1>2, <1>3, <1>4 DEF onDisk, ManifestUp
  <2>3. top \cap DOMAIN r.tables = {} /\ top \cap DOMAIN mf.tables = {}
    BY <1>5, <2>1, <2>2 DEF onDisk
  <2>. QED BY <1>2, <1>3, <1>4, <1>5, <2>1, <2>2, <2>3 DEF ManifestUp
<1>. QED BY <1>1, <1>4, <1>7, <1>8, LiftUp

(* A crash: whatever the write under way left of the manifest.             *)
LEMMA CrashedManifest ==
  ASSUME JobsInv, ManifestUp, NEW file \in crashedManifests
  PROVE  LET recs == truncateManifest(file)
         IN  /\ replayable(recs) /\ DOMAIN ReplayManifest(recs).tables \subseteq 1 .. RMaxTable
             /\ DOMAIN ReplayManifest(recs).tables \subseteq DOMAIN sst \cup ghosts
             /\ DOMAIN ReplayManifest(recs).tables \cap DOMAIN sst \in {DOMAIN tables, afterChange}
<1>1. PICK r : r = ReplayManifest(manifest)
  OBVIOUS
<1>2. /\ replayable(manifest) /\ onDisk(r) = DOMAIN tables
      /\ DOMAIN r.tables \cup DOMAIN mf.tables \subseteq DOMAIN sst \cup ghosts
      /\ DOMAIN r.tables \cup DOMAIN mf.tables \cup DOMAIN sst \subseteq 1 .. nextId - 1
      /\ nextId \in 1 .. RMaxTable + 1
      /\ DOMAIN r.tables \cap DOMAIN sst = DOMAIN tables /\ DOMAIN mf.tables \cap DOMAIN sst = afterChange
  BY <1>1 DEF ManifestUp, onDisk
<1>3. DOMAIN r.tables \cup DOMAIN mf.tables \cup DOMAIN sst \subseteq 1 .. RMaxTable
  <2>1. 1 .. nextId - 1 \subseteq 1 .. RMaxTable
    BY <1>2, RecoveryAssumption
  <2>. QED BY <1>2, <2>1
<1>4. CASE file = manifest \/ file = Append(manifest, Torn)
  BY <1>1, <1>2, <1>3, <1>4, TornCutOff
<1>5. CASE appendLock # Idle /\ file = Append(manifest, appendLock.cs)
  <2>1. PICK C : C = appendLock.cs
    OBVIOUS
  <2>2. C # Torn /\ madeIn(C) \cap DOMAIN tables = {} /\ deleted(C) \subseteq DOMAIN tables /\ madeIn(C) \subseteq DOMAIN sst
    BY <1>5, <2>1, LockedChange
  <2>3. madeIn(C) \cap DOMAIN r.tables = {} /\ deleted(C) \subseteq DOMAIN r.tables
    BY <1>2, <2>2 DEF onDisk
  <2>4. replayable(file) /\ DOMAIN ReplayManifest(file).tables = (DOMAIN r.tables \ deleted(C)) \cup madeIn(C)
    BY <1>1, <1>2, <1>5, <2>1, <2>2, <2>3, RecordAdded
  <2>5. truncateManifest(file) = file
    BY <2>4, TornCutOff
  <2>6. ((DOMAIN r.tables \ deleted(C)) \cup madeIn(C)) \cap DOMAIN sst = afterChange
    <3>1. afterChange = (DOMAIN tables \ deleted(C)) \cup madeIn(C)
      BY <1>5, <2>1, LockedChange
    <3>. QED BY <1>2, <2>2, <3>1
  <2>. QED BY <1>2, <1>3, <2>2, <2>4, <2>5, <2>6
<1>6. CASE file = <<asChanges(mf)>>
  <2>1. replayable(file) /\ DOMAIN ReplayManifest(file).tables = DOMAIN mf.tables
    BY <1>6, FileRewritten
  <2>2. truncateManifest(file) = file
    BY <2>1, TornCutOff
  <2>. QED BY <1>2, <1>3, <2>1, <2>2
<1>. QED BY <1>4, <1>5, <1>6 DEF crashedManifests

LEMMA DownKeepsManifest ==
  ASSUME ManifestInv, status = "up", goDown, manifest' \in crashedManifests
  PROVE  ManifestInv'
<1>1. JobsInv /\ ManifestUp
  BY UpFacts
<1>2. /\ status' = "down" /\ writer' = Idle /\ flusher' = Idle /\ compactor' = Idle /\ appendLock' = Idle /\ syncer' = Idle
      /\ UNCHANGED <<sst, ghosts>>
  BY DEF goDown
<1>3. ManifestDown'
  BY <1>1, <1>2, CrashedManifest DEF ManifestDown
<1>. QED BY <1>2, <1>3 DEF ManifestInv, OpenSucceeds

(* Opening.                                                                *)
LEMMA MaxBounded ==
  ASSUME NEW b \in Nat, NEW S \in SUBSET (0 .. b), S # {}
  PROVE  Max(S) \in S /\ \A y \in S : y <= Max(S)
<1>. DEFINE T == {b - x : x \in S}
<1>1. T \in SUBSET Nat /\ T # {}
  <2>1. \A x \in S : b - x \in Nat
    <3>1. \A x \in 0 .. b : b - x \in Nat
      OBVIOUS
    <3>. QED BY <3>1
  <2>2. PICK x : x \in S
    OBVIOUS
  <2>3. b - x \in T
    BY <2>2
  <2>. QED BY <2>1, <2>3
<1>. HIDE DEF T
<1>2. PICK m \in T : \A y \in T : m <= y
  BY <1>1, Least
<1>3. PICK x \in S : m = b - x
  BY DEF T
<1>4. ASSUME NEW y \in S PROVE y <= x
  <2>1. b - y \in T
    BY DEF T
  <2>. QED BY <1>2, <1>3, <2>1
<1>5. \E z \in S : \A y \in S : z >= y
  BY <1>4
<1>6. Max(S) \in S /\ \A y \in S : Max(S) >= y
  BY <1>5 DEF Max
<1>. QED BY <1>6

LEMMA OpenKeepsManifest == ManifestInv /\ Open => ManifestInv'
<1>. SUFFICES ASSUME ManifestInv, Open PROVE ManifestInv'
  OBVIOUS
<1>. DEFINE recs == truncateManifest(manifest)
            r == ReplayManifest(recs)
            ids == DOMAIN r.tables
<1>1. /\ status = "down" /\ status' = "up" /\ manifest' = recs
      /\ mf' = [tables |-> r.tables, creations |-> r.creations, deletions |-> r.deletions]
      /\ tables' = r.tables /\ DOMAIN sst' = ids /\ nextId' = Max({0} \cup ids) + 1
      /\ UNCHANGED <<writer, flusher, compactor, appendLock, syncer, ghosts>>
  BY DEF Open, jobVars, histVars
<1>2. flusher' = Idle /\ compactor' = Idle /\ appendLock' = Idle
  BY <1>1 DEF ManifestInv
<1>3. replayable(recs) /\ ids \subseteq 1 .. RMaxTable
  BY <1>1 DEF ManifestInv, ManifestDown
<1>. HIDE DEF recs, r, ids
<1>4. nextId' \in 1 .. RMaxTable + 1 /\ ids \subseteq 1 .. nextId' - 1
  <2>1. RMaxTable \in Nat
    BY RecoveryAssumption
  <2>2. PICK S : S = {0} \cup ids
    OBVIOUS
  <2>3. S \in SUBSET (0 .. RMaxTable) /\ S # {}
    BY <1>3, <2>1, <2>2
  <2>4. PICK m : m = Max(S) /\ m \in S /\ \A y \in S : y <= m
    BY <2>1, <2>3, MaxBounded
  <2>5. m \in 0 .. RMaxTable /\ nextId' = m + 1
    BY <1>1, <2>2, <2>3, <2>4
  <2>6. \A y \in ids : y \in 1 .. RMaxTable /\ y <= m
    BY <1>3, <2>2, <2>4
  <2>. QED BY <2>1, <2>5, <2>6
<1>5. JobsInv'
  BY <1>2 DEF JobsInv, FlusherMade, CompactorMade, LockMade, JobsApart, holdsLock, Idle
<1>6. ManifestUp'
  <2>1. ReplayManifest(manifest') = r
    BY <1>1 DEF r
  <2>2. afterChange' = ids
    BY <1>1, <1>2 DEF afterChange, Idle, ids
  <2>3. onDisk(mf)' = ids
    BY <1>1 DEF onDisk, ids
  <2>4. onDisk(ReplayManifest(manifest))' = ids
    BY <1>1, <2>1 DEF onDisk, ids
  <2>. QED BY <1>1, <1>3, <1>4, <2>1, <2>2, <2>3, <2>4 DEF ManifestUp, ids
<1>. QED BY <1>1, <1>5, <1>6 DEF ManifestInv, OpenSucceeds

LEMMA OpenErrorKeepsManifest == ManifestInv /\ OpenError => ManifestInv'
<1>. SUFFICES ASSUME ManifestInv, OpenError PROVE ManifestInv'
  OBVIOUS
<1>1. /\ status = "down" /\ status' = "failed" /\ UNCHANGED <<writer, flusher, compactor, appendLock, syncer, ghosts>>
      /\ ~ (ReplayManifest(truncateManifest(manifest)).ok
             /\ DOMAIN ReplayManifest(truncateManifest(manifest)).tables \subseteq DOMAIN sst)
  BY DEF OpenError, jobVars, histVars
<1>2. ghosts # {}
  BY <1>1 DEF ManifestInv, ManifestDown, replayable
<1>. QED BY <1>1, <1>2 DEF ManifestInv, OpenSucceeds

LEMMA ManifestKept == ManifestInv /\ [RecoveryNext]_recoveryVars => ManifestInv'
<1>. SUFFICES ASSUME ManifestInv, [RecoveryNext]_recoveryVars PROVE ManifestInv'
  OBVIOUS
<1>1. CASE writeStep
  BY <1>1, WritesKeepManifest
<1>2. CASE flushStep
  BY <1>2, FlushBuildKeepsManifest, FlushManifestKeepsManifest, FlushAddKeepsManifest, FlushErrorKeepsManifest,
     FlushDoneKeepsManifest DEF flushStep
<1>3. CASE mergeStep
  BY <1>3, CompactBuildKeepsManifest, CompactManifestKeepsManifest, CompactReplaceKeepsManifest,
     CompactDeleteKeepsManifest DEF mergeStep
<1>4. CASE CrashProcess \/ CrashMachine
  BY <1>4, DownKeepsManifest DEF CrashProcess, CrashMachine
<1>5. CASE Close
  <2>1. status = "up" /\ goDown /\ manifest' = manifest /\ flusher = Idle /\ compactor = Idle
    BY <1>5 DEF Close
  <2>2. manifest' \in crashedManifests
    <3>1. JobsInv
      BY <2>1, UpFacts
    <3>2. appendLock = Idle
      BY <2>1, <3>1 DEF JobsInv, LockMade, holdsLock, Idle
    <3>. QED BY <2>1, <3>2 DEF crashedManifests
  <2>. QED BY <2>1, <2>2, DownKeepsManifest
<1>6. CASE Open
  BY <1>6, OpenKeepsManifest
<1>7. CASE OpenError
  BY <1>7, OpenErrorKeepsManifest
<1>8. CASE UNCHANGED recoveryVars
  BY <1>8, OthersKeepManifest DEF recoveryVars, diskVars, memVars, jobVars, histVars, manifestVars
<1>. QED BY <1>1, <1>2, <1>3, <1>4, <1>5, <1>6, <1>7, <1>8 DEF RecoveryNext

THEOREM ManifestInvariant == RecoverySpec => []ManifestInv
<1>1. ManifestInv /\ [RecoveryNext]_recoveryVars => ManifestInv'
  BY ManifestKept
<1>. QED BY <1>1, ManifestStarts, PTL DEF RecoverySpec

THEOREM StoreCanBeReopened == RecoverySpec => []OpenSucceeds
<1>1. ManifestInv => OpenSucceeds
  BY DEF ManifestInv
<1>. QED BY <1>1, ManifestInvariant, PTL

-----------------------------------------------------------------------------
(* Replaying a log, in the same way.                                       *)
Iterated(recs, n, g) ==
  g = [k \in 0 .. n |-> IF k = 0 THEN StartReplay ELSE replayEntry(g[k - 1], recs[k])]

LEMMA IteratedExists ==
  ASSUME NEW recs, NEW n \in Nat
  PROVE  \E g : Iterated(recs, n, g)
<1>. DEFINE Bad == {k \in Nat : ~ \E g : Iterated(recs, k, g)}
<1>. SUFFICES ASSUME Bad # {} PROVE FALSE
  OBVIOUS
<1>1. PICK k \in Bad : \A j \in Bad : k <= j
  <2>. Bad \in SUBSET Nat
    OBVIOUS
  <2>. HIDE DEF Bad
  <2>. QED BY Least
<1>2. k \in Nat /\ ~ \E g : Iterated(recs, k, g)
  OBVIOUS
<1>3. k # 0
  <2>1. Iterated(recs, 0, [i \in 0 .. 0 |-> StartReplay])
    BY DEF Iterated
  <2>. QED BY <1>2, <2>1
<1>4. PICK g : Iterated(recs, k - 1, g)
  <2>1. k - 1 \in Nat /\ ~ (k <= k - 1)
    BY <1>2, <1>3
  <2>. QED BY <1>1, <2>1
<1>5. Iterated(recs, k, [i \in 0 .. k |-> IF i = k THEN replayEntry(g[k - 1], recs[k]) ELSE g[i]])
  <2>. DEFINE f == [i \in 0 .. k |-> IF i = k THEN replayEntry(g[k - 1], recs[k]) ELSE g[i]]
  <2>1. \A i \in 0 .. k : f[i] = IF i = 0 THEN StartReplay ELSE replayEntry(f[i - 1], recs[i])
    <3>. SUFFICES ASSUME NEW i \in 0 .. k
                  PROVE f[i] = IF i = 0 THEN StartReplay ELSE replayEntry(f[i - 1], recs[i])
      OBVIOUS
    <3>1. CASE i = k
      <4>1. k - 1 \in 0 .. k /\ k - 1 # k
        BY <1>2, <1>3
      <4>. QED BY <1>3, <3>1, <4>1
    <3>2. CASE i # k
      <4>1. i \in 0 .. k - 1 /\ f[i] = g[i]
        BY <1>2, <3>2
      <4>2. g[i] = IF i = 0 THEN StartReplay ELSE replayEntry(g[i - 1], recs[i])
        BY <1>4, <4>1 DEF Iterated
      <4>3. i # 0 => i - 1 \in 0 .. k /\ i - 1 # k
        BY <1>2, <4>1
      <4>. QED BY <4>1, <4>2, <4>3
    <3>. QED BY <3>1, <3>2
  <2>. QED BY <2>1 DEF Iterated
<1>. QED BY <1>2, <1>5

LEMMA IteratedSame ==
  ASSUME NEW recs, NEW s, NEW n \in Nat, NEW m \in Nat, n <= m, NEW g, NEW h,
         Iterated(recs, n, g), Iterated(s, m, h), \A k \in 1 .. n : recs[k] = s[k]
  PROVE  g[n] = h[n]
<1>. DEFINE Bad == {k \in Nat : k <= n /\ g[k] # h[k]}
<1>. SUFFICES ASSUME Bad # {} PROVE FALSE
  OBVIOUS
<1>1. PICK k \in Bad : \A j \in Bad : k <= j
  <2>. Bad \in SUBSET Nat
    OBVIOUS
  <2>. HIDE DEF Bad
  <2>. QED BY Least
<1>2. k \in Nat /\ k <= n /\ g[k] # h[k]
  OBVIOUS
<1>3. /\ g[k] = IF k = 0 THEN StartReplay ELSE replayEntry(g[k - 1], recs[k])
      /\ h[k] = IF k = 0 THEN StartReplay ELSE replayEntry(h[k - 1], s[k])
  <2>1. k \in 0 .. n /\ k \in 0 .. m
    BY <1>2
  <2>. QED BY <2>1 DEF Iterated
<1>4. k # 0 => g[k - 1] = h[k - 1] /\ recs[k] = s[k]
  <2>1. k # 0 => k - 1 \in Nat /\ k - 1 <= n /\ ~ (k <= k - 1) /\ k \in 1 .. n
    BY <1>2
  <2>. QED BY <1>1, <2>1
<1>. QED BY <1>2, <1>3, <1>4

LEMMA IteratesIs ==
  ASSUME NEW recs, Len(recs) \in Nat
  PROVE  \E g : Iterated(recs, Len(recs), g) /\ UpdateSkipList(recs) = g[Len(recs)]
<1>1. \E g : Iterated(recs, Len(recs), g)
  BY IteratedExists
<1>2. UpdateSkipList(recs) = (CHOOSE g : Iterated(recs, Len(recs), g))[Len(recs)]
  BY DEF UpdateSkipList, Iterated
<1>. QED BY <1>1, <1>2

(* The replay of the first k records.                                      *)
upTo(recs, k) == UpdateSkipList(SubSeq(recs, 1, k))

LEMMA PrefixReplayed ==
  ASSUME NEW S, NEW recs \in Seq(S)
  PROVE  /\ upTo(recs, 0) = StartReplay
         /\ upTo(recs, Len(recs)) = UpdateSkipList(recs)
         /\ \A k \in 1 .. Len(recs) : upTo(recs, k) = replayEntry(upTo(recs, k - 1), recs[k])
<1>1. PICK n \in Nat : n = Len(recs)
  OBVIOUS
<1>2. PICK g : Iterated(recs, n, g) /\ UpdateSkipList(recs) = g[n]
  BY <1>1, IteratesIs
<1>3. ASSUME NEW k \in 0 .. n PROVE upTo(recs, k) = g[k]
  <2>. DEFINE s == SubSeq(recs, 1, k)
  <2>1. k \in Nat /\ k <= n /\ Len(s) = k /\ \A i \in 1 .. k : s[i] = recs[i]
    BY <1>1
  <2>. HIDE DEF s
  <2>2. PICK h : Iterated(s, k, h) /\ UpdateSkipList(s) = h[k]
    BY <2>1, IteratesIs
  <2>3. h[k] = g[k]
    BY <1>2, <2>1, <2>2, IteratedSame
  <2>. QED BY <2>2, <2>3 DEF s, upTo
<1>4. g[0] = StartReplay /\ \A k \in 1 .. n : g[k] = replayEntry(g[k - 1], recs[k])
  <2>1. 0 \in 0 .. n /\ \A k \in 1 .. n : k \in 0 .. n /\ k # 0
    BY <1>1
  <2>. QED BY <1>2, <2>1 DEF Iterated
<1>5. 0 \in 0 .. n /\ n \in 0 .. n /\ \A k \in 1 .. n : k \in 0 .. n /\ k - 1 \in 0 .. n
  BY <1>1
<1>. QED BY <1>1, <1>2, <1>3, <1>4, <1>5

LEMMA AppendedReplayed ==
  ASSUME NEW S, NEW recs \in Seq(S), NEW r
  PROVE  /\ UpdateSkipList(Append(recs, r)) = replayEntry(UpdateSkipList(recs), r)
         /\ \A k \in 0 .. Len(recs) : upTo(Append(recs, r), k) = upTo(recs, k)
         /\ upTo(Append(recs, r), Len(recs) + 1) = UpdateSkipList(Append(recs, r))
<1>. DEFINE s == Append(recs, r)
            T == S \cup {r}
<1>1. recs \in Seq(T) /\ s \in Seq(T) /\ Len(recs) \in Nat /\ Len(s) = Len(recs) + 1 /\ s[Len(s)] = r
  OBVIOUS
<1>2. \A k \in 0 .. Len(recs) : SubSeq(s, 1, k) = SubSeq(recs, 1, k)
  <2>. SUFFICES ASSUME NEW k \in 0 .. Len(recs) PROVE SubSeq(s, 1, k) = SubSeq(recs, 1, k)
    OBVIOUS
  <2>1. SubSeq(s, 1, k) = [i \in 1 .. k |-> s[i]] /\ SubSeq(recs, 1, k) = [i \in 1 .. k |-> recs[i]]
    BY <1>1
  <2>2. \A i \in 1 .. k : s[i] = recs[i]
    BY <1>1
  <2>. QED BY <2>1, <2>2
<1>. HIDE DEF s, T
<1>3. \A k \in 0 .. Len(recs) : upTo(s, k) = upTo(recs, k)
  BY <1>2 DEF upTo
<1>4. UpdateSkipList(s) = replayEntry(UpdateSkipList(recs), r)
  <2>1. upTo(s, Len(s)) = UpdateSkipList(s) /\ upTo(recs, Len(recs)) = UpdateSkipList(recs)
    BY <1>1, PrefixReplayed
  <2>2. Len(s) \in 1 .. Len(s) /\ Len(s) - 1 = Len(recs) /\ Len(recs) \in 0 .. Len(recs)
    BY <1>1
  <2>3. upTo(s, Len(s)) = replayEntry(upTo(s, Len(s) - 1), s[Len(s)])
    BY <1>1, <2>2, PrefixReplayed
  <2>. QED BY <1>1, <1>3, <2>1, <2>2, <2>3
<1>5. upTo(s, Len(recs) + 1) = UpdateSkipList(s)
  BY <1>1, PrefixReplayed
<1>. QED BY <1>3, <1>4, <1>5 DEF s

(* What one record does to the fields.                                     *)
fieldsOf(acc) == DOMAIN acc = {"last", "pend", "out", "stop", "n", "end"}

entryTo(acc, r, b) ==
  /\ fieldsOf(b)
  /\ acc.stop => b = acc
  /\ ~ acc.stop =>
       /\ b.n = acc.n + 1
       /\ \/ b.stop /\ b.out = acc.out /\ b.end = acc.end /\ b.pend = acc.pend /\ b.last = acc.last
          \/ /\ r.kind = "txn" /\ acc.last \in {0, r.c.e.ts} /\ ~ b.stop /\ b.last = r.c.e.ts
             /\ b.pend = acc.pend \cup {r.c} /\ b.out = acc.out /\ b.end = acc.end
          \/ /\ r.kind = "fin" /\ acc.last = r.ts /\ ~ b.stop /\ b.last = 0 /\ b.pend = {}
             /\ b.out = addAll(acc.out, acc.pend) /\ b.end = acc.n + 1
          \/ /\ r.kind \notin {"txn", "fin"} /\ acc.last = 0 /\ ~ b.stop /\ b.last = 0 /\ b.pend = {}
             /\ b.out = addAll(acc.out, {r.c}) /\ b.end = acc.n + 1
       /\ r.kind = "txn" /\ acc.last \in {0, r.c.e.ts} => ~ b.stop
       /\ r.kind = "fin" /\ acc.last = r.ts => ~ b.stop
       /\ r.kind \notin {"txn", "fin"} /\ acc.last = 0 => ~ b.stop

LEMMA EntryReplayed ==
  ASSUME NEW acc, fieldsOf(acc), NEW r, NEW b, b = replayEntry(acc, r)
  PROVE  entryTo(acc, r, b)
<1>. USE DEF entryTo
<1>1. CASE acc.stop
  BY <1>1 DEF replayEntry
<1>2. CASE ~ acc.stop
  <2>. DEFINE d == replayOne(acc, r)
  <2>1. b = [d EXCEPT !.n = @ + 1]
    BY <1>2 DEF replayEntry
  <2>2. CASE r.kind = "txn"
    <3>1. d = IF acc.last \notin {0, r.c.e.ts} THEN stopReplay(acc)
              ELSE [acc EXCEPT !.last = r.c.e.ts, !.pend = @ \cup {r.c}]
      BY <2>2 DEF replayOne
    <3>. HIDE DEF d
    <3>. QED BY <1>2, <2>1, <2>2, <3>1 DEF stopReplay, fieldsOf
  <2>3. CASE r.kind = "fin"
    <3>1. d = IF acc.last # r.ts THEN stopReplay(acc) ELSE accept(acc, acc.pend)
      BY <2>3 DEF replayOne
    <3>. HIDE DEF d
    <3>. QED BY <1>2, <2>1, <2>3, <3>1 DEF stopReplay, accept, fieldsOf
  <2>4. CASE r.kind \notin {"txn", "fin"}
    <3>1. d = IF acc.last # 0 THEN stopReplay(acc) ELSE accept(acc, {r.c})
      BY <2>4 DEF replayOne
    <3>. HIDE DEF d
    <3>. QED BY <1>2, <2>1, <2>4, <3>1 DEF stopReplay, accept, fieldsOf
  <2>. QED BY <2>2, <2>3, <2>4
<1>. QED BY <1>1, <1>2

(* What replay accepted is a prefix of the log, which gives the same.      *)
accepted(recs, k) ==
  LET a == upTo(recs, k)
      b == upTo(recs, a.end)
  IN  /\ fieldsOf(a) /\ a.n \in 0 .. k /\ (~ a.stop => a.n = k) /\ a.end \in 0 .. k
      /\ b.out = a.out /\ b.pend = {} /\ b.last = 0 /\ ~ b.stop

LEMMA PrefixAccepted ==
  ASSUME NEW S, NEW recs \in Seq(S)
  PROVE  \A k \in 0 .. Len(recs) : accepted(recs, k)
<1>. DEFINE Bad == {k \in Nat : k <= Len(recs) /\ ~ accepted(recs, k)}
<1>0. Len(recs) \in Nat
  OBVIOUS
<1>. SUFFICES ASSUME Bad # {} PROVE FALSE
  BY <1>0
<1>1. PICK k \in Bad : \A j \in Bad : k <= j
  <2>. Bad \in SUBSET Nat
    OBVIOUS
  <2>. HIDE DEF Bad
  <2>. QED BY Least
<1>2. k \in Nat /\ k <= Len(recs) /\ ~ accepted(recs, k)
  OBVIOUS
<1>3. k # 0
  <2>1. upTo(recs, 0) = StartReplay
    BY PrefixReplayed
  <2>2. accepted(recs, 0)
    BY <2>1 DEF accepted, StartReplay, fieldsOf
  <2>. QED BY <1>2, <2>2
<1>4. accepted(recs, k - 1) /\ k \in 1 .. Len(recs) /\ k - 1 \in Nat
  <2>1. k - 1 \in Nat /\ k - 1 <= Len(recs) /\ ~ (k <= k - 1) /\ k \in 1 .. Len(recs)
    BY <1>0, <1>2, <1>3
  <2>. QED BY <1>1, <2>1
<1>5. PICK a, b, r : a = upTo(recs, k - 1) /\ b = upTo(recs, k) /\ r = recs[k]
  OBVIOUS
<1>6. b = replayEntry(a, r)
  BY <1>4, <1>5, PrefixReplayed
<1>7. fieldsOf(a) /\ a.n \in 0 .. k - 1 /\ (~ a.stop => a.n = k - 1) /\ a.end \in 0 .. k - 1
  BY <1>4, <1>5 DEF accepted
<1>8. LET c == upTo(recs, a.end) IN c.out = a.out /\ c.pend = {} /\ c.last = 0 /\ ~ c.stop
  BY <1>4, <1>5 DEF accepted
<1>9. CASE a.stop
  <2>1. b = a
    BY <1>6, <1>7, <1>9, EntryReplayed DEF entryTo
  <2>2. a.n \in 0 .. k /\ a.end \in 0 .. k
    BY <1>2, <1>7
  <2>3. accepted(recs, k)
    BY <1>5, <1>7, <1>8, <1>9, <2>1, <2>2 DEF accepted
  <2>. QED BY <1>2, <2>3
<1>10. CASE ~ a.stop
  <2>1. fieldsOf(b) /\ b.n = a.n + 1 /\ a.n = k - 1
    BY <1>6, <1>7, <1>10, EntryReplayed DEF entryTo
  <2>2. b.n = k /\ b.n \in 0 .. k /\ a.end \in 0 .. k /\ a.n + 1 = k /\ k \in 0 .. k
    BY <1>2, <1>7, <2>1
  <2>3. CASE b.out = a.out /\ b.end = a.end
    <3>1. accepted(recs, k)
      BY <1>5, <1>8, <2>1, <2>2, <2>3 DEF accepted
    <3>. QED BY <1>2, <3>1
  <2>4. CASE ~ b.stop /\ b.last = 0 /\ b.pend = {} /\ b.end = a.n + 1
    <3>1. accepted(recs, k)
      BY <1>5, <2>1, <2>2, <2>4 DEF accepted
    <3>. QED BY <1>2, <3>1
  <2>5. (b.out = a.out /\ b.end = a.end) \/ (~ b.stop /\ b.last = 0 /\ b.pend = {} /\ b.end = a.n + 1)
    <3>1. entryTo(a, r, b)
      BY <1>6, <1>7, EntryReplayed
    <3>. QED BY <1>10, <3>1 DEF entryTo
  <2>. QED BY <2>3, <2>4, <2>5
<1>. QED BY <1>9, <1>10

cutTo(recs, a, S) ==
  LET t == SubSeq(recs, 1, a.end)
      b == UpdateSkipList(t)
  IN  /\ t \in Seq(S) /\ Len(t) = a.end
      /\ b.out = a.out /\ b.pend = {} /\ b.last = 0 /\ ~ b.stop

LEMMA Truncated ==
  ASSUME NEW S, NEW recs \in Seq(S), NEW a, a = UpdateSkipList(recs)
  PROVE  /\ fieldsOf(a) /\ a.end \in 0 .. Len(recs)
         /\ cutTo(recs, a, S)
<1>1. Len(recs) \in Nat /\ Len(recs) \in 0 .. Len(recs)
  OBVIOUS
<1>2. a = upTo(recs, Len(recs))
  BY PrefixReplayed
<1>3. accepted(recs, Len(recs))
  BY <1>1, PrefixAccepted
<1>4. fieldsOf(a) /\ a.end \in 0 .. Len(recs)
  BY <1>2, <1>3 DEF accepted
<1>5. LET b == upTo(recs, a.end) IN b.out = a.out /\ b.pend = {} /\ b.last = 0 /\ ~ b.stop
  BY <1>2, <1>3 DEF accepted
<1>6. SubSeq(recs, 1, a.end) \in Seq(S) /\ Len(SubSeq(recs, 1, a.end)) = a.end
  BY <1>1, <1>4
<1>. QED BY <1>4, <1>5, <1>6 DEF upTo, cutTo

LEMMA ReplayTyped ==
  ASSUME NEW S, NEW recs \in Seq(S), NEW k \in 0 .. Len(recs)
  PROVE  fieldsOf(upTo(recs, k))
BY PrefixAccepted DEF accepted

(* The values.                                                             *)
heldIn(vl, c) ==
  /\ c.tr \in Tracks /\ c.file \in DOMAIN vl[c.tr] /\ c.pos \in Nat \ {0}
  /\ c.pos <= Len(vl[c.tr][c.file]) /\ vl[c.tr][c.file][c.pos] = c.e

filesOf(vl, E) == DOMAIN vl = Tracks /\ \A t \in Tracks : vl[t] \in Seq(Seq(E)) /\ vl[t] # <<>>

wroteOne(acc, e, b, E) ==
  LET q == b.out[Len(b.out)]
  IN  /\ DOMAIN b = {"vl", "out"} /\ filesOf(b.vl, E)
      /\ b.out = Append(acc.out, q) /\ q.e = e /\ heldIn(b.vl, q)
      /\ \A c : heldIn(acc.vl, c) => heldIn(b.vl, c)
      /\ \A t \in Tracks : Len(b.vl[t]) = Len(acc.vl[t])

LEMMA OneWritten ==
  ASSUME NEW E, NEW acc, NEW e, filesOf(acc.vl, E), e \in E, acc.out \in Seq(ToSet(acc.out)),
         DOMAIN acc = {"vl", "out"}
  PROVE  wroteOne(acc, e, vwriteOne(acc, e), E)
<1>. PICK b, q, X : b = vwriteOne(acc, e) /\ q = b.out[Len(b.out)] /\ X = ToSet(acc.out)
  OBVIOUS
<1>. DEFINE t == trackOf(e.key)
            n == Len(acc.vl[t])
            p == Len(acc.vl[t][n]) + 1
            o == [e |-> e, tr |-> t, file |-> n, pos |-> p]
<1>1. t \in Tracks
  BY DEF trackOf, Tracks
<1>. HIDE DEF t
<1>2. PICK F, G : F = acc.vl[t] /\ G = F[n]
  OBVIOUS
<1>3. F \in Seq(Seq(E)) /\ F # <<>> /\ n = Len(F) /\ DOMAIN acc.vl = Tracks
  BY <1>1, <1>2 DEF filesOf
<1>4. n \in 1 .. n /\ n \in Nat /\ DOMAIN F = 1 .. n /\ G \in Seq(E)
  BY <1>2, <1>3
<1>5. b.vl = [acc.vl EXCEPT ![t][n] = Append(@, e)] /\ b.out = Append(acc.out, o) /\ DOMAIN b = {"vl", "out"}
  BY DEF vwriteOne, t
<1>. HIDE DEF n
<1>6. PICK V : V = b.vl
  OBVIOUS
<1>7. DOMAIN V = Tracks /\ V[t] = [F EXCEPT ![n] = Append(G, e)] /\ \A u \in Tracks : u # t => V[u] = acc.vl[u]
  BY <1>1, <1>2, <1>3, <1>5, <1>6
<1>8. Append(G, e) \in Seq(E) /\ Len(Append(G, e)) = Len(G) + 1 /\ Append(G, e)[Len(G) + 1] = e
      /\ (\A i \in 1 .. Len(G) : Append(G, e)[i] = G[i]) /\ Len(G) \in Nat /\ p = Len(G) + 1
  BY <1>2, <1>4
<1>. HIDE DEF p
<1>9. V[t] \in Seq(Seq(E)) /\ V[t] # <<>> /\ DOMAIN V[t] = 1 .. n /\ V[t][n] = Append(G, e)
      /\ \A i \in 1 .. n : i # n => V[t][i] = F[i]
  BY <1>3, <1>4, <1>7, <1>8
<1>10. filesOf(V, E)
  BY <1>7, <1>9 DEF filesOf
<1>11. o.e = e /\ heldIn(V, o)
  <2>1. o.tr = t /\ o.file = n /\ o.pos = p /\ o.e = e
    OBVIOUS
  <2>. HIDE DEF o
  <2>2. p \in Nat \ {0} /\ p <= Len(V[t][n]) /\ V[t][n][p] = e
    BY <1>8, <1>9
  <2>. QED BY <1>1, <1>4, <1>9, <2>1, <2>2 DEF heldIn
<1>12. q = o
  <2>. HIDE DEF o
  <2>. QED BY <1>5
<1>13. ASSUME NEW c, heldIn(acc.vl, c) PROVE heldIn(V, c)
  <2>1. /\ c.tr \in Tracks /\ c.file \in DOMAIN acc.vl[c.tr] /\ c.pos \in Nat \ {0}
        /\ c.pos <= Len(acc.vl[c.tr][c.file]) /\ acc.vl[c.tr][c.file][c.pos] = c.e
    BY <1>13 DEF heldIn
  <2>2. CASE c.tr # t
    BY <1>7, <2>1, <2>2 DEF heldIn
  <2>3. CASE c.tr = t /\ c.file # n
    <3>1. c.file \in 1 .. n /\ V[c.tr][c.file] = acc.vl[c.tr][c.file]
      BY <1>2, <1>4, <1>9, <2>1, <2>3
    <3>. QED BY <1>9, <2>1, <2>3, <3>1 DEF heldIn
  <2>4. CASE c.tr = t /\ c.file = n
    <3>1. acc.vl[c.tr][c.file] = G /\ V[c.tr][c.file] = Append(G, e)
      BY <1>2, <1>9, <2>4
    <3>2. c.pos \in Nat \ {0} /\ c.pos <= Len(G) /\ G[c.pos] = c.e
      BY <2>1, <3>1
    <3>3. c.pos \in 1 .. Len(G) /\ c.pos <= Len(G) + 1
      BY <1>8, <3>2
    <3>. QED BY <1>4, <1>8, <1>9, <2>1, <2>4, <3>1, <3>2, <3>3 DEF heldIn
  <2>. QED BY <2>2, <2>3, <2>4
<1>14. \A u \in Tracks : Len(V[u]) = Len(acc.vl[u])
  <2>1. Len(V[t]) = n
    BY <1>4, <1>9
  <2>. QED BY <1>2, <1>3, <1>7, <2>1
<1>. HIDE DEF o
<1>. QED BY <1>5, <1>6, <1>10, <1>11, <1>12, <1>13, <1>14 DEF wroteOne

(* All of a request.                                                       *)
StartWrite == [vl |-> vlogf, out |-> <<>>]
Written1(entries, n, g) ==
  g = [k \in 0 .. n |-> IF k = 0 THEN StartWrite ELSE vwriteOne(g[k - 1], entries[k])]

LEMMA WritesExist ==
  ASSUME NEW entries, NEW n \in Nat
  PROVE  \E g : Written1(entries, n, g)
<1>. DEFINE Bad == {k \in Nat : ~ \E g : Written1(entries, k, g)}
<1>. SUFFICES ASSUME Bad # {} PROVE FALSE
  OBVIOUS
<1>1. PICK k \in Bad : \A j \in Bad : k <= j
  <2>. Bad \in SUBSET Nat
    OBVIOUS
  <2>. HIDE DEF Bad
  <2>. QED BY Least
<1>2. k \in Nat /\ ~ \E g : Written1(entries, k, g)
  OBVIOUS
<1>3. k # 0
  <2>1. Written1(entries, 0, [i \in 0 .. 0 |-> StartWrite])
    BY DEF Written1
  <2>. QED BY <1>2, <2>1
<1>4. PICK g : Written1(entries, k - 1, g)
  <2>1. k - 1 \in Nat /\ ~ (k <= k - 1)
    BY <1>2, <1>3
  <2>. QED BY <1>1, <2>1
<1>5. Written1(entries, k, [i \in 0 .. k |-> IF i = k THEN vwriteOne(g[k - 1], entries[k]) ELSE g[i]])
  <2>. DEFINE f == [i \in 0 .. k |-> IF i = k THEN vwriteOne(g[k - 1], entries[k]) ELSE g[i]]
  <2>1. \A i \in 0 .. k : f[i] = IF i = 0 THEN StartWrite ELSE vwriteOne(f[i - 1], entries[i])
    <3>. SUFFICES ASSUME NEW i \in 0 .. k
                  PROVE f[i] = IF i = 0 THEN StartWrite ELSE vwriteOne(f[i - 1], entries[i])
      OBVIOUS
    <3>1. CASE i = k
      <4>1. k - 1 \in 0 .. k /\ k - 1 # k
        BY <1>2, <1>3
      <4>. QED BY <1>3, <3>1, <4>1
    <3>2. CASE i # k
      <4>1. i \in 0 .. k - 1 /\ f[i] = g[i]
        BY <1>2, <3>2
      <4>2. g[i] = IF i = 0 THEN StartWrite ELSE vwriteOne(g[i - 1], entries[i])
        BY <1>4, <4>1 DEF Written1
      <4>3. i # 0 => i - 1 \in 0 .. k /\ i - 1 # k
        BY <1>2, <4>1
      <4>. QED BY <4>1, <4>2, <4>3
    <3>. QED BY <3>1, <3>2
  <2>. QED BY <2>1 DEF Written1
<1>. QED BY <1>2, <1>5

(* The first k entries written.                                            *)
writtenTo(acc, entries, k, E) ==
  /\ DOMAIN acc = {"vl", "out"} /\ filesOf(acc.vl, E)
  /\ acc.out \in Seq(ToSet(acc.out)) /\ Len(acc.out) = k
  /\ \A i \in 1 .. k : acc.out[i].e = entries[i] /\ heldIn(acc.vl, acc.out[i])
  /\ \A c : heldIn(vlogf, c) => heldIn(acc.vl, c)
  /\ \A t \in Tracks : Len(acc.vl[t]) = Len(vlogf[t])

LEMMA AllWritten ==
  ASSUME NEW E, filesOf(vlogf, E), NEW entries \in Seq(E)
  PROVE  writtenTo(vwriteAll(entries), entries, Len(entries), E)
<1>. DEFINE n == Len(entries)
<1>1. n \in Nat
  OBVIOUS
<1>2. PICK g : Written1(entries, n, g) /\ vwriteAll(entries) = g[n]
  <2>1. \E g : Written1(entries, n, g)
    BY <1>1, WritesExist
  <2>2. vwriteAll(entries) = (CHOOSE g : Written1(entries, n, g))[n]
    BY DEF vwriteAll, Written1, StartWrite
  <2>. QED BY <2>1, <2>2
<1>3. \A k \in 1 .. n : entries[k] \in E
  OBVIOUS
<1>. HIDE DEF n
<1>. DEFINE Bad == {k \in Nat : k <= n /\ ~ writtenTo(g[k], entries, k, E)}
<1>4. Bad = {}
  <2>. SUFFICES ASSUME Bad # {} PROVE FALSE
    OBVIOUS
  <2>1. PICK k \in Bad : \A j \in Bad : k <= j
    <3>. Bad \in SUBSET Nat
      OBVIOUS
    <3>. HIDE DEF Bad
    <3>. QED BY Least
  <2>2. k \in Nat /\ k <= n /\ ~ writtenTo(g[k], entries, k, E) /\ k \in 0 .. n
    BY <1>1
  <2>3. g[k] = IF k = 0 THEN StartWrite ELSE vwriteOne(g[k - 1], entries[k])
    BY <1>2, <2>2 DEF Written1
  <2>4. k # 0
    <3>1. writtenTo(StartWrite, entries, 0, E)
      <4>1. <<>> \in Seq(ToSet(<<>>)) /\ Len(<<>>) = 0
        OBVIOUS
      <4>. QED BY <4>1 DEF writtenTo, StartWrite
    <3>. QED BY <2>2, <2>3, <3>1
  <2>5. writtenTo(g[k - 1], entries, k - 1, E) /\ k \in 1 .. n /\ k - 1 \in Nat
    <3>1. k - 1 \in Nat /\ k - 1 <= n /\ ~ (k <= k - 1) /\ k \in 1 .. n
      BY <1>1, <2>2, <2>4
    <3>. QED BY <2>1, <3>1
  <2>. HIDE DEF Bad
  <2>6. PICK acc, b, e : acc = g[k - 1] /\ b = g[k] /\ e = entries[k]
    OBVIOUS
  <2>7. b = vwriteOne(acc, e) /\ e \in E
    BY <1>3, <2>3, <2>4, <2>5, <2>6
  <2>8. DOMAIN acc = {"vl", "out"} /\ filesOf(acc.vl, E) /\ acc.out \in Seq(ToSet(acc.out)) /\ Len(acc.out) = k - 1
    BY <2>5, <2>6 DEF writtenTo
  <2>9. wroteOne(acc, e, b, E)
    BY <2>7, <2>8, OneWritten
  <2>10. PICK o, X : o = b.out[Len(b.out)] /\ X = ToSet(acc.out)
    OBVIOUS
  <2>11. /\ DOMAIN b = {"vl", "out"} /\ filesOf(b.vl, E) /\ b.out = Append(acc.out, o) /\ o.e = e /\ heldIn(b.vl, o)
         /\ \A c : heldIn(acc.vl, c) => heldIn(b.vl, c)
         /\ \A t \in Tracks : Len(b.vl[t]) = Len(acc.vl[t])
    BY <2>9, <2>10 DEF wroteOne
  <2>12. /\ b.out \in Seq(X \cup {o}) /\ Len(b.out) = k /\ b.out[k] = o
         /\ \A i \in 1 .. k - 1 : b.out[i] = acc.out[i]
    BY <2>5, <2>8, <2>10, <2>11
  <2>13. b.out \in Seq(ToSet(b.out))
    BY <2>12, TupleTyped
  <2>14. \A i \in 1 .. k : b.out[i].e = entries[i] /\ heldIn(b.vl, b.out[i])
    <3>. SUFFICES ASSUME NEW i \in 1 .. k PROVE b.out[i].e = entries[i] /\ heldIn(b.vl, b.out[i])
      OBVIOUS
    <3>1. CASE i = k
      BY <2>6, <2>11, <2>12, <3>1
    <3>2. CASE i # k
      <4>1. i \in 1 .. k - 1
        BY <2>5, <3>2
      <4>2. acc.out[i].e = entries[i] /\ heldIn(acc.vl, acc.out[i])
        BY <2>5, <2>6, <4>1 DEF writtenTo
      <4>. QED BY <2>11, <2>12, <4>1, <4>2
    <3>. QED BY <3>1, <3>2
  <2>15. \A c : heldIn(vlogf, c) => heldIn(b.vl, c)
    BY <2>5, <2>6, <2>11 DEF writtenTo
  <2>16. \A t \in Tracks : Len(b.vl[t]) = Len(vlogf[t])
    BY <2>5, <2>6, <2>11 DEF writtenTo
  <2>17. writtenTo(b, entries, k, E)
    BY <2>11, <2>12, <2>13, <2>14, <2>15, <2>16 DEF writtenTo
  <2>. QED BY <2>2, <2>6, <2>17
<1>5. n \in Nat /\ n <= n
  BY <1>1
<1>. QED BY <1>2, <1>4, <1>5 DEF n

LEMMA StoredIs == \A c : readableValue(c) <=> heldIn(vlogf, c)
BY DEF heldIn, readableValue

(* Ordering by rank lists every element once.                              *)
below(S, x) == {y \in S : y < x}
LEMMA RankOrder ==
  ASSUME NEW S \in SUBSET Nat, IsFiniteSet(S)
  PROVE  /\ inOrder(S) \in Seq(S) /\ ToSet(inOrder(S)) = S
         /\ \A i, j \in DOMAIN inOrder(S) : inOrder(S)[i] = inOrder(S)[j] => i = j
<1>. DEFINE n == Cardinality(S)
            T == 0 .. n - 1
            f == [x \in S |-> Cardinality(below(S, x))]
<1>1. n \in Nat
  BY FS_CardinalityType
<1>2. \A x, z \in S : x < z => f[x] < f[z] /\ f[x] \in Nat
  <2>. SUFFICES ASSUME NEW x \in S, NEW z \in S, x < z PROVE f[x] < f[z] /\ f[x] \in Nat
    OBVIOUS
  <2>1. /\ IsFiniteSet(below(S, x)) /\ IsFiniteSet(below(S, z))
        /\ Cardinality(below(S, x)) \in Nat /\ Cardinality(below(S, z)) \in Nat
    <3>1. below(S, x) \in SUBSET S /\ below(S, z) \in SUBSET S
      BY DEF below
    <3>2. IsFiniteSet(below(S, x)) /\ IsFiniteSet(below(S, z))
      BY <3>1, FS_Subset
    <3>. QED BY <3>2, FS_CardinalityType
  <2>2. x \notin below(S, x) /\ below(S, x) \cup {x} \in SUBSET below(S, z)
    <3>1. \A y \in S : y < x => y < z
      OBVIOUS
    <3>2. ~ (x < x)
      OBVIOUS
    <3>. QED BY <3>1, <3>2 DEF below
  <2>3. Cardinality(below(S, x) \cup {x}) = Cardinality(below(S, x)) + 1
    BY <2>1, <2>2, FS_AddElement
  <2>4. Cardinality(below(S, x) \cup {x}) <= Cardinality(below(S, z))
    BY <2>1, <2>2, FS_Subset
  <2>. QED BY <2>1, <2>3, <2>4
<1>3. \A x \in S : f[x] \in T
  <2>. SUFFICES ASSUME NEW x \in S PROVE f[x] \in T
    OBVIOUS
  <2>1. below(S, x) \cup {x} \in SUBSET S /\ x \notin below(S, x)
    BY DEF below
  <2>2. IsFiniteSet(below(S, x)) /\ Cardinality(below(S, x)) \in Nat
    <3>1. below(S, x) \in SUBSET S
      BY <2>1
    <3>2. IsFiniteSet(below(S, x))
      BY <3>1, FS_Subset
    <3>. QED BY <3>2, FS_CardinalityType
  <2>3. Cardinality(below(S, x) \cup {x}) = Cardinality(below(S, x)) + 1
    BY <2>1, <2>2, FS_AddElement
  <2>4. Cardinality(below(S, x) \cup {x}) <= n
    BY <2>1, FS_Subset
  <2>. QED BY <1>1, <2>2, <2>3, <2>4
<1>4. IsFiniteSet(T) /\ Cardinality(T) = n
  <2>1. 0 \in Int /\ n - 1 \in Int
    BY <1>1
  <2>2. IsFiniteSet(T) /\ Cardinality(T) = IF 0 > n - 1 THEN 0 ELSE (n - 1) - 0 + 1
    BY <2>1, FS_Interval
  <2>. QED BY <1>1, <2>2
<1>5. f \in [S -> T] /\ \A x, z \in S : f[x] = f[z] => x = z
  <2>1. f \in [S -> T]
    BY <1>3
  <2>. HIDE DEF f, T
  <2>2. \A x, z \in S : f[x] = f[z] => x = z
    <3>. SUFFICES ASSUME NEW x \in S, NEW z \in S, f[x] = f[z], x # z PROVE FALSE
      OBVIOUS
    <3>1. x < z \/ z < x
      OBVIOUS
    <3>. QED BY <1>2, <3>1
  <2>. QED BY <2>1, <2>2
<1>6. \A t \in T : \E x \in S : f[x] = t
  <2>. HIDE DEF f, T, n
  <2>1. f \in Injection(S, T)
    BY <1>5 DEF Injection, IsInjective
  <2>2. f \in Surjection(S, T)
    BY <1>4, <2>1, FS_Injection DEF n
  <2>. QED BY <2>2 DEF Surjection
<1>. DEFINE q == [k \in 1 .. n |-> CHOOSE x \in S : Cardinality({y \in S : y < x}) = k - 1]
<1>7. inOrder(S) = q
  BY DEF inOrder
<1>8. \A k \in 1 .. n : q[k] \in S /\ f[q[k]] = k - 1
  <2>. SUFFICES ASSUME NEW k \in 1 .. n PROVE q[k] \in S /\ f[q[k]] = k - 1
    OBVIOUS
  <2>1. k - 1 \in T
    BY <1>1
  <2>2. PICK x \in S : f[x] = k - 1
    BY <1>6, <2>1
  <2>3. q[k] = CHOOSE z \in S : Cardinality(below(S, z)) = k - 1
    BY DEF below
  <2>4. Cardinality(below(S, x)) = k - 1
    BY <2>2
  <2>. HIDE DEF q
  <2>5. q[k] \in S /\ Cardinality(below(S, q[k])) = k - 1
    BY <2>3, <2>4
  <2>. QED BY <2>5
<1>9. q \in Seq(S) /\ DOMAIN q = 1 .. n /\ Len(q) = n
  <2>1. DOMAIN q = 1 .. n /\ q \in [1 .. n -> S]
    BY <1>8
  <2>. HIDE DEF q
  <2>. QED BY <1>1, <2>1
<1>. HIDE DEF q, f, n
<1>10. \A i, j \in 1 .. n : q[i] = q[j] => i = j
  BY <1>1, <1>8
<1>11. \A x \in S : \E k \in 1 .. n : q[k] = x
  <2>. SUFFICES ASSUME NEW x \in S PROVE \E k \in 1 .. n : q[k] = x
    OBVIOUS
  <2>1. f[x] \in T
    BY <1>3
  <2>2. f[x] + 1 \in 1 .. n /\ (f[x] + 1) - 1 = f[x]
    BY <1>1, <2>1
  <2>3. q[f[x] + 1] \in S /\ f[q[f[x] + 1]] = f[x]
    BY <1>8, <2>2
  <2>4. q[f[x] + 1] = x
    BY <1>5, <2>3
  <2>. QED BY <2>2, <2>4
<1>12. ToSet(q) = S
  <2>1. \A k \in 1 .. n : q[k] \in S
    BY <1>8
  <2>. QED BY <1>9, <1>11, <2>1 DEF ToSet
<1>. QED BY <1>7, <1>9, <1>10, <1>12

-----------------------------------------------------------------------------
(* A log and its memtable.                                                 *)
logFacts(L, s, t, a) ==
  /\ fieldsOf(a) /\ ~ a.stop /\ s = a.out \cup a.pend
  /\ a.last = (IF a.pend = {} THEN 0 ELSE t) /\ (t = 0 => a.pend = {})
  /\ Len(L.recs) \in Nat /\ L.synced \in Nat /\ Len(L.recs) \in afterLosing(L)
  /\ readTo(L, Len(L.recs)) = a.out /\ afterLosing(L) \subseteq 0 .. Len(L.recs)
  /\ \A k \in afterLosing(L) : entriesIn(readTo(L, k)) \subseteq entriesIn(a.out)

LEMMA LogFacts ==
  ASSUME NEW L, NEW s, NEW t, logMade(L, s, t)
  PROVE  logFacts(L, s, t, UpdateSkipList(L.recs))
<1>. PICK a : a = UpdateSkipList(L.recs)
  OBVIOUS
<1>1. L.recs \in Seq(ToSet(L.recs)) /\ L.synced \in 0 .. Len(L.recs)
  BY DEF logMade
<1>2. Len(L.recs) \in Nat /\ Len(L.recs) \in 0 .. Len(L.recs)
  BY <1>1
<1>3. a = upTo(L.recs, Len(L.recs))
  BY <1>1, PrefixReplayed
<1>4. fieldsOf(a)
  BY <1>1, <1>2, <1>3, ReplayTyped
<1>5. Len(L.recs) \in afterLosing(L) /\ L.synced \in Nat /\ afterLosing(L) \subseteq 0 .. Len(L.recs)
  BY <1>1, <1>2 DEF afterLosing
<1>6. readTo(L, Len(L.recs)) = a.out
  BY <1>3 DEF readTo, upTo
<1>. QED BY <1>2, <1>4, <1>5, <1>6 DEF logMade, logFacts

LEMMA EntriesMonotone == ASSUME NEW C, NEW D, C \subseteq D PROVE entriesIn(C) \subseteq entriesIn(D)
BY DEF entriesIn

LEMMA EntriesOfUnion == ASSUME NEW C, NEW D PROVE entriesIn(C \cup D) = entriesIn(C) \cup entriesIn(D)
BY DEF entriesIn

LEMMA EmptyLog == \A t : logMade([recs |-> <<>>, synced |-> 0], {}, t)
<1>. SUFFICES ASSUME NEW t PROVE logMade([recs |-> <<>>, synced |-> 0], {}, t)
  OBVIOUS
<1>. DEFINE L == [recs |-> <<>>, synced |-> 0]
<1>1. L.recs \in Seq(ToSet(L.recs)) /\ L.synced = 0 /\ Len(L.recs) = 0 /\ DOMAIN L = {"recs", "synced"} /\ L.recs = <<>>
  OBVIOUS
<1>. HIDE DEF L
<1>2. upTo(L.recs, 0) = StartReplay /\ UpdateSkipList(L.recs) = upTo(L.recs, 0)
  BY <1>1, PrefixReplayed
<1>3. \A k \in afterLosing(L) : readTo(L, k) = {}
  BY <1>1, <1>2 DEF afterLosing, readTo, upTo, StartReplay
<1>. QED BY <1>1, <1>2, <1>3 DEF logMade, StartReplay, entriesIn, L

(* One more record.                                                        *)
appended(L, r) == [L EXCEPT !.recs = Append(@, r)]

grown(L, M, r) ==
  LET b == UpdateSkipList(M.recs) IN
  /\ b = replayEntry(UpdateSkipList(L.recs), r)
  /\ M.recs \in Seq(ToSet(M.recs)) /\ M.synced \in 0 .. Len(M.recs) /\ Len(M.recs) = Len(L.recs) + 1
  /\ \A k \in afterLosing(M) : \/ k \in afterLosing(L) /\ readTo(M, k) = readTo(L, k)
                               \/ k = Len(M.recs) /\ readTo(M, k) = b.out
  /\ M.synced = L.synced => afterLosing(M) = afterLosing(L) \cup {Len(M.recs)}
  /\ \A k \in afterLosing(L) : readTo(M, k) = readTo(L, k)
  /\ readTo(M, Len(M.recs)) = b.out

LEMMA AppendedLog ==
  ASSUME NEW L, NEW s, NEW t, logMade(L, s, t), NEW r, NEW M,
         M.recs = Append(L.recs, r), M.synced \in {L.synced, Len(L.recs) + 1}
  PROVE  grown(L, M, r)
<1>1. PICK n, S : n = Len(L.recs) /\ S = ToSet(L.recs) \cup {r}
  OBVIOUS
<1>2. L.recs \in Seq(ToSet(L.recs)) /\ L.synced \in 0 .. n
  BY <1>1 DEF logMade
<1>3. L.recs \in Seq(S) /\ r \in S /\ n \in Nat
  BY <1>1, <1>2
<1>4. M.recs \in Seq(S) /\ Len(M.recs) = n + 1
  BY <1>1, <1>3
<1>5. M.recs \in Seq(ToSet(M.recs))
  BY <1>4, TupleTyped
<1>6. /\ UpdateSkipList(M.recs) = replayEntry(UpdateSkipList(L.recs), r)
      /\ \A k \in 0 .. n : upTo(M.recs, k) = upTo(L.recs, k)
      /\ upTo(M.recs, n + 1) = UpdateSkipList(M.recs)
  BY <1>1, <1>3, AppendedReplayed
<1>7. afterLosing(L) = L.synced .. n /\ afterLosing(M) = M.synced .. n + 1
  BY <1>1, <1>4 DEF afterLosing
<1>8. /\ \A k \in afterLosing(M) : (k \in afterLosing(L) /\ k \in 0 .. n) \/ k = n + 1
      /\ \A k \in afterLosing(L) : k \in 0 .. n
      /\ M.synced \in 0 .. n + 1
  BY <1>1, <1>2, <1>3, <1>7
<1>9. M.synced = L.synced => afterLosing(M) = afterLosing(L) \cup {n + 1}
  BY <1>2, <1>3, <1>7
<1>10. (\A k \in 0 .. n : readTo(M, k) = readTo(L, k)) /\ readTo(M, n + 1) = UpdateSkipList(M.recs).out
  BY <1>6 DEF readTo, upTo
<1>. QED BY <1>1, <1>4, <1>5, <1>6, <1>8, <1>9, <1>10 DEF grown

(* An entry of a commit.                                                   *)
commitEntryIn(L, M, s, c, t) ==
  /\ logMade(M, sklPut(s, c), t) /\ sklPut(s, c) = s \cup {c}
  /\ UpdateSkipList(M.recs).out = UpdateSkipList(L.recs).out
  /\ UpdateSkipList(M.recs).pend = UpdateSkipList(L.recs).pend \cup {c}
  /\ Len(M.recs) = Len(L.recs) + 1
  /\ afterLosing(M) = afterLosing(L) \cup {Len(M.recs)}
  /\ \A k \in afterLosing(L) : readTo(M, k) = readTo(L, k)
  /\ readTo(M, Len(M.recs)) = UpdateSkipList(L.recs).out

LEMMA CommitEntryLogged ==
  ASSUME NEW L, NEW s, NEW t, logMade(L, s, t), t # 0, NEW c, c.e.ts = t,
         \A d \in s : d.e.key # c.e.key \/ d.e.ts # c.e.ts,
         NEW M, M = appended(L, [kind |-> "txn", c |-> c])
  PROVE  commitEntryIn(L, M, s, c, t)
<1>1. PICK a, b, r : a = UpdateSkipList(L.recs) /\ b = UpdateSkipList(M.recs) /\ r = [kind |-> "txn", c |-> c]
  OBVIOUS
<1>2. DOMAIN L = {"recs", "synced"}
  BY DEF logMade
<1>3. DOMAIN M = {"recs", "synced"} /\ M.recs = Append(L.recs, r) /\ M.synced = L.synced
  BY <1>1, <1>2 DEF appended
<1>4. /\ b = replayEntry(a, r)
      /\ M.recs \in Seq(ToSet(M.recs)) /\ M.synced \in 0 .. Len(M.recs) /\ Len(M.recs) = Len(L.recs) + 1
      /\ afterLosing(M) = afterLosing(L) \cup {Len(M.recs)}
      /\ \A k \in afterLosing(L) : readTo(M, k) = readTo(L, k)
      /\ readTo(M, Len(M.recs)) = b.out
  <2>1. M.synced \in {L.synced, Len(L.recs) + 1}
    BY <1>3
  <2>2. grown(L, M, r)
    BY <1>3, <2>1, AppendedLog
  <2>. QED BY <1>1, <1>3, <2>2 DEF grown
<1>5. /\ fieldsOf(a) /\ ~ a.stop /\ s = a.out \cup a.pend /\ a.last = (IF a.pend = {} THEN 0 ELSE t)
      /\ \A k \in afterLosing(L) : entriesIn(readTo(L, k)) \subseteq entriesIn(a.out)
  <2>1. logFacts(L, s, t, a)
    BY <1>1, LogFacts
  <2>. QED BY <1>1, <2>1 DEF logFacts
<1>6. r.kind = "txn" /\ r.c = c
  BY <1>1
<1>7. entryTo(a, r, b)
  BY <1>4, <1>5, EntryReplayed
<1>8. ~ b.stop /\ b.last = t /\ b.pend = a.pend \cup {c} /\ b.out = a.out
  BY <1>5, <1>6, <1>7 DEF entryTo
<1>9. sklPut(s, c) = s \cup {c}
  BY DEF sklPut
<1>10. logMade(M, sklPut(s, c), t)
  <2>1. \A k \in afterLosing(M) : entriesIn(readTo(M, k)) \subseteq entriesIn(b.out)
    BY <1>4, <1>5, <1>8
  <2>. QED BY <1>1, <1>3, <1>4, <1>5, <1>8, <1>9, <2>1 DEF logMade
<1>. QED BY <1>1, <1>4, <1>8, <1>9, <1>10 DEF commitEntryIn

(* An entry that was moved.                                                *)
LEMMA PutEntries ==
  ASSUME NEW s, NEW c, oneVersion(s \cup {c})
  PROVE  entriesIn(sklPut(s, c)) = entriesIn(s) \cup {c.e}
<1>1. \A d \in s : d \in sklPut(s, c) \/ d.e = c.e
  BY DEF sklPut, oneVersion
<1>2. c \in sklPut(s, c) /\ sklPut(s, c) \subseteq s \cup {c}
  BY DEF sklPut
<1>. QED BY <1>1, <1>2 DEF entriesIn

movedEntryIn(L, M, s, c) ==
  /\ logMade(M, sklPut(s, c), 0) /\ entriesIn(sklPut(s, c)) = entriesIn(s) \cup {c.e}
  /\ UpdateSkipList(M.recs).out = sklPut(s, c) /\ UpdateSkipList(M.recs).pend = {}
  /\ Len(M.recs) = Len(L.recs) + 1
  /\ afterLosing(M) = afterLosing(L) \cup {Len(M.recs)}
  /\ \A k \in afterLosing(L) : readTo(M, k) = readTo(L, k)
  /\ readTo(M, Len(M.recs)) = sklPut(s, c)

LEMMA MovedEntryLogged ==
  ASSUME NEW L, NEW s, logMade(L, s, 0), NEW c, oneVersion(s \cup {c}),
         NEW M, M = appended(L, [kind |-> "moved", c |-> c])
  PROVE  movedEntryIn(L, M, s, c)
<1>1. PICK a, b, r : a = UpdateSkipList(L.recs) /\ b = UpdateSkipList(M.recs) /\ r = [kind |-> "moved", c |-> c]
  OBVIOUS
<1>2. DOMAIN L = {"recs", "synced"}
  BY DEF logMade
<1>3. DOMAIN M = {"recs", "synced"} /\ M.recs = Append(L.recs, r) /\ M.synced = L.synced
  BY <1>1, <1>2 DEF appended
<1>4. /\ b = replayEntry(a, r)
      /\ M.recs \in Seq(ToSet(M.recs)) /\ M.synced \in 0 .. Len(M.recs) /\ Len(M.recs) = Len(L.recs) + 1
      /\ afterLosing(M) = afterLosing(L) \cup {Len(M.recs)}
      /\ \A k \in afterLosing(L) : readTo(M, k) = readTo(L, k)
      /\ readTo(M, Len(M.recs)) = b.out
  <2>1. M.synced \in {L.synced, Len(L.recs) + 1}
    BY <1>3
  <2>2. grown(L, M, r)
    BY <1>3, <2>1, AppendedLog
  <2>. QED BY <1>1, <1>3, <2>2 DEF grown
<1>5. /\ fieldsOf(a) /\ ~ a.stop /\ s = a.out /\ a.last = 0
      /\ \A k \in afterLosing(L) : entriesIn(readTo(L, k)) \subseteq entriesIn(a.out)
  <2>1. logFacts(L, s, 0, a)
    BY <1>1, LogFacts
  <2>. QED BY <1>1, <2>1 DEF logFacts
<1>6. r.kind = "moved" /\ r.c = c
  BY <1>1
<1>7. entryTo(a, r, b)
  BY <1>4, <1>5, EntryReplayed
<1>8. ~ b.stop /\ b.last = 0 /\ b.pend = {} /\ b.out = addAll(s, {c})
  BY <1>5, <1>6, <1>7 DEF entryTo
<1>9. b.out = sklPut(s, c)
  BY <1>8 DEF sklPut, addAll
<1>10. entriesIn(sklPut(s, c)) = entriesIn(s) \cup {c.e}
  BY PutEntries
<1>11. logMade(M, sklPut(s, c), 0)
  <2>1. \A k \in afterLosing(M) : entriesIn(readTo(M, k)) \subseteq entriesIn(b.out)
    BY <1>4, <1>5, <1>9, <1>10
  <2>. QED BY <1>1, <1>3, <1>4, <1>8, <1>9, <2>1 DEF logMade
<1>. QED BY <1>1, <1>4, <1>8, <1>9, <1>10, <1>11 DEF movedEntryIn

(* The finish mark.                                                        *)
finishedIn(L, M, s) ==
  /\ logMade(M, s, 0) /\ UpdateSkipList(M.recs).out = s
  /\ Len(M.recs) = Len(L.recs) + 1
  /\ \A k \in afterLosing(M) : (k \in afterLosing(L) /\ readTo(M, k) = readTo(L, k)) \/ k = Len(M.recs)
  /\ readTo(M, Len(M.recs)) = s

LEMMA FinishLogged ==
  ASSUME NEW L, NEW s, NEW t, logMade(L, s, t), t # 0, UpdateSkipList(L.recs).pend # {},
         \A c \in UpdateSkipList(L.recs).out, d \in UpdateSkipList(L.recs).pend : c.e.key # d.e.key \/ c.e.ts # d.e.ts,
         NEW r, r = [kind |-> "fin", ts |-> t],
         NEW M, DOMAIN M = {"recs", "synced"}, M.recs = Append(L.recs, r), M.synced \in {L.synced, Len(L.recs) + 1}
  PROVE  finishedIn(L, M, s)
<1>1. PICK a, b : a = UpdateSkipList(L.recs) /\ b = UpdateSkipList(M.recs)
  OBVIOUS
<1>4. /\ b = replayEntry(a, r)
      /\ M.recs \in Seq(ToSet(M.recs)) /\ M.synced \in 0 .. Len(M.recs) /\ Len(M.recs) = Len(L.recs) + 1
      /\ \A k \in afterLosing(M) : (k \in afterLosing(L) /\ readTo(M, k) = readTo(L, k)) \/ k = Len(M.recs)
      /\ readTo(M, Len(M.recs)) = b.out
  <2>1. grown(L, M, r)
    BY AppendedLog
  <2>. QED BY <1>1, <2>1 DEF grown
<1>5. /\ fieldsOf(a) /\ ~ a.stop /\ s = a.out \cup a.pend /\ a.last = t
      /\ \A k \in afterLosing(L) : entriesIn(readTo(L, k)) \subseteq entriesIn(a.out)
  <2>1. logFacts(L, s, t, a)
    BY <1>1, LogFacts
  <2>. QED BY <1>1, <2>1 DEF logFacts
<1>6. r.kind = "fin" /\ r.ts = t
  OBVIOUS
<1>7. entryTo(a, r, b)
  BY <1>4, <1>5, EntryReplayed
<1>8. ~ b.stop /\ b.last = 0 /\ b.pend = {} /\ b.out = addAll(a.out, a.pend)
  BY <1>5, <1>6, <1>7 DEF entryTo
<1>9. b.out = s
  BY <1>1, <1>5, <1>8 DEF addAll
<1>10. entriesIn(a.out) \subseteq entriesIn(s)
  BY <1>5, EntriesMonotone
<1>11. logMade(M, s, 0)
  <2>1. \A k \in afterLosing(M) : entriesIn(readTo(M, k)) \subseteq entriesIn(b.out)
    BY <1>4, <1>5, <1>9, <1>10
  <2>. QED BY <1>1, <1>4, <1>8, <1>9, <2>1 DEF logMade
<1>. QED BY <1>1, <1>4, <1>9, <1>11 DEF finishedIn

(* A log that is synced, and one that Open has cut off.                    *)
syncedAs(L, M, s, t) ==
  /\ logMade(M, s, t) /\ afterLosing(M) \subseteq afterLosing(L)
  /\ \A k : readTo(M, k) = readTo(L, k)

LEMMA SyncedLog ==
  ASSUME NEW L, NEW s, NEW t, logMade(L, s, t), NEW M, DOMAIN M = {"recs", "synced"}, M.recs = L.recs,
         M.synced \in {L.synced, Len(L.recs)}
  PROVE  syncedAs(L, M, s, t)
<1>1. L.recs \in Seq(ToSet(L.recs)) /\ L.synced \in 0 .. Len(L.recs)
  BY DEF logMade
<1>2. Len(L.recs) \in Nat
  BY <1>1
<1>3. afterLosing(M) \subseteq afterLosing(L) /\ M.synced \in 0 .. Len(L.recs)
  BY <1>1, <1>2 DEF afterLosing
<1>4. \A k : readTo(M, k) = readTo(L, k)
  BY DEF readTo
<1>. QED BY <1>3, <1>4 DEF logMade, syncedAs

openedAs(recs, M, a) ==
  /\ logMade(M, a.out, 0) /\ UpdateSkipList(M.recs).out = a.out
  /\ afterLosing(M) = {Len(M.recs)} /\ readTo(M, Len(M.recs)) = a.out

LEMMA OpenedLog ==
  ASSUME NEW recs, recs \in Seq(ToSet(recs)), NEW a, a = UpdateSkipList(recs), NEW M,
         M = [recs |-> SubSeq(recs, 1, a.end), synced |-> a.end]
  PROVE  openedAs(recs, M, a)
<1>1. PICK b : b = UpdateSkipList(M.recs)
  OBVIOUS
<1>2. /\ a.end \in 0 .. Len(recs) /\ M.recs \in Seq(ToSet(recs)) /\ Len(M.recs) = a.end /\ M.synced = a.end
      /\ b.out = a.out /\ b.pend = {} /\ b.last = 0 /\ ~ b.stop /\ DOMAIN M = {"recs", "synced"}
  <2>1. PICK S : S = ToSet(recs)
    OBVIOUS
  <2>2. a.end \in 0 .. Len(recs) /\ cutTo(recs, a, S)
    BY <2>1, Truncated
  <2>3. M.recs = SubSeq(recs, 1, a.end) /\ M.synced = a.end /\ DOMAIN M = {"recs", "synced"}
    OBVIOUS
  <2>. QED BY <1>1, <2>1, <2>2, <2>3 DEF cutTo
<1>3. M.recs \in Seq(ToSet(M.recs)) /\ a.end \in Nat
  <2>1. a.end \in Nat
    BY <1>2
  <2>. QED BY <1>2, <2>1, TupleTyped
<1>4. afterLosing(M) = {Len(M.recs)}
  BY <1>2, <1>3 DEF afterLosing
<1>5. readTo(M, Len(M.recs)) = a.out
  <2>1. upTo(M.recs, Len(M.recs)) = b
    BY <1>1, <1>3, PrefixReplayed
  <2>. QED BY <1>2, <2>1 DEF readTo, upTo
<1>6. M.synced \in 0 .. Len(M.recs)
  BY <1>2, <1>3
<1>. QED BY <1>1, <1>2, <1>3, <1>4, <1>5, <1>6 DEF logMade, openedAs

-----------------------------------------------------------------------------
(* What the memtables have is what is settled and what is pending.         *)
LogsRead == \A f \in DOMAIN wal : logFacts(wal[f], skl[f], underWay(f), UpdateSkipList(wal[f].recs))

LEMMA MemtablesRead ==
  ASSUME MemtablesMade
  PROVE  /\ LogsRead /\ mt \in DOMAIN wal /\ DOMAIN skl = DOMAIN wal
         /\ visible = settled \cup pending
         /\ (~ committing => pending = {})
         /\ \A f \in DOMAIN wal : f # mt => skl[f] = logLeft(f)
         /\ skl[mt] = logLeft(mt) \cup pending
<1>1. LogsRead
  <2>. SUFFICES ASSUME NEW f \in DOMAIN wal PROVE logFacts(wal[f], skl[f], underWay(f), UpdateSkipList(wal[f].recs))
    BY DEF LogsRead
  <2>1. logMade(wal[f], skl[f], underWay(f))
    BY DEF MemtablesMade
  <2>. QED BY <2>1, LogFacts
<1>2. mt \in DOMAIN wal /\ DOMAIN skl = DOMAIN wal
  BY DEF MemtablesMade
<1>3. \A f \in DOMAIN wal : f # mt => skl[f] = logLeft(f)
  <2>. SUFFICES ASSUME NEW f \in DOMAIN wal, f # mt PROVE skl[f] = logLeft(f)
    OBVIOUS
  <2>1. underWay(f) = 0
    BY DEF underWay
  <2>2. logFacts(wal[f], skl[f], 0, UpdateSkipList(wal[f].recs))
    BY <1>1, <2>1 DEF LogsRead
  <2>. QED BY <2>2 DEF logFacts, logLeft
<1>4. skl[mt] = logLeft(mt) \cup pending
  <2>1. logFacts(wal[mt], skl[mt], underWay(mt), UpdateSkipList(wal[mt].recs))
    BY <1>1, <1>2 DEF LogsRead
  <2>. QED BY <2>1 DEF logFacts, logLeft, pending
<1>5. ~ committing => pending = {}
  <2>. SUFFICES ASSUME ~ committing PROVE pending = {}
    OBVIOUS
  <2>1. underWay(mt) = 0
    BY DEF underWay
  <2>2. logFacts(wal[mt], skl[mt], 0, UpdateSkipList(wal[mt].recs))
    BY <1>1, <1>2, <2>1 DEF LogsRead
  <2>. QED BY <2>2 DEF logFacts, pending
<1>6. visible = settled \cup pending
  <2>1. \A f \in DOMAIN wal : skl[f] = IF f = mt THEN logLeft(f) \cup pending ELSE logLeft(f)
    BY <1>3, <1>4
  <2>2. \A c : c \in UNION {skl[f] : f \in DOMAIN skl} <=> \E f \in DOMAIN wal : c \in skl[f]
    BY <1>2
  <2>3. \A c : c \in UNION {logLeft(f) : f \in DOMAIN wal} <=> \E f \in DOMAIN wal : c \in logLeft(f)
    OBVIOUS
  <2>. QED BY <1>2, <2>1, <2>2, <2>3 DEF visible, settled, inTables
<1>. QED BY <1>1, <1>2, <1>3, <1>4, <1>5, <1>6

LEMMA SettledIs ==
  \A c : c \in settled <=> c \in inTables \/ \E f \in DOMAIN wal : c \in logLeft(f)
BY DEF settled

LEMMA VisibleIs ==
  \A c : c \in visible <=> c \in inTables \/ \E f \in DOMAIN skl : c \in skl[f]
BY DEF visible, inTables

LEMMA InEntries == ASSUME NEW C, NEW e PROVE e \in entriesIn(C) <=> \E c \in C : c.e = e
BY DEF entriesIn

LEMMA NoEntries == entriesIn({}) = {}
BY DEF entriesIn

(* What is left of a log grows with it.                                    *)
LEMMA LeftOfCommit ==
  ASSUME NEW L, NEW M, NEW s, NEW c, NEW t, logMade(L, s, t), commitEntryIn(L, M, s, c, t), NEW e, staysIn(L, e)
  PROVE  staysIn(M, e)
<1>1. logFacts(L, s, t, UpdateSkipList(L.recs))
  BY LogFacts
<1>2. Len(L.recs) \in mayBeLeft(L)
  BY <1>1 DEF logFacts, mayBeLeft
<1>3. readTo(M, Len(M.recs)) = readTo(L, Len(L.recs))
  BY <1>1 DEF logFacts, commitEntryIn
<1>4. \A k \in mayBeLeft(M) : k = Len(M.recs) \/ (k \in mayBeLeft(L) /\ readTo(M, k) = readTo(L, k))
  BY DEF commitEntryIn, mayBeLeft
<1>. QED BY <1>2, <1>3, <1>4 DEF staysIn

LEMMA LeftOfMoved ==
  ASSUME NEW L, NEW M, NEW s, NEW c, logMade(L, s, 0), movedEntryIn(L, M, s, c), NEW e, staysIn(L, e)
  PROVE  staysIn(M, e)
<1>1. logFacts(L, s, 0, UpdateSkipList(L.recs))
  BY LogFacts
<1>2. Len(L.recs) \in mayBeLeft(L)
  BY <1>1 DEF logFacts, mayBeLeft
<1>3. entriesIn(readTo(L, Len(L.recs))) \subseteq entriesIn(readTo(M, Len(M.recs)))
  BY <1>1 DEF logFacts, movedEntryIn
<1>4. \A k \in mayBeLeft(M) : k = Len(M.recs) \/ (k \in mayBeLeft(L) /\ readTo(M, k) = readTo(L, k))
  BY DEF movedEntryIn, mayBeLeft
<1>. QED BY <1>2, <1>3, <1>4 DEF staysIn

(* What is left of a log is in its memtable, and settled.                  *)
LEMMA LeftIsSettled ==
  ASSUME MemtablesMade, NEW f \in DOMAIN wal, NEW k \in afterLosing(wal[f])
  PROVE  entriesIn(readTo(wal[f], k)) \subseteq entriesIn(settled) /\ logLeft(f) \subseteq settled
         /\ entriesIn(readTo(wal[f], k)) \subseteq entriesIn(logLeft(f))
<1>1. logFacts(wal[f], skl[f], underWay(f), UpdateSkipList(wal[f].recs))
  BY MemtablesRead DEF LogsRead
<1>2. entriesIn(readTo(wal[f], k)) \subseteq entriesIn(logLeft(f))
  BY <1>1 DEF logFacts, logLeft
<1>3. logLeft(f) \subseteq settled
  BY DEF settled
<1>. QED BY <1>2, <1>3, EntriesMonotone

(* A set of whole commits remains one when a commit starts.                *)
LEMMA ClosedGrows ==
  ASSUME NEW E, closed(E), E \subseteq started, NEW n, \A e \in started : e.id \in 1 .. n, n \in Nat,
         NEW N, started' = started \cup N, \A e \in N : e.id = n + 1
  PROVE  closed(E)'
<1>1. \A e \in E : e.id # n + 1
  BY SMT
<1>2. \A e \in E : entriesOf(e.id, started') = entriesOf(e.id, started)
  BY <1>1 DEF entriesOf
<1>. QED BY <1>2 DEF closed

LEMMA LogRelabelled ==
  ASSUME NEW L, NEW s, logMade(L, s, 0)
  PROVE  \A t : logMade(L, s, t)
BY DEF logMade

LEMMA FilesMonotone ==
  ASSUME NEW vl, NEW D, NEW E, filesOf(vl, D), D \subseteq E
  PROVE  filesOf(vl, E)
<1>. SUFFICES ASSUME NEW t \in Tracks PROVE vl[t] \in Seq(Seq(E)) /\ vl[t] # <<>>
  BY DEF filesOf
<1>1. PICK F : F = vl[t]
  OBVIOUS
<1>2. F \in Seq(Seq(D)) /\ F # <<>>
  BY <1>1 DEF filesOf
<1>3. Seq(D) \subseteq Seq(E)
  OBVIOUS
<1>. QED BY <1>1, <1>2, <1>3

LEMMA LastSized ==
  ASSUME NEW vl, NEW D, filesOf(vl, D), NEW t \in Tracks
  PROVE  /\ Len(Last(vl[t])) \in Nat /\ Last(vl[t]) \in Seq(D) /\ Front(vl[t]) \in Seq(Seq(D))
         /\ Append(Front(vl[t]), Last(vl[t])) = vl[t]
<1>1. PICK F : F = vl[t]
  OBVIOUS
<1>2. F \in Seq(Seq(D)) /\ F # <<>>
  BY <1>1 DEF filesOf
<1>3. Len(F) \in Nat /\ Len(F) # 0 /\ Len(F) \in 1 .. Len(F)
  BY <1>2
<1>4. Last(F) = F[Len(F)] /\ F[Len(F)] \in Seq(D)
  BY <1>2, <1>3 DEF Last
<1>5. Front(F) \in Seq(Seq(D)) /\ Append(Front(F), F[Len(F)]) = F
  BY <1>2, <1>3 DEF Front
<1>. QED BY <1>1, <1>4, <1>5

LEMMA ValuesAre ==
  ValuesMade <=> /\ filesOf(vlogf, started) /\ vsynced \in [Tracks -> Nat]
                 /\ syncWrites => \A t \in Tracks : vsynced[t] = Len(Last(vlogf[t]))
BY DEF ValuesMade, filesOf

-----------------------------------------------------------------------------
(* A request begins.  The values are written, nothing else changes.        *)
requestIn(entries, txn, D) ==
  /\ filesOf(vlogf', D) /\ vsynced' \in [Tracks -> Nat]
  /\ syncWrites => \A t \in Tracks : vsynced'[t] = Len(Last(vlogf'[t]))
  /\ \A c : heldIn(vlogf, c) => heldIn(vlogf', c)
  /\ (\A t \in Tracks : Len(vlogf'[t]) = Len(vlogf[t])) /\ (~ syncWrites => vsynced' = vsynced)
  /\ DOMAIN writer' = {"phase", "todo", "txn", "ts", "entries"} /\ writer'.phase = "lsm" /\ writer'.txn = txn
  /\ writer'.ts = entries[1].ts /\ writer'.entries = ToSet(entries)
  /\ writer'.todo \in Seq(ToSet(writer'.todo)) /\ Len(writer'.todo) = Len(entries)
  /\ \A i \in 1 .. Len(entries) : writer'.todo[i].e = entries[i] /\ heldIn(vlogf', writer'.todo[i])

LEMMA RequestIsWritten ==
  ASSUME ValuesMade, NEW D, started \subseteq D, NEW entries, entries \in Seq(D), NEW txn, vlogWrite(entries, txn)
  PROVE  requestIn(entries, txn, D)
<1>1. PICK r : r = vwriteAll(entries)
  OBVIOUS
<1>2. filesOf(vlogf, D)
  BY ValuesAre, FilesMonotone
<1>3. writtenTo(r, entries, Len(entries), D)
  BY <1>1, <1>2, AllWritten
<1>4. /\ vlogf' = r.vl
      /\ vsynced' = IF syncWrites THEN [t \in Tracks |-> Len(Last(r.vl[t]))] ELSE vsynced
      /\ writer' = [phase |-> "lsm", todo |-> r.out, txn |-> txn, ts |-> entries[1].ts,
                    entries |-> ToSet(entries)]
  BY <1>1 DEF vlogWrite
<1>5. vsynced' \in [Tracks -> Nat] /\ (syncWrites => \A t \in Tracks : vsynced'[t] = Len(Last(vlogf'[t])))
  <2>1. filesOf(r.vl, D)
    BY <1>3 DEF writtenTo
  <2>2. \A t \in Tracks : Len(Last(r.vl[t])) \in Nat
    BY <2>1, LastSized
  <2>. QED BY <1>4, <2>2 DEF ValuesMade
<1>. QED BY <1>3, <1>4, <1>5 DEF writtenTo, requestIn

(* What does not change when a request begins.                             *)
LEMMA BeginKeeps ==
  ASSUME DataUp, UNCHANGED <<wal, skl, mt, sst, tables>>
  PROVE  /\ visible' = visible /\ settled' = settled /\ inTables' = inTables /\ pending' = pending
         /\ \A f : logLeft(f)' = logLeft(f)
BY DEF visible, settled, inTables, pending, logLeft

(* The entries of a commit: one of every key, under the next timestamp.    *)
commitIn(ks, s, n, entries, E) ==
  /\ s \in Seq(ks) /\ ToSet(s) = ks /\ \A i, j \in DOMAIN s : s[i] = s[j] => i = j
  /\ DOMAIN s = 1 .. n /\ n \in Nat /\ n # 0
  /\ E = ToSet(entries) /\ entries \in Seq(E) /\ Len(entries) = n /\ DOMAIN entries = 1 .. n
  /\ \A i \in 1 .. n : entries[i].key = s[i] /\ entries[i].ts = nextTs /\ entries[i].id = nCommit + 1
  /\ \A e \in E : \E i \in 1 .. n : e = entries[i]
  /\ \A i \in 1 .. n : entries[i] \in E
  /\ started' = started \cup E /\ requestIn(entries, TRUE, started')

LEMMA CommitWritten ==
  ASSUME DataUp, NEW ks \in (SUBSET RKeys) \ {{}}, startCommit(ks)
  PROVE  \E s, n, entries, E : commitIn(ks, s, n, entries, E)
<1>. DEFINE s == inOrder(ks)
            entries == [i \in DOMAIN s |-> [key |-> s[i], ts |-> nextTs, id |-> nCommit + 1]]
<1>1. vlogWrite(entries, TRUE) /\ started' = started \cup ToSet(entries)
  BY DEF startCommit
<1>2. s \in Seq(ks) /\ ToSet(s) = ks /\ \A i, j \in DOMAIN s : s[i] = s[j] => i = j
  <2>1. ks \in SUBSET Nat /\ ks \in SUBSET RKeys
    BY RecoveryAssumption
  <2>2. IsFiniteSet(ks)
    BY <2>1, RecoveryAssumption, FS_Subset
  <2>. QED BY <2>1, <2>2, RankOrder
<1>. HIDE DEF s
<1>3. PICK n : n = Len(s)
  OBVIOUS
<1>4. DOMAIN s = 1 .. n /\ n \in Nat /\ n # 0
  <2>1. DOMAIN s = 1 .. n /\ n \in Nat
    BY <1>2, <1>3
  <2>2. PICK k : k \in ks
    OBVIOUS
  <2>3. \E i \in DOMAIN s : s[i] = k
    BY <1>2, <2>2 DEF ToSet
  <2>. QED BY <2>1, <2>3
<1>5. PICK E : E = ToSet(entries)
  OBVIOUS
<1>6. /\ entries \in Seq(E) /\ Len(entries) = n /\ DOMAIN entries = 1 .. n
      /\ \A i \in 1 .. n : entries[i].key = s[i] /\ entries[i].ts = nextTs /\ entries[i].id = nCommit + 1
      /\ \A e \in E : \E i \in 1 .. n : e = entries[i]
      /\ \A i \in 1 .. n : entries[i] \in E
  <2>1. DOMAIN entries = 1 .. n /\ \A i \in 1 .. n : entries[i].key = s[i] /\ entries[i].ts = nextTs /\ entries[i].id = nCommit + 1
    BY <1>4
  <2>. HIDE DEF entries
  <2>2. (\A e \in E : \E i \in 1 .. n : e = entries[i]) /\ \A i \in 1 .. n : entries[i] \in E
    BY <1>5, <2>1 DEF ToSet
  <2>3. entries = [i \in 1 .. n |-> entries[i]]
    BY <2>1 DEF entries
  <2>4. entries \in Seq(E) /\ Len(entries) = n
    BY <1>4, <2>1, <2>2, <2>3
  <2>. QED BY <2>1, <2>2, <2>4
<1>. HIDE DEF entries
<1>7. requestIn(entries, TRUE, started')
  <2>1. E \subseteq started' /\ started \subseteq started'
    BY <1>1, <1>5
  <2>2. entries \in Seq(started')
    BY <1>6, <2>1
  <2>. QED BY <1>1, <2>1, <2>2, RequestIsWritten DEF DataUp
<1>8. commitIn(ks, s, n, entries, E)
  BY <1>1, <1>2, <1>4, <1>5, <1>6, <1>7 DEF commitIn
<1>. QED BY <1>8

LEMMA CommitBegun ==
  ASSUME DataUp, status = "up", NEW ks \in (SUBSET RKeys) \ {{}}, startCommit(ks)
  PROVE  DataUp'
<1>. PICK s, n, entries, E : commitIn(ks, s, n, entries, E)
  BY CommitWritten
<1>1. /\ writer = Idle /\ nCommit' = nCommit + 1 /\ nextTs' = nextTs + 1 /\ started' = started \cup E
      /\ UNCHANGED <<wal, sst, status, syncWrites, mt, imm, skl, tables, nextMem, flusher, compactor,
                     nCrash, nMoved, acked, lossy>>
  BY DEF startCommit, commitIn
<1>2. s \in Seq(ks) /\ ToSet(s) = ks /\ \A i, j \in DOMAIN s : s[i] = s[j] => i = j
  BY DEF commitIn
<1>4. DOMAIN s = 1 .. n /\ n \in Nat /\ n # 0
  BY DEF commitIn
<1>5. E = ToSet(entries)
  BY DEF commitIn
<1>6. /\ entries \in Seq(E) /\ Len(entries) = n /\ DOMAIN entries = 1 .. n
      /\ \A i \in 1 .. n : entries[i].key = s[i] /\ entries[i].ts = nextTs /\ entries[i].id = nCommit + 1
      /\ \A e \in E : \E i \in 1 .. n : e = entries[i]
      /\ \A i \in 1 .. n : entries[i] \in E
  BY DEF commitIn
<1>7. \A e \in E : e.ts = nextTs /\ e.id = nCommit + 1
  BY <1>6
<1>8. 1 \in 1 .. n /\ E # {}
  BY <1>4, <1>6
<1>9. WriterMade /\ VersionsMade /\ MemtablesMade /\ JobsMade /\ ValuesMade
  BY DEF DataUp
<1>10. requestIn(entries, TRUE, started')
  BY DEF commitIn
<1>11. /\ visible' = visible /\ settled' = settled /\ inTables' = inTables /\ pending' = pending
       /\ \A f : logLeft(f)' = logLeft(f)
  BY <1>1, BeginKeeps
<1>12. nCommit \in Nat /\ nMoved \in Nat /\ nextTs \in 1 .. nCommit + 1 /\ nextTs \in Nat \ {0}
  <2>1. nCommit \in Nat /\ nMoved \in Nat /\ nextTs \in 1 .. nCommit + 1
    BY <1>9 DEF VersionsMade
  <2>. QED BY <2>1
<1>13. ~ committing /\ pending = {} /\ visible = settled
  <2>1. ~ committing
    BY <1>1 DEF committing, Idle
  <2>. QED BY <1>9, <2>1, MemtablesRead
<1>14. entriesIn(ToSet(writer'.todo)) = E
  <2>1. DOMAIN writer'.todo = 1 .. n /\ \A i \in 1 .. n : writer'.todo[i].e = entries[i]
    BY <1>6, <1>10 DEF requestIn
  <2>. QED BY <1>6, <2>1 DEF entriesIn, ToSet
<1>15. WriterMade'
  <2>1. writer'.entries = E /\ writer'.ts = nextTs /\ writer'.txn = TRUE
    BY <1>5, <1>6, <1>8, <1>10 DEF requestIn
  <2>2. E = {e \in started' : e.id = nCommit'}
    <3>1. \A e \in started : e.id # nCommit + 1
      BY <1>9, <1>12 DEF VersionsMade
    <3>. QED BY <1>1, <1>5, <1>7, <3>1
  <2>3. \A c \in settled : c.e.ts < nextTs
    BY <1>9, <1>12, <1>13 DEF VersionsMade
  <2>4. \A i, j \in DOMAIN writer'.todo : writer'.todo[i].e.key = writer'.todo[j].e.key => i = j
    <3>1. DOMAIN writer'.todo = 1 .. n /\ \A i \in 1 .. n : writer'.todo[i].e.key = s[i]
      BY <1>6, <1>10 DEF requestIn
    <3>. QED BY <1>2, <1>4, <3>1
  <2>5. CommitMade'
    <3>1. pending' = {} /\ entriesIn({}) = {}
      BY <1>11, <1>13, NoEntries
    <3>2. nextTs' = writer'.ts + 1 /\ writer'.ts \in Nat \ {0}
      BY <1>1, <1>12, <2>1
    <3>3. \A c \in settled' : c.e.ts < writer'.ts
      BY <1>11, <2>1, <2>3
    <3>4. \A e \in writer'.entries : e.ts = writer'.ts
      BY <1>7, <2>1
    <3>. QED BY <1>14, <2>1, <2>2, <2>4, <3>1, <3>2, <3>3, <3>4 DEF CommitMade
  <2>6. /\ DOMAIN writer' = {"phase", "todo", "txn", "ts", "entries"} /\ writer'.phase = "lsm" /\ writer'.txn = TRUE
        /\ writer'.todo \in Seq(ToSet(writer'.todo))
    BY <1>10 DEF requestIn
  <2>7. entriesIn(ToSet(writer'.todo)) \subseteq writer'.entries /\ writer'.entries # {}
    BY <1>8, <1>14, <2>1
  <2>. QED BY <2>5, <2>6, <2>7 DEF WriterMade
<1>16. VersionsMade'
  <2>1. /\ nextTs' \in 1 .. nCommit' + 1 /\ nCommit' \in Nat
        /\ \A x \in 1 .. nCommit : x \in 1 .. nCommit' /\ nCommit' \in 1 .. nCommit'
        /\ \A x \in 1 .. nextTs - 1 : x \in 1 .. nextTs' - 1
    BY <1>1, <1>12
  <2>2. \A e \in started' : e.id \in 1 .. nCommit'
    <3>1. \A e \in E : e.id = nCommit'
      BY <1>1, <1>7
    <3>2. nCommit' \in 1 .. nCommit'
      BY <1>1, <1>12
    <3>. QED BY <1>1, <1>5, <1>9, <2>1, <3>1, <3>2 DEF VersionsMade
  <2>3. \A c \in visible : c.e.ts \in 1 .. nextTs' - 1
    BY <1>9, <2>1 DEF VersionsMade
  <2>4. entriesIn(visible) \subseteq started' /\ oneVersion(visible)
    BY <1>1, <1>9 DEF VersionsMade
  <2>. QED BY <1>1, <1>11, <1>12, <2>1, <2>2, <2>3, <2>4 DEF VersionsMade
<1>17. MemtablesMade'
  <2>1. \A f \in DOMAIN wal : underWay(f) = 0
    BY <1>13 DEF underWay
  <2>2. \A f \in DOMAIN wal : logMade(wal[f], skl[f], 0)
    BY <1>9, <2>1 DEF MemtablesMade
  <2>3. \A f \in DOMAIN wal : \A t : logMade(wal[f], skl[f], t)
    BY <2>2, LogRelabelled
  <2>. QED BY <1>1, <1>9, <2>3 DEF MemtablesMade
<1>18. JobsMade'
  BY <1>1, <1>9, <1>11 DEF JobsMade
<1>19. ValuesMade'
  BY <1>1, <1>10, ValuesAre DEF requestIn, ValuesMade, filesOf
<1>20. \A c : readableValue(c) => readableValue(c)'
  BY <1>10 DEF requestIn, heldIn, readableValue
<1>21. ASSUME NEW S, closed(S), S \subseteq started PROVE closed(S)'
  <2>1. \A e \in E : e.id = nCommit + 1
    BY <1>7
  <2>2. (\A e \in started : e.id \in 1 .. nCommit) /\ nCommit \in Nat
    BY <1>9, <1>12 DEF VersionsMade
  <2>3. PICK m : m = nCommit
    OBVIOUS
  <2>. QED BY <1>1, <1>5, <1>21, <2>1, <2>2, <2>3, ClosedGrows
<1>22. safe' => Pointed' /\ KeptMade'
  <2>. SUFFICES ASSUME safe' PROVE Pointed' /\ KeptMade'
    OBVIOUS
  <2>1. Pointed /\ KeptMade
    BY <1>1 DEF safe, DataUp
  <2>2. Pointed'
    <3>1. \A c \in visible' : readableValue(c)'
      BY <1>11, <1>20, <2>1 DEF Pointed
    <3>2. \A f \in DOMAIN wal' : \A k \in mayBeLeft(wal[f])' : \A c \in readTo(wal[f], k)' : readableValue(c)'
      BY <1>1, <1>20, <2>1 DEF Pointed, mayBeLeft
    <3>3. \A c \in ToSet(writer'.todo) : readableValue(c)'
      <4>1. DOMAIN writer'.todo = 1 .. n /\ \A i \in 1 .. n : heldIn(vlogf', writer'.todo[i])
        BY <1>6, <1>10 DEF requestIn
      <4>2. \A c \in ToSet(writer'.todo) : heldIn(vlogf', c)
        BY <4>1 DEF ToSet
      <4>. QED BY <4>2 DEF heldIn, readableValue
    <3>. QED BY <3>1, <3>2, <3>3 DEF Pointed
  <2>3. KeptMade'
    <3>1. closed(entriesIn(settled)) /\ entriesIn(settled) \subseteq started
      BY <1>9, <1>13, <2>1 DEF KeptMade, VersionsMade
    <3>2. PICK S : S = entriesIn(settled)
      OBVIOUS
    <3>3. closed(S)'
      BY <1>21, <3>1, <3>2
    <3>4. entriesIn(settled)' = S
      BY <1>11, <3>2
    <3>5. \A e : isLeft(e) => isLeft(e)'
      BY <1>1, <1>11 DEF isLeft, staysIn, mayBeLeft
    <3>. QED BY <1>1, <2>1, <3>2, <3>3, <3>4, <3>5 DEF KeptMade
  <2>. QED BY <2>2, <2>3
<1>23. nMoved' = 0 => WholeCommits'
  <2>. SUFFICES ASSUME nMoved = 0 PROVE WholeCommits'
    BY <1>1
  <2>1. WholeCommits
    BY DEF DataUp
  <2>2. entriesIn(settled) \subseteq started
    BY <1>9, <1>13 DEF VersionsMade
  <2>3. closed(entriesIn(inTables))'
    <3>1. PICK S : S = entriesIn(inTables)
      OBVIOUS
    <3>2. S \subseteq started /\ closed(S)
      <4>1. inTables \subseteq settled
        BY DEF settled
      <4>. QED BY <2>1, <2>2, <3>1, <4>1, EntriesMonotone DEF WholeCommits
    <3>3. entriesIn(inTables)' = S
      BY <1>11, <3>1
    <3>. QED BY <1>21, <3>2, <3>3
  <2>4. ASSUME NEW f \in DOMAIN wal, NEW k \in afterLosing(wal[f]) PROVE closed(entriesIn(readTo(wal[f], k)))'
    <3>1. PICK S : S = entriesIn(readTo(wal[f], k))
      OBVIOUS
    <3>2. S \subseteq started /\ closed(S)
      <4>1. S \subseteq entriesIn(settled)
        BY <1>9, <3>1, LeftIsSettled
      <4>. QED BY <2>1, <2>2, <3>1, <4>1 DEF WholeCommits
    <3>3. entriesIn(readTo(wal[f], k))' = S
      BY <1>1, <3>1
    <3>. QED BY <1>21, <3>2, <3>3
  <2>. QED BY <1>1, <2>3, <2>4 DEF WholeCommits
<1>. QED BY <1>15, <1>16, <1>17, <1>18, <1>19, <1>22, <1>23 DEF DataUp

LEMMA MoveBegun ==
  ASSUME DataUp, status = "up", NEW c \in visible, startMoved(c)
  PROVE  DataUp'
<1>1. /\ writer = Idle /\ nMoved' = nMoved + 1
      /\ vlogWrite(<<c.e>>, FALSE)
      /\ UNCHANGED <<wal, sst, status, syncWrites, mt, imm, skl, tables, nextTs, nextMem, flusher, compactor,
                     nCommit, nCrash, started, acked, lossy>>
  BY DEF startMoved, memVars
<1>2. WriterMade /\ VersionsMade /\ MemtablesMade /\ JobsMade /\ ValuesMade
  BY DEF DataUp
<1>3. ~ committing /\ pending = {} /\ visible = settled
  <2>1. ~ committing
    BY <1>1 DEF committing, Idle
  <2>. QED BY <1>2, <2>1, MemtablesRead
<1>4. c.e \in started /\ c.e \in entriesIn(settled)
  <2>1. c.e \in entriesIn(visible)
    BY DEF entriesIn
  <2>. QED BY <1>2, <1>3, <2>1 DEF VersionsMade
<1>5. PICK e, w : e = c.e /\ w = <<e>>
  OBVIOUS
<1>6. w \in Seq(started) /\ Len(w) = 1 /\ w[1] = e /\ ToSet(w) = {e}
  <2>1. w \in Seq(started) /\ Len(w) = 1 /\ w[1] = e /\ DOMAIN w = {1}
    BY <1>4, <1>5
  <2>. QED BY <2>1 DEF ToSet
<1>7. requestIn(w, FALSE, started)
  <2>1. vlogWrite(w, FALSE) /\ started \subseteq started
    BY <1>1, <1>5
  <2>. QED BY <1>2, <1>6, <2>1, RequestIsWritten
<1>8. /\ visible' = visible /\ settled' = settled /\ inTables' = inTables /\ pending' = pending
      /\ \A f : logLeft(f)' = logLeft(f)
  BY <1>1, BeginKeeps
<1>9. nCommit \in Nat /\ nMoved \in Nat /\ nMoved' # 0 /\ nMoved' \in Nat
  <2>1. nCommit \in Nat /\ nMoved \in Nat
    BY <1>2 DEF VersionsMade
  <2>. QED BY <1>1, <2>1
<1>10. /\ DOMAIN writer' = {"phase", "todo", "txn", "ts", "entries"} /\ writer'.phase = "lsm" /\ writer'.txn = FALSE
       /\ writer'.entries = {e} /\ writer'.todo \in Seq(ToSet(writer'.todo)) /\ Len(writer'.todo) = 1
       /\ writer'.todo[1].e = e /\ heldIn(vlogf', writer'.todo[1])
  BY <1>6, <1>7 DEF requestIn
<1>11. \A d \in ToSet(writer'.todo) : d.e = e /\ heldIn(vlogf', d)
  <2>1. DOMAIN writer'.todo = {1}
    BY <1>10
  <2>. QED BY <1>10, <2>1 DEF ToSet
<1>12. WriterMade'
  <2>1. entriesIn(ToSet(writer'.todo)) \subseteq {e}
    BY <1>11 DEF entriesIn
  <2>2. {e} \subseteq entriesIn(settled')
    BY <1>4, <1>5, <1>8
  <2>. QED BY <1>9, <1>10, <2>1, <2>2 DEF WriterMade
<1>13. VersionsMade'
  BY <1>1, <1>2, <1>8, <1>9 DEF VersionsMade
<1>14. MemtablesMade'
  <2>1. \A f : underWay(f)' = 0 /\ underWay(f) = 0
    BY <1>3, <1>10 DEF underWay, committing
  <2>. QED BY <1>1, <1>2, <2>1 DEF MemtablesMade
<1>15. JobsMade'
  BY <1>1, <1>2, <1>8 DEF JobsMade
<1>16. ValuesMade'
  BY <1>1, <1>7, ValuesAre DEF requestIn, ValuesMade, filesOf
<1>17. \A d : readableValue(d) => readableValue(d)'
  BY <1>7 DEF requestIn, heldIn, readableValue
<1>18. safe' => Pointed' /\ KeptMade'
  <2>. SUFFICES ASSUME safe' PROVE Pointed' /\ KeptMade'
    OBVIOUS
  <2>1. Pointed /\ KeptMade
    BY <1>1 DEF safe, DataUp
  <2>2. Pointed'
    <3>1. \A d \in visible' : readableValue(d)'
      BY <1>8, <1>17, <2>1 DEF Pointed
    <3>2. \A f \in DOMAIN wal' : \A k \in mayBeLeft(wal[f])' : \A d \in readTo(wal[f], k)' : readableValue(d)'
      BY <1>1, <1>17, <2>1 DEF Pointed, mayBeLeft
    <3>3. \A d \in ToSet(writer'.todo) : readableValue(d)'
      BY <1>11 DEF heldIn, readableValue
    <3>. QED BY <3>1, <3>2, <3>3 DEF Pointed
  <2>3. KeptMade'
    <3>1. closed(entriesIn(settled))' = closed(entriesIn(settled))
      BY <1>1, <1>8 DEF closed
    <3>2. \A x : isLeft(x) => isLeft(x)'
      BY <1>1, <1>8 DEF isLeft, staysIn, mayBeLeft
    <3>. QED BY <1>1, <1>8, <2>1, <3>1, <3>2 DEF KeptMade
  <2>. QED BY <2>2, <2>3
<1>. QED BY <1>9, <1>12, <1>13, <1>14, <1>15, <1>16, <1>18 DEF DataUp

(* An entry is put: into the log of the active memtable, and into it.      *)
putting(c, M, rest) ==
  /\ writer.phase = "lsm" /\ writer.todo # <<>> /\ c = Head(writer.todo) /\ rest = Tail(writer.todo)
  /\ M = appended(wal[mt], [kind |-> IF writer.txn THEN "txn" ELSE "moved", c |-> c])
  /\ DOMAIN wal' = DOMAIN wal /\ wal'[mt] = M /\ \A f \in DOMAIN wal : f # mt => wal'[f] = wal[f]
  /\ DOMAIN skl' = DOMAIN skl /\ skl'[mt] = sklPut(skl[mt], c) /\ \A f \in DOMAIN skl : f # mt => skl'[f] = skl[f]
  /\ DOMAIN writer' = DOMAIN writer /\ writer'.phase = "lsm" /\ writer'.todo = rest /\ writer'.txn = writer.txn
  /\ writer'.ts = writer.ts /\ writer'.entries = writer.entries
  /\ UNCHANGED <<sst, vlogf, vsynced, status, syncWrites, mt, imm, tables, nextTs, nextMem, flusher, compactor,
                 nCommit, nCrash, nMoved, started, acked, lossy>>

LEMMA PutIs ==
  ASSUME WriterMade, MemtablesMade, memPut
  PROVE  \E c, M, rest : putting(c, M, rest)
<1>. DEFINE c == Head(writer.todo)
            r == [kind |-> IF writer.txn THEN "txn" ELSE "moved", c |-> c]
            M == appended(wal[mt], r)
            rest == Tail(writer.todo)
<1>1. writer.phase = "lsm" /\ writer.todo # <<>> /\ DOMAIN writer = {"phase", "todo", "txn", "ts", "entries"}
  BY DEF memPut, WriterMade, Idle
<1>2. mt \in DOMAIN wal /\ mt \in DOMAIN skl
  BY DEF MemtablesMade
<1>3. wal' = [wal EXCEPT ![mt].recs = Append(@, r)] /\ skl' = [skl EXCEPT ![mt] = sklPut(@, c)]
  BY DEF memPut
<1>4. wal' = [wal EXCEPT ![mt] = M]
  <2>. HIDE DEF r
  <2>. QED BY <1>2, <1>3 DEF appended
<1>5. writer' = [writer EXCEPT !.todo = rest]
  BY DEF memPut
<1>6. UNCHANGED <<sst, vlogf, vsynced, status, syncWrites, mt, imm, tables, nextTs, nextMem, flusher, compactor,
                 nCommit, nCrash, nMoved, started, acked, lossy>>
  BY DEF memPut, histVars
<1>7. c = Head(writer.todo) /\ rest = Tail(writer.todo) /\ M = appended(wal[mt], r)
  OBVIOUS
<1>. HIDE DEF c, M, rest
<1>8. DOMAIN wal' = DOMAIN wal /\ wal'[mt] = M /\ \A f \in DOMAIN wal : f # mt => wal'[f] = wal[f]
  BY <1>2, <1>4
<1>9. DOMAIN skl' = DOMAIN skl /\ skl'[mt] = sklPut(skl[mt], c) /\ \A f \in DOMAIN skl : f # mt => skl'[f] = skl[f]
  BY <1>2, <1>3
<1>10. DOMAIN writer' = DOMAIN writer /\ writer'.phase = "lsm" /\ writer'.todo = rest /\ writer'.txn = writer.txn
       /\ writer'.ts = writer.ts /\ writer'.entries = writer.entries
  BY <1>1, <1>5
<1>11. putting(c, M, rest)
  BY <1>1, <1>6, <1>7, <1>8, <1>9, <1>10 DEF putting
<1>. QED BY <1>11

(* What is left to put.                                                    *)
LEMMA TodoSplit ==
  ASSUME NEW S, NEW q \in Seq(S), q # <<>>
  PROVE  /\ ToSet(q) = {Head(q)} \cup ToSet(Tail(q)) /\ Tail(q) \in Seq(ToSet(Tail(q)))
         /\ \A i \in DOMAIN Tail(q) : i + 1 \in DOMAIN q /\ Tail(q)[i] = q[i + 1] /\ i + 1 # 1
         /\ 1 \in DOMAIN q /\ Head(q) = q[1]
<1>1. PICK n, t : n = Len(q) /\ t = Tail(q)
  OBVIOUS
<1>2. /\ n \in Nat /\ n # 0 /\ DOMAIN q = 1 .. n /\ t \in Seq(S) /\ Len(t) = n - 1 /\ DOMAIN t = 1 .. n - 1
      /\ \A i \in 1 .. n - 1 : t[i] = q[i + 1]
      /\ Head(q) = q[1]
  BY <1>1
<1>3. t \in Seq(ToSet(t))
  BY <1>2, TupleTyped
<1>4. \A i \in 1 .. n : i = 1 \/ i - 1 \in 1 .. n - 1
  BY <1>2
<1>5. ToSet(q) = {Head(q)} \cup ToSet(t)
  <2>1. \A i \in 1 .. n : q[i] = Head(q) \/ \E j \in 1 .. n - 1 : t[j] = q[i]
    <3>. SUFFICES ASSUME NEW i \in 1 .. n, i # 1 PROVE \E j \in 1 .. n - 1 : t[j] = q[i]
      BY <1>2
    <3>1. i - 1 \in 1 .. n - 1 /\ (i - 1) + 1 = i
      BY <1>2, <1>4
    <3>2. t[i - 1] = q[i]
      BY <1>2, <3>1
    <3>. QED BY <3>1, <3>2
  <2>2. \A j \in 1 .. n - 1 : \E i \in 1 .. n : t[j] = q[i]
    <3>. SUFFICES ASSUME NEW j \in 1 .. n - 1 PROVE \E i \in 1 .. n : t[j] = q[i]
      OBVIOUS
    <3>1. j + 1 \in 1 .. n
      BY <1>2
    <3>. QED BY <1>2, <3>1
  <2>3. 1 \in 1 .. n
    BY <1>2
  <2>4. (\A x : x \in ToSet(q) <=> \E i \in 1 .. n : q[i] = x) /\ (\A x : x \in ToSet(t) <=> \E j \in 1 .. n - 1 : t[j] = x)
    BY <1>2 DEF ToSet
  <2>5. Head(q) = q[1]
    BY <1>2
  <2>. QED BY <2>1, <2>2, <2>3, <2>4, <2>5, Zenon
<1>6. \A i \in 1 .. n - 1 : i + 1 \in 1 .. n /\ i + 1 # 1
  BY <1>2
<1>7. 1 \in 1 .. n
  BY <1>2
<1>. QED BY <1>1, <1>2, <1>3, <1>5, <1>6, <1>7

-----------------------------------------------------------------------------
(* What the memtables have, after a step too.                              *)
visibleSplit == visible = settled \cup pending

LEMMA HeadWaits ==
  ASSUME MemtablesMade, imm # <<>>
  PROVE  Head(imm) \in ToSet(imm) /\ Head(imm) \in DOMAIN wal /\ Head(imm) # mt /\ skl[Head(imm)] = logLeft(Head(imm))
<1>1. imm \in Seq(ToSet(imm)) /\ mt \notin ToSet(imm) /\ DOMAIN wal = {mt} \cup ToSet(imm)
  BY DEF MemtablesMade
<1>2. Head(imm) \in ToSet(imm)
  BY <1>1
<1>3. \A f \in DOMAIN wal : f # mt => skl[f] = logLeft(f)
  BY MemtablesRead
<1>. QED BY <1>1, <1>2, <1>3

LEMMA VisibleSplits == MemtablesMade => visibleSplit
BY MemtablesRead DEF visibleSplit

LEMMA VisibleSplitsNext == MemtablesMade' => visibleSplit'
BY VisibleSplits, PTL

(* What a change of the active log alone leaves as it is.                  *)
LEMMA ActiveLogChanged ==
  ASSUME MemtablesMade, DOMAIN wal' = DOMAIN wal, \A f \in DOMAIN wal : f # mt => wal'[f] = wal[f],
         UNCHANGED <<sst, tables, mt>>
  PROVE  /\ inTables' = inTables
         /\ \A f \in DOMAIN wal : f # mt => logLeft(f)' = logLeft(f)
         /\ logLeft(mt)' = UpdateSkipList(wal'[mt].recs).out /\ pending' = UpdateSkipList(wal'[mt].recs).pend
         /\ \A c : c \in settled' <=> c \in inTables \/ c \in logLeft(mt)' \/ \E f \in DOMAIN wal : f # mt /\ c \in logLeft(f)
         /\ \A c : c \in settled <=> c \in inTables \/ c \in logLeft(mt) \/ \E f \in DOMAIN wal : f # mt /\ c \in logLeft(f)
<1>1. inTables' = inTables
  BY DEF inTables
<1>2. \A f \in DOMAIN wal : f # mt => logLeft(f)' = logLeft(f)
  BY DEF logLeft
<1>3. logLeft(mt)' = UpdateSkipList(wal'[mt].recs).out /\ pending' = UpdateSkipList(wal'[mt].recs).pend
  BY DEF logLeft, pending
<1>4. mt \in DOMAIN wal
  BY DEF MemtablesMade
<1>5. \A c : c \in settled' <=> c \in inTables' \/ \E f \in DOMAIN wal' : c \in logLeft(f)'
  BY DEF settled
<1>6. \A c : c \in settled <=> c \in inTables \/ \E f \in DOMAIN wal : c \in logLeft(f)
  BY DEF settled
<1>7. mt' = mt
  OBVIOUS
<1>8. \A c : c \in settled' <=> c \in inTables \/ c \in logLeft(mt)' \/ \E f \in DOMAIN wal : f # mt /\ c \in logLeft(f)
  BY <1>1, <1>2, <1>4, <1>5, <1>7
<1>9. \A c : c \in settled <=> c \in inTables \/ c \in logLeft(mt) \/ \E f \in DOMAIN wal : f # mt /\ c \in logLeft(f)
  BY <1>4, <1>6
<1>. QED BY <1>1, <1>2, <1>3, <1>8, <1>9

LEMMA CommitEntryPut ==
  ASSUME DataUp, status = "up", NEW c, NEW M, NEW rest, putting(c, M, rest), writer.txn
  PROVE  DataUp'
<1>. PICK L, s, t, todo : L = wal[mt] /\ s = skl[mt] /\ t = writer.ts /\ todo = ToSet(writer.todo)
  OBVIOUS
<1>1. WriterMade /\ VersionsMade /\ MemtablesMade /\ JobsMade /\ ValuesMade
  BY DEF DataUp
<1>2. /\ writer.phase = "lsm" /\ writer.todo # <<>> /\ c = Head(writer.todo) /\ rest = Tail(writer.todo)
      /\ M = appended(L, [kind |-> "txn", c |-> c])
      /\ DOMAIN wal' = DOMAIN wal /\ wal'[mt] = M /\ \A f \in DOMAIN wal : f # mt => wal'[f] = wal[f]
      /\ DOMAIN skl' = DOMAIN skl /\ skl'[mt] = sklPut(s, c) /\ \A f \in DOMAIN skl : f # mt => skl'[f] = skl[f]
      /\ DOMAIN writer' = DOMAIN writer /\ writer'.phase = "lsm" /\ writer'.todo = rest /\ writer'.txn = writer.txn
      /\ writer'.ts = t /\ writer'.entries = writer.entries
      /\ UNCHANGED <<sst, vlogf, vsynced, status, syncWrites, mt, imm, tables, nextTs, nextMem, flusher, compactor,
                     nCommit, nCrash, nMoved, started, acked, lossy>>
  BY DEF putting
<1>3. /\ DOMAIN writer = {"phase", "todo", "txn", "ts", "entries"} /\ writer.todo \in Seq(todo)
      /\ entriesIn(todo) \subseteq writer.entries /\ writer.entries # {} /\ CommitMade
  BY <1>1, <1>2 DEF WriterMade, Idle
<1>4. /\ entriesIn(todo) \cup entriesIn(pending) = writer.entries
      /\ t \in Nat \ {0} /\ nextTs = t + 1
      /\ writer.entries = {e \in started : e.id = nCommit}
      /\ \A e \in writer.entries : e.ts = t
      /\ \A d \in settled : d.e.ts < t
      /\ \A i, j \in DOMAIN writer.todo : writer.todo[i].e.key = writer.todo[j].e.key => i = j
      /\ \A d \in todo, x \in pending : d.e.key # x.e.key
  BY <1>3 DEF CommitMade
<1>5. /\ todo = {c} \cup ToSet(rest) /\ rest \in Seq(ToSet(rest))
      /\ \A i \in DOMAIN rest : i + 1 \in DOMAIN writer.todo /\ rest[i] = writer.todo[i + 1] /\ i + 1 # 1
      /\ 1 \in DOMAIN writer.todo /\ c = writer.todo[1]
  BY <1>2, <1>3, TodoSplit
<1>6. committing /\ underWay(mt) = t /\ underWay(mt)' = t /\ \A f : f # mt => underWay(f)' = underWay(f)
  BY <1>2 DEF committing, underWay
<1>7. mt \in DOMAIN wal /\ DOMAIN skl = DOMAIN wal /\ visible = settled \cup pending /\ s = logLeft(mt) \cup pending
  BY <1>1, MemtablesRead
<1>8. c \in todo /\ c.e \in writer.entries /\ c.e.ts = t /\ c.e \in started
  <2>1. c \in todo
    BY <1>5
  <2>2. c.e \in entriesIn(todo)
    BY <2>1 DEF entriesIn
  <2>. QED BY <1>3, <1>4, <2>1, <2>2
<1>9. (\A d \in settled : d.e.ts # t) /\ \A d \in visible : d.e.key # c.e.key \/ d.e.ts # c.e.ts
  <2>1. \A d \in settled : d.e.ts # t
    BY <1>4
  <2>. QED BY <1>4, <1>7, <1>8, <2>1
<1>10. commitEntryIn(L, M, s, c, t)
  <2>1. logMade(L, s, t)
    BY <1>1, <1>6, <1>7 DEF MemtablesMade
  <2>2. \A d \in s : d \in visible
    BY <1>7 DEF visible
  <2>. QED BY <1>2, <1>4, <1>8, <1>9, <2>1, <2>2, CommitEntryLogged
<1>11. /\ logMade(M, sklPut(s, c), t) /\ sklPut(s, c) = s \cup {c}
       /\ UpdateSkipList(M.recs).out = logLeft(mt)
       /\ UpdateSkipList(M.recs).pend = pending \cup {c}
       /\ Len(M.recs) = Len(L.recs) + 1
       /\ afterLosing(M) = afterLosing(L) \cup {Len(M.recs)}
       /\ \A k \in afterLosing(L) : readTo(M, k) = readTo(L, k)
       /\ readTo(M, Len(M.recs)) = logLeft(mt)
  BY <1>10 DEF commitEntryIn, logLeft, pending
<1>12. /\ inTables' = inTables
       /\ \A f \in DOMAIN wal : f # mt => logLeft(f)' = logLeft(f)
       /\ logLeft(mt)' = logLeft(mt) /\ pending' = pending \cup {c}
       /\ \A d : d \in settled' <=> d \in settled
  <2>1. DOMAIN wal' = DOMAIN wal /\ (\A f \in DOMAIN wal : f # mt => wal'[f] = wal[f]) /\ UNCHANGED <<sst, tables, mt>>
    BY <1>2
  <2>2. wal'[mt] = M
    BY <1>2
  <2>. QED BY <1>1, <1>11, <2>1, <2>2, ActiveLogChanged
<1>13. settled' = settled
  BY <1>12
<1>14. MemtablesMade'
  <2>1. \A f \in DOMAIN wal : logMade(wal'[f], skl'[f], underWay(f)')
    <3>1. logMade(wal'[mt], skl'[mt], underWay(mt)')
      BY <1>2, <1>6, <1>11
    <3>2. ASSUME NEW f \in DOMAIN wal, f # mt PROVE logMade(wal'[f], skl'[f], underWay(f)')
      <4>1. wal'[f] = wal[f] /\ skl'[f] = skl[f] /\ underWay(f)' = underWay(f)
        BY <1>2, <1>6, <1>7, <3>2
      <4>2. logMade(wal[f], skl[f], underWay(f))
        BY <1>1 DEF MemtablesMade
      <4>. QED BY <4>1, <4>2
    <3>3. ASSUME NEW f \in DOMAIN wal PROVE logMade(wal'[f], skl'[f], underWay(f)')
      <4>1. CASE f = mt
        BY <1>2, <3>1, <4>1
      <4>2. CASE f # mt
        BY <3>2, <4>2
      <4>. QED BY <4>1, <4>2
    <3>. QED BY <3>3
  <2>. QED BY <1>1, <1>2, <2>1 DEF MemtablesMade
<1>15. visible' = visible \cup {c}
  <2>1. visible' = settled' \cup pending'
    BY <1>14, VisibleSplitsNext DEF visibleSplit
  <2>. QED BY <1>7, <1>12, <1>13, <2>1
<1>16. WriterMade'
  <2>1. entriesIn(todo) = {c.e} \cup entriesIn(ToSet(rest)) /\ entriesIn(pending \cup {c}) = entriesIn(pending) \cup {c.e}
    BY <1>5 DEF entriesIn
  <2>2. \A i, j \in DOMAIN rest : rest[i].e.key = rest[j].e.key => i = j
    <3>. SUFFICES ASSUME NEW i \in DOMAIN rest, NEW j \in DOMAIN rest, rest[i].e.key = rest[j].e.key PROVE i = j
      OBVIOUS
    <3>1. i + 1 = j + 1
      BY <1>4, <1>5
    <3>2. i \in Nat /\ j \in Nat
      BY <1>5
    <3>. QED BY <3>1, <3>2
  <2>3. \A d \in ToSet(rest), x \in pending \cup {c} : d.e.key # x.e.key
    <3>1. ASSUME NEW d \in ToSet(rest) PROVE d.e.key # c.e.key
      <4>1. PICK i \in DOMAIN rest : d = rest[i]
        BY DEF ToSet
      <4>2. i + 1 \in DOMAIN writer.todo /\ d = writer.todo[i + 1] /\ i + 1 # 1
        BY <1>5, <4>1
      <4>. QED BY <1>4, <1>5, <4>2
    <3>. QED BY <1>4, <1>5, <3>1
  <2>4. CommitMade'
    <3>1. writer'.todo = rest /\ writer'.ts = t /\ writer'.entries = writer.entries
      BY <1>2
    <3>2. entriesIn(ToSet(rest)) \cup entriesIn(pending') = writer.entries
      BY <1>4, <1>12, <2>1
    <3>3. nextTs' = t + 1 /\ writer.entries = {e \in started' : e.id = nCommit'} /\ \A d \in settled' : d.e.ts < t
      BY <1>2, <1>4, <1>13
    <3>4. \A d \in ToSet(rest), x \in pending' : d.e.key # x.e.key
      BY <1>12, <2>3
    <3>. QED BY <1>4, <2>2, <3>1, <3>2, <3>3, <3>4 DEF CommitMade
  <2>5. entriesIn(ToSet(rest)) \subseteq writer.entries
    BY <1>3, <2>1
  <2>. QED BY <1>2, <1>3, <1>5, <2>4, <2>5 DEF WriterMade
<1>17. VersionsMade'
  <2>1. entriesIn(visible') \subseteq started'
    <3>1. entriesIn(visible \cup {c}) = entriesIn(visible) \cup {c.e}
      BY DEF entriesIn
    <3>. QED BY <1>1, <1>2, <1>8, <1>15, <3>1 DEF VersionsMade
  <2>2. oneVersion(visible')
    BY <1>1, <1>9, <1>15 DEF VersionsMade, oneVersion
  <2>3. c.e.ts \in 1 .. nextTs - 1
    BY <1>4, <1>8
  <2>. QED BY <1>1, <1>2, <1>15, <2>1, <2>2, <2>3 DEF VersionsMade
<1>18. JobsMade'
  <2>1. flusher.phase # "idle" => imm # <<>>
    BY <1>1 DEF JobsMade
  <2>2. imm # <<>> => Head(imm) # mt /\ Head(imm) \in DOMAIN skl
    BY <1>1, <1>7, HeadWaits
  <2>3. imm # <<>> => skl'[Head(imm)] = skl[Head(imm)]
    BY <1>2, <2>2
  <2>4. flusher.phase \in {"built", "manifest"} \/ flusher.phase = "added" => flusher.phase # "idle"
    OBVIOUS
  <2>. QED BY <1>1, <1>2, <1>12, <2>1, <2>3, <2>4 DEF JobsMade
<1>19. ValuesMade'
  BY <1>1, <1>2 DEF ValuesMade
<1>20. safe' => Pointed' /\ KeptMade'
  <2>. SUFFICES ASSUME safe' PROVE Pointed' /\ KeptMade'
    OBVIOUS
  <2>1. Pointed /\ KeptMade
    BY <1>2 DEF safe, DataUp
  <2>2. \A d : readableValue(d)' <=> readableValue(d)
    BY <1>2 DEF readableValue
  <2>3. \A f \in DOMAIN wal : f # mt => mayBeLeft(wal[f])' = mayBeLeft(wal[f])
    BY <1>2 DEF mayBeLeft
  <2>4. \A k \in mayBeLeft(M)' : k = Len(M.recs) \/ (k \in mayBeLeft(L) /\ readTo(M, k) = readTo(L, k))
    BY <1>2, <1>11 DEF mayBeLeft
  <2>5. Pointed'
    <3>1. \A d \in visible' : readableValue(d)
      BY <1>2, <1>8, <1>15, <2>1 DEF Pointed
    <3>2. \A k \in mayBeLeft(M)' : \A d \in readTo(M, k) : readableValue(d)
      <4>1. \A d \in logLeft(mt) : readableValue(d)
        BY <1>7, <2>1 DEF Pointed, settled
      <4>. QED BY <1>7, <1>11, <2>1, <2>4, <4>1 DEF Pointed
    <3>3. \A f \in DOMAIN wal : f # mt => \A k \in mayBeLeft(wal[f]) : \A d \in readTo(wal[f], k) : readableValue(d)
      BY <2>1 DEF Pointed
    <3>4. \A f \in DOMAIN wal' : \A k \in mayBeLeft(wal[f])' : \A d \in readTo(wal[f], k)' : readableValue(d)'
      BY <1>2, <2>2, <2>3, <3>2, <3>3
    <3>5. \A d \in ToSet(rest) : readableValue(d)
      BY <1>2, <1>5, <2>1 DEF Pointed
    <3>. QED BY <1>2, <2>2, <3>1, <3>4, <3>5 DEF Pointed
  <2>6. KeptMade'
    <3>1. \A e : staysIn(L, e) => staysIn(M, e)'
      <4>1. logMade(L, s, t)
        BY <1>1, <1>6, <1>7 DEF MemtablesMade
      <4>2. \A e : staysIn(L, e) => staysIn(M, e)
        BY <1>10, <4>1, LeftOfCommit
      <4>. QED BY <1>2, <4>2 DEF staysIn, mayBeLeft
    <3>2. \A f \in DOMAIN wal : \A e : staysIn(wal[f], e) => staysIn(wal[f], e)'
      <4>1. \A f \in DOMAIN wal : f # mt => \A e : staysIn(wal[f], e) => staysIn(wal[f], e)'
        BY <1>2, <2>3 DEF staysIn
      <4>2. \A e : staysIn(wal[mt], e) => staysIn(wal[mt], e)'
        BY <1>2, <3>1
      <4>3. ASSUME NEW f \in DOMAIN wal, NEW e, staysIn(wal[f], e) PROVE staysIn(wal[f], e)'
        <5>1. CASE f = mt
          BY <4>2, <4>3, <5>1, <1>2
        <5>2. CASE f # mt
          BY <4>1, <4>3, <5>2
        <5>. QED BY <5>1, <5>2
      <4>. QED BY <4>3
    <3>3. \A e : isLeft(e) => isLeft(e)'
      BY <1>2, <1>12, <3>2 DEF isLeft
    <3>. QED BY <1>2, <1>13, <2>1, <3>3 DEF KeptMade, closed
  <2>. QED BY <2>5, <2>6
<1>21. nMoved' = 0 => WholeCommits'
  <2>. SUFFICES ASSUME nMoved = 0 PROVE WholeCommits'
    BY <1>2
  <2>1. WholeCommits
    BY DEF DataUp
  <2>2. \A S : closed(S)' <=> closed(S)
    BY <1>2 DEF closed
  <2>3. Len(L.recs) \in afterLosing(L) /\ readTo(L, Len(L.recs)) = logLeft(mt)
    <3>1. logFacts(L, s, t, UpdateSkipList(L.recs))
      BY <1>1, <1>6, <1>7, MemtablesRead DEF LogsRead
    <3>. QED BY <3>1 DEF logFacts, logLeft
  <2>4. \A k \in afterLosing(M) : closed(entriesIn(readTo(M, k)))
    BY <1>7, <1>11, <2>1, <2>3 DEF WholeCommits
  <2>5. \A f \in DOMAIN wal : f # mt => \A k \in afterLosing(wal'[f]) : closed(entriesIn(readTo(wal'[f], k)))
    BY <1>2, <2>1 DEF WholeCommits
  <2>6. \A f \in DOMAIN wal' : \A k \in afterLosing(wal'[f]) : closed(entriesIn(readTo(wal'[f], k)))
    BY <1>2, <2>4, <2>5
  <2>7. closed(entriesIn(inTables'))
    BY <1>12, <2>1 DEF WholeCommits
  <2>. QED BY <2>2, <2>6, <2>7 DEF WholeCommits
<1>. QED BY <1>14, <1>16, <1>17, <1>18, <1>19, <1>20, <1>21 DEF DataUp

(* What is said of entries is said of all that have them.                  *)
LEMMA SameEntries ==
  ASSUME NEW C, NEW D, entriesIn(D) \subseteq entriesIn(C)
  PROVE  /\ oneVersion(C) => oneVersion(D)
         /\ \A S : (\A c \in C : c.e.ts \in S) => \A d \in D : d.e.ts \in S
<1>1. \A d \in D : \E c \in C : c.e = d.e
  BY DEF entriesIn
<1>2. oneVersion(C) => oneVersion(D)
  BY <1>1 DEF oneVersion
<1>3. \A S : (\A c \in C : c.e.ts \in S) => \A d \in D : d.e.ts \in S
  BY <1>1
<1>. QED BY <1>2, <1>3

LEMMA MovedEntryPut ==
  ASSUME DataUp, status = "up", NEW c, NEW M, NEW rest, putting(c, M, rest), ~ writer.txn
  PROVE  DataUp'
<1>. PICK L, s, todo : L = wal[mt] /\ s = skl[mt] /\ todo = ToSet(writer.todo)
  OBVIOUS
<1>1. WriterMade /\ VersionsMade /\ MemtablesMade /\ JobsMade /\ ValuesMade
  BY DEF DataUp
<1>2. /\ writer.phase = "lsm" /\ writer.todo # <<>> /\ c = Head(writer.todo) /\ rest = Tail(writer.todo)
      /\ M = appended(L, [kind |-> "moved", c |-> c])
      /\ DOMAIN wal' = DOMAIN wal /\ wal'[mt] = M /\ \A f \in DOMAIN wal : f # mt => wal'[f] = wal[f]
      /\ DOMAIN skl' = DOMAIN skl /\ skl'[mt] = sklPut(s, c) /\ \A f \in DOMAIN skl : f # mt => skl'[f] = skl[f]
      /\ DOMAIN writer' = DOMAIN writer /\ writer'.phase = "lsm" /\ writer'.todo = rest /\ writer'.txn = writer.txn
      /\ writer'.entries = writer.entries
      /\ UNCHANGED <<sst, vlogf, vsynced, status, syncWrites, mt, imm, tables, nextTs, nextMem, flusher, compactor,
                     nCommit, nCrash, nMoved, started, acked, lossy>>
  BY DEF putting
<1>3. /\ DOMAIN writer = {"phase", "todo", "txn", "ts", "entries"} /\ writer.todo \in Seq(todo)
      /\ entriesIn(todo) \subseteq writer.entries /\ writer.entries # {} /\ writer.txn \in BOOLEAN
      /\ nMoved # 0 /\ writer.entries \subseteq entriesIn(settled)
  BY <1>1, <1>2 DEF WriterMade, Idle
<1>4. ~ committing /\ underWay(mt) = 0 /\ ~ committing' /\ \A f : underWay(f)' = 0 /\ underWay(f) = 0
  BY <1>2 DEF committing, underWay
<1>5. todo = {c} \cup ToSet(rest) /\ rest \in Seq(ToSet(rest))
  BY <1>2, <1>3, TodoSplit
<1>6. mt \in DOMAIN wal /\ DOMAIN skl = DOMAIN wal /\ visible = settled /\ s = logLeft(mt) /\ pending = {}
  BY <1>1, <1>4, MemtablesRead
<1>7. c \in todo /\ c.e \in writer.entries /\ c.e \in entriesIn(settled)
  <2>1. c \in todo
    BY <1>5
  <2>2. c.e \in entriesIn(todo)
    BY <2>1 DEF entriesIn
  <2>. QED BY <1>3, <2>1, <2>2
<1>8. s \subseteq settled
  BY <1>6, SettledIs
<1>9. oneVersion(s \cup {c})
  <2>1. oneVersion(settled)
    BY <1>1, <1>6 DEF VersionsMade
  <2>2. entriesIn(s \cup {c}) \subseteq entriesIn(settled)
    BY <1>7, <1>8 DEF entriesIn
  <2>. QED BY <2>1, <2>2, SameEntries
<1>10. logMade(L, s, 0)
  BY <1>1, <1>4, <1>6 DEF MemtablesMade
<1>11. movedEntryIn(L, M, s, c)
  BY <1>2, <1>9, <1>10, MovedEntryLogged
<1>12. /\ logMade(M, sklPut(s, c), 0) /\ entriesIn(sklPut(s, c)) = entriesIn(s) \cup {c.e}
       /\ UpdateSkipList(M.recs).out = sklPut(s, c) /\ UpdateSkipList(M.recs).pend = {}
       /\ afterLosing(M) = afterLosing(L) \cup {Len(M.recs)}
       /\ \A k \in afterLosing(L) : readTo(M, k) = readTo(L, k)
       /\ readTo(M, Len(M.recs)) = sklPut(s, c)
       /\ sklPut(s, c) \subseteq s \cup {c}
  BY <1>11 DEF movedEntryIn, sklPut
<1>13. /\ inTables' = inTables
       /\ \A f \in DOMAIN wal : f # mt => logLeft(f)' = logLeft(f)
       /\ logLeft(mt)' = sklPut(s, c) /\ pending' = {}
       /\ \A d : d \in settled' <=> d \in inTables \/ d \in sklPut(s, c) \/ \E f \in DOMAIN wal : f # mt /\ d \in logLeft(f)
       /\ \A d : d \in settled <=> d \in inTables \/ d \in s \/ \E f \in DOMAIN wal : f # mt /\ d \in logLeft(f)
  <2>1. DOMAIN wal' = DOMAIN wal /\ (\A f \in DOMAIN wal : f # mt => wal'[f] = wal[f]) /\ UNCHANGED <<sst, tables, mt>>
    BY <1>2
  <2>2. wal'[mt] = M
    BY <1>2
  <2>. QED BY <1>1, <1>6, <1>12, <2>1, <2>2, ActiveLogChanged
<1>14. entriesIn(settled') = entriesIn(settled)
  <2>1. \A d \in settled' : d.e \in entriesIn(settled)
    <3>1. \A d \in settled' : d \in settled \/ d = c
      BY <1>12, <1>13
    <3>. QED BY <1>7, <3>1 DEF entriesIn
  <2>2. \A d \in settled : d.e \in entriesIn(settled')
    <3>1. \A d \in settled : d \in settled' \/ d \in s
      BY <1>13
    <3>2. \A d \in s : d.e \in entriesIn(sklPut(s, c))
      BY <1>12 DEF entriesIn
    <3>3. sklPut(s, c) \subseteq settled'
      BY <1>13
    <3>. QED BY <3>1, <3>2, <3>3 DEF entriesIn
  <2>. QED BY <2>1, <2>2 DEF entriesIn
<1>15. MemtablesMade'
  <2>1. ASSUME NEW f \in DOMAIN wal PROVE logMade(wal'[f], skl'[f], underWay(f)')
    <3>1. CASE f = mt
      BY <1>2, <1>4, <1>12, <3>1
    <3>2. CASE f # mt
      <4>1. wal'[f] = wal[f] /\ skl'[f] = skl[f] /\ underWay(f)' = underWay(f)
        BY <1>2, <1>4, <1>6, <3>2
      <4>2. logMade(wal[f], skl[f], underWay(f))
        BY <1>1 DEF MemtablesMade
      <4>. QED BY <4>1, <4>2
    <3>. QED BY <3>1, <3>2
  <2>. QED BY <1>1, <1>2, <2>1 DEF MemtablesMade
<1>16. visible' = settled'
  BY <1>13, <1>15, VisibleSplitsNext DEF visibleSplit
<1>17. WriterMade'
  <2>1. entriesIn(ToSet(rest)) \subseteq writer.entries
    BY <1>3, <1>5 DEF entriesIn
  <2>. QED BY <1>2, <1>3, <1>5, <1>14, <2>1 DEF WriterMade
<1>18. VersionsMade'
  <2>1. entriesIn(visible') \subseteq started'
    BY <1>1, <1>2, <1>6, <1>14, <1>16 DEF VersionsMade
  <2>2. entriesIn(visible') \subseteq entriesIn(visible)
    BY <1>6, <1>14, <1>16
  <2>3. oneVersion(visible') /\ \A d \in visible' : d.e.ts \in 1 .. nextTs - 1
    <3>1. PICK S : S = 1 .. nextTs - 1
      OBVIOUS
    <3>2. oneVersion(visible) /\ \A d \in visible : d.e.ts \in S
      BY <1>1, <3>1 DEF VersionsMade
    <3>3. oneVersion(visible') /\ \A d \in visible' : d.e.ts \in S
      BY <2>2, <3>2, SameEntries
    <3>. QED BY <3>1, <3>3
  <2>. QED BY <1>1, <1>2, <2>1, <2>3 DEF VersionsMade
<1>19. JobsMade'
  <2>1. flusher.phase # "idle" => imm # <<>>
    BY <1>1 DEF JobsMade
  <2>2. imm # <<>> => Head(imm) # mt /\ Head(imm) \in DOMAIN skl
    BY <1>1, <1>6, HeadWaits
  <2>3. imm # <<>> => skl'[Head(imm)] = skl[Head(imm)]
    BY <1>2, <2>2
  <2>4. flusher.phase \in {"built", "manifest"} \/ flusher.phase = "added" => flusher.phase # "idle"
    OBVIOUS
  <2>. QED BY <1>1, <1>2, <1>13, <2>1, <2>3, <2>4 DEF JobsMade
<1>20. ValuesMade'
  BY <1>1, <1>2 DEF ValuesMade
<1>21. safe' => Pointed' /\ KeptMade'
  <2>. SUFFICES ASSUME safe' PROVE Pointed' /\ KeptMade'
    OBVIOUS
  <2>1. Pointed /\ KeptMade
    BY <1>2 DEF safe, DataUp
  <2>2. \A d : readableValue(d)' <=> readableValue(d)
    BY <1>2 DEF readableValue
  <2>3. \A f \in DOMAIN wal : f # mt => mayBeLeft(wal[f])' = mayBeLeft(wal[f])
    BY <1>2 DEF mayBeLeft
  <2>4. \A k \in mayBeLeft(M)' : k = Len(M.recs) \/ (k \in mayBeLeft(L) /\ readTo(M, k) = readTo(L, k))
    BY <1>2, <1>12 DEF mayBeLeft
  <2>5. readableValue(c) /\ \A d \in settled : readableValue(d)
    BY <1>2, <1>6, <1>7, <2>1 DEF Pointed
  <2>6. Pointed'
    <3>1. \A d \in visible' : readableValue(d)
      <4>1. \A d \in settled' : d \in settled \/ d = c
        BY <1>12, <1>13
      <4>. QED BY <1>16, <2>5, <4>1
    <3>2. \A k \in mayBeLeft(M)' : \A d \in readTo(M, k) : readableValue(d)
      <4>1. \A d \in sklPut(s, c) : readableValue(d)
        BY <1>8, <1>12, <2>5
      <4>2. \A k \in mayBeLeft(L) : \A d \in readTo(L, k) : readableValue(d)
        BY <1>6, <2>1 DEF Pointed
      <4>. QED BY <1>12, <2>4, <4>1, <4>2
    <3>3. \A f \in DOMAIN wal : f # mt => \A k \in mayBeLeft(wal[f]) : \A d \in readTo(wal[f], k) : readableValue(d)
      BY <2>1 DEF Pointed
    <3>4. \A f \in DOMAIN wal' : \A k \in mayBeLeft(wal[f])' : \A d \in readTo(wal[f], k)' : readableValue(d)'
      BY <1>2, <2>2, <2>3, <3>2, <3>3
    <3>5. \A d \in ToSet(rest) : readableValue(d)
      BY <1>2, <1>5, <2>1 DEF Pointed
    <3>. QED BY <1>2, <2>2, <3>1, <3>4, <3>5 DEF Pointed
  <2>7. KeptMade'
    <3>1. \A e : staysIn(L, e) => staysIn(M, e)'
      <4>1. \A e : staysIn(L, e) => staysIn(M, e)
        BY <1>10, <1>11, LeftOfMoved
      <4>. QED BY <1>2, <4>1 DEF staysIn, mayBeLeft
    <3>2. ASSUME NEW f \in DOMAIN wal, NEW e, staysIn(wal[f], e) PROVE staysIn(wal[f], e)'
      <4>1. CASE f = mt
        BY <1>2, <3>1, <3>2, <4>1
      <4>2. CASE f # mt
        <5>1. wal'[f] = wal[f] /\ mayBeLeft(wal[f])' = mayBeLeft(wal[f])
          BY <1>2, <2>3, <4>2
        <5>. QED BY <3>2, <5>1 DEF staysIn
      <4>. QED BY <4>1, <4>2
    <3>3. \A e : isLeft(e) => isLeft(e)'
      BY <1>2, <1>13, <3>2 DEF isLeft
    <3>. QED BY <1>2, <1>14, <2>1, <3>3 DEF KeptMade, closed
  <2>. QED BY <2>6, <2>7
<1>22. nMoved' # 0
  BY <1>2, <1>3
<1>. QED BY <1>15, <1>17, <1>18, <1>19, <1>20, <1>21, <1>22 DEF DataUp

LEMMA MemPutKeepsData == DataUp /\ status = "up" /\ memPut => DataUp'
<1>. SUFFICES ASSUME DataUp, status = "up", memPut PROVE DataUp'
  OBVIOUS
<1>1. WriterMade /\ MemtablesMade
  BY DEF DataUp
<1>2. PICK c, M, rest : putting(c, M, rest)
  BY <1>1, PutIs
<1>3. CASE writer.txn
  BY <1>2, <1>3, CommitEntryPut
<1>4. CASE ~ writer.txn
  BY <1>2, <1>4, MovedEntryPut
<1>. QED BY <1>3, <1>4

-----------------------------------------------------------------------------
(* A request ends: the log of the active memtable has all of it.           *)
ending(L, M, s) ==
  /\ writer.phase = "lsm" /\ writer.todo = <<>> /\ writer' = Idle /\ acked' = acked \cup writer.entries
  /\ DOMAIN wal' = DOMAIN wal /\ wal'[mt] = M /\ \A f \in DOMAIN wal : f # mt => wal'[f] = wal[f]
  /\ UNCHANGED <<sst, vlogf, vsynced, status, syncWrites, mt, imm, skl, tables, nextTs, nextMem, flusher, compactor,
                 nCommit, nCrash, nMoved, started, lossy>>
  /\ L = wal[mt] /\ s = skl[mt] /\ DOMAIN M = {"recs", "synced"}
  /\ M.recs = L.recs \o (IF writer.txn THEN <<[kind |-> "fin", ts |-> writer.ts]>> ELSE <<>>)
  /\ M.synced = IF syncWrites THEN Len(M.recs) ELSE L.synced

ended(L, M, s) ==
  /\ logMade(M, s, 0) /\ UpdateSkipList(M.recs).out = s /\ UpdateSkipList(M.recs).pend = {}
  /\ mayBeLeft(M) = {Len(M.recs)} /\ readTo(M, Len(M.recs)) = s
  /\ \A k \in afterLosing(M) : (k \in afterLosing(L) /\ readTo(M, k) = readTo(L, k)) \/ k = Len(M.recs)

LEMMA EndIs ==
  ASSUME WriterMade, MemtablesMade, memPutFin
  PROVE  \E L, M, s : ending(L, M, s)
<1>. DEFINE recs == wal[mt].recs \o (IF writer.txn THEN <<[kind |-> "fin", ts |-> writer.ts]>> ELSE <<>>)
            M == [recs |-> recs, synced |-> IF syncWrites THEN Len(recs) ELSE wal[mt].synced]
<1>1. mt \in DOMAIN wal
  BY DEF MemtablesMade
<1>2. wal' = [wal EXCEPT ![mt] = M]
  BY <1>1 DEF memPutFin
<1>3. /\ writer.phase = "lsm" /\ writer.todo = <<>> /\ writer' = Idle /\ acked' = acked \cup writer.entries
      /\ UNCHANGED <<sst, vlogf, vsynced, status, syncWrites, mt, imm, skl, tables, nextTs, nextMem, flusher, compactor,
                 nCommit, nCrash, nMoved, started, lossy>>
  BY DEF memPutFin, memVars
<1>4. DOMAIN M = {"recs", "synced"} /\ M.recs = recs /\ M.synced = IF syncWrites THEN Len(recs) ELSE wal[mt].synced
  OBVIOUS
<1>. HIDE DEF M
<1>5. DOMAIN wal' = DOMAIN wal /\ wal'[mt] = M /\ \A f \in DOMAIN wal : f # mt => wal'[f] = wal[f]
  BY <1>1, <1>2
<1>6. ending(wal[mt], M, skl[mt])
  BY <1>3, <1>4, <1>5 DEF ending
<1>. QED BY <1>6

LEMMA CommitEnded ==
  ASSUME DataUp, NEW L, NEW M, NEW s, ending(L, M, s), writer.txn
  PROVE  /\ ended(L, M, s) /\ writer.entries = entriesIn(pending)
         /\ writer.entries = {e \in started : e.id = nCommit}
<1>1. WriterMade /\ VersionsMade /\ MemtablesMade
  BY DEF DataUp
<1>2. /\ writer.phase = "lsm" /\ writer.todo = <<>> /\ L = wal[mt] /\ s = skl[mt] /\ DOMAIN M = {"recs", "synced"}
      /\ M.recs = L.recs \o <<[kind |-> "fin", ts |-> writer.ts]>>
      /\ M.synced = IF syncWrites THEN Len(M.recs) ELSE L.synced
  BY DEF ending
<1>3. writer.entries # {} /\ CommitMade
  BY <1>1, <1>2 DEF WriterMade, Idle
<1>4. PICK t, a : t = writer.ts /\ a = UpdateSkipList(L.recs)
  OBVIOUS
<1>5. pending = a.pend /\ a.out = logLeft(mt) /\ mt \in DOMAIN wal /\ s = a.out \cup a.pend
  <2>1. mt \in DOMAIN wal /\ s = logLeft(mt) \cup pending
    BY <1>1, <1>2, MemtablesRead
  <2>. QED BY <1>2, <1>4, <2>1 DEF pending, logLeft
<1>6. ToSet(writer.todo) = {}
  BY <1>2 DEF ToSet
<1>7. /\ entriesIn(ToSet(writer.todo)) \cup entriesIn(pending) = writer.entries
      /\ t \in Nat \ {0} /\ writer.entries = {e \in started : e.id = nCommit}
      /\ \A e \in writer.entries : e.ts = t
      /\ \A c \in settled : c.e.ts < t
  BY <1>3, <1>4 DEF CommitMade
<1>8. writer.entries = entriesIn(pending)
  BY <1>6, <1>7, NoEntries
<1>9. a.pend # {}
  BY <1>3, <1>5, <1>8, NoEntries
<1>10. logMade(L, s, t)
  <2>1. underWay(mt) = t
    BY <1>2, <1>4 DEF underWay, committing
  <2>. QED BY <1>1, <1>2, <1>5, <2>1 DEF MemtablesMade
<1>11. \A c \in a.out, d \in a.pend : c.e.key # d.e.key \/ c.e.ts # d.e.ts
  <2>1. \A c \in a.out : c.e.ts < t
    BY <1>5, <1>7, SettledIs
  <2>2. \A d \in a.pend : d.e.ts = t
    BY <1>5, <1>7, <1>8 DEF entriesIn
  <2>3. \A c \in a.out : c.e.ts # t
    BY <1>7, <2>1
  <2>. QED BY <2>2, <2>3
<1>12. PICK r : r = [kind |-> "fin", ts |-> t]
  OBVIOUS
<1>13. L.recs \in Seq(ToSet(L.recs)) /\ Len(L.recs) \in Nat
  BY <1>10 DEF logMade
<1>14. M.recs = Append(L.recs, r) /\ Len(M.recs) = Len(L.recs) + 1
  <2>1. M.recs = L.recs \o <<r>>
    BY <1>2, <1>4, <1>12
  <2>2. L.recs \in Seq(ToSet(L.recs) \cup {r})
    BY <1>13
  <2>. QED BY <2>1, <2>2
<1>15. M.synced \in {L.synced, Len(L.recs) + 1}
  BY <1>2, <1>14
<1>16. finishedIn(L, M, s)
  BY <1>2, <1>4, <1>7, <1>9, <1>10, <1>11, <1>12, <1>14, <1>15, FinishLogged
<1>17. /\ logMade(M, s, 0) /\ UpdateSkipList(M.recs).out = s
       /\ \A k \in afterLosing(M) : (k \in afterLosing(L) /\ readTo(M, k) = readTo(L, k)) \/ k = Len(M.recs)
       /\ readTo(M, Len(M.recs)) = s
  BY <1>16 DEF finishedIn
<1>18. UpdateSkipList(M.recs).pend = {}
  BY <1>17 DEF logMade
<1>19. mayBeLeft(M) = {Len(M.recs)}
  <2>1. Len(M.recs) \in Nat
    BY <1>13, <1>14
  <2>2. syncWrites => M.synced .. Len(M.recs) = {Len(M.recs)}
    BY <1>2, <2>1
  <2>. QED BY <2>2 DEF mayBeLeft, afterLosing
<1>. QED BY <1>7, <1>8, <1>17, <1>18, <1>19 DEF ended

LEMMA MoveEnded ==
  ASSUME DataUp, NEW L, NEW M, NEW s, ending(L, M, s), ~ writer.txn
  PROVE  ended(L, M, s) /\ writer.entries \subseteq entriesIn(settled) /\ nMoved # 0 /\ pending = {}
<1>1. WriterMade /\ MemtablesMade
  BY DEF DataUp
<1>2. /\ writer.phase = "lsm" /\ L = wal[mt] /\ s = skl[mt] /\ DOMAIN M = {"recs", "synced"}
      /\ M.recs = L.recs \o <<>>
      /\ M.synced = IF syncWrites THEN Len(M.recs) ELSE L.synced
  BY DEF ending
<1>3. writer.entries \subseteq entriesIn(settled) /\ nMoved # 0
  BY <1>1, <1>2 DEF WriterMade, Idle
<1>4. ~ committing
  BY DEF committing
<1>5. mt \in DOMAIN wal /\ s = logLeft(mt) /\ pending = {}
  BY <1>1, <1>2, <1>4, MemtablesRead
<1>6. logMade(L, s, 0)
  <2>1. underWay(mt) = 0
    BY <1>4 DEF underWay
  <2>. QED BY <1>1, <1>2, <1>5, <2>1 DEF MemtablesMade
<1>7. L.recs \in Seq(ToSet(L.recs)) /\ Len(L.recs) \in Nat
  BY <1>6 DEF logMade
<1>8. M.recs = L.recs
  BY <1>2, <1>7
<1>9. syncedAs(L, M, s, 0)
  <2>1. M.synced \in {L.synced, Len(L.recs)}
    BY <1>2, <1>8
  <2>. QED BY <1>2, <1>6, <1>8, <2>1, SyncedLog
<1>10. logFacts(L, s, 0, UpdateSkipList(L.recs))
  BY <1>6, LogFacts
<1>11. mayBeLeft(M) = {Len(M.recs)}
  <2>2. syncWrites => M.synced .. Len(M.recs) = {Len(M.recs)}
    BY <1>2, <1>7, <1>8
  <2>. QED BY <2>2 DEF mayBeLeft, afterLosing
<1>12. UpdateSkipList(L.recs).out = s /\ UpdateSkipList(L.recs).pend = {} /\ readTo(L, Len(L.recs)) = s
  BY <1>10 DEF logFacts
<1>13. ended(L, M, s)
  BY <1>8, <1>9, <1>11, <1>12 DEF ended, syncedAs
<1>. QED BY <1>3, <1>5, <1>13

LEMMA RequestEnds ==
  ASSUME DataUp, status = "up", NEW L, NEW M, NEW s, ending(L, M, s), ended(L, M, s),
         writer.entries \subseteq entriesIn(visible),
         safe => closed(entriesIn(visible)),
         nMoved = 0 => closed(entriesIn(s))
  PROVE  DataUp'
<1>1. WriterMade /\ VersionsMade /\ MemtablesMade /\ JobsMade /\ ValuesMade
  BY DEF DataUp
<1>2. /\ writer' = Idle /\ acked' = acked \cup writer.entries
      /\ DOMAIN wal' = DOMAIN wal /\ wal'[mt] = M /\ \A f \in DOMAIN wal : f # mt => wal'[f] = wal[f]
      /\ UNCHANGED <<sst, vlogf, vsynced, status, syncWrites, mt, imm, skl, tables, nextTs, nextMem, flusher, compactor,
                 nCommit, nCrash, nMoved, started, lossy>>
      /\ L = wal[mt] /\ s = skl[mt]
  BY DEF ending
<1>3. /\ logMade(M, s, 0) /\ UpdateSkipList(M.recs).out = s /\ UpdateSkipList(M.recs).pend = {}
      /\ mayBeLeft(M) = {Len(M.recs)} /\ readTo(M, Len(M.recs)) = s
      /\ \A k \in afterLosing(M) : (k \in afterLosing(L) /\ readTo(M, k) = readTo(L, k)) \/ k = Len(M.recs)
  BY DEF ended
<1>4. /\ LogsRead /\ mt \in DOMAIN wal /\ DOMAIN skl = DOMAIN wal /\ visible = settled \cup pending
      /\ \A f \in DOMAIN wal : f # mt => skl[f] = logLeft(f)
      /\ s = logLeft(mt) \cup pending
  BY <1>1, <1>2, MemtablesRead
<1>5. /\ inTables' = inTables
      /\ \A f \in DOMAIN wal : f # mt => logLeft(f)' = logLeft(f)
      /\ logLeft(mt)' = s /\ pending' = {}
  <2>1. DOMAIN wal' = DOMAIN wal /\ (\A f \in DOMAIN wal : f # mt => wal'[f] = wal[f]) /\ UNCHANGED <<sst, tables, mt>>
    BY <1>2
  <2>2. wal'[mt] = M
    BY <1>2
  <2>. QED BY <1>1, <1>3, <2>1, <2>2, ActiveLogChanged
<1>6. ~ committing' /\ \A f : underWay(f)' = 0
  BY <1>2 DEF committing, underWay, Idle
<1>7. MemtablesMade'
  <2>1. ASSUME NEW f \in DOMAIN wal PROVE logMade(wal'[f], skl'[f], underWay(f)')
    <3>1. CASE f = mt
      BY <1>2, <1>3, <1>6, <3>1
    <3>2. CASE f # mt
      <4>1. wal'[f] = wal[f] /\ skl'[f] = skl[f] /\ underWay(f)' = 0
        BY <1>2, <1>6, <3>2
      <4>2. underWay(f) = 0
        BY <3>2 DEF underWay
      <4>3. logMade(wal[f], skl[f], underWay(f))
        BY <1>1 DEF MemtablesMade
      <4>. QED BY <4>1, <4>2, <4>3
    <3>. QED BY <3>1, <3>2
  <2>. QED BY <1>1, <1>2, <2>1 DEF MemtablesMade
<1>8. visible' = visible
  BY <1>2 DEF visible
<1>9. settled' = visible
  <2>1. visible' = settled' \cup pending'
    BY <1>7, VisibleSplitsNext DEF visibleSplit
  <2>. QED BY <1>5, <1>8, <2>1
<1>10. WriterMade'
  BY <1>2 DEF WriterMade
<1>11. VersionsMade'
  BY <1>1, <1>2, <1>8 DEF VersionsMade
<1>12. JobsMade'
  BY <1>1, <1>2, <1>5 DEF JobsMade
<1>13. ValuesMade'
  BY <1>1, <1>2 DEF ValuesMade
<1>14. safe' => Pointed' /\ KeptMade'
  <2>. SUFFICES ASSUME safe' PROVE Pointed' /\ KeptMade'
    OBVIOUS
  <2>1. Pointed /\ KeptMade /\ closed(entriesIn(visible))
    BY <1>2 DEF safe, DataUp
  <2>2. \A d : readableValue(d)' <=> readableValue(d)
    BY <1>2 DEF readableValue
  <2>3. mayBeLeft(M)' = {Len(M.recs)}
    BY <1>2, <1>3 DEF mayBeLeft
  <2>4. \A f \in DOMAIN wal : f # mt => mayBeLeft(wal[f])' = mayBeLeft(wal[f])
    BY <1>2 DEF mayBeLeft
  <2>5. s \subseteq visible
    BY <1>2, <1>4, VisibleIs
  <2>6. Pointed'
    <3>1. \A d \in visible : readableValue(d)
      BY <2>1 DEF Pointed
    <3>2. \A k \in mayBeLeft(M)' : \A d \in readTo(M, k) : readableValue(d)
      BY <1>3, <2>3, <2>5, <3>1
    <3>3. \A f \in DOMAIN wal : f # mt => \A k \in mayBeLeft(wal[f]) : \A d \in readTo(wal[f], k) : readableValue(d)
      BY <2>1 DEF Pointed
    <3>4. \A f \in DOMAIN wal' : \A k \in mayBeLeft(wal[f])' : \A d \in readTo(wal[f], k)' : readableValue(d)'
      BY <1>2, <2>2, <2>4, <3>2, <3>3
    <3>5. writer'.phase # "lsm"
      BY <1>2 DEF Idle
    <3>. QED BY <1>8, <2>2, <3>1, <3>4, <3>5 DEF Pointed
  <2>7. KeptMade'
    <3>1. \A e \in entriesIn(s) : staysIn(M, e)'
      BY <1>3, <2>3 DEF staysIn
    <3>2. \A e : staysIn(L, e) => e \in entriesIn(s)
      <4>1. logFacts(L, s, underWay(mt), UpdateSkipList(L.recs))
        BY <1>2, <1>4 DEF LogsRead
      <4>2. Len(L.recs) \in mayBeLeft(L) /\ readTo(L, Len(L.recs)) \subseteq s
        BY <4>1 DEF logFacts, mayBeLeft
      <4>. QED BY <4>2, EntriesMonotone DEF staysIn
    <3>3. \A e \in entriesIn(s) : isLeft(e)'
      <4>1. mt \in DOMAIN wal' /\ wal'[mt] = M
        BY <1>2, <1>4
      <4>. QED BY <3>1, <4>1 DEF isLeft, staysIn
    <3>4. ASSUME NEW e, isLeft(e) PROVE isLeft(e)'
      <4>1. CASE e \in entriesIn(inTables)
        BY <1>5, <4>1 DEF isLeft
      <4>2. ASSUME NEW f \in DOMAIN wal, staysIn(wal[f], e) PROVE isLeft(e)'
        <5>1. CASE f = mt
          BY <1>2, <3>2, <3>3, <4>2, <5>1
        <5>2. CASE f # mt
          <6>1. staysIn(wal[f], e)' /\ f \in DOMAIN wal'
            BY <1>2, <2>4, <4>2, <5>2 DEF staysIn
          <6>. QED BY <6>1 DEF isLeft
        <5>. QED BY <5>1, <5>2
      <4>. QED BY <3>4, <4>1, <4>2 DEF isLeft
    <3>5. \A e \in entriesIn(visible) : e \in entriesIn(settled) \/ e \in entriesIn(s)
      <4>1. entriesIn(visible) = entriesIn(settled) \cup entriesIn(pending)
        BY <1>4, EntriesOfUnion
      <4>2. entriesIn(pending) \subseteq entriesIn(s)
        BY <1>4, EntriesMonotone
      <4>. QED BY <4>1, <4>2
    <3>6. \A e \in entriesIn(visible) : isLeft(e)'
      BY <2>1, <3>3, <3>4, <3>5 DEF KeptMade
    <3>7. acked' \subseteq entriesIn(visible)
      <4>1. acked \subseteq entriesIn(settled) /\ entriesIn(settled) \subseteq entriesIn(visible)
        BY <1>4, <2>1, EntriesMonotone DEF KeptMade
      <4>. QED BY <1>2, <4>1
    <3>8. closed(entriesIn(visible))'
      BY <1>2, <1>8, <2>1 DEF closed
    <3>. QED BY <1>8, <1>9, <3>6, <3>7, <3>8 DEF KeptMade
  <2>. QED BY <2>6, <2>7
<1>15. nMoved' = 0 => WholeCommits'
  <2>. SUFFICES ASSUME nMoved = 0 PROVE WholeCommits'
    BY <1>2
  <2>1. WholeCommits /\ closed(entriesIn(s))
    BY DEF DataUp
  <2>2. \A S : closed(S)' <=> closed(S)
    BY <1>2 DEF closed
  <2>3. \A k \in afterLosing(M) : closed(entriesIn(readTo(M, k)))
    BY <1>2, <1>3, <1>4, <2>1 DEF WholeCommits
  <2>4. \A f \in DOMAIN wal : f # mt => \A k \in afterLosing(wal'[f]) : closed(entriesIn(readTo(wal'[f], k)))
    BY <1>2, <2>1 DEF WholeCommits
  <2>5. \A f \in DOMAIN wal' : \A k \in afterLosing(wal'[f]) : closed(entriesIn(readTo(wal'[f], k)))
    BY <1>2, <2>3, <2>4
  <2>6. closed(entriesIn(inTables'))
    BY <1>5, <2>1 DEF WholeCommits
  <2>. QED BY <2>2, <2>5, <2>6 DEF WholeCommits
<1>. QED BY <1>7, <1>10, <1>11, <1>12, <1>13, <1>14, <1>15 DEF DataUp

LEMMA MemPutFinKeepsData == DataUp /\ status = "up" /\ memPutFin => DataUp'
<1>. SUFFICES ASSUME DataUp, status = "up", memPutFin PROVE DataUp'
  OBVIOUS
<1>1. WriterMade /\ VersionsMade /\ MemtablesMade
  BY DEF DataUp
<1>2. PICK L, M, s : ending(L, M, s)
  BY <1>1, EndIs
<1>3. s = skl[mt] /\ L = wal[mt]
  BY <1>2 DEF ending
<1>4. LogsRead /\ mt \in DOMAIN wal /\ visible = settled \cup pending /\ s = logLeft(mt) \cup pending
  BY <1>1, <1>3, MemtablesRead
<1>5. CASE writer.txn
  <2>1. ended(L, M, s) /\ writer.entries = entriesIn(pending) /\ writer.entries = {e \in started : e.id = nCommit}
    BY <1>2, <1>5, CommitEnded
  <2>0. writer.entries = entriesIn(pending)
    BY <2>1
  <2>2. entriesIn(visible) = entriesIn(settled) \cup writer.entries
    <3>1. entriesIn(visible) = entriesIn(settled) \cup entriesIn(pending)
      BY <1>4, EntriesOfUnion
    <3>. QED BY <2>0, <3>1
  <2>3. \A S : closed(S) => closed(S \cup writer.entries)
    <3>1. \A e \in writer.entries : entriesOf(e.id, started) = writer.entries
      BY <2>1 DEF entriesOf
    <3>. QED BY <3>1 DEF closed
  <2>4. safe => closed(entriesIn(visible))
    BY <2>2, <2>3 DEF DataUp, KeptMade
  <2>5. nMoved = 0 => closed(entriesIn(s))
    <3>1. entriesIn(s) = entriesIn(logLeft(mt)) \cup writer.entries
      <4>1. entriesIn(s) = entriesIn(logLeft(mt)) \cup entriesIn(pending)
        BY <1>4, EntriesOfUnion
      <4>. QED BY <2>0, <4>1
    <3>2. Len(L.recs) \in afterLosing(L) /\ readTo(L, Len(L.recs)) = logLeft(mt)
      <4>1. logFacts(L, s, underWay(mt), UpdateSkipList(L.recs))
        BY <1>3, <1>4 DEF LogsRead
      <4>. QED BY <1>3, <4>1 DEF logFacts, logLeft
    <3>3. nMoved = 0 => closed(entriesIn(logLeft(mt)))
      BY <1>3, <1>4, <3>2 DEF DataUp, WholeCommits
    <3>. QED BY <2>3, <3>1, <3>3
  <2>. QED BY <1>2, <2>1, <2>2, <2>4, <2>5, RequestEnds
<1>6. CASE ~ writer.txn
  <2>1. ended(L, M, s) /\ writer.entries \subseteq entriesIn(settled) /\ nMoved # 0 /\ pending = {}
    BY <1>2, <1>6, MoveEnded
  <2>2. visible = settled
    BY <1>4, <2>1
  <2>3. safe => closed(entriesIn(visible))
    BY <2>2 DEF DataUp, KeptMade
  <2>. QED BY <1>2, <2>1, <2>2, <2>3, RequestEnds
<1>. QED BY <1>5, <1>6

-----------------------------------------------------------------------------
LEMMA NewMemTableKeepsData == DataUp /\ status = "up" /\ newMemTable => DataUp'
<1>. SUFFICES ASSUME DataUp, status = "up", newMemTable PROVE DataUp'
  OBVIOUS
<1>. PICK n, M : n = nextMem /\ M = [recs |-> <<>>, synced |-> 0]
  OBVIOUS
<1>1. WriterMade /\ VersionsMade /\ MemtablesMade /\ JobsMade /\ ValuesMade
  BY DEF DataUp
<1>2. /\ writer = Idle /\ n <= RMaxWal
      /\ imm' = Append(imm, mt) /\ mt' = n /\ nextMem' = n + 1
      /\ wal' = with(wal, n, M) /\ skl' = with(skl, n, {})
      /\ UNCHANGED <<sst, vlogf, vsynced, status, syncWrites, tables, nextTs, writer, flusher, compactor,
                     nCommit, nCrash, nMoved, started, acked, lossy>>
  BY DEF newMemTable, jobVars, histVars
<1>3. /\ imm \in Seq(ToSet(imm)) /\ \A i, j \in DOMAIN imm : imm[i] = imm[j] => i = j
      /\ mt \notin ToSet(imm) /\ DOMAIN skl = {mt} \cup ToSet(imm) /\ DOMAIN wal = DOMAIN skl
      /\ nCrash \in Nat /\ n \in 1 .. RMaxWal + 2 + nCrash /\ DOMAIN wal \subseteq 1 .. n - 1
      /\ \A f \in DOMAIN wal : logMade(wal[f], skl[f], underWay(f))
  BY <1>1 DEF MemtablesMade
<1>4. n \notin DOMAIN wal /\ n \in Nat /\ n + 1 \in 1 .. RMaxWal + 2 + nCrash /\ DOMAIN wal \cup {n} \subseteq 1 .. n
  <2>1. n \in Nat /\ RMaxWal \in Nat /\ nCrash \in Nat /\ n >= 1
    BY <1>3, RecoveryAssumption
  <2>2. n + 1 \in 1 .. RMaxWal + 2 + nCrash
    BY <1>2, <2>1
  <2>3. \A f \in 1 .. n - 1 : f # n /\ f \in 1 .. n
    BY <2>1
  <2>4. n \in 1 .. n
    BY <2>1
  <2>. QED BY <1>3, <2>1, <2>2, <2>3, <2>4
<1>5. /\ DOMAIN wal' = DOMAIN wal \cup {n} /\ wal'[n] = M /\ \A f \in DOMAIN wal : wal'[f] = wal[f]
      /\ DOMAIN skl' = DOMAIN skl \cup {n} /\ skl'[n] = {} /\ \A f \in DOMAIN skl : skl'[f] = skl[f]
  BY <1>2, <1>3, <1>4 DEF with
<1>6. /\ ~ committing /\ ~ committing' /\ (\A f : underWay(f) = 0 /\ underWay(f)' = 0)
      /\ mt \in DOMAIN wal /\ visible = settled
  <2>1. ~ committing /\ ~ committing' /\ \A f : underWay(f) = 0 /\ underWay(f)' = 0
    BY <1>2 DEF committing, underWay, Idle
  <2>. QED BY <1>1, <2>1, MemtablesRead
<1>7. logMade(M, {}, 0) /\ mayBeLeft(M)' = {0} /\ afterLosing(M) = {0} /\ readTo(M, 0) = {} /\ UpdateSkipList(M.recs).out = {}
  <2>1. logMade(M, {}, 0)
    BY EmptyLog
  <2>2. logFacts(M, {}, 0, UpdateSkipList(M.recs))
    BY <2>1, LogFacts
  <2>3. Len(M.recs) = 0 /\ M.synced = 0 /\ 0 .. 0 = {0}
    OBVIOUS
  <2>4. UpdateSkipList(M.recs).out = {} /\ readTo(M, 0) = UpdateSkipList(M.recs).out
    BY <2>2, <2>3 DEF logFacts
  <2>. QED BY <2>1, <2>3, <2>4 DEF mayBeLeft, afterLosing
<1>8. /\ inTables' = inTables /\ (\A f \in DOMAIN wal : logLeft(f)' = logLeft(f)) /\ logLeft(n)' = {}
  BY <1>2, <1>5, <1>7 DEF inTables, logLeft
<1>9. MemtablesMade'
  <2>1. /\ imm' \in Seq(ToSet(imm')) /\ ToSet(imm') = ToSet(imm) \cup {mt}
        /\ \A i, j \in DOMAIN imm' : imm'[i] = imm'[j] => i = j
    <3>1. PICK S, q, k : S = ToSet(imm) \cup {mt} /\ q = Append(imm, mt) /\ k = Len(imm)
      OBVIOUS
    <3>2. imm \in Seq(S) /\ mt \in S
      BY <1>3, <3>1
    <3>3. q \in Seq(S) /\ Len(q) = k + 1 /\ k \in Nat /\ DOMAIN q = 1 .. k + 1 /\ q[k + 1] = mt /\ DOMAIN imm = 1 .. k
          /\ \A i \in 1 .. k : q[i] = imm[i]
      BY <3>1, <3>2
    <3>4. \A i \in 1 .. k + 1 : i = k + 1 \/ i \in 1 .. k
      BY <3>3
    <3>5. \A i \in 1 .. k : imm[i] # mt /\ i # k + 1 /\ i \in 1 .. k + 1
      <4>1. \A i \in 1 .. k : imm[i] # mt
        BY <1>3, <3>3 DEF ToSet
      <4>2. \A i \in 1 .. k : i # k + 1 /\ i \in 1 .. k + 1
        BY <3>3
      <4>. QED BY <4>1, <4>2
    <3>6. \A i, j \in 1 .. k + 1 : q[i] = q[j] => i = j
      BY <1>3, <3>3, <3>4, <3>5
    <3>7. q \in Seq(ToSet(q))
      BY <3>3, TupleTyped
    <3>8. k + 1 \in 1 .. k + 1
      BY <3>3
    <3>9. ToSet(q) = S
      <4>1. \A x : x \in ToSet(q) <=> \E i \in 1 .. k + 1 : q[i] = x
        BY <3>3 DEF ToSet
      <4>2. \A x : x \in ToSet(imm) <=> \E i \in 1 .. k : imm[i] = x
        BY <3>3 DEF ToSet
      <4>. QED BY <3>1, <3>3, <3>4, <3>5, <3>8, <4>1, <4>2
    <3>. QED BY <1>2, <3>1, <3>3, <3>6, <3>7, <3>9
  <2>2. ASSUME NEW f \in DOMAIN wal' PROVE logMade(wal'[f], skl'[f], underWay(f)')
    <3>1. CASE f = n
      BY <1>5, <1>6, <1>7, <3>1
    <3>2. CASE f # n
      BY <1>3, <1>5, <1>6, <3>2
    <3>. QED BY <3>1, <3>2
  <2>3. nextMem' \in 1 .. RMaxWal + 2 + nCrash /\ DOMAIN wal' \subseteq 1 .. nextMem' - 1
    <3>1. nextMem' - 1 = n
      BY <1>2, <1>4
    <3>. QED BY <1>2, <1>4, <1>5, <3>1
  <2>4. mt' \notin ToSet(imm') /\ DOMAIN skl' = {mt'} \cup ToSet(imm') /\ DOMAIN wal' = DOMAIN skl'
    BY <1>2, <1>3, <1>4, <1>5, <2>1
  <2>. QED BY <1>2, <1>3, <2>1, <2>2, <2>3, <2>4 DEF MemtablesMade
<1>10. settled' = settled /\ visible' = visible
  <2>1. \A c : c \in settled' <=> c \in inTables' \/ \E f \in DOMAIN wal' : c \in logLeft(f)'
    BY DEF settled
  <2>2. \A c : c \in settled' <=> c \in settled
    BY <1>5, <1>8, <2>1, SettledIs
  <2>3. \A c : c \in visible' <=> c \in inTables' \/ \E f \in DOMAIN skl' : c \in skl'[f]
    BY DEF visible, inTables
  <2>4. \A c : c \in visible' <=> c \in visible
    BY <1>5, <1>8, <2>3, VisibleIs
  <2>. QED BY <2>2, <2>4
<1>11. WriterMade'
  BY <1>2 DEF WriterMade
<1>12. VersionsMade'
  BY <1>1, <1>2, <1>10 DEF VersionsMade
<1>13. JobsMade'
  <2>1. flusher.phase # "idle" => imm # <<>>
    BY <1>1 DEF JobsMade
  <2>2. imm' # <<>> /\ (imm # <<>> => Head(imm') = Head(imm) /\ Head(imm) \in DOMAIN skl)
    <3>1. imm # <<>> => Head(imm) \in DOMAIN skl
      BY <1>1, <1>3, HeadWaits
    <3>2. PICK S : S = ToSet(imm) \cup {mt}
      OBVIOUS
    <3>3. imm \in Seq(S) /\ mt \in S
      BY <1>3, <3>2
    <3>4. Append(imm, mt) # <<>> /\ (imm # <<>> => Head(Append(imm, mt)) = Head(imm))
      BY <3>3
    <3>. QED BY <1>2, <3>1, <3>4
  <2>3. imm # <<>> => skl'[Head(imm')] = skl[Head(imm)]
    BY <1>5, <2>2
  <2>4. flusher.phase \in {"built", "manifest"} \/ flusher.phase = "added" => flusher.phase # "idle"
    OBVIOUS
  <2>. QED BY <1>1, <1>2, <1>8, <2>1, <2>2, <2>3, <2>4 DEF JobsMade
<1>14. ValuesMade'
  BY <1>1, <1>2 DEF ValuesMade
<1>15. safe' => Pointed' /\ KeptMade'
  <2>. SUFFICES ASSUME safe' PROVE Pointed' /\ KeptMade'
    OBVIOUS
  <2>1. Pointed /\ KeptMade
    BY <1>2 DEF safe, DataUp
  <2>2. \A d : readableValue(d)' <=> readableValue(d)
    BY <1>2 DEF readableValue
  <2>3. \A f \in DOMAIN wal : mayBeLeft(wal[f])' = mayBeLeft(wal[f])
    BY <1>2, <1>5 DEF mayBeLeft
  <2>4. Pointed'
    <3>1. \A f \in DOMAIN wal : \A k \in mayBeLeft(wal[f]) : \A d \in readTo(wal[f], k) : readableValue(d)
      BY <2>1 DEF Pointed
    <3>2. \A f \in DOMAIN wal' : \A k \in mayBeLeft(wal[f])' : \A d \in readTo(wal[f], k)' : readableValue(d)'
      BY <1>5, <1>7, <2>2, <2>3, <3>1
    <3>. QED BY <1>2, <1>10, <2>1, <2>2, <3>2 DEF Pointed
  <2>5. KeptMade'
    <3>1. \A f \in DOMAIN wal : \A e : staysIn(wal[f], e) => staysIn(wal[f], e)'
      BY <1>5, <2>3 DEF staysIn
    <3>2. \A e : isLeft(e) => isLeft(e)'
      BY <1>5, <1>8, <3>1 DEF isLeft
    <3>. QED BY <1>2, <1>10, <2>1, <3>2 DEF KeptMade, closed
  <2>. QED BY <2>4, <2>5
<1>16. nMoved' = 0 => WholeCommits'
  <2>. SUFFICES ASSUME nMoved = 0 PROVE WholeCommits'
    BY <1>2
  <2>1. WholeCommits
    BY DEF DataUp
  <2>2. \A S : closed(S)' <=> closed(S)
    BY <1>2 DEF closed
  <2>3. closed({})
    BY DEF closed
  <2>4. \A f \in DOMAIN wal' : \A k \in afterLosing(wal'[f]) : closed(entriesIn(readTo(wal'[f], k)))
    BY <1>5, <1>7, <2>1, <2>3, NoEntries DEF WholeCommits
  <2>. QED BY <1>8, <2>1, <2>2, <2>4 DEF WholeCommits
<1>. QED BY <1>9, <1>11, <1>12, <1>13, <1>14, <1>15, <1>16 DEF DataUp

LEMMA SyncWALKeepsData == DataUp /\ status = "up" /\ SyncWAL => DataUp'
<1>. SUFFICES ASSUME DataUp, status = "up", SyncWAL PROVE DataUp'
  OBVIOUS
<1>. PICK L, s, M : L = wal[mt] /\ s = skl[mt] /\ M = [L EXCEPT !.synced = Len(L.recs)]
  OBVIOUS
<1>1. WriterMade /\ VersionsMade /\ MemtablesMade /\ JobsMade /\ ValuesMade
  BY DEF DataUp
<1>2. /\ LogsRead /\ mt \in DOMAIN wal /\ DOMAIN skl = DOMAIN wal
  BY <1>1, MemtablesRead
<1>3. /\ ~ syncWrites /\ wal' = [wal EXCEPT ![mt] = M]
      /\ UNCHANGED <<sst, vlogf, vsynced, status, syncWrites, mt, imm, skl, tables, nextTs, nextMem, writer, flusher,
                     compactor, nCommit, nCrash, nMoved, started, acked, lossy>>
  BY <1>2 DEF SyncWAL, memVars, histVars
<1>4. logMade(L, s, underWay(mt))
  BY <1>1, <1>2 DEF MemtablesMade
<1>5. syncedAs(L, M, s, underWay(mt)) /\ M.recs = L.recs
  <2>1. DOMAIN L = {"recs", "synced"}
    BY <1>4 DEF logMade
  <2>2. DOMAIN M = {"recs", "synced"} /\ M.recs = L.recs /\ M.synced = Len(L.recs)
    BY <2>1
  <2>. QED BY <1>4, <2>2, SyncedLog
<1>6. /\ DOMAIN wal' = DOMAIN wal /\ wal'[mt] = M /\ \A f \in DOMAIN wal : f # mt => wal'[f] = wal[f]
  BY <1>2, <1>3
<1>7. ASSUME NEW f \in DOMAIN wal
      PROVE  /\ wal'[f].recs = wal[f].recs /\ logMade(wal'[f], skl[f], underWay(f))
             /\ afterLosing(wal'[f]) \subseteq afterLosing(wal[f]) /\ \A k : readTo(wal'[f], k) = readTo(wal[f], k)
  <2>1. CASE f = mt
    BY <1>5, <1>6, <2>1 DEF syncedAs
  <2>2. CASE f # mt
    BY <1>1, <1>6, <2>2 DEF MemtablesMade
  <2>. QED BY <2>1, <2>2
<1>8. \A f : underWay(f)' = underWay(f)
  BY <1>3 DEF underWay, committing
<1>9. /\ inTables' = inTables /\ (\A f \in DOMAIN wal : logLeft(f)' = logLeft(f)) /\ pending' = pending /\ visible' = visible
  <2>1. inTables' = inTables /\ visible' = visible
    BY <1>3 DEF inTables, visible
  <2>2. \A f \in DOMAIN wal : logLeft(f)' = logLeft(f)
    BY <1>7 DEF logLeft
  <2>3. pending' = pending
    BY <1>2, <1>3, <1>7 DEF pending
  <2>. QED BY <2>1, <2>2, <2>3
<1>10. settled' = settled
  <2>1. \A c : c \in settled' <=> c \in inTables' \/ \E f \in DOMAIN wal' : c \in logLeft(f)'
    BY DEF settled
  <2>2. \A c : c \in settled' <=> c \in settled
    BY <1>6, <1>9, <2>1, SettledIs
  <2>. QED BY <2>2
<1>11. MemtablesMade'
  <2>1. \A f \in DOMAIN wal' : logMade(wal'[f], skl'[f], underWay(f)')
    BY <1>3, <1>6, <1>7, <1>8
  <2>. QED BY <1>1, <1>3, <1>6, <2>1 DEF MemtablesMade
<1>12. WriterMade' /\ VersionsMade' /\ JobsMade' /\ ValuesMade'
  <2>1. CommitMade => CommitMade'
    BY <1>3, <1>9, <1>10 DEF CommitMade
  <2>2. WriterMade'
    BY <1>1, <1>3, <1>10, <2>1 DEF WriterMade
  <2>3. VersionsMade' /\ JobsMade' /\ ValuesMade'
    BY <1>1, <1>3, <1>9 DEF VersionsMade, JobsMade, ValuesMade
  <2>. QED BY <2>2, <2>3
<1>13. safe' => Pointed' /\ KeptMade'
  <2>. SUFFICES ASSUME safe' PROVE Pointed' /\ KeptMade'
    OBVIOUS
  <2>1. Pointed /\ KeptMade
    BY <1>3 DEF safe, DataUp
  <2>2. \A d : readableValue(d)' <=> readableValue(d)
    BY <1>3 DEF readableValue
  <2>3. \A f \in DOMAIN wal : mayBeLeft(wal[f])' = mayBeLeft(wal[f])
    BY <1>3, <1>7 DEF mayBeLeft
  <2>4. Pointed'
    <3>1. \A f \in DOMAIN wal : \A k \in mayBeLeft(wal[f]) : \A d \in readTo(wal[f], k) : readableValue(d)
      BY <2>1 DEF Pointed
    <3>2. \A f \in DOMAIN wal' : \A k \in mayBeLeft(wal[f])' : \A d \in readTo(wal[f], k)' : readableValue(d)'
      BY <1>6, <1>7, <2>2, <2>3, <3>1
    <3>. QED BY <1>3, <1>9, <2>1, <2>2, <3>2 DEF Pointed
  <2>5. KeptMade'
    <3>1. \A f \in DOMAIN wal : \A e : staysIn(wal[f], e) => staysIn(wal[f], e)'
      BY <1>7, <2>3 DEF staysIn
    <3>2. \A e : isLeft(e) => isLeft(e)'
      BY <1>6, <1>9, <3>1 DEF isLeft
    <3>. QED BY <1>3, <1>10, <2>1, <3>2 DEF KeptMade, closed
  <2>. QED BY <2>4, <2>5
<1>14. nMoved' = 0 => WholeCommits'
  <2>. SUFFICES ASSUME nMoved = 0 PROVE WholeCommits'
    BY <1>3
  <2>1. WholeCommits
    BY DEF DataUp
  <2>2. \A S : closed(S)' <=> closed(S)
    BY <1>3 DEF closed
  <2>3. \A f \in DOMAIN wal' : \A k \in afterLosing(wal'[f]) : closed(entriesIn(readTo(wal'[f], k)))
    BY <1>6, <1>7, <2>1 DEF WholeCommits
  <2>. QED BY <1>9, <2>1, <2>2, <2>3 DEF WholeCommits
<1>. QED BY <1>11, <1>12, <1>13, <1>14 DEF DataUp

LEMMA VlogSyncKeepsData == DataUp /\ status = "up" /\ vlogSync => DataUp'
<1>. SUFFICES ASSUME DataUp, status = "up", vlogSync PROVE DataUp'
  OBVIOUS
<1>1. /\ vsynced' = [vsynced EXCEPT !["cold"] = Len(Last(vlogf["cold"]))]
      /\ UNCHANGED <<wal, sst, vlogf, status, syncWrites, mt, imm, skl, tables, nextTs, nextMem, writer, flusher,
                     compactor, nCommit, nCrash, nMoved, started, acked, lossy>>
  BY DEF vlogSync, memVars
<1>2. WriterMade /\ VersionsMade /\ MemtablesMade /\ JobsMade /\ ValuesMade
  BY DEF DataUp
<1>3. /\ visible' = visible /\ settled' = settled /\ inTables' = inTables /\ pending' = pending
      /\ \A f : logLeft(f)' = logLeft(f)
  BY <1>1, BeginKeeps
<1>4. WriterMade'
  BY <1>1, <1>2, <1>3 DEF WriterMade, CommitMade
<1>5. VersionsMade' /\ JobsMade'
  BY <1>1, <1>2, <1>3 DEF VersionsMade, JobsMade
<1>6. MemtablesMade'
  BY <1>1, <1>2 DEF MemtablesMade, underWay, committing
<1>7. ValuesMade'
  <2>1. vsynced' \in [Tracks -> Nat]
    <3>1. Len(Last(vlogf["cold"])) \in Nat
      BY <1>2, ValuesAre, LastSized DEF Tracks
    <3>. QED BY <1>1, <1>2, <3>1 DEF ValuesMade
  <2>2. \A t \in Tracks : vsynced'[t] = (IF t = "cold" THEN Len(Last(vlogf["cold"])) ELSE vsynced[t])
    BY <1>1, <1>2 DEF ValuesMade
  <2>. QED BY <1>1, <1>2, <2>1, <2>2 DEF ValuesMade
<1>8. safe' = safe /\ (Pointed => Pointed') /\ (KeptMade => KeptMade') /\ (WholeCommits => WholeCommits')
  <2>1. \A d : readableValue(d)' <=> readableValue(d)
    BY <1>1 DEF readableValue
  <2>2. Pointed => Pointed'
    BY <1>1, <1>3, <2>1 DEF Pointed, mayBeLeft
  <2>3. KeptMade => KeptMade'
    BY <1>1, <1>3 DEF KeptMade, closed, isLeft, staysIn, mayBeLeft
  <2>. QED BY <1>1, <1>3, <2>2, <2>3 DEF safe, WholeCommits, closed
<1>. QED BY <1>1, <1>4, <1>5, <1>6, <1>7, <1>8 DEF DataUp

LEMMA WritesKeepData == DataUp /\ status = "up" /\ writeStep => DataUp'
BY CommitBegun, MoveBegun, MemPutKeepsData, MemPutFinKeepsData, NewMemTableKeepsData, SyncWALKeepsData,
   VlogSyncKeepsData DEF writeStep

-----------------------------------------------------------------------------
(* A step of the flusher or the compactor: tables are added with what a    *)
(* memtable or other tables have, and a log goes when they have all of it. *)
dataVars == <<vlogf, vsynced, status, syncWrites, mt, nextTs, nextMem, writer, nCommit, nCrash, nMoved, started, acked, lossy>>

tablesStep ==
  /\ UNCHANGED dataVars
  /\ DOMAIN wal' \subseteq DOMAIN wal /\ mt \in DOMAIN wal' /\ \A f \in DOMAIN wal' : wal'[f] = wal[f]
  /\ \A f \in DOMAIN wal \ DOMAIN wal' : logLeft(f) \subseteq inTables'
  /\ inTables \subseteq inTables' /\ inTables' \subseteq settled
  /\ nMoved = 0 => closed(entriesIn(inTables'))

LEMMA TablesStep ==
  ASSUME DataUp, status = "up", tablesStep, MemtablesMade', JobsMade'
  PROVE  DataUp'
<1>1. WriterMade /\ VersionsMade /\ MemtablesMade /\ ValuesMade
  BY DEF DataUp
<1>2. /\ UNCHANGED <<vlogf, vsynced, status, syncWrites, mt, nextTs, nextMem, writer, nCommit, nCrash, nMoved, started, acked, lossy>>
      /\ DOMAIN wal' \subseteq DOMAIN wal /\ mt \in DOMAIN wal' /\ \A f \in DOMAIN wal' : wal'[f] = wal[f]
      /\ \A f \in DOMAIN wal \ DOMAIN wal' : logLeft(f) \subseteq inTables'
      /\ inTables \subseteq inTables' /\ inTables' \subseteq settled
      /\ nMoved = 0 => closed(entriesIn(inTables'))
  BY DEF tablesStep, dataVars
<1>3. LogsRead /\ mt \in DOMAIN wal /\ visible = settled \cup pending
  BY <1>1, MemtablesRead
<1>4. (\A f \in DOMAIN wal' : logLeft(f)' = logLeft(f)) /\ pending' = pending
  BY <1>2 DEF logLeft, pending
<1>5. settled' = settled
  <2>1. \A c : c \in settled' <=> c \in inTables' \/ \E f \in DOMAIN wal' : c \in logLeft(f)'
    BY DEF settled
  <2>2. \A c : c \in settled' => c \in settled
    BY <1>2, <1>4, <2>1, SettledIs
  <2>3. ASSUME NEW c \in settled PROVE c \in settled'
    <3>1. CASE c \in inTables
      BY <1>2, <2>1, <3>1
    <3>2. ASSUME NEW f \in DOMAIN wal, c \in logLeft(f) PROVE c \in settled'
      <4>1. CASE f \in DOMAIN wal'
        BY <1>4, <2>1, <3>2, <4>1
      <4>2. CASE f \notin DOMAIN wal'
        BY <1>2, <2>1, <3>2, <4>2
      <4>. QED BY <4>1, <4>2
    <3>. QED BY <2>3, <3>1, <3>2, SettledIs
  <2>. QED BY <2>2, <2>3
<1>6. visible' = visible
  <2>1. visible' = settled' \cup pending'
    BY VisibleSplitsNext DEF visibleSplit
  <2>. QED BY <1>3, <1>4, <1>5, <2>1
<1>7. WriterMade' /\ VersionsMade' /\ ValuesMade'
  <2>1. CommitMade => CommitMade'
    BY <1>2, <1>4, <1>5 DEF CommitMade
  <2>2. WriterMade'
    BY <1>1, <1>2, <1>5, <2>1 DEF WriterMade
  <2>3. VersionsMade'
    BY <1>1, <1>2, <1>6 DEF VersionsMade
  <2>4. ValuesMade'
    BY <1>1, <1>2 DEF ValuesMade
  <2>. QED BY <2>2, <2>3, <2>4
<1>8. safe' => Pointed' /\ KeptMade'
  <2>. SUFFICES ASSUME safe' PROVE Pointed' /\ KeptMade'
    OBVIOUS
  <2>1. Pointed /\ KeptMade
    BY <1>2 DEF safe, DataUp
  <2>2. \A d : readableValue(d)' <=> readableValue(d)
    BY <1>2 DEF readableValue
  <2>3. \A f \in DOMAIN wal' : mayBeLeft(wal[f])' = mayBeLeft(wal[f])
    BY <1>2 DEF mayBeLeft
  <2>4. Pointed'
    <3>1. \A f \in DOMAIN wal : \A k \in mayBeLeft(wal[f]) : \A d \in readTo(wal[f], k) : readableValue(d)
      BY <2>1 DEF Pointed
    <3>2. \A f \in DOMAIN wal' : \A k \in mayBeLeft(wal[f])' : \A d \in readTo(wal[f], k)' : readableValue(d)'
      BY <1>2, <2>2, <2>3, <3>1
    <3>. QED BY <1>2, <1>6, <2>1, <2>2, <3>2 DEF Pointed
  <2>5. KeptMade'
    <3>1. ASSUME NEW e, isLeft(e) PROVE isLeft(e)'
      <4>1. entriesIn(inTables) \subseteq entriesIn(inTables')
        BY <1>2, EntriesMonotone
      <4>2. CASE e \in entriesIn(inTables)
        BY <4>1, <4>2 DEF isLeft
      <4>3. ASSUME NEW f \in DOMAIN wal, staysIn(wal[f], e) PROVE isLeft(e)'
        <5>1. CASE f \in DOMAIN wal'
          <6>1. staysIn(wal[f], e)'
            BY <1>2, <2>3, <4>3, <5>1 DEF staysIn
          <6>. QED BY <5>1, <6>1 DEF isLeft
        <5>2. CASE f \notin DOMAIN wal'
          <6>1. logFacts(wal[f], skl[f], underWay(f), UpdateSkipList(wal[f].recs))
            BY <1>3 DEF LogsRead
          <6>2. Len(wal[f].recs) \in mayBeLeft(wal[f]) /\ readTo(wal[f], Len(wal[f].recs)) = logLeft(f)
            BY <6>1 DEF logFacts, mayBeLeft, logLeft
          <6>3. e \in entriesIn(logLeft(f))
            BY <4>3, <6>2 DEF staysIn
          <6>4. logLeft(f) \subseteq inTables'
            BY <1>2, <5>2
          <6>5. e \in entriesIn(inTables')
            BY <6>3, <6>4, EntriesMonotone
          <6>. QED BY <6>5 DEF isLeft
        <5>. QED BY <5>1, <5>2
      <4>. QED BY <3>1, <4>2, <4>3 DEF isLeft
    <3>. QED BY <1>2, <1>5, <2>1, <3>1 DEF KeptMade, closed
  <2>. QED BY <2>4, <2>5
<1>9. nMoved' = 0 => WholeCommits'
  <2>. SUFFICES ASSUME nMoved = 0 PROVE WholeCommits'
    BY <1>2
  <2>1. WholeCommits
    BY DEF DataUp
  <2>2. \A S : closed(S)' <=> closed(S)
    BY <1>2 DEF closed
  <2>3. \A f \in DOMAIN wal' : \A k \in afterLosing(wal'[f]) : closed(entriesIn(readTo(wal'[f], k)))
    BY <1>2, <2>1 DEF WholeCommits
  <2>. QED BY <1>2, <2>2, <2>3 DEF WholeCommits
<1>. QED BY <1>7, <1>8, <1>9 DEF DataUp

workStep == tablesStep /\ MemtablesMade' /\ JobsMade'

(* A step that leaves the memtables alone, and adds what a log has, or      *)
(* nothing, to the tables.                                                 *)
LEMMA TablesKept ==
  ASSUME DataUp, status = "up", UNCHANGED dataVars, UNCHANGED <<wal, skl, imm>>, JobsMade', inTables' = inTables
  PROVE  workStep
<1>1. WriterMade /\ MemtablesMade
  BY DEF DataUp
<1>2. MemtablesMade'
  BY <1>1 DEF MemtablesMade, underWay, committing, dataVars
<1>3. nMoved = 0 => closed(entriesIn(inTables'))
  BY DEF DataUp, WholeCommits
<1>4. inTables \subseteq settled
  BY SettledIs
<1>5. mt \in DOMAIN wal
  BY <1>1 DEF MemtablesMade
<1>6. tablesStep
  BY <1>3, <1>4, <1>5 DEF tablesStep
<1>. QED BY <1>2, <1>6 DEF workStep

(* What is not built by a flush or a compaction stays as it is.            *)
LEMMA InTables == \A c : c \in inTables <=> \E i \in DOMAIN tables : c \in sst[i]
BY DEF inTables

LEMMA FlushManifestKeepsTables == DataUp /\ ManifestInv /\ status = "up" /\ flushManifest => workStep
<1>. SUFFICES ASSUME DataUp, ManifestInv, status = "up", flushManifest PROVE workStep
  OBVIOUS
<1>1. /\ flusher.phase = "built" /\ flusher' = [flusher EXCEPT !.phase = "manifest"]
      /\ UNCHANGED <<wal, skl, imm, sst, tables, compactor>> /\ UNCHANGED dataVars
  BY DEF flushManifest, diskVars, histVars, dataVars
<1>2. DOMAIN flusher = {"phase", "cs"}
  BY <1>1 DEF ManifestInv, JobsInv, FlusherMade, Idle
<1>3. flusher'.phase = "manifest" /\ flusher'.cs = flusher.cs
  BY <1>1, <1>2
<1>4. inTables' = inTables
  BY <1>1 DEF inTables
<1>5. JobsMade'
  BY <1>1, <1>3, <1>4 DEF JobsMade, DataUp
<1>. QED BY <1>1, <1>4, <1>5, TablesKept

LEMMA CompactManifestKeepsTables == DataUp /\ ManifestInv /\ status = "up" /\ compactManifest => workStep
<1>. SUFFICES ASSUME DataUp, ManifestInv, status = "up", compactManifest PROVE workStep
  OBVIOUS
<1>1. /\ compactor.phase = "built" /\ compactor' = [compactor EXCEPT !.phase = "manifest"]
      /\ UNCHANGED <<wal, skl, imm, sst, tables, flusher>> /\ UNCHANGED dataVars
  BY DEF compactManifest, diskVars, histVars, dataVars
<1>2. DOMAIN compactor = {"phase", "top", "id", "cs"}
  BY <1>1 DEF ManifestInv, JobsInv, CompactorMade, Idle
<1>3. compactor'.phase = "manifest" /\ compactor'.id = compactor.id /\ compactor'.top = compactor.top
  BY <1>1, <1>2
<1>4. inTables' = inTables
  BY <1>1 DEF inTables
<1>5. JobsMade'
  BY <1>1, <1>3, <1>4 DEF JobsMade, DataUp
<1>. QED BY <1>1, <1>4, <1>5, TablesKept

(* What a compaction in progress rests on, when the tables it reads and    *)
(* the one it made are left alone.                                         *)
LEMMA CompactorKept ==
  ASSUME JobsMade, ManifestInv, status = "up", compactor' = compactor,
         \A i \in DOMAIN sst : i \in DOMAIN tables \/ i = compactor.id => sst'[i] = sst[i]
  PROVE  compactor'.phase \in {"built", "manifest"} => sst'[compactor'.id] = UNION {sst'[i] : i \in compactor'.top}
<1>. SUFFICES ASSUME compactor.phase \in {"built", "manifest"} PROVE sst'[compactor.id] = UNION {sst'[i] : i \in compactor.top}
  OBVIOUS
<1>1. compactor.top \subseteq DOMAIN tables /\ compactor.id \in DOMAIN sst /\ DOMAIN tables \subseteq DOMAIN sst
  BY DEF ManifestInv, JobsInv, CompactorMade, ManifestUp, Idle
<1>2. sst[compactor.id] = UNION {sst[i] : i \in compactor.top}
  BY DEF JobsMade
<1>3. \A i \in compactor.top : sst'[i] = sst[i]
  BY <1>1
<1>4. UNION {sst'[i] : i \in compactor.top} = UNION {sst[i] : i \in compactor.top}
  BY <1>3
<1>. QED BY <1>1, <1>2, <1>4

LEMMA FlusherKept ==
  ASSUME JobsMade, ManifestInv, status = "up", flusher' = flusher, UNCHANGED <<skl, imm>>, inTables' = inTables,
         \A i \in DOMAIN sst : flusher.phase \in {"built", "manifest"} /\ i \in madeIn(flusher.cs) => sst'[i] = sst[i]
  PROVE  /\ flusher'.phase # "idle" => imm' # <<>>
         /\ flusher'.phase \in {"built", "manifest"} => UNION {sst'[i] : i \in madeIn(flusher'.cs)} = skl'[Head(imm')]
         /\ flusher'.phase = "added" => skl'[Head(imm')] \subseteq inTables'
<1>1. ASSUME flusher.phase \in {"built", "manifest"} PROVE UNION {sst'[i] : i \in madeIn(flusher.cs)} = skl[Head(imm)]
  <2>1. madeIn(flusher.cs) \subseteq DOMAIN sst
    BY <1>1 DEF ManifestInv, JobsInv, FlusherMade, Idle
  <2>2. UNION {sst[i] : i \in madeIn(flusher.cs)} = skl[Head(imm)]
    BY <1>1 DEF JobsMade
  <2>3. \A i \in madeIn(flusher.cs) : sst'[i] = sst[i]
    BY <1>1, <2>1
  <2>4. UNION {sst'[i] : i \in madeIn(flusher.cs)} = UNION {sst[i] : i \in madeIn(flusher.cs)}
    BY <2>3
  <2>. QED BY <2>2, <2>4
<1>. QED BY <1>1 DEF JobsMade

LEMMA FlushAddKeepsTables == DataUp /\ ManifestInv /\ status = "up" /\ flushAdd => workStep
<1>. SUFFICES ASSUME DataUp, ManifestInv, status = "up", flushAdd PROVE workStep
  OBVIOUS
<1>1. MemtablesMade /\ JobsMade
  BY DEF DataUp
<1>2. /\ flusher.phase = "manifest" /\ flusher' = [phase |-> "added"]
      /\ DOMAIN tables' = DOMAIN tables \cup {c.id : c \in flusher.cs}
      /\ UNCHANGED <<wal, skl, imm, sst, compactor>> /\ UNCHANGED dataVars
  BY DEF flushAdd, histVars, dataVars
<1>3. PICK N, h : N = madeIn(flusher.cs) /\ h = Head(imm)
  OBVIOUS
<1>4. DOMAIN tables' = DOMAIN tables \cup N
  <2>1. created(flusher.cs) = flusher.cs
    BY <1>2 DEF ManifestInv, JobsInv, FlusherMade, Idle
  <2>. QED BY <1>2, <1>3, <2>1, OnlyCreates
<1>5. imm # <<>> /\ UNION {sst[i] : i \in N} = skl[h]
  BY <1>1, <1>2, <1>3 DEF JobsMade
<1>6. h \in DOMAIN wal /\ skl[h] = logLeft(h)
  BY <1>1, <1>3, <1>5, HeadWaits
<1>7. inTables' = inTables \cup skl[h]
  <2>1. \A c : c \in inTables' <=> \E i \in DOMAIN tables' : c \in sst'[i]
    BY DEF inTables
  <2>2. \A c : c \in skl[h] <=> \E i \in N : c \in sst[i]
    BY <1>5
  <2>3. \A c : c \in inTables' <=> c \in inTables \/ c \in skl[h]
    BY <1>2, <1>4, <2>1, <2>2, InTables
  <2>. QED BY <2>3
<1>8. inTables' \subseteq settled
  BY <1>6, <1>7, SettledIs
<1>9. nMoved = 0 => closed(entriesIn(inTables'))
  <2>. SUFFICES ASSUME nMoved = 0 PROVE closed(entriesIn(inTables'))
    OBVIOUS
  <2>1. WholeCommits
    BY DEF DataUp
  <2>2. Len(wal[h].recs) \in afterLosing(wal[h]) /\ readTo(wal[h], Len(wal[h].recs)) = logLeft(h)
    <3>1. logFacts(wal[h], skl[h], underWay(h), UpdateSkipList(wal[h].recs))
      BY <1>1, <1>6, MemtablesRead DEF LogsRead
    <3>. QED BY <3>1 DEF logFacts, logLeft
  <2>3. closed(entriesIn(logLeft(h))) /\ closed(entriesIn(inTables))
    BY <1>6, <2>1, <2>2 DEF WholeCommits
  <2>4. entriesIn(inTables') = entriesIn(inTables) \cup entriesIn(logLeft(h))
    BY <1>6, <1>7, EntriesOfUnion
  <2>. QED BY <2>3, <2>4 DEF closed
<1>10. MemtablesMade'
  BY <1>1, <1>2 DEF MemtablesMade, underWay, committing, dataVars
<1>11. JobsMade'
  <2>1. compactor'.phase \in {"built", "manifest"} => sst'[compactor'.id] = UNION {sst'[i] : i \in compactor'.top}
    BY <1>1, <1>2, CompactorKept
  <2>2. flusher'.phase = "added"
    BY <1>2
  <2>3. imm' # <<>> /\ skl'[Head(imm')] \subseteq inTables'
    BY <1>2, <1>3, <1>5, <1>7
  <2>. QED BY <2>1, <2>2, <2>3 DEF JobsMade
<1>12. tablesStep
  <2>1. mt \in DOMAIN wal
    BY <1>1 DEF MemtablesMade
  <2>. QED BY <1>2, <1>7, <1>8, <1>9, <2>1 DEF tablesStep
<1>. QED BY <1>10, <1>11, <1>12 DEF workStep

LEMMA FlushErrorKeepsTables == DataUp /\ ManifestInv /\ status = "up" /\ flushError => workStep
<1>. SUFFICES ASSUME DataUp, ManifestInv, status = "up", flushError PROVE workStep
  OBVIOUS
<1>1. MemtablesMade /\ JobsMade
  BY DEF DataUp
<1>2. /\ flusher.phase = "manifest" /\ flusher' = Idle
      /\ sst' = without(sst, {c.id : c \in flusher.cs})
      /\ UNCHANGED <<wal, skl, imm, tables, compactor>> /\ UNCHANGED dataVars
  BY DEF flushError, dataVars
<1>3. PICK N : N = madeIn(flusher.cs)
  OBVIOUS
<1>4. /\ sst' = without(sst, N) /\ N \subseteq DOMAIN sst \ DOMAIN tables /\ DOMAIN tables \subseteq DOMAIN sst
      /\ compactor.phase \in {"built", "manifest"} => compactor.id \notin N
  <2>1. created(flusher.cs) = flusher.cs /\ N \subseteq DOMAIN sst \ DOMAIN tables
    BY <1>2, <1>3 DEF ManifestInv, JobsInv, FlusherMade, Idle
  <2>2. DOMAIN tables \subseteq DOMAIN sst /\ (compactor.phase \in {"built", "manifest"} => compactor.id \notin N)
    BY <1>2, <1>3 DEF ManifestInv, JobsInv, JobsApart, ManifestUp
  <2>. QED BY <1>2, <1>3, <2>1, <2>2, OnlyCreates
<1>5. \A i \in DOMAIN sst : i \notin N => sst'[i] = sst[i]
  BY <1>4 DEF without
<1>6. inTables' = inTables
  <2>1. \A i \in DOMAIN tables : sst'[i] = sst[i]
    BY <1>4, <1>5
  <2>2. \A c : c \in inTables' <=> \E i \in DOMAIN tables' : c \in sst'[i]
    BY DEF inTables
  <2>3. \A c : c \in inTables' <=> c \in inTables
    BY <1>2, <2>1, <2>2, InTables
  <2>. QED BY <2>3
<1>7. JobsMade'
  <2>1. compactor'.phase \in {"built", "manifest"} => sst'[compactor'.id] = UNION {sst'[i] : i \in compactor'.top}
    <3>1. CASE compactor.phase \in {"built", "manifest"}
      <4>1. \A i \in DOMAIN sst : i \in DOMAIN tables \/ i = compactor.id => sst'[i] = sst[i]
        BY <1>4, <1>5, <3>1
      <4>. QED BY <1>1, <1>2, <4>1, CompactorKept
    <3>. QED BY <1>2, <3>1
  <2>2. flusher'.phase = "idle"
    BY <1>2 DEF Idle
  <2>. QED BY <2>1, <2>2 DEF JobsMade
<1>. QED BY <1>2, <1>6, <1>7, TablesKept

LEMMA FlushDoneKeepsTables == DataUp /\ ManifestInv /\ status = "up" /\ flushDone => workStep
<1>. SUFFICES ASSUME DataUp, ManifestInv, status = "up", flushDone PROVE workStep
  OBVIOUS
<1>1. MemtablesMade /\ JobsMade
  BY DEF DataUp
<1>2. PICK h : h = Head(imm)
  OBVIOUS
<1>3. /\ flusher.phase = "added" /\ flusher' = Idle
      /\ wal' = without(wal, {h}) /\ skl' = without(skl, {h}) /\ imm' = Tail(imm)
      /\ UNCHANGED <<sst, tables, compactor>> /\ UNCHANGED dataVars
  BY <1>2 DEF flushDone, histVars, dataVars
<1>4. imm # <<>> /\ skl[h] \subseteq inTables
  BY <1>1, <1>2, <1>3 DEF JobsMade
<1>5. h \in ToSet(imm) /\ h \in DOMAIN wal /\ h # mt /\ skl[h] = logLeft(h)
  BY <1>1, <1>2, <1>4, HeadWaits
<1>6. inTables' = inTables
  BY <1>3 DEF inTables
<1>7. DOMAIN wal' = DOMAIN wal \ {h} /\ (\A f \in DOMAIN wal' : wal'[f] = wal[f]) /\ DOMAIN skl' = DOMAIN skl \ {h}
      /\ \A f \in DOMAIN skl' : skl'[f] = skl[f]
  BY <1>3 DEF without
<1>8. /\ imm \in Seq(ToSet(imm)) /\ \A i, j \in DOMAIN imm : imm[i] = imm[j] => i = j
      /\ mt \notin ToSet(imm) /\ DOMAIN skl = {mt} \cup ToSet(imm) /\ DOMAIN wal = DOMAIN skl
      /\ nCrash \in Nat /\ nextMem \in 1 .. RMaxWal + 2 + nCrash /\ DOMAIN wal \subseteq 1 .. nextMem - 1
      /\ \A f \in DOMAIN wal : logMade(wal[f], skl[f], underWay(f))
  BY <1>1 DEF MemtablesMade
<1>9. MemtablesMade'
  <2>1. /\ ToSet(imm) = {h} \cup ToSet(imm') /\ imm' \in Seq(ToSet(imm'))
        /\ \A i \in DOMAIN imm' : i + 1 \in DOMAIN imm /\ imm'[i] = imm[i + 1] /\ i + 1 # 1
        /\ 1 \in DOMAIN imm /\ h = imm[1]
    BY <1>2, <1>3, <1>4, <1>8, TodoSplit
  <2>2. \A i, j \in DOMAIN imm' : imm'[i] = imm'[j] => i = j
    <3>. SUFFICES ASSUME NEW i \in DOMAIN imm', NEW j \in DOMAIN imm', imm'[i] = imm'[j] PROVE i = j
      OBVIOUS
    <3>1. i + 1 = j + 1
      BY <1>8, <2>1
    <3>2. i \in Nat /\ j \in Nat
      BY <2>1
    <3>. QED BY <3>1, <3>2
  <2>3. h \notin ToSet(imm')
    <3>1. \A i \in DOMAIN imm' : imm'[i] # h
      BY <1>8, <2>1
    <3>. QED BY <3>1 DEF ToSet
  <2>4. \A f : underWay(f)' = underWay(f)
    BY <1>3 DEF underWay, committing, dataVars
  <2>5. \A f \in DOMAIN wal' : logMade(wal'[f], skl'[f], underWay(f)')
    BY <1>7, <1>8, <2>4
  <2>6. mt' \notin ToSet(imm') /\ DOMAIN skl' = {mt'} \cup ToSet(imm') /\ DOMAIN wal' = DOMAIN skl'
    BY <1>3, <1>5, <1>7, <1>8, <2>1, <2>3 DEF dataVars
  <2>7. UNCHANGED <<nCrash, nextMem>>
    BY <1>3 DEF dataVars
  <2>. QED BY <1>7, <1>8, <2>1, <2>2, <2>5, <2>6, <2>7 DEF MemtablesMade
<1>10. JobsMade'
  <2>1. compactor'.phase \in {"built", "manifest"} => sst'[compactor'.id] = UNION {sst'[i] : i \in compactor'.top}
    BY <1>1, <1>3, CompactorKept
  <2>2. flusher'.phase = "idle"
    BY <1>3 DEF Idle
  <2>. QED BY <2>1, <2>2 DEF JobsMade
<1>11. tablesStep
  <2>1. \A f \in DOMAIN wal \ DOMAIN wal' : logLeft(f) \subseteq inTables'
    BY <1>4, <1>5, <1>6, <1>7
  <2>2. mt \in DOMAIN wal'
    BY <1>5, <1>7, <1>8
  <2>3. inTables' \subseteq settled
    BY <1>6, SettledIs
  <2>4. nMoved = 0 => closed(entriesIn(inTables'))
    BY <1>6 DEF DataUp, WholeCommits
  <2>. QED BY <1>3, <1>6, <1>7, <2>1, <2>2, <2>3, <2>4 DEF tablesStep
<1>. QED BY <1>9, <1>10, <1>11 DEF workStep

LEMMA FlushBuildKeepsTables == DataUp /\ ManifestInv /\ status = "up" /\ flushBuild => workStep
<1>. SUFFICES ASSUME DataUp, ManifestInv, status = "up", flushBuild PROVE workStep
  OBVIOUS
<1>1. JobsMade /\ ManifestUp
  BY DEF DataUp, ManifestInv
<1>2. imm # <<>> /\ UNCHANGED <<wal, skl, imm, tables, compactor>> /\ UNCHANGED dataVars
  BY DEF flushBuild, histVars, dataVars
<1>3. PICK N, C : builtAs(N, C)
  BY <1>1, TablesBuilt
<1>4. /\ \A i \in DOMAIN sst : sst'[i] = sst[i]
      /\ UNION {sst'[i] : i \in N} = skl[Head(imm)]
      /\ flusher' = [phase |-> "built", cs |-> C] /\ madeIn(C) = N
  BY <1>3 DEF builtAs
<1>5. inTables' = inTables
  <2>1. \A i \in DOMAIN tables : sst'[i] = sst[i]
    BY <1>1, <1>4 DEF ManifestUp
  <2>2. \A c : c \in inTables' <=> \E i \in DOMAIN tables' : c \in sst'[i]
    BY DEF inTables
  <2>3. \A c : c \in inTables' <=> c \in inTables
    BY <1>2, <2>1, <2>2, InTables
  <2>. QED BY <2>3
<1>6. JobsMade'
  <2>1. compactor'.phase \in {"built", "manifest"} => sst'[compactor'.id] = UNION {sst'[i] : i \in compactor'.top}
    BY <1>1, <1>2, <1>4, CompactorKept
  <2>2. flusher'.phase = "built" /\ flusher'.cs = C
    BY <1>4
  <2>3. UNION {sst'[i] : i \in madeIn(flusher'.cs)} = skl'[Head(imm')]
    BY <1>2, <1>4, <2>2
  <2>. QED BY <1>2, <2>1, <2>2, <2>3 DEF JobsMade
<1>. QED BY <1>2, <1>5, <1>6, TablesKept

LEMMA CompactBuildKeepsTables == ASSUME NEW lvl PROVE DataUp /\ ManifestInv /\ status = "up" /\ compactBuild(lvl) => workStep
<1>. SUFFICES ASSUME DataUp, ManifestInv, status = "up", compactBuild(lvl) PROVE workStep
  OBVIOUS
<1>1. JobsMade /\ ManifestUp
  BY DEF DataUp, ManifestInv
<1>2. UNCHANGED <<wal, skl, imm, tables, flusher>> /\ UNCHANGED dataVars
  BY DEF compactBuild, histVars, dataVars
<1>3. PICK top, n, S : top = {i \in DOMAIN tables : tables[i] = lvl} /\ n = nextId /\ S = UNION {sst[i] : i \in top}
  OBVIOUS
<1>4. sst' = with(sst, n, S) /\ compactor'.phase = "built" /\ compactor'.top = top /\ compactor'.id = n
  BY <1>3 DEF compactBuild
<1>5. n \notin DOMAIN sst /\ DOMAIN tables \subseteq DOMAIN sst /\ top \subseteq DOMAIN tables
  <2>1. nextId \in 1 .. RMaxTable + 1 /\ DOMAIN sst \subseteq 1 .. nextId - 1 /\ DOMAIN tables \subseteq DOMAIN sst
    BY <1>1 DEF ManifestUp
  <2>2. nextId \notin 1 .. nextId - 1
    BY <2>1, RecoveryAssumption
  <2>. QED BY <1>3, <2>1, <2>2
<1>6. sst'[n] = S /\ \A i \in DOMAIN sst : sst'[i] = sst[i]
  BY <1>4, <1>5 DEF with
<1>7. inTables' = inTables
  <2>1. \A i \in DOMAIN tables : sst'[i] = sst[i]
    BY <1>5, <1>6
  <2>2. \A c : c \in inTables' <=> \E i \in DOMAIN tables' : c \in sst'[i]
    BY DEF inTables
  <2>3. \A c : c \in inTables' <=> c \in inTables
    BY <1>2, <2>1, <2>2, InTables
  <2>. QED BY <2>3
<1>8. JobsMade'
  <2>1. sst'[compactor'.id] = UNION {sst'[i] : i \in compactor'.top}
    <3>1. \A i \in top : sst'[i] = sst[i]
      BY <1>5, <1>6
    <3>2. UNION {sst'[i] : i \in top} = UNION {sst[i] : i \in top}
      BY <3>1
    <3>. QED BY <1>3, <1>4, <1>6, <3>2
  <2>2. /\ flusher'.phase # "idle" => imm' # <<>>
        /\ flusher'.phase \in {"built", "manifest"} => UNION {sst'[i] : i \in madeIn(flusher'.cs)} = skl'[Head(imm')]
        /\ flusher'.phase = "added" => skl'[Head(imm')] \subseteq inTables'
    BY <1>1, <1>2, <1>6, <1>7, FlusherKept
  <2>. QED BY <2>1, <2>2 DEF JobsMade
<1>. QED BY <1>2, <1>7, <1>8, TablesKept

LEMMA CompactReplaceKeepsTables == DataUp /\ ManifestInv /\ status = "up" /\ compactReplace => workStep
<1>. SUFFICES ASSUME DataUp, ManifestInv, status = "up", compactReplace PROVE workStep
  OBVIOUS
<1>1. JobsMade
  BY DEF DataUp
<1>2. /\ compactor.phase = "manifest" /\ compactor' = [phase |-> "replaced", top |-> compactor.top]
      /\ DOMAIN tables' = (DOMAIN tables \ compactor.top) \cup {compactor.id}
      /\ UNCHANGED <<wal, skl, imm, sst, flusher>> /\ UNCHANGED dataVars
  BY DEF compactReplace, histVars, dataVars, with, without
<1>3. PICK top, n : top = compactor.top /\ n = compactor.id
  OBVIOUS
<1>4. sst[n] = UNION {sst[i] : i \in top} /\ top \subseteq DOMAIN tables
  <2>1. compactor.top \subseteq DOMAIN tables
    BY <1>2 DEF ManifestInv, JobsInv, CompactorMade, Idle
  <2>. QED BY <1>1, <1>2, <1>3, <2>1 DEF JobsMade
<1>5. inTables' = inTables
  <2>1. \A c : c \in inTables' <=> \E i \in DOMAIN tables' : c \in sst'[i]
    BY DEF inTables
  <2>2. \A c : c \in sst[n] <=> \E i \in top : c \in sst[i]
    BY <1>4
  <2>3. \A c : c \in inTables' => c \in inTables
    BY <1>2, <1>3, <1>4, <2>1, <2>2, InTables
  <2>4. ASSUME NEW c \in inTables PROVE c \in inTables'
    <3>1. PICK i \in DOMAIN tables : c \in sst[i]
      BY <2>4, InTables
    <3>2. CASE i \in top
      BY <1>2, <1>3, <2>1, <2>2, <3>1, <3>2
    <3>3. CASE i \notin top
      BY <1>2, <1>3, <2>1, <3>1, <3>3
    <3>. QED BY <3>2, <3>3
  <2>. QED BY <2>3, <2>4
<1>6. JobsMade'
  <2>1. compactor'.phase = "replaced"
    BY <1>2
  <2>2. /\ flusher'.phase # "idle" => imm' # <<>>
        /\ flusher'.phase \in {"built", "manifest"} => UNION {sst'[i] : i \in madeIn(flusher'.cs)} = skl'[Head(imm')]
        /\ flusher'.phase = "added" => skl'[Head(imm')] \subseteq inTables'
    BY <1>1, <1>2, <1>5, FlusherKept
  <2>. QED BY <2>1, <2>2 DEF JobsMade
<1>. QED BY <1>2, <1>5, <1>6, TablesKept

LEMMA CompactDeleteKeepsTables == DataUp /\ ManifestInv /\ status = "up" /\ compactDelete => workStep
<1>. SUFFICES ASSUME DataUp, ManifestInv, status = "up", compactDelete PROVE workStep
  OBVIOUS
<1>1. JobsMade
  BY DEF DataUp
<1>2. /\ compactor.phase = "replaced" /\ compactor' = Idle /\ sst' = without(sst, compactor.top)
      /\ UNCHANGED <<wal, skl, imm, tables, flusher>> /\ UNCHANGED dataVars
  BY DEF compactDelete, histVars, memVars, dataVars
<1>3. PICK top : top = compactor.top
  OBVIOUS
<1>4. /\ top \cap DOMAIN tables = {} /\ DOMAIN tables \subseteq DOMAIN sst
      /\ flusher.phase \in {"built", "manifest"} => top \cap madeIn(flusher.cs) = {}
  <2>1. top \cap DOMAIN tables = {}
    BY <1>2, <1>3 DEF ManifestInv, JobsInv, CompactorMade, Idle
  <2>. QED BY <1>2, <1>3, <2>1 DEF ManifestInv, JobsInv, JobsApart, ManifestUp
<1>5. \A i \in DOMAIN sst : i \notin top => sst'[i] = sst[i]
  BY <1>2, <1>3 DEF without
<1>6. inTables' = inTables
  <2>1. \A i \in DOMAIN tables : sst'[i] = sst[i]
    BY <1>4, <1>5
  <2>2. \A c : c \in inTables' <=> \E i \in DOMAIN tables' : c \in sst'[i]
    BY DEF inTables
  <2>3. \A c : c \in inTables' <=> c \in inTables
    BY <1>2, <2>1, <2>2, InTables
  <2>. QED BY <2>3
<1>7. JobsMade'
  <2>1. compactor'.phase = "idle"
    BY <1>2 DEF Idle
  <2>2. \A i \in DOMAIN sst : flusher.phase \in {"built", "manifest"} /\ i \in madeIn(flusher.cs) => sst'[i] = sst[i]
    BY <1>4, <1>5
  <2>3. /\ flusher'.phase # "idle" => imm' # <<>>
        /\ flusher'.phase \in {"built", "manifest"} => UNION {sst'[i] : i \in madeIn(flusher'.cs)} = skl'[Head(imm')]
        /\ flusher'.phase = "added" => skl'[Head(imm')] \subseteq inTables'
    BY <1>1, <1>2, <1>6, <2>2, FlusherKept
  <2>. QED BY <2>1, <2>3 DEF JobsMade
<1>. QED BY <1>2, <1>6, <1>7, TablesKept

LEMMA JobsKeepTables == DataUp /\ ManifestInv /\ status = "up" /\ (flushStep \/ mergeStep) => workStep
BY FlushBuildKeepsTables, FlushManifestKeepsTables, FlushAddKeepsTables, FlushErrorKeepsTables, FlushDoneKeepsTables,
   CompactBuildKeepsTables, CompactManifestKeepsTables, CompactReplaceKeepsTables, CompactDeleteKeepsTables
   DEF flushStep, mergeStep

LEMMA JobsKeepData == DataUp /\ ManifestInv /\ status = "up" /\ (flushStep \/ mergeStep) => DataUp'
BY JobsKeepTables, TablesStep DEF workStep

-----------------------------------------------------------------------------
(* The tables a crash leaves have what the tree has, and may have what the *)
(* oldest memtable has.                                                    *)
tablesDown(T) ==
  /\ inTables \subseteq T /\ T \subseteq settled
  /\ nMoved = 0 => closed(entriesIn(T))

LEMMA CrashedTables ==
  ASSUME DataUp, ManifestInv, status = "up", UNCHANGED sst, manifest' \in crashedManifests
  PROVE  tablesDown(tablesLeft')
<1>1. MemtablesMade /\ JobsMade /\ JobsInv /\ ManifestUp
  BY DEF DataUp, ManifestInv
<1>2. PICK D : D = DOMAIN ReplayManifest(truncateManifest(manifest')).tables \cap DOMAIN sst
  OBVIOUS
<1>3. D \in {DOMAIN tables, afterChange}
  BY <1>1, <1>2, CrashedManifest
<1>4. \A c : c \in tablesLeft' <=> \E i \in D : c \in sst[i]
  BY <1>2 DEF tablesLeft
<1>5. inTables \subseteq settled /\ (nMoved = 0 => closed(entriesIn(inTables)))
  BY SettledIs DEF DataUp, WholeCommits
<1>6. CASE tablesLeft' = inTables
  BY <1>5, <1>6 DEF tablesDown
<1>7. CASE D = DOMAIN tables
  <2>1. tablesLeft' = inTables
    BY <1>4, <1>7, InTables
  <2>. QED BY <1>6, <2>1
<1>8. CASE D = afterChange /\ flusher.phase = "manifest"
  <2>1. PICK h, N : h = Head(imm) /\ N = madeIn(flusher.cs)
    OBVIOUS
  <2>2. D = DOMAIN tables \cup N
    BY <1>8, <2>1 DEF afterChange
  <2>3. imm # <<>> /\ UNION {sst[i] : i \in N} = skl[h]
    BY <1>1, <1>8, <2>1 DEF JobsMade
  <2>4. h \in DOMAIN wal /\ skl[h] = logLeft(h)
    BY <1>1, <2>1, <2>3, HeadWaits
  <2>5. tablesLeft' = inTables \cup logLeft(h)
    <3>1. \A c : c \in logLeft(h) <=> \E i \in N : c \in sst[i]
      BY <2>3, <2>4
    <3>2. \A c : c \in tablesLeft' <=> c \in inTables \/ c \in logLeft(h)
      BY <1>4, <2>2, <3>1, InTables
    <3>. QED BY <3>2
  <2>6. tablesLeft' \subseteq settled
    BY <2>4, <2>5, SettledIs
  <2>7. nMoved = 0 => closed(entriesIn(tablesLeft'))
    <3>. SUFFICES ASSUME nMoved = 0 PROVE closed(entriesIn(tablesLeft'))
      OBVIOUS
    <3>1. Len(wal[h].recs) \in afterLosing(wal[h]) /\ readTo(wal[h], Len(wal[h].recs)) = logLeft(h)
      <4>1. logFacts(wal[h], skl[h], underWay(h), UpdateSkipList(wal[h].recs))
        BY <1>1, <2>4, MemtablesRead DEF LogsRead
      <4>. QED BY <4>1 DEF logFacts, logLeft
    <3>2. WholeCommits
      BY DEF DataUp
    <3>3. closed(entriesIn(logLeft(h))) /\ closed(entriesIn(inTables))
      BY <2>4, <3>1, <3>2 DEF WholeCommits
    <3>4. entriesIn(tablesLeft') = entriesIn(inTables) \cup entriesIn(logLeft(h))
      BY <2>5, EntriesOfUnion
    <3>. QED BY <3>3, <3>4 DEF closed
  <2>. QED BY <2>5, <2>6, <2>7 DEF tablesDown
<1>9. CASE D = afterChange /\ flusher.phase # "manifest" /\ compactor.phase = "manifest"
  <2>1. PICK top, n : top = compactor.top /\ n = compactor.id
    OBVIOUS
  <2>2. D = (DOMAIN tables \ top) \cup {n}
    BY <1>9, <2>1 DEF afterChange
  <2>3. sst[n] = UNION {sst[i] : i \in top} /\ top \subseteq DOMAIN tables
    <3>1. compactor.top \subseteq DOMAIN tables
      BY <1>1, <1>9 DEF JobsInv, CompactorMade, Idle
    <3>. QED BY <1>1, <1>9, <2>1, <3>1 DEF JobsMade
  <2>4. \A c : c \in sst[n] <=> \E i \in top : c \in sst[i]
    BY <2>3
  <2>5. \A c \in tablesLeft' : c \in inTables
    BY <1>4, <2>2, <2>3, <2>4, InTables
  <2>6. ASSUME NEW c \in inTables PROVE c \in tablesLeft'
    <3>1. PICK i \in DOMAIN tables : c \in sst[i]
      BY <2>6, InTables
    <3>2. CASE i \in top
      BY <1>4, <2>2, <2>4, <3>1, <3>2
    <3>3. CASE i \notin top
      BY <1>4, <2>2, <3>1, <3>3
    <3>. QED BY <3>2, <3>3
  <2>7. tablesLeft' = inTables
    BY <2>5, <2>6
  <2>. QED BY <1>6, <2>7
<1>10. CASE D = afterChange /\ flusher.phase # "manifest" /\ compactor.phase # "manifest"
  <2>1. D = DOMAIN tables
    BY <1>10 DEF afterChange
  <2>. QED BY <1>7, <2>1
<1>. QED BY <1>3, <1>7, <1>8, <1>9, <1>10

(* Each log that is left ends at K[f].                                     *)
logsDown(K) ==
  /\ DOMAIN wal' \subseteq DOMAIN wal
  /\ \A f \in DOMAIN wal' : K[f] \in afterLosing(wal[f]) /\ wal'[f].recs = SubSeq(wal[f].recs, 1, K[f])
  /\ \A f \in DOMAIN wal \ DOMAIN wal' : skl[f] = {}
  /\ lossy => lossy'
  /\ safe' => (\A t \in Tracks : vlogf'[t] = vlogf[t]) /\ \A f \in DOMAIN wal' : K[f] \in mayBeLeft(wal[f])

(* What a crash or Close leaves.                                           *)
crashed ==
  /\ status = "up" /\ goDown /\ manifest' \in crashedManifests /\ ValuesMade'
  /\ \E K : logsDown(K)

LEMMA GoesDown ==
  ASSUME DataUp, ManifestInv, status = "up", goDown, manifest' \in crashedManifests, ValuesMade', NEW K, logsDown(K)
  PROVE  DurableInv'
<1>1. /\ status' = "down" /\ nCrash' = nCrash + 1
      /\ UNCHANGED <<sst, syncWrites, nCommit, nMoved, started, acked>>
  BY DEF goDown
<1>2. VersionsMade /\ MemtablesMade
  BY DEF DataUp
<1>3. LogsRead /\ visible = settled \cup pending
  BY <1>2, MemtablesRead
<1>4. /\ DOMAIN wal' \subseteq DOMAIN wal
      /\ \A f \in DOMAIN wal' : K[f] \in afterLosing(wal[f]) /\ wal'[f].recs = SubSeq(wal[f].recs, 1, K[f])
      /\ \A f \in DOMAIN wal \ DOMAIN wal' : skl[f] = {}
      /\ lossy => lossy'
      /\ safe' => (\A t \in Tracks : vlogf'[t] = vlogf[t]) /\ \A f \in DOMAIN wal' : K[f] \in mayBeLeft(wal[f])
  BY DEF logsDown
<1>5. tablesDown(tablesLeft')
  BY <1>1, CrashedTables
<1>6. \A f \in DOMAIN wal' : logLeft(f)' = readTo(wal[f], K[f])
  BY <1>4 DEF logLeft, readTo
<1>7. \A c : c \in allLeft' <=> c \in tablesLeft' \/ \E f \in DOMAIN wal' : c \in logLeft(f)'
  BY DEF allLeft
<1>8. entriesIn(allLeft') \subseteq entriesIn(settled)
  <2>1. tablesLeft' \subseteq settled
    BY <1>5 DEF tablesDown
  <2>2. \A f \in DOMAIN wal' : entriesIn(logLeft(f)') \subseteq entriesIn(settled)
    BY <1>2, <1>4, <1>6, LeftIsSettled
  <2>3. \A c \in allLeft' : c.e \in entriesIn(settled)
    <3>1. ASSUME NEW c \in tablesLeft' PROVE c.e \in entriesIn(settled)
      BY <2>1, <3>1 DEF entriesIn
    <3>2. ASSUME NEW f \in DOMAIN wal', NEW c \in logLeft(f)' PROVE c.e \in entriesIn(settled)
      <4>1. c.e \in entriesIn(logLeft(f)')
        BY <3>2 DEF entriesIn
      <4>. QED BY <2>2, <4>1
    <3>. QED BY <1>7, <3>1, <3>2
  <2>. QED BY <2>3 DEF entriesIn
<1>9. entriesIn(settled) \subseteq entriesIn(visible)
  BY <1>3, EntriesMonotone
<1>10. /\ nCrash' \in Nat /\ DOMAIN wal' \subseteq 1 .. RMaxWal + nCrash'
  <2>1. nCrash \in Nat /\ nextMem \in 1 .. RMaxWal + 2 + nCrash /\ DOMAIN wal \subseteq 1 .. nextMem - 1
    BY <1>2 DEF MemtablesMade
  <2>2. 1 .. nextMem - 1 \subseteq 1 .. RMaxWal + (nCrash + 1)
    BY <2>1, RecoveryAssumption
  <2>. QED BY <1>1, <1>4, <2>1, <2>2
<1>11. \A f \in DOMAIN wal' : wal'[f].recs \in Seq(ToSet(wal'[f].recs))
  <2>. SUFFICES ASSUME NEW f \in DOMAIN wal' PROVE wal'[f].recs \in Seq(ToSet(wal'[f].recs))
    OBVIOUS
  <2>1. PICK q, k, S : q = wal[f].recs /\ k = K[f] /\ S = ToSet(q)
    OBVIOUS
  <2>2. q \in Seq(S)
    BY <1>2, <1>4, <2>1 DEF MemtablesMade, logMade
  <2>3. k \in 0 .. Len(q)
    <3>1. logFacts(wal[f], skl[f], underWay(f), UpdateSkipList(wal[f].recs))
      BY <1>3, <1>4 DEF LogsRead
    <3>. QED BY <1>4, <2>1, <3>1 DEF logFacts
  <2>4. PICK p : p = SubSeq(q, 1, k)
    OBVIOUS
  <2>5. p \in Seq(S)
    BY <2>2, <2>3, <2>4
  <2>6. p \in Seq(ToSet(p))
    BY <2>5, TupleTyped
  <2>7. wal'[f].recs = p
    BY <1>4, <2>1, <2>4
  <2>. QED BY <2>6, <2>7
<1>12. /\ {nCommit', nMoved'} \subseteq Nat /\ \A e \in started' : e.id \in 1 .. nCommit'
       /\ entriesIn(allLeft') \subseteq started'
  BY <1>1, <1>2, <1>8, <1>9 DEF VersionsMade
<1>13. oneVersion(allLeft') /\ \A c \in allLeft' : c.e.ts \in 1 .. nCommit'
  <2>1. entriesIn(allLeft') \subseteq entriesIn(visible)
    BY <1>8, <1>9
  <2>2. nCommit \in Nat /\ nextTs \in 1 .. nCommit + 1 /\ oneVersion(visible) /\ \A c \in visible : c.e.ts \in 1 .. nextTs - 1
    BY <1>2 DEF VersionsMade
  <2>3. PICK S : S = 1 .. nCommit
    OBVIOUS
  <2>4. 1 .. nextTs - 1 \subseteq S
    BY <2>2, <2>3
  <2>5. \A c \in visible : c.e.ts \in S
    BY <2>2, <2>4
  <2>6. oneVersion(allLeft') /\ \A c \in allLeft' : c.e.ts \in S
    BY <2>1, <2>2, <2>5, SameEntries
  <2>. QED BY <1>1, <2>3, <2>6
<1>14. ASSUME safe'
       PROVE  /\ \A c \in allLeft' : readableValue(c)'
              /\ acked' \subseteq entriesIn(allLeft') /\ closed(entriesIn(allLeft))'
  <2>1. Pointed /\ KeptMade
    BY <1>1, <1>4, <1>14 DEF safe, DataUp
  <2>2. (\A t \in Tracks : vlogf'[t] = vlogf[t]) /\ \A f \in DOMAIN wal' : K[f] \in mayBeLeft(wal[f])
    BY <1>4, <1>14
  <2>3. \A d : readableValue(d)' <=> readableValue(d)
    BY <2>2 DEF readableValue
  <2>4. \A c \in allLeft' : readableValue(c)
    <3>1. \A c \in tablesLeft' : c \in visible
      BY <1>3, <1>5 DEF tablesDown
    <3>2. \A c \in tablesLeft' : readableValue(c)
      BY <2>1, <3>1 DEF Pointed
    <3>3. \A f \in DOMAIN wal' : \A c \in logLeft(f)' : readableValue(c)
      BY <1>4, <1>6, <2>1, <2>2 DEF Pointed
    <3>. QED BY <1>7, <3>2, <3>3
  <2>5. entriesIn(settled) \subseteq entriesIn(allLeft')
    <3>. SUFFICES ASSUME NEW e \in entriesIn(settled) PROVE e \in entriesIn(allLeft')
      OBVIOUS
    <3>1. isLeft(e)
      BY <2>1 DEF KeptMade
    <3>2. CASE e \in entriesIn(inTables)
      <4>1. inTables \subseteq allLeft'
        BY <1>5, <1>7 DEF tablesDown
      <4>. QED BY <3>2, <4>1, EntriesMonotone
    <3>3. ASSUME NEW f \in DOMAIN wal, staysIn(wal[f], e) PROVE e \in entriesIn(allLeft')
      <4>1. CASE f \in DOMAIN wal'
        <5>1. e \in entriesIn(logLeft(f)')
          BY <1>6, <2>2, <3>3, <4>1 DEF staysIn
        <5>2. logLeft(f)' \subseteq allLeft'
          BY <1>7, <4>1
        <5>. QED BY <5>1, <5>2, EntriesMonotone
      <4>2. CASE f \notin DOMAIN wal'
        <5>1. logFacts(wal[f], skl[f], underWay(f), UpdateSkipList(wal[f].recs)) /\ skl[f] = {}
          BY <1>3, <1>4, <4>2 DEF LogsRead
        <5>2. Len(wal[f].recs) \in mayBeLeft(wal[f]) /\ readTo(wal[f], Len(wal[f].recs)) = {}
          BY <5>1 DEF logFacts, mayBeLeft
        <5>. QED BY <3>3, <5>2, NoEntries DEF staysIn
      <4>. QED BY <4>1, <4>2
    <3>. QED BY <3>1, <3>2, <3>3 DEF isLeft
  <2>6. entriesIn(allLeft') = entriesIn(settled)
    BY <1>8, <2>5
  <2>7. closed(entriesIn(settled)) /\ acked \subseteq entriesIn(settled)
    BY <2>1 DEF KeptMade
  <2>. QED BY <1>1, <2>3, <2>4, <2>6, <2>7 DEF closed
<1>15. ASSUME nMoved' = 0
       PROVE  /\ closed(entriesIn(tablesLeft))'
              /\ \A f \in DOMAIN wal' : closed(entriesIn(logLeft(f)))'
  <2>1. nMoved = 0 /\ WholeCommits
    BY <1>1, <1>15 DEF DataUp
  <2>2. \A f \in DOMAIN wal' : closed(entriesIn(logLeft(f)'))
    BY <1>4, <1>6, <2>1 DEF WholeCommits
  <2>3. closed(entriesIn(tablesLeft'))
    BY <1>5, <2>1 DEF tablesDown
  <2>4. \A S : closed(S)' <=> closed(S)
    BY <1>1 DEF closed
  <2>. QED BY <2>2, <2>3, <2>4
<1>16. DataDown'
  BY <1>10, <1>11, <1>12, <1>13, <1>14, <1>15 DEF DataDown
<1>. QED BY <1>1, <1>16 DEF DurableInv

LEMMA WholeLog ==
  ASSUME NEW S, NEW q \in Seq(S)
  PROVE  SubSeq(q, 1, Len(q)) = q
OBVIOUS

LEMMA CrashProcessLeaves == DataUp /\ ManifestInv /\ CrashProcess => crashed
<1>. SUFFICES ASSUME DataUp, ManifestInv, CrashProcess PROVE crashed
  OBVIOUS
<1>1. status = "up" /\ manifest' \in crashedManifests /\ goDown /\ UNCHANGED <<wal, vlogf, vsynced, lossy>>
  BY DEF CrashProcess
<1>2. MemtablesMade /\ ValuesMade
  BY DEF DataUp
<1>3. ValuesMade'
  BY <1>1, <1>2 DEF ValuesMade, goDown
<1>. DEFINE K == [f \in DOMAIN wal |-> Len(wal[f].recs)]
<1>4. \A f \in DOMAIN wal : /\ K[f] = Len(wal[f].recs) /\ K[f] \in afterLosing(wal[f]) /\ K[f] \in mayBeLeft(wal[f])
                            /\ wal[f].recs = SubSeq(wal[f].recs, 1, K[f])
  <2>. SUFFICES ASSUME NEW f \in DOMAIN wal
                PROVE  /\ K[f] = Len(wal[f].recs) /\ K[f] \in afterLosing(wal[f]) /\ K[f] \in mayBeLeft(wal[f])
                       /\ wal[f].recs = SubSeq(wal[f].recs, 1, K[f])
    OBVIOUS
  <2>1. K[f] = Len(wal[f].recs)
    OBVIOUS
  <2>2. logFacts(wal[f], skl[f], underWay(f), UpdateSkipList(wal[f].recs))
    BY <1>2, MemtablesRead DEF LogsRead
  <2>3. wal[f].recs \in Seq(ToSet(wal[f].recs))
    BY <1>2 DEF MemtablesMade, logMade
  <2>. HIDE DEF K
  <2>4. K[f] \in afterLosing(wal[f]) /\ K[f] \in mayBeLeft(wal[f])
    BY <2>1, <2>2 DEF logFacts, mayBeLeft
  <2>5. SubSeq(wal[f].recs, 1, K[f]) = wal[f].recs
    BY <2>1, <2>3, WholeLog
  <2>. QED BY <2>1, <2>4, <2>5
<1>. HIDE DEF K
<1>5. logsDown(K)
  BY <1>1, <1>4 DEF logsDown
<1>. QED BY <1>1, <1>3, <1>5 DEF crashed

(* What is left of the value log.                                          *)
LEMMA FilesCut ==
  ASSUME ValuesMade, NEW c \in prefixes(Last(vlogf["cold"]), vsynced["cold"]), NEW h \in prefixes(Last(vlogf["hot"]), vsynced["hot"]),
         vlogf' = [vlogf EXCEPT !["cold"] = Append(Front(@), c), !["hot"] = Append(Front(@), h)],
         UNCHANGED <<started, syncWrites, vsynced>>
  PROVE  ValuesMade' /\ (syncWrites => \A t \in Tracks : vlogf'[t] = vlogf[t])
<1>1. /\ filesOf(vlogf, started) /\ vsynced \in [Tracks -> Nat] /\ Tracks = {"cold", "hot"} /\ DOMAIN vlogf = Tracks
      /\ syncWrites => \A t \in Tracks : vsynced[t] = Len(Last(vlogf[t]))
  BY ValuesAre DEF Tracks, ValuesMade
<1>2. ASSUME NEW t \in Tracks, NEW p \in prefixes(Last(vlogf[t]), vsynced[t])
      PROVE  /\ p \in Seq(started) /\ Append(Front(vlogf[t]), p) \in Seq(Seq(started)) /\ Append(Front(vlogf[t]), p) # <<>>
             /\ syncWrites => Append(Front(vlogf[t]), p) = vlogf[t]
  <2>1. PICK l, v, F : l = Last(vlogf[t]) /\ v = vsynced[t] /\ F = Front(vlogf[t])
    OBVIOUS
  <2>2. Len(l) \in Nat /\ l \in Seq(started) /\ F \in Seq(Seq(started)) /\ Append(F, l) = vlogf[t]
    BY <1>1, <2>1, LastSized
  <2>3. v \in Nat /\ (syncWrites => v = Len(l))
    BY <1>1, <2>1
  <2>4. PICK n \in v .. Len(l) : p = SubSeq(l, 1, n)
    BY <2>1 DEF prefixes
  <2>5. p \in Seq(started)
    BY <2>2, <2>3, <2>4
  <2>6. Append(F, p) \in Seq(Seq(started)) /\ Append(F, p) # <<>>
    BY <2>2, <2>5
  <2>7. ASSUME syncWrites PROVE p = l
    <3>1. n = Len(l)
      BY <2>2, <2>3, <2>4, <2>7
    <3>. QED BY <2>2, <2>4, <3>1, WholeLog
  <2>. QED BY <2>1, <2>2, <2>5, <2>6, <2>7
<1>3. /\ DOMAIN vlogf' = Tracks /\ vlogf'["cold"] = Append(Front(vlogf["cold"]), c) /\ vlogf'["hot"] = Append(Front(vlogf["hot"]), h)
  BY <1>1
<1>4. \A t \in Tracks : vlogf'[t] \in Seq(Seq(started)) /\ vlogf'[t] # <<>> /\ (syncWrites => vlogf'[t] = vlogf[t])
  <2>1. "cold" \in Tracks /\ "hot" \in Tracks
    BY <1>1
  <2>2. vlogf'["cold"] \in Seq(Seq(started)) /\ vlogf'["cold"] # <<>> /\ (syncWrites => vlogf'["cold"] = vlogf["cold"])
    BY <1>2, <1>3, <2>1
  <2>3. vlogf'["hot"] \in Seq(Seq(started)) /\ vlogf'["hot"] # <<>> /\ (syncWrites => vlogf'["hot"] = vlogf["hot"])
    BY <1>2, <1>3, <2>1
  <2>. QED BY <1>1, <2>2, <2>3
<1>. QED BY <1>1, <1>3, <1>4 DEF ValuesMade

LEMMA CrashMachineLeaves == DataUp /\ ManifestInv /\ CrashMachine => crashed
<1>. SUFFICES ASSUME DataUp, ManifestInv, CrashMachine PROVE crashed
  OBVIOUS
<1>1. status = "up" /\ manifest' \in crashedManifests /\ goDown /\ lossy' = TRUE /\ UNCHANGED vsynced
  BY DEF CrashMachine
<1>2. MemtablesMade /\ ValuesMade
  BY DEF DataUp
<1>3. PICK K : /\ \A f \in DOMAIN wal : K[f] \in wal[f].synced .. Len(wal[f].recs)
               /\ wal' = [f \in DOMAIN wal |-> [wal[f] EXCEPT !.recs = SubSeq(@, 1, K[f])]]
  BY DEF CrashMachine
<1>4. \A f \in DOMAIN wal : wal'[f].recs = SubSeq(wal[f].recs, 1, K[f])
  <2>1. \A f \in DOMAIN wal : DOMAIN wal[f] = {"recs", "synced"}
    BY <1>2 DEF MemtablesMade, logMade
  <2>. QED BY <1>3, <2>1
<1>5. ValuesMade' /\ (syncWrites => \A t \in Tracks : vlogf'[t] = vlogf[t])
  <2>1. PICK c \in prefixes(Last(vlogf["cold"]), vsynced["cold"]), h \in prefixes(Last(vlogf["hot"]), vsynced["hot"]) :
          vlogf' = [vlogf EXCEPT !["cold"] = Append(Front(@), c), !["hot"] = Append(Front(@), h)]
    BY DEF CrashMachine
  <2>2. UNCHANGED <<started, syncWrites, vsynced>>
    BY <1>1 DEF goDown
  <2>. QED BY <1>2, <2>1, <2>2, FilesCut
<1>6. safe' => syncWrites
  BY <1>1 DEF safe, goDown
<1>7. logsDown(K)
  BY <1>1, <1>3, <1>4, <1>5, <1>6 DEF logsDown, mayBeLeft, afterLosing
<1>. QED BY <1>1, <1>5, <1>7 DEF crashed

LEMMA CloseLeaves == DataUp /\ ManifestInv /\ Close => crashed
<1>. SUFFICES ASSUME DataUp, ManifestInv, Close PROVE crashed
  OBVIOUS
<1>1. /\ status = "up" /\ goDown /\ flusher = Idle /\ compactor = Idle /\ imm = <<>> /\ skl[mt] = {}
      /\ wal' = without(wal, {mt}) /\ vsynced' = [t \in Tracks |-> Len(Last(vlogf[t]))]
      /\ UNCHANGED <<manifest, vlogf, lossy>>
  BY DEF Close
<1>2. MemtablesMade /\ ValuesMade
  BY DEF DataUp
<1>3. manifest' \in crashedManifests
  <2>1. appendLock = Idle
    BY <1>1 DEF ManifestInv, JobsInv, LockMade, holdsLock, Idle
  <2>. QED BY <1>1, <2>1 DEF crashedManifests
<1>4. DOMAIN wal = {mt}
  <2>1. ToSet(imm) = {}
    BY <1>1 DEF ToSet
  <2>. QED BY <1>2, <2>1 DEF MemtablesMade
<1>5. DOMAIN wal' = {}
  BY <1>1, <1>4 DEF without
<1>6. ValuesMade'
  <2>1. UNCHANGED <<started, syncWrites>>
    BY <1>1 DEF goDown
  <2>2. \A t \in Tracks : Len(Last(vlogf[t])) \in Nat
    BY <1>2, ValuesAre, LastSized
  <2>. QED BY <1>1, <1>2, <2>1, <2>2 DEF ValuesMade
<1>7. logsDown(<<>>)
  BY <1>1, <1>4, <1>5 DEF logsDown
<1>. QED BY <1>1, <1>3, <1>6, <1>7 DEF crashed

LEMMA Crashes == DataUp /\ ManifestInv /\ (CrashProcess \/ CrashMachine \/ Close) => crashed
BY CrashProcessLeaves, CrashMachineLeaves, CloseLeaves

LEMMA GoingDownKeepsData == DataUp /\ ManifestInv /\ (CrashProcess \/ CrashMachine \/ Close) => DurableInv'
<1>. SUFFICES ASSUME DataUp, ManifestInv, CrashProcess \/ CrashMachine \/ Close PROVE DurableInv'
  OBVIOUS
<1>1. PICK K : logsDown(K)
  BY Crashes DEF crashed
<1>. QED BY <1>1, Crashes, GoesDown DEF crashed

-----------------------------------------------------------------------------
(* Open finds the logs of live, cut after what counts, and adds new.       *)
EmptyFile == [recs |-> <<>>, synced |-> 0]
logsOpened(live, new) ==
  /\ live \subseteq DOMAIN wal /\ new \notin DOMAIN wal
  /\ DOMAIN wal' = live \cup {new} /\ DOMAIN skl' = live \cup {new}
  /\ wal'[new] = EmptyFile /\ skl'[new] = {}
  /\ \A f \in live : openedAs(wal[f].recs, wal'[f], UpdateSkipList(wal[f].recs)) /\ skl'[f] = logLeft(f)
  /\ \A f \in DOMAIN wal \ live : logLeft(f) = {}

(* Every log of the store that Open leaves is read whole or not at all.    *)
fileOpened(L, s) ==
  /\ logMade(L, s, 0) /\ UpdateSkipList(L.recs).out = s
  /\ afterLosing(L) = {Len(L.recs)} /\ readTo(L, Len(L.recs)) = s

LEMMA FilesOpened ==
  ASSUME NEW live, NEW new, logsOpened(live, new)
  PROVE  \A f \in DOMAIN wal' : fileOpened(wal'[f], skl'[f])
<1>1. fileOpened(EmptyFile, {})
  <2>1. logMade(EmptyFile, {}, 0)
    BY EmptyLog DEF EmptyFile
  <2>2. logFacts(EmptyFile, {}, 0, UpdateSkipList(EmptyFile.recs))
    BY <2>1, LogFacts
  <2>3. Len(EmptyFile.recs) = 0 /\ EmptyFile.synced = 0 /\ 0 .. 0 = {0}
    BY DEF EmptyFile
  <2>4. UpdateSkipList(EmptyFile.recs).out = {} /\ readTo(EmptyFile, 0) = UpdateSkipList(EmptyFile.recs).out
    BY <2>2, <2>3 DEF logFacts
  <2>. QED BY <2>1, <2>3, <2>4 DEF afterLosing, fileOpened
<1>2. ASSUME NEW f \in live PROVE fileOpened(wal'[f], skl'[f])
  BY DEF logsOpened, openedAs, fileOpened, logLeft
<1>. QED BY <1>1, <1>2 DEF logsOpened

LEMMA LogsOpen ==
  ASSUME DataDown, Open
  PROVE  \E live, new : /\ logsOpened(live, new) /\ new \in 1 .. RMaxWal + 1 + nCrash /\ live \subseteq 1 .. new - 1
                        /\ imm' = inOrder(live) /\ mt' = new /\ nextMem' = new + 1
                        /\ \A c : c \in allLeft <=> c \in tablesLeft \/ \E f \in live : c \in logLeft(f)
                        /\ nextTs' = MaxVersion(allLeft) + 1 /\ inTables' = tablesLeft
<1>1. PICK live, new, ids :
        /\ live = {f \in DOMAIN wal : UpdateSkipList(wal[f].recs).out # {}}
        /\ new = Max({0} \cup DOMAIN wal) + 1
        /\ ids = DOMAIN ReplayManifest(truncateManifest(manifest)).tables
  OBVIOUS
<1>2. /\ ids \subseteq DOMAIN sst
      /\ tables' = ReplayManifest(truncateManifest(manifest)).tables /\ sst' = [i \in ids |-> sst[i]]
      /\ imm' = inOrder(live) /\ mt' = new /\ nextMem' = new + 1
      /\ skl' = [f \in live \cup {new} |-> IF f = new THEN {} ELSE UpdateSkipList(wal[f].recs).out]
      /\ wal' = [f \in live \cup {new} |-> IF f = new THEN EmptyFile
                   ELSE [recs |-> SubSeq(wal[f].recs, 1, UpdateSkipList(wal[f].recs).end),
                         synced |-> UpdateSkipList(wal[f].recs).end]]
      /\ nextTs' = MaxVersion((UNION {UpdateSkipList(wal[f].recs).out : f \in live}) \cup (UNION {sst[i] : i \in ids})) + 1
  <2>. DEFINE recs == truncateManifest(manifest)
              m    == ReplayManifest(recs)
              log  == [f \in DOMAIN wal |-> UpdateSkipList(wal[f].recs)]
              mems == [f \in DOMAIN wal |-> log[f].out]
              lv   == {f \in DOMAIN wal : mems[f] # {}}
              nw   == Max({0} \cup DOMAIN wal) + 1
              is   == DOMAIN m.tables
  <2>1. /\ is \subseteq DOMAIN sst /\ tables' = m.tables /\ sst' = [i \in is |-> sst[i]]
        /\ imm' = inOrder(lv) /\ mt' = nw /\ nextMem' = nw + 1
        /\ skl' = [f \in lv \cup {nw} |-> IF f = nw THEN {} ELSE mems[f]]
        /\ wal' = [f \in lv \cup {nw} |-> IF f = nw THEN EmptyFile
                     ELSE [recs |-> SubSeq(wal[f].recs, 1, log[f].end), synced |-> log[f].end]]
        /\ nextTs' = MaxVersion((UNION {mems[f] : f \in lv}) \cup (UNION {sst[i] : i \in is})) + 1
    BY DEF Open, EmptyFile
  <2>2. \A f \in DOMAIN wal : log[f] = UpdateSkipList(wal[f].recs) /\ mems[f] = UpdateSkipList(wal[f].recs).out
    OBVIOUS
  <2>3. m = ReplayManifest(truncateManifest(manifest)) /\ nw = new /\ is = ids
    BY <1>1
  <2>. HIDE DEF recs, m, log, mems, nw, is
  <2>4. lv = live
    BY <1>1, <2>2
  <2>. HIDE DEF lv
  <2>5. \A f \in live : f \in DOMAIN wal
    BY <1>1
  <2>6. {mems[f] : f \in lv} = {UpdateSkipList(wal[f].recs).out : f \in live}
    BY <2>2, <2>4, <2>5
  <2>7. skl' = [f \in live \cup {new} |-> IF f = new THEN {} ELSE UpdateSkipList(wal[f].recs).out]
    BY <2>1, <2>2, <2>3, <2>4, <2>5
  <2>8. wal' = [f \in live \cup {new} |-> IF f = new THEN EmptyFile
                  ELSE [recs |-> SubSeq(wal[f].recs, 1, UpdateSkipList(wal[f].recs).end),
                        synced |-> UpdateSkipList(wal[f].recs).end]]
    BY <2>1, <2>2, <2>3, <2>4, <2>5
  <2>9. nextTs' = MaxVersion((UNION {UpdateSkipList(wal[f].recs).out : f \in live}) \cup (UNION {sst[i] : i \in ids})) + 1
    BY <2>1, <2>3, <2>6
  <2>. QED BY <2>1, <2>3, <2>4, <2>7, <2>8, <2>9
<1>3. /\ nCrash \in Nat /\ DOMAIN wal \subseteq 1 .. RMaxWal + nCrash
      /\ \A f \in DOMAIN wal : wal[f].recs \in Seq(ToSet(wal[f].recs))
  BY DEF DataDown
<1>4. new \in 1 .. RMaxWal + 1 + nCrash /\ new \notin DOMAIN wal /\ live \subseteq 1 .. new - 1
  <2>1. PICK b, S : b = RMaxWal + nCrash /\ S = {0} \cup DOMAIN wal
    OBVIOUS
  <2>2. b \in Nat /\ RMaxWal \in Nat
    BY <1>3, <2>1, RecoveryAssumption
  <2>3. S \in SUBSET (0 .. b) /\ S # {}
    BY <1>3, <2>1, <2>2
  <2>4. PICK m : m = Max(S) /\ m \in S /\ \A y \in S : y <= m
    BY <2>2, <2>3, MaxBounded
  <2>5. m \in 0 .. b /\ new = m + 1
    BY <1>1, <2>1, <2>3, <2>4
  <2>6. ASSUME NEW y \in DOMAIN wal PROVE y \in 1 .. m
    <3>1. y \in 1 .. b /\ y <= m
      BY <1>3, <2>1, <2>4
    <3>. QED BY <2>2, <2>5, <3>1
  <2>7. new \in 1 .. b + 1 /\ new - 1 = m /\ \A y \in 1 .. m : y # new
    BY <2>2, <2>5
  <2>8. b + 1 = RMaxWal + 1 + nCrash
    BY <1>3, <2>1, <2>2
  <2>. QED BY <1>1, <2>6, <2>7, <2>8
<1>5. logsOpened(live, new)
  <2>1. ASSUME NEW f \in live
        PROVE  openedAs(wal[f].recs, wal'[f], UpdateSkipList(wal[f].recs)) /\ skl'[f] = logLeft(f)
    <3>1. f \in DOMAIN wal /\ f # new
      BY <1>1, <1>4
    <3>2. wal'[f] = [recs |-> SubSeq(wal[f].recs, 1, UpdateSkipList(wal[f].recs).end), synced |-> UpdateSkipList(wal[f].recs).end]
      BY <1>2, <3>1
    <3>3. wal[f].recs \in Seq(ToSet(wal[f].recs))
      BY <1>3, <3>1
    <3>4. openedAs(wal[f].recs, wal'[f], UpdateSkipList(wal[f].recs))
      BY <3>2, <3>3, OpenedLog
    <3>. QED BY <1>2, <3>1, <3>4 DEF logLeft
  <2>2. \A f \in DOMAIN wal \ live : logLeft(f) = {}
    BY <1>1 DEF logLeft
  <2>3. DOMAIN wal' = live \cup {new} /\ DOMAIN skl' = live \cup {new} /\ wal'[new] = EmptyFile /\ skl'[new] = {}
    BY <1>2
  <2>. QED BY <1>1, <1>4, <2>1, <2>2, <2>3 DEF logsOpened
<1>6. \A c : c \in tablesLeft <=> \E i \in ids : c \in sst[i]
  BY <1>1, <1>2 DEF tablesLeft
<1>7. \A c : c \in allLeft <=> c \in tablesLeft \/ \E f \in live : c \in logLeft(f)
  <2>1. \A c : c \in allLeft <=> c \in tablesLeft \/ \E f \in DOMAIN wal : c \in logLeft(f)
    BY DEF allLeft
  <2>. QED BY <1>5, <2>1 DEF logsOpened
<1>8. nextTs' = MaxVersion(allLeft) + 1
  <2>1. PICK A : A = (UNION {UpdateSkipList(wal[f].recs).out : f \in live}) \cup (UNION {sst[i] : i \in ids})
    OBVIOUS
  <2>2. \A c : c \in A <=> (\E f \in live : c \in logLeft(f)) \/ \E i \in ids : c \in sst[i]
    BY <2>1 DEF logLeft
  <2>3. A = allLeft
    BY <1>6, <1>7, <2>2
  <2>. QED BY <1>2, <2>1, <2>3
<1>9. inTables' = tablesLeft
  <2>1. DOMAIN tables' = ids /\ \A i \in ids : sst'[i] = sst[i]
    BY <1>1, <1>2
  <2>2. \A c : c \in inTables' <=> \E i \in DOMAIN tables' : c \in sst'[i]
    BY DEF inTables
  <2>. QED BY <1>6, <2>1, <2>2
<1>. QED BY <1>2, <1>4, <1>5, <1>7, <1>8, <1>9

LEMMA OpenKeepsData == DataDown /\ ManifestInv /\ Open => DataUp'
<1>. SUFFICES ASSUME DataDown, ManifestInv, Open PROVE DataUp'
  OBVIOUS
<1>1. PICK live, new : /\ logsOpened(live, new) /\ new \in 1 .. RMaxWal + 1 + nCrash /\ live \subseteq 1 .. new - 1
                       /\ imm' = inOrder(live) /\ mt' = new /\ nextMem' = new + 1
                       /\ \A c : c \in allLeft <=> c \in tablesLeft \/ \E f \in live : c \in logLeft(f)
                       /\ nextTs' = MaxVersion(allLeft) + 1 /\ inTables' = tablesLeft
  BY LogsOpen
<1>2. /\ status = "down" /\ vlogf' = [t \in Tracks |-> Append(vlogf[t], <<>>)] /\ vsynced' = [t \in Tracks |-> 0]
      /\ UNCHANGED <<syncWrites, writer, flusher, compactor, nCommit, nCrash, nMoved, started, acked, lossy>>
  BY DEF Open, jobVars, histVars
<1>3. writer' = Idle /\ flusher' = Idle /\ compactor' = Idle
  BY <1>2 DEF ManifestInv
<1>4. /\ nCrash \in Nat /\ {nCommit, nMoved} \subseteq Nat /\ \A e \in started : e.id \in 1 .. nCommit
      /\ entriesIn(allLeft) \subseteq started /\ oneVersion(allLeft) /\ \A c \in allLeft : c.e.ts \in 1 .. nCommit
  BY DEF DataDown
<1>5. /\ live \subseteq DOMAIN wal /\ new \notin DOMAIN wal
      /\ DOMAIN wal' = live \cup {new} /\ DOMAIN skl' = live \cup {new}
      /\ wal'[new] = EmptyFile /\ skl'[new] = {} /\ \A f \in live : skl'[f] = logLeft(f)
  BY <1>1 DEF logsOpened
<1>6. \A f \in DOMAIN wal' : fileOpened(wal'[f], skl'[f])
  BY <1>1, FilesOpened
<1>7. ~ committing' /\ \A f : underWay(f)' = 0
  BY <1>3 DEF committing, underWay, Idle
<1>8. MemtablesMade'
  <2>1. imm' \in Seq(live) /\ ToSet(imm') = live /\ \A i, j \in DOMAIN imm' : imm'[i] = imm'[j] => i = j
    <3>1. live \in SUBSET Nat /\ IsFiniteSet(live)
      <4>1. new - 1 \in Nat
        BY <1>1, <1>4, RecoveryAssumption
      <4>2. IsFiniteSet(1 .. new - 1) /\ 1 .. new - 1 \subseteq Nat
        BY <4>1, FS_Interval
      <4>. QED BY <1>1, <4>2, FS_Subset
    <3>. QED BY <1>1, <3>1, RankOrder
  <2>2. nextMem' \in 1 .. RMaxWal + 2 + nCrash /\ live \cup {new} \subseteq 1 .. nextMem' - 1 /\ new \notin live
    <3>1. RMaxWal \in Nat
      BY RecoveryAssumption
    <3>2. nextMem' \in 1 .. RMaxWal + 2 + nCrash /\ nextMem' - 1 = new /\ new \in 1 .. new
      BY <1>1, <1>4, <3>1
    <3>3. \A f \in 1 .. new - 1 : f \in 1 .. new
      BY <1>1, <1>4, <3>1
    <3>. QED BY <1>1, <1>5, <3>2, <3>3
  <2>3. \A f \in DOMAIN wal' : logMade(wal'[f], skl'[f], underWay(f)')
    BY <1>6, <1>7 DEF fileOpened
  <2>4. mt' \notin ToSet(imm') /\ DOMAIN skl' = {mt'} \cup ToSet(imm') /\ DOMAIN wal' = DOMAIN skl'
    BY <1>1, <1>5, <2>1, <2>2
  <2>. QED BY <1>2, <1>4, <1>5, <2>1, <2>2, <2>3, <2>4 DEF MemtablesMade
<1>9. /\ \A f \in DOMAIN wal' : logLeft(f)' = skl'[f]
      /\ settled' = allLeft /\ visible' = allLeft
  <2>1. \A f \in DOMAIN wal' : logLeft(f)' = skl'[f]
    BY <1>6 DEF fileOpened, logLeft
  <2>2. \A c : c \in settled' <=> c \in inTables' \/ \E f \in DOMAIN wal' : c \in logLeft(f)'
    BY DEF settled
  <2>3. \A c : c \in visible' <=> c \in inTables' \/ \E f \in DOMAIN skl' : c \in skl'[f]
    BY DEF visible, inTables
  <2>4. \A c : (\E f \in DOMAIN wal' : c \in skl'[f]) <=> \E f \in live : c \in logLeft(f)
    BY <1>5
  <2>5. \A c : c \in settled' <=> c \in allLeft
    BY <1>1, <2>1, <2>2, <2>4
  <2>6. \A c : c \in visible' <=> c \in allLeft
    BY <1>1, <1>5, <2>3, <2>4
  <2>. QED BY <2>1, <2>5, <2>6
<1>10. nextTs' \in 1 .. nCommit + 1 /\ \A c \in allLeft : c.e.ts \in 1 .. nextTs' - 1
  <2>1. PICK S : S = {0} \cup {c.e.ts : c \in allLeft}
    OBVIOUS
  <2>2. nCommit \in Nat
    BY <1>4
  <2>3. S \in SUBSET (0 .. nCommit) /\ S # {}
    <3>1. \A c \in allLeft : c.e.ts \in 0 .. nCommit
      <4>1. 1 .. nCommit \subseteq 0 .. nCommit
        BY <2>2
      <4>. QED BY <1>4, <4>1
    <3>2. 0 \in 0 .. nCommit
      BY <2>2
    <3>. QED BY <2>1, <3>1, <3>2
  <2>4. PICK m : m = Max(S) /\ m \in S /\ \A y \in S : y <= m
    BY <2>2, <2>3, MaxBounded
  <2>5. nextTs' = m + 1 /\ m \in 0 .. nCommit
    BY <1>1, <2>1, <2>3, <2>4 DEF MaxVersion
  <2>6. ASSUME NEW c \in allLeft PROVE c.e.ts \in 1 .. nextTs' - 1
    <3>1. c.e.ts <= m /\ c.e.ts \in 1 .. nCommit
      BY <1>4, <2>1, <2>4
    <3>. QED BY <2>2, <2>5, <3>1
  <2>. QED BY <2>2, <2>5, <2>6
<1>11. VersionsMade'
  BY <1>2, <1>4, <1>9, <1>10 DEF VersionsMade
<1>12. WriterMade' /\ JobsMade'
  BY <1>3 DEF WriterMade, JobsMade, Idle
<1>13. ValuesMade
  BY DEF DataDown
<1>14. ASSUME NEW t \in Tracks
       PROVE  /\ vlogf'[t] \in Seq(Seq(started)) /\ vlogf'[t] # <<>> /\ Last(vlogf'[t]) = <<>>
              /\ \A n \in DOMAIN vlogf[t] : n \in DOMAIN vlogf'[t] /\ vlogf'[t][n] = vlogf[t][n]
  <2>1. PICK F, G : F = vlogf[t] /\ G = Append(F, <<>>)
    OBVIOUS
  <2>2. F \in Seq(Seq(started))
    BY <1>13, <2>1 DEF ValuesMade
  <2>3. <<>> \in Seq(started)
    OBVIOUS
  <2>4. /\ G \in Seq(Seq(started)) /\ G # <<>> /\ Len(G) = Len(F) + 1 /\ G[Len(F) + 1] = <<>>
        /\ \A n \in DOMAIN F : n \in DOMAIN G /\ G[n] = F[n]
    <3>1. PICK D : D = Seq(started)
      OBVIOUS
    <3>2. F \in Seq(D) /\ <<>> \in D
      BY <2>2, <2>3, <3>1
    <3>3. G \in Seq(D) /\ Len(G) = Len(F) + 1 /\ Len(F) \in Nat /\ G[Len(F) + 1] = <<>>
      BY <2>1, <3>2
    <3>4. G # <<>>
      BY <3>3
    <3>5. \A n \in DOMAIN F : n \in DOMAIN G /\ G[n] = F[n]
      BY <2>1, <3>2
    <3>. QED BY <3>1, <3>3, <3>4, <3>5
  <2>. QED BY <1>2, <2>1, <2>4 DEF Last
<1>15. ValuesMade'
  <2>1. DOMAIN vlogf' = Tracks /\ vsynced' \in [Tracks -> Nat] /\ \A t \in Tracks : vsynced'[t] = 0
    BY <1>2
  <2>2. Len(<<>>) = 0
    OBVIOUS
  <2>. QED BY <1>2, <1>14, <2>1, <2>2 DEF ValuesMade
<1>16. \A f \in DOMAIN wal' : \A k \in mayBeLeft(wal[f])' : readTo(wal'[f], k) = skl'[f]
  <2>1. \A f \in DOMAIN wal' : mayBeLeft(wal[f])' = {Len(wal'[f].recs)}
    BY <1>6 DEF fileOpened, mayBeLeft
  <2>. QED BY <1>6, <2>1 DEF fileOpened
<1>17. ASSUME safe' PROVE Pointed' /\ KeptMade'
  <2>1. /\ \A c \in allLeft : readableValue(c)
        /\ acked \subseteq entriesIn(allLeft) /\ closed(entriesIn(allLeft))
    BY <1>2, <1>17 DEF safe, DataDown
  <2>2. ASSUME NEW c \in allLeft PROVE readableValue(c)'
    <3>1. c.tr \in Tracks /\ c.file \in DOMAIN vlogf[c.tr] /\ c.pos \in Nat \ {0} /\ readableValue(c)
      BY <2>1 DEF readableValue
    <3>2. c.file \in DOMAIN vlogf'[c.tr] /\ vlogf'[c.tr][c.file] = vlogf[c.tr][c.file]
      BY <1>14, <3>1
    <3>. QED BY <3>1, <3>2 DEF readableValue
  <2>3. \A f \in DOMAIN wal' : skl'[f] \subseteq allLeft
    BY <1>1, <1>5
  <2>4. Pointed'
    <3>1. \A f \in DOMAIN wal' : \A k \in mayBeLeft(wal[f])' : \A c \in readTo(wal'[f], k) : readableValue(c)'
      BY <1>16, <2>2, <2>3
    <3>. QED BY <1>3, <1>9, <2>2, <3>1 DEF Pointed, Idle
  <2>5. \A e \in entriesIn(allLeft) : isLeft(e)'
    <3>. SUFFICES ASSUME NEW e \in entriesIn(allLeft) PROVE isLeft(e)'
      OBVIOUS
    <3>1. PICK c \in allLeft : c.e = e
      BY InEntries
    <3>2. CASE c \in tablesLeft
      <4>1. e \in entriesIn(inTables')
        BY <1>1, <3>1, <3>2, InEntries
      <4>. QED BY <4>1 DEF isLeft
    <3>3. ASSUME NEW f \in live, c \in logLeft(f) PROVE isLeft(e)'
      <4>1. f \in DOMAIN wal' /\ e \in entriesIn(skl'[f])
        BY <1>5, <3>1, <3>3, InEntries
      <4>2. staysIn(wal[f], e)'
        BY <1>16, <4>1 DEF staysIn
      <4>. QED BY <4>1, <4>2 DEF isLeft
    <3>. QED BY <1>1, <3>2, <3>3
  <2>. QED BY <1>2, <1>9, <2>1, <2>4, <2>5 DEF KeptMade, closed
<1>18. ASSUME nMoved' = 0 PROVE WholeCommits'
  <2>1. closed(entriesIn(tablesLeft)) /\ \A f \in DOMAIN wal : closed(entriesIn(logLeft(f)))
    BY <1>2, <1>18 DEF DataDown
  <2>2. \A f \in DOMAIN wal' : closed(entriesIn(skl'[f]))
    BY <1>5, <2>1, NoEntries DEF closed
  <2>3. \A f \in DOMAIN wal' : \A k \in afterLosing(wal'[f]) : closed(entriesIn(readTo(wal'[f], k)))
    BY <1>6, <2>2 DEF fileOpened
  <2>4. \A S : closed(S)' <=> closed(S)
    BY <1>2 DEF closed
  <2>. QED BY <1>1, <2>1, <2>3, <2>4 DEF WholeCommits
<1>. QED BY <1>8, <1>11, <1>12, <1>15, <1>17, <1>18 DEF DataUp

-----------------------------------------------------------------------------
LEMMA DurableStarts == RecoveryInit => DurableInv
<1>. SUFFICES ASSUME RecoveryInit PROVE DurableInv
  OBVIOUS
<1>1. /\ wal = [f \in {1} |-> EmptyFile] /\ sst = [i \in {} |-> {}]
      /\ vlogf = [t \in Tracks |-> <<<<>>>>] /\ vsynced = [t \in Tracks |-> 0]
      /\ status = "up" /\ mt = 1 /\ imm = <<>> /\ skl = [f \in {1} |-> {}] /\ tables = [i \in {} |-> 0]
      /\ nextTs = 1 /\ nextMem = 2 /\ writer = Idle /\ flusher = Idle /\ compactor = Idle
      /\ nCommit = 0 /\ nCrash = 0 /\ nMoved = 0 /\ started = {} /\ acked = {}
  BY DEF RecoveryInit, EmptyFile
<1>2. DOMAIN wal = {1} /\ DOMAIN skl = {1} /\ wal[1] = EmptyFile /\ skl[1] = {} /\ DOMAIN tables = {} /\ ToSet(imm) = {}
  BY <1>1 DEF ToSet
<1>3. \A f : underWay(f) = 0
  BY <1>1 DEF underWay, committing, Idle
<1>4. logMade(EmptyFile, {}, 0)
  BY EmptyLog DEF EmptyFile
<1>5. MemtablesMade
  <2>1. 2 \in 1 .. RMaxWal + 2 + 0 /\ {1} \subseteq 1 .. 2 - 1 /\ 0 \in Nat
    BY RecoveryAssumption
  <2>2. imm \in Seq(ToSet(imm)) /\ \A i, j \in DOMAIN imm : imm[i] = imm[j] => i = j
    BY <1>1
  <2>. QED BY <1>1, <1>2, <1>3, <1>4, <2>1, <2>2 DEF MemtablesMade
<1>6. UpdateSkipList(EmptyFile.recs).out = {} /\ afterLosing(EmptyFile) = {0} /\ readTo(EmptyFile, 0) = {}
  <2>1. logFacts(EmptyFile, {}, 0, UpdateSkipList(EmptyFile.recs))
    BY <1>4, LogFacts
  <2>2. Len(EmptyFile.recs) = 0 /\ EmptyFile.synced = 0 /\ 0 .. 0 = {0}
    BY DEF EmptyFile
  <2>3. UpdateSkipList(EmptyFile.recs).out = {} /\ readTo(EmptyFile, 0) = UpdateSkipList(EmptyFile.recs).out
    BY <2>1, <2>2 DEF logFacts
  <2>. QED BY <2>2, <2>3 DEF afterLosing
<1>7. visible = {} /\ settled = {} /\ inTables = {}
  <2>1. inTables = {}
    BY <1>2, InTables
  <2>2. \A f \in DOMAIN wal : logLeft(f) = {}
    BY <1>2, <1>6 DEF logLeft
  <2>. QED BY <1>2, <2>1, <2>2, SettledIs, VisibleIs
<1>8. WriterMade /\ VersionsMade
  BY <1>1, <1>7, NoEntries DEF WriterMade, VersionsMade, oneVersion
<1>9. JobsMade
  BY <1>1 DEF JobsMade, Idle
<1>10. ValuesMade
  <2>1. <<<<>>>> \in Seq(Seq({})) /\ <<<<>>>> # <<>> /\ Last(<<<<>>>>) = <<>> /\ Len(<<>>) = 0
    BY DEF Last
  <2>. QED BY <1>1, <2>1 DEF ValuesMade
<1>11. Pointed
  <2>1. \A k \in mayBeLeft(EmptyFile) : readTo(EmptyFile, k) = {}
    <3>1. Len(EmptyFile.recs) = 0
      BY DEF EmptyFile
    <3>. QED BY <1>6, <3>1 DEF mayBeLeft
  <2>. QED BY <1>1, <1>2, <1>7, <2>1 DEF Pointed, Idle
<1>12. KeptMade
  BY <1>1, <1>7, NoEntries DEF KeptMade, closed
<1>13. WholeCommits
  BY <1>2, <1>6, <1>7, NoEntries DEF WholeCommits, closed
<1>. QED BY <1>1, <1>5, <1>8, <1>9, <1>10, <1>11, <1>12, <1>13 DEF DurableInv, DataUp

LEMMA StutterKeepsData == DurableInv /\ UNCHANGED recoveryVars => DurableInv'
<1>. SUFFICES ASSUME DurableInv, UNCHANGED recoveryVars PROVE DurableInv'
  OBVIOUS
<1>1. UNCHANGED <<wal, manifest, sst, vlogf, vsynced, status, syncWrites, mt, imm, skl, tables, nextTs, nextMem,
                  writer, flusher, compactor, nCommit, nCrash, nMoved, started, acked, lossy>>
  BY DEF recoveryVars, diskVars, memVars, jobVars, histVars
<1>2. /\ visible' = visible /\ inTables' = inTables /\ settled' = settled /\ pending' = pending
      /\ tablesLeft' = tablesLeft /\ allLeft' = allLeft /\ safe' = safe /\ \A f : logLeft(f)' = logLeft(f)
  BY <1>1 DEF visible, inTables, settled, pending, logLeft, tablesLeft, allLeft, safe
<1>3. /\ \A f : underWay(f)' = underWay(f) /\ mayBeLeft(wal[f])' = mayBeLeft(wal[f])
      /\ \A S : closed(S)' <=> closed(S)
      /\ \A c : readableValue(c)' <=> readableValue(c)
  BY <1>1 DEF underWay, committing, mayBeLeft, closed, readableValue
<1>4. \A e : isLeft(e)' <=> isLeft(e)
  BY <1>1, <1>2, <1>3 DEF isLeft, staysIn
<1>5. (WriterMade => WriterMade') /\ (VersionsMade => VersionsMade')
  BY <1>1, <1>2 DEF WriterMade, CommitMade, VersionsMade
<1>6. (MemtablesMade => MemtablesMade') /\ (JobsMade => JobsMade') /\ (ValuesMade => ValuesMade')
  BY <1>1, <1>2, <1>3 DEF MemtablesMade, JobsMade, ValuesMade
<1>7. (Pointed => Pointed') /\ (KeptMade => KeptMade') /\ (WholeCommits => WholeCommits')
  BY <1>1, <1>2, <1>3, <1>4 DEF Pointed, KeptMade, WholeCommits
<1>8. DataUp => DataUp'
  BY <1>1, <1>2, <1>5, <1>6, <1>7 DEF DataUp
<1>9. DataDown => DataDown'
  BY <1>1, <1>2, <1>3, <1>6 DEF DataDown
<1>. QED BY <1>1, <1>8, <1>9 DEF DurableInv

(* Only an open store works.                                               *)
LEMMA WorksWhenUp ==
  ASSUME ManifestInv, writeStep \/ flushStep \/ mergeStep
  PROVE  status = "up" /\ status' = "up"
<1>1. status # "up" => writer = Idle /\ flusher = Idle /\ compactor = Idle
  BY DEF ManifestInv
<1>2. Idle.phase = "idle"
  BY DEF Idle
<1>3. writeStep => status = "up" /\ status' = status
  BY <1>1, <1>2 DEF writeStep, startCommit, startMoved, memPut, memPutFin, newMemTable, SyncWAL, vlogSync
<1>4. flushStep => status = "up" /\ status' = status
  BY <1>1, <1>2 DEF flushStep, flushBuild, flushManifest, flushAdd, flushError, flushDone
<1>5. mergeStep => status = "up" /\ status' = status
  BY <1>1, <1>2 DEF mergeStep, compactBuild, compactManifest, compactReplace, compactDelete
<1>. QED BY <1>3, <1>4, <1>5

LEMMA DurableKept == ManifestInv /\ DurableInv /\ [RecoveryNext]_recoveryVars => DurableInv'
<1>. SUFFICES ASSUME ManifestInv, DurableInv, [RecoveryNext]_recoveryVars PROVE DurableInv'
  OBVIOUS
<1>1. CASE writeStep
  <2>1. status = "up" /\ status' = "up"
    BY <1>1, WorksWhenUp
  <2>. QED BY <1>1, <2>1, WritesKeepData DEF DurableInv
<1>2. CASE flushStep \/ mergeStep
  <2>1. status = "up" /\ status' = "up"
    BY <1>2, WorksWhenUp
  <2>. QED BY <1>2, <2>1, JobsKeepData DEF DurableInv
<1>3. CASE CrashProcess \/ CrashMachine \/ Close
  <2>1. status = "up"
    BY <1>3 DEF CrashProcess, CrashMachine, Close
  <2>. QED BY <1>3, <2>1, GoingDownKeepsData DEF DurableInv
<1>4. CASE Open
  <2>1. status = "down" /\ status' = "up"
    BY <1>4 DEF Open
  <2>. QED BY <1>4, <2>1, OpenKeepsData DEF DurableInv
<1>5. CASE OpenError
  BY <1>5 DEF OpenError, DurableInv
<1>6. CASE UNCHANGED recoveryVars
  BY <1>6, StutterKeepsData
<1>. QED BY <1>1, <1>2, <1>3, <1>4, <1>5, <1>6 DEF RecoveryNext

(* What the logs and the tables hold and will still hold when the store is *)
(* reopened is the same after every step, crashes included: the order of   *)
(* log, finish mark, sync, table file, manifest and removal (memTable.Put, *)
(* flushMemtable, addChanges, Open) never leaves a commit in neither.      *)
THEOREM DurableInvariant == RecoverySpec => []DurableInv
<1>1. RecoveryInit => DurableInv
  BY DurableStarts
<1>2. ManifestInv /\ DurableInv /\ [RecoveryNext]_recoveryVars => DurableInv'
  BY DurableKept
<1>. QED BY <1>1, <1>2, ManifestInvariant, PTL DEF RecoverySpec

LEMMA DurableAcked == DurableInv => AckedSurvive
<1>. SUFFICES ASSUME DurableInv, status = "up", syncWrites \/ ~ lossy, NEW e \in acked
              PROVE  /\ \E c \in visible : c.e = e /\ readableValue(c)
                     /\ \A c \in visible : c.e.key = e.key /\ c.e.ts = e.ts => c.e = e
  BY DEF AckedSurvive
<1>1. MemtablesMade /\ VersionsMade /\ KeptMade /\ Pointed
  BY DEF DurableInv, DataUp, safe
<1>2. visible = settled \cup pending
  BY <1>1, MemtablesRead
<1>3. e \in entriesIn(settled)
  BY <1>1 DEF KeptMade
<1>4. PICK c \in settled : c.e = e
  BY <1>3, InEntries
<1>5. c \in visible /\ readableValue(c)
  BY <1>1, <1>2 DEF Pointed, readableValue
<1>6. \A d \in visible : d.e.key = e.key /\ d.e.ts = e.ts => d.e = e
  BY <1>1, <1>4, <1>5 DEF VersionsMade, oneVersion
<1>. QED BY <1>4, <1>5, <1>6

(* A commit that returned is there with its values after every reopening,  *)
(* under its own timestamp (writeRequests, memTable.UpdateSkipList, Open). *)
THEOREM CommitsThatReturnedStay == RecoverySpec => []AckedSurvive
BY DurableInvariant, DurableAcked, PTL

LEMMA DurableAtomic == DurableInv => CommitsAtomic
<1>. SUFFICES ASSUME DurableInv, status = "up", syncWrites \/ ~ lossy \/ nMoved = 0,
                     NEW e \in entriesIn(visible), e.id \notin inProgress
              PROVE  entriesOf(e.id, entriesIn(visible)) = entriesOf(e.id, started)
  BY DEF CommitsAtomic, entriesIn
<1>1. MemtablesMade /\ VersionsMade /\ WriterMade
  BY DEF DurableInv, DataUp
<1>2. /\ visible = settled \cup pending /\ (~ committing => pending = {}) /\ LogsRead
  BY <1>1, MemtablesRead
<1>3. entriesIn(visible) \subseteq started
  BY <1>1 DEF VersionsMade
<1>4. e \in entriesIn(settled)
  <2>1. PICK c \in visible : c.e = e
    BY InEntries
  <2>2. ASSUME c \in pending PROVE FALSE
    <3>1. writer.phase = "lsm" /\ writer.txn /\ writer # Idle
      BY <1>2, <2>2 DEF committing, Idle
    <3>2. CommitMade
      BY <1>1, <3>1 DEF WriterMade
    <3>3. e \in writer.entries
      BY <2>1, <2>2, <3>2, InEntries DEF CommitMade
    <3>. QED BY <3>1, <3>3 DEF inProgress
  <2>. QED BY <1>2, <2>1, <2>2, InEntries
<1>5. PICK E : e \in E /\ closed(E) /\ E \subseteq entriesIn(visible)
  <2>1. CASE safe
    <3>1. closed(entriesIn(settled))
      BY <2>1 DEF DurableInv, DataUp, KeptMade
    <3>2. entriesIn(settled) \subseteq entriesIn(visible)
      BY <1>2, EntriesMonotone
    <3>. QED BY <1>4, <3>1, <3>2
  <2>2. CASE nMoved = 0
    <3>1. WholeCommits
      BY <2>2 DEF DurableInv, DataUp
    <3>2. PICK c \in settled : c.e = e
      BY <1>4, InEntries
    <3>3. CASE c \in inTables
      <4>1. inTables \subseteq visible
        BY <1>2, SettledIs
      <4>. QED BY <3>1, <3>2, <3>3, <4>1, InEntries, EntriesMonotone DEF WholeCommits
    <3>4. ASSUME NEW f \in DOMAIN wal, c \in logLeft(f)
          PROVE  e \in entriesIn(logLeft(f)) /\ closed(entriesIn(logLeft(f))) /\ entriesIn(logLeft(f)) \subseteq entriesIn(visible)
      <4>1. logFacts(wal[f], skl[f], underWay(f), UpdateSkipList(wal[f].recs))
        BY <1>2 DEF LogsRead
      <4>2. Len(wal[f].recs) \in afterLosing(wal[f]) /\ readTo(wal[f], Len(wal[f].recs)) = logLeft(f)
        BY <4>1 DEF logFacts, logLeft
      <4>3. closed(entriesIn(logLeft(f)))
        BY <3>1, <4>2 DEF WholeCommits
      <4>4. logLeft(f) \subseteq visible
        BY <1>2, SettledIs
      <4>. QED BY <3>2, <3>4, <4>3, <4>4, InEntries, EntriesMonotone
    <3>. QED BY <3>2, <3>3, <3>4, SettledIs
  <2>. QED BY <2>1, <2>2 DEF safe
<1>. QED BY <1>3, <1>5 DEF closed, entriesOf

(* Of every commit the store holds all entries or none, through crashes of *)
(* either kind: replay waits for the finish mark and both tables of a      *)
(* flush reach the manifest in one record.                                 *)
THEOREM CommitsAreWhole == RecoverySpec => []CommitsAtomic
BY DurableInvariant, DurableAtomic, PTL

-----------------------------------------------------------------------------
(* What Sync covered.  A copy that is kept is settled.                     *)
keptSettled == \A c : keptCopy(c) => c \in settled

LEMMA KeptIsSettled == MemtablesMade => keptSettled
<1>. SUFFICES ASSUME MemtablesMade, NEW c, keptCopy(c) PROVE c \in settled
  BY DEF keptSettled
<1>1. ASSUME NEW f \in DOMAIN wal, \A k \in afterLosing(wal[f]) : c \in readTo(wal[f], k) PROVE c \in logLeft(f)
  <2>1. logFacts(wal[f], skl[f], underWay(f), UpdateSkipList(wal[f].recs))
    BY MemtablesRead DEF LogsRead
  <2>. QED BY <1>1, <2>1 DEF logFacts, logLeft
<1>. QED BY <1>1, SettledIs DEF keptCopy

LEMMA KeptIsSettledNext == MemtablesMade' => keptSettled'
BY KeptIsSettled, PTL

(* A step keeps the copies if of every log it leaves what it may lose now, *)
(* and more, or if the tables have all of it.                              *)
logStays(f) ==
  \/ /\ f \in DOMAIN wal'
     /\ \A k \in afterLosing(wal'[f]) : \E j \in afterLosing(wal[f]) : readTo(wal[f], j) \subseteq readTo(wal'[f], k)
  \/ logLeft(f) \subseteq inTables'
copiesStay == \A c : keptCopy(c) => keptCopy(c)'
valuesStay == \A c : (coldValue(c) => coldValue(c)') /\ (syncedValue(c) => syncedValue(c)')

LEMMA CopiesStay ==
  ASSUME MemtablesMade, inTables \subseteq inTables', \A f \in DOMAIN wal : logStays(f)
  PROVE  copiesStay
<1>. SUFFICES ASSUME NEW c, keptCopy(c) PROVE keptCopy(c)'
  BY DEF copiesStay
<1>1. CASE c \in inTables
  BY <1>1 DEF keptCopy
<1>2. ASSUME NEW f \in DOMAIN wal, \A k \in afterLosing(wal[f]) : c \in readTo(wal[f], k) PROVE keptCopy(c)'
  <2>1. CASE logLeft(f) \subseteq inTables'
    <3>1. logFacts(wal[f], skl[f], underWay(f), UpdateSkipList(wal[f].recs))
      BY MemtablesRead DEF LogsRead
    <3>2. c \in logLeft(f)
      BY <1>2, <3>1 DEF logFacts, logLeft
    <3>. QED BY <2>1, <3>2 DEF keptCopy
  <2>2. CASE ~ (logLeft(f) \subseteq inTables')
    <3>1. /\ f \in DOMAIN wal'
          /\ \A k \in afterLosing(wal'[f]) : \E j \in afterLosing(wal[f]) : readTo(wal[f], j) \subseteq readTo(wal'[f], k)
      BY <2>2 DEF logStays
    <3>2. \A k \in afterLosing(wal'[f]) : c \in readTo(wal'[f], k)
      BY <1>2, <3>1
    <3>. QED BY <3>1, <3>2 DEF keptCopy
  <2>. QED BY <2>1, <2>2
<1>. QED BY <1>1, <1>2 DEF keptCopy

LEMMA SameLogStays == ASSUME NEW f, f \in DOMAIN wal', wal'[f] = wal[f] PROVE logStays(f)
BY DEF logStays

LEMMA ValuesStay == ASSUME UNCHANGED <<vlogf, vsynced>> PROVE valuesStay
BY DEF valuesStay, coldValue, syncedValue, readableValue

LEMMA SyncCarried ==
  ASSUME SyncUp, MemtablesMade', copiesStay, valuesStay, UNCHANGED <<syncer, promised>>,
         committing' => acked' \cap writer'.entries = {}
  PROVE  SyncUp'
<1>1. \A c : keptCopy(c) => c \in settled' /\ keptCopy(c)'
  BY KeptIsSettledNext DEF copiesStay, keptSettled
<1>2. \A p \in promised : p.safe => \E c : c.e = p.e /\ keptCopy(c) /\ syncedValue(c)
  BY DEF SyncUp
<1>3. \A p \in promised' : p.safe => \E c \in settled' : c.e = p.e /\ keptCopy(c)' /\ syncedValue(c)'
  BY <1>1, <1>2 DEF valuesStay
<1>4. syncer # Idle => \A p \in syncer.covers : p.safe => \E c : c.e = p.e /\ keptCopy(c) /\ coldValue(c)
  BY DEF SyncUp
<1>5. syncer' # Idle => \A p \in syncer'.covers : p.safe => \E c \in settled' : c.e = p.e /\ keptCopy(c)' /\ coldValue(c)'
  BY <1>1, <1>4 DEF valuesStay
<1>. QED BY <1>3, <1>5 DEF SyncUp, Idle

-----------------------------------------------------------------------------
(* The writer.                                                             *)
LEMMA MemPutKeepsSync ==
  ASSUME DataUp, DataUp', status = "up", nMoved = 0, acked \subseteq started, SyncUp, memPut
  PROVE  acked' \subseteq started' /\ SyncUp'
<1>1. WriterMade /\ MemtablesMade /\ MemtablesMade'
  BY DEF DataUp
<1>2. PICK c, N, rest : putting(c, N, rest)
  BY <1>1, PutIs
<1>. PICK L, s, t, r, M : L = wal[mt] /\ s = skl[mt] /\ t = underWay(mt) /\ r = [kind |-> "txn", c |-> c] /\ M = N
  OBVIOUS
<1>3. /\ writer.phase = "lsm" /\ M = appended(L, [kind |-> IF writer.txn THEN "txn" ELSE "moved", c |-> c])
      /\ DOMAIN wal' = DOMAIN wal /\ wal'[mt] = M /\ \A f \in DOMAIN wal : f # mt => wal'[f] = wal[f]
      /\ writer'.phase = "lsm" /\ writer'.txn = writer.txn /\ writer'.entries = writer.entries
      /\ UNCHANGED <<sst, vlogf, vsynced, tables, mt, started, acked>>
  BY <1>2 DEF putting
<1>4. writer.txn
  BY <1>1, <1>3 DEF WriterMade, Idle
<1>5. logMade(L, s, t) /\ mt \in DOMAIN wal
  BY <1>1 DEF MemtablesMade
<1>6. M.recs = Append(L.recs, r) /\ M.synced = L.synced
  <2>1. DOMAIN L = {"recs", "synced"}
    BY <1>5 DEF logMade
  <2>2. M = appended(L, r)
    BY <1>3, <1>4
  <2>. QED BY <2>1, <2>2 DEF appended
<1>7. grown(L, M, r)
  BY <1>5, <1>6, AppendedLog
<1>. PICK a, b : a = UpdateSkipList(L.recs) /\ b = UpdateSkipList(M.recs)
  OBVIOUS
<1>8. logFacts(L, s, t, a)
  BY <1>5, LogFacts
<1>9. b.out = a.out
  <2>1. b = replayEntry(a, r)
    BY <1>7 DEF grown
  <2>2. entryTo(a, r, b)
    BY <1>8, <2>1, EntryReplayed DEF logFacts
  <2>. QED BY <1>8, <2>2 DEF entryTo, logFacts
<1>10. \A k \in afterLosing(M) : \E j \in afterLosing(L) : readTo(L, j) \subseteq readTo(M, k)
  <2>1. Len(L.recs) \in afterLosing(L) /\ readTo(L, Len(L.recs)) = a.out
    BY <1>8 DEF logFacts
  <2>2. readTo(M, Len(M.recs)) = b.out
    BY <1>7 DEF grown
  <2>3. \A k \in afterLosing(M) : (k \in afterLosing(L) /\ readTo(M, k) = readTo(L, k)) \/ k = Len(M.recs)
    BY <1>7 DEF grown
  <2>. QED BY <1>9, <2>1, <2>2, <2>3
<1>11. \A f \in DOMAIN wal : logStays(f)
  <2>1. logStays(mt)
    BY <1>3, <1>5, <1>10 DEF logStays
  <2>. QED BY <1>3, <2>1, SameLogStays
<1>12. inTables' = inTables /\ UNCHANGED <<syncer, promised>>
  BY <1>3 DEF inTables, memPut, histVars
<1>13. copiesStay /\ valuesStay
  BY <1>1, <1>3, <1>11, <1>12, CopiesStay, ValuesStay
<1>14. committing /\ acked \cap writer.entries = {}
  BY <1>3, <1>4 DEF committing, SyncUp
<1>. QED BY <1>1, <1>3, <1>12, <1>13, <1>14, SyncCarried

LEMMA MemPutFinKeepsSync ==
  ASSUME DataUp, DataUp', status = "up", nMoved = 0, acked \subseteq started, SyncUp, memPutFin
  PROVE  acked' \subseteq started' /\ SyncUp'
<1>1. WriterMade /\ MemtablesMade /\ MemtablesMade'
  BY DEF DataUp
<1>2. PICK L, M, s : ending(L, M, s)
  BY <1>1, EndIs
<1>3. /\ writer.phase = "lsm" /\ writer' = Idle /\ acked' = acked \cup writer.entries
      /\ DOMAIN wal' = DOMAIN wal /\ wal'[mt] = M /\ \A f \in DOMAIN wal : f # mt => wal'[f] = wal[f]
      /\ UNCHANGED <<sst, vlogf, vsynced, tables, mt, started>> /\ L = wal[mt] /\ s = skl[mt]
  BY <1>2 DEF ending
<1>4. writer.txn
  BY <1>1, <1>3 DEF WriterMade, Idle
<1>5. ended(L, M, s) /\ writer.entries = {e \in started : e.id = nCommit}
  BY <1>2, <1>4, CommitEnded
<1>6. /\ LogsRead /\ mt \in DOMAIN wal /\ s = logLeft(mt) \cup pending
  BY <1>1, <1>3, MemtablesRead
<1>7. \A k \in afterLosing(M) : \E j \in afterLosing(L) : readTo(L, j) \subseteq readTo(M, k)
  <2>1. logFacts(L, s, underWay(mt), UpdateSkipList(L.recs))
    BY <1>3, <1>6 DEF LogsRead
  <2>2. Len(L.recs) \in afterLosing(L) /\ readTo(L, Len(L.recs)) = logLeft(mt)
    BY <1>3, <2>1 DEF logFacts, logLeft
  <2>. QED BY <1>5, <1>6, <2>2 DEF ended
<1>8. \A f \in DOMAIN wal : logStays(f)
  <2>1. logStays(mt)
    BY <1>3, <1>6, <1>7 DEF logStays
  <2>. QED BY <1>3, <2>1, SameLogStays
<1>9. inTables' = inTables /\ UNCHANGED <<syncer, promised>>
  BY <1>3 DEF inTables, memPutFin
<1>10. copiesStay /\ valuesStay
  BY <1>1, <1>3, <1>8, <1>9, CopiesStay, ValuesStay
<1>11. ~ committing'
  BY <1>3 DEF committing, Idle
<1>12. acked' \subseteq started'
  BY <1>3, <1>5
<1>. QED BY <1>1, <1>9, <1>10, <1>11, <1>12, SyncCarried

LEMMA NewMemTableKeepsSync ==
  ASSUME DataUp, DataUp', status = "up", SyncUp, newMemTable
  PROVE  SyncUp'
<1>1. MemtablesMade /\ MemtablesMade'
  BY DEF DataUp
<1>2. PICK n, M : n = nextMem /\ M = [recs |-> <<>>, synced |-> 0]
  OBVIOUS
<1>3. /\ writer = Idle /\ wal' = with(wal, n, M)
      /\ UNCHANGED <<sst, vlogf, vsynced, tables, writer, syncer, promised>>
  BY <1>2 DEF newMemTable, jobVars, histVars
<1>4. n \notin DOMAIN wal
  <2>0. DOMAIN wal \subseteq 1 .. n - 1 /\ n \in 1 .. RMaxWal + 2 + nCrash
    BY <1>1, <1>2 DEF MemtablesMade
  <2>1. DOMAIN wal \subseteq 1 .. n - 1 /\ n \in Int
    BY <2>0
  <2>2. n \notin 1 .. n - 1
    BY <2>1
  <2>. QED BY <2>1, <2>2
<1>5. \A f \in DOMAIN wal : f \in DOMAIN wal' /\ wal'[f] = wal[f]
  BY <1>3, <1>4 DEF with
<1>6. inTables' = inTables
  BY <1>3 DEF inTables
<1>7. copiesStay /\ valuesStay
  BY <1>1, <1>3, <1>5, <1>6, SameLogStays, CopiesStay, ValuesStay
<1>8. ~ committing'
  BY <1>3 DEF committing, Idle
<1>. QED BY <1>1, <1>3, <1>7, <1>8, SyncCarried

(* Sync covers what the active log has, which it has just synced, and what *)
(* the tables have; an entry of a commit under way was not acknowledged.   *)
LEMMA SyncWALKeepsSync ==
  ASSUME DataUp, DataUp', status = "up", nMoved = 0, SyncUp, SyncWAL
  PROVE  SyncUp'
<1>1. WriterMade /\ MemtablesMade /\ MemtablesMade'
  BY DEF DataUp
<1>2. /\ LogsRead /\ mt \in DOMAIN wal /\ DOMAIN skl = DOMAIN wal /\ (~ committing => pending = {})
      /\ skl[mt] = logLeft(mt) \cup pending /\ DOMAIN skl = {mt} \cup ToSet(imm)
  BY <1>1, MemtablesRead DEF MemtablesMade
<1>. PICK L, M, n : L = wal[mt] /\ M = [L EXCEPT !.synced = Len(L.recs)] /\ n = Len(L.recs)
  OBVIOUS
<1>3. /\ wal' = [wal EXCEPT ![mt] = M]
      /\ syncer' = [phase |-> "vlog", covers |-> {covered(c) : c \in {d \in visible : d.e \in acked /\ readableValue(d)}}]
      /\ UNCHANGED <<sst, vlogf, vsynced, mt, imm, skl, tables, writer, acked, promised>>
  BY <1>2 DEF SyncWAL, memVars, histVars
<1>4. logMade(L, skl[mt], underWay(mt)) /\ logFacts(L, skl[mt], underWay(mt), UpdateSkipList(L.recs))
  BY <1>1, <1>2 DEF MemtablesMade, LogsRead
<1>5. M.recs = L.recs /\ M.synced = n
  BY <1>4 DEF logMade
<1>6. afterLosing(M) = {n} /\ n \in afterLosing(L) /\ readTo(L, n) = logLeft(mt) /\ readTo(M, n) = logLeft(mt)
  <2>1. n \in Nat /\ n \in afterLosing(L) /\ readTo(L, n) = logLeft(mt)
    BY <1>4 DEF logFacts, logLeft
  <2>2. n .. n = {n}
    BY <2>1
  <2>. QED BY <1>5, <2>1, <2>2 DEF afterLosing, readTo
<1>7. DOMAIN wal' = DOMAIN wal /\ wal'[mt] = M /\ \A f \in DOMAIN wal : f # mt => wal'[f] = wal[f]
  BY <1>2, <1>3
<1>8. \A f \in DOMAIN wal : logStays(f)
  <2>1. logStays(mt)
    BY <1>2, <1>6, <1>7 DEF logStays
  <2>. QED BY <1>7, <2>1, SameLogStays
<1>9. inTables' = inTables
  BY <1>3 DEF inTables
<1>10. copiesStay /\ valuesStay
  BY <1>1, <1>3, <1>8, <1>9, CopiesStay, ValuesStay
<1>11. keptSettled'
  BY <1>1, KeptIsSettledNext
<1>12. \A p \in promised' : p.safe => \E c \in settled' : c.e = p.e /\ keptCopy(c)' /\ syncedValue(c)'
  <2>1. \A p \in promised : p.safe => \E c : c.e = p.e /\ keptCopy(c) /\ syncedValue(c)
    BY DEF SyncUp
  <2>. QED BY <1>3, <1>10, <1>11, <2>1 DEF copiesStay, valuesStay, keptSettled
<1>13. ASSUME NEW c \in visible, c.e \in acked, readableValue(c), covered(c).safe
       PROVE  c.e = covered(c).e /\ keptCopy(c)' /\ coldValue(c)'
  <2>1. c.tr = "cold" /\ (\A f \in ToSet(imm) : c \notin skl[f]) /\ covered(c).e = c.e
    BY <1>13 DEF covered
  <2>2. coldValue(c)'
    BY <1>3, <1>13, <2>1 DEF coldValue, readableValue
  <2>3. c \notin pending
    <3>1. SUFFICES ASSUME c \in pending PROVE FALSE
      OBVIOUS
    <3>2. committing
      BY <1>2, <3>1
    <3>3. CommitMade /\ acked \cap writer.entries = {}
      BY <1>1, <3>2 DEF WriterMade, committing, Idle, SyncUp
    <3>4. c.e \in writer.entries
      BY <3>1, <3>3, InEntries DEF CommitMade
    <3>. QED BY <1>13, <3>3, <3>4
  <2>4. c \in inTables \/ c \in logLeft(mt)
    BY <1>2, <2>1, <2>3, VisibleIs
  <2>5. CASE c \in inTables
    BY <1>9, <2>1, <2>2, <2>5 DEF keptCopy
  <2>6. CASE c \in logLeft(mt)
    <3>1. mt \in DOMAIN wal' /\ \A k \in afterLosing(wal'[mt]) : c \in readTo(wal'[mt], k)
      BY <1>2, <1>6, <1>7, <2>6
    <3>. QED BY <2>1, <2>2, <3>1 DEF keptCopy
  <2>. QED BY <2>4, <2>5, <2>6
<1>14. \A p \in syncer'.covers : p.safe => \E c \in settled' : c.e = p.e /\ keptCopy(c)' /\ coldValue(c)'
  <2>1. \A p \in syncer'.covers : \E c \in visible : c.e \in acked /\ readableValue(c) /\ p = covered(c)
    BY <1>3
  <2>. QED BY <1>11, <1>13, <2>1 DEF keptSettled
<1>15. committing' => acked' \cap writer'.entries = {}
  BY <1>3 DEF SyncUp, committing
<1>. QED BY <1>12, <1>14, <1>15 DEF SyncUp

LEMMA AllSynced ==
  ASSUME NEW c, vsynced["cold"] = Len(Last(vlogf["cold"])), coldValue(c)
  PROVE  syncedValue(c)
BY DEF coldValue, syncedValue, readableValue, Last

allSynced == vsynced["cold"] = Len(Last(vlogf["cold"])) => \A c : coldValue(c) => syncedValue(c)
LEMMA AllIsSynced == allSynced
BY AllSynced DEF allSynced
LEMMA AllIsSyncedNext == allSynced'
BY AllIsSynced, PTL

LEMMA VlogSyncKeepsSync ==
  ASSUME DataUp, DataUp', status = "up", SyncUp, vlogSync
  PROVE  SyncUp'
<1>1. /\ vsynced' = [vsynced EXCEPT !["cold"] = Len(Last(vlogf["cold"]))] /\ syncer.phase = "vlog"
      /\ promised' = promised \cup syncer.covers /\ syncer' = Idle
      /\ UNCHANGED <<wal, sst, vlogf, tables, writer, acked>>
  BY DEF vlogSync, memVars
<1>2. MemtablesMade /\ MemtablesMade' /\ ValuesMade
  BY DEF DataUp
<1>3. inTables' = inTables /\ \A f \in DOMAIN wal : logStays(f)
  BY <1>1, SameLogStays DEF inTables
<1>4. copiesStay /\ keptSettled'
  BY <1>2, <1>3, CopiesStay, KeptIsSettledNext
<1>5. \A c : coldValue(c) => coldValue(c)' /\ syncedValue(c)'
  <2>1. vsynced'["cold"] = Len(Last(vlogf'["cold"]))
    BY <1>1, <1>2 DEF ValuesMade, Tracks
  <2>2. \A c : coldValue(c) => coldValue(c)'
    BY <1>1 DEF coldValue, readableValue
  <2>. QED BY <2>1, <2>2, AllIsSyncedNext DEF allSynced
<1>6. \A p \in promised' : p.safe => \E c : c.e = p.e /\ keptCopy(c) /\ coldValue(c)
  <2>1. \A p \in promised : p.safe => \E c : c.e = p.e /\ keptCopy(c) /\ coldValue(c)
    BY DEF SyncUp, syncedValue
  <2>2. \A p \in syncer.covers : p.safe => \E c : c.e = p.e /\ keptCopy(c) /\ coldValue(c)
    BY <1>1 DEF SyncUp, Idle
  <2>. QED BY <1>1, <2>1, <2>2
<1>7. \A p \in promised' : p.safe => \E c \in settled' : c.e = p.e /\ keptCopy(c)' /\ syncedValue(c)'
  BY <1>4, <1>5, <1>6 DEF copiesStay, keptSettled
<1>8. committing' => acked' \cap writer'.entries = {}
  BY <1>1 DEF SyncUp, committing
<1>. QED BY <1>1, <1>7, <1>8 DEF SyncUp

(* The flusher and the compactor.                                          *)
LEMMA JobsKeepSync ==
  ASSUME DataUp, ManifestInv, status = "up", SyncUp, flushStep \/ mergeStep
  PROVE  SyncUp'
<1>1. tablesStep /\ MemtablesMade'
  BY JobsKeepTables DEF workStep
<1>2. /\ UNCHANGED <<vlogf, vsynced, writer, acked>> /\ inTables \subseteq inTables'
      /\ \A f \in DOMAIN wal' : wal'[f] = wal[f]
      /\ \A f \in DOMAIN wal \ DOMAIN wal' : logLeft(f) \subseteq inTables'
  BY <1>1 DEF tablesStep, dataVars
<1>3. MemtablesMade
  BY DEF DataUp
<1>4. \A f \in DOMAIN wal : logStays(f)
  BY <1>2, SameLogStays DEF logStays
<1>5. copiesStay /\ valuesStay
  BY <1>2, <1>3, <1>4, CopiesStay, ValuesStay
<1>6. flushStep => UNCHANGED <<syncer, promised>>
  BY DEF flushStep, flushBuild, flushManifest, flushAdd, flushError, flushDone, histVars
<1>7. mergeStep => UNCHANGED <<syncer, promised>>
  BY DEF mergeStep, compactBuild, compactManifest, compactReplace, compactDelete, histVars
<1>8. committing' => acked' \cap writer'.entries = {}
  BY <1>2 DEF SyncUp, committing
<1>. QED BY <1>1, <1>5, <1>6, <1>7, <1>8, SyncCarried

-----------------------------------------------------------------------------
(* A crash leaves the copies that are kept, and the values of those in the *)
(* synced part of the cold files.                                          *)
LEMMA CrashLeavesValues ==
  ASSUME DataUp, CrashProcess \/ CrashMachine \/ Close
  PROVE  \A c : syncedValue(c) => coldValue(c)'
<1>1. CASE CrashProcess \/ Close
  BY <1>1 DEF CrashProcess, Close, syncedValue, coldValue, readableValue
<1>2. CASE CrashMachine
  <2>. SUFFICES ASSUME NEW c, syncedValue(c) PROVE coldValue(c)'
    OBVIOUS
  <2>1. PICK p \in prefixes(Last(vlogf["cold"]), vsynced["cold"]), h \in prefixes(Last(vlogf["hot"]), vsynced["hot"]) :
          vlogf' = [vlogf EXCEPT !["cold"] = Append(Front(@), p), !["hot"] = Append(Front(@), h)]
    BY <1>2 DEF CrashMachine
  <2>2. PICK F, G, l, v : F = vlogf["cold"] /\ G = vlogf'["cold"] /\ l = Last(F) /\ v = vsynced["cold"]
    OBVIOUS
  <2>3. /\ filesOf(vlogf, started) /\ DOMAIN vlogf = Tracks /\ vsynced \in [Tracks -> Nat] /\ "cold" \in Tracks
        /\ F \in Seq(Seq(started)) /\ F # <<>>
    BY <2>2, ValuesAre DEF DataUp, ValuesMade, Tracks
  <2>4. G = Append(Front(F), p)
    BY <2>1, <2>2, <2>3
  <2>5. v \in Nat /\ l \in Seq(started) /\ Len(l) \in Nat
    <3>1. "cold" \in Tracks
      BY <2>3
    <3>2. Len(Last(vlogf["cold"])) \in Nat /\ Last(vlogf["cold"]) \in Seq(started)
      BY <2>3, <3>1, LastSized
    <3>. QED BY <2>2, <2>3, <3>2
  <2>6. PICK n \in v .. Len(l) : p = SubSeq(l, 1, n)
    BY <2>2 DEF prefixes
  <2>7. n \in Nat /\ v <= n /\ Len(p) = n /\ \A i \in 1 .. n : p[i] = l[i]
    BY <2>5, <2>6
  <2>8. PICK m : m = Len(F)
    OBVIOUS
  <2>9. m \in Nat /\ m # 0 /\ DOMAIN F = 1 .. m /\ l = F[m]
    BY <2>2, <2>3, <2>8 DEF Last
  <2>10. DOMAIN G = 1 .. m /\ G[m] = p /\ \A i \in 1 .. m - 1 : G[i] = F[i]
    <3>1. PICK E : E = Front(F)
      OBVIOUS
    <3>2. p \in Seq(started)
      BY <2>5, <2>6, <2>7
    <3>3. E \in Seq(Seq(started)) /\ Len(E) = m - 1 /\ \A i \in 1 .. m - 1 : E[i] = F[i]
      BY <2>3, <2>8, <2>9, <3>1 DEF Front
    <3>. QED BY <2>4, <2>9, <3>1, <3>2, <3>3
  <2>11. /\ c.tr = "cold" /\ c.file \in 1 .. m /\ c.pos \in Nat \ {0} /\ c.pos <= Len(F[c.file]) /\ F[c.file][c.pos] = c.e
         /\ c.file = m => c.pos <= v
    BY <2>2, <2>8, <2>9 DEF syncedValue, coldValue, readableValue
  <2>12. c.pos <= Len(G[c.file]) /\ G[c.file][c.pos] = c.e
    <3>1. CASE c.file = m
      <4>1. c.pos <= n /\ c.pos \in 1 .. n
        BY <2>5, <2>7, <2>11, <3>1
      <4>. QED BY <2>7, <2>9, <2>10, <2>11, <3>1, <4>1
    <3>2. CASE c.file # m
      <4>1. c.file \in 1 .. m - 1
        BY <2>9, <2>11, <3>2
      <4>. QED BY <2>10, <2>11, <4>1
    <3>. QED BY <3>1, <3>2
  <2>. QED BY <2>2, <2>3, <2>10, <2>11, <2>12 DEF coldValue, readableValue
<1>. QED BY <1>1, <1>2

LEMMA GoingDownKeepsSync ==
  ASSUME DataUp, ManifestInv, status = "up", SyncUp, CrashProcess \/ CrashMachine \/ Close
  PROVE  SyncDown'
<1>1. /\ goDown /\ manifest' \in crashedManifests
  BY Crashes DEF crashed
<1>2. PICK K : logsDown(K)
  BY Crashes DEF crashed
<1>3. UNCHANGED <<sst, promised>>
  BY <1>1 DEF goDown
<1>4. inTables \subseteq tablesLeft'
  BY <1>1, <1>3, CrashedTables DEF tablesDown
<1>5. \A c : c \in allLeft' <=> c \in tablesLeft' \/ \E f \in DOMAIN wal' : c \in logLeft(f)'
  BY DEF allLeft
<1>6. ASSUME NEW c, keptCopy(c) PROVE c \in allLeft'
  <2>1. CASE c \in inTables
    BY <1>4, <1>5, <2>1
  <2>2. ASSUME NEW f \in DOMAIN wal, \A k \in afterLosing(wal[f]) : c \in readTo(wal[f], k) PROVE c \in allLeft'
    <3>1. f \in DOMAIN wal'
      <4>1. LogsRead
        BY MemtablesRead DEF DataUp
      <4>2. c \in skl[f]
        BY <2>2, <4>1 DEF LogsRead, logFacts
      <4>. QED BY <1>2, <4>2 DEF logsDown
    <3>2. K[f] \in afterLosing(wal[f]) /\ wal'[f].recs = SubSeq(wal[f].recs, 1, K[f])
      BY <1>2, <3>1 DEF logsDown
    <3>3. c \in logLeft(f)'
      BY <2>2, <3>2 DEF readTo, logLeft
    <3>. QED BY <1>5, <3>1, <3>3
  <2>. QED BY <1>6, <2>1, <2>2 DEF keptCopy
<1>7. \A p \in promised : p.safe => \E c : c.e = p.e /\ keptCopy(c) /\ syncedValue(c)
  BY DEF SyncUp
<1>. QED BY <1>3, <1>6, <1>7, CrashLeavesValues DEF SyncDown

(* Open reads all of what the logs still have, and starts new value files. *)
LEMMA OpenKeepsSync ==
  ASSUME DataDown, ManifestInv, DataUp', SyncDown, Open
  PROVE  SyncUp'
<1>1. PICK live, new : /\ logsOpened(live, new) /\ inTables' = tablesLeft
                       /\ \A c : c \in allLeft <=> c \in tablesLeft \/ \E f \in live : c \in logLeft(f)
  BY LogsOpen
<1>2. /\ status = "down" /\ UNCHANGED <<writer, syncer, acked, promised>>
      /\ vlogf' = [t \in Tracks |-> Append(vlogf[t], <<>>)]
  BY DEF Open, jobVars, histVars
<1>3. writer' = Idle /\ syncer' = Idle
  BY <1>2 DEF ManifestInv
<1>4. keptSettled'
  BY KeptIsSettledNext DEF DataUp
<1>5. ASSUME NEW c \in allLeft PROVE keptCopy(c)'
  <2>1. CASE c \in tablesLeft
    BY <1>1, <2>1 DEF keptCopy
  <2>2. ASSUME NEW f \in live, c \in logLeft(f) PROVE keptCopy(c)'
    <3>1. f \in DOMAIN wal' /\ skl'[f] = logLeft(f)
      BY <1>1 DEF logsOpened
    <3>2. fileOpened(wal'[f], skl'[f])
      BY <1>1, <3>1, FilesOpened
    <3>3. \A k \in afterLosing(wal'[f]) : c \in readTo(wal'[f], k)
      BY <2>2, <3>1, <3>2 DEF fileOpened
    <3>. QED BY <3>1, <3>3 DEF keptCopy
  <2>. QED BY <1>1, <2>1, <2>2
<1>6. ASSUME NEW c, coldValue(c) PROVE syncedValue(c)'
  <2>1. PICK F, G : F = vlogf["cold"] /\ G = vlogf'["cold"]
    OBVIOUS
  <2>2. F \in Seq(Seq(started)) /\ "cold" \in Tracks /\ G = Append(F, <<>>)
    BY <1>2, <2>1 DEF DataDown, ValuesMade, Tracks
  <2>3. /\ DOMAIN F = 1 .. Len(F) /\ Len(F) \in Nat /\ Len(G) = Len(F) + 1 /\ DOMAIN G = 1 .. Len(F) + 1
        /\ \A i \in 1 .. Len(F) : G[i] = F[i]
    BY <2>2
  <2>4. c.tr = "cold" /\ c.file \in DOMAIN F /\ c.pos \in Nat \ {0} /\ c.pos <= Len(F[c.file]) /\ F[c.file][c.pos] = c.e
    BY <1>6, <2>1 DEF coldValue, readableValue
  <2>5. c.file \in DOMAIN G /\ c.file # Len(G) /\ G[c.file] = F[c.file]
    BY <2>3, <2>4
  <2>. QED BY <2>1, <2>2, <2>4, <2>5 DEF syncedValue, coldValue, readableValue
<1>7. \A p \in promised' : p.safe => \E c \in settled' : c.e = p.e /\ keptCopy(c)' /\ syncedValue(c)'
  BY <1>2, <1>4, <1>5, <1>6 DEF SyncDown, keptSettled
<1>8. ~ committing'
  BY <1>3 DEF committing, Idle
<1>. QED BY <1>3, <1>7, <1>8 DEF SyncUp

-----------------------------------------------------------------------------
LEMMA CommitKeepsSync ==
  ASSUME DataUp, DataUp', status = "up", acked \subseteq started, SyncUp, NEW ks \in (SUBSET RKeys) \ {{}}, startCommit(ks)
  PROVE  acked' \subseteq started' /\ SyncUp'
<1>. PICK s, n, entries, E : commitIn(ks, s, n, entries, E)
  BY CommitWritten
<1>1. /\ started' = started \cup E /\ E = ToSet(entries) /\ \A e \in E : e.id = nCommit + 1
      /\ requestIn(entries, TRUE, started')
  <2>1. /\ \A i \in 1 .. n : entries[i].id = nCommit + 1
        /\ \A e \in E : \E i \in 1 .. n : e = entries[i]
    BY DEF commitIn
  <2>2. \A e \in E : e.id = nCommit + 1
    BY <2>1
  <2>. QED BY <2>2 DEF commitIn
<1>2. UNCHANGED <<wal, sst, syncWrites, tables, syncer, promised, acked>>
  BY DEF startCommit
<1>3. MemtablesMade /\ MemtablesMade' /\ VersionsMade
  BY DEF DataUp
<1>4. copiesStay
  <2>1. inTables' = inTables /\ \A f \in DOMAIN wal : logStays(f)
    BY <1>2, SameLogStays DEF inTables
  <2>. QED BY <1>3, <2>1, CopiesStay
<1>5. \A c : coldValue(c) => coldValue(c)'
  <2>1. \A c : heldIn(vlogf, c) => heldIn(vlogf', c)
    BY <1>1 DEF requestIn
  <2>2. \A c : readableValue(c) => readableValue(c)'
    BY <2>1 DEF heldIn, readableValue
  <2>. QED BY <2>2 DEF coldValue
<1>6. valuesStay
  <2>1. "cold" \in Tracks
    BY DEF Tracks
  <2>2. CASE syncWrites
    <3>1. vsynced'["cold"] = Len(Last(vlogf'["cold"]))
      BY <1>1, <2>1, <2>2 DEF requestIn
    <3>. QED BY <1>5, <3>1, AllIsSyncedNext DEF allSynced, valuesStay, syncedValue
  <2>3. CASE ~ syncWrites
    <3>1. vsynced' = vsynced /\ Len(vlogf'["cold"]) = Len(vlogf["cold"])
      BY <1>1, <2>1, <2>3 DEF requestIn
    <3>. QED BY <1>5, <3>1 DEF valuesStay, syncedValue
  <2>. QED BY <2>2, <2>3
<1>7. acked' \cap writer'.entries = {}
  <2>1. writer'.entries = E
    BY <1>1 DEF requestIn
  <2>2. nCommit \in Nat /\ \A e \in started : e.id \in 1 .. nCommit
    BY <1>3 DEF VersionsMade
  <2>3. nCommit + 1 \notin 1 .. nCommit
    BY <2>2
  <2>. QED BY <1>1, <1>2, <2>1, <2>2, <2>3
<1>. QED BY <1>1, <1>2, <1>3, <1>4, <1>6, <1>7, SyncCarried

LEMMA WritesKeepSync ==
  ASSUME DataUp, DataUp', status = "up", nMoved' = 0, nMoved = 0 => acked \subseteq started /\ SyncUp, writeStep
  PROVE  acked' \subseteq started' /\ SyncUp'
<1>1. nMoved = 0 /\ \A c : ~ startMoved(c)
  <2>1. nMoved \in Nat
    BY DEF DataUp, VersionsMade
  <2>2. \A c : startMoved(c) => nMoved' # 0
    BY <2>1 DEF startMoved
  <2>3. nMoved' = nMoved
    BY <2>2 DEF writeStep, startCommit, memPut, memPutFin, newMemTable, SyncWAL, vlogSync, histVars
  <2>. QED BY <2>2, <2>3
<1>2. acked \subseteq started /\ SyncUp
  BY <1>1
<1>3. ASSUME NEW ks \in (SUBSET RKeys) \ {{}}, startCommit(ks) PROVE acked' \subseteq started' /\ SyncUp'
  BY <1>2, <1>3, CommitKeepsSync
<1>4. CASE memPut
  BY <1>1, <1>2, <1>4, MemPutKeepsSync
<1>5. CASE memPutFin
  BY <1>1, <1>2, <1>5, MemPutFinKeepsSync
<1>6. CASE newMemTable
  BY <1>2, <1>6, NewMemTableKeepsSync DEF newMemTable, histVars
<1>7. CASE SyncWAL
  BY <1>1, <1>2, <1>7, SyncWALKeepsSync DEF SyncWAL, histVars
<1>8. CASE vlogSync
  BY <1>2, <1>8, VlogSyncKeepsSync DEF vlogSync
<1>. QED BY <1>1, <1>3, <1>4, <1>5, <1>6, <1>7, <1>8 DEF writeStep

LEMMA SyncStarts == RecoveryInit => SyncInv
BY DEF RecoveryInit, SyncInv, SyncUp, committing, Idle

LEMMA StutterKeepsSync == SyncInv /\ UNCHANGED recoveryVars => SyncInv'
<1>. SUFFICES ASSUME SyncInv, UNCHANGED recoveryVars PROVE SyncInv'
  OBVIOUS
<1>1. UNCHANGED <<wal, manifest, sst, vlogf, vsynced, status, tables, writer, syncer, nMoved, started, acked, promised>>
  BY DEF recoveryVars, diskVars, memVars, jobVars, histVars
<1>2. /\ inTables' = inTables /\ settled' = settled /\ allLeft' = allLeft /\ committing' = committing
  BY <1>1 DEF inTables, settled, tablesLeft, allLeft, logLeft, committing
<1>3. \A c : /\ keptCopy(c)' <=> keptCopy(c)
             /\ coldValue(c)' <=> coldValue(c)
             /\ syncedValue(c)' <=> syncedValue(c)
  BY <1>1, <1>2 DEF keptCopy, syncedValue, coldValue, readableValue
<1>4. (SyncUp => SyncUp') /\ (SyncDown => SyncDown')
  BY <1>1, <1>2, <1>3 DEF SyncUp, SyncDown
<1>. QED BY <1>1, <1>4 DEF SyncInv

LEMMA SyncKept ==
  ManifestInv /\ DurableInv /\ DurableInv' /\ SyncInv /\ [RecoveryNext]_recoveryVars => SyncInv'
<1>. SUFFICES ASSUME ManifestInv, DurableInv, DurableInv', SyncInv, [RecoveryNext]_recoveryVars PROVE SyncInv'
  OBVIOUS
<1>1. CASE writeStep
  <2>1. status = "up" /\ status' = "up"
    BY <1>1, WorksWhenUp
  <2>. QED BY <1>1, <2>1, WritesKeepSync DEF DurableInv, SyncInv
<1>2. CASE flushStep \/ mergeStep
  <2>1. status = "up" /\ status' = "up"
    BY <1>2, WorksWhenUp
  <2>2. UNCHANGED <<nMoved, started, acked>>
    BY <1>2, <2>1, JobsKeepTables DEF DurableInv, workStep, tablesStep, dataVars
  <2>. QED BY <1>2, <2>1, <2>2, JobsKeepSync DEF DurableInv, SyncInv
<1>3. CASE CrashProcess \/ CrashMachine \/ Close
  <2>1. status = "up" /\ goDown
    BY <1>3 DEF CrashProcess, CrashMachine, Close
  <2>2. status' = "down" /\ UNCHANGED <<nMoved, started, acked>>
    BY <2>1 DEF goDown
  <2>. QED BY <1>3, <2>1, <2>2, GoingDownKeepsSync DEF DurableInv, SyncInv
<1>4. CASE Open
  <2>1. status = "down" /\ status' = "up" /\ UNCHANGED <<nMoved, started, acked>>
    BY <1>4 DEF Open, histVars
  <2>. QED BY <1>4, <2>1, OpenKeepsSync DEF DurableInv, SyncInv
<1>5. CASE OpenError
  BY <1>5 DEF OpenError, SyncInv, histVars
<1>6. CASE UNCHANGED recoveryVars
  BY <1>6, StutterKeepsSync
<1>. QED BY <1>1, <1>2, <1>3, <1>4, <1>5, <1>6 DEF RecoveryNext

(* What DB.Sync covered, of the values of the cold track whose copy was in  *)
(* the active memtable or a table, stays in a table or in every part of its *)
(* log that a crash may leave, and in the synced part of the value log      *)
(* (DB.Sync, memTable.SyncWAL, valueLog.sync), until GC moves values.       *)
THEOREM SyncInvariant == RecoverySpec => []SyncInv
<1>1. RecoveryInit => SyncInv
  BY SyncStarts
<1>2. ManifestInv /\ DurableInv /\ DurableInv' /\ SyncInv /\ [RecoveryNext]_recoveryVars => SyncInv'
  BY SyncKept
<1>. QED BY <1>1, <1>2, ManifestInvariant, DurableInvariant, PTL DEF RecoverySpec

LEMMA SyncedStay == DurableInv /\ SyncInv => SyncedColdSurvive
<1>. SUFFICES ASSUME DurableInv, SyncInv, status = "up", nMoved = 0, NEW p \in promised, p.safe PROVE survives(p)
  BY DEF SyncedColdSurvive
<1>1. PICK c \in settled : c.e = p.e /\ coldValue(c)
  BY DEF SyncInv, SyncUp, syncedValue
<1>2. c \in visible
  BY <1>1, MemtablesRead DEF DurableInv, DataUp
<1>. QED BY <1>1, <1>2 DEF survives, coldValue

(* DB.Sync: what it covered is there, with its value, after every crash of *)
(* the machine, as far as the code ensures it: the log of the active       *)
(* memtable is synced before the cold value file, and a table before its   *)
(* memtable's log goes.                                                    *)
THEOREM SyncsAreKept == RecoverySpec => []SyncedColdSurvive
BY DurableInvariant, SyncInvariant, SyncedStay, PTL

-----------------------------------------------------------------------------
(* The key registry.                                                       *)
(* The set of records of a file that got one more, and the complete ones.  *)
LEMMA RecordAppended ==
  ASSUME NEW S, NEW s \in Seq(S), NEW r \in S
  PROVE  /\ Append(s, r) \in Seq(S) /\ ToSet(Append(s, r)) = ToSet(s) \cup {r}
<1>1. /\ Append(s, r) \in Seq(S) /\ Len(s) \in Nat /\ Len(Append(s, r)) = Len(s) + 1
      /\ Append(s, r)[Len(s) + 1] = r /\ \A i \in 1 .. Len(s) : Append(s, r)[i] = s[i]
      /\ DOMAIN s = 1 .. Len(s) /\ DOMAIN Append(s, r) = 1 .. Len(s) + 1
  OBVIOUS
<1>2. 1 .. Len(s) + 1 = 1 .. Len(s) \cup {Len(s) + 1}
  BY <1>1
<1>. QED BY <1>1, <1>2 DEF ToSet

LEMMA CompleteRecords ==
  ASSUME RegistryType
  PROVE  /\ complete \subseteq Records
         /\ \A r \in complete : r.id \in Nat /\ r.made \in Nat /\ r.at \in 0 .. regClock
<1>1. ToSet(regFile) \subseteq Records
  BY DEF RegistryType, ToSet
<1>. QED BY <1>1 DEF complete, Records

LEMMA RegistryStarts == RegistryInit => RegistryInv
<1>. SUFFICES ASSUME RegistryInit PROVE RegistryInv
  OBVIOUS
<1>. USE KeyRegistryAssumption DEF RegistryInit
<1>1. complete = {}
  BY DEF complete, ToSet
<1>2. RegistryType
  BY DEF RegistryType
<1>3. FileHasKeys
  BY <1>1 DEF FileHasKeys
<1>4. MapHasFile
  BY <1>1 DEF MapHasFile, NoKeys, validKey
<1>. QED BY <1>2, <1>3, <1>4 DEF RegistryInv

(* A valid latest key is in the map, and so in the file.                   *)
LEMMA LatestIsInFile ==
  ASSUME RegistryInv, regStatus = "up", validKey, NEW c \in KeyCallers, returnLatest(c)
  PROVE  \A k \in given' : \E r \in complete : r.id = k.id /\ k = [id |-> r.id, made |-> r.made]
<1>1. nextKeyID \in DOMAIN dataKeys /\ given' = given \cup {dataKeys[nextKeyID]}
  BY DEF RegistryInv, MapHasFile, returnLatest
<1>2. PICK r \in complete : r.id = nextKeyID
  BY <1>1 DEF RegistryInv, MapHasFile
<1>3. dataKeys[nextKeyID] = [id |-> r.id, made |-> r.made]
  BY <1>2 DEF RegistryInv, MapHasFile
<1>4. dataKeys[nextKeyID].id = r.id
  BY <1>3
<1>. QED BY <1>1, <1>2, <1>3, <1>4 DEF RegistryInv, FileHasKeys

LEMMA LookupKeeps ==
  ASSUME RegistryInv, NEW c \in KeyCallers, LatestDataKey(c) \/ validNow(c) PROVE RegistryInv'
<1>1. UNCHANGED <<regFile, dataKeys, nextKeyID, lastCreated, regClock, regStatus, nMade, nDown>> /\ regStatus = "up"
  BY DEF LatestDataKey, validNow, RegistryInv, RegistryType
<1>2. \/ validKey /\ returnLatest(c)
      \/ keyCaller' = [keyCaller EXCEPT ![c] = "lock"] /\ UNCHANGED given
  BY DEF LatestDataKey, validNow
<1>3. complete' = complete
  BY <1>1 DEF complete
<1>4. RegistryType'
  BY <1>1, <1>2 DEF RegistryInv, RegistryType, Records, returnLatest
<1>5. \A k \in given' : \E r \in complete : r.id = k.id /\ k = [id |-> r.id, made |-> r.made]
  BY <1>1, <1>2, LatestIsInFile DEF RegistryInv, FileHasKeys
<1>6. FileHasKeys'
  BY <1>1, <1>3, <1>5 DEF RegistryInv, FileHasKeys
<1>7. MapHasFile'
  BY <1>1, <1>3 DEF RegistryInv, MapHasFile, validKey
<1>. QED BY <1>4, <1>6, <1>7 DEF RegistryInv

LEMMA TickKeeps == ASSUME RegistryInv, regTick PROVE RegistryInv'
<1>1. /\ regClock' = regClock + 1
      /\ UNCHANGED <<regFile, dataKeys, nextKeyID, lastCreated, regStatus, keyCaller, given, nMade, nDown>>
  BY DEF regTick
<1>2. complete' = complete
  BY <1>1 DEF complete
<1>3. RegistryType'
  <2>1. Records \subseteq Records'
    BY <1>1 DEF Records, RegistryInv, RegistryType
  <2>2. regFile' \in Seq(Records')
    BY <1>1, <2>1 DEF RegistryInv, RegistryType
  <2>. QED BY <1>1, <2>2, KeyRegistryAssumption DEF RegistryInv, RegistryType
<1>4. FileHasKeys'
  BY <1>1, <1>2 DEF RegistryInv, FileHasKeys
<1>5. validKey' => validKey
  BY <1>1, KeyRegistryAssumption DEF validKey, RegistryInv, RegistryType
<1>6. MapHasFile'
  BY <1>1, <1>2, <1>5 DEF RegistryInv, MapHasFile
<1>. QED BY <1>3, <1>4, <1>6 DEF RegistryInv

-----------------------------------------------------------------------------
(* The record of a new key, and what a write of it that failed leaves.     *)
LEMMA NewRecord ==
  ASSUME RegistryType, NEW t \in {"no", "header", "body"}
  PROVE  /\ record(t) \in Records /\ record(t).id = nextKeyID + 1 /\ record(t).made = nMade + 1
         /\ record(t).tear = t
BY DEF RegistryType, Records, record, newKey

LEMMA TornWrite ==
  ASSUME RegistryType, regFile' \in tornFiles
  PROVE  regFile' \in Seq(Records) /\ complete' = complete
<1>1. CASE regFile' = regFile
  BY <1>1 DEF RegistryType, complete
<1>2. ASSUME NEW t \in {"header", "body"}, regFile' = Append(regFile, record(t))
      PROVE  regFile' \in Seq(Records) /\ complete' = complete
  <2>1. record(t) \in Records /\ record(t).tear # "no"
    BY NewRecord
  <2>2. regFile' \in Seq(Records) /\ ToSet(regFile') = ToSet(regFile) \cup {record(t)}
    BY <1>2, <2>1, RecordAppended DEF RegistryType
  <2>. QED BY <2>1, <2>2 DEF complete
<1>. QED BY <1>1, <1>2 DEF tornFiles

(* A key that is written has an id that no key had.                        *)
LEMMA WriteKeeps == ASSUME RegistryInv, NEW c \in KeyCallers, writeKey(c) PROVE RegistryInv'
<1>. DEFINE r == record("no")
<1>1. /\ keyCaller[c] = "lock" /\ nextKeyID' = nextKeyID + 1 /\ nMade' = nMade + 1
      /\ regFile' = Append(regFile, r) /\ lastCreated' = regClock
      /\ dataKeys' = [i \in DOMAIN dataKeys \cup {newKey.id} |-> IF i = newKey.id THEN newKey ELSE dataKeys[i]]
      /\ given' = given \cup {newKey} /\ keyCaller' = [keyCaller EXCEPT ![c] = "idle"]
      /\ UNCHANGED <<regClock, regStatus, nDown>>
  BY DEF writeKey
<1>2. /\ r \in Records /\ r.id = nextKeyID + 1 /\ r.made = nMade + 1 /\ r.tear = "no"
      /\ newKey = [id |-> r.id, made |-> r.made] /\ newKey.id = r.id
  BY NewRecord DEF RegistryInv, newKey
<1>. HIDE DEF r
<1>3. regFile' \in Seq(Records) /\ ToSet(regFile') = ToSet(regFile) \cup {r}
  BY <1>1, <1>2, RecordAppended DEF RegistryInv, RegistryType
<1>4. complete' = complete \cup {r}
  BY <1>2, <1>3 DEF complete
<1>5. /\ nextKeyID \in Nat /\ nMade \in Nat /\ nextKeyID <= nMade
      /\ \A q \in complete : q.id \in Nat /\ q.id <= nextKeyID /\ q.id <= nMade
  BY <1>1, CompleteRecords DEF RegistryInv, RegistryType, MapHasFile, FileHasKeys
<1>6. RegistryType'
  BY <1>1, <1>3 DEF RegistryInv, RegistryType, Records
<1>7. FileHasKeys'
  <2>1. \A k \in given' : \E q \in complete' : q.id = k.id /\ k = [id |-> q.id, made |-> q.made]
    BY <1>1, <1>2, <1>4 DEF RegistryInv, FileHasKeys
  <2>2. \A q \in complete : q.id # r.id
    BY <1>2, <1>5
  <2>3. \A q \in complete' : 0 < q.id /\ q.id <= nMade'
    BY <1>1, <1>2, <1>4, <1>5 DEF RegistryInv, FileHasKeys
  <2>. QED BY <1>4, <2>1, <2>2, <2>3 DEF RegistryInv, FileHasKeys
<1>8. MapHasFile'
  <2>1. DOMAIN dataKeys = {q.id : q \in complete} /\ \A q \in complete : dataKeys[q.id] = [id |-> q.id, made |-> q.made]
    BY <1>1 DEF RegistryInv, RegistryType, MapHasFile
  <2>2. DOMAIN dataKeys' = {q.id : q \in complete'}
    BY <1>1, <1>2, <1>4, <2>1
  <2>3. ASSUME NEW q \in complete' PROVE dataKeys'[q.id] = [id |-> q.id, made |-> q.made] /\ q.id <= nextKeyID'
    <3>1. CASE q = r
      BY <1>1, <1>2, <1>5, <3>1
    <3>2. CASE q \in complete
      <4>1. q.id # newKey.id /\ q.id \in DOMAIN dataKeys
        BY <1>2, <1>5, <2>1, <3>2
      <4>. QED BY <1>1, <1>5, <2>1, <3>2, <4>1
    <3>. QED BY <1>4, <3>1, <3>2
  <2>4. nextKeyID' \in DOMAIN dataKeys' /\ nextKeyID' <= nMade'
    BY <1>1, <1>2, <1>5
  <2>. QED BY <2>2, <2>3, <2>4 DEF MapHasFile
<1>. QED BY <1>6, <1>7, <1>8 DEF RegistryInv

(* A write that fails uses the id up; the latest key stays too old.        *)
LEMMA WriteErrorKeeps == ASSUME RegistryInv, NEW c \in KeyCallers, writeKeyError(c) PROVE RegistryInv'
<1>1. /\ ~ validKey /\ nextKeyID' = nextKeyID + 1 /\ nMade' = nMade + 1 /\ regFile' \in tornFiles
      /\ keyCaller' = [keyCaller EXCEPT ![c] = "idle"]
      /\ UNCHANGED <<dataKeys, lastCreated, regClock, regStatus, given, nDown>>
  BY DEF writeKeyError
<1>2. regFile' \in Seq(Records) /\ complete' = complete
  BY <1>1, TornWrite DEF RegistryInv
<1>3. /\ nextKeyID \in Nat /\ nMade \in Nat /\ \A q \in complete : q.id \in Nat
  BY CompleteRecords DEF RegistryInv, RegistryType
<1>4. RegistryType'
  BY <1>1, <1>2 DEF RegistryInv, RegistryType, Records
<1>5. FileHasKeys'
  BY <1>1, <1>2, <1>3 DEF RegistryInv, FileHasKeys
<1>6. MapHasFile'
  BY <1>1, <1>2, <1>3 DEF RegistryInv, MapHasFile, validKey
<1>. QED BY <1>4, <1>5, <1>6 DEF RegistryInv

LEMMA DownKeeps == ASSUME RegistryInv, regDown PROVE RegistryInv'
<1>1. /\ nDown' = nDown + 1 /\ regStatus' = "down" /\ nextKeyID' = 0 /\ lastCreated' = 0
      /\ keyCaller' = [c \in KeyCallers |-> "idle"] /\ UNCHANGED <<regClock, given>>
      /\ \/ UNCHANGED <<regFile, nMade>>
         \/ nMade' = nMade + 1 /\ regFile' \in tornFiles
  BY DEF regDown
<1>2. regFile' \in Seq(Records) /\ complete' = complete
  BY <1>1, TornWrite DEF RegistryInv, RegistryType, complete
<1>3. /\ nMade \in Nat /\ nDown \in Nat /\ \A q \in complete : q.id \in Nat
  BY CompleteRecords DEF RegistryInv, RegistryType
<1>4. RegistryType'
  BY <1>1, <1>2, <1>3 DEF RegistryInv, RegistryType, Records
<1>5. FileHasKeys'
  BY <1>1, <1>2, <1>3 DEF RegistryInv, FileHasKeys
<1>6. MapHasFile'
  BY <1>1 DEF MapHasFile
<1>. QED BY <1>4, <1>5, <1>6 DEF RegistryInv

(* Open finds the keys of the complete records, and goes on after the      *)
(* greatest id among them.                                                 *)
LEMMA OpenKeeps == ASSUME RegistryInv, OpenKeyRegistry PROVE RegistryInv'
<1>1. /\ regStatus = "down" /\ UNCHANGED <<regFile, regClock, keyCaller, given, nMade, nDown>>
      /\ \/ /\ regStatus' = "up" /\ nextKeyID' = maxKeyID /\ lastCreated' = Max({0} \cup {r.at : r \in complete})
            /\ dataKeys' = [i \in {r.id : r \in complete} |-> [id |-> i, made |-> lastWith(i).made]]
         \/ regStatus' = "failed" /\ UNCHANGED <<dataKeys, nextKeyID, lastCreated>>
  BY DEF OpenKeyRegistry
<1>2. complete' = complete
  BY <1>1 DEF complete
<1>3. FileHasKeys'
  BY <1>1, <1>2 DEF RegistryInv, FileHasKeys
<1>4. CASE regStatus' = "failed"
  <2>1. UNCHANGED <<dataKeys, nextKeyID, lastCreated>>
    BY <1>1, <1>4
  <2>. QED BY <1>1, <1>3, <1>4, <2>1 DEF RegistryInv, RegistryType, Records, MapHasFile
<1>5. CASE regStatus' = "up"
  <2>1. /\ nextKeyID' = maxKeyID /\ lastCreated' = Max({0} \cup {r.at : r \in complete})
        /\ dataKeys' = [i \in {r.id : r \in complete} |-> [id |-> i, made |-> lastWith(i).made]]
    BY <1>1, <1>5
  <2>2. nMade \in Nat /\ regClock \in Nat /\ \A r \in complete : r.id \in 1 .. nMade /\ r.made \in Nat /\ r.at \in 0 .. regClock
    BY CompleteRecords DEF RegistryInv, RegistryType, FileHasKeys
  <2>3. nextKeyID' \in {0} \cup {r.id : r \in complete} /\ \A r \in complete : r.id <= nextKeyID'
    <3>1. {0} \cup {r.id : r \in complete} \in SUBSET (0 .. nMade)
      BY <2>2
    <3>. QED BY <2>1, <2>2, <3>1, MaxBounded DEF maxKeyID
  <2>4. lastCreated' \in {0} \cup {r.at : r \in complete}
    <3>1. {0} \cup {r.at : r \in complete} \in SUBSET (0 .. regClock)
      BY <2>2
    <3>. QED BY <2>1, <2>2, <3>1, MaxBounded
  <2>5. nextKeyID' \in 0 .. nMade /\ lastCreated' \in Nat
    BY <2>2, <2>3, <2>4
  <2>6. RegistryType'
    BY <1>1, <1>5, <2>5 DEF RegistryInv, RegistryType, Records
  <2>7. ASSUME NEW r \in complete PROVE dataKeys'[r.id] = [id |-> r.id, made |-> r.made]
    <3>1. \A q \in complete : q.id = r.id => q = r
      BY DEF RegistryInv, FileHasKeys
    <3>2. lastWith(r.id) = r
      BY <2>2, <3>1 DEF lastWith
    <3>. QED BY <2>1, <3>2
  <2>8. validKey' => nextKeyID' \in DOMAIN dataKeys'
    <3>1. CASE complete = {}
      <4>1. lastCreated' = 0
        BY <2>4, <3>1
      <4>. QED BY <1>1, <4>1, KeyRegistryAssumption DEF validKey, RegistryInv, RegistryType
    <3>2. CASE complete # {}
      <4>1. PICK r \in complete : 0 < r.id /\ r.id <= nextKeyID'
        BY <2>2, <2>3, <3>2
      <4>2. nextKeyID' # 0
        BY <2>2, <2>5, <4>1
      <4>. QED BY <2>1, <2>3, <4>2
    <3>. QED BY <3>1, <3>2
  <2>9. DOMAIN dataKeys' = {r.id : r \in complete}
    BY <2>1
  <2>10. MapHasFile'
    BY <1>1, <1>2, <2>3, <2>5, <2>7, <2>8, <2>9 DEF MapHasFile
  <2>. QED BY <1>3, <2>6, <2>10 DEF RegistryInv
<1>. QED BY <1>1, <1>4, <1>5

-----------------------------------------------------------------------------
(* Lookups, new keys, failed writes, time, crashes and restarts keep the   *)
(* file, the map and what was returned together.                           *)
THEOREM RegistryInvariant == RegistrySpec => []RegistryInv
<1>1. ASSUME RegistryInv, [RegistryNext]_registryVars PROVE RegistryInv'
  <2>1. CASE RegistryNext
    BY <1>1, <2>1, LookupKeeps, WriteKeeps, WriteErrorKeeps, TickKeeps, DownKeeps, OpenKeeps DEF RegistryNext
  <2>2. CASE UNCHANGED registryVars
    BY <1>1, <2>2 DEF RegistryInv, registryVars, RegistryType, Records, FileHasKeys, MapHasFile, complete, validKey
  <2>. QED BY <1>1, <2>1, <2>2
<1>. QED BY <1>1, RegistryStarts, PTL DEF RegistrySpec

(* Whenever the registry is open it has every key that it ever returned:   *)
(* what was encrypted with it can be decrypted.                            *)
THEOREM KeysAreKept == RegistrySpec => []KeysSurvive
<1>1. RegistryInv => KeysSurvive
  BY DEF RegistryInv, FileHasKeys, MapHasFile, KeysSurvive
<1>. QED BY <1>1, RegistryInvariant, PTL
=============================================================================
