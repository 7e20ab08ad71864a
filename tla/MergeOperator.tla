---------------------------- MODULE MergeOperator -----------------------------
(***************************************************************************)
(* merge.go: a MergeOperator over one key, with a merge function that      *)
(* appends.  Add writes one version; a background goroutine folds the      *)
(* versions it sees and writes the result at the latest version it saw,    *)
(* asynchronously, beside later Adds; level compactions then drop what is  *)
(* older.  The versions lie in the memtable, the hot tier or the levels.   *)
(***************************************************************************)
EXTENDS Integers, Sequences, SequencesExt, Functions

CONSTANTS
  MaxAdd,      \* bound: values added; the n-th one is n
  MergeChCap   \* capacity of the write channel

ASSUME MergeAssumption == MaxAdd \in Nat /\ MergeChCap \in Nat \ {0}

VARIABLES
  added,       \* Adds that have a commit timestamp; Add number n commits at n
  mergeCh,     \* the write channel, in order
  applied,     \* Adds written to the memtable and done
  mergeMem, mergeHot, mergeCold,    \* version -> entry
  mergePc, mergeTs,      \* compact: "off", "wait", and the timestamp it reads at
  mergeDiscardTs,        \* the highest discard timestamp a level compaction used
  heatChanged            \* history: flushes went to different tiers
mergeVars == <<added, mergeCh, applied, mergeMem, mergeHot, mergeCold, mergePc, mergeTs, mergeDiscardTs, heatChanged>>

NoVersions == [v \in {} |-> 0]

MergeInit ==
  /\ added = 0 /\ mergeCh = <<>> /\ applied = 0
  /\ mergeMem = NoVersions /\ mergeHot = NoVersions /\ mergeCold = NoVersions
  /\ mergePc = "off" /\ mergeTs = 0 /\ mergeDiscardTs = 0 /\ heatChanged = "no"

-----------------------------------------------------------------------------
(* The iterator over all versions: for one version the memtable comes      *)
(* before the hot tier, and that before the levels.                        *)
over(new, old) == [v \in DOMAIN new \cup DOMAIN old |-> IF v \in DOMAIN new THEN new[v] ELSE old[v]]
versions == over(mergeMem, over(mergeHot, mergeCold))

(* iterateAndMerge at a timestamp: from the latest version down to the     *)
(* first with bitDiscardEarlierVersions, each before what it has so far.   *)
newestFirst(es) == SetToSortSeq(DOMAIN es, LAMBDA a, b : a > b)
firstDiscard(es) ==
  {v \in DOMAIN es : \A u \in DOMAIN es : u > v => ~ es[u].discardEarlier}
iterateAndMerge(ts) ==
  LET seen == Restrict(versions, {v \in DOMAIN versions : v <= ts})
      read == Restrict(seen, firstDiscard(seen))
  IN  [vals |-> FoldSeq(LAMBDA v, val : read[v].vals \o val, <<>>, Reverse(newestFirst(read))),
       latest |-> IF DOMAIN read = {} THEN 0 ELSE newestFirst(read)[1],
       count |-> Len(newestFirst(read))]

-----------------------------------------------------------------------------
(* Add: commit timestamp and send are one step under writeChLock.          *)
Add ==
  /\ added < MaxAdd /\ Len(mergeCh) < MergeChCap /\ added' = added + 1
  /\ mergeCh' = Append(mergeCh, [v |-> added + 1, e |-> [vals |-> <<added + 1>>, merge |-> TRUE, discardEarlier |-> FALSE]])
  /\ UNCHANGED <<applied, mergeMem, mergeHot, mergeCold, mergePc, mergeTs, mergeDiscardTs, heatChanged>>

(* The write goroutine: the entry replaces one with the same version.      *)
applyHead ==
  /\ mergeCh # <<>> /\ mergeCh' = Tail(mergeCh)
  /\ LET h == Head(mergeCh) IN
     /\ mergeMem' = over([v \in {h.v} |-> h.e], mergeMem)
     /\ applied' = IF h.e.merge THEN h.v ELSE applied
  /\ UNCHANGED <<added, mergeHot, mergeCold, mergePc, mergeTs, mergeDiscardTs, heatChanged>>

(* compact: take a read timestamp and wait until what it covers is done,   *)
compactBegin ==
  /\ mergePc = "off" /\ mergePc' = "wait" /\ mergeTs' = added
  /\ UNCHANGED <<added, mergeCh, applied, mergeMem, mergeHot, mergeCold, mergeDiscardTs, heatChanged>>

(* then merge and send the result at the latest version, if there was      *)
(* anything to merge.  batchSetAsync does not wait for the write.          *)
compactEntry(m) == [v |-> m.latest, e |-> [vals |-> m.vals, merge |-> FALSE, discardEarlier |-> TRUE]]
compact ==
  /\ mergePc = "wait" /\ applied >= mergeTs /\ Len(mergeCh) < MergeChCap /\ mergePc' = "off"
  /\ LET m == iterateAndMerge(mergeTs) IN
       mergeCh' = IF m.count < 2 THEN mergeCh ELSE Append(mergeCh, compactEntry(m))
  /\ UNCHANGED <<added, applied, mergeMem, mergeHot, mergeCold, mergeTs, mergeDiscardTs, heatChanged>>

-----------------------------------------------------------------------------
(* The memtable goes to the tier that the key's heat says.                 *)
flushMerge(hot) ==
  /\ mergeMem # NoVersions /\ mergeMem' = NoVersions
  /\ mergeHot' = IF hot THEN over(mergeMem, mergeHot) ELSE mergeHot
  /\ mergeCold' = IF hot THEN mergeCold ELSE over(mergeMem, mergeCold)
  /\ heatChanged' = CASE heatChanged = "no" -> IF hot THEN "hot" ELSE "cold"
                      [] heatChanged = (IF hot THEN "hot" ELSE "cold") -> heatChanged
                      [] OTHER -> "yes"
  /\ UNCHANGED <<added, mergeCh, applied, mergePc, mergeTs, mergeDiscardTs>>

(* What a level compaction keeps: everything above the discard timestamp,  *)
(* merge entries, and of the rest the latest; nothing after that one.      *)
lastValid_mergeToo(es, d) == {v \in DOMAIN es : v <= d}
lastValid(es, d) == {v \in DOMAIN es : v <= d /\ ~ es[v].merge}
keptByCompaction(es, d) ==
  Restrict(es, {v \in DOMAIN es : \A u \in lastValid(es, d) : u <= v})

(* Compactions inside a tier, and the eviction of the hot tier, which      *)
(* counts as the newer input; discardTs is below every reader.             *)
discardAllowed(d) == d >= mergeDiscardTs /\ d <= applied /\ (mergePc = "wait" => d <= mergeTs)

compactTier(d) ==
  /\ discardAllowed(d) /\ mergeDiscardTs' = d
  /\ mergeHot' = keptByCompaction(mergeHot, d) /\ mergeCold' = keptByCompaction(mergeCold, d)
  /\ UNCHANGED <<added, mergeCh, applied, mergeMem, mergePc, mergeTs, heatChanged>>

evictMerge(d) ==
  /\ discardAllowed(d) /\ mergeDiscardTs' = d /\ mergeHot # NoVersions
  /\ mergeCold' = keptByCompaction(over(mergeHot, mergeCold), d) /\ mergeHot' = NoVersions
  /\ UNCHANGED <<added, mergeCh, applied, mergeMem, mergePc, mergeTs, heatChanged>>

MergeNext ==
  \/ Add \/ applyHead \/ compactBegin \/ compact \/ (\E hot \in BOOLEAN : flushMerge(hot))
  \/ \E d \in 0 .. MaxAdd : compactTier(d) \/ evictMerge(d)

MergeSpec == MergeInit /\ [][MergeNext]_mergeVars

-----------------------------------------------------------------------------
(* Get is "derived by applying the merge function to all the values added  *)
(* so far", in order and each once: at every timestamp a reader can have,  *)
(* whatever has been merged, written late, flushed, dropped or evicted.    *)
(* It does not hold when the heat of the key changes (README, 5).          *)
MergeComplete ==
  \A ts \in mergeDiscardTs .. applied : iterateAndMerge(ts).vals = [n \in 1 .. ts |-> n]

(* As far as the code ensures it: while the key's heat does not change.    *)
MergeCompleteSettled == heatChanged # "yes" => MergeComplete
=============================================================================
