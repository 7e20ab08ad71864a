------------------------------- MODULE MCParts -------------------------------
(***************************************************************************)
(* Small instances of the data structures and helpers that share no state: *)
(* a behaviour is one of a single part, the others stay as they began.     *)
(***************************************************************************)
EXTENDS SkipList, Iterators, HeatMap, Stream, Sequence, MergeOperator, StreamWriter

CONSTANT Parts
VARIABLE part

(* The iterator's initial states are its inputs; the other parts take one. *)
emptyTree == placed = [c \in Versions |-> {}] /\ opt = CHOOSE o \in IterOptions : TRUE

PartsInit ==
  /\ part \in Parts
  /\ NewSkiplist /\ NewHeatmapManager /\ StreamInit /\ SequenceInit /\ MergeInit /\ StreamWriterInit
  /\ (part = "iterator" \/ emptyTree) /\ IteratorsInit

PartsNext ==
  \/ part = "skiplist" /\ SkipListNext
     /\ UNCHANGED <<part, iterVars, heatVars, streamVars, sequenceVars, mergeVars, swVars>>
  \/ part = "iterator" /\ IteratorsNext
     /\ UNCHANGED <<part, sklVars, heatVars, streamVars, sequenceVars, mergeVars, swVars>>
  \/ part = "heatmap" /\ HeatMapNext
     /\ UNCHANGED <<part, sklVars, iterVars, streamVars, sequenceVars, mergeVars, swVars>>
  \/ part = "stream" /\ StreamNext
     /\ UNCHANGED <<part, sklVars, iterVars, heatVars, sequenceVars, mergeVars, swVars>>
  \/ part = "sequence" /\ SequenceNext
     /\ UNCHANGED <<part, sklVars, iterVars, heatVars, streamVars, mergeVars, swVars>>
  \/ part = "merge" /\ MergeNext
     /\ UNCHANGED <<part, sklVars, iterVars, heatVars, streamVars, sequenceVars, swVars>>
  \/ part = "streamwriter" /\ StreamWriterNext
     /\ UNCHANGED <<part, sklVars, iterVars, heatVars, streamVars, sequenceVars, mergeVars>>

-----------------------------------------------------------------------------
CONSTANTS p1, p2, h1, h2
TwoPutters == {p1, p2}
TwoHandles == {h1, h2}
PartsSymmetry == Permutations(Putters) \cup Permutations(SeqHandles)

(* Of three sources, two never hold the same version: one of them is the   *)
(* memtable, the other a level; the third may hold copies of both.         *)
OverlappingSources == {{}, {1}, {2}, {1, 3}, {2, 3}}
AllOptions ==
  {[reverse |-> r, all |-> a, since |-> w[1], readTs |-> w[2], prefix |-> 0] :
     r \in BOOLEAN, a \in BOOLEAN, w \in {<<0, 2>>, <<1, 2>>, <<0, 1>>}}
  \cup {[reverse |-> FALSE, all |-> a, since |-> 0, readTs |-> 2, prefix |-> 2] : a \in BOOLEAN}

(* Keys of one length; and a key that is a prefix of another.              *)
TwoByteKeys == {<<0, 0>>, <<0, 1>>, <<1, 1>>}
PrefixKeys == {<<0>>, <<0, 1>>}

TwoRanges == <<{1}, {2}>>

(* A stream with two versions of a key, and one that ends within a table.  *)
TwoStreams ==
  <<<<[key |-> 1, ver |-> 2], [key |-> 1, ver |-> 1], [key |-> 2, ver |-> 1]>>, <<[key |-> 3, ver |-> 1]>>>>
==============================================================================
