----------------------------- MODULE SkipListProofs ---------------------------
(***************************************************************************)
(* Proofs about SkipList.tla, for every number of Puts and keys and every  *)
(* height: the lock-free list keeps its levels sorted and every returned   *)
(* Put, and a search beside the Puts finds the nearest key.                *)
(***************************************************************************)
EXTENDS SkipList, FiniteSetTheorems, WellFoundedInduction, TLAPS

LEMMA NodeFacts ==
  /\ HeadNode \notin Putters /\ NilNode \notin Nodes /\ HeadNode \in Nodes /\ Putters \subseteq Nodes
  /\ 0 \in SklLevels /\ SklLevels \subseteq Nat
BY SklAssumption DEF HeadNode, NilNode, Nodes, SklLevels

(* A set of naturals has a least member, a finite one a greatest.          *)
LEMMA LeastNat ==
  ASSUME NEW S \in SUBSET Nat, S # {}
  PROVE  \E m \in S : \A y \in S : m <= y
<1>1. PICK m \in S : \A y \in S : ~ (<<y, m>> \in OpToRel(<, Nat))
  BY NatLessThanWellFounded, WFMin
<1>2. ASSUME NEW y \in S PROVE m <= y
  <2>1. y \in Nat /\ m \in Nat
    OBVIOUS
  <2>2. ~ (y < m)
    BY <1>1, <2>1 DEF OpToRel
  <2>. QED BY <2>1, <2>2
<1>. QED BY <1>2

LEMMA GreatestNat ==
  ASSUME NEW S \in SUBSET Nat, S # {}, IsFiniteSet(S)
  PROVE  Max(S) \in S /\ \A y \in S : y <= Max(S)
<1>. DEFINE above(x) == {y \in S : y > x}
            sizes == {Cardinality(above(x)) : x \in S}
<1>1. \A x \in S : IsFiniteSet(above(x)) /\ Cardinality(above(x)) \in Nat
  BY FS_Subset, FS_CardinalityType
<1>2. PICK x \in S : \A y \in S : Cardinality(above(x)) <= Cardinality(above(y))
  <2>1. sizes \in SUBSET Nat /\ sizes # {}
    BY <1>1
  <2>2. PICK m \in sizes : \A c \in sizes : m <= c
    <3>. HIDE DEF sizes
    <3>. QED BY <2>1, LeastNat
  <2>. QED BY <2>2
<1>3. \A y \in S : y <= x
  <2>. SUFFICES ASSUME NEW y \in S, y > x PROVE FALSE
    OBVIOUS
  <2>1. above(y) \subseteq above(x) /\ y \in above(x) /\ y \notin above(y)
    <3>1. x \in Nat /\ y \in Nat /\ \A z \in S : z \in Nat
      OBVIOUS
    <3>2. ~ (y > y) /\ \A z \in S : z > y => z > x
      BY <3>1
    <3>. QED BY <3>2
  <2>2. Cardinality(above(y)) <= Cardinality(above(x)) /\ Cardinality(above(y)) # Cardinality(above(x))
    <3>. HIDE DEF above
    <3>1. IsFiniteSet(above(x)) /\ above(y) # above(x)
      BY <1>1, <2>1
    <3>. QED BY <2>1, <3>1, FS_Subset
  <2>. QED BY <1>1, <1>2, <2>2
<1>. QED BY <1>3 DEF Max

-----------------------------------------------------------------------------
(* Reachability: the linked nodes are a closed set, and the least one.     *)

LEMMA LinkedNodes ==
  ASSUME NEW i \in SklLevels, SklType
  PROVE  /\ linkedAt(i) \subseteq Nodes /\ HeadNode \in linkedAt(i)
         /\ \A n \in linkedAt(i) : tower[n][i] \in Nodes \cup {NilNode}
         /\ \A n \in linkedAt(i) : tower[n][i] # NilNode => tower[n][i] \in linkedAt(i)
<1>1. linkedAt(i) \subseteq Nodes /\ HeadNode \in linkedAt(i)
  BY NodeFacts DEF linkedAt, closedAt
<1>2. \A n \in linkedAt(i) : tower[n][i] \in Nodes \cup {NilNode}
  BY <1>1 DEF SklType
<1>3. ASSUME NEW n \in linkedAt(i), tower[n][i] # NilNode PROVE tower[n][i] \in linkedAt(i)
  <2>1. tower[n][i] \in Nodes
    BY <1>2, <1>3
  <2>2. ASSUME NEW S \in SUBSET Nodes, closedAt(S, i) PROVE tower[n][i] \in S
    BY <1>3, <2>2 DEF linkedAt, closedAt
  <2>. QED BY <2>1, <2>2 DEF linkedAt
<1>. QED BY <1>1, <1>2, <1>3

LEMMA LinkedLeast ==
  ASSUME NEW i \in SklLevels, NEW S \in SUBSET Nodes, closedAt(S, i)
  PROVE  linkedAt(i) \subseteq S
BY DEF linkedAt

(* A level whose linked nodes keep their successors keeps its nodes.       *)
LEMMA LinksSame ==
  ASSUME NEW i \in SklLevels, SklType, SklType', \A n \in linkedAt(i) : tower'[n][i] = tower[n][i]
  PROVE  linkedAt(i)' = linkedAt(i)
<1>0. PICK L : L = linkedAt(i)
  OBVIOUS
<1>1. L \subseteq Nodes /\ HeadNode \in L /\ \A n \in L : tower[n][i] # NilNode => tower[n][i] \in L
  BY <1>0, LinkedNodes
<1>2. ASSUME NEW n \in linkedAt(i)' PROVE n \in L
  <2>1. closedAt(L, i)'
    BY <1>0, <1>1 DEF closedAt
  <2>. QED BY <1>1, <1>2, <2>1 DEF linkedAt
<1>3. ASSUME NEW n \in L, NEW S \in SUBSET Nodes, closedAt(S, i)' PROVE n \in S
  <2>1. closedAt(S \cap L, i)
    BY <1>0, <1>1, <1>3 DEF closedAt
  <2>2. L \subseteq S \cap L
    BY <1>0, <1>1, <2>1, LinkedLeast
  <2>. QED BY <2>2, <1>3
<1>. QED BY <1>0, <1>1, <1>2, <1>3 DEF linkedAt

(* A node put between a linked one and its successor is the one node that  *)
(* becomes linked.                                                         *)
LEMMA LinkInserted ==
  ASSUME NEW i \in SklLevels, SklType, SklType', NEW p \in Nodes, p \notin linkedAt(i),
         NEW prev \in linkedAt(i), tower'[prev][i] = p, tower'[p][i] = tower[prev][i],
         \A n \in linkedAt(i) \ {prev} : tower'[n][i] = tower[n][i]
  PROVE  linkedAt(i)' = linkedAt(i) \cup {p}
<1>0. PICK L : L = linkedAt(i)
  OBVIOUS
<1>1. L \subseteq Nodes /\ HeadNode \in L /\ \A n \in L : tower[n][i] # NilNode => tower[n][i] \in L
  BY <1>0, LinkedNodes
<1>2. ASSUME NEW n \in linkedAt(i)' PROVE n \in L \cup {p}
  <2>1. closedAt(L \cup {p}, i)'
    BY <1>0, <1>1 DEF closedAt
  <2>2. L \cup {p} \in SUBSET Nodes
    BY <1>1
  <2>. QED BY <1>2, <2>1, <2>2 DEF linkedAt
<1>3. ASSUME NEW n \in L \cup {p}, NEW S \in SUBSET Nodes, closedAt(S, i)' PROVE n \in S
  <2>1. prev \in S => p \in S
    BY <1>3, NodeFacts DEF closedAt
  <2>2. closedAt(S \cap L, i)
    <3>1. ASSUME NEW m \in S \cap L, m # prev, tower[m][i] # NilNode PROVE tower[m][i] \in S \cap L
      BY <1>0, <3>1, <1>1, <1>3 DEF closedAt
    <3>2. ASSUME prev \in S, tower[prev][i] # NilNode PROVE tower[prev][i] \in S \cap L
      BY <1>0, <3>2, <2>1, <1>1, <1>3 DEF closedAt
    <3>3. HeadNode \in S
      BY <1>3 DEF closedAt
    <3>. QED BY <3>1, <3>2, <3>3, <1>1 DEF closedAt
  <2>3. L \subseteq S \cap L
    BY <1>0, <1>1, <2>2, LinkedLeast
  <2>. QED BY <1>0, <1>3, <2>1, <2>3
<1>. QED BY <1>0, <1>1, <1>2, <1>3 DEF linkedAt

-----------------------------------------------------------------------------
(* Levels after a step.                                                    *)

(* What the nodes of level i are keeps its order.                          *)
LEMMA OrderKept ==
  ASSUME NEW i \in SklLevels, SklType, SklType', LevelSorted(i), linkedAt(i)' = linkedAt(i),
         i > 0 => linkedAt(i - 1) \subseteq linkedAt(i - 1)',
         \A n \in linkedAt(i) : tower'[n][i] = tower[n][i] /\ nodeKey'[n] = nodeKey[n],
         \A n \in linkedAt(i) \ {HeadNode} : putter'[n].key = putter[n].key
  PROVE  LevelSorted(i)'
<1>1. \A n \in linkedAt(i) : tower[n][i] # NilNode => tower[n][i] \in linkedAt(i)
  BY LinkedNodes
<1>2. ASSUME NEW n \in linkedAt(i)'
      PROVE  /\ tower'[n][i] # NilNode => nodeKey'[n] < nodeKey'[tower'[n][i]]
             /\ i > 0 => n \in linkedAt(i - 1)'
             /\ n # HeadNode => nodeKey'[n] = putter'[n].key /\ nodeKey'[n] > 0
  BY <1>1, <1>2 DEF LevelSorted
<1>3. ASSUME NEW n \in linkedAt(i)', NEW m \in linkedAt(i)'
      PROVE  /\ nodeKey'[n] = nodeKey'[m] => n = m
             /\ nodeKey'[n] < nodeKey'[m] => /\ tower'[n][i] # NilNode
                                            /\ nodeKey'[tower'[n][i]] <= nodeKey'[m]
  BY <1>1, <1>3 DEF LevelSorted
<1>. QED BY <1>2, <1>3 DEF LevelSorted

(* Node p comes between prev and its successor at level i.                 *)
Inserted(i, p, prev) ==
  /\ p \notin linkedAt(i) /\ prev \in linkedAt(i) /\ nodeKey' = nodeKey
  /\ nodeKey[prev] < nodeKey[p] /\ nodeKey[p] = putter'[p].key
  /\ tower[prev][i] # NilNode => nodeKey[p] < nodeKey[tower[prev][i]]
  /\ tower'[prev][i] = p /\ tower'[p][i] = tower[prev][i]
  /\ \A n \in linkedAt(i) \ {prev} : tower'[n][i] = tower[n][i]
  /\ i > 0 => linkedAt(i - 1) \cup {p} \subseteq linkedAt(i - 1)'
  /\ \A n \in linkedAt(i) \ {HeadNode} : putter'[n].key = putter[n].key

(* A node linked between its neighbours keeps the order.                   *)
LEMMA OrderInserted ==
  ASSUME NEW i \in SklLevels, SklType, SklType', LevelSorted(i), NEW p \in Putters, NEW prev,
         Inserted(i, p, prev)
  PROVE  LevelSorted(i)'
<1>. USE DEF Inserted
<1>0. PICK L, next : L = linkedAt(i) /\ next = tower[prev][i]
  OBVIOUS
<1>1. /\ L \subseteq Nodes /\ next \in L \cup {NilNode} /\ NilNode \notin L /\ p \notin L /\ p \in Nodes
      /\ p # NilNode /\ p # HeadNode /\ prev \in L
      /\ \A n \in L : tower[n][i] # NilNode => tower[n][i] \in L
  BY <1>0, LinkedNodes, NodeFacts
<1>2. linkedAt(i)' = L \cup {p}
  BY <1>0, <1>1, LinkInserted
<1>3. \A n \in Nodes : nodeKey[n] \in Nat
  BY DEF SklType
<1>4. \A n \in L : /\ tower[n][i] # NilNode => nodeKey[n] < nodeKey[tower[n][i]]
                   /\ i > 0 => n \in linkedAt(i - 1)
                   /\ n # HeadNode => nodeKey[n] = putter[n].key /\ nodeKey[n] > 0
  BY <1>0 DEF LevelSorted
<1>5. \A n, m \in L : /\ nodeKey[n] = nodeKey[m] => n = m
                      /\ nodeKey[n] < nodeKey[m] => /\ tower[n][i] # NilNode
                                                    /\ nodeKey[tower[n][i]] <= nodeKey[m]
  BY <1>0 DEF LevelSorted
<1>6. tower'[prev][i] = p /\ tower'[p][i] = next /\ \A n \in L \ {prev} : tower'[n][i] = tower[n][i]
  BY <1>0
<1>7. nodeKey[prev] < nodeKey[p] /\ (next # NilNode => nodeKey[p] < nodeKey[next])
  BY <1>0
<1>8. \A m \in L : nodeKey[m] <= nodeKey[prev] \/ (next # NilNode /\ nodeKey[next] <= nodeKey[m])
  BY <1>0, <1>1, <1>3, <1>5
<1>9. \A n \in L : nodeKey[n] # nodeKey[p]
  BY <1>1, <1>3, <1>7, <1>8
<1>10. ASSUME NEW n \in L \cup {p}
       PROVE  /\ tower'[n][i] # NilNode => nodeKey[n] < nodeKey[tower'[n][i]]
              /\ i > 0 => n \in linkedAt(i - 1)'
              /\ n # HeadNode => nodeKey[n] = putter'[n].key /\ nodeKey[n] > 0
  <2>1. tower'[n][i] # NilNode => nodeKey[n] < nodeKey[tower'[n][i]]
    BY <1>4, <1>6, <1>7, <1>10
  <2>2. n # HeadNode => nodeKey[n] = putter'[n].key
    BY <1>0, <1>4, <1>10
  <2>3. n # HeadNode => nodeKey[n] > 0
    BY <1>1, <1>3, <1>4, <1>7, <1>10
  <2>. QED BY <1>0, <1>4, <1>10, <2>1, <2>2, <2>3
<1>11. ASSUME NEW n \in L \cup {p}, NEW m \in L \cup {p}, nodeKey[n] = nodeKey[m] PROVE n = m
  <2>1. CASE n \in L /\ m \in L
    BY <2>1, <1>5, <1>11
  <2>2. CASE n = p \/ m = p
    BY <2>2, <1>9, <1>11
  <2>. QED BY <1>11, <2>1, <2>2
<1>12. ASSUME NEW n \in L \cup {p}, NEW m \in L \cup {p}, nodeKey[n] < nodeKey[m]
       PROVE  tower'[n][i] # NilNode /\ nodeKey[tower'[n][i]] <= nodeKey[m]
  <2>1. CASE n = p
    BY <2>1, <1>1, <1>3, <1>6, <1>7, <1>8, <1>12
  <2>2. CASE n = prev
    BY <2>2, <1>1, <1>3, <1>6, <1>7, <1>8, <1>12
  <2>3. CASE n \in L \ {prev} /\ m \in L
    BY <2>3, <1>5, <1>6, <1>12
  <2>4. CASE n \in L \ {prev} /\ m = p
    <3>1. nodeKey[n] < nodeKey[prev]
      <4>1. nodeKey[n] <= nodeKey[prev]
        BY <2>4, <1>1, <1>3, <1>7, <1>8, <1>12
      <4>2. nodeKey[n] # nodeKey[prev]
        BY <2>4, <1>1, <1>5
      <4>. QED BY <4>1, <4>2, <2>4, <1>1, <1>3
    <3>2. tower[n][i] # NilNode /\ nodeKey[tower[n][i]] <= nodeKey[prev] /\ tower[n][i] \in L
      BY <3>1, <2>4, <1>1, <1>5
    <3>. QED BY <3>2, <2>4, <1>1, <1>3, <1>6, <1>7
  <2>. QED BY <1>12, <2>1, <2>2, <2>3, <2>4
<1>. QED BY <1>2, <1>10, <1>11, <1>12 DEF LevelSorted

-----------------------------------------------------------------------------
(* What a step of Put p is to everything but its own bookkeeping: the      *)
(* levels stay sorted and only gain p, a linked node keeps its key, and a  *)
(* value changes only to p.                                                *)
PutEffect(p) ==
  /\ SklType' /\ nodeKey'[HeadNode] = 0
  /\ \A i \in SklLevels : /\ LevelSorted(i)'
                          /\ linkedAt(i) \subseteq linkedAt(i)'
                          /\ linkedAt(i)' \subseteq linkedAt(i) \cup {p}
                          /\ \A n \in linkedAt(i) : nodeKey'[n] = nodeKey[n]
  /\ \A n \in Nodes \ {p} : nodeKey'[n] = nodeKey[n]
  /\ \A n \in Nodes : nodeVal'[n] \in {nodeVal[n], p}
  /\ putter[p].pc # "done"
  /\ \A r \in Putters \ {p} : putter'[r] = putter[r] /\ putDone'[r] = putDone[r]
  /\ finder' = finder

(* What Put p has to show for itself after its step.                       *)
OwnPlace(p) ==
  /\ PutterPlaced(p) /\ putDone[p] \subseteq Returned
  /\ p \in Returned => \E n \in linkedAt(0) \ {HeadNode} :
                          nodeKey[n] = putter[p].key /\ nodeVal[n] \notin putDone[p]

LEMMA ReturnedGrows ==
  ASSUME NEW p \in Putters, PutEffect(p)
  PROVE  p \notin Returned /\ Returned \subseteq Returned' /\ Returned' \subseteq Returned \cup {p}
BY DEF PutEffect, Returned

LEMMA OthersPlaced ==
  ASSUME SklInv, NEW p \in Putters, PutEffect(p), NEW r \in Putters \ {p}
  PROVE  PutterPlaced(r)' /\ putDone'[r] \subseteq Returned'
<1>0. PICK q : q = putter[r] /\ q = putter'[r]
  BY DEF PutEffect
<1>1. putDone[r] \subseteq Returned /\ putDone'[r] = putDone[r] /\ PutterPlaced(r) /\ p \notin putDone[r]
  BY ReturnedGrows DEF SklInv, PutEffect
<1>2. r \in Nodes /\ nodeKey'[r] = nodeKey[r] /\ nodeVal'[r] \in {nodeVal[r], p}
  BY NodeFacts DEF PutEffect
<1>3. \A i \in SklLevels : r \in linkedAt(i)' <=> r \in linkedAt(i)
  BY DEF PutEffect
<1>4. \A i \in SklLevels : \A n \in linkedAt(i) : n \in linkedAt(i)' /\ nodeKey'[n] = nodeKey[n]
  BY DEF PutEffect
<1>5. q.pc \in {"search", "splice"} => q.level \in SklLevels
  BY <1>0 DEF SklInv, SklType, PutterType
<1>6. /\ q.pc # "new" => q.key > 0
      /\ q.pc \in {"new", "search", "node", "raise"} => \A i \in SklLevels : r \notin linkedAt(i)'
      /\ q.pc \in {"link", "splice"} => \A i \in SklLevels : r \in linkedAt(i)' <=> i < q.level
      /\ q.pc \in {"node", "raise"} => q.level = 0
      /\ q.pc \in {"raise", "link", "splice"} => q.level < q.height
  BY <1>0, <1>1, <1>3 DEF PutterPlaced, Placed, NodeMade
<1>7. q.pc \in {"search", "splice"} => q.at \in linkedAt(q.level)' /\ nodeKey'[q.at] < q.key
  BY <1>0, <1>1, <1>4, <1>5 DEF PutterPlaced, Placed, NodeMade
<1>8. q.pc \in {"raise", "link", "splice"} => nodeKey'[r] = q.key /\ nodeVal'[r] \notin putDone'[r]
  BY <1>0, <1>1, <1>2 DEF PutterPlaced, Placed, NodeMade
<1>9. \A i \in SklLevels :
        /\ q.prev[i] # NilNode => q.prev[i] \in linkedAt(i)' /\ nodeKey'[q.prev[i]] < q.key
        /\ q.next[i] # NilNode => q.next[i] \in linkedAt(i)' /\ q.key < nodeKey'[q.next[i]]
  BY <1>0, <1>1, <1>4 DEF PutterPlaced, Placed, NodeMade
<1>10. PutterPlaced(r)'
  BY <1>0, <1>6, <1>7, <1>8, <1>9 DEF PutterPlaced, Placed, NodeMade
<1>. QED BY <1>1, <1>10, ReturnedGrows

LEMMA BaseHolds ==
  ASSUME PutsKept
  PROVE  \A p \in Returned : \E n \in linkedAt(0) \ {HeadNode} :
           nodeKey[n] = putter[p].key /\ nodeVal[n] \notin putDone[p]
<1>. DEFINE list == [i \in SklLevels |-> linkedAt(i)]
<1>1. list[0] = linkedAt(0)
  BY NodeFacts
<1>. HIDE DEF list
<1>. QED BY <1>1 DEF PutsKept, list

(* A returned Put stays found: its node stays linked, with its key, and    *)
(* the only new value is that of a Put that had not returned.              *)
LEMMA ReturnedStay ==
  ASSUME SklInv, NEW p \in Putters, PutEffect(p), NEW r \in Returned
  PROVE  \E n \in linkedAt(0)' \ {HeadNode} : nodeKey'[n] = putter'[r].key /\ nodeVal'[n] \notin putDone'[r]
<1>1. r \in Putters \ {p} /\ putter'[r] = putter[r] /\ putDone'[r] = putDone[r] /\ p \notin putDone[r]
  BY ReturnedGrows DEF Returned, PutEffect, SklInv
<1>2. PICK n \in linkedAt(0) \ {HeadNode} : nodeKey[n] = putter[r].key /\ nodeVal[n] \notin putDone[r]
  BY BaseHolds DEF SklInv
<1>3. n \in Nodes /\ n \in linkedAt(0)' /\ nodeKey'[n] = nodeKey[n] /\ nodeVal'[n] \in {nodeVal[n], p}
  BY NodeFacts, LinkedNodes DEF PutEffect, SklInv
<1>. QED BY <1>1, <1>2, <1>3

ReturnedFound ==
  \A p \in Returned : \E n \in linkedAt(0) \ {HeadNode} :
    nodeKey[n] = putter[p].key /\ nodeVal[n] \notin putDone[p]
AllSorted == SklType /\ \A i \in SklLevels : LevelSorted(i)

LEMMA SortedKept == AllSorted /\ ReturnedFound => PutsKept
<1>. SUFFICES ASSUME AllSorted, ReturnedFound PROVE PutsKept
  OBVIOUS
<1>. USE DEF AllSorted
<1>1. 0 \in SklLevels /\ \A i \in SklLevels : i > 0 => i - 1 \in SklLevels
  BY SklAssumption DEF SklLevels
<1>. DEFINE list == [i \in SklLevels |-> linkedAt(i)]
<1>2. \A i \in SklLevels : list[i] = linkedAt(i)
  OBVIOUS
<1>3. \A i \in SklLevels : i > 0 => list[i - 1] = linkedAt(i - 1)
  BY <1>1
<1>. HIDE DEF list
<1>4. \A i \in SklLevels : \A n \in list[i] :
        /\ tower[n][i] # NilNode => nodeKey[n] < nodeKey[tower[n][i]]
        /\ i > 0 => n \in list[i - 1]
  BY <1>2, <1>3 DEF LevelSorted
<1>5. list[0] = linkedAt(0)
  BY <1>1, <1>2
<1>. QED BY <1>4, <1>5 DEF PutsKept, ReturnedFound, list

LEMMA SearchUndisturbed ==
  ASSUME SklInv, NEW p \in Putters, PutEffect(p)
  PROVE  FinderPlaced' /\ FindNearest'
<1>0. PICK f : f = finder /\ f = finder'
  BY DEF PutEffect
<1>1. /\ f.before \subseteq Returned /\ f.before \subseteq Returned'
      /\ \A r \in f.before : putter'[r] = putter[r]
  BY <1>0, ReturnedGrows DEF SklInv, FinderPlaced, PutEffect, Returned
<1>2. \A i \in SklLevels : \A n \in linkedAt(i) : n \in linkedAt(i)' /\ nodeKey'[n] = nodeKey[n]
  BY DEF PutEffect
<1>3. f.level \in SklLevels /\ 0 \in SklLevels
  BY <1>0, NodeFacts DEF SklInv, SklType, FinderType
<1>4. FinderPlaced'
  BY <1>0, <1>1, <1>2, <1>3 DEF SklInv, FinderPlaced
<1>5. f.pc = "found" /\ f.found # NilNode => nodeKey'[f.found] = nodeKey[f.found]
  BY <1>0, <1>2, <1>3 DEF SklInv, FinderPlaced
<1>6. {putter[r].key : r \in f.before} = {putter'[r].key : r \in f.before}
  BY <1>1
<1>. DEFINE known == {putter[r].key : r \in f.before}
            fits(j) == (f.less /\ j < f.key) \/ (~ f.less /\ j > f.key) \/ (f.eq /\ j = f.key)
            dist(j) == IF f.less THEN f.key - j ELSE j - f.key
            good(key) == IF f.found = NilNode THEN \A j \in known : ~ fits(j)
                         ELSE /\ f.found # HeadNode /\ fits(key[f.found])
                              /\ \A j \in known : fits(j) => dist(key[f.found]) <= dist(j)
<1>7. f.pc = "found" => good(nodeKey)
  BY <1>0 DEF SklInv, FindNearest
<1>8. f.pc = "found" => good(nodeKey')
  BY <1>5, <1>7
<1>9. FindNearest'
  BY <1>0, <1>6, <1>8 DEF FindNearest
<1>. QED BY <1>4, <1>9

LEMMA PutStepKeeps ==
  ASSUME SklInv, NEW p \in Putters, PutEffect(p), OwnPlace(p)'
  PROVE  SklInv'
<1>1. SklType' /\ nodeKey'[HeadNode] = 0 /\ \A i \in SklLevels : LevelSorted(i)'
  BY DEF PutEffect
<1>2. ASSUME NEW r \in Putters PROVE putDone'[r] \subseteq Returned' /\ PutterPlaced(r)'
  BY OthersPlaced DEF OwnPlace
<1>3. ASSUME NEW r \in Returned'
      PROVE  \E n \in linkedAt(0)' \ {HeadNode} : nodeKey'[n] = putter'[r].key /\ nodeVal'[n] \notin putDone'[r]
  BY <1>3, ReturnedGrows, ReturnedStay DEF OwnPlace
<1>4. PutsKept'
  <2>1. AllSorted' /\ ReturnedFound'
    BY <1>1, <1>3 DEF AllSorted, ReturnedFound
  <2>. QED BY <2>1, SortedKept, PTL
<1>5. FinderPlaced' /\ FindNearest'
  BY SearchUndisturbed
<1>. QED BY <1>1, <1>2, <1>4, <1>5 DEF SklInv

-----------------------------------------------------------------------------
(* The steps of Put.                                                       *)

LEMMA PutterSet ==
  ASSUME SklType, NEW p \in Putters, NEW r \in PutterType, putter' = [putter EXCEPT ![p] = r]
  PROVE  /\ putter' \in [Putters -> PutterType] /\ putter'[p] = r
         /\ \A o \in Putters \ {p} : putter'[o] = putter[o]
BY DEF SklType

(* A step that changes no pointer and no key of a linked node.             *)
LEMMA QuietEffect ==
  ASSUME SklInv, NEW p \in Putters, NEW r \in PutterType, putter' = [putter EXCEPT ![p] = r],
         putter[p].pc # "done", r.key = putter[p].key \/ putter[p].pc = "new",
         tower' \in [Nodes -> [SklLevels -> Nodes \cup {NilNode}]], nodeKey' \in [Nodes -> Nat],
         \A i \in SklLevels : \A n \in linkedAt(i) : tower'[n][i] = tower[n][i] /\ nodeKey'[n] = nodeKey[n],
         \A n \in Nodes \ {p} : nodeKey'[n] = nodeKey[n],
         listHeight' \in 1 .. SklHeight, finder' = finder,
         nodeVal' \in [Nodes -> Putters \cup {NilNode}], \A n \in Nodes : nodeVal'[n] \in {nodeVal[n], p},
         putDone' \in [Putters -> SUBSET Putters], \A o \in Putters \ {p} : putDone'[o] = putDone[o]
  PROVE  PutEffect(p) /\ putter'[p] = r /\ \A i \in SklLevels : linkedAt(i)' = linkedAt(i)
<1>1. /\ putter' \in [Putters -> PutterType] /\ putter'[p] = r
      /\ \A o \in Putters \ {p} : putter'[o] = putter[o]
  BY PutterSet DEF SklInv
<1>2. SklType /\ SklType'
  BY <1>1 DEF SklInv, SklType
<1>3. \A i \in SklLevels : linkedAt(i)' = linkedAt(i)
  BY <1>2, LinksSame
<1>4. \A i \in SklLevels : \A n \in linkedAt(i) \ {HeadNode} : putter'[n].key = putter[n].key
  <2>. SUFFICES ASSUME NEW i \in SklLevels, NEW n \in linkedAt(i) \ {HeadNode}
                PROVE  putter'[n].key = putter[n].key
    OBVIOUS
  <2>1. n \in Putters
    BY <1>2, LinkedNodes DEF Nodes
  <2>2. n = p => putter[p].pc # "new"
    BY DEF SklInv, PutterPlaced, Placed
  <2>. QED BY <1>1, <2>1, <2>2
<1>5. \A i \in SklLevels : i > 0 => i - 1 \in SklLevels
  BY SklAssumption DEF SklLevels
<1>6. \A i \in SklLevels : LevelSorted(i)'
  BY <1>2, <1>3, <1>4, <1>5, OrderKept DEF SklInv
<1>7. nodeKey'[HeadNode] = 0
  BY NodeFacts DEF SklInv
<1>. QED BY <1>1, <1>2, <1>3, <1>6, <1>7 DEF PutEffect

LEMMA QuietGoesOn ==
  ASSUME SklInv, NEW p \in Putters, NEW r \in PutterType, PutEffect(p), putter'[p] = r,
         \A i \in SklLevels : linkedAt(i)' = linkedAt(i),
         r.pc # "done", putDone'[p] \subseteq Returned, Placed(p, r), NodeMade(p, r)'
  PROVE  SklInv'
<1>1. \A i \in SklLevels : \A n \in linkedAt(i) : nodeKey'[n] = nodeKey[n]
  BY DEF PutEffect
<1>2. r.level \in SklLevels
  BY DEF PutterType
<1>3. Placed(p, r)'
  <2>1. /\ r.pc # "new" => r.key > 0
        /\ r.pc \in {"new", "search", "node", "raise"} => \A i \in SklLevels : p \notin linkedAt(i)'
        /\ r.pc \in {"link", "splice"} => \A i \in SklLevels : p \in linkedAt(i)' <=> i < r.level
        /\ r.pc \in {"node", "raise"} => r.level = 0
        /\ r.pc \in {"raise", "link", "splice"} => r.level < r.height
    BY DEF Placed
  <2>2. r.pc \in {"search", "splice"} => r.at \in linkedAt(r.level)' /\ nodeKey'[r.at] < r.key
    BY <1>1, <1>2 DEF Placed
  <2>3. \A i \in SklLevels :
          /\ r.prev[i] # NilNode => r.prev[i] \in linkedAt(i)' /\ nodeKey'[r.prev[i]] < r.key
          /\ r.next[i] # NilNode => r.next[i] \in linkedAt(i)' /\ r.key < nodeKey'[r.next[i]]
    BY <1>1 DEF Placed
  <2>. QED BY <2>1, <2>2, <2>3 DEF Placed
<1>4. PutterPlaced(p)'
  BY <1>3 DEF PutterPlaced
<1>5. putDone'[p] \subseteq Returned' /\ p \notin Returned'
  BY ReturnedGrows DEF Returned
<1>. QED BY <1>4, <1>5, PutStepKeeps DEF OwnPlace

Splice(s, i, key) ==
  /\ s.prev \in linkedAt(i) /\ s.next \in linkedAt(i) \cup {NilNode} /\ s.end \in BOOLEAN
  /\ ~ s.end => nodeKey[s.prev] < key
  /\ s.end /\ s.prev = s.next => s.prev # HeadNode /\ nodeKey[s.prev] = key
  /\ s.end /\ s.prev # s.next => nodeKey[s.prev] < key /\ (s.next # NilNode => key < nodeKey[s.next])

(* One load of a search that is at a linked node before the key.           *)
LEMMA SpliceFound ==
  ASSUME SklInv, NEW i \in SklLevels, NEW at \in linkedAt(i), NEW key \in Nat, nodeKey[at] < key,
         NEW s, s = splice(at, tower[at][i], key)
  PROVE  Splice(s, i, key)
<1>0. PICK next : next = tower[at][i]
  OBVIOUS
<1>1. /\ next # NilNode => next \in linkedAt(i) /\ nodeKey[next] \in Nat
      /\ at \in Nodes /\ nodeKey[at] \in Nat /\ at # NilNode /\ nodeKey[HeadNode] = 0
  BY <1>0, NodeFacts, LinkedNodes DEF SklInv, SklType
<1>2. CASE next = NilNode \/ key < nodeKey[next]
  <2>1. s = [end |-> TRUE, prev |-> at, next |-> next]
    BY <1>0, <1>2 DEF splice
  <2>2. s.end /\ s.end \in BOOLEAN /\ s.prev = at /\ s.next = next
    BY <2>1
  <2>3. nodeKey[at] < key /\ at \in linkedAt(i) /\ key \in Nat
    OBVIOUS
  <2>. QED BY <1>1, <1>2, <2>2, <2>3 DEF Splice
<1>3. CASE next # NilNode /\ ~ key < nodeKey[next] /\ key = nodeKey[next]
  <2>1. s = [end |-> TRUE, prev |-> next, next |-> next]
    BY <1>0, <1>3 DEF splice
  <2>2. s.end /\ s.end \in BOOLEAN /\ s.prev = next /\ s.next = next
    BY <2>1
  <2>3. nodeKey[at] < key /\ at \in linkedAt(i) /\ key \in Nat
    OBVIOUS
  <2>. QED BY <1>1, <1>3, <2>2, <2>3 DEF Splice
<1>4. CASE next # NilNode /\ ~ key < nodeKey[next] /\ key # nodeKey[next]
  <2>1. s = [end |-> FALSE, prev |-> next, next |-> next]
    BY <1>0, <1>4 DEF splice
  <2>2. ~ s.end /\ s.end \in BOOLEAN /\ s.prev = next /\ s.next = next
    BY <2>1
  <2>3. nodeKey[at] < key /\ at \in linkedAt(i) /\ key \in Nat
    OBVIOUS
  <2>. QED BY <1>1, <1>4, <2>2, <2>3 DEF Splice
<1>. QED BY <1>2, <1>3, <1>4

Splices == [0 .. SklHeight -> Nodes \cup {NilNode}]

LEMMA NotPutFields ==
  /\ NotPut \in PutterType /\ NotPut.pc = "new" /\ NotPut.key = 0 /\ NotPut.level = 0 /\ NotPut.at = HeadNode
  /\ NotPut.prev \in Splices /\ NotPut.next \in Splices
  /\ \A i \in 0 .. SklHeight : NotPut.prev[i] = NilNode /\ NotPut.next[i] = NilNode
BY SklAssumption, NodeFacts DEF NotPut, PutterType, SklLevels, Splices

PutterFields(r) ==
  /\ r.pc \in {"new", "search", "node", "raise", "link", "splice", "done"}
  /\ r.key \in PutKeys \cup {0} /\ r.level \in SklLevels /\ r.at \in Nodes /\ r.height \in 0 .. SklHeight
  /\ r.seen \in Nat /\ r.prev \in Splices /\ r.next \in Splices

LEMMA PutterIs ==
  ASSUME NEW r, PutterFields(r),
         r = [pc |-> r.pc, key |-> r.key, level |-> r.level, at |-> r.at, height |-> r.height,
              seen |-> r.seen, prev |-> r.prev, next |-> r.next]
  PROVE  r \in PutterType
BY DEF PutterFields, PutterType, Splices

LEMMA PutterOf ==
  ASSUME NEW r \in PutterType
  PROVE  /\ PutterFields(r) /\ r.key \in Nat
         /\ r = [pc |-> r.pc, key |-> r.key, level |-> r.level, at |-> r.at, height |-> r.height,
                 seen |-> r.seen, prev |-> r.prev, next |-> r.next]
<1>1. PutterFields(r)
  BY DEF PutterFields, PutterType, Splices
<1>2. r = [pc |-> r.pc, key |-> r.key, level |-> r.level, at |-> r.at, height |-> r.height,
           seen |-> r.seen, prev |-> r.prev, next |-> r.next]
  BY DEF PutterType
<1>3. PutKeys \cup {0} \subseteq Nat
  BY SklAssumption
<1>4. r.key \in Nat
  BY <1>1, <1>3 DEF PutterFields
<1>. QED BY <1>1, <1>2, <1>4

(* Put returns with the value set, on its own node or on that of another.  *)
LEMMA PutReturns ==
  ASSUME SklInv, NEW p \in Putters, putter[p].pc # "new", PutEffect(p),
         putter'[p] = [NotPut EXCEPT !.pc = "done", !.key = putter[p].key], putDone' = putDone,
         NEW n, n \in linkedAt(0)' \ {HeadNode}, nodeKey'[n] = putter[p].key, nodeVal'[n] \notin putDone[p]
  PROVE  SklInv'
<1>1. PICK r : r = putter'[p]
  OBVIOUS
<1>2. /\ r.pc = "done" /\ r.key = putter[p].key
      /\ \A i \in SklLevels : r.prev[i] = NilNode /\ r.next[i] = NilNode
  <2>1. r.pc = "done" /\ r.key = putter[p].key /\ r.prev = NotPut.prev /\ r.next = NotPut.next
    BY <1>1 DEF NotPut
  <2>2. SklLevels \subseteq 0 .. SklHeight
    BY SklAssumption DEF SklLevels
  <2>. QED BY <2>1, <2>2, NotPutFields
<1>3. r.key > 0
  BY <1>2 DEF SklInv, PutterPlaced, Placed
<1>4. PutterPlaced(p)'
  BY <1>1, <1>2, <1>3 DEF PutterPlaced, Placed, NodeMade
<1>5. putDone'[p] \subseteq Returned'
  BY ReturnedGrows DEF SklInv
<1>6. n \in linkedAt(0)' /\ nodeKey'[n] = putter'[p].key
  BY <1>1, <1>2
<1>. QED BY <1>4, <1>5, <1>6, PutStepKeeps DEF OwnPlace

LEMMA BeginPutKeeps ==
  ASSUME SklInv, NEW p \in Putters, NEW k \in PutKeys, beginPut(p, k)
  PROVE  SklInv'
<1>1. PICK r : r = [NotPut EXCEPT !.pc = "search", !.key = k, !.level = listHeight - 1,
                                  !.prev[listHeight] = HeadNode]
  OBVIOUS
<1>2. /\ putter[p].pc = "new" /\ putter' = [putter EXCEPT ![p] = r]
      /\ putDone' = [putDone EXCEPT ![p] = Returned]
      /\ UNCHANGED <<tower, nodeKey, nodeVal, listHeight, finder>>
  BY <1>1 DEF beginPut
<1>3. k \in Nat /\ k > 0 /\ listHeight \in 1 .. SklHeight /\ SklHeight \in Nat
  BY SklAssumption DEF SklInv, SklType
<1>4. /\ r.pc = "search" /\ r.key = k /\ r.level = listHeight - 1 /\ r.at = HeadNode /\ r.height = 0
      /\ r.seen = 0 /\ r.next = NotPut.next /\ r.prev = [NotPut.prev EXCEPT ![listHeight] = HeadNode]
      /\ r = [pc |-> r.pc, key |-> r.key, level |-> r.level, at |-> r.at, height |-> r.height,
              seen |-> r.seen, prev |-> r.prev, next |-> r.next]
  BY <1>1 DEF NotPut
<1>5. listHeight - 1 \in SklLevels
  BY <1>3 DEF SklLevels
<1>6. r.prev \in Splices /\ r.next \in Splices
  BY <1>4, NotPutFields, NodeFacts DEF Splices
<1>7. r \in PutterType
  <2>1. PutterFields(r)
    BY <1>3, <1>4, <1>5, <1>6, NodeFacts DEF PutterFields
  <2>. QED BY <1>4, <2>1, PutterIs
<1>8. \A i \in SklLevels : r.next[i] = NilNode /\ r.prev[i] \in {NilNode, HeadNode}
  <2>1. SklLevels \subseteq 0 .. SklHeight /\ \A i \in 0 .. SklHeight : NotPut.next[i] = NilNode
    BY <1>3, NotPutFields DEF SklLevels
  <2>2. \A i \in 0 .. SklHeight : r.prev[i] \in {NilNode, HeadNode}
    BY <1>4, NotPutFields DEF PutterType
  <2>. QED BY <1>4, <2>1, <2>2
<1>9. Returned \in SUBSET Putters
  BY DEF Returned
<1>10. /\ putDone' \in [Putters -> SUBSET Putters] /\ putDone'[p] = Returned
       /\ \A o \in Putters \ {p} : putDone'[o] = putDone[o]
  BY <1>2, <1>9 DEF SklInv, SklType
<1>11. PutEffect(p) /\ putter'[p] = r /\ \A i \in SklLevels : linkedAt(i)' = linkedAt(i)
  BY <1>2, <1>3, <1>7, <1>10, QuietEffect DEF SklInv, SklType
<1>12. \A i \in SklLevels : HeadNode \in linkedAt(i) /\ nodeKey[HeadNode] = 0 /\ p \notin linkedAt(i)
  BY <1>2, LinkedNodes DEF SklInv, PutterPlaced, Placed
<1>13. Placed(p, r)
  BY <1>3, <1>4, <1>5, <1>8, <1>12 DEF Placed
<1>14. NodeMade(p, r)'
  BY <1>4 DEF NodeMade
<1>. QED BY <1>4, <1>7, <1>10, <1>11, <1>13, <1>14, QuietGoesOn

(* What is known of a Put at any point.                                    *)
LEMMA PutterNow ==
  ASSUME SklInv, NEW p \in Putters
  PROVE  /\ putter[p] \in PutterType /\ putDone[p] \subseteq Returned
         /\ Placed(p, putter[p]) /\ NodeMade(p, putter[p]) /\ SklHeight \in Nat /\ SklHeight > 0
         /\ nodeKey \in [Nodes -> Nat] /\ nodeVal \in [Nodes -> Putters \cup {NilNode}]
         /\ tower \in [Nodes -> [SklLevels -> Nodes \cup {NilNode}]] /\ nodeKey[HeadNode] = 0
         /\ putDone \in [Putters -> SUBSET Putters] /\ listHeight \in 1 .. SklHeight
BY SklAssumption DEF SklInv, SklType, PutterPlaced

(* A search of Put that moves on at its level.                             *)
LEMMA WalkKeeps ==
  ASSUME SklInv, NEW p \in Putters, putter[p].pc \in {"search", "splice"}, NEW n \in linkedAt(putter[p].level),
         nodeKey[n] < putter[p].key, putter' = [putter EXCEPT ![p].at = n],
         UNCHANGED <<tower, nodeKey, nodeVal, listHeight, finder, putDone>>
  PROVE  SklInv'
<1>1. PICK q : q = putter[p]
  OBVIOUS
<1>2. q \in PutterType /\ PutterFields(q) /\ Placed(p, q) /\ NodeMade(p, q)
  BY <1>1, PutterNow, PutterOf
<1>3. PICK r : r = [q EXCEPT !.at = n]
  OBVIOUS
<1>4. /\ r.pc = q.pc /\ r.key = q.key /\ r.level = q.level /\ r.at = n /\ r.height = q.height
      /\ r.prev = q.prev /\ r.next = q.next
  BY <1>2, <1>3 DEF PutterType
<1>5. n \in Nodes
  BY <1>1, <1>2, LinkedNodes DEF SklInv, PutterFields
<1>6. r \in PutterType /\ putter' = [putter EXCEPT ![p] = r]
  BY <1>1, <1>2, <1>3, <1>5 DEF PutterType
<1>7. PutEffect(p) /\ putter'[p] = r /\ \A i \in SklLevels : linkedAt(i)' = linkedAt(i)
  BY <1>1, <1>4, <1>6, PutterNow, QuietEffect
<1>8. Placed(p, r)
  BY <1>1, <1>2, <1>4 DEF Placed
<1>9. NodeMade(p, r)'
  BY <1>2, <1>4 DEF NodeMade
<1>10. r.pc # "done" /\ putDone'[p] \subseteq Returned
  BY <1>1, <1>4, PutterNow
<1>. QED BY <1>6, <1>7, <1>8, <1>9, <1>10, QuietGoesOn

(* A linked node is in every level below.                                  *)
LEMMA LinkedBelow ==
  ASSUME \A i \in SklLevels : LevelSorted(i), NEW i \in SklLevels, NEW n \in linkedAt(i)
  PROVE  n \in linkedAt(0) /\ (i > 0 => i - 1 \in SklLevels /\ n \in linkedAt(i - 1))
<1>. DEFINE held == {j \in Nat : j \in SklLevels /\ n \in linkedAt(j)}
<1>1. \A j \in SklLevels : j > 0 => j - 1 \in SklLevels
  BY SklAssumption DEF SklLevels
<1>2. \A j \in held : j > 0 => j - 1 \in held
  BY <1>1, NodeFacts DEF LevelSorted
<1>3. i \in held
  BY NodeFacts
<1>4. PICK j \in held : \A k \in held : j <= k
  <2>1. held \in SUBSET Nat /\ held # {}
    BY <1>3
  <2>. HIDE DEF held
  <2>. QED BY <2>1, LeastNat
<1>5. j = 0
  BY <1>2, <1>4
<1>. QED BY <1>1, <1>4, <1>5 DEF LevelSorted

(* A search that meets the key sets the value of its node.                 *)
LEMMA SetValueKeeps ==
  ASSUME SklInv, NEW p \in Putters, putter[p].pc \in {"search", "splice"}, NEW i \in SklLevels,
         NEW n \in linkedAt(i), n # HeadNode, nodeKey[n] = putter[p].key, setValue(p, n),
         UNCHANGED <<tower, nodeKey, listHeight, finder, putDone>>
  PROVE  SklInv'
<1>1. n \in linkedAt(0) /\ n \in Nodes
  BY LinkedBelow, LinkedNodes DEF SklInv
<1>2. PICK r : r = [NotPut EXCEPT !.pc = "done", !.key = putter[p].key]
  OBVIOUS
<1>3. /\ r.pc = "done" /\ r.key = putter[p].key /\ r.level = 0 /\ r.at = HeadNode /\ r.height = 0 /\ r.seen = 0
      /\ r.prev = NotPut.prev /\ r.next = NotPut.next
      /\ r = [pc |-> r.pc, key |-> r.key, level |-> r.level, at |-> r.at, height |-> r.height,
              seen |-> r.seen, prev |-> r.prev, next |-> r.next]
  BY <1>2 DEF NotPut
<1>4. r \in PutterType
  <2>1. putter[p].key \in PutKeys \cup {0}
    BY PutterNow, PutterOf DEF PutterFields
  <2>2. PutterFields(r)
    BY <1>3, <2>1, NotPutFields, NodeFacts, SklAssumption DEF PutterFields
  <2>. QED BY <1>3, <2>2, PutterIs
<1>5. nodeVal' = [nodeVal EXCEPT ![n] = p] /\ putter' = [putter EXCEPT ![p] = r]
  BY <1>2 DEF setValue
<1>6. /\ nodeVal' \in [Nodes -> Putters \cup {NilNode}] /\ nodeVal'[n] = p
      /\ \A m \in Nodes : nodeVal'[m] \in {nodeVal[m], p}
  BY <1>1, <1>5, PutterNow
<1>7. PutEffect(p) /\ putter'[p] = r
  BY <1>3, <1>4, <1>5, <1>6, PutterNow, QuietEffect
<1>8. p \notin putDone[p]
  BY PutterNow DEF Returned
<1>9. n \in linkedAt(0)' /\ nodeKey'[n] = putter[p].key
  BY <1>1, <1>7, NodeFacts DEF PutEffect
<1>. QED BY <1>2, <1>6, <1>7, <1>8, <1>9, PutReturns

Spliced(q, r, a, b) ==
  /\ r = [pc |-> r.pc, key |-> q.key, level |-> r.level, at |-> r.at, height |-> q.height, seen |-> q.seen,
          prev |-> [q.prev EXCEPT ![q.level] = a], next |-> [q.next EXCEPT ![q.level] = b]]
  /\ \/ q.pc = "search" /\ r.pc = "search" /\ q.level > 0 /\ r.level = q.level - 1 /\ r.at = a
     \/ q.pc = "search" /\ r.pc = "node" /\ r.level = 0 /\ r.at = a
     \/ q.pc = "splice" /\ r.pc = "link" /\ r.level = q.level /\ r.at = q.at

(* A search that ends between two nodes keeps them as the level's splice,  *)
(* and goes on below, makes its node or links it.                          *)
LEMMA SpliceKeeps ==
  ASSUME SklInv, NEW p \in Putters, NEW q, q = putter[p], q.pc \in {"search", "splice"},
         NEW a \in linkedAt(q.level), nodeKey[a] < q.key,
         NEW b \in linkedAt(q.level) \cup {NilNode}, b # NilNode => q.key < nodeKey[b],
         NEW r, Spliced(q, r, a, b),
         putter' = [putter EXCEPT ![p] = r],
         UNCHANGED <<tower, nodeKey, nodeVal, listHeight, finder, putDone>>
  PROVE  SklInv'
<1>1. /\ q \in PutterType /\ PutterFields(q) /\ Placed(p, q) /\ NodeMade(p, q) /\ q.level \in SklLevels
      /\ q.level \in 0 .. SklHeight /\ SklLevels \subseteq 0 .. SklHeight
  BY PutterNow, PutterOf DEF PutterFields, SklLevels
<1>2. a \in Nodes /\ b \in Nodes \cup {NilNode}
  BY <1>1, LinkedNodes DEF SklInv
<1>3. /\ r.key = q.key /\ r.height = q.height /\ r.seen = q.seen
      /\ r.prev = [q.prev EXCEPT ![q.level] = a] /\ r.next = [q.next EXCEPT ![q.level] = b]
      /\ r = [pc |-> r.pc, key |-> r.key, level |-> r.level, at |-> r.at, height |-> r.height,
              seen |-> r.seen, prev |-> r.prev, next |-> r.next]
  BY DEF Spliced
<1>4. a \in linkedAt(0) /\ (q.level > 0 => q.level - 1 \in SklLevels /\ a \in linkedAt(q.level - 1))
  BY <1>1, LinkedBelow DEF SklInv
<1>5. r.prev \in Splices /\ r.next \in Splices
  BY <1>1, <1>2, <1>3 DEF PutterFields, Splices
<1>6. r \in PutterType
  <2>1. r.level \in SklLevels /\ r.at \in Nodes /\ r.pc \in {"search", "node", "link"}
    BY <1>1, <1>2, <1>4, NodeFacts DEF PutterFields, Spliced
  <2>2. PutterFields(r)
    BY <1>1, <1>3, <1>5, <2>1 DEF PutterFields
  <2>. QED BY <1>3, <2>2, PutterIs
<1>7. PutEffect(p) /\ putter'[p] = r /\ \A i \in SklLevels : linkedAt(i)' = linkedAt(i)
  BY <1>3, <1>6, PutterNow, QuietEffect
<1>8. \A i \in SklLevels :
        /\ r.prev[i] # NilNode => r.prev[i] \in linkedAt(i) /\ nodeKey[r.prev[i]] < r.key
        /\ r.next[i] # NilNode => r.next[i] \in linkedAt(i) /\ r.key < nodeKey[r.next[i]]
  <2>. SUFFICES ASSUME NEW i \in SklLevels
                PROVE  /\ r.prev[i] # NilNode => r.prev[i] \in linkedAt(i) /\ nodeKey[r.prev[i]] < r.key
                       /\ r.next[i] # NilNode => r.next[i] \in linkedAt(i) /\ r.key < nodeKey[r.next[i]]
    OBVIOUS
  <2>1. CASE i = q.level
    <3>1. r.prev[i] = a /\ r.next[i] = b
      BY <2>1, <1>1, <1>3 DEF PutterFields, Splices
    <3>. QED BY <3>1, <2>1, <1>3
  <2>2. CASE i # q.level
    <3>1. r.prev[i] = q.prev[i] /\ r.next[i] = q.next[i]
      BY <2>2, <1>1, <1>3 DEF PutterFields, Splices
    <3>. QED BY <3>1, <1>1, <1>3 DEF Placed
  <2>. QED BY <2>1, <2>2
<1>9. Placed(p, r)
  <2>1. CASE q.pc = "search"
    <3>1. q.key > 0 /\ \A i \in SklLevels : p \notin linkedAt(i)
      BY <2>1, <1>1 DEF Placed
    <3>2. r.pc = "search" => r.at \in linkedAt(r.level) /\ nodeKey[r.at] < r.key
      BY <2>1, <1>3, <1>4 DEF Spliced
    <3>3. r.pc \in {"search", "node"} /\ (r.pc = "node" => r.level = 0)
      BY <2>1 DEF Spliced
    <3>. QED BY <3>1, <3>2, <3>3, <1>3, <1>8 DEF Placed
  <2>2. CASE q.pc = "splice"
    <3>1. /\ q.key > 0 /\ q.level < q.height
          /\ \A i \in SklLevels : p \in linkedAt(i) <=> i < q.level
      BY <2>2, <1>1 DEF Placed
    <3>2. r.pc = "link" /\ r.level = q.level
      BY <2>2 DEF Spliced
    <3>. QED BY <3>1, <3>2, <1>3, <1>8 DEF Placed
  <2>. QED BY <2>1, <2>2
<1>10. NodeMade(p, r)'
  BY <1>1, <1>3 DEF NodeMade, Spliced
<1>11. r.pc # "done" /\ putDone'[p] \subseteq Returned
  BY PutterNow DEF Spliced
<1>. QED BY <1>6, <1>7, <1>9, <1>10, <1>11, QuietGoesOn

LEMMA SearchPutKeeps ==
  ASSUME SklInv, NEW p \in Putters, searchPut(p) \/ respliceNode(p)
  PROVE  SklInv'
<1>1. PICK q, s, a, b : /\ q = putter[p] /\ s = splice(q.at, tower[q.at][q.level], q.key)
                        /\ a = s.prev /\ b = s.next
  OBVIOUS
<1>2. /\ q.pc \in {"search", "splice"} /\ UNCHANGED <<tower, nodeKey, listHeight, finder, putDone>>
      /\ q.pc = "search" <=> searchPut(p)
  BY <1>1 DEF searchPut, respliceNode
<1>3. /\ q \in PutterType /\ PutterFields(q) /\ Placed(p, q) /\ q.key \in Nat /\ q.level \in SklLevels
      /\ q = [pc |-> q.pc, key |-> q.key, level |-> q.level, at |-> q.at, height |-> q.height,
              seen |-> q.seen, prev |-> q.prev, next |-> q.next]
  BY <1>1, PutterNow, PutterOf DEF PutterFields
<1>4. q.at \in linkedAt(q.level) /\ nodeKey[q.at] < q.key
  BY <1>2, <1>3 DEF Placed
<1>5. Splice(s, q.level, q.key)
  BY <1>1, <1>3, <1>4, SpliceFound
<1>6. CASE ~ s.end /\ putter' = [putter EXCEPT ![p].at = s.prev] /\ UNCHANGED nodeVal
  BY <1>1, <1>2, <1>5, <1>6, WalkKeeps DEF Splice
<1>7. CASE s.end /\ s.prev = s.next /\ setValue(p, s.prev)
  BY <1>1, <1>2, <1>3, <1>5, <1>7, SetValueKeeps DEF Splice
<1>8. ASSUME searchPut(p), s.end, s.prev # s.next, UNCHANGED nodeVal,
             putter' = [putter EXCEPT ![p] =
                [q EXCEPT !.prev[q.level] = s.prev, !.next[q.level] = s.next, !.at = s.prev,
                          !.level = IF q.level = 0 THEN 0 ELSE q.level - 1,
                          !.pc = IF q.level = 0 THEN "node" ELSE "search"]]
      PROVE  SklInv'
  <2>1. PICK r : r = [q EXCEPT !.prev[q.level] = s.prev, !.next[q.level] = s.next, !.at = s.prev,
                               !.level = IF q.level = 0 THEN 0 ELSE q.level - 1,
                               !.pc = IF q.level = 0 THEN "node" ELSE "search"]
    OBVIOUS
  <2>2. /\ r = [pc |-> r.pc, key |-> q.key, level |-> r.level, at |-> r.at, height |-> q.height,
                seen |-> q.seen, prev |-> [q.prev EXCEPT ![q.level] = a],
                next |-> [q.next EXCEPT ![q.level] = b]]
        /\ r.pc = (IF q.level = 0 THEN "node" ELSE "search") /\ r.at = a
        /\ r.level = IF q.level = 0 THEN 0 ELSE q.level - 1
    BY <2>1, <1>1, <1>3
  <2>3. q.pc = "search"
    BY <1>2, <1>8
  <2>4. q.level \in Nat
    BY <1>3, NodeFacts
  <2>5. Spliced(q, r, a, b)
    BY <2>2, <2>3, <2>4 DEF Spliced
  <2>6. putter' = [putter EXCEPT ![p] = r]
    BY <1>8, <2>1
  <2>7. /\ a \in linkedAt(q.level) /\ nodeKey[a] < q.key
        /\ b \in linkedAt(q.level) \cup {NilNode} /\ (b # NilNode => q.key < nodeKey[b])
    BY <1>1, <1>5, <1>8 DEF Splice
  <2>8. UNCHANGED <<tower, nodeKey, nodeVal, listHeight, finder, putDone>>
    BY <1>2, <1>8
  <2>9. q = putter[p] /\ q.pc \in {"search", "splice"}
    BY <1>1, <1>2
  <2>. QED BY <2>5, <2>6, <2>7, <2>8, <2>9, SpliceKeeps
<1>9. ASSUME ~ searchPut(p), s.end, s.prev # s.next, UNCHANGED nodeVal,
             putter' = [putter EXCEPT ![p] = [q EXCEPT !.prev[q.level] = s.prev, !.next[q.level] = s.next,
                                                        !.pc = "link"]]
      PROVE  SklInv'
  <2>1. PICK r : r = [q EXCEPT !.prev[q.level] = s.prev, !.next[q.level] = s.next, !.pc = "link"]
    OBVIOUS
  <2>2. /\ r = [pc |-> r.pc, key |-> q.key, level |-> r.level, at |-> r.at, height |-> q.height,
                seen |-> q.seen, prev |-> [q.prev EXCEPT ![q.level] = a],
                next |-> [q.next EXCEPT ![q.level] = b]]
        /\ r.pc = "link" /\ r.at = q.at /\ r.level = q.level
    BY <2>1, <1>1, <1>3
  <2>3. q.pc = "splice"
    BY <1>2, <1>9
  <2>4. putter' = [putter EXCEPT ![p] = r]
    BY <1>9, <2>1
  <2>5. Spliced(q, r, a, b)
    BY <2>2, <2>3 DEF Spliced
  <2>6. /\ a \in linkedAt(q.level) /\ nodeKey[a] < q.key
        /\ b \in linkedAt(q.level) \cup {NilNode} /\ (b # NilNode => q.key < nodeKey[b])
    BY <1>1, <1>5, <1>9 DEF Splice
  <2>7. UNCHANGED <<tower, nodeKey, nodeVal, listHeight, finder, putDone>>
    BY <1>2, <1>9
  <2>8. q = putter[p] /\ q.pc \in {"search", "splice"}
    BY <1>1, <1>2
  <2>. QED BY <2>4, <2>5, <2>6, <2>7, <2>8, SpliceKeeps
<1>10. CASE searchPut(p)
  BY <1>1, <1>6, <1>7, <1>8, <1>10 DEF searchPut
<1>11. CASE ~ searchPut(p)
  BY <1>1, <1>6, <1>7, <1>9, <1>11 DEF respliceNode
<1>. QED BY <1>10, <1>11

LEMMA MakeNodeKeeps ==
  ASSUME SklInv, NEW p \in Putters, makeNode(p)
  PROVE  SklInv'
<1>0. PICK q : q = putter[p]
  OBVIOUS
<1>a. PICK h \in 1 .. SklHeight :
        putter' = [putter EXCEPT ![p].height = h, ![p].seen = listHeight,
                                 ![p].pc = IF h > listHeight THEN "raise" ELSE "link"]
  BY DEF makeNode
<1>1. q = putter[p] /\ q.pc = "node"
  BY <1>0 DEF makeNode
<1>2. /\ nodeKey' = [nodeKey EXCEPT ![p] = q.key] /\ nodeVal' = [nodeVal EXCEPT ![p] = p]
      /\ UNCHANGED <<tower, listHeight, finder, putDone>>
  BY <1>1 DEF makeNode
<1>3. /\ q \in PutterType /\ PutterFields(q) /\ Placed(p, q) /\ q.key \in Nat
      /\ q = [pc |-> q.pc, key |-> q.key, level |-> q.level, at |-> q.at, height |-> q.height,
              seen |-> q.seen, prev |-> q.prev, next |-> q.next]
  BY <1>1, PutterNow, PutterOf
<1>4. PICK r : r = [q EXCEPT !.height = h, !.seen = listHeight, !.pc = IF h > listHeight THEN "raise" ELSE "link"]
  OBVIOUS
<1>5. /\ r.key = q.key /\ r.level = q.level /\ r.at = q.at /\ r.height = h /\ r.seen = listHeight
      /\ r.prev = q.prev /\ r.next = q.next /\ r.pc \in {"raise", "link"}
      /\ r = [pc |-> r.pc, key |-> r.key, level |-> r.level, at |-> r.at, height |-> r.height,
              seen |-> r.seen, prev |-> r.prev, next |-> r.next]
  BY <1>3, <1>4
<1>6. r \in PutterType
  <2>1. h \in 0 .. SklHeight /\ listHeight \in Nat
    BY PutterNow
  <2>2. PutterFields(r)
    BY <1>3, <1>5, <2>1 DEF PutterFields
  <2>. QED BY <1>5, <2>2, PutterIs
<1>7. q.key > 0 /\ q.level = 0 /\ \A i \in SklLevels : p \notin linkedAt(i)
  BY <1>1, <1>3 DEF Placed
<1>8. p \in Nodes /\ p # HeadNode
  BY NodeFacts
<1>9. /\ nodeKey' \in [Nodes -> Nat] /\ nodeKey'[p] = q.key /\ \A n \in Nodes \ {p} : nodeKey'[n] = nodeKey[n]
      /\ nodeVal' \in [Nodes -> Putters \cup {NilNode}] /\ nodeVal'[p] = p
      /\ \A n \in Nodes : nodeVal'[n] \in {nodeVal[n], p}
  BY <1>2, <1>3, <1>8, PutterNow
<1>10. \A i \in SklLevels : \A n \in linkedAt(i) : tower'[n][i] = tower[n][i] /\ nodeKey'[n] = nodeKey[n]
  BY <1>2, <1>7, <1>9, LinkedNodes DEF SklInv
<1>11. putter' = [putter EXCEPT ![p] = r]
  BY <1>1, <1>4, <1>a
<1>12. putter[p].pc # "done" /\ r.key = putter[p].key
  BY <1>1, <1>5
<1>13. PutEffect(p) /\ putter'[p] = r /\ \A i \in SklLevels : linkedAt(i)' = linkedAt(i)
  <2>1. /\ tower' \in [Nodes -> [SklLevels -> Nodes \cup {NilNode}]] /\ listHeight' \in 1 .. SklHeight
        /\ finder' = finder /\ putDone' \in [Putters -> SUBSET Putters]
        /\ \A o \in Putters \ {p} : putDone'[o] = putDone[o]
    BY <1>2, PutterNow
  <2>. QED BY <1>6, <1>9, <1>10, <1>11, <1>12, <2>1, QuietEffect
<1>14. Placed(p, r)
  <2>1. \A i \in SklLevels : i >= 0 /\ i \in Nat
    BY NodeFacts
  <2>2. \A i \in SklLevels : p \in linkedAt(i) <=> i < r.level
    BY <1>5, <1>7, <2>1
  <2>3. r.level = 0 /\ r.level < r.height
    BY <1>5, <1>7
  <2>4. \A i \in SklLevels :
         /\ r.prev[i] # NilNode => r.prev[i] \in linkedAt(i) /\ nodeKey[r.prev[i]] < r.key
         /\ r.next[i] # NilNode => r.next[i] \in linkedAt(i) /\ r.key < nodeKey[r.next[i]]
    BY <1>3, <1>5 DEF Placed
  <2>. QED BY <1>5, <1>7, <2>2, <2>3, <2>4 DEF Placed
<1>15. NodeMade(p, r)'
  <2>1. p \notin putDone[p]
    BY <1>1, PutterNow DEF Returned
  <2>. QED BY <1>2, <1>5, <1>9, <2>1 DEF NodeMade
<1>16. r.pc # "done" /\ putDone'[p] \subseteq Returned
  BY <1>2, <1>5, PutterNow
<1>. QED BY <1>6, <1>13, <1>14, <1>15, <1>16, QuietGoesOn

(* The height is raised, or read again: the Put itself goes on linking.    *)
LEMMA RaiseHeightKeeps ==
  ASSUME SklInv, NEW p \in Putters, raiseHeight(p)
  PROVE  SklInv'
<1>1. PICK q : q = putter[p]
  OBVIOUS
<1>2. /\ q \in PutterType /\ PutterFields(q) /\ Placed(p, q) /\ NodeMade(p, q)
      /\ q = [pc |-> q.pc, key |-> q.key, level |-> q.level, at |-> q.at, height |-> q.height,
              seen |-> q.seen, prev |-> q.prev, next |-> q.next]
  BY <1>1, PutterNow, PutterOf
<1>3. q.pc = "raise" /\ UNCHANGED <<tower, nodeKey, nodeVal, finder, putDone>>
  BY <1>1 DEF raiseHeight
<1>4. PICK r : /\ putter' = [putter EXCEPT ![p] = r] /\ r.pc \in {"raise", "link"} /\ r.seen \in Nat
               /\ r.key = q.key /\ r.level = q.level /\ r.at = q.at /\ r.height = q.height
               /\ r.prev = q.prev /\ r.next = q.next
               /\ r = [pc |-> r.pc, key |-> r.key, level |-> r.level, at |-> r.at, height |-> r.height,
                       seen |-> r.seen, prev |-> r.prev, next |-> r.next]
  <2>1. CASE putter' = [putter EXCEPT ![p].pc = "link"]
    <3>1. putter' = [putter EXCEPT ![p] = [q EXCEPT !.pc = "link"]]
      BY <2>1, <1>1
    <3>. WITNESS [q EXCEPT !.pc = "link"]
    <3>. QED BY <3>1, <1>2 DEF PutterFields
  <2>2. CASE putter' = [putter EXCEPT ![p].seen = listHeight,
                                     ![p].pc = IF q.height > listHeight THEN "raise" ELSE "link"]
    <3>1. PICK pc \in {"raise", "link"} : pc = IF q.height > listHeight THEN "raise" ELSE "link"
      OBVIOUS
    <3>2. PICK r : r = [q EXCEPT !.seen = listHeight, !.pc = pc]
      OBVIOUS
    <3>3. putter' = [putter EXCEPT ![p] = r]
      BY <2>2, <3>1, <3>2, <1>1
    <3>4. listHeight \in Nat
      BY PutterNow
    <3>5. /\ r.pc = pc /\ r.seen = listHeight
          /\ r.key = q.key /\ r.level = q.level /\ r.at = q.at /\ r.height = q.height
          /\ r.prev = q.prev /\ r.next = q.next
          /\ r = [pc |-> r.pc, key |-> r.key, level |-> r.level, at |-> r.at, height |-> r.height,
                  seen |-> r.seen, prev |-> r.prev, next |-> r.next]
      BY <3>2, <1>2
    <3>. QED BY <3>1, <3>3, <3>4, <3>5
  <2>. QED BY <1>1, <2>1, <2>2 DEF raiseHeight
<1>5. q.key > 0 /\ q.level = 0 /\ q.level < q.height /\ \A i \in SklLevels : p \notin linkedAt(i)
  BY <1>2, <1>3 DEF Placed
<1>6. listHeight' \in 1 .. SklHeight
  <2>1. q.height \in 1 .. SklHeight
    BY <1>2, <1>5, NodeFacts, PutterNow DEF PutterFields
  <2>. QED BY <1>1, <2>1, PutterNow DEF raiseHeight
<1>7. r \in PutterType
  <2>1. PutterFields(r)
    BY <1>2, <1>4 DEF PutterFields
  <2>. QED BY <1>4, <2>1, PutterIs
<1>8. PutEffect(p) /\ putter'[p] = r /\ \A i \in SklLevels : linkedAt(i)' = linkedAt(i)
  BY <1>1, <1>3, <1>4, <1>6, <1>7, PutterNow, QuietEffect
<1>9. Placed(p, r)
  <2>1. \A i \in SklLevels : p \in linkedAt(i) <=> i < r.level
    BY <1>4, <1>5, NodeFacts
  <2>. QED BY <1>2, <1>4, <1>5, <2>1 DEF Placed
<1>10. NodeMade(p, r)'
  BY <1>2, <1>3, <1>4 DEF NodeMade
<1>11. r.pc # "done" /\ putDone'[p] \subseteq Returned
  BY <1>3, <1>4, PutterNow
<1>. QED BY <1>7, <1>8, <1>9, <1>10, <1>11, QuietGoesOn

Swapped(i, p, a, b) ==
  /\ tower' \in [Nodes -> [SklLevels -> Nodes \cup {NilNode}]] /\ tower'[a][i] = p /\ tower'[p][i] = b
  /\ \A n \in Nodes : \A j \in SklLevels : (j # i \/ n \notin {a, p}) => tower'[n][j] = tower[n][j]

(* What the swap writes: the pointers of two nodes at one level.           *)
LEMMA TowerWritten ==
  ASSUME tower \in [Nodes -> [SklLevels -> Nodes \cup {NilNode}]], NEW i \in SklLevels,
         NEW p \in Nodes, NEW a \in Nodes, a # p, NEW b \in Nodes \cup {NilNode},
         tower' = [tower EXCEPT ![p][i] = b, ![a][i] = p]
  PROVE  Swapped(i, p, a, b)
<1>1. PICK rowp, rowa : rowp = [tower[p] EXCEPT ![i] = b] /\ rowa = [tower[a] EXCEPT ![i] = p]
  OBVIOUS
<1>2. tower' = [tower EXCEPT ![p] = rowp, ![a] = rowa]
  BY <1>1
<1>3. rowp \in [SklLevels -> Nodes \cup {NilNode}] /\ rowa \in [SklLevels -> Nodes \cup {NilNode}]
  BY <1>1
<1>4. rowp[i] = b /\ rowa[i] = p /\ \A j \in SklLevels : j # i => rowp[j] = tower[p][j] /\ rowa[j] = tower[a][j]
  BY <1>1
<1>5. tower'[p] = rowp /\ tower'[a] = rowa /\ \A n \in Nodes \ {a, p} : tower'[n] = tower[n]
  BY <1>2
<1>6. DOMAIN tower' = Nodes /\ \A n \in Nodes : tower'[n] \in [SklLevels -> Nodes \cup {NilNode}]
  BY <1>2, <1>3, <1>5
<1>7. tower' = [n \in Nodes |-> tower'[n]]
  BY <1>2
<1>8. tower' \in [Nodes -> [SklLevels -> Nodes \cup {NilNode}]]
  BY <1>6, <1>7
<1>9. \A n \in Nodes : \A j \in SklLevels : (j # i \/ n \notin {a, p}) => tower'[n][j] = tower[n][j]
  BY <1>4, <1>5
<1>. QED BY <1>4, <1>5, <1>8, <1>9 DEF Swapped

(* The successful swap: the node is linked at its level.                   *)
LinkReady(p, q, i, a, b) ==
  /\ q = putter[p] /\ q.pc = "link" /\ i = q.level /\ a = q.prev[i] /\ b = q.next[i]
  /\ a # NilNode /\ tower[a][i] = b /\ UNCHANGED <<nodeKey, nodeVal, listHeight, finder, putDone>>

LEMMA LinkEffect ==
  ASSUME SklInv, NEW p \in Putters, NEW q, NEW i, NEW a, NEW b, LinkReady(p, q, i, a, b), Swapped(i, p, a, b),
         NEW r \in PutterType, putter' \in [Putters -> PutterType], putter'[p] = r, r.key = q.key,
         \A o \in Putters \ {p} : putter'[o] = putter[o]
  PROVE  /\ PutEffect(p) /\ linkedAt(i)' = linkedAt(i) \cup {p}
         /\ \A j \in SklLevels \ {i} : linkedAt(j)' = linkedAt(j)
<1>. USE DEF LinkReady, Swapped
<1>1. q \in PutterType /\ PutterFields(q) /\ Placed(p, q) /\ NodeMade(p, q) /\ i \in SklLevels /\ i \in Nat
  BY PutterNow, PutterOf, NodeFacts DEF PutterFields
<1>2. /\ a \in linkedAt(i) /\ nodeKey[a] < q.key /\ (b # NilNode => q.key < nodeKey[b])
      /\ \A j \in SklLevels : p \in linkedAt(j) <=> j < i
  BY <1>1 DEF Placed
<1>3. p \notin linkedAt(i) /\ a # p /\ a \in Nodes /\ p \in Nodes /\ p # HeadNode /\ b \in Nodes \cup {NilNode}
  BY <1>1, <1>2, NodeFacts, LinkedNodes DEF SklInv
<1>6. SklType /\ SklType'
  BY DEF SklInv, SklType
<1>7. \A j \in SklLevels : linkedAt(j) \subseteq Nodes
  BY <1>6, LinkedNodes
<1>8. linkedAt(i)' = linkedAt(i) \cup {p}
  <2>1. \A n \in linkedAt(i) \ {a} : tower'[n][i] = tower[n][i]
    BY <1>1, <1>3, <1>7
  <2>2. tower'[a][i] = p /\ tower'[p][i] = tower[a][i]
    OBVIOUS
  <2>. QED BY <1>1, <1>2, <1>3, <1>6, <2>1, <2>2, LinkInserted
<1>9. \A j \in SklLevels \ {i} : linkedAt(j)' = linkedAt(j)
  BY <1>6, <1>7, LinksSame
<1>10. \A j \in SklLevels : linkedAt(j) \subseteq linkedAt(j)' /\ linkedAt(j)' \subseteq linkedAt(j) \cup {p}
  BY <1>8, <1>9
<1>11. \A j \in SklLevels : j > 0 => j - 1 \in SklLevels
  BY SklAssumption DEF SklLevels
<1>12. putter'[p].key = putter[p].key
  OBVIOUS
<1>13. \A j \in SklLevels : \A n \in linkedAt(j) \ {HeadNode} : putter'[n].key = putter[n].key
  BY <1>7, <1>12 DEF Nodes
<1>14. \A j \in SklLevels \ {i} : LevelSorted(j)'
  <2>. SUFFICES ASSUME NEW j \in SklLevels \ {i} PROVE LevelSorted(j)'
    OBVIOUS
  <2>1. \A n \in linkedAt(j) : tower'[n][j] = tower[n][j] /\ nodeKey'[n] = nodeKey[n]
    BY <1>7
  <2>2. LevelSorted(j) /\ linkedAt(j)' = linkedAt(j) /\ (j > 0 => linkedAt(j - 1) \subseteq linkedAt(j - 1)')
    BY <1>9, <1>10, <1>11 DEF SklInv
  <2>. QED BY <1>6, <1>13, <2>1, <2>2, OrderKept
<1>15. LevelSorted(i)'
  <2>1. LevelSorted(i) /\ nodeKey' = nodeKey /\ nodeKey[p] = q.key
    BY <1>1 DEF SklInv, NodeMade
  <2>2. i > 0 => linkedAt(i - 1) \cup {p} \subseteq linkedAt(i - 1)'
    BY <1>1, <1>2, <1>10, <1>11
  <2>3. \A n \in linkedAt(i) \ {a} : tower'[n][i] = tower[n][i]
    BY <1>1, <1>3, <1>7
  <2>4. nodeKey[a] < nodeKey[p] /\ nodeKey[p] = putter'[p].key /\ (tower[a][i] # NilNode => nodeKey[p] < nodeKey[tower[a][i]])
    BY <1>2, <2>1
  <2>5. tower'[a][i] = p /\ tower'[p][i] = tower[a][i]
    OBVIOUS
  <2>6. \A n \in linkedAt(i) \ {HeadNode} : putter'[n].key = putter[n].key
    BY <1>1, <1>13
  <2>7. /\ i \in SklLevels /\ p \notin linkedAt(i) /\ a \in linkedAt(i) /\ nodeKey[a] < nodeKey[p]
        /\ nodeKey[p] = putter'[p].key
    BY <1>1, <1>2, <1>3, <2>4
  <2>8. tower[a][i] # NilNode => nodeKey[p] < nodeKey[tower[a][i]]
    BY <2>4
  <2>9. tower'[a][i] = p
    BY <2>5
  <2>10. tower'[p][i] = tower[a][i]
    BY <2>5
  <2>11. Inserted(i, p, a)
    BY <2>1, <2>2, <2>3, <2>6, <2>7, <2>8, <2>9, <2>10 DEF Inserted
  <2>. QED BY <1>1, <1>6, <2>1, <2>11, OrderInserted
<1>16. nodeKey'[HeadNode] = 0 /\ putter[p].pc # "done"
  BY DEF SklInv
<1>17. \A j \in SklLevels : LevelSorted(j)'
  BY <1>14, <1>15
<1>18. PutEffect(p)
  BY <1>6, <1>10, <1>16, <1>17 DEF PutEffect
<1>. QED BY <1>8, <1>9, <1>18

LEMMA LinkNodeKeeps ==
  ASSUME SklInv, NEW p \in Putters, linkNode(p)
  PROVE  SklInv'
<1>1. PICK q, i, a, b : q = putter[p] /\ i = q.level /\ a = q.prev[i] /\ b = q.next[i]
  OBVIOUS
<1>2. q.pc = "link" /\ UNCHANGED <<nodeKey, nodeVal, listHeight, finder, putDone>>
  BY <1>1 DEF linkNode
<1>3. /\ q \in PutterType /\ PutterFields(q) /\ Placed(p, q) /\ NodeMade(p, q) /\ i \in SklLevels /\ i \in Nat
      /\ q = [pc |-> q.pc, key |-> q.key, level |-> q.level, at |-> q.at, height |-> q.height,
              seen |-> q.seen, prev |-> q.prev, next |-> q.next]
  BY <1>1, PutterNow, PutterOf, NodeFacts DEF PutterFields
<1>4. /\ q.key > 0 /\ i < q.height /\ (\A j \in SklLevels : p \in linkedAt(j) <=> j < i)
      /\ a # NilNode => a \in linkedAt(i) /\ nodeKey[a] < q.key
      /\ b # NilNode => b \in linkedAt(i) /\ q.key < nodeKey[b]
  BY <1>1, <1>2, <1>3 DEF Placed
<1>5. /\ p \in Nodes /\ p # HeadNode /\ p \notin linkedAt(i) /\ HeadNode \in linkedAt(i)
      /\ linkedAt(i) \subseteq Nodes /\ b \in Nodes \cup {NilNode}
  BY <1>3, <1>4, NodeFacts, LinkedNodes DEF SklInv
(* The level is searched: from the head, or after a failed swap.           *)
<1>6. ASSUME NEW n \in linkedAt(i), nodeKey[n] < q.key,
             putter' = [putter EXCEPT ![p].pc = "splice", ![p].at = n],
             tower' \in [Nodes -> [SklLevels -> Nodes \cup {NilNode}]],
             \A j \in SklLevels : \A m \in linkedAt(j) : tower'[m][j] = tower[m][j]
      PROVE  SklInv'
  <2>1. PICK r : r = [q EXCEPT !.pc = "splice", !.at = n]
    OBVIOUS
  <2>2. /\ r.key = q.key /\ r.level = q.level /\ r.at = n /\ r.height = q.height /\ r.seen = q.seen
        /\ r.prev = q.prev /\ r.next = q.next /\ r.pc = "splice"
        /\ r = [pc |-> r.pc, key |-> r.key, level |-> r.level, at |-> r.at, height |-> r.height,
                seen |-> r.seen, prev |-> r.prev, next |-> r.next]
    BY <1>3, <2>1
  <2>3. r \in PutterType
    <3>1. PutterFields(r)
      BY <1>3, <1>5, <1>6, <2>2 DEF PutterFields
    <3>. QED BY <2>2, <3>1, PutterIs
  <2>4. putter' = [putter EXCEPT ![p] = r] /\ putter[p].pc # "done" /\ r.key = putter[p].key
    <3>1. putter' = [putter EXCEPT ![p] = [q EXCEPT !.pc = "splice", !.at = n]]
      BY <1>1, <1>6
    <3>2. putter[p].pc = "link"
      BY <1>1, <1>2
    <3>. QED BY <1>1, <2>1, <2>2, <3>1, <3>2
  <2>5. PutEffect(p) /\ putter'[p] = r /\ \A j \in SklLevels : linkedAt(j)' = linkedAt(j)
    <3>1. /\ nodeKey' \in [Nodes -> Nat] /\ nodeKey' = nodeKey /\ listHeight' \in 1 .. SklHeight
          /\ finder' = finder /\ nodeVal' \in [Nodes -> Putters \cup {NilNode}]
          /\ (\A m \in Nodes : nodeVal'[m] \in {nodeVal[m], p})
          /\ putDone' \in [Putters -> SUBSET Putters] /\ putDone' = putDone
      BY <1>2, PutterNow
    <3>. QED BY <1>6, <2>3, <2>4, <3>1, QuietEffect
  <2>6. Placed(p, r)
    BY <1>1, <1>3, <1>4, <1>6, <2>2 DEF Placed
  <2>7. NodeMade(p, r)'
    BY <1>2, <1>3, <2>2 DEF NodeMade
  <2>8. r.pc # "done" /\ putDone'[p] \subseteq Returned
    BY <1>2, <2>2, PutterNow
  <2>. QED BY <2>3, <2>5, <2>6, <2>7, <2>8, QuietGoesOn
<1>7. CASE a = NilNode
  <2>1. putter' = [putter EXCEPT ![p].pc = "splice", ![p].at = HeadNode] /\ tower' = tower
    BY <1>1, <1>7 DEF linkNode
  <2>2. nodeKey[HeadNode] < q.key
    BY <1>4, PutterNow
  <2>. QED BY <1>5, <1>6, <2>1, <2>2, PutterNow
<1>8. CASE a # NilNode /\ tower[a][i] # b
  <2>1. tower' = [tower EXCEPT ![p][i] = b] /\ putter' = [putter EXCEPT ![p].pc = "splice", ![p].at = a]
    BY <1>1, <1>8 DEF linkNode
  <2>2. PICK row : row = [tower[p] EXCEPT ![i] = b]
    OBVIOUS
  <2>3. tower' = [tower EXCEPT ![p] = row] /\ row \in [SklLevels -> Nodes \cup {NilNode}]
    BY <1>5, <2>1, <2>2, PutterNow
  <2>4. \A j \in SklLevels : j # i => row[j] = tower[p][j]
    BY <1>5, <2>2, PutterNow
  <2>5. tower' \in [Nodes -> [SklLevels -> Nodes \cup {NilNode}]]
    BY <2>3, PutterNow
  <2>6. tower'[p] = row /\ \A m \in Nodes \ {p} : tower'[m] = tower[m]
    BY <1>5, <2>3, PutterNow
  <2>7. \A j \in SklLevels : linkedAt(j) \subseteq Nodes
    BY LinkedNodes DEF SklInv
  <2>8. \A j \in SklLevels : \A m \in linkedAt(j) : tower'[m][j] = tower[m][j]
    BY <1>5, <2>4, <2>6, <2>7
  <2>. QED BY <1>4, <1>6, <1>8, <2>1, <2>5, <2>8
<1>9. CASE a # NilNode /\ tower[a][i] = b
  <2>1. /\ tower' = [tower EXCEPT ![p][i] = b, ![a][i] = p]
        /\ putter' = [putter EXCEPT ![p] = IF i + 1 < q.height THEN [q EXCEPT !.level = i + 1]
                                           ELSE [NotPut EXCEPT !.pc = "done", !.key = q.key]]
    BY <1>1, <1>9 DEF linkNode
  <2>2. Swapped(i, p, a, b)
    <3>1. a \in Nodes /\ a # p
      BY <1>4, <1>5, <1>9
    <3>2. tower \in [Nodes -> [SklLevels -> Nodes \cup {NilNode}]]
      BY PutterNow
    <3>3. tower' = [tower EXCEPT ![p][i] = b, ![a][i] = p]
      BY <2>1
    <3>. QED BY <1>3, <1>5, <3>1, <3>2, <3>3, TowerWritten
  <2>3. ASSUME NEW r \in PutterType, putter' = [putter EXCEPT ![p] = r], r.key = q.key
        PROVE  /\ PutEffect(p) /\ linkedAt(i)' = linkedAt(i) \cup {p} /\ putter'[p] = r
               /\ \A j \in SklLevels \ {i} : linkedAt(j)' = linkedAt(j)
    <3>1. /\ putter' \in [Putters -> PutterType] /\ putter'[p] = r
          /\ \A o \in Putters \ {p} : putter'[o] = putter[o]
      BY <2>3, PutterSet DEF SklInv
    <3>2. LinkReady(p, q, i, a, b)
      BY <1>1, <1>2, <1>9 DEF LinkReady
    <3>3. /\ PutEffect(p) /\ linkedAt(i)' = linkedAt(i) \cup {p}
          /\ \A j \in SklLevels \ {i} : linkedAt(j)' = linkedAt(j)
      BY <2>2, <2>3, <3>1, <3>2, LinkEffect
    <3>. QED BY <3>1, <3>3
  <2>4. CASE i + 1 < q.height
    <3>1. PICK r : r = [q EXCEPT !.level = i + 1]
      OBVIOUS
    <3>2. /\ r.key = q.key /\ r.level = i + 1 /\ r.at = q.at /\ r.height = q.height /\ r.seen = q.seen
          /\ r.prev = q.prev /\ r.next = q.next /\ r.pc = "link"
          /\ r = [pc |-> r.pc, key |-> r.key, level |-> r.level, at |-> r.at, height |-> r.height,
                  seen |-> r.seen, prev |-> r.prev, next |-> r.next]
      BY <1>2, <1>3, <3>1
    <3>3. i + 1 \in SklLevels
      BY <1>3, <2>4, PutterNow DEF PutterFields, SklLevels
    <3>4. r \in PutterType
      <4>1. PutterFields(r)
        BY <1>2, <1>3, <3>2, <3>3 DEF PutterFields
      <4>. QED BY <3>2, <4>1, PutterIs
    <3>5. putter' = [putter EXCEPT ![p] = r]
      BY <2>1, <2>4, <3>1
    <3>6. /\ PutEffect(p) /\ linkedAt(i)' = linkedAt(i) \cup {p} /\ putter'[p] = r
          /\ \A j \in SklLevels \ {i} : linkedAt(j)' = linkedAt(j)
      BY <2>3, <3>2, <3>4, <3>5
    <3>7. \A j \in SklLevels : p \in linkedAt(j)' <=> j < i + 1
      BY <1>3, <1>4, <3>6, NodeFacts
    <3>8. \A j \in SklLevels : linkedAt(j) \subseteq linkedAt(j)'
      BY <3>6
    <3>9. \A j \in SklLevels :
            /\ r.prev[j] # NilNode => r.prev[j] \in linkedAt(j)' /\ nodeKey'[r.prev[j]] < r.key
            /\ r.next[j] # NilNode => r.next[j] \in linkedAt(j)' /\ r.key < nodeKey'[r.next[j]]
      BY <1>2, <1>3, <3>2, <3>8 DEF Placed
    <3>10. Placed(p, r)'
      BY <1>4, <2>4, <3>2, <3>7, <3>9 DEF Placed
    <3>11. NodeMade(p, r)'
      BY <1>2, <1>3, <3>2 DEF NodeMade
    <3>12. PutterPlaced(p)'
      BY <3>6, <3>10, <3>11 DEF PutterPlaced
    <3>13. putDone'[p] \subseteq Returned' /\ p \notin Returned'
      BY <1>2, <3>2, <3>6, PutterNow, ReturnedGrows DEF Returned
    <3>. QED BY <3>6, <3>12, <3>13, PutStepKeeps DEF OwnPlace
  <2>5. CASE ~ (i + 1 < q.height)
    <3>1. PICK r : r = [NotPut EXCEPT !.pc = "done", !.key = q.key]
      OBVIOUS
    <3>2. /\ r.pc = "done" /\ r.key = q.key /\ r.level = 0 /\ r.at = HeadNode /\ r.height = 0 /\ r.seen = 0
          /\ r.prev = NotPut.prev /\ r.next = NotPut.next
          /\ r = [pc |-> r.pc, key |-> r.key, level |-> r.level, at |-> r.at, height |-> r.height,
                  seen |-> r.seen, prev |-> r.prev, next |-> r.next]
      BY <3>1 DEF NotPut
    <3>3. r \in PutterType
      <4>1. PutterFields(r)
        BY <1>3, <3>2, NotPutFields, NodeFacts, SklAssumption DEF PutterFields
      <4>. QED BY <3>2, <4>1, PutterIs
    <3>4. putter' = [putter EXCEPT ![p] = r]
      BY <2>1, <2>5, <3>1
    <3>5. /\ PutEffect(p) /\ linkedAt(i)' = linkedAt(i) \cup {p} /\ putter'[p] = r
          /\ \A j \in SklLevels \ {i} : linkedAt(j)' = linkedAt(j)
      BY <2>3, <3>2, <3>3, <3>4
    <3>6. p \in linkedAt(0)'
      BY <1>3, <1>4, <3>5, NodeFacts
    <3>7. nodeKey'[p] = q.key /\ nodeVal'[p] \notin putDone[p]
      BY <1>2, <1>3 DEF NodeMade
    <3>. QED BY <1>1, <1>2, <1>5, <3>1, <3>5, <3>6, <3>7, PutReturns
  <2>. QED BY <2>4, <2>5
<1>. QED BY <1>7, <1>8, <1>9

-----------------------------------------------------------------------------
(* The steps of findNear.                                                  *)

LEMMA FinderStepKeeps ==
  ASSUME SklInv, UNCHANGED <<tower, nodeKey, nodeVal, listHeight, putter, putDone>>,
         finder' \in FinderType, FinderPlaced', FindNearest'
  PROVE  SklInv'
<1>1. SklType'
  BY DEF SklInv, SklType
<1>2. \A i : linkedAt(i)' = linkedAt(i)
  BY DEF linkedAt, closedAt
<1>3. Returned' = Returned
  BY DEF Returned
<1>4. \A i \in SklLevels : LevelSorted(i)'
  BY <1>2 DEF SklInv, LevelSorted
<1>5. \A p \in Putters : putDone'[p] \subseteq Returned' /\ PutterPlaced(p)'
  BY <1>2, <1>3 DEF SklInv, PutterPlaced, Placed, NodeMade
<1>6. PutsKept'
  <2>1. AllSorted'
    BY <1>1, <1>4 DEF AllSorted
  <2>2. ReturnedFound'
    BY <1>2, <1>3, BaseHolds DEF SklInv, ReturnedFound
  <2>. QED BY <2>1, <2>2, SortedKept, PTL
<1>. QED BY <1>1, <1>4, <1>5, <1>6 DEF SklInv

(* The node of a key whose Put had returned when the search began.         *)
LEMMA KnownLinked ==
  ASSUME SklInv, NEW r \in finder.before
  PROVE  \E n \in linkedAt(0) \ {HeadNode} : nodeKey[n] = putter[r].key
BY BaseHolds DEF SklInv, FinderPlaced

LEMMA FinderFields ==
  ASSUME SklType
  PROVE  /\ finder.pc \in {"idle", "walk", "after", "found"} /\ finder.key \in Nat /\ finder.less \in BOOLEAN
         /\ finder.eq \in BOOLEAN /\ finder.level \in SklLevels /\ finder.at \in Nodes
         /\ finder.found \in Nodes \cup {NilNode} /\ finder.before \in SUBSET Putters
         /\ finder = [pc |-> finder.pc, key |-> finder.key, less |-> finder.less, eq |-> finder.eq,
                      level |-> finder.level, at |-> finder.at, found |-> finder.found, before |-> finder.before]
<1>1. finder \in FinderType
  BY DEF SklType
<1>. QED BY <1>1 DEF FinderType

(* A search begins at the head, with a key above the head's.               *)
LEMMA SearchBegins ==
  ASSUME SklInv, NEW k \in Nat, NEW less \in BOOLEAN, NEW eq \in BOOLEAN, NEW level \in SklLevels,
         NEW pc, \/ pc = "walk" /\ k > 0
                 \/ pc = "after" /\ k = 0 /\ ~ less /\ ~ eq,
         finder' = [pc |-> pc, key |-> k, less |-> less, eq |-> eq, level |-> level, at |-> HeadNode,
                    found |-> NilNode, before |-> Returned],
         UNCHANGED <<tower, nodeKey, nodeVal, listHeight, putter, putDone>>
  PROVE  SklInv'
<1>1. Returned \in SUBSET Putters /\ Returned' = Returned /\ nodeKey'[HeadNode] = 0
  BY DEF Returned, SklInv
<1>2. finder' \in FinderType
  BY <1>1, NodeFacts DEF FinderType
<1>3. /\ finder'.pc = pc /\ finder'.key = k /\ finder'.less = less /\ finder'.eq = eq
      /\ finder'.level = level /\ finder'.at = HeadNode /\ finder'.before = Returned
  OBVIOUS
<1>4. \A i \in SklLevels : HeadNode \in linkedAt(i)'
  BY NodeFacts DEF linkedAt, closedAt
<1>5. FinderPlaced'
  BY <1>1, <1>3, <1>4, NodeFacts DEF FinderPlaced
<1>6. FindNearest'
  BY <1>3 DEF FindNearest
<1>. QED BY <1>2, <1>5, <1>6, FinderStepKeeps

LEMMA BeginFindKeeps ==
  ASSUME SklInv, NEW k \in Nat, k > 0, NEW less \in BOOLEAN, NEW eq \in BOOLEAN, beginFind(k, less, eq)
  PROVE  SklInv'
<1>1. listHeight - 1 \in SklLevels
  BY SklAssumption DEF SklInv, SklType, SklLevels
<1>2. finder' = [pc |-> "walk", key |-> k, less |-> less, eq |-> eq, level |-> listHeight - 1, at |-> HeadNode,
                 found |-> NilNode, before |-> Returned]
  BY DEF beginFind, NotFinding
<1>3. UNCHANGED <<tower, nodeKey, nodeVal, listHeight, putter, putDone>>
  BY DEF beginFind
<1>. QED BY <1>1, <1>2, <1>3, SearchBegins

LEMMA SeekToFirstKeeps ==
  ASSUME SklInv, SeekToFirst
  PROVE  SklInv'
<1>1. finder' = [pc |-> "after", key |-> 0, less |-> FALSE, eq |-> FALSE, level |-> 0, at |-> HeadNode,
                 found |-> NilNode, before |-> Returned]
  BY DEF SeekToFirst, NotFinding
<1>2. UNCHANGED <<tower, nodeKey, nodeVal, listHeight, putter, putDone>>
  BY DEF SeekToFirst
<1>. QED BY <1>1, <1>2, NodeFacts, SearchBegins

(* The node nearest to the key among those of the base level.              *)
Fits(f, j) == (f.less /\ j < f.key) \/ (~ f.less /\ j > f.key) \/ (f.eq /\ j = f.key)
Dist(f, j) == IF f.less THEN f.key - j ELSE j - f.key
Nearest(f, x) ==
  IF x = NilNode THEN \A m \in linkedAt(0) \ {HeadNode} : ~ Fits(f, nodeKey[m])
  ELSE /\ x \in linkedAt(0) \ {HeadNode} /\ Fits(f, nodeKey[x])
       /\ \A m \in linkedAt(0) \ {HeadNode} : Fits(f, nodeKey[m]) => Dist(f, nodeKey[x]) <= Dist(f, nodeKey[m])

(* A search that ends at the nearest node of the base level is right about *)
(* every key it had to know.                                               *)
LEMMA FoundKeeps ==
  ASSUME SklInv, NEW x, Nearest(finder, x), finder' = [finder EXCEPT !.pc = "found", !.found = x],
         UNCHANGED <<tower, nodeKey, nodeVal, listHeight, putter, putDone>>
  PROVE  SklInv'
<1>0. PICK f : f = finder
  OBVIOUS
<1>1. x \in Nodes \cup {NilNode} /\ (x # NilNode => x \in linkedAt(0))
  BY <1>0, NodeFacts, LinkedNodes DEF Nearest, SklInv
<1>2. /\ finder'.pc = "found" /\ finder'.found = x /\ finder'.key = f.key /\ finder'.less = f.less
      /\ finder'.eq = f.eq /\ finder'.before = f.before
      /\ finder' \in FinderType
  BY <1>0, <1>1, FinderFields DEF SklInv, SklType, FinderType
<1>3. linkedAt(0)' = linkedAt(0) /\ Returned' = Returned
  BY DEF linkedAt, closedAt, Returned
<1>4. FinderPlaced'
  BY <1>0, <1>1, <1>2, <1>3 DEF FinderPlaced, SklInv
<1>5. \A r \in f.before : \E n \in linkedAt(0) \ {HeadNode} : nodeKey[n] = putter[r].key
  BY <1>0, KnownLinked
<1>. DEFINE known == {putter[r].key : r \in f.before}
<1>6. \A j \in known : \E n \in linkedAt(0) \ {HeadNode} : nodeKey[n] = j
  BY <1>5
<1>7. IF x = NilNode THEN \A j \in known : ~ Fits(f, j)
      ELSE /\ x # HeadNode /\ Fits(f, nodeKey[x])
           /\ \A j \in known : Fits(f, j) => Dist(f, nodeKey[x]) <= Dist(f, j)
  BY <1>0, <1>6 DEF Nearest
<1>8. FindNearest'
  BY <1>2, <1>7 DEF FindNearest, Fits, Dist
<1>. QED BY <1>2, <1>4, <1>8, FinderStepKeeps

(* The walk moves right or down, or on to the key's node.                  *)
LEMMA WalkOn ==
  ASSUME SklInv, NEW n, NEW level \in SklLevels, n \in linkedAt(level), NEW pc,
         \/ pc = "walk" /\ nodeKey[n] < finder.key
         \/ pc = "after" /\ nodeKey[n] = finder.key /\ ~ finder.less /\ ~ finder.eq,
         finder' = [finder EXCEPT !.pc = pc, !.at = n, !.level = level],
         UNCHANGED <<tower, nodeKey, nodeVal, listHeight, putter, putDone>>
  PROVE  SklInv'
<1>0. PICK f : f = finder
  OBVIOUS
<1>1. n \in Nodes /\ n \in linkedAt(0)
  BY LinkedNodes, LinkedBelow DEF SklInv
<1>2. /\ finder'.pc = pc /\ finder'.at = n /\ finder'.level = level /\ finder'.key = f.key
      /\ finder'.less = f.less /\ finder'.eq = f.eq /\ finder'.before = f.before
      /\ finder' \in FinderType
  BY <1>0, <1>1, FinderFields DEF SklInv, SklType, FinderType
<1>3. \A i : linkedAt(i)' = linkedAt(i)
  BY DEF linkedAt, closedAt
<1>4. Returned' = Returned
  BY DEF Returned
<1>5. FinderPlaced'
  BY <1>0, <1>1, <1>2, <1>3, <1>4 DEF FinderPlaced, SklInv
<1>6. FindNearest'
  BY <1>2 DEF FindNearest
<1>. QED BY <1>2, <1>5, <1>6, FinderStepKeeps

(* In the base list the successor of a node is the next larger key.        *)
LEMMA BaseOrder ==
  ASSUME SklInv, NEW at \in linkedAt(0)
  PROVE  /\ tower[at][0] # NilNode => /\ tower[at][0] \in linkedAt(0) \ {HeadNode}
                                      /\ nodeKey[at] < nodeKey[tower[at][0]]
         /\ \A m \in linkedAt(0) : nodeKey[at] < nodeKey[m] =>
              tower[at][0] # NilNode /\ nodeKey[tower[at][0]] <= nodeKey[m]
         /\ \A m \in linkedAt(0) : nodeKey[m] \in Nat /\ (m # HeadNode => nodeKey[m] > 0)
         /\ nodeKey[HeadNode] = 0 /\ NilNode \notin linkedAt(0)
<1>1. 0 \in SklLevels /\ LevelSorted(0) /\ nodeKey[HeadNode] = 0
  BY NodeFacts DEF SklInv
<1>2. \A m \in linkedAt(0) : m \in Nodes /\ nodeKey[m] \in Nat /\ (m # HeadNode => nodeKey[m] > 0)
  BY <1>1, LinkedNodes DEF SklInv, SklType, LevelSorted
<1>3. tower[at][0] # NilNode => tower[at][0] \in linkedAt(0) /\ nodeKey[at] < nodeKey[tower[at][0]]
  BY <1>1, LinkedNodes DEF SklInv, LevelSorted
<1>4. \A m \in linkedAt(0) : nodeKey[at] < nodeKey[m] =>
        tower[at][0] # NilNode /\ nodeKey[tower[at][0]] <= nodeKey[m]
  BY <1>1 DEF LevelSorted
<1>5. tower[at][0] # NilNode => tower[at][0] # HeadNode
  BY <1>1, <1>2, <1>3
<1>. QED BY <1>1, <1>2, <1>3, <1>4, <1>5, NodeFacts

LEMMA FindNearKeeps ==
  ASSUME SklInv, findNear
  PROVE  SklInv'
<1>0. UNCHANGED <<tower, nodeKey, nodeVal, listHeight, putter, putDone>>
  BY DEF findNear
<1>1. PICK f : f = finder
  OBVIOUS
<1>2. /\ f.pc \in {"walk", "after"} /\ f.key \in Nat /\ f.less \in BOOLEAN /\ f.eq \in BOOLEAN
      /\ f.level \in SklLevels /\ f.level \in Nat
      /\ f = [pc |-> f.pc, key |-> f.key, less |-> f.less, eq |-> f.eq,
              level |-> f.level, at |-> f.at, found |-> f.found, before |-> f.before]
  BY <1>1, FinderFields, NodeFacts DEF findNear, SklInv
<1>3. CASE f.pc = "after"
  <2>1. PICK x : x = tower[f.at][0]
    OBVIOUS
  <2>2. finder' = [finder EXCEPT !.pc = "found", !.found = x]
    BY <1>1, <1>3, <2>1 DEF findNear
  <2>3. f.at \in linkedAt(0) /\ nodeKey[f.at] = f.key /\ ~ f.less /\ ~ f.eq
    BY <1>1, <1>3 DEF SklInv, FinderPlaced
  <2>4. /\ x # NilNode => x \in linkedAt(0) \ {HeadNode} /\ f.key < nodeKey[x]
        /\ \A m \in linkedAt(0) : f.key < nodeKey[m] => x # NilNode /\ nodeKey[x] <= nodeKey[m]
        /\ \A m \in linkedAt(0) : nodeKey[m] \in Nat
    BY <2>1, <2>3, BaseOrder
  <2>5. Nearest(f, x)
    BY <1>2, <2>3, <2>4 DEF Nearest, Fits, Dist
  <2>. QED BY <1>0, <1>1, <2>2, <2>5, FoundKeeps
<1>4. CASE f.pc = "walk"
  <2>1. PICK n, next : n = f.at /\ next = tower[n][f.level]
    OBVIOUS
  <2>2. finder' = findStep(f, next)
    BY <1>1, <1>4, <2>1 DEF findNear
  <2>3. n \in linkedAt(f.level) /\ nodeKey[n] < f.key /\ n \in Nodes /\ nodeKey[n] \in Nat
    BY <1>1, <1>2, <1>4, <2>1, LinkedNodes DEF SklInv, SklType, FinderPlaced
  <2>4. next # NilNode => next \in linkedAt(f.level) /\ nodeKey[next] \in Nat /\ next \in linkedAt(0)
    BY <1>2, <2>1, <2>3, LinkedNodes, LinkedBelow DEF SklInv, SklType
  <2>5. CASE next # NilNode /\ nodeKey[next] < f.key
    <3>1. finder' = [finder EXCEPT !.pc = "walk", !.at = next, !.level = f.level]
      BY <1>1, <1>2, <1>4, <2>2, <2>5 DEF findStep
    <3>. QED BY <1>0, <1>1, <1>2, <2>4, <2>5, <3>1, WalkOn
  <2>6. CASE next # NilNode /\ f.key = nodeKey[next] /\ f.eq
    <3>1. finder' = [finder EXCEPT !.pc = "found", !.found = next]
      BY <1>1, <1>2, <2>2, <2>6 DEF findStep
    <3>2. /\ next \in linkedAt(0) \ {HeadNode}
          /\ \A m \in linkedAt(0) : nodeKey[m] \in Nat
      BY <1>2, <2>3, <2>4, <2>6, BaseOrder DEF SklInv
    <3>3. Nearest(f, next)
      BY <1>2, <2>6, <3>2, NodeFacts DEF Nearest, Fits, Dist
    <3>. QED BY <1>0, <1>1, <3>1, <3>3, FoundKeeps
  <2>7. CASE next # NilNode /\ f.key = nodeKey[next] /\ ~ f.eq /\ ~ f.less
    <3>1. ~ (nodeKey[next] < f.key)
      BY <1>2, <2>7
    <3>2. findStep(f, next) = [f EXCEPT !.pc = "after", !.at = next]
      BY <2>7, <3>1 DEF findStep
    <3>3. [f EXCEPT !.pc = "after", !.at = next] = [f EXCEPT !.pc = "after", !.at = next, !.level = f.level]
      BY <1>2
    <3>4. finder' = [finder EXCEPT !.pc = "after", !.at = next, !.level = f.level]
      BY <1>1, <2>2, <3>2, <3>3
    <3>. QED BY <1>0, <1>1, <1>2, <2>4, <2>7, <3>4, WalkOn
  <2>8. CASE /\ next # NilNode => ~ (nodeKey[next] < f.key) /\ (f.key = nodeKey[next] => ~ f.eq /\ f.less)
             /\ f.level > 0
    <3>1. finder' = [finder EXCEPT !.pc = "walk", !.at = n, !.level = f.level - 1]
      BY <1>1, <1>2, <1>4, <2>1, <2>2, <2>8 DEF findStep
    <3>2. f.level - 1 \in SklLevels /\ n \in linkedAt(f.level - 1)
      BY <1>2, <2>3, <2>8, LinkedBelow DEF SklInv
    <3>. QED BY <1>0, <1>1, <2>3, <3>1, <3>2, WalkOn
  <2>9. CASE /\ next # NilNode => ~ (nodeKey[next] < f.key) /\ (f.key = nodeKey[next] => ~ f.eq /\ f.less)
             /\ f.level = 0
    <3>1. PICK x : x = IF ~ f.less THEN next ELSE IF n = HeadNode THEN NilNode ELSE n
      OBVIOUS
    <3>2. finder' = [finder EXCEPT !.pc = "found", !.found = x]
      <4>1. findStep(f, next) = [[f EXCEPT !.pc = "found"] EXCEPT !.found = x]
        <5>1. /\ ~ (next # NilNode /\ nodeKey[next] < f.key) /\ ~ (f.level > 0)
              /\ ~ ((next # NilNode /\ f.key = nodeKey[next]) /\ f.eq)
              /\ ~ ((next # NilNode /\ f.key = nodeKey[next]) /\ ~ f.less)
          BY <1>2, <2>9
        <5>2. x = IF ~ f.less THEN next ELSE IF f.at = HeadNode THEN NilNode ELSE f.at
          BY <2>1, <3>1
        <5>. QED BY <5>1, <5>2 DEF findStep
      <4>2. [[f EXCEPT !.pc = "found"] EXCEPT !.found = x] = [f EXCEPT !.pc = "found", !.found = x]
        BY <1>2
      <4>. QED BY <1>1, <2>2, <4>1, <4>2
    <3>3. /\ next # NilNode => next \in linkedAt(0) \ {HeadNode} /\ nodeKey[next] \in Nat
          /\ \A m \in linkedAt(0) : nodeKey[n] < nodeKey[m] => next # NilNode /\ nodeKey[next] <= nodeKey[m]
          /\ \A m \in linkedAt(0) : nodeKey[m] \in Nat /\ (m # HeadNode => nodeKey[m] > 0)
          /\ n \in linkedAt(0) /\ nodeKey[HeadNode] = 0 /\ n # NilNode
      BY <2>1, <2>3, <2>4, <2>9, BaseOrder
    <3>4. CASE ~ f.less
      <4>1. x = next /\ (next # NilNode => f.key < nodeKey[next])
        BY <1>2, <2>9, <3>1, <3>3, <3>4
      <4>2. \A m \in linkedAt(0) : Fits(f, nodeKey[m]) => next # NilNode /\ nodeKey[next] <= nodeKey[m]
        BY <1>2, <2>3, <3>3, <3>4 DEF Fits
      <4>3. Nearest(f, x)
        BY <1>2, <3>3, <3>4, <4>1, <4>2 DEF Nearest, Fits, Dist
      <4>. QED BY <1>0, <1>1, <3>2, <4>3, FoundKeeps
    <3>5. CASE f.less
      <4>1. \A m \in linkedAt(0) : Fits(f, nodeKey[m]) => nodeKey[m] <= nodeKey[n]
        BY <1>2, <2>3, <2>9, <3>3, <3>5 DEF Fits
      <4>2. n = HeadNode => x = NilNode /\ \A m \in linkedAt(0) \ {HeadNode} : ~ Fits(f, nodeKey[m])
        BY <3>1, <3>3, <3>5, <4>1
      <4>3. n # HeadNode => x = n /\ Fits(f, nodeKey[n])
        BY <2>3, <3>1, <3>5 DEF Fits
      <4>4. Nearest(f, x)
        BY <1>2, <3>3, <3>5, <4>1, <4>2, <4>3 DEF Nearest, Dist
      <4>. QED BY <1>0, <1>1, <3>2, <4>4, FoundKeeps
    <3>. QED BY <3>4, <3>5
  <2>10. next # NilNode => nodeKey[next] < f.key \/ f.key = nodeKey[next] \/ f.key < nodeKey[next]
    BY <1>2, <2>4
  <2>11. f.level > 0 \/ f.level = 0
    BY <1>2
  <2>. QED BY <1>2, <2>5, <2>6, <2>7, <2>8, <2>9, <2>10, <2>11
<1>. QED BY <1>2, <1>3, <1>4

-----------------------------------------------------------------------------
(* Initially only the head is in the list, and nobody put anything.        *)
LEMMA NewLinked ==
  ASSUME NewSkiplist, NEW i \in SklLevels
  PROVE  linkedAt(i) = {HeadNode}
<1>1. HeadNode \in Nodes /\ tower[HeadNode][i] = NilNode
  BY DEF NewSkiplist, Nodes
<1>2. closedAt({HeadNode}, i)
  BY <1>1 DEF closedAt
<1>3. linkedAt(i) \subseteq {HeadNode}
  BY <1>1, <1>2 DEF linkedAt
<1>4. HeadNode \in linkedAt(i)
  BY <1>1 DEF linkedAt, closedAt
<1>. QED BY <1>3, <1>4

LEMMA NewKeeps == NewSkiplist => SklInv
<1>. SUFFICES ASSUME NewSkiplist PROVE SklInv
  OBVIOUS
<1>1. \A i \in SklLevels : linkedAt(i) = {HeadNode} /\ tower[HeadNode][i] = NilNode
  BY NewLinked DEF NewSkiplist, Nodes
<1>2. SklType
  <2>1. finder \in FinderType
    BY NodeFacts DEF NewSkiplist, NotFinding, FinderType
  <2>2. SklHeight \in Nat /\ 1 \in 1 .. SklHeight
    BY SklAssumption
  <2>. QED BY <2>1, <2>2, NotPutFields DEF NewSkiplist, SklType
<1>3. nodeKey[HeadNode] = 0
  BY DEF NewSkiplist, Nodes
<1>4. Returned = {}
  BY NotPutFields DEF NewSkiplist, Returned
<1>5. \A i \in SklLevels : LevelSorted(i)
  <2>1. \A i \in SklLevels : i > 0 => i - 1 \in SklLevels
    BY SklAssumption DEF SklLevels
  <2>. QED BY <1>1, <1>3, <2>1 DEF LevelSorted
<1>6. ASSUME NEW p \in Putters PROVE putDone[p] \subseteq Returned /\ PutterPlaced(p)
  <2>1. putter[p] = NotPut /\ putDone[p] = {} /\ p # HeadNode
    BY SklAssumption DEF NewSkiplist, HeadNode
  <2>2. Placed(p, NotPut)
    <3>1. \A i \in SklLevels : p \notin linkedAt(i)
      BY <1>1, <2>1
    <3>2. SklLevels \subseteq 0 .. SklHeight
      BY SklAssumption DEF SklLevels
    <3>. QED BY <3>1, <3>2, NotPutFields DEF Placed
  <2>. QED BY <2>1, <2>2, NotPutFields DEF PutterPlaced, NodeMade
<1>7. PutsKept
  <2>1. AllSorted
    BY <1>2, <1>5 DEF AllSorted
  <2>. QED BY <1>1, <1>4, <2>1, SortedKept DEF ReturnedFound
<1>8. FinderPlaced /\ FindNearest
  BY DEF NewSkiplist, NotFinding, FinderPlaced, FindNearest
<1>. QED BY <1>2, <1>3, <1>5, <1>6, <1>7, <1>8 DEF SklInv

LEMMA PutKeeps ==
  ASSUME SklInv, NEW p \in Putters, Put(p)
  PROVE  SklInv'
BY BeginPutKeeps, SearchPutKeeps, MakeNodeKeeps, RaiseHeightKeeps, LinkNodeKeeps DEF Put

LEMMA FindLastKeeps ==
  ASSUME SklInv, findLast
  PROVE  SklInv'
<1>1. PutKeys \in SUBSET Nat /\ PutKeys # {} /\ IsFiniteSet(PutKeys)
  BY SklAssumption
<1>2. Max(PutKeys) + 1 \in Nat /\ Max(PutKeys) + 1 > 0
  <2>1. Max(PutKeys) \in PutKeys
    BY ONLY <1>1, GreatestNat
  <2>2. Max(PutKeys) \in Nat
    BY <1>1, <2>1
  <2>. QED BY <2>2
<1>. QED BY <1>2, BeginFindKeeps DEF findLast

LEMMA IdleKeeps ==
  ASSUME SklInv, UNCHANGED sklVars
  PROVE  SklInv'
<1>1. UNCHANGED <<tower, nodeKey, nodeVal, listHeight, putter, finder, putDone>>
  BY DEF sklVars
<1>2. finder' \in FinderType
  BY <1>1 DEF SklInv, SklType
<1>3. linkedAt(0)' = linkedAt(0) /\ linkedAt(finder.level)' = linkedAt(finder.level) /\ Returned' = Returned
  BY <1>1 DEF linkedAt, closedAt, Returned
<1>4. FinderPlaced'
  BY <1>1, <1>3 DEF SklInv, FinderPlaced
<1>5. FindNearest'
  BY <1>1 DEF SklInv, FindNearest
<1>. QED BY <1>1, <1>2, <1>4, <1>5, FinderStepKeeps

LEMMA SklStepKeeps == SklInv /\ [SkipListNext]_sklVars => SklInv'
<1>. SUFFICES ASSUME SklInv, [SkipListNext]_sklVars PROVE SklInv'
  OBVIOUS
<1>1. ASSUME NEW p \in Putters, Put(p) PROVE SklInv'
  BY <1>1, PutKeeps
<1>2. ASSUME NEW k \in PutKeys, NEW less \in BOOLEAN, NEW eq \in BOOLEAN, beginFind(k, less, eq) PROVE SklInv'
  <2>1. k \in Nat /\ k > 0
    BY <1>2, SklAssumption
  <2>. QED BY <1>2, <2>1, BeginFindKeeps
<1>3. CASE SeekToFirst
  BY <1>3, SeekToFirstKeeps
<1>4. CASE findLast
  BY <1>4, FindLastKeeps
<1>5. CASE findNear
  BY <1>5, FindNearKeeps
<1>6. CASE UNCHANGED sklVars
  BY <1>6, IdleKeeps
<1>. QED BY <1>1, <1>2, <1>3, <1>4, <1>5, <1>6 DEF SkipListNext

(* The state of the list and of every Put and search is well typed, each   *)
(* level is sorted, every Put's node is linked from the base up and every  *)
(* splice holds linked nodes on either side of the key: what Put and       *)
(* findNear of skl.go rely on between two atomic operations.               *)
THEOREM SkipListInvariant == SkipListSpec => []SklInv
<1>1. NewSkiplist => SklInv
  BY NewKeeps
<1>2. SklInv /\ [SkipListNext]_sklVars => SklInv'
  BY SklStepKeeps
<1>. QED BY <1>1, <1>2, PTL DEF SkipListSpec

(* For any number of concurrent Puts, keys and levels: every level stays   *)
(* strictly sorted and contained in the one below, and what a Put stored   *)
(* stays in the list until a Put that was not over when it began replaces  *)
(* it (Put, findSpliceForLevel and setValue).                              *)
THEOREM PutsAreKept == SkipListSpec => []PutsKept
<1>1. SklInv => PutsKept
  BY DEF SklInv
<1>. QED BY <1>1, SkipListInvariant, PTL

(* A search beside any number of Puts never passes over a key that was in  *)
(* the list when it began (findNear, at every less and allowEqual).        *)
THEOREM SearchesFindNearest == SkipListSpec => []FindNearest
<1>1. SklInv => FindNearest
  BY DEF SklInv
<1>. QED BY <1>1, SkipListInvariant, PTL

===============================================================================
