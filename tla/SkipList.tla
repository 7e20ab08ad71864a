------------------------------- MODULE SkipList -------------------------------
(***************************************************************************)
(* skl/skl.go: the lock-free skip list under every memtable.  Put finds    *)
(* the splice of every level, makes a node of random height, raises the    *)
(* list's height and links the node level by level with compare-and-swap;  *)
(* findNear walks the list meanwhile.  One step is one atomic load, store  *)
(* or compare-and-swap of shared memory.  Keys stand for internal keys:    *)
(* their order is the one of y.CompareKeys.                                *)
(***************************************************************************)
EXTENDS Integers, FiniteSets, FiniteSetsExt

CONSTANTS
  Putters,      \* goroutines; each puts one key, and owns the node it makes
  PutKeys,      \* the keys they put
  SklHeight     \* maxHeight

ASSUME SklAssumption ==
  /\ PutKeys \subseteq Nat \ {0} /\ IsFiniteSet(PutKeys) /\ PutKeys # {}
  /\ SklHeight \in Nat \ {0} /\ {"head", "nil"} \cap Putters = {}

VARIABLES
  tower,     \* node -> level -> next node
  nodeKey, nodeVal,
  listHeight,
  putter,    \* the state of each Put
  finder,    \* the state of one findNear
  putDone    \* history: putter -> Puts that had returned when it began
sklVars == <<tower, nodeKey, nodeVal, listHeight, putter, finder, putDone>>

HeadNode == "head"
NilNode == "nil"
Nodes == Putters \cup {HeadNode}
SklLevels == 0 .. SklHeight - 1

NotPut == [pc |-> "new", key |-> 0, level |-> 0, at |-> HeadNode, height |-> 0, seen |-> 0,
           prev |-> [i \in 0 .. SklHeight |-> NilNode], next |-> [i \in 0 .. SklHeight |-> NilNode]]
NotFinding == [pc |-> "idle", key |-> 0, less |-> FALSE, eq |-> FALSE, level |-> 0, at |-> HeadNode,
               found |-> NilNode, before |-> {}]
Returned == {p \in Putters : putter[p].pc = "done"}

NewSkiplist ==
  /\ tower = [n \in Nodes |-> [i \in SklLevels |-> NilNode]]
  /\ nodeKey = [n \in Nodes |-> 0] /\ nodeVal = [n \in Nodes |-> NilNode] /\ listHeight = 1
  /\ putter = [p \in Putters |-> NotPut] /\ finder = NotFinding
  /\ putDone = [p \in Putters |-> {}]

-----------------------------------------------------------------------------
(* Mutant: an equal key is not recognised.                                 *)
splice_skipEqual(at, next, key) ==
  IF next = NilNode \/ key <= nodeKey[next] THEN [end |-> TRUE, prev |-> at, next |-> next]
  ELSE [end |-> FALSE, prev |-> next, next |-> next]
(* One load of findSpliceForLevel: the walk goes on to the right, or ends  *)
(* with the splice <<before, after>>, <<n, n>> for a node with the key.    *)
splice(at, next, key) ==
  IF next = NilNode \/ key < nodeKey[next] THEN [end |-> TRUE, prev |-> at, next |-> next]
  ELSE IF key = nodeKey[next] THEN [end |-> TRUE, prev |-> next, next |-> next]
  ELSE [end |-> FALSE, prev |-> next, next |-> next]

(* Put begins: it reads the height and searches from the head.             *)
beginPut(p, k) ==
  /\ putter[p].pc = "new"
  /\ putter' = [putter EXCEPT ![p] = [NotPut EXCEPT !.pc = "search", !.key = k, !.level = listHeight - 1,
                                                    !.prev[listHeight] = HeadNode]]
  /\ putDone' = [putDone EXCEPT ![p] = Returned]
  /\ UNCHANGED <<tower, nodeKey, nodeVal, listHeight, finder>>

(* setValue on the node that already has the key; Put returns.             *)
setValue(p, n) ==
  /\ nodeVal' = [nodeVal EXCEPT ![n] = p]
  /\ putter' = [putter EXCEPT ![p] = [NotPut EXCEPT !.pc = "done", !.key = putter[p].key]]

(* The first descent, one load at a time.                                  *)
searchPut(p) ==
  LET q == putter[p]
      s == splice(q.at, tower[q.at][q.level], q.key)
  IN /\ q.pc = "search"
     /\ \/ /\ ~ s.end /\ putter' = [putter EXCEPT ![p].at = s.prev] /\ UNCHANGED nodeVal
        \/ /\ s.end /\ s.prev = s.next /\ setValue(p, s.prev)
        \/ /\ s.end /\ s.prev # s.next /\ UNCHANGED nodeVal
           /\ putter' = [putter EXCEPT ![p] =
                [q EXCEPT !.prev[q.level] = s.prev, !.next[q.level] = s.next, !.at = s.prev,
                          !.level = IF q.level = 0 THEN 0 ELSE q.level - 1,
                          !.pc = IF q.level = 0 THEN "node" ELSE "search"]]
     /\ UNCHANGED <<tower, nodeKey, listHeight, finder, putDone>>

(* randomHeight, newNode, and the first load of the height.                *)
makeNode(p) ==
  /\ putter[p].pc = "node"
  /\ \E h \in 1 .. SklHeight :
       putter' = [putter EXCEPT ![p].height = h, ![p].seen = listHeight,
                                ![p].pc = IF h > listHeight THEN "raise" ELSE "link"]
  /\ nodeKey' = [nodeKey EXCEPT ![p] = putter[p].key] /\ nodeVal' = [nodeVal EXCEPT ![p] = p]
  /\ UNCHANGED <<tower, listHeight, finder, putDone>>

(* The compare-and-swap of the height; after a failure it is read again.   *)
raiseHeight(p) ==
  LET q == putter[p] IN
  /\ q.pc = "raise"
  /\ \/ /\ listHeight = q.seen /\ listHeight' = q.height /\ putter' = [putter EXCEPT ![p].pc = "link"]
     \/ /\ listHeight # q.seen /\ UNCHANGED listHeight
        /\ putter' = [putter EXCEPT ![p].seen = listHeight,
                                    ![p].pc = IF q.height > listHeight THEN "raise" ELSE "link"]
  /\ UNCHANGED <<tower, nodeKey, nodeVal, finder, putDone>>

(* Linking at the current level: a level above the old height is searched  *)
(* from the head first; then the node's own pointer is stored and the      *)
(* predecessor's swapped.  A failed swap searches again from the old       *)
(* predecessor.                                                            *)
linkNode(p) ==
  LET q == putter[p]
      i == q.level
  IN /\ q.pc = "link"
     /\ \/ /\ q.prev[i] = NilNode
           /\ putter' = [putter EXCEPT ![p].pc = "splice", ![p].at = HeadNode] /\ UNCHANGED tower
        \/ /\ q.prev[i] # NilNode /\ tower[q.prev[i]][i] = q.next[i]
           /\ tower' = [tower EXCEPT ![p][i] = q.next[i], ![q.prev[i]][i] = p]
           /\ putter' = [putter EXCEPT ![p] = IF i + 1 < q.height THEN [q EXCEPT !.level = i + 1]
                                              ELSE [NotPut EXCEPT !.pc = "done", !.key = q.key]]
        \/ /\ q.prev[i] # NilNode /\ tower[q.prev[i]][i] # q.next[i]
           /\ tower' = [tower EXCEPT ![p][i] = q.next[i]]
           /\ putter' = [putter EXCEPT ![p].pc = "splice", ![p].at = q.prev[i]]
     /\ UNCHANGED <<nodeKey, nodeVal, listHeight, finder, putDone>>

(* The search after a failed swap, or for a new level.                     *)
respliceNode(p) ==
  LET q == putter[p]
      s == splice(q.at, tower[q.at][q.level], q.key)
  IN /\ q.pc = "splice"
     /\ \/ /\ ~ s.end /\ putter' = [putter EXCEPT ![p].at = s.prev] /\ UNCHANGED nodeVal
        \/ /\ s.end /\ s.prev = s.next /\ setValue(p, s.prev)
        \/ /\ s.end /\ s.prev # s.next /\ UNCHANGED nodeVal
           /\ putter' = [putter EXCEPT ![p] = [q EXCEPT !.prev[q.level] = s.prev, !.next[q.level] = s.next,
                                                        !.pc = "link"]]
     /\ UNCHANGED <<tower, nodeKey, listHeight, finder, putDone>>

Put(p) == \/ \E k \in PutKeys : beginPut(p, k)
          \/ searchPut(p) \/ makeNode(p) \/ raiseHeight(p) \/ linkNode(p) \/ respliceNode(p)

-----------------------------------------------------------------------------
(* findNear, the search of Get and of the iterators' Seek and Prev: less   *)
(* and allowEqual as in the code; the key may be one nobody puts.          *)
beginFind(k, less, eq) ==
  /\ finder.pc = "idle"
  /\ finder' = [NotFinding EXCEPT !.pc = "walk", !.key = k, !.less = less, !.eq = eq,
                                  !.level = listHeight - 1, !.before = Returned]
  /\ UNCHANGED <<tower, nodeKey, nodeVal, listHeight, putter, putDone>>

(* Mutant: the walk stops at the first larger key of any level.            *)
findStep_noDescend(f, next) ==
  IF next # NilNode /\ nodeKey[next] < f.key THEN [f EXCEPT !.at = next]
  ELSE IF next # NilNode /\ f.key = nodeKey[next] /\ f.eq THEN [f EXCEPT !.pc = "found", !.found = next]
  ELSE IF f.level > 0 /\ next = NilNode THEN [f EXCEPT !.level = @ - 1]
  ELSE [f EXCEPT !.pc = "found", !.found = IF ~ f.less THEN next ELSE IF f.at = HeadNode THEN NilNode ELSE f.at]
(* One load of the walk.  A larger key below the base level descends; at   *)
(* the base level the node before or after is returned, never the head.    *)
findStep(f, next) ==
  LET gone == [f EXCEPT !.pc = "found"]
      atKey == next # NilNode /\ f.key = nodeKey[next]
  IN IF next # NilNode /\ nodeKey[next] < f.key THEN [f EXCEPT !.at = next]
     ELSE IF atKey /\ f.eq THEN [gone EXCEPT !.found = next]
     ELSE IF atKey /\ ~ f.less THEN [f EXCEPT !.pc = "after", !.at = next]
     ELSE IF f.level > 0 THEN [f EXCEPT !.level = @ - 1]
     ELSE [gone EXCEPT !.found = IF ~ f.less THEN next ELSE IF f.at = HeadNode THEN NilNode ELSE f.at]

findNear ==
  /\ finder.pc \in {"walk", "after"}
  /\ finder' = IF finder.pc = "walk" THEN findStep(finder, tower[finder.at][finder.level])
               ELSE [finder EXCEPT !.pc = "found", !.found = tower[finder.at][0]]
  /\ UNCHANGED <<tower, nodeKey, nodeVal, listHeight, putter, putDone>>

(* SeekToFirst is one load from the head; findLast the descent with no key *)
(* to stop at.                                                             *)
SeekToFirst ==
  /\ finder.pc = "idle"
  /\ finder' = [NotFinding EXCEPT !.pc = "after", !.before = Returned]
  /\ UNCHANGED <<tower, nodeKey, nodeVal, listHeight, putter, putDone>>
findLast == beginFind(Max(PutKeys) + 1, TRUE, FALSE)

SkipListNext ==
  \/ \E p \in Putters : Put(p)
  \/ \E k \in PutKeys, less \in BOOLEAN, eq \in BOOLEAN : beginFind(k, less, eq)
  \/ SeekToFirst \/ findLast \/ findNear
SkipListSpec == NewSkiplist /\ [][SkipListNext]_sklVars

-----------------------------------------------------------------------------
(* The nodes reached from the head at level i: the least set that holds    *)
(* the head and the successors of its nodes.                               *)
closedAt(S, i) == HeadNode \in S /\ \A n \in S : tower[n][i] # NilNode => tower[n][i] \in S
linkedAt(i) == {n \in Nodes : \A S \in SUBSET Nodes : closedAt(S, i) => n \in S}

(* Concurrent Puts keep every level strictly sorted, whatever swaps fail,  *)
(* and a level never holds a node the one below lacks.  A Put that has     *)
(* returned is in the base list under its key, with its own value or that  *)
(* of a Put that did not return before it began: no Put is lost and no     *)
(* older value comes back (findSpliceForLevel and the two setValue paths   *)
(* of Put).                                                                *)
PutsKept ==
  LET list == [i \in SklLevels |-> linkedAt(i)]
  IN /\ \A i \in SklLevels : \A n \in list[i] :
          /\ tower[n][i] # NilNode => nodeKey[n] < nodeKey[tower[n][i]]
          /\ i > 0 => n \in list[i - 1]
     /\ \A p \in Returned : \E n \in list[0] \ {HeadNode} :
          nodeKey[n] = putter[p].key /\ nodeVal[n] \notin putDone[p]

(* A search that runs beside Puts returns the nearest key on the asked     *)
(* side: no key whose Put had returned when the search began lies between  *)
(* (findNear, at every combination of less and allowEqual).                *)
FindNearest ==
  finder.pc = "found" =>
    LET k == finder.key
        fits(j) == (finder.less /\ j < k) \/ (~ finder.less /\ j > k) \/ (finder.eq /\ j = k)
        dist(j) == IF finder.less THEN k - j ELSE j - k
        known == {putter[p].key : p \in finder.before}
    IN IF finder.found = NilNode THEN \A j \in known : ~ fits(j)
       ELSE /\ finder.found # HeadNode /\ fits(nodeKey[finder.found])
            /\ \A j \in known : fits(j) => dist(nodeKey[finder.found]) <= dist(j)

-----------------------------------------------------------------------------
(* What PutsKept and FindNearest rest on.  A level is sorted: a node's     *)
(* successor is the nearest of the larger keys.                            *)
PutterType == [pc : {"new", "search", "node", "raise", "link", "splice", "done"},
               key : PutKeys \cup {0}, level : SklLevels, at : Nodes, height : 0 .. SklHeight,
               seen : Nat, prev : [0 .. SklHeight -> Nodes \cup {NilNode}],
               next : [0 .. SklHeight -> Nodes \cup {NilNode}]]
FinderType == [pc : {"idle", "walk", "after", "found"}, key : Nat, less : BOOLEAN, eq : BOOLEAN,
               level : SklLevels, at : Nodes, found : Nodes \cup {NilNode}, before : SUBSET Putters]
SklType ==
  /\ tower \in [Nodes -> [SklLevels -> Nodes \cup {NilNode}]]
  /\ nodeKey \in [Nodes -> Nat] /\ nodeVal \in [Nodes -> Putters \cup {NilNode}]
  /\ listHeight \in 1 .. SklHeight
  /\ putter \in [Putters -> PutterType] /\ finder \in FinderType
  /\ putDone \in [Putters -> SUBSET Putters]

LevelSorted(i) ==
  /\ \A n \in linkedAt(i) : /\ tower[n][i] # NilNode => nodeKey[n] < nodeKey[tower[n][i]]
                            /\ i > 0 => n \in linkedAt(i - 1)
                            /\ n # HeadNode => nodeKey[n] = putter[n].key /\ nodeKey[n] > 0
  /\ \A n, m \in linkedAt(i) : /\ nodeKey[n] = nodeKey[m] => n = m
                               /\ nodeKey[n] < nodeKey[m] => /\ tower[n][i] # NilNode
                                                             /\ nodeKey[tower[n][i]] <= nodeKey[m]

(* A node is linked from the base up to the level its Put is at; a Put     *)
(* walks and splices between linked nodes on either side of its key.       *)
Placed(p, q) ==
  /\ q.pc # "new" => q.key > 0
  /\ q.pc \in {"new", "search", "node", "raise"} => \A i \in SklLevels : p \notin linkedAt(i)
  /\ q.pc \in {"link", "splice"} => \A i \in SklLevels : p \in linkedAt(i) <=> i < q.level
  /\ q.pc \in {"search", "splice"} => q.at \in linkedAt(q.level) /\ nodeKey[q.at] < q.key
  /\ q.pc \in {"node", "raise"} => q.level = 0
  /\ q.pc \in {"raise", "link", "splice"} => q.level < q.height
  /\ \A i \in SklLevels :
       /\ q.prev[i] # NilNode => q.prev[i] \in linkedAt(i) /\ nodeKey[q.prev[i]] < q.key
       /\ q.next[i] # NilNode => q.next[i] \in linkedAt(i) /\ q.key < nodeKey[q.next[i]]
NodeMade(p, q) ==
  q.pc \in {"raise", "link", "splice"} => nodeKey[p] = q.key /\ nodeVal[p] \notin putDone[p]
PutterPlaced(p) == Placed(p, putter[p]) /\ NodeMade(p, putter[p])

FinderPlaced ==
  /\ finder.before \subseteq Returned
  /\ finder.pc = "walk" => finder.at \in linkedAt(finder.level) /\ nodeKey[finder.at] < finder.key
  /\ finder.pc = "after" => /\ finder.at \in linkedAt(0) /\ nodeKey[finder.at] = finder.key
                            /\ ~ finder.less /\ ~ finder.eq
  /\ finder.pc = "found" /\ finder.found # NilNode => finder.found \in linkedAt(0)

SklInv ==
  /\ SklType
  /\ nodeKey[HeadNode] = 0
  /\ \A i \in SklLevels : LevelSorted(i)
  /\ \A p \in Putters : putDone[p] \subseteq Returned /\ PutterPlaced(p)
  /\ PutsKept
  /\ FinderPlaced /\ FindNearest

=============================================================================
