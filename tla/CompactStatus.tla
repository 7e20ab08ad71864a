---------------------------- MODULE CompactStatus ----------------------------
(***************************************************************************)
(* compaction.go: key ranges, and the registry of the ranges and tables    *)
(* that running compactions have claimed.  User keys are positive          *)
(* integers; a table is a record with the set "ents" of its entries.       *)
(***************************************************************************)
EXTENDS Integers, FiniteSetsExt

(* keyRange.  0 stands for the missing bounds of the empty and the         *)
(* infinite range.                                                         *)
keyRange(left, right) == [left |-> left, right |-> right, inf |-> FALSE]
emptyRange == keyRange(0, 0)
infRange   == [left |-> 0, right |-> 0, inf |-> TRUE]

isEmpty(r) == r.left = 0 /\ r.right = 0 /\ ~ r.inf

(* An empty receiver overlaps everything, an empty argument nothing.       *)
overlapsWith(r, dst) ==
  \/ isEmpty(r)
  \/ /\ ~ isEmpty(dst)
     /\ r.inf \/ dst.inf \/ (r.left <= dst.right /\ dst.left <= r.right)

KeysOf(t) == {e.key : e \in t.ents}

(* getKeyRange: from the smallest to the biggest user key, all versions.   *)
getKeyRange(tables) ==
  IF tables = {} THEN emptyRange
  ELSE LET keys == UNION {KeysOf(t) : t \in tables}
       IN  keyRange(Min(keys), Max(keys))

-----------------------------------------------------------------------------
(* compactStatus: ranges[l] are the claimed ranges of level l, tables the  *)
(* tables under compaction.  cd is a compactDef: its levels (this, next),  *)
(* their claimed ranges and the tables taken from them (top, bot).         *)
newStatus(levelIds) == [ranges |-> [l \in levelIds |-> {}], tables |-> {}]

allTables(cd) == cd.top \cup cd.bot

levelOverlaps(cs, l, r) == \E c \in cs.ranges[l] : overlapsWith(c, r)

claim(cs, cd) ==
  [ranges |-> [l \in DOMAIN cs.ranges |->
                 cs.ranges[l] \cup (IF l = cd.this THEN {cd.thisRange} ELSE {})
                              \cup (IF l = cd.next THEN {cd.nextRange} ELSE {})],
   tables |-> cs.tables \cup allTables(cd)]

(* The test of compareAndAdd: refused when either range is claimed.        *)
compareOk_thisOnly(cs, cd) == ~ levelOverlaps(cs, cd.this, cd.thisRange)

compareOk(cs, cd) ==
  /\ ~ levelOverlaps(cs, cd.this, cd.thisRange)
  /\ ~ levelOverlaps(cs, cd.next, cd.nextRange)

(* delete: the claim on the next level is given up only when that is       *)
(* another level.                                                          *)
delete_thisOnly(cs, cd) ==
  [ranges |-> [cs.ranges EXCEPT ![cd.this] = @ \ {cd.thisRange}],
   tables |-> cs.tables \ allTables(cd)]

delete(cs, cd) ==
  [ranges |-> [l \in DOMAIN cs.ranges |->
                 cs.ranges[l] \ ((IF l = cd.this THEN {cd.thisRange} ELSE {}) \cup
                                 (IF l = cd.next /\ cd.this # cd.next /\ ~ isEmpty(cd.nextRange)
                                  THEN {cd.nextRange} ELSE {}))],
   tables |-> cs.tables \ allTables(cd)]
=============================================================================
