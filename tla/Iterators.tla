------------------------------ MODULE Iterators -------------------------------
(***************************************************************************)
(* iterator.go, table/iterator.go, table/merge_iterator.go: an iteration   *)
(* over sources that hold versions of keys, the newest source first:       *)
(* tables of blocks, concatenated per level, merged by a binary tree, and  *)
(* filtered by the transaction's iterator with its prefetched items.       *)
(***************************************************************************)
EXTENDS Integers, Sequences, SequencesExt, FiniteSets

CONSTANTS
  IterKeys, IterMaxTs,    \* keys 1..n and versions 1..IterMaxTs
  Sources,                \* number of sources
  Placements,             \* sets of sources one version may be in
  IterOptions,            \* records [reverse, all, since, readTs, prefix]
  PrefetchSize

ASSUME IteratorAssumption == IterMaxTs \in 1 .. 8 /\ Sources \in Nat \ {0} /\ PrefetchSize \in Nat \ {0}

VARIABLES
  placed,      \* version -> the sources it is in
  deletedAt,   \* versions that are deletion markers
  opt, itr,    \* Iterator: its options and its state
  fromKey, stepsDone     \* history: the last Seek and the Nexts after it
iterVars == <<placed, deletedAt, opt, itr, fromKey, stepsDone>>

(* A key with its version; versions of a key are sorted newest first.      *)
code(k, ts) == 10 * k + 9 - ts
keyOf(c) == c \div 10
tsOf(c) == 9 - (c % 10)
Versions == {code(k, ts) : k \in IterKeys, ts \in 1 .. IterMaxTs}
ascending(S) == SetToSortSeq(S, LAMBDA a, b : a < b)

-----------------------------------------------------------------------------
(* table.Iterator on the blocks of one table: block b, entry i.            *)
EOF == [b |-> 0, i |-> 0, valid |-> FALSE]
seekHelper(bs, b, key) ==
  LET i == Cardinality({j \in DOMAIN bs[b] : bs[b][j] < key}) + 1
  IN  [b |-> b, i |-> i, valid |-> i <= Len(bs[b])]

(* The last block that starts at or below the key, or the one after it.    *)
seekFrom(bs, key) ==
  LET idx == Cardinality({b \in DOMAIN bs : bs[b][1] <= key})
      h == seekHelper(bs, idx, key)
  IN  IF idx = 0 THEN seekHelper(bs, 1, key)
      ELSE IF ~ h.valid /\ idx < Len(bs) THEN seekHelper(bs, idx + 1, key) ELSE h

tNext(bs, p) ==
  IF p.i + 1 <= Len(bs[p.b]) THEN [p EXCEPT !.i = @ + 1]
  ELSE IF p.b + 1 <= Len(bs) THEN [b |-> p.b + 1, i |-> 1, valid |-> TRUE] ELSE EOF
tPrev(bs, p) ==
  IF p.i - 1 >= 1 THEN [p EXCEPT !.i = @ - 1, !.valid = TRUE]
  ELSE IF p.b - 1 >= 1 THEN [b |-> p.b - 1, i |-> Len(bs[p.b - 1]), valid |-> TRUE] ELSE EOF

seekForPrev(bs, key) ==
  LET p == seekFrom(bs, key)
  IN  IF p.valid /\ bs[p.b][p.i] = key THEN p ELSE tPrev(bs, p)
tRewind(bs, reverse) ==
  IF reverse THEN [b |-> Len(bs), i |-> Len(bs[Len(bs)]), valid |-> TRUE] ELSE [b |-> 1, i |-> 1, valid |-> TRUE]

-----------------------------------------------------------------------------
(* ConcatIterator over the tables of a level: the table it is in, and the  *)
(* position there.                                                         *)
Smallest(t) == t[1][1]
Biggest(t) == Last(Last(t))
leaf(s, tables) == [kind |-> "concat", src |-> s, tables |-> tables, t |-> 0, pos |-> EOF]

concatAt(it, t, pos) == [it EXCEPT !.t = t, !.pos = pos]
concatSeek(it, key, reverse) ==
  LET ts == it.tables
      idx == IF reverse THEN Cardinality({j \in DOMAIN ts : Smallest(ts[j]) <= key})
             ELSE Cardinality({j \in DOMAIN ts : Biggest(ts[j]) < key}) + 1
  IN  IF idx \notin DOMAIN ts THEN concatAt(it, 0, EOF)
      ELSE concatAt(it, idx, IF reverse THEN seekForPrev(ts[idx], key) ELSE seekFrom(ts[idx], key))
concatRewind(it, reverse) ==
  IF it.tables = <<>> THEN it
  ELSE LET idx == IF reverse THEN Len(it.tables) ELSE 1 IN concatAt(it, idx, tRewind(it.tables[idx], reverse))
concatNext(it, reverse) ==
  LET p == IF reverse THEN tPrev(it.tables[it.t], it.pos) ELSE tNext(it.tables[it.t], it.pos)
      idx == IF reverse THEN it.t - 1 ELSE it.t + 1
  IN  IF p.valid THEN [it EXCEPT !.pos = p]
      ELSE IF idx \in DOMAIN it.tables THEN concatAt(it, idx, tRewind(it.tables[idx], reverse))
      ELSE concatAt(it, 0, EOF)

-----------------------------------------------------------------------------
(* MergeIterator: a tree of nodes, the left one holding newer sources.     *)
RECURSIVE Valid(_), Key(_), Source(_)
small(m) == IF m.small = "left" THEN m.left ELSE m.right
bigger(m) == IF m.small = "left" THEN m.right ELSE m.left
Valid(it) == IF it.kind = "concat" THEN it.t # 0 /\ it.pos.valid ELSE Valid(small(it))
Key(it) == IF it.kind = "concat" THEN it.tables[it.t][it.pos.b][it.pos.i] ELSE Key(small(it))
Source(it) == IF it.kind = "concat" THEN it.src ELSE Source(small(it))

swapSmall(m) == [m EXCEPT !.small = IF @ = "left" THEN "right" ELSE "left"]
setCurrent(m) == IF Valid(m) THEN [m EXCEPT !.cur = Key(m)] ELSE m

(* fix: of two nodes at the same key the right one moves ahead.            *)
RECURSIVE mNext(_, _), skipCurrent(_, _)
fix(m, reverse) ==
  IF ~ Valid(bigger(m)) THEN m
  ELSE IF ~ Valid(small(m)) THEN swapSmall(m)
  ELSE IF Key(small(m)) = Key(bigger(m)) THEN [m EXCEPT !.right = mNext(@, reverse), !.small = "left"]
  ELSE IF (Key(small(m)) < Key(bigger(m))) = reverse THEN swapSmall(m) ELSE m

(* Next: past every entry with the current key.                            *)
skipCurrent(m, reverse) ==
  IF ~ Valid(m) \/ Key(m) # m.cur THEN m
  ELSE skipCurrent(fix(IF m.small = "left" THEN [m EXCEPT !.left = mNext(@, reverse)]
                                           ELSE [m EXCEPT !.right = mNext(@, reverse)], reverse), reverse)
mNext(it, reverse) ==
  IF it.kind = "concat" THEN concatNext(it, reverse) ELSE setCurrent(skipCurrent(it, reverse))

RECURSIVE mSeek(_, _, _), mRewind(_, _), NewMergeIterator(_)
mSeek(it, key, reverse) ==
  IF it.kind = "concat" THEN concatSeek(it, key, reverse)
  ELSE setCurrent(fix([it EXCEPT !.left = mSeek(@, key, reverse), !.right = mSeek(@, key, reverse)], reverse))
mRewind(it, reverse) ==
  IF it.kind = "concat" THEN concatRewind(it, reverse)
  ELSE setCurrent(fix([it EXCEPT !.left = mRewind(@, reverse), !.right = mRewind(@, reverse)], reverse))

NewMergeIterator(iters) ==
  LET mid == Len(iters) \div 2
  IN  IF Len(iters) = 1 THEN iters[1]
      ELSE [kind |-> "merge", left |-> NewMergeIterator(SubSeq(iters, 1, mid)),
            right |-> NewMergeIterator(SubSeq(iters, mid + 1, Len(iters))), small |-> "left", cur |-> 0]

-----------------------------------------------------------------------------
(* The sources: the first is one block, the second a table with a block    *)
(* per entry, the others levels with a table per key.                      *)
entriesIn(s) == {c \in Versions : s \in placed[c]}
blockEach(S) == [i \in 1 .. Cardinality(S) |-> <<ascending(S)[i]>>]
tablesOf(s) ==
  LET E == entriesIn(s)
      perKey == {{c \in E : keyOf(c) = k} : k \in IterKeys} \ {{}}
  IN  CASE E = {} -> <<>>
        [] s = 1 -> <<<<ascending(E)>>>>
        [] s = 2 -> <<blockEach(E)>>
        [] OTHER -> LET sets == SetToSortSeq(perKey, LAMBDA A, B : \A a \in A, b \in B : a < b)
                    IN  [i \in DOMAIN sets |-> blockEach(sets[i])]

(* pickTables: not those too old for SinceTs, nor out of the prefix.  The  *)
(* memtable, source 1, is always taken.                                    *)
hasPrefix(o, k) == o.prefix = 0 \/ k = o.prefix
MaxVersion(t) == CHOOSE v \in 0 .. IterMaxTs : \E b \in DOMAIN t : \E i \in DOMAIN t[b] : tsOf(t[b][i]) = v
                   /\ \A b2 \in DOMAIN t : \A j \in DOMAIN t[b2] : tsOf(t[b2][j]) <= v
pickTables(s, o) ==
  SelectSeq(tablesOf(s), LAMBDA t :
    s = 1 \/ (/\ MaxVersion(t) >= o.since
              /\ o.prefix = 0 \/ (keyOf(Smallest(t)) <= o.prefix /\ keyOf(Biggest(t)) >= o.prefix)))

NoItem == [c |-> 0, src |-> 0]
NewIterator(o) ==
  [mi |-> NewMergeIterator([s \in 1 .. Sources |-> leaf(s, pickTables(s, o))]), item |-> NoItem, data |-> <<>>, lastKey |-> 0]

-----------------------------------------------------------------------------
(* parseItem moves the merge iterator on and may put one item into the     *)
(* list.  An item is its version and the source it came from.              *)
advance(it) == [it EXCEPT !.mi = mNext(@, opt.reverse)]
itemAt(it) == [c |-> Key(it.mi), src |-> Source(it.mi)]
setItem(it, x) == IF it.item = NoItem THEN [it EXCEPT !.item = x] ELSE [it EXCEPT !.data = Append(@, x)]
pushed(it, x) == [it |-> setItem(it, x), ok |-> TRUE]
skipped(it) == [it |-> it, ok |-> FALSE]

(* In reverse, a later version of the same key replaces the candidate.     *)
RECURSIVE fillReverse(_)
fillReverse(it) ==
  IF Key(it.mi) \in deletedAt THEN skipped(advance(it))
  ELSE LET x == itemAt(it)
           nx == advance(it)
       IN  IF Valid(nx.mi) /\ keyOf(Key(nx.mi)) = keyOf(x.c) /\ tsOf(Key(nx.mi)) <= opt.readTs
           THEN fillReverse(nx) ELSE pushed(nx, x)

inWindow(c) == tsOf(c) <= opt.readTs /\ (opt.since > 0 => tsOf(c) > opt.since)

noteKey_live(it) == IF Key(it.mi) \in deletedAt THEN it ELSE [it EXCEPT !.lastKey = keyOf(Key(it.mi))]
noteKey(it) == [it EXCEPT !.lastKey = keyOf(Key(it.mi))]

parseItem(it) ==
  LET c == Key(it.mi) IN
  CASE ~ inWindow(c) -> skipped(advance(it))
    [] inWindow(c) /\ opt.all -> pushed(advance(it), itemAt(it))
    [] inWindow(c) /\ ~ opt.all /\ opt.reverse -> fillReverse(it)
    [] OTHER -> IF keyOf(c) = it.lastKey THEN skipped(advance(it))
                ELSE IF c \in deletedAt THEN skipped(advance(noteKey(it)))
                ELSE pushed(advance(noteKey(it)), itemAt(it))

more(it) == Valid(it.mi) /\ (opt.reverse \/ hasPrefix(opt, keyOf(Key(it.mi))))

RECURSIVE prefetch(_, _), parseOne(_)
prefetch(it, n) ==
  IF ~ more(it) \/ n = 0 THEN it
  ELSE LET p == parseItem(it) IN prefetch(p.it, IF p.ok THEN n - 1 ELSE n)
parseOne(it) == prefetch(it, 1)

Seek(k) ==
  LET fresh == [itr EXCEPT !.item = NoItem, !.data = <<>>, !.lastKey = 0]
      target == IF k = 0 THEN opt.prefix ELSE k
      at == IF target = 0 THEN mRewind(fresh.mi, opt.reverse)
            ELSE mSeek(fresh.mi, code(target, IF opt.reverse THEN 0 ELSE opt.readTs), opt.reverse)
  IN  /\ itr' = prefetch([fresh EXCEPT !.mi = at], PrefetchSize)
      /\ fromKey' = target /\ stepsDone' = 0 /\ UNCHANGED <<placed, deletedAt, opt>>

itemValid(it) == it.item # NoItem /\ hasPrefix(opt, keyOf(it.item.c))

Next(it) ==
  parseOne(IF it.data = <<>> THEN [it EXCEPT !.item = NoItem]
           ELSE [it EXCEPT !.item = Head(it.data), !.data = Tail(@)])
iterNext ==
  /\ fromKey # -1 /\ itemValid(itr)
  /\ itr' = Next(itr) /\ stepsDone' = stepsDone + 1
  /\ UNCHANGED <<placed, deletedAt, opt, fromKey>>

-----------------------------------------------------------------------------
IteratorsInit ==
  /\ placed \in [Versions -> Placements]
  /\ deletedAt \in {D \in SUBSET {code(k, IterMaxTs) : k \in IterKeys} : \A c \in D : placed[c] # {}}
  /\ opt \in IterOptions
  /\ itr = NewIterator(opt) /\ fromKey = -1 /\ stepsDone = 0

(* A program that sets a prefix seeks keys that have it.                    *)
IteratorsNext ==
  \/ iterNext
  \/ fromKey = -1 /\ \E k \in IterKeys \cup {0} : (k = 0 \/ hasPrefix(opt, k)) /\ Seek(k)
IteratorsSpec == IteratorsInit /\ [][IteratorsNext]_iterVars

-----------------------------------------------------------------------------
(* What an iteration should return, from the sets alone: every version of  *)
(* the snapshot, or the newest of each key unless it is deleted, from the  *)
(* newest source that has it.                                              *)
inSnapshot == {c \in Versions : placed[c] # {} /\ inWindow(c)}
selected ==
  IF opt.all THEN inSnapshot
  ELSE {c \in inSnapshot : c \notin deletedAt /\ \A d \in inSnapshot : keyOf(d) = keyOf(c) => d >= c}
reached ==
  {c \in selected : /\ hasPrefix(opt, keyOf(c))
                    /\ fromKey > 0 => (IF opt.reverse THEN keyOf(c) <= fromKey ELSE keyOf(c) >= fromKey)}
expected == IF opt.reverse THEN Reverse(ascending(reached)) ELSE ascending(reached)
newestSource(c) == CHOOSE s \in placed[c] : \A s2 \in placed[c] : s <= s2

(* NewIterator: "The keys are returned in lexicographically sorted order", *)
(* those of the snapshot, each once, whatever sources, tables and blocks   *)
(* they are in, in both directions, from any key, after any deletion.      *)
IterationCorrect ==
  fromKey # -1 =>
    IF stepsDone < Len(expected)
    THEN itemValid(itr) /\ itr.item = [c |-> expected[stepsDone + 1], src |-> newestSource(expected[stepsDone + 1])]
    ELSE ~ itemValid(itr)
=============================================================================
