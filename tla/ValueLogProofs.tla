---------------------------- MODULE ValueLogProofs ----------------------------
(***************************************************************************)
(* Txn.Get never finds a pointer into a file that GC has deleted           *)
(* (NoDanglingReadSettled), for any number of keys, commits, memtables,    *)
(* files and iterators.                                                    *)
(*                                                                         *)
(* VlogInv says where a copy whose value is gone may lie.  The proof has   *)
(* three parts: what a lookup finds (VlogInv implies the property), what   *)
(* each kind of step moves from where to where, and that every action      *)
(* keeps VlogInv.  All of it speaks of which place has which copy (has),   *)
(* and no longer of sequences of tables.                                   *)
(***************************************************************************)
EXTENDS ValueLog, WellFoundedInduction, TLAPS

LEMMA Least ==
  ASSUME NEW S \in SUBSET Nat, S # {}
  PROVE  \E x \in S : \A y \in S : x <= y
<1>1. PICK x \in S : \A y \in S : ~ (<<y, x>> \in OpToRel(<, Nat))
  BY NatLessThanWellFounded, WFMin
<1>2. ASSUME NEW y \in S PROVE x <= y
  <2>1. y \in Nat /\ x \in Nat
    OBVIOUS
  <2>2. ~ (y < x)
    BY <1>1, <2>1 DEF OpToRel
  <2>. QED BY <2>1, <2>2
<1>. QED BY <1>2

-----------------------------------------------------------------------------
(* Places in the tree and the copies in them.                              *)
src(p, i) == [tier |-> p, n |-> i]
Tiers == {"mem"} \cup Places
isSource(s) == s = src(s.tier, s.n) /\ s.tier \in Tiers /\ s.n \in Nat
has(s, c) == s \in sourcesNow /\ c \in content(tree, s)

sourcesAre ==
  /\ \A i : src("mem", i) \in sourcesNow <=> i \in nFlushed + 1 .. Len(mems)
  /\ \A p \in Places : \A i : src(p, i) \in sourcesNow <=> i \in 1 .. Len(tree[p])
  /\ \A s \in sourcesNow : isSource(s)

LEMMA SourcesAre == VlogTyped => sourcesAre
<1>. SUFFICES ASSUME VlogTyped PROVE sourcesAre
  OBVIOUS
<1>0. nFlushed \in Nat /\ Len(mems) \in Nat /\ \A p \in Places : Len(tree[p]) \in Nat
  BY DEF VlogTyped
<1>1. \A p, q, i, j : src(p, i) = src(q, j) <=> p = q /\ i = j
  BY DEF src
<1>2. \A s : s \in sourcesNow <=> \/ \E i \in nFlushed + 1 .. Len(mems) : s = src("mem", i)
                                  \/ \E p \in Places : \E i \in 1 .. Len(tree[p]) : s = src(p, i)
  BY DEF sourcesNow, memsOf, tablesOf, src
<1>3. "mem" \notin Places
  BY DEF Places
<1>4. \A i : src("mem", i) \in sourcesNow <=> i \in nFlushed + 1 .. Len(mems)
  BY <1>1, <1>2, <1>3
<1>5. \A p \in Places : \A i : src(p, i) \in sourcesNow <=> i \in 1 .. Len(tree[p])
  BY <1>1, <1>2, <1>3
<1>6. \A p, i : src(p, i).tier = p /\ src(p, i).n = i
  BY DEF src
<1>7. \A s \in sourcesNow : isSource(s)
  BY <1>0, <1>2, <1>6 DEF isSource, Tiers
<1>. QED BY <1>4, <1>5, <1>7 DEF sourcesAre

LEMMA SourcesAreNext == VlogTyped' => sourcesAre'
BY SourcesAre, PTL

(* What each place has.                                                    *)
hasIs ==
  /\ \A i, c : has(src("mem", i), c) <=> i \in nFlushed + 1 .. Len(mems) /\ c \in mems[i]
  /\ \A p \in Places : \A i, c : has(src(p, i), c) <=> i \in 1 .. Len(tree[p]) /\ c \in tree[p][i]
  /\ \A s, c : has(s, c) => isSource(s)
  /\ \A c : c \in copiesNow <=> \E s : has(s, c)

LEMMA HasIs == VlogTyped => hasIs
<1>. SUFFICES ASSUME VlogTyped PROVE hasIs
  OBVIOUS
<1>1. sourcesAre
  BY SourcesAre
<1>2. \A i : content(tree, src("mem", i)) = mems[i]
  BY DEF content, src
<1>3. \A p \in Places : \A i : content(tree, src(p, i)) = tree[p][i]
  BY DEF content, src, Places
<1>4. \A c : c \in copiesNow <=> \E s : has(s, c)
  BY DEF has, copiesNow, copiesIn
<1>. QED BY <1>1, <1>2, <1>3, <1>4 DEF sourcesAre, hasIs, has

LEMMA HasIsNext == VlogTyped' => hasIs'
BY HasIs, PTL

LEMMA HasTyped == VlogTyped => \A s, c : has(s, c) => c \in Copy
<1>. SUFFICES ASSUME VlogTyped, NEW s, NEW c, has(s, c) PROVE c \in Copy
  OBVIOUS
<1>1. hasIs
  BY HasIs
<1>2. isSource(s)
  BY <1>1 DEF hasIs
<1>3. CASE s.tier = "mem"
  <2>1. has(src("mem", s.n), c)
    BY <1>2, <1>3 DEF isSource
  <2>2. s.n \in 1 .. Len(mems) /\ c \in mems[s.n]
    BY <1>1, <2>1 DEF hasIs, VlogTyped
  <2>. QED BY <2>2 DEF VlogTyped
<1>4. CASE s.tier \in Places
  <2>1. has(src(s.tier, s.n), c)
    BY <1>2 DEF isSource
  <2>2. s.n \in 1 .. Len(tree[s.tier]) /\ c \in tree[s.tier][s.n]
    BY <1>1, <1>4, <2>1 DEF hasIs
  <2>. QED BY <1>4, <2>2 DEF VlogTyped
<1>. QED BY <1>2, <1>3, <1>4 DEF isSource, Tiers

-----------------------------------------------------------------------------
(* The order of the places.                                                *)
LEMMA EarlierOrder ==
  ASSUME NEW q, NEW r, NEW s, isSource(q), isSource(r), isSource(s)
  PROVE  /\ earlier(q, r) /\ earlier(r, s) => earlier(q, s)
         /\ ~ earlier(q, q)
         /\ earlier(q, r) \/ earlier(r, q) \/ q = r
<1>1. \A p \in Tiers : rank(p) \in 0 .. 4
  BY DEF rank, Tiers, Places
<1>2. \A x, y \in Tiers : rank(x) = rank(y) => x = y
  BY DEF rank, Tiers, Places
<1>3. q.tier \in Tiers /\ r.tier \in Tiers /\ s.tier \in Tiers /\ q.n \in Nat /\ r.n \in Nat /\ s.n \in Nat
  BY DEF isSource
<1>4. q.tier = r.tier /\ q.n = r.n => q = r
  BY DEF isSource
<1>. QED BY <1>1, <1>2, <1>3, <1>4 DEF earlier

holdsIn(S, r, v, k) == r \in S /\ holds(tree, r, v, k)

(* Every version that is held is held first in one place.                  *)
LEMMA FirstExists ==
  ASSUME VlogTyped, NEW S \in SUBSET sourcesNow, NEW v, NEW k, NEW x \in S, holds(tree, x, v, k)
  PROVE  \E s \in S : isFirst(tree, S, s, v, k)
<1>1. sourcesAre
  BY SourcesAre
<1>2. \A s \in S : isSource(s)
  BY <1>1 DEF sourcesAre
<1>3. \A p \in Tiers : rank(p) \in Nat
  BY DEF rank, Tiers, Places
<1>. DEFINE H == {s \in S : holds(tree, s, v, k)}
            R == {rank(s.tier) : s \in H}
<1>4. R \in SUBSET Nat /\ R # {}
  BY <1>2, <1>3 DEF isSource
<1>5. PICK m \in R : \A y \in R : m <= y
  <2>. HIDE DEF R
  <2>. QED BY <1>4, Least
<1>6. PICK z \in H : m = rank(z.tier)
  OBVIOUS
<1>7. PICK B \in Nat : \A s \in S : s.tier = z.tier => s.n <= B
  <2>1. isSource(z)
    BY <1>2
  <2>2. CASE z.tier = "mem"
    <3>1. \A s \in S : s.tier = "mem" => s.n <= Len(mems)
      <4>. SUFFICES ASSUME NEW s \in S, s.tier = "mem" PROVE s.n <= Len(mems)
        OBVIOUS
      <4>1. src("mem", s.n) \in sourcesNow
        BY <1>2 DEF isSource
      <4>2. s.n \in nFlushed + 1 .. Len(mems)
        BY <1>1, <4>1 DEF sourcesAre
      <4>. QED BY <4>2 DEF VlogTyped
    <3>2. Len(mems) \in Nat
      BY DEF VlogTyped
    <3>. QED BY <2>2, <3>1, <3>2
  <2>3. CASE z.tier \in Places
    <3>1. \A s \in S : s.tier = z.tier => s.n <= Len(tree[z.tier])
      <4>. SUFFICES ASSUME NEW s \in S, s.tier = z.tier PROVE s.n <= Len(tree[z.tier])
        OBVIOUS
      <4>1. src(z.tier, s.n) \in sourcesNow
        BY <1>2 DEF isSource
      <4>2. s.n \in 1 .. Len(tree[z.tier])
        BY <1>1, <2>3, <4>1 DEF sourcesAre
      <4>. QED BY <4>2
    <3>2. Len(tree[z.tier]) \in Nat
      BY <2>3 DEF VlogTyped
    <3>. QED BY <3>1, <3>2
  <2>. QED BY <2>1, <2>2, <2>3 DEF isSource, Tiers
<1>. DEFINE T == {s \in H : s.tier = z.tier}
            D == {B - s.n : s \in T}
<1>8. D \in SUBSET Nat /\ D # {}
  <2>1. \A s \in T : s.n \in Nat /\ s.n <= B
    BY <1>2, <1>7 DEF isSource
  <2>2. \A s \in T : B - s.n \in Nat
    BY <2>1
  <2>. QED BY <1>6, <2>2
<1>9. PICK d \in D : \A y \in D : d <= y
  <2>. HIDE DEF D
  <2>. QED BY <1>8, Least
<1>10. PICK f \in T : d = B - f.n
  OBVIOUS
<1>11. ASSUME NEW r \in S, earlier(r, f), holds(tree, r, v, k) PROVE FALSE
  <2>1. r \in H /\ isSource(r) /\ isSource(f) /\ f.tier = z.tier
    BY <1>2, <1>11, <1>10
  <2>2. rank(r.tier) \in R
    BY <2>1
  <2>3. rank(f.tier) <= rank(r.tier)
    BY <1>5, <1>6, <2>1, <2>2
  <2>4. r.tier = f.tier /\ r.n > f.n
    BY <1>11, <2>1, <2>3, <1>3 DEF earlier, isSource
  <2>5. B - r.n \in D
    BY <2>1, <2>4
  <2>6. B - f.n <= B - r.n
    BY <1>9, <1>10, <2>5
  <2>. QED BY <2>1, <2>4, <2>6 DEF isSource
<1>. QED BY <1>10, <1>11 DEF isFirst

LEMMA FirstIsOne ==
  ASSUME VlogTyped, NEW S \in SUBSET sourcesNow, NEW v, NEW k, NEW r, NEW s,
         isFirst(tree, S, r, v, k), isFirst(tree, S, s, v, k)
  PROVE  r = s
<1>1. sourcesAre
  BY SourcesAre
<1>2. isSource(r) /\ isSource(s)
  BY <1>1 DEF sourcesAre, isFirst
<1>. QED BY <1>2, EarlierOrder DEF isFirst

(* What firstOf returns.                                                   *)
LEMMA FirstOfIs ==
  ASSUME VlogTyped, VersionsAgree, NEW S \in SUBSET sourcesNow, NEW v, NEW k,
         NEW s \in S, NEW c, isFirst(tree, S, s, v, k), c \in content(tree, s), c.key = k, c.ver = v
  PROVE  firstOf(tree, S, v, k) = c
<1>1. \A r \in S : isFirst(tree, S, r, v, k) => r = s
  BY FirstIsOne
<1>2. (CHOOSE r \in S : isFirst(tree, S, r, v, k)) = s
  BY <1>1
<1>3. \A d \in content(tree, s) : d.key = k /\ d.ver = v => d = c
  BY DEF VersionsAgree
<1>4. (CHOOSE d \in content(tree, s) : d.key = k /\ d.ver = v) = c
  BY <1>3
<1>. QED BY <1>2, <1>4 DEF firstOf

LEMMA CopyFacts ==
  ASSUME NEW c \in Copy
  PROVE  c.key \in VKeys /\ c.ver \in Nat /\ c.ver > 0 /\ c.kind \in {"put", "del"} /\ c.fid \in Nat /\ c.off \in Nat
BY DEF Copy

(* The version of a copy is between 1 and that of the last commit.         *)
LEMMA VersionBound ==
  ASSUME VlogTyped, VersionsAgree, NEW s, NEW c, has(s, c)
  PROVE  c \in Copy /\ c.ver \in 1 .. vTs /\ c.ver <= newest[c.key].ver
<1>1. c \in Copy
  BY HasTyped
<1>2. c \in copiesNow
  BY HasIs DEF hasIs
<1>3. c.key \in VKeys /\ c.ver \in Nat /\ c.ver > 0
  BY <1>1, CopyFacts
<1>4. c.ver <= newest[c.key].ver
  BY <1>2 DEF VersionsAgree
<1>5. newest[c.key].ver \in 0 .. vTs /\ vTs \in Nat
  BY <1>3 DEF VlogTyped
<1>6. c.ver \in 1 .. vTs
  BY <1>3, <1>4, <1>5
<1>. QED BY <1>1, <1>4, <1>6

(* What a lookup in the sources S finds.                                   *)
foundIn(S, k, asOf, s, c) ==
  /\ s \in S /\ c \in content(tree, s) /\ c.key = k /\ c.ver <= asOf
  /\ isFirst(tree, S, s, c.ver, k)
  /\ \A r \in S : \A d \in content(tree, r) : d.key = k /\ d.ver <= asOf => d.ver <= c.ver

LEMMA FoundIs ==
  ASSUME VlogTyped, VersionsAgree, NEW S \in SUBSET sourcesNow, NEW k, NEW asOf, NEW s, NEW c,
         foundIn(S, k, asOf, s, c)
  PROVE  found(tree, S, k, asOf) = c
<1>. DEFINE vers == {d.ver : d \in hits(tree, S, k, asOf)}
<1>1. \A y : y \in vers <=> \E r \in S : \E d \in content(tree, r) : d.key = k /\ d.ver <= asOf /\ d.ver = y
  BY DEF hits, copiesIn
<1>2. \A y \in vers : y \in Nat
  <2>. SUFFICES ASSUME NEW r \in S, NEW d \in content(tree, r) PROVE d.ver \in Nat
    BY <1>1
  <2>1. has(r, d)
    BY DEF has
  <2>. QED BY <2>1, VersionBound
<1>3. c.ver \in vers /\ \A y \in vers : y <= c.ver
  BY <1>1 DEF foundIn
<1>4. c.ver \in Nat /\ \A x \in vers : (\A y \in vers : x >= y) => x = c.ver
  BY <1>2, <1>3
<1>5. \A y \in vers : c.ver >= y
  BY <1>2, <1>3
<1>6. Max(vers) = c.ver
  <2>. HIDE DEF vers
  <2>. QED BY <1>3, <1>4, <1>5 DEF Max
<1>7. firstOf(tree, S, c.ver, k) = c
  BY FirstOfIs DEF foundIn
<1>8. vers # {}
  BY <1>3
<1>. QED BY <1>6, <1>7, <1>8 DEF found

LEMMA FoundFrom ==
  ASSUME VlogTyped, VersionsAgree, NEW S \in SUBSET sourcesNow, NEW k, NEW asOf
  PROVE  \/ found(tree, S, k, asOf) = None
         \/ \E s, c : foundIn(S, k, asOf, s, c) /\ found(tree, S, k, asOf) = c
<1>. DEFINE vers == {d.ver : d \in hits(tree, S, k, asOf)}
<1>1. \A y : y \in vers <=> \E r \in S : \E d \in content(tree, r) : d.key = k /\ d.ver <= asOf /\ d.ver = y
  BY DEF hits, copiesIn
<1>2. CASE vers = {}
  BY <1>2 DEF found
<1>3. CASE vers # {}
  <2>1. \A y \in vers : y \in Nat /\ y <= vTs
    <3>. SUFFICES ASSUME NEW r \in S, NEW d \in content(tree, r) PROVE d.ver \in Nat /\ d.ver <= vTs
      BY <1>1
    <3>1. has(r, d)
      BY DEF has
    <3>2. d.ver \in 1 .. vTs
      BY <3>1, VersionBound
    <3>. QED BY <3>2 DEF VlogTyped
  <2>2. vTs \in Nat
    BY DEF VlogTyped
  <2>. DEFINE D == {vTs - y : y \in vers}
  <2>. HIDE DEF vers
  <2>3. D \in SUBSET Nat /\ D # {}
    BY <1>3, <2>1, <2>2
  <2>4. PICK m \in D : \A y \in D : m <= y
    <3>. HIDE DEF D
    <3>. QED BY <2>3, Least
  <2>5. PICK v \in vers : m = vTs - v
    OBVIOUS
  <2>6. \A y \in vers : y <= v
    <3>. SUFFICES ASSUME NEW y \in vers PROVE y <= v
      OBVIOUS
    <3>1. vTs - y \in D
      OBVIOUS
    <3>2. vTs - v <= vTs - y
      BY <2>4, <2>5, <3>1
    <3>. QED BY <2>1, <2>2, <3>2
  <2>7. PICK r \in S : \E d \in content(tree, r) : d.key = k /\ d.ver <= asOf /\ d.ver = v
    BY <1>1
  <2>8. holds(tree, r, v, k)
    BY <2>7 DEF holds
  <2>9. PICK s \in S : isFirst(tree, S, s, v, k)
    BY <2>8, FirstExists
  <2>10. PICK c \in content(tree, s) : c.key = k /\ c.ver = v
    BY <2>9 DEF isFirst, holds
  <2>11. \A q \in S : \A e \in content(tree, q) : e.key = k /\ e.ver <= asOf => e.ver <= c.ver
    BY <1>1, <2>6, <2>10
  <2>12. foundIn(S, k, asOf, s, c)
    BY <2>7, <2>9, <2>10, <2>11 DEF foundIn
  <2>. QED BY <2>12, FoundIs
<1>. QED BY <1>2, <1>3

-----------------------------------------------------------------------------
(* Where Get looks: everywhere but in level 99 after a hit in level 98.    *)
looksIn(k, asOf) == memsOf(nFlushed + 1, Len(mems)) \cup levelsFor(tree, k, asOf)

LEMMA VgetIs == \A k, asOf : vget(k, asOf) = found(tree, looksIn(k, asOf), k, asOf)
BY DEF vget, looksIn

LEMMA LooksIn ==
  ASSUME VlogTyped, NEW k, NEW asOf
  PROVE  /\ looksIn(k, asOf) \subseteq sourcesNow
         /\ \A s \in sourcesNow : s \notin looksIn(k, asOf) =>
              s.tier = "l99" /\ \E r, h : has(r, h) /\ r.tier = "l98" /\ h.key = k /\ h.ver <= asOf
         /\ \A s \in sourcesNow : s.tier = "l98" => s \in looksIn(k, asOf)
<1>. DEFINE none == hits(tree, tablesOf(tree, "l98"), k, asOf) = {}
<1>1. levelsFor(tree, k, asOf) = UNION {tablesOf(tree, p) : p \in IF none THEN Places ELSE Places \ {"l99"}}
  BY DEF levelsFor
<1>2. looksIn(k, asOf) \subseteq sourcesNow
  BY <1>1 DEF looksIn, sourcesNow
<1>3. \A p \in Places : \A s \in tablesOf(tree, p) : s.tier = p /\ s \in sourcesNow
  BY DEF tablesOf, sourcesNow
<1>4. ~ none => \E r, h : has(r, h) /\ r.tier = "l98" /\ h.key = k /\ h.ver <= asOf
  <2>. SUFFICES ASSUME ~ none PROVE \E r, h : has(r, h) /\ r.tier = "l98" /\ h.key = k /\ h.ver <= asOf
    OBVIOUS
  <2>1. PICK r \in tablesOf(tree, "l98") : \E h \in content(tree, r) : h.key = k /\ h.ver <= asOf
    BY DEF hits, copiesIn
  <2>2. "l98" \in Places
    BY DEF Places
  <2>. QED BY <1>3, <2>1, <2>2 DEF has
<1>5. ASSUME NEW s \in sourcesNow, s \notin looksIn(k, asOf) PROVE s.tier = "l99" /\ ~ none
  <2>1. PICK p \in Places : s \in tablesOf(tree, p)
    BY <1>5 DEF looksIn, sourcesNow
  <2>2. p = "l99" /\ ~ none
    BY <1>1, <1>5, <2>1 DEF looksIn
  <2>. QED BY <1>3, <2>1, <2>2
<1>. HIDE DEF none
<1>6. "l98" # "l99"
  OBVIOUS
<1>. QED BY <1>2, <1>4, <1>5, <1>6

(* The first copy of a settled version is in a place where Get looks, if   *)
(* no version that is newer, but not too new, is there.                    *)
LEMMA FirstIsLookedAt ==
  ASSUME VlogTyped, VersionsAgree, TiersApart, VersionsRise,
         NEW s, NEW c, has(s, c), c.key \notin upset, c.kind = "put",
         isFirst(tree, sourcesNow, s, c.ver, c.key), NEW asOf, c.ver <= asOf,
         \A r \in looksIn(c.key, asOf) : \A d \in content(tree, r) :
            d.key = c.key /\ d.ver <= asOf => d.ver <= c.ver
  PROVE  s \in looksIn(c.key, asOf)
<1>. SUFFICES ASSUME s \notin looksIn(c.key, asOf) PROVE FALSE
  OBVIOUS
<1>1. s \in sourcesNow /\ c \in content(tree, s)
  BY DEF has
<1>2. s.tier = "l99"
  BY <1>1, LooksIn
<1>3. PICK r, h : has(r, h) /\ r.tier = "l98" /\ h.key = c.key /\ h.ver <= asOf
  BY <1>1, LooksIn
<1>4. r \in sourcesNow /\ h \in content(tree, r) /\ r \in looksIn(c.key, asOf)
  BY <1>3, LooksIn DEF has
<1>5. h.ver <= c.ver
  BY <1>3, <1>4
<1>6. c \in Copy /\ h \in Copy
  BY <1>3, HasTyped
<1>7. goesHot(c) /\ goesHot(h)
  <2>1. h.kind = "put" => h.key \in heat
    BY <1>3, <1>4 DEF TiersApart, isHotSource
  <2>2. c.kind = "put" => c.key \in heat
    BY <1>1, <1>2 DEF TiersApart, isHotSource
  <2>. QED BY <1>6, <2>1, <2>2, CopyFacts DEF goesHot
<1>8. earlier(r, s)
  BY <1>2, <1>3 DEF earlier, rank
<1>9. h.ver >= c.ver
  BY <1>1, <1>2, <1>3, <1>4, <1>7, <1>8 DEF VersionsRise, isHotSource
<1>10. h.ver = c.ver
  BY <1>5, <1>6, <1>9, CopyFacts
<1>11. holds(tree, r, c.ver, c.key)
  BY <1>3, <1>4, <1>10 DEF holds
<1>. QED BY <1>4, <1>8, <1>11 DEF isFirst

(* GC finds a live entry: the first copy of a settled version is the one   *)
(* that a lookup at this version returns.                                  *)
LEMMA FirstIsFound ==
  ASSUME VlogTyped, VersionsAgree, TiersApart, VersionsRise,
         NEW s, NEW c, has(s, c), c.key \notin upset, c.kind = "put",
         isFirst(tree, sourcesNow, s, c.ver, c.key)
  PROVE  vget(c.key, c.ver) = c
<1>1. c \in Copy
  BY HasTyped
<1>2. c.ver \in Nat
  BY <1>1, CopyFacts
<1>3. looksIn(c.key, c.ver) \subseteq sourcesNow
  BY LooksIn
<1>4. s \in looksIn(c.key, c.ver)
  BY <1>2, FirstIsLookedAt
<1>5. isFirst(tree, looksIn(c.key, c.ver), s, c.ver, c.key)
  BY <1>3, <1>4 DEF isFirst
<1>6. foundIn(looksIn(c.key, c.ver), c.key, c.ver, s, c)
  BY <1>2, <1>4, <1>5 DEF foundIn, has
<1>. QED BY <1>3, <1>6, FoundIs, VgetIs

(* What Get finds of a settled key can be read.                            *)
LEMMA InvariantSettles == VlogInv => NoDanglingReadSettled
<1>. SUFFICES ASSUME VlogInv, NEW k \in VKeys \ upset, ~ readable(vget(k, vTs)) PROVE FALSE
  BY DEF NoDanglingReadSettled
<1>. VlogTyped /\ VersionsAgree /\ TiersApart /\ VersionsRise /\ LostAreHidden
  BY DEF VlogInv
<1>. DEFINE S == looksIn(k, vTs)
<1>0. S \subseteq sourcesNow
  BY LooksIn
<1>1. vget(k, vTs) # None
  BY DEF readable, None
<1>2. PICK s, c : foundIn(S, k, vTs, s, c) /\ vget(k, vTs) = c
  BY <1>0, <1>1, FoundFrom, VgetIs
<1>3. s \in sourcesNow /\ has(s, c) /\ c.key = k /\ c.ver <= vTs /\ s \in S
  BY <1>0, <1>2 DEF foundIn, has
<1>4. c \in Copy /\ c.kind = "put" /\ isLost(c)
  <2>1. c \in Copy
    BY <1>3, HasTyped
  <2>2. c.kind = "put"
    BY <1>2 DEF readable
  <2>. QED BY <1>2, <2>1, <2>2 DEF isLost
<1>. HIDE DEF S
<1>5. isFirst(tree, sourcesNow, s, c.ver, k)
  <2>. SUFFICES ASSUME ~ isFirst(tree, sourcesNow, s, c.ver, k) PROVE FALSE
    OBVIOUS
  <2>1. holds(tree, s, c.ver, k)
    BY <1>3 DEF holds, has
  <2>2. PICK r \in sourcesNow : earlier(r, s) /\ holds(tree, r, c.ver, k)
    BY <1>3, <2>1 DEF isFirst
  <2>3. PICK q \in sourcesNow : isFirst(tree, sourcesNow, q, c.ver, k)
    BY <2>2, FirstExists
  <2>4. PICK d \in content(tree, q) : d.key = k /\ d.ver = c.ver
    BY <2>3 DEF isFirst, holds
  <2>5. has(q, d) /\ d.kind = "put"
    <3>1. has(q, d)
      BY <2>4 DEF has
    <3>2. d \in copiesNow /\ c \in copiesNow
      BY <1>3, <3>1, HasIs DEF hasIs
    <3>. QED BY <1>3, <1>4, <2>4, <3>1, <3>2 DEF VersionsAgree
  <2>6. \A x \in S : \A e \in content(tree, x) : e.key = d.key /\ e.ver <= vTs => e.ver <= d.ver
    BY <1>2, <2>4 DEF foundIn
  <2>7. q \in S
    <3>1. S = looksIn(d.key, vTs)
      BY <2>4 DEF S
    <3>2. d.key \notin upset /\ d.ver <= vTs /\ isFirst(tree, sourcesNow, q, d.ver, d.key)
      BY <1>3, <2>3, <2>4
    <3>. QED BY <2>5, <2>6, <3>1, <3>2, FirstIsLookedAt
  <2>8. isSource(q) /\ isSource(s) /\ isSource(r)
    BY <1>3, SourcesAre DEF sourcesAre
  <2>9. earlier(q, r) \/ q = r
    BY <2>2, <2>3, <2>8, EarlierOrder DEF isFirst
  <2>10. earlier(q, s)
    BY <2>2, <2>8, <2>9, EarlierOrder
  <2>11. holds(tree, q, c.ver, k)
    BY <2>3 DEF isFirst
  <2>. QED BY <1>2, <2>7, <2>10, <2>11 DEF foundIn, isFirst
<1>6. s.tier = "base" /\ \E d \in copiesNow : d.key = k /\ d.ver > c.ver
  BY <1>3, <1>4, <1>5 DEF LostAreHidden, has
<1>7. PICK x, d : has(x, d) /\ d.key = k /\ d.ver > c.ver
  BY <1>6, HasIs DEF hasIs
<1>8. d.ver \in 1 .. vTs /\ c.ver \in 1 .. vTs /\ d \in Copy
  BY <1>3, <1>7, VersionBound
<1>9. x \notin S
  <2>1. x \in S => d.ver <= c.ver
    BY <1>2, <1>7, <1>8 DEF foundIn, has
  <2>. QED BY <1>7, <1>8, <2>1
<1>10. x \in sourcesNow /\ d \in content(tree, x)
  BY <1>7 DEF has
<1>11. x.tier = "l99"
  BY <1>9, <1>10, LooksIn DEF S
<1>12. PICK r, h : has(r, h) /\ r.tier = "l98" /\ h.key = k /\ h.ver <= vTs
  BY <1>9, <1>10, LooksIn DEF S
<1>13. r \in sourcesNow /\ h \in content(tree, r) /\ r \in S
  BY <1>12, LooksIn DEF S, has
<1>14. h.ver <= c.ver /\ h \in Copy
  BY <1>2, <1>12, <1>13, HasTyped DEF foundIn
<1>15. goesHot(d) /\ goesHot(h)
  <2>1. h.kind = "put" => h.key \in heat
    BY <1>12, <1>13 DEF TiersApart, isHotSource
  <2>2. d.kind = "put" => d.key \in heat
    BY <1>7, <1>10, <1>11 DEF TiersApart, isHotSource
  <2>. QED BY <1>8, <1>14, <2>1, <2>2, CopyFacts DEF goesHot
<1>16. earlier(r, x)
  BY <1>11, <1>12 DEF earlier, rank
<1>17. h.ver >= d.ver
  BY <1>7, <1>10, <1>11, <1>12, <1>13, <1>15, <1>16 DEF VersionsRise, isHotSource
<1>. QED BY <1>7, <1>8, <1>14, <1>17, CopyFacts

(* The invariant, said of the copies that each place has.                  *)
same(c, d) == c.key = d.key /\ c.ver = d.ver
firstAt(s, c) == \A r, d : has(r, d) /\ earlier(r, s) => ~ same(d, c)
newerThan(c) == \E r, d : has(r, d) /\ d.key = c.key /\ d.ver > c.ver

madeBy ==
  /\ \A s, c : has(s, c) => c.ver <= newest[c.key].ver
  /\ \A s, c, d : has(s, c) /\ has(s, d) /\ same(c, d) => c = d
  /\ \A r, s, c, d : has(r, c) /\ has(s, d) /\ same(c, d) => c.kind = d.kind
  /\ \A f \in DOMAIN files : \A i \in DOMAIN files[f] : files[f][i].ver <= newest[files[f][i].key].ver
  /\ \A f \in DOMAIN files : \A i \in DOMAIN files[f] : \A s, c : has(s, c) /\ same(c, files[f][i]) => c.kind = "put"

apartBy ==
  \A s, c : has(s, c) /\ c.key \notin upset /\ c.kind = "put" =>
    (isHotSource(s) => c.key \in heat) /\ (s.tier = "l0" => c.key \notin heat)

onHotPath(s) == s.tier = "mem" \/ isHotSource(s)
riseBy ==
  \A r, s, c, d : has(r, c) /\ has(s, d) /\ onHotPath(r) /\ onHotPath(s) /\ earlier(r, s)
      /\ c.key = d.key /\ c.key \notin upset /\ goesHot(c) /\ goesHot(d) => c.ver >= d.ver

hiddenBy ==
  \A s, c : has(s, c) /\ c.key \notin upset /\ isLost(c) /\ firstAt(s, c) => s.tier = "base" /\ newerThan(c)

heldBy == madeBy /\ apartBy /\ riseBy /\ hiddenBy
heldInv == VersionsAgree /\ TiersApart /\ VersionsRise /\ LostAreHidden

heldForms == VlogTyped => (heldInv <=> heldBy)

LEMMA HeldForms == heldForms
<1>. SUFFICES ASSUME VlogTyped PROVE heldInv <=> heldBy
  BY DEF heldForms
<1>1. \A c : c \in copiesNow <=> \E s : has(s, c)
  BY HasIs DEF hasIs
<1>2. VersionsAgree <=> madeBy
  BY <1>1 DEF VersionsAgree, madeBy, has, same
<1>3. TiersApart <=> apartBy
  BY DEF TiersApart, apartBy, has
<1>4. VersionsRise <=> riseBy
  BY DEF VersionsRise, riseBy, onHotPath, has
<1>5. \A s, c : has(s, c) => (isFirst(tree, sourcesNow, s, c.ver, c.key) <=> firstAt(s, c))
  BY DEF has, isFirst, holds, firstAt, same
<1>6. \A c : newerThan(c) <=> \E d \in copiesNow : d.key = c.key /\ d.ver > c.ver
  BY <1>1 DEF newerThan
<1>7. LostAreHidden <=> hiddenBy
  BY <1>5, <1>6 DEF LostAreHidden, hiddenBy, has
<1>. QED BY <1>2, <1>3, <1>4, <1>7 DEF heldInv, heldBy

LEMMA HeldFormsNext == heldForms'
BY HeldForms, PTL

-----------------------------------------------------------------------------
(* Steps that leave every copy where it is.                                *)
filesKept == \A f \in DOMAIN files' : f \in DOMAIN files /\ files'[f] = files[f]
heatKept == upset \subseteq upset' /\ \A k : k \notin upset' => (k \in heat' <=> k \in heat)
copiesKept == \A s, c : has(s, c)' <=> has(s, c)

LEMMA StillHeld ==
  ASSUME heldBy, copiesKept, filesKept, heatKept, newest' = newest,
         \A s, c : has(s, c) /\ c.key \notin upset' /\ isLost(c)' /\ firstAt(s, c) => isLost(c)
  PROVE  heldBy'
<1>1. madeBy'
  BY DEF heldBy, madeBy, copiesKept, filesKept
<1>2. apartBy'
  BY DEF heldBy, apartBy, copiesKept, heatKept
<1>3. riseBy'
  BY DEF heldBy, riseBy, copiesKept, heatKept, goesHot
<1>4. \A s, c : firstAt(s, c)' <=> firstAt(s, c)
  BY DEF firstAt, copiesKept
<1>5. \A c : newerThan(c)' <=> newerThan(c)
  BY DEF newerThan, copiesKept
<1>6. hiddenBy'
  <2>. SUFFICES ASSUME NEW s, NEW c, has(s, c)', c.key \notin upset', isLost(c)', firstAt(s, c)'
                PROVE  s.tier = "base" /\ newerThan(c)'
    BY DEF hiddenBy
  <2>1. has(s, c) /\ c.key \notin upset /\ firstAt(s, c)
    BY <1>4 DEF copiesKept, heatKept
  <2>2. isLost(c)
    BY <2>1
  <2>. QED BY <1>5, <2>1, <2>2 DEF heldBy, hiddenBy
<1>. QED BY <1>1, <1>2, <1>3, <1>6 DEF heldBy

keepBy == VlogTyped /\ FilesMade /\ GcMade /\ heldBy
keepForms == VlogInv <=> keepBy

LEMMA KeepForms == keepForms
BY HeldForms DEF keepForms, keepBy, VlogInv, heldForms, heldInv

LEMMA KeepFormsNext == keepForms'
BY KeepForms, PTL

(* What GC and the iterators hold.                                         *)
LEMMA GcFacts ==
  ASSUME GcMade, gc # NoGC
  PROVE  /\ gc.phase \in {"scan", "delete"} /\ gc.fid \in DOMAIN files /\ gc.pos \in Nat /\ gc.pos > 0
         /\ gc.wb \in Seq(WbEntry) /\ isOld(gc.fid) /\ gc.fid \notin filesToBeDeleted
         /\ \A j \in DOMAIN gc.wb : \E i \in DOMAIN files[gc.fid] :
              files[gc.fid][i] = [key |-> gc.wb[j].key, ver |-> gc.wb[j].ver]
BY DEF GcMade

LEMMA ActiveIsNotOld == FilesMade => ~ isOld(maxFid) /\ ~ isOld(hotMaxFid)
<1>. SUFFICES ASSUME FilesMade PROVE ~ isOld(maxFid) /\ ~ isOld(hotMaxFid)
  OBVIOUS
<1>0. maxFid \in 1 .. HotVlogFidMask /\ hotMaxFid \in Nat /\ isHotVlog(hotMaxFid)
  BY DEF FilesMade
<1>1. maxFid \in Int /\ maxFid <= 100 /\ hotMaxFid \in Int /\ hotMaxFid > 100
  BY <1>0 DEF isHotVlog, HotVlogFidMask
<1>2. ~ isHotVlog(maxFid) /\ isHotVlog(hotMaxFid)
  BY <1>1 DEF isHotVlog, HotVlogFidMask
<1>. QED BY <1>1, <1>2 DEF isOld

LEMMA CopiesSame ==
  ASSUME UNCHANGED <<mems, nFlushed, tree>>
  PROVE  copiesKept
BY DEF copiesKept, has, sourcesNow, memsOf, tablesOf, content

iterTyped(it) == it = NoIter \/ ("ts" \in DOMAIN it /\ it.ts \in Nat)

(* A step of an iterator, of which the rest takes no notice.               *)
LEMMA IterStepKeeps ==
  ASSUME keepBy, DOMAIN iters' = Iterators, \A i \in Iterators : iterTyped(iters'[i]),
         UNCHANGED <<vTs, heat, treeVars, fileVars, filesToBeDeleted, gc, newest, upset>>
  PROVE  keepBy'
<1>1. VlogTyped'
  BY DEF keepBy, VlogTyped, treeVars, iterTyped
<1>2. FilesMade' /\ GcMade'
  BY DEF keepBy, FilesMade, GcMade, fileVars, isOld, isActive, isHotVlog
<1>3. copiesKept
  BY CopiesSame DEF treeVars
<1>4. filesKept /\ heatKept
  BY DEF filesKept, heatKept, fileVars
<1>5. \A c : isLost(c)' <=> isLost(c)
  BY DEF isLost, readable, fileVars
<1>6. heldBy'
  BY <1>3, <1>4, <1>5, StillHeld DEF keepBy
<1>. QED BY <1>1, <1>2, <1>6 DEF keepBy

LEMMA IteratorMemsKeeps == ASSUME NEW i \in Iterators, keepBy, newIteratorMems(i) PROVE keepBy'
<1>1. DOMAIN iters = Iterators /\ (\A j \in Iterators : iterTyped(iters[j])) /\ vTs \in Nat
  BY DEF keepBy, VlogTyped, iterTyped
<1>2. DOMAIN iters' = Iterators /\ \A j \in Iterators : iterTyped(iters'[j])
  BY <1>1 DEF newIteratorMems, iterTyped
<1>. QED BY <1>2, IterStepKeeps DEF newIteratorMems

LEMMA IteratorTablesKeeps == ASSUME NEW i \in Iterators, keepBy, newIteratorTables(i) PROVE keepBy'
<1>1. DOMAIN iters = Iterators /\ (\A j \in Iterators : iterTyped(iters[j]))
  BY DEF keepBy, VlogTyped, iterTyped
<1>2. iters[i] # NoIter
  BY DEF newIteratorTables, NoIter
<1>3. "ts" \in DOMAIN iters[i] /\ iters[i].ts \in Nat
  BY <1>1, <1>2 DEF iterTyped
<1>4. iters' = [iters EXCEPT ![i] = [[iters[i] EXCEPT !.phase = "open"] EXCEPT !.tables = tree]]
  BY <1>1 DEF newIteratorTables
<1>5. \A j \in Iterators : iterTyped(iters'[j])
  <2>1. iters'[i] = [[iters[i] EXCEPT !.phase = "open"] EXCEPT !.tables = tree]
    BY <1>1, <1>4
  <2>2. PICK it : it = [iters[i] EXCEPT !.phase = "open"]
    OBVIOUS
  <2>3. DOMAIN it = DOMAIN iters[i] /\ it.ts = iters[i].ts
    BY <1>3, <2>2
  <2>4. iters'[i] = [it EXCEPT !.tables = tree]
    BY <2>1, <2>2
  <2>5. iterTyped(iters'[i])
    BY <1>3, <2>3, <2>4 DEF iterTyped
  <2>6. \A j \in Iterators : j # i => iters'[j] = iters[j]
    BY <1>1, <1>4
  <2>. QED BY <1>1, <2>5, <2>6
<1>6. DOMAIN iters' = Iterators
  BY <1>1, <1>4
<1>. QED BY <1>5, <1>6, IterStepKeeps DEF newIteratorTables

LEMMA IteratorCloseKeeps == ASSUME NEW i \in Iterators, keepBy, decrIteratorCount(i) PROVE keepBy'
<1>1. DOMAIN iters = Iterators /\ (\A j \in Iterators : iterTyped(iters[j])) /\ vTs \in Nat
  BY DEF keepBy, VlogTyped, iterTyped
<1>2. PICK it : iters' = [iters EXCEPT ![i] = it] /\ (it = NoIter \/ it = [phase |-> "last", ts |-> vTs])
  BY DEF decrIteratorCount
<1>3. iterTyped(it)
  BY <1>1, <1>2 DEF iterTyped
<1>4. DOMAIN iters' = Iterators /\ \A j \in Iterators : iterTyped(iters'[j])
  BY <1>1, <1>2, <1>3
<1>. QED BY <1>4, IterStepKeeps DEF decrIteratorCount

-----------------------------------------------------------------------------
(* Steps that only delete files which nothing needs.                       *)
LEMMA DeletionKeeps ==
  ASSUME keepBy, NEW F, files' = [f \in DOMAIN files \ F |-> files[f]], \A f \in F : f \in Nat /\ isOld(f),
         \A f \in filesToBeDeleted' : f \in Nat /\ isOld(f),
         gc' = NoGC \/ (gc' = gc /\ gc.fid \notin F /\ gc.fid \notin filesToBeDeleted'),
         \A c : c.kind = "put" /\ c.fid \in F \cup filesToBeDeleted' => isLost(c),
         DOMAIN iters' = Iterators, \A i \in Iterators : iterTyped(iters'[i]),
         UNCHANGED <<vTs, heat, treeVars, maxFid, hotMaxFid, newest, upset>>
  PROVE  keepBy'
<1>1. VlogTyped'
  BY DEF keepBy, VlogTyped, treeVars, iterTyped
<1>2. FilesMade'
  <2>1. FilesMade
    BY DEF keepBy
  <2>2. maxFid \notin F /\ hotMaxFid \notin F
    BY <2>1, ActiveIsNotOld
  <2>3. DOMAIN files' = DOMAIN files \ F /\ \A f \in DOMAIN files' : files'[f] = files[f]
    OBVIOUS
  <2>4. \A f : (isOld(f)' <=> isOld(f)) /\ (isActive(f)' <=> isActive(f))
    BY DEF isOld, isActive, isHotVlog
  <2>5. \A f \in DOMAIN files' : f \in Nat /\ files'[f] \in Seq(Entry) /\ (isOld(f)' \/ isActive(f)')
    BY <2>1, <2>3, <2>4 DEF FilesMade
  <2>9. files' \in [DOMAIN files' -> Seq(Entry)]
    BY <2>5
  <2>6. \A f \in filesToBeDeleted' : f \in Nat /\ isOld(f)'
    BY <2>4
  <2>7. {maxFid', hotMaxFid'} \subseteq DOMAIN files'
    BY <2>1, <2>2, <2>3 DEF FilesMade
  <2>8. maxFid' \in 1 .. HotVlogFidMask /\ hotMaxFid' \in Nat /\ isHotVlog(hotMaxFid)'
    BY <2>1 DEF FilesMade, isHotVlog
  <2>. QED BY <2>5, <2>6, <2>7, <2>8, <2>9 DEF FilesMade
<1>3. GcMade'
  <2>1. CASE gc' = NoGC
    BY <2>1 DEF GcMade
  <2>2. CASE gc' # NoGC
    <3>1. gc' = gc /\ gc.fid \notin F /\ gc.fid \notin filesToBeDeleted' /\ gc # NoGC
      BY <2>2
    <3>2. GcMade
      BY DEF keepBy
    <3>3. /\ gc \in [phase : {"scan", "delete"}, fid : DOMAIN files, pos : Nat \ {0}, wb : Seq(WbEntry)]
          /\ isOld(gc.fid)
          /\ \A j \in DOMAIN gc.wb : \E i \in DOMAIN files[gc.fid] :
               files[gc.fid][i] = [key |-> gc.wb[j].key, ver |-> gc.wb[j].ver]
      BY <3>1, <3>2 DEF GcMade
    <3>4. gc.fid \in DOMAIN files' /\ files'[gc.fid] = files[gc.fid]
      BY <3>1, <3>3
    <3>5. gc \in [phase : {"scan", "delete"}, fid : DOMAIN files', pos : Nat \ {0}, wb : Seq(WbEntry)]
      BY <3>3, <3>4
    <3>6. isOld(gc.fid)'
      BY <3>1, <3>3 DEF isOld, isHotVlog
    <3>7. \A j \in DOMAIN gc.wb : \E i \in DOMAIN files'[gc.fid] :
               files'[gc.fid][i] = [key |-> gc.wb[j].key, ver |-> gc.wb[j].ver]
      BY <3>3, <3>4
    <3>. QED BY <3>1, <3>5, <3>6, <3>7 DEF GcMade
  <2>. QED BY <2>1, <2>2
<1>4. copiesKept
  BY CopiesSame DEF treeVars
<1>5. filesKept /\ heatKept
  BY DEF filesKept, heatKept
<1>6. ASSUME NEW c, isLost(c)' PROVE isLost(c)
  <2>1. CASE c.fid \in F \cup filesToBeDeleted'
    BY <1>6, <2>1 DEF isLost
  <2>2. CASE c.fid \notin F \cup filesToBeDeleted'
    <3>1. c.fid \in DOMAIN files' <=> c.fid \in DOMAIN files
      BY <2>2
    <3>2. c.fid \in DOMAIN files => files'[c.fid] = files[c.fid]
      BY <2>2
    <3>3. readable(c)' <=> readable(c)
      BY <3>1, <3>2 DEF readable
    <3>. QED BY <1>6, <2>2, <3>3 DEF isLost
  <2>. QED BY <2>1, <2>2
<1>7. heldBy'
  BY <1>4, <1>5, <1>6, StillHeld DEF keepBy
<1>. QED BY <1>1, <1>2, <1>3, <1>7 DEF keepBy

LEMMA DeleteLogFileKeeps == ASSUME keepBy, deleteLogFile PROVE keepBy'
<1>1. gc # NoGC /\ gc.phase = "delete" /\ gc' = NoGC
  BY DEF deleteLogFile, NoGC
<1>2. gc.fid \in DOMAIN files /\ isOld(gc.fid) /\ gc.fid \in Nat
  BY <1>1, GcFacts DEF keepBy, FilesMade
<1>3. \A c : c.kind = "put" /\ c.fid \in {gc.fid} \cup filesToBeDeleted => isLost(c)
  BY <1>1 DEF isLost
<1>4. DOMAIN iters = Iterators /\ (\A j \in Iterators : iterTyped(iters[j]))
  BY DEF keepBy, VlogTyped, iterTyped
<1>5. \A f \in filesToBeDeleted : f \in Nat /\ isOld(f)
  BY DEF keepBy, FilesMade
<1>6. UNCHANGED <<vTs, heat, treeVars, maxFid, hotMaxFid, newest, upset>>
  BY DEF deleteLogFile
<1>7. CASE deleteNow
  <2>1. files' = [f \in DOMAIN files \ {gc.fid} |-> files[f]] /\ filesToBeDeleted' = filesToBeDeleted
    BY <1>7 DEF deleteNow, removeFiles
  <2>2. DOMAIN iters' = Iterators /\ \A j \in Iterators : iterTyped(iters'[j])
    <3>1. iters' = [i \in Iterators |-> IF iters[i].phase = "mems" THEN [iters[i] EXCEPT !.clean = FALSE]
                                                                ELSE iters[i]]
      BY <1>7 DEF deleteNow
    <3>. SUFFICES ASSUME NEW j \in Iterators PROVE iterTyped(iters'[j])
      BY <3>1
    <3>2. CASE iters[j].phase = "mems"
      <4>1. iters[j] # NoIter
        BY <3>2 DEF NoIter
      <4>. QED BY <1>4, <3>1, <3>2, <4>1 DEF iterTyped
    <3>3. CASE iters[j].phase # "mems"
      BY <1>4, <3>1, <3>3
    <3>. QED BY <3>2, <3>3
  <2>. QED BY <1>1, <1>2, <1>3, <1>5, <1>6, <2>1, <2>2, DeletionKeeps
<1>8. CASE UNCHANGED <<files, iters>> /\ filesToBeDeleted' = filesToBeDeleted \cup {gc.fid}
  <2>1. files' = [f \in DOMAIN files \ {} |-> files[f]]
    <3>1. files = [f \in DOMAIN files |-> files[f]]
      BY DEF keepBy, FilesMade
    <3>. QED BY <1>8, <3>1
  <2>2. DOMAIN iters' = Iterators /\ \A j \in Iterators : iterTyped(iters'[j])
    BY <1>4, <1>8
  <2>3. \A c : c.kind = "put" /\ c.fid \in {} \cup filesToBeDeleted' => isLost(c)
    BY <1>3, <1>8
  <2>4. \A f \in filesToBeDeleted' : f \in Nat /\ isOld(f)
    BY <1>2, <1>5, <1>8
  <2>. DEFINE none == {}
  <2>5. files' = [f \in DOMAIN files \ none |-> files[f]] /\ \A f \in none : f \in Nat /\ isOld(f)
    BY <2>1
  <2>6. \A c : c.kind = "put" /\ c.fid \in none \cup filesToBeDeleted' => isLost(c)
    BY <2>3
  <2>. HIDE DEF none
  <2>. QED BY <1>1, <1>6, <2>2, <2>4, <2>5, <2>6, DeletionKeeps
<1>. QED BY <1>7, <1>8 DEF deleteLogFile

LEMMA DeleteWaitingKeeps == ASSUME NEW i \in Iterators, keepBy, deleteWaiting(i) PROVE keepBy'
<1>1. files' = [f \in DOMAIN files \ filesToBeDeleted |-> files[f]] /\ filesToBeDeleted' = {} /\ gc' = gc
  BY DEF deleteWaiting, removeFiles
<1>2. \A f \in filesToBeDeleted : f \in Nat /\ isOld(f)
  BY DEF keepBy, FilesMade
<1>3. gc' = NoGC \/ (gc' = gc /\ gc.fid \notin filesToBeDeleted /\ gc.fid \notin filesToBeDeleted')
  BY <1>1, GcFacts DEF keepBy
<1>4. \A c : c.kind = "put" /\ c.fid \in filesToBeDeleted \cup filesToBeDeleted' => isLost(c)
  BY <1>1 DEF isLost
<1>5. DOMAIN iters = Iterators /\ (\A j \in Iterators : iterTyped(iters[j]))
  BY DEF keepBy, VlogTyped, iterTyped
<1>6. DOMAIN iters' = Iterators /\ \A j \in Iterators : iterTyped(iters'[j])
  <2>1. iters' = [j \in Iterators |->
                 IF j = i THEN NoIter
                 ELSE IF iters[j].phase \in {"mems", "open"} /\ filesToBeDeleted # {}
                      THEN [iters[j] EXCEPT !.clean = FALSE] ELSE iters[j]]
    BY DEF deleteWaiting
  <2>. SUFFICES ASSUME NEW j \in Iterators PROVE iterTyped(iters'[j])
    BY <2>1
  <2>2. CASE iters[j].phase \in {"mems", "open"}
    <3>1. iters[j] # NoIter
      BY <2>2 DEF NoIter
    <3>. QED BY <1>5, <2>1, <2>2, <3>1 DEF iterTyped
  <2>3. CASE iters[j].phase \notin {"mems", "open"}
    <3>1. iters'[j] = NoIter \/ iters'[j] = iters[j]
      BY <2>1, <2>3
    <3>. QED BY <1>5, <3>1 DEF iterTyped
  <2>. QED BY <2>2, <2>3
<1>7. UNCHANGED <<vTs, heat, treeVars, maxFid, hotMaxFid, newest, upset>>
  BY DEF deleteWaiting
<1>8. \A f \in filesToBeDeleted' : f \in Nat /\ isOld(f)
  BY <1>1
<1>. QED BY <1>1, <1>2, <1>3, <1>4, <1>6, <1>7, <1>8, DeletionKeeps

(* Copies stay where they are if they do so in each memtable and table.    *)
LEMMA CopiesKeptIn ==
  ASSUME VlogTyped, VlogTyped',
         \A i, c : has(src("mem", i), c)' <=> has(src("mem", i), c),
         \A p \in Places : \A i, c : has(src(p, i), c)' <=> has(src(p, i), c)
  PROVE  copiesKept
<1>1. \A s, c : has(s, c) => isSource(s)
  BY HasIs DEF hasIs
<1>2. \A s, c : has(s, c)' => isSource(s)
  <2>1. hasIs'
    BY HasIsNext
  <2>. QED BY <2>1 DEF hasIs, isSource, src, Tiers
<1>3. \A s : isSource(s) => s = src("mem", s.n) \/ \E p \in Places : s = src(p, s.n)
  BY DEF isSource, Tiers
<1>4. ASSUME NEW s, NEW c, isSource(s) PROVE has(s, c)' <=> has(s, c)
  <2>1. CASE s = src("mem", s.n)
    <3>1. PICK i : s = src("mem", i)
      BY <2>1
    <3>2. has(src("mem", i), c)' <=> has(src("mem", i), c)
      OBVIOUS
    <3>. QED BY <3>1, <3>2
  <2>2. ASSUME NEW p \in Places, s = src(p, s.n) PROVE has(s, c)' <=> has(s, c)
    <3>1. PICK i : s = src(p, i)
      BY <2>2
    <3>2. has(src(p, i), c)' <=> has(src(p, i), c)
      OBVIOUS
    <3>. QED BY <3>1, <3>2
  <2>. QED BY <1>3, <1>4, <2>1, <2>2
<1>. QED BY <1>1, <1>2, <1>4 DEF copiesKept

LEMMA RotateKeeps == ASSUME keepBy, rotateMem PROVE keepBy'
<1>1. mems \in Seq(SUBSET Copy) /\ mems' = Append(mems, {}) /\ nFlushed' = nFlushed /\ tree' = tree
  BY DEF keepBy, VlogTyped, rotateMem
<1>2. /\ mems' \in Seq(SUBSET Copy) /\ Len(mems') = Len(mems) + 1 /\ Len(mems) \in Nat
      /\ mems'[Len(mems) + 1] = {} /\ \A i \in 1 .. Len(mems) : mems'[i] = mems[i]
  <2>1. {} \in SUBSET Copy
    OBVIOUS
  <2>. QED BY <1>1, <2>1
<1>3. VlogTyped'
  <2>1. VlogTyped
    BY DEF keepBy
  <2>2. nFlushed < Len(mems) => nFlushed < Len(mems')
    BY <1>2, <2>1 DEF VlogTyped
  <2>3. UNCHANGED <<vTs, heat, nFlushed, tree, l0run, iters, newest>>
    BY DEF rotateMem
  <2>. QED BY <1>2, <2>1, <2>2, <2>3 DEF VlogTyped
<1>4. copiesKept
  <2>1. VlogTyped
    BY DEF keepBy
  <2>2. hasIs /\ hasIs'
    BY <1>3, <2>1, HasIs, HasIsNext
  <2>3. nFlushed \in Nat
    BY <2>1 DEF VlogTyped
  <2>4. ASSUME NEW i, NEW c PROVE has(src("mem", i), c)' <=> has(src("mem", i), c)
    <3>1. has(src("mem", i), c)' <=> i \in nFlushed + 1 .. Len(mems') /\ c \in mems'[i]
      BY <1>1, <2>2 DEF hasIs
    <3>2. i \in nFlushed + 1 .. Len(mems') /\ c \in mems'[i] <=> i \in nFlushed + 1 .. Len(mems) /\ c \in mems[i]
      <4>1. i \in nFlushed + 1 .. Len(mems') <=> i \in nFlushed + 1 .. Len(mems) \/ (i = Len(mems) + 1 /\ nFlushed <= Len(mems))
        BY <1>2, <2>3
      <4>2. i \in nFlushed + 1 .. Len(mems) => i \in 1 .. Len(mems)
        BY <1>2, <2>3
      <4>3. ~ (Len(mems) + 1 \in nFlushed + 1 .. Len(mems))
        BY <1>2, <2>3
      <4>. QED BY <1>2, <4>1, <4>2, <4>3
    <3>. QED BY <2>2, <3>1, <3>2 DEF hasIs
  <2>5. ASSUME NEW p \in Places, NEW i, NEW c PROVE has(src(p, i), c)' <=> has(src(p, i), c)
    BY <1>1, <2>2 DEF hasIs
  <2>. QED BY <1>3, <2>1, <2>4, <2>5, CopiesKeptIn
<1>5. FilesMade' /\ GcMade'
  BY DEF keepBy, FilesMade, GcMade, fileVars, isOld, isActive, isHotVlog, rotateMem
<1>6. filesKept /\ heatKept /\ newest' = newest
  BY DEF filesKept, heatKept, fileVars, rotateMem
<1>7. \A c : isLost(c)' <=> isLost(c)
  BY DEF isLost, readable, fileVars, rotateMem
<1>8. heldBy'
  BY <1>4, <1>6, <1>7, StillHeld DEF keepBy
<1>. QED BY <1>3, <1>5, <1>8 DEF keepBy

LEMMA StartL0Keeps == ASSUME keepBy, startL0ToL0 PROVE keepBy'
<1>1. VlogTyped'
  <2>1. Len(tree["l0"]) \in Nat
    BY DEF keepBy, VlogTyped, Places
  <2>. QED BY <2>1 DEF keepBy, VlogTyped, startL0ToL0
<1>2. FilesMade' /\ GcMade'
  BY DEF keepBy, FilesMade, GcMade, fileVars, isOld, isActive, isHotVlog, startL0ToL0
<1>3. copiesKept
  BY CopiesSame DEF startL0ToL0
<1>4. filesKept /\ heatKept /\ newest' = newest
  BY DEF filesKept, heatKept, fileVars, startL0ToL0
<1>5. \A c : isLost(c)' <=> isLost(c)
  BY DEF isLost, readable, fileVars, startL0ToL0
<1>6. heldBy'
  BY <1>3, <1>4, <1>5, StillHeld DEF keepBy
<1>. QED BY <1>1, <1>2, <1>6 DEF keepBy

LEMMA ChangeHeatKeeps == ASSUME NEW k \in VKeys, keepBy, changeHeat(k) PROVE keepBy'
<1>1. VlogTyped'
  BY DEF keepBy, VlogTyped, changeHeat, treeVars
<1>2. FilesMade' /\ GcMade'
  BY DEF keepBy, FilesMade, GcMade, fileVars, isOld, isActive, isHotVlog, changeHeat
<1>3. copiesKept
  BY CopiesSame DEF changeHeat, treeVars
<1>4. filesKept /\ heatKept /\ newest' = newest
  BY DEF filesKept, heatKept, fileVars, changeHeat
<1>5. \A c : isLost(c)' <=> isLost(c)
  BY DEF isLost, readable, fileVars, changeHeat
<1>6. heldBy'
  BY <1>3, <1>4, <1>5, StillHeld DEF keepBy
<1>. QED BY <1>1, <1>2, <1>6 DEF keepBy

LEMMA PickMissingKeeps == ASSUME keepBy, pickLogMissing PROVE keepBy'
<1>1. VlogTyped'
  BY DEF keepBy, VlogTyped, pickLogMissing, treeVars
<1>2. FilesMade' /\ GcMade'
  BY DEF keepBy, FilesMade, GcMade, fileVars, isOld, isActive, isHotVlog, pickLogMissing
<1>3. copiesKept
  BY CopiesSame DEF pickLogMissing, treeVars
<1>4. filesKept /\ heatKept /\ newest' = newest
  BY DEF filesKept, heatKept, fileVars, pickLogMissing
<1>5. \A c : isLost(c)' <=> isLost(c)
  BY DEF isLost, readable, fileVars, pickLogMissing
<1>6. heldBy'
  BY <1>3, <1>4, <1>5, StillHeld DEF keepBy
<1>. QED BY <1>1, <1>2, <1>6 DEF keepBy

-----------------------------------------------------------------------------
(* Steps of GC that change nothing but what it has read.                   *)
LEMMA GcStepKeeps ==
  ASSUME keepBy, UNCHANGED <<vTs, heat, treeVars, fileVars, filesToBeDeleted, iters, newest, upset>>, GcMade',
         \A s, c : has(s, c) /\ c.key \notin upset /\ isLost(c)' /\ firstAt(s, c) => isLost(c)
  PROVE  keepBy'
<1>1. VlogTyped'
  BY DEF keepBy, VlogTyped, treeVars
<1>2. FilesMade'
  BY DEF keepBy, FilesMade, fileVars, isOld, isActive, isHotVlog
<1>3. copiesKept
  BY CopiesSame DEF treeVars
<1>4. filesKept /\ heatKept /\ newest' = newest /\ upset' = upset
  BY DEF filesKept, heatKept, fileVars
<1>6. heldBy'
  BY <1>3, <1>4, StillHeld DEF keepBy
<1>. QED BY <1>1, <1>2, <1>6 DEF keepBy

(* A copy that GC has not lost is lost for another reason.                 *)
gcLoses(c) ==
  /\ gc # NoGC /\ c.fid = gc.fid
  /\ \/ gc.phase = "delete"
     \/ /\ c.off < gc.pos
        /\ \A j \in DOMAIN gc.wb : gc.wb[j] # [key |-> c.key, ver |-> c.ver, kind |-> "put"]

LEMMA LostBy ==
  ASSUME UNCHANGED <<fileVars, filesToBeDeleted>>, NEW c, isLost(c)'
  PROVE  isLost(c) \/ (gcLoses(c)' /\ c.kind = "put" /\ readable(c))
<1>1. readable(c)' <=> readable(c)
  BY DEF readable, fileVars
<1>. QED BY <1>1 DEF isLost, gcLoses

LEMMA RewriteErrorKeeps == ASSUME keepBy, rewriteError PROVE keepBy'
<1>1. UNCHANGED <<vTs, heat, treeVars, fileVars, filesToBeDeleted, iters, newest, upset>> /\ gc' = NoGC
  BY DEF rewriteError
<1>2. GcMade'
  BY <1>1 DEF GcMade
<1>3. \A c : isLost(c)' => isLost(c)
  BY <1>1, LostBy DEF gcLoses
<1>. QED BY <1>1, <1>2, <1>3, GcStepKeeps

LEMMA RunGCKeeps == ASSUME keepBy, runGC PROVE keepBy'
<1>1. UNCHANGED <<vTs, heat, treeVars, fileVars, filesToBeDeleted, iters, newest, upset>>
  BY DEF runGC
<1>2. PICK f : f = MaxDiscard
  OBVIOUS
<1>3. gc' = [phase |-> "scan", fid |-> f, pos |-> 1, wb |-> <<>>] /\ f \in DOMAIN files /\ ~ isActive(f) /\ f \notin filesToBeDeleted
  BY <1>2 DEF runGC
<1>4. isOld(f)
  BY <1>3 DEF keepBy, FilesMade
<1>5. GcMade'
  <2>1. gc' \in [phase : {"scan", "delete"}, fid : DOMAIN files, pos : Nat \ {0}, wb : Seq(WbEntry)]
    BY <1>3
  <2>2. gc'.fid = f /\ gc'.wb = <<>> /\ DOMAIN gc'.wb = {}
    BY <1>3
  <2>3. isOld(gc.fid)'
    BY <1>1, <1>4, <2>2 DEF isOld, isHotVlog, fileVars
  <2>4. files' = files /\ filesToBeDeleted' = filesToBeDeleted
    BY <1>1 DEF fileVars
  <2>. QED BY <1>3, <2>1, <2>2, <2>3, <2>4 DEF GcMade
<1>6. ASSUME NEW s, NEW c, has(s, c), isLost(c)' PROVE isLost(c)
  <2>. SUFFICES ASSUME gcLoses(c)', c.kind = "put", readable(c) PROVE FALSE
    BY <1>1, <1>6, LostBy
  <2>1. c.off < 1
    BY <1>3 DEF gcLoses
  <2>2. c \in Copy
    BY <1>6, HasTyped DEF keepBy
  <2>3. c.off \in 1 .. Len(files[c.fid])
    BY <2>2, CopyFacts DEF readable
  <2>. QED BY <2>1, <2>3
<1>. QED BY <1>1, <1>5, <1>6, GcStepKeeps

(* An entry that is not live has a settled copy that is not the first of   *)
(* its version: FirstIsFound.                                              *)
LEMMA RewriteEntryKeeps == ASSUME keepBy, rewriteEntry PROVE keepBy'
<1>1. UNCHANGED <<vTs, heat, treeVars, fileVars, filesToBeDeleted, iters, newest, upset>>
  BY DEF rewriteEntry
<1>2. gc.phase = "scan" /\ gc # NoGC
  BY DEF rewriteEntry, NoGC
<1>3. GcMade /\ VlogTyped /\ FilesMade
  BY DEF keepBy
<1>4. PICK e, f, n : e = files[gc.fid][gc.pos] /\ f = gc.fid /\ n = gc.pos
  OBVIOUS
<1>5. PICK w, live : /\ w = [key |-> e.key, ver |-> e.ver, kind |-> "put"]
                     /\ live = isLive(e, vget(e.key, e.ver), f, n)
  OBVIOUS
<1>6. gc' = [gc EXCEPT !.pos = @ + 1, !.wb = IF live THEN Append(@, w) ELSE @]
  BY <1>4, <1>5 DEF rewriteEntry
<1>7. /\ gc \in [phase : {"scan", "delete"}, fid : DOMAIN files, pos : Nat \ {0}, wb : Seq(WbEntry)]
      /\ isOld(f) /\ f \notin filesToBeDeleted /\ f \in DOMAIN files /\ n \in Nat /\ n > 0
  BY <1>2, <1>3, <1>4 DEF GcMade
<1>8. files[f] \in Seq(Entry) /\ n <= Len(files[f])
  BY <1>3, <1>4, <1>7 DEF FilesMade, rewriteEntry
<1>9. n \in DOMAIN files[f] /\ e \in Entry
  BY <1>4, <1>7, <1>8
<1>10. w \in WbEntry /\ e = [key |-> w.key, ver |-> w.ver]
  BY <1>5, <1>9 DEF WbEntry, Entry
<1>11. PICK wb : wb = gc.wb
  OBVIOUS
<1>12. PICK wb2 : wb2 = IF live THEN Append(wb, w) ELSE wb
  OBVIOUS
<1>13. gc'.phase = "scan" /\ gc'.fid = f /\ gc'.pos = n + 1 /\ gc'.wb = wb2 /\ gc' # NoGC
  <2>1. gc' = [gc EXCEPT !.pos = n + 1, !.wb = wb2]
    BY <1>4, <1>6, <1>7, <1>11, <1>12
  <2>. QED BY <1>2, <1>4, <1>7, <2>1 DEF NoGC
<1>14. wb \in Seq(WbEntry) /\ wb2 \in Seq(WbEntry)
  BY <1>7, <1>10, <1>11, <1>12
<1>15. \A j \in DOMAIN wb2 : (j \in DOMAIN wb /\ wb2[j] = wb[j]) \/ wb2[j] = w
  BY <1>10, <1>12, <1>14
<1>16. \A j \in DOMAIN wb : j \in DOMAIN wb2 /\ wb2[j] = wb[j]
  BY <1>10, <1>12, <1>14
<1>17. live => \E j \in DOMAIN wb2 : wb2[j] = w
  <2>1. live => wb2 = Append(wb, w)
    BY <1>12
  <2>2. Len(wb) + 1 \in DOMAIN Append(wb, w) /\ Append(wb, w)[Len(wb) + 1] = w
    BY <1>10, <1>14
  <2>. QED BY <2>1, <2>2
<1>18. GcMade'
  <2>1. files' = files /\ filesToBeDeleted' = filesToBeDeleted
    BY <1>1 DEF fileVars
  <2>2. gc' \in [phase : {"scan", "delete"}, fid : DOMAIN files, pos : Nat \ {0}, wb : Seq(WbEntry)]
    <3>1. gc' = [phase |-> "scan", fid |-> f, pos |-> n + 1, wb |-> wb2]
      <4>1. gc' = [gc EXCEPT !.pos = n + 1, !.wb = wb2]
        BY <1>4, <1>6, <1>7, <1>11, <1>12
      <4>. QED BY <1>2, <1>4, <1>7, <4>1
    <3>2. n + 1 \in Nat \ {0}
      BY <1>7
    <3>. QED BY <1>7, <1>14, <3>1, <3>2
  <2>3. isOld(gc.fid)'
    BY <1>1, <1>7, <1>13 DEF isOld, isHotVlog, fileVars
  <2>4. \A j \in DOMAIN wb2 : \E i \in DOMAIN files[f] : files[f][i] = [key |-> wb2[j].key, ver |-> wb2[j].ver]
    <3>. SUFFICES ASSUME NEW j \in DOMAIN wb2
                  PROVE \E i \in DOMAIN files[f] : files[f][i] = [key |-> wb2[j].key, ver |-> wb2[j].ver]
      OBVIOUS
    <3>1. CASE j \in DOMAIN wb /\ wb2[j] = wb[j]
      <4>1. \E i \in DOMAIN files[gc.fid] : files[gc.fid][i] = [key |-> gc.wb[j].key, ver |-> gc.wb[j].ver]
        BY <1>2, <1>3, <1>11, <3>1, GcFacts
      <4>. QED BY <1>4, <1>11, <3>1, <4>1
    <3>2. CASE wb2[j] = w
      BY <1>4, <1>9, <1>10, <3>2
    <3>. QED BY <1>15, <3>1, <3>2
  <2>. QED BY <1>7, <1>13, <2>1, <2>2, <2>3, <2>4 DEF GcMade
<1>19. ASSUME NEW s, NEW c, has(s, c), c.key \notin upset, isLost(c)', firstAt(s, c) PROVE isLost(c)
  <2>. SUFFICES ASSUME gcLoses(c)', c.kind = "put", readable(c), ~ isLost(c) PROVE FALSE
    BY <1>1, <1>19, LostBy
  <2>1. c.fid = f /\ c.off < n + 1 /\ \A j \in DOMAIN wb2 : wb2[j] # [key |-> c.key, ver |-> c.ver, kind |-> "put"]
    BY <1>13 DEF gcLoses
  <2>2. c \in Copy
    BY <1>3, <1>19, HasTyped
  <2>3. c.off >= n
    <3>. SUFFICES ASSUME c.off < n PROVE FALSE
      BY <1>7, <2>2, CopyFacts
    <3>1. \A j \in DOMAIN gc.wb : gc.wb[j] # [key |-> c.key, ver |-> c.ver, kind |-> "put"]
      BY <1>11, <1>16, <2>1
    <3>. QED BY <1>2, <1>4, <2>1, <3>1 DEF isLost
  <2>4. c.off = n
    BY <1>7, <2>1, <2>2, <2>3, CopyFacts
  <2>5. e = [key |-> c.key, ver |-> c.ver]
    BY <1>4, <2>1, <2>2, <2>4, CopyFacts DEF readable
  <2>6. vget(c.key, c.ver) = c
    <3>1. VersionsAgree /\ TiersApart /\ VersionsRise
      BY <1>3, HeldForms DEF keepBy, heldForms, heldInv
    <3>2. isFirst(tree, sourcesNow, s, c.ver, c.key)
      BY <1>19 DEF has, isFirst, holds, firstAt, same
    <3>. QED BY <1>3, <1>19, <3>1, <3>2, FirstIsFound
  <2>7. live
    BY <1>5, <2>1, <2>4, <2>5, <2>6 DEF isLive, discardEntry
  <2>8. w = [key |-> c.key, ver |-> c.ver, kind |-> "put"]
    BY <1>5, <2>5
  <2>. QED BY <1>17, <2>1, <2>7, <2>8
<1>. QED BY <1>1, <1>18, <1>19, GcStepKeeps

(* Adding a table to a place of a tree.                                    *)
Trees == [Places -> Seq(SUBSET Copy)]
added(u, t, p, X) ==
  /\ u \in Trees /\ \A q \in Places : q # p => u[q] = t[q]
  /\ \/ X = {} /\ u[p] = t[p]
     \/ X # {} /\ u[p] = Append(t[p], X)

LEMMA AddTableIs ==
  ASSUME NEW t \in Trees, NEW p \in Places, NEW X \in SUBSET Copy
  PROVE  added(addTable(t, p, X), t, p, X)
<1>1. CASE X = {}
  BY <1>1 DEF addTable, added
<1>2. CASE X # {}
  <2>1. Append(t[p], X) \in Seq(SUBSET Copy)
    BY DEF Trees
  <2>2. PICK u : u = [t EXCEPT ![p] = Append(t[p], X)]
    OBVIOUS
  <2>3. u \in Trees /\ u[p] = Append(t[p], X) /\ \A q \in Places : q # p => u[q] = t[q]
    BY <2>1, <2>2 DEF Trees
  <2>4. addTable(t, p, X) = u
    BY <1>2, <2>2 DEF addTable
  <2>. QED BY <1>2, <2>3, <2>4 DEF added
<1>. QED BY <1>1, <1>2

(* The copies of a place after a table was added.                          *)
LEMMA AddedCopies ==
  ASSUME NEW t \in Trees, NEW p \in Places, NEW X \in SUBSET Copy, NEW u, added(u, t, p, X), NEW i, NEW c
  PROVE  i \in 1 .. Len(u[p]) /\ c \in u[p][i] <=>
           \/ i \in 1 .. Len(t[p]) /\ c \in t[p][i]
           \/ i = Len(t[p]) + 1 /\ c \in X
<1>1. t[p] \in Seq(SUBSET Copy)
  BY DEF Trees
<1>2. CASE X = {} /\ u[p] = t[p]
  BY <1>2
<1>3. CASE X # {} /\ u[p] = Append(t[p], X)
  <2>1. /\ Len(u[p]) = Len(t[p]) + 1 /\ Len(t[p]) \in Nat
        /\ u[p][Len(t[p]) + 1] = X /\ \A j \in 1 .. Len(t[p]) : u[p][j] = t[p][j]
    BY <1>1, <1>3
  <2>2. i \in 1 .. Len(u[p]) <=> i \in 1 .. Len(t[p]) \/ i = Len(t[p]) + 1
    BY <2>1
  <2>3. ~ (Len(t[p]) + 1 \in 1 .. Len(t[p]))
    BY <2>1
  <2>. QED BY <2>1, <2>2, <2>3
<1>. QED BY <1>2, <1>3 DEF added

-----------------------------------------------------------------------------
(* What a flush moves where, and what is then found earlier.               *)
goesCold(c) == c.kind = "del" \/ c.key \notin heat
flushed(m, h, l) ==
  /\ isSource(m) /\ isSource(h) /\ isSource(l)
  /\ m.tier = "mem" /\ h.tier = "l98" /\ l.tier = "l0"
  /\ \A s, c : s # m /\ s # h /\ s # l => (has(s, c)' <=> has(s, c))
  /\ \A c : ~ has(m, c)' /\ ~ has(h, c) /\ ~ has(l, c)
  /\ \A c : has(h, c)' <=> has(m, c) /\ goesHot(c)
  /\ \A c : has(l, c)' <=> has(m, c) /\ goesCold(c)
  /\ \A s, c : has(s, c) /\ s # m =>
       /\ s.tier = "mem" => earlier(s, m) /\ earlier(s, h) /\ earlier(s, l)
       /\ s.tier # "mem" => ~ earlier(s, m) /\ ~ earlier(s, h)
       /\ s.tier \in {"l98", "l99"} => earlier(h, s)
       /\ s.tier = "l0" => earlier(l, s)
       /\ s.tier = "base" => earlier(l, s) /\ earlier(h, s)

LEMMA FlushTyped ==
  ASSUME keepBy, flushMem
  PROVE  VlogTyped' /\ Len(mems') = Len(mems) /\ \A i \in nFlushed + 2 .. Len(mems) : mems'[i] = mems[i]
<1>. VlogTyped
  BY DEF keepBy
<1>1. mems \in Seq(SUBSET Copy) /\ nFlushed \in Nat /\ nFlushed + 1 \in 1 .. Len(mems) /\ Len(mems) \in Nat
  BY DEF VlogTyped, flushMem
<1>2. mems' = mems \/ mems' = [mems EXCEPT ![nFlushed + 1] = {}]
  BY DEF flushMem
<1>3. mems' \in Seq(SUBSET Copy) /\ Len(mems') = Len(mems) /\ \A i \in nFlushed + 2 .. Len(mems) : mems'[i] = mems[i]
  <2>1. CASE mems' = mems
    BY <1>1, <2>1
  <2>2. CASE mems' = [mems EXCEPT ![nFlushed + 1] = {}]
    <3>1. {} \in SUBSET Copy
      OBVIOUS
    <3>2. mems' \in Seq(SUBSET Copy) /\ Len(mems') = Len(mems)
      BY <1>1, <2>2, <3>1
    <3>3. \A i \in nFlushed + 2 .. Len(mems) : i # nFlushed + 1 /\ i \in DOMAIN mems
      BY <1>1
    <3>. QED BY <2>2, <3>2, <3>3
  <2>. QED BY <1>2, <2>1, <2>2
<1>. DEFINE M == mems[nFlushed + 1]
            H == {c \in M : c.kind = "del" \/ c.key \in heat}
            L == {c \in M : c.kind = "del" \/ c.key \notin heat}
<1>4. H \in SUBSET Copy /\ L \in SUBSET Copy
  BY <1>1
<1>5. tree \in Trees /\ "l98" \in Places /\ "l0" \in Places /\ "l99" \in Places /\ "base" \in Places
  BY DEF VlogTyped, Trees, Places
<1>6. tree' = addTable(addTable(tree, "l98", H), "l0", L)
  BY DEF flushMem
<1>. HIDE DEF H, L
<1>7. PICK t : t = addTable(tree, "l98", H)
  OBVIOUS
<1>8. added(t, tree, "l98", H)
  BY <1>4, <1>5, <1>7, AddTableIs
<1>9. added(tree', t, "l0", L)
  BY <1>4, <1>5, <1>6, <1>7, <1>8, AddTableIs DEF added
<1>10. tree' \in Trees /\ tree'["l99"] = tree["l99"] /\ tree'["base"] = tree["base"] /\ t["l0"] = tree["l0"]
  BY <1>5, <1>8, <1>9 DEF added
<1>11. Len(tree'["l0"]) >= Len(tree["l0"]) /\ Len(tree["l0"]) \in Nat /\ Len(tree'["l0"]) \in Nat
  <2>1. tree["l0"] \in Seq(SUBSET Copy)
    BY <1>5 DEF Trees
  <2>. QED BY <1>9, <1>10, <2>1 DEF added
<1>12. l0run \in 0 .. Len(tree'["l0"])
  BY <1>11 DEF VlogTyped
<1>13. nFlushed' = nFlushed + 1 /\ nFlushed + 1 \in Nat /\ nFlushed + 1 < Len(mems)
  BY <1>1 DEF flushMem
<1>14. UNCHANGED <<vTs, heat, l0run, iters, newest>>
  BY DEF flushMem
<1>15. VlogTyped'
  BY <1>3, <1>10, <1>12, <1>13, <1>14 DEF VlogTyped, Trees
<1>. QED BY <1>3, <1>15

LEMMA FlushMoves ==
  ASSUME keepBy, flushMem
  PROVE  \E m, h, l : flushed(m, h, l)
<1>. VlogTyped /\ VlogTyped'
  BY FlushTyped DEF keepBy
<1>1. mems \in Seq(SUBSET Copy) /\ nFlushed \in Nat /\ nFlushed + 1 \in 1 .. Len(mems) /\ Len(mems) \in Nat
      /\ nFlushed' = nFlushed + 1
  BY DEF VlogTyped, flushMem
<1>2. hasIs /\ hasIs'
  BY HasIs, HasIsNext
<1>. DEFINE M == mems[nFlushed + 1]
            H == {c \in M : goesHot(c)}
            L == {c \in M : goesCold(c)}
<1>0. PICK nm, n8, n0 : nm = nFlushed + 1 /\ n8 = Len(tree["l98"]) + 1 /\ n0 = Len(tree["l0"]) + 1
  OBVIOUS
<1>. DEFINE m == src("mem", nm)
            h == src("l98", n8)
            l == src("l0", n0)
<1>3. H \in SUBSET Copy /\ L \in SUBSET Copy
  BY <1>1
<1>4. tree \in Trees /\ "l98" \in Places /\ "l0" \in Places /\ "l99" \in Places /\ "base" \in Places
  BY DEF VlogTyped, Trees, Places
<1>5. tree' = addTable(addTable(tree, "l98", H), "l0", L)
  BY DEF flushMem, goesHot, goesCold
<1>6. \A c : has(m, c) <=> c \in M
  BY <1>0, <1>1, <1>2 DEF hasIs
<1>7. \A c : (c \in H <=> has(m, c) /\ goesHot(c)) /\ (c \in L <=> has(m, c) /\ goesCold(c))
  BY <1>6
<1>. HIDE DEF H, L, M
<1>8. PICK t : t = addTable(tree, "l98", H)
  OBVIOUS
<1>9. added(t, tree, "l98", H)
  BY <1>3, <1>4, <1>8, AddTableIs
<1>10. added(tree', t, "l0", L) /\ t \in Trees
  BY <1>3, <1>4, <1>5, <1>8, <1>9, AddTableIs DEF added
<1>11. t["l0"] = tree["l0"] /\ tree'["l98"] = t["l98"] /\ tree'["l99"] = tree["l99"] /\ tree'["base"] = tree["base"]
  BY <1>4, <1>9, <1>10 DEF added
<1>12. ASSUME NEW i, NEW c
       PROVE  has(src("l98", i), c)' <=> has(src("l98", i), c) \/ (i = n8 /\ c \in H)
  <2>1. has(src("l98", i), c)' <=> i \in 1 .. Len(t["l98"]) /\ c \in t["l98"][i]
    BY <1>2, <1>4, <1>11 DEF hasIs
  <2>2. has(src("l98", i), c) <=> i \in 1 .. Len(tree["l98"]) /\ c \in tree["l98"][i]
    BY <1>2, <1>4 DEF hasIs
  <2>3. i \in 1 .. Len(t["l98"]) /\ c \in t["l98"][i] <=>
          (i \in 1 .. Len(tree["l98"]) /\ c \in tree["l98"][i]) \/ (i = Len(tree["l98"]) + 1 /\ c \in H)
    BY <1>3, <1>4, <1>9, AddedCopies
  <2>. QED BY <1>0, <2>1, <2>2, <2>3
<1>13. ASSUME NEW i, NEW c
       PROVE  has(src("l0", i), c)' <=> has(src("l0", i), c) \/ (i = n0 /\ c \in L)
  <2>1. has(src("l0", i), c)' <=> i \in 1 .. Len(tree'["l0"]) /\ c \in tree'["l0"][i]
    BY <1>2, <1>4 DEF hasIs
  <2>2. has(src("l0", i), c) <=> i \in 1 .. Len(t["l0"]) /\ c \in t["l0"][i]
    BY <1>2, <1>4, <1>11 DEF hasIs
  <2>3. i \in 1 .. Len(tree'["l0"]) /\ c \in tree'["l0"][i] <=>
          (i \in 1 .. Len(t["l0"]) /\ c \in t["l0"][i]) \/ (i = Len(t["l0"]) + 1 /\ c \in L)
    BY <1>3, <1>4, <1>10, AddedCopies
  <2>. QED BY <1>0, <1>11, <2>1, <2>2, <2>3
<1>14. \A i, c : (has(src("l99", i), c)' <=> has(src("l99", i), c)) /\ (has(src("base", i), c)' <=> has(src("base", i), c))
  BY <1>2, <1>4, <1>11 DEF hasIs
<1>15. ASSUME NEW i, NEW c
       PROVE  has(src("mem", i), c)' <=> has(src("mem", i), c) /\ i # nm
  <2>1. has(src("mem", i), c)' <=> i \in nFlushed + 2 .. Len(mems) /\ c \in mems'[i]
    <3>1. has(src("mem", i), c)' <=> i \in nFlushed' + 1 .. Len(mems') /\ c \in mems'[i]
      BY <1>2 DEF hasIs
    <3>2. Len(mems') = Len(mems) /\ nFlushed' + 1 = nFlushed + 2
      BY <1>1, FlushTyped
    <3>. QED BY <3>1, <3>2
  <2>2. i \in nFlushed + 2 .. Len(mems) <=> i \in nFlushed + 1 .. Len(mems) /\ i # nFlushed + 1
    BY <1>1
  <2>3. i \in nFlushed + 2 .. Len(mems) => mems'[i] = mems[i]
    BY FlushTyped
  <2>. QED BY <1>0, <1>2, <2>1, <2>2, <2>3 DEF hasIs
<1>16. n8 \in Nat /\ n0 \in Nat /\ nm \in Nat /\ nm = nFlushed + 1 /\ n8 = Len(tree["l98"]) + 1 /\ n0 = Len(tree["l0"]) + 1
  <2>1. Len(tree["l98"]) \in Nat /\ Len(tree["l0"]) \in Nat
    BY <1>4 DEF Trees
  <2>. QED BY <1>0, <1>1, <2>1
<1>17. isSource(m) /\ isSource(h) /\ isSource(l) /\ m.tier = "mem" /\ h.tier = "l98" /\ l.tier = "l0"
       /\ m.n = nm /\ h.n = n8 /\ l.n = n0
  BY <1>4, <1>16 DEF isSource, src, Tiers
<1>18. \A c : ~ has(h, c) /\ ~ has(l, c)
  <2>1. ~ (n8 \in 1 .. Len(tree["l98"])) /\ ~ (n0 \in 1 .. Len(tree["l0"]))
    BY <1>16
  <2>. QED BY <1>2, <1>4, <2>1 DEF hasIs
<1>19. \A s, c : has(s, c) => isSource(s)
  BY <1>2 DEF hasIs
<1>20. \A s, c : has(s, c)' => isSource(s)
  BY <1>2 DEF hasIs, isSource, src, Tiers
<1>21. \A p, q, i, j : src(p, i) = src(q, j) <=> p = q /\ i = j
  BY DEF src
<1>22. ASSUME NEW s, NEW c, s # m, s # h, s # l PROVE has(s, c)' <=> has(s, c)
  <2>. SUFFICES ASSUME isSource(s) PROVE has(s, c)' <=> has(s, c)
    BY <1>19, <1>20
  <2>1. PICK p, i : s = src(p, i) /\ p \in Tiers
    BY DEF isSource
  <2>2. CASE p = "mem"
    <3>1. has(src("mem", i), c)' <=> has(src("mem", i), c)
      BY <1>15, <1>22, <2>1, <2>2
    <3>. QED BY <2>1, <2>2, <3>1
  <2>3. CASE p = "l98"
    <3>1. has(src("l98", i), c)' <=> has(src("l98", i), c)
      BY <1>12, <1>22, <2>1, <2>3
    <3>. QED BY <2>1, <2>3, <3>1
  <2>4. CASE p = "l0"
    <3>1. has(src("l0", i), c)' <=> has(src("l0", i), c)
      BY <1>13, <1>22, <2>1, <2>4
    <3>. QED BY <2>1, <2>4, <3>1
  <2>5. CASE p = "l99"
    <3>1. has(src("l99", i), c)' <=> has(src("l99", i), c)
      BY <1>14
    <3>. QED BY <2>1, <2>5, <3>1
  <2>6. CASE p = "base"
    <3>1. has(src("base", i), c)' <=> has(src("base", i), c)
      BY <1>14
    <3>. QED BY <2>1, <2>6, <3>1
  <2>. QED BY <2>1, <2>2, <2>3, <2>4, <2>5, <2>6 DEF Tiers, Places
<1>23. \A c : ~ has(m, c)'
  <2>1. \A c : ~ has(src("mem", nm), c)'
    BY <1>15
  <2>. QED BY <2>1
<1>24. \A c : has(h, c)' <=> has(m, c) /\ goesHot(c)
  BY <1>7, <1>12, <1>18
<1>25. \A c : has(l, c)' <=> has(m, c) /\ goesCold(c)
  BY <1>7, <1>13, <1>18
<1>26. ASSUME NEW s, NEW c, has(s, c), s # m
       PROVE  /\ s.tier = "mem" => earlier(s, m) /\ earlier(s, h) /\ earlier(s, l)
              /\ s.tier # "mem" => ~ earlier(s, m) /\ ~ earlier(s, h)
              /\ s.tier \in {"l98", "l99"} => earlier(h, s)
              /\ s.tier = "l0" => earlier(l, s)
              /\ s.tier = "base" => earlier(l, s) /\ earlier(h, s)
  <2>1. isSource(s) /\ s = src(s.tier, s.n) /\ s.n \in Nat /\ s.tier \in Tiers
    BY <1>19, <1>26 DEF isSource
  <2>2. CASE s.tier = "mem"
    <3>1. has(src("mem", s.n), c)
      BY <1>26, <2>1, <2>2
    <3>2. s.n \in nFlushed + 1 .. Len(mems)
      BY <1>2, <3>1 DEF hasIs
    <3>3. s.n # nm
      BY <1>26, <2>1, <2>2
    <3>4. s.n > nm
      BY <1>1, <1>16, <3>2, <3>3
    <3>. QED BY <1>17, <2>2, <3>4 DEF earlier, rank
  <2>3. CASE s.tier = "l98"
    <3>1. has(src("l98", s.n), c)
      BY <1>26, <2>1, <2>3
    <3>2. s.n \in 1 .. Len(tree["l98"])
      BY <1>2, <1>4, <3>1 DEF hasIs
    <3>3. s.n < n8
      BY <1>16, <3>2
    <3>4. ~ (s.n > n8)
      BY <1>16, <2>1, <3>3
    <3>. QED BY <1>16, <1>17, <2>1, <2>3, <3>3, <3>4 DEF earlier, rank
  <2>4. CASE s.tier = "l99"
    BY <1>17, <2>4 DEF earlier, rank
  <2>5. CASE s.tier = "l0"
    <3>1. has(src("l0", s.n), c)
      BY <1>26, <2>1, <2>5
    <3>2. s.n \in 1 .. Len(tree["l0"])
      BY <1>2, <1>4, <3>1 DEF hasIs
    <3>3. s.n < n0
      BY <1>16, <3>2
    <3>. QED BY <1>16, <1>17, <2>1, <2>5, <3>3 DEF earlier, rank
  <2>6. CASE s.tier = "base"
    BY <1>17, <2>6 DEF earlier, rank
  <2>. QED BY <2>1, <2>2, <2>3, <2>4, <2>5, <2>6 DEF Tiers, Places
<1>27. flushed(m, h, l)
  <2>. HIDE DEF m, h, l
  <2>. QED BY <1>17, <1>18, <1>22, <1>23, <1>24, <1>25, <1>26 DEF flushed
<1>. QED BY <1>27

LEMMA FlushMade ==
  ASSUME NEW m, NEW h, NEW l, flushed(m, h, l), madeBy, UNCHANGED <<newest, files>>
  PROVE  madeBy'
<1>1. \A s, c : has(s, c)' => has(s, c) \/ (s \in {h, l} /\ has(m, c))
  BY DEF flushed
<1>2. \A s, c : has(s, c)' => \E r : has(r, c)
  BY <1>1
<1>3. \A s, c, d : has(s, c)' /\ has(s, d)' => \E r : has(r, c) /\ has(r, d)
  BY <1>1 DEF flushed
<1>4. \A s, c : has(s, c)' => c.ver <= newest'[c.key].ver
  BY <1>2 DEF madeBy
<1>5. \A s, c, d : has(s, c)' /\ has(s, d)' /\ same(c, d) => c = d
  BY <1>3 DEF madeBy
<1>6. \A r, s, c, d : has(r, c)' /\ has(s, d)' /\ same(c, d) => c.kind = d.kind
  BY <1>2 DEF madeBy
<1>7. \A f \in DOMAIN files' : \A i \in DOMAIN files'[f] :
        /\ files'[f][i].ver <= newest'[files'[f][i].key].ver
        /\ \A s, c : has(s, c)' /\ same(c, files'[f][i]) => c.kind = "put"
  BY <1>2 DEF madeBy
<1>. QED BY <1>4, <1>5, <1>6, <1>7 DEF madeBy, same

LEMMA FlushHolds ==
  ASSUME NEW m, NEW h, NEW l, flushed(m, h, l), VlogTyped, heldBy,
         UNCHANGED <<heat, upset, newest, files, filesToBeDeleted, gc>>
  PROVE  heldBy'
<1>1. madeBy /\ apartBy /\ riseBy /\ hiddenBy
  BY DEF heldBy
<1>2. madeBy'
  BY <1>1, FlushMade
<1>3. \A s, c : has(s, c) => c.kind \in {"put", "del"} /\ c \in Copy
  BY HasTyped, CopyFacts
<1>4. \A s, c : has(s, c)' => s # m /\ (has(s, c) \/ (s = h /\ has(m, c) /\ goesHot(c)) \/ (s = l /\ has(m, c) /\ goesCold(c)))
  BY DEF flushed
<1>5. m # h /\ m # l /\ h # l
  BY DEF flushed
<1>6. apartBy'
  <2>. SUFFICES ASSUME NEW s, NEW c, has(s, c)', c.key \notin upset, c.kind = "put"
                PROVE  (isHotSource(s) => c.key \in heat) /\ (s.tier = "l0" => c.key \notin heat)
    BY DEF apartBy, isHotSource
  <2>1. CASE has(s, c)
    BY <1>1, <2>1 DEF apartBy
  <2>2. CASE s = h /\ goesHot(c)
    BY <2>2 DEF flushed, goesHot
  <2>3. CASE s = l /\ goesCold(c)
    BY <2>3 DEF flushed, goesCold, isHotSource
  <2>. QED BY <1>4, <2>1, <2>2, <2>3
<1>7. riseBy'
  <2>. SUFFICES ASSUME NEW r, NEW s, NEW c, NEW d, has(r, c)', has(s, d)', onHotPath(r), onHotPath(s), earlier(r, s),
                       c.key = d.key, c.key \notin upset, goesHot(c), goesHot(d)
                PROVE  c.ver >= d.ver
    BY DEF riseBy, onHotPath, isHotSource, earlier, goesHot
  <2>1. r # l /\ s # l
    BY DEF flushed, onHotPath, isHotSource
  <2>2. has(r, c) \/ (r = h /\ has(m, c))
    BY <1>4, <2>1
  <2>3. has(s, d) \/ (s = h /\ has(m, d))
    BY <1>4, <2>1
  <2>4. onHotPath(m)
    BY DEF flushed, onHotPath
  <2>5. CASE has(r, c) /\ has(s, d)
    BY <1>1, <2>5 DEF riseBy
  <2>6. CASE has(r, c) /\ s = h /\ has(m, d)
    <3>1. r.tier = "mem" /\ r # m
      <4>1. r # m
        BY <1>4
      <4>. QED BY <2>6, <4>1 DEF flushed
    <3>2. earlier(r, m)
      BY <2>6, <3>1 DEF flushed
    <3>. QED BY <1>1, <2>4, <2>6, <3>2 DEF riseBy
  <2>7. CASE r = h /\ has(m, c) /\ has(s, d)
    <3>1. s # m /\ s.tier # "mem"
      <4>1. s # m
        BY <1>4
      <4>2. s.tier = "mem" => earlier(s, h)
        BY <2>7, <4>1 DEF flushed
      <4>3. isSource(s) /\ isSource(h)
        <5>1. hasIs
          BY HasIs
        <5>. QED BY <2>7, <5>1 DEF hasIs, flushed
      <4>4. ~ earlier(s, h)
        BY <2>7, <4>3, EarlierOrder
      <4>. QED BY <4>1, <4>2, <4>4
    <3>2. earlier(m, s)
      BY <3>1 DEF flushed, earlier, rank, onHotPath, isHotSource
    <3>. QED BY <1>1, <2>4, <2>7, <3>2 DEF riseBy
  <2>8. CASE r = h /\ s = h
    BY <2>8, EarlierOrder DEF flushed
  <2>. QED BY <2>2, <2>3, <2>5, <2>6, <2>7, <2>8
<1>8. hiddenBy'
  <2>1. \A c : isLost(c)' <=> isLost(c)
    BY DEF isLost, readable
  <2>. SUFFICES ASSUME NEW s, NEW c, has(s, c)', c.key \notin upset, isLost(c), firstAt(s, c)'
                PROVE  s.tier = "base" /\ newerThan(c)'
    BY <2>1 DEF hiddenBy
  <2>2. c.kind = "put"
    BY DEF isLost
  <2>3. \A r, d : has(r, d)' /\ earlier(r, s) => ~ same(d, c)
    BY DEF firstAt, same, earlier
  <2>4. \A r, d : has(r, d) => \E q : has(q, d)'
    <3>. SUFFICES ASSUME NEW r, NEW d, has(r, d) PROVE \E q : has(q, d)'
      OBVIOUS
    <3>1. r # h /\ r # l
      BY DEF flushed
    <3>2. CASE r # m
      BY <3>1, <3>2 DEF flushed
    <3>3. CASE r = m
      <4>1. goesHot(d) \/ goesCold(d)
        BY <1>3 DEF goesHot, goesCold
      <4>. QED BY <3>3, <4>1 DEF flushed
    <3>. QED BY <3>2, <3>3
  <2>5. newerThan(c) => newerThan(c)'
    BY <2>4 DEF newerThan
  <2>6. CASE has(s, c)
    <3>1. s # m /\ s # h /\ s # l
      BY <1>4, <2>6 DEF flushed
    <3>2. CASE firstAt(s, c)
      BY <1>1, <2>5, <2>6, <3>2 DEF hiddenBy
    <3>3. CASE ~ firstAt(s, c)
      <4>1. PICK r, d : has(r, d) /\ earlier(r, s) /\ same(d, c)
        BY <3>3 DEF firstAt
      <4>2. r = m
        BY <2>3, <4>1 DEF flushed
      <4>3. d.kind = "put" /\ d.key = c.key
        BY <1>1, <2>2, <2>6, <4>1 DEF madeBy, same
      <4>4. isSource(s) /\ isSource(m)
        BY <2>6, HasIs DEF hasIs, flushed
      <4>5. s.tier # "mem"
        <5>1. s.tier = "mem" => earlier(s, m)
          BY <2>6, <3>1 DEF flushed
        <5>2. ~ earlier(s, m)
          BY <4>1, <4>2, <4>4, EarlierOrder
        <5>. QED BY <5>1, <5>2
      <4>6. CASE d.key \in heat
        <5>1. has(h, d)'
          BY <4>1, <4>2, <4>6 DEF flushed, goesHot
        <5>2. ~ earlier(h, s)
          BY <2>3, <4>1, <5>1
        <5>3. s.tier = "l0"
          BY <2>6, <3>1, <4>4, <4>5, <5>2 DEF flushed, isSource, Tiers, Places
        <5>. QED BY <1>1, <2>2, <2>6, <4>3, <4>6, <5>3 DEF apartBy
      <4>7. CASE d.key \notin heat
        <5>1. has(l, d)'
          BY <4>1, <4>2, <4>7 DEF flushed, goesCold
        <5>2. ~ earlier(l, s)
          BY <2>3, <4>1, <5>1
        <5>3. isHotSource(s)
          BY <2>6, <3>1, <4>4, <4>5, <5>2 DEF flushed, isSource, Tiers, Places, isHotSource
        <5>. QED BY <1>1, <2>2, <2>6, <4>3, <4>7, <5>3 DEF apartBy
      <4>. QED BY <4>6, <4>7
    <3>. QED BY <3>2, <3>3
  <2>7. CASE s \in {h, l} /\ has(m, c)
    <3>1. m.tier # "base"
      BY DEF flushed
    <3>2. ~ firstAt(m, c)
      BY <1>1, <2>7, <3>1 DEF hiddenBy
    <3>3. PICK r, d : has(r, d) /\ earlier(r, m) /\ same(d, c)
      BY <3>2 DEF firstAt
    <3>4. isSource(m) /\ isSource(r)
      BY <3>3, HasIs DEF hasIs, flushed
    <3>5. r # m /\ r # h /\ r # l
      BY <3>3, <3>4, EarlierOrder DEF flushed
    <3>6. has(r, d)' /\ earlier(r, s)
      BY <2>7, <3>3, <3>5 DEF flushed
    <3>. QED BY <2>3, <3>3, <3>6
  <2>. QED BY <1>4, <2>6, <2>7
<1>. QED BY <1>2, <1>6, <1>7, <1>8 DEF heldBy

LEMMA FlushKeeps == ASSUME keepBy, flushMem PROVE keepBy'
<1>1. VlogTyped'
  BY FlushTyped
<1>2. FilesMade' /\ GcMade'
  BY DEF keepBy, FilesMade, GcMade, fileVars, isOld, isActive, isHotVlog, flushMem
<1>3. PICK m, h, l : flushed(m, h, l)
  BY FlushMoves
<1>4. UNCHANGED <<heat, upset, newest, files, filesToBeDeleted, gc>>
  BY DEF flushMem, fileVars
<1>5. heldBy'
  BY <1>3, <1>4, FlushHolds DEF keepBy
<1>. QED BY <1>1, <1>2, <1>5 DEF keepBy

(* What a merge returns, and what a compaction keeps of it.                *)
mergedOf(G, M) ==
  /\ M \subseteq Copy
  /\ \A c \in M : \E r \in G : has(r, c) /\ \A q \in G : \A d : has(q, d) /\ earlier(q, r) => ~ same(d, c)
  /\ \A r \in G : \A c : has(r, c) => \E g \in M : same(g, c)

LEMMA MergedIs ==
  ASSUME VlogTyped, VersionsAgree, NEW G \in SUBSET sourcesNow
  PROVE  mergedOf(G, mergeTables(G))
<1>. DEFINE M == mergeTables(G)
<1>1. \A c : c \in M <=> (\E r \in G : has(r, c)) /\ c = firstOf(tree, G, c.ver, c.key)
  BY DEF mergeTables, copiesIn, has
<1>. HIDE DEF M
<1>2. ASSUME NEW r \in G, NEW c, has(r, c)
      PROVE  \E s \in G : \E d : /\ has(s, d) /\ same(d, c) /\ d \in M /\ firstOf(tree, G, c.ver, c.key) = d
                                 /\ \A q \in G : \A e : has(q, e) /\ earlier(q, s) => ~ same(e, c)
  <2>1. holds(tree, r, c.ver, c.key)
    BY <1>2 DEF has, holds
  <2>2. PICK s \in G : isFirst(tree, G, s, c.ver, c.key)
    BY <2>1, FirstExists
  <2>3. PICK d \in content(tree, s) : d.key = c.key /\ d.ver = c.ver
    BY <2>2 DEF isFirst, holds
  <2>4. has(s, d)
    BY <2>3 DEF has
  <2>5. firstOf(tree, G, c.ver, c.key) = d
    BY <2>2, <2>3, FirstOfIs
  <2>6. firstOf(tree, G, d.ver, d.key) = d
    BY <2>3, <2>5
  <2>7. d \in M
    BY <1>1, <2>4, <2>6
  <2>8. \A q \in G : \A e : has(q, e) /\ earlier(q, s) => ~ same(e, c)
    BY <2>2 DEF isFirst, holds, same, has
  <2>. QED BY <2>3, <2>4, <2>5, <2>7, <2>8 DEF same
<1>3. ASSUME NEW c \in M
      PROVE  \E r \in G : has(r, c) /\ \A q \in G : \A d : has(q, d) /\ earlier(q, r) => ~ same(d, c)
  <2>1. PICK r \in G : has(r, c)
    BY <1>1
  <2>2. c = firstOf(tree, G, c.ver, c.key)
    BY <1>1
  <2>. QED BY <1>2, <2>1, <2>2
<1>4. M \subseteq Copy
  BY <1>1, HasTyped
<1>. QED BY <1>2, <1>3, <1>4 DEF mergedOf, M

LEMMA DiscardIsNat ==
  ASSUME VlogTyped
  PROVE  discardLimit \in Nat
<1>. DEFINE S == {vTs} \cup {iters[i].ts : i \in {i \in Iterators : iters[i] # NoIter}}
<1>1. S \in SUBSET Nat /\ S # {}
  BY DEF VlogTyped
<1>2. discardLimit = Min(S)
  BY DEF discardLimit
<1>. HIDE DEF S
<1>3. \E x \in S : \A y \in S : x <= y
  BY <1>1, Least
<1>. QED BY <1>1, <1>2, <1>3 DEF Min

keptOf(M, out, overlap) ==
  /\ out \subseteq M
  /\ \A c \in out, d \in M : d.key = c.key /\ d.ver > c.ver => d \in out
  /\ overlap => \A c \in M : \E d \in out : d.key = c.key /\ d.ver >= c.ver

LEMMA KeptIs ==
  ASSUME VlogTyped, NEW M \in SUBSET Copy, \A c \in M : c.ver <= vTs, NEW overlap \in BOOLEAN
  PROVE  keptOf(M, kept(M, overlap), overlap)
<1>. DEFINE out == kept(M, overlap)
<1>0. discardLimit \in Nat /\ vTs \in Nat
  BY DiscardIsNat DEF VlogTyped
<1>1. PICK ts : ts = discardLimit
  OBVIOUS
<1>2. \A c : c \in out <=>
        /\ c \in M
        /\ \/ c.ver > ts
           \/ /\ \A d \in M : d.key = c.key /\ d.ver <= ts => d.ver <= c.ver
              /\ c.kind = "del" => overlap
  BY <1>1 DEF kept
<1>. HIDE DEF out
<1>3. ts \in Nat /\ \A c \in M : c.ver \in Nat
  BY <1>0, <1>1, CopyFacts
<1>4. ASSUME NEW c \in out, NEW d \in M, d.key = c.key, d.ver > c.ver PROVE d \in out
  <2>1. d.ver > ts
    BY <1>2, <1>3, <1>4
  <2>. QED BY <1>2, <2>1
<1>5. ASSUME overlap, NEW c \in M PROVE \E d \in out : d.key = c.key /\ d.ver >= c.ver
  <2>1. CASE c.ver > ts
    BY <1>2, <1>3, <2>1
  <2>2. CASE ~ (c.ver > ts)
    <3>. DEFINE X == {x \in M : x.key = c.key /\ x.ver <= ts}
                D == {ts - x.ver : x \in X}
    <3>1. c \in X
      BY <1>3, <2>2
    <3>2. D \in SUBSET Nat /\ D # {}
      <4>1. \A x \in X : ts - x.ver \in Nat
        BY <1>3
      <4>. QED BY <3>1, <4>1
    <3>3. PICK m \in D : \A y \in D : m <= y
      <4>. HIDE DEF D
      <4>. QED BY <3>2, Least
    <3>4. PICK x \in X : m = ts - x.ver
      OBVIOUS
    <3>5. \A y \in X : y.ver <= x.ver
      <4>. SUFFICES ASSUME NEW y \in X PROVE y.ver <= x.ver
        OBVIOUS
      <4>1. ts - y.ver \in D
        OBVIOUS
      <4>2. ts - x.ver <= ts - y.ver
        BY <3>3, <3>4, <4>1
      <4>. QED BY <1>3, <4>2
    <3>6. x \in out
      BY <1>2, <1>5, <3>5
    <3>7. x.ver >= c.ver
      BY <1>3, <3>1, <3>5
    <3>. QED BY <3>6, <3>7
  <2>. QED BY <2>1, <2>2
<1>. QED BY <1>2, <1>4, <1>5 DEF keptOf, out

-----------------------------------------------------------------------------
(* A compaction of the tables of two places into one.                      *)
compacted(from, to, op, M, out, overlap) ==
  /\ mergedOf({s \in sourcesNow : s.tier \in {from, to}}, M)
  /\ keptOf(M, out, overlap)
  /\ \A s, c, d : s.tier \in op /\ has(s, d) /\ c \in M /\ d.key = c.key => overlap
  /\ \A s, c : s.tier \notin {from, to} => (has(s, c)' <=> has(s, c))
  /\ \A s, c : s.tier \in {from, to} => (has(s, c)' <=> s = src(to, 1) /\ c \in out)

merges(from, to, op, M, out, overlap) ==
  /\ from \in Places /\ to \in Places \ {"l0"} /\ from # to /\ compactInto(from, to, op)
  /\ M \in SUBSET Copy /\ M = mergeTables(tablesOf(tree, from) \cup tablesOf(tree, to))
  /\ overlap \in BOOLEAN /\ overlap = (\E p \in op : hasKeysOf(p, M))
  /\ out \in SUBSET Copy /\ out = kept(M, overlap)

oneTable(from, to, out) ==
  /\ tree'[from] = <<>>
  /\ \A i, c : i \in 1 .. Len(tree'[to]) /\ c \in tree'[to][i] <=> i = 1 /\ c \in out
  /\ \A p \in Places \ {from, to} : tree'[p] = tree[p]

LEMMA CompactTyped ==
  ASSUME VlogTyped, NEW from, NEW to, NEW op, NEW M, NEW out, NEW overlap, merges(from, to, op, M, out, overlap)
  PROVE  VlogTyped' /\ oneTable(from, to, out)
<1>. from \in Places /\ to \in Places /\ to # "l0" /\ from # to /\ compactInto(from, to, op) /\ M \in SUBSET Copy
     /\ M = mergeTables(tablesOf(tree, from) \cup tablesOf(tree, to)) /\ overlap = (\E p \in op : hasKeysOf(p, M))
     /\ out \in SUBSET Copy /\ out = kept(M, overlap)
  BY DEF merges
<1>1. tree \in Trees
  BY DEF VlogTyped, Trees
<1>2. PICK t : t = [tree EXCEPT ![from] = <<>>, ![to] = <<>>]
  OBVIOUS
<1>3. t \in Trees /\ t[from] = <<>> /\ t[to] = <<>> /\ \A p \in Places \ {from, to} : t[p] = tree[p]
  <2>1. <<>> \in Seq(SUBSET Copy)
    OBVIOUS
  <2>. QED BY <1>1, <1>2, <2>1 DEF Trees
<1>4. tree' = addTable(t, to, out)
  BY <1>2 DEF compactInto
<1>5. added(tree', t, to, out)
  BY <1>3, <1>4, AddTableIs
<1>6. tree' \in Trees /\ tree'[from] = <<>> /\ \A p \in Places \ {from, to} : tree'[p] = tree[p]
  BY <1>3, <1>5 DEF added
<1>7. \A i, c : i \in 1 .. Len(tree'[to]) /\ c \in tree'[to][i] <=> i = 1 /\ c \in out
  <2>. SUFFICES ASSUME NEW i, NEW c PROVE i \in 1 .. Len(tree'[to]) /\ c \in tree'[to][i] <=> i = 1 /\ c \in out
    OBVIOUS
  <2>1. i \in 1 .. Len(tree'[to]) /\ c \in tree'[to][i] <=>
          (i \in 1 .. Len(t[to]) /\ c \in t[to][i]) \/ (i = Len(t[to]) + 1 /\ c \in out)
    <3>1. PICK u : u = tree'
      OBVIOUS
    <3>2. added(u, t, to, out)
      BY <1>5, <3>1
    <3>3. i \in 1 .. Len(u[to]) /\ c \in u[to][i] <=>
            (i \in 1 .. Len(t[to]) /\ c \in t[to][i]) \/ (i = Len(t[to]) + 1 /\ c \in out)
      <4>1. t \in Trees /\ to \in Places /\ out \in SUBSET Copy
        BY <1>3
      <4>. QED BY <3>2, <4>1, AddedCopies
    <3>. QED BY <3>1, <3>3
  <2>2. Len(t[to]) = 0
    BY <1>3
  <2>3. ~ (i \in 1 .. 0) /\ 0 + 1 = 1
    OBVIOUS
  <2>. QED BY <2>1, <2>2, <2>3
<1>8. Len(tree'[to]) <= 1 /\ Len(tree'[to]) \in Nat
  <2>1. CASE tree'[to] = t[to]
    BY <1>3, <2>1
  <2>2. CASE tree'[to] = Append(t[to], out)
    <3>1. tree'[to] = <<out>>
      BY <1>3, <2>2
    <3>. QED BY <3>1
  <2>. QED BY <1>5, <2>1, <2>2 DEF added
<1>9. Len(tree'["l99"]) <= 1 /\ Len(tree'["base"]) <= 1
  <2>1. Len(tree'[from]) <= 1
    BY <1>6
  <2>2. "l99" \in Places /\ "base" \in Places
    BY DEF Places
  <2>. QED BY <1>6, <1>8, <2>1, <2>2 DEF VlogTyped
<1>10. l0run \in 0 .. Len(tree'["l0"])
  <2>1. "l0" \in Places /\ l0run \in Nat
    <3>1. l0run \in 0 .. Len(tree["l0"])
      BY DEF VlogTyped
    <3>. QED BY <3>1 DEF Places
  <2>2. CASE "l0" \notin {from, to}
    BY <1>6, <2>1, <2>2 DEF VlogTyped
  <2>3. CASE from = "l0"
    <3>1. from = "l0" => l0run = 0
      BY DEF compactInto
    <3>2. Len(tree'["l0"]) = 0
      BY <1>6, <2>3
    <3>. QED BY <2>3, <3>1, <3>2
  <2>. QED BY <2>2, <2>3
<1>11. UNCHANGED <<vTs, heat, mems, nFlushed, l0run, iters, newest>>
  BY DEF compactInto
<1>12. VlogTyped'
  BY <1>6, <1>9, <1>10, <1>11 DEF VlogTyped, Trees
<1>. QED BY <1>6, <1>7, <1>12 DEF oneTable

LEMMA MergedBound ==
  ASSUME VlogTyped, VersionsAgree, NEW G \in SUBSET sourcesNow, NEW M, mergedOf(G, M)
  PROVE  M \in SUBSET Copy /\ \A c \in M : c.ver <= vTs
<1>1. \A c \in M : \E r : has(r, c)
  BY DEF mergedOf
<1>2. \A r, c : has(r, c) => c.ver <= vTs
  <2>. SUFFICES ASSUME NEW r, NEW c, has(r, c) PROVE c.ver <= vTs
    OBVIOUS
  <2>1. c.ver \in 1 .. vTs /\ vTs \in Nat
    BY VersionBound DEF VlogTyped
  <2>. QED BY <2>1
<1>. QED BY <1>1, <1>2 DEF mergedOf

LEMMA HeldMade == keepBy => VersionsAgree /\ TiersApart /\ VersionsRise
BY HeldForms DEF keepBy, heldForms, heldInv

LEMMA CompactMoves ==
  ASSUME keepBy, NEW from \in Places, NEW to \in Places, from # to, to # "l0", NEW op \in SUBSET Places,
         compactInto(from, to, op)
  PROVE  VlogTyped' /\ \E M, out, overlap : compacted(from, to, op, M, out, overlap)
<1>. VlogTyped /\ VersionsAgree
  BY HeldMade DEF keepBy
<1>. DEFINE G == tablesOf(tree, from) \cup tablesOf(tree, to)
<1>1. sourcesAre /\ hasIs
  BY SourcesAre, HasIs
<1>2. \A p \in Places : \A s : s \in tablesOf(tree, p) <=> s \in sourcesNow /\ s.tier = p
  <2>. SUFFICES ASSUME NEW p \in Places, NEW s PROVE s \in tablesOf(tree, p) <=> s \in sourcesNow /\ s.tier = p
    OBVIOUS
  <2>1. s \in tablesOf(tree, p) => s \in sourcesNow /\ s.tier = p
    BY DEF tablesOf, sourcesNow
  <2>2. ASSUME s \in sourcesNow, s.tier = p PROVE s \in tablesOf(tree, p)
    <3>1. s = src(p, s.n)
      BY <1>1, <2>2 DEF sourcesAre, isSource
    <3>2. s.n \in 1 .. Len(tree[p])
      BY <1>1, <2>2, <3>1 DEF sourcesAre
    <3>. QED BY <3>1, <3>2 DEF tablesOf, src
  <2>. QED BY <2>1, <2>2
<1>3. G = {s \in sourcesNow : s.tier \in {from, to}}
  BY <1>2
<1>. HIDE DEF G
<1>4. G \in SUBSET sourcesNow
  BY <1>3
<1>5. PICK M : M = mergeTables(G)
  OBVIOUS
<1>6. mergedOf(G, M)
  BY <1>4, <1>5, MergedIs
<1>7. M \in SUBSET Copy /\ \A c \in M : c.ver <= vTs
  BY <1>4, <1>6, MergedBound
<1>8. PICK overlap \in BOOLEAN : overlap = (\E p \in op : hasKeysOf(p, M))
  OBVIOUS
<1>9. PICK out : out = kept(M, overlap)
  OBVIOUS
<1>10. keptOf(M, out, overlap)
  BY <1>7, <1>8, <1>9, KeptIs
<1>11. out \in SUBSET Copy
  BY <1>7, <1>10 DEF keptOf
<1>12. M = mergeTables(tablesOf(tree, from) \cup tablesOf(tree, to))
  BY <1>5 DEF G
<1>13. /\ VlogTyped'
       /\ tree'[from] = <<>>
       /\ \A i, c : i \in 1 .. Len(tree'[to]) /\ c \in tree'[to][i] <=> i = 1 /\ c \in out
       /\ \A p \in Places \ {from, to} : tree'[p] = tree[p]
  <2>1. merges(from, to, op, M, out, overlap)
    BY <1>7, <1>8, <1>9, <1>11, <1>12 DEF merges
  <2>2. VlogTyped' /\ oneTable(from, to, out)
    BY <2>1, CompactTyped
  <2>. QED BY <2>2 DEF oneTable
<1>14. hasIs'
  BY <1>13, HasIsNext
<1>15. UNCHANGED <<mems, nFlushed>>
  BY DEF compactInto
<1>16. \A i, c : has(src("mem", i), c)' <=> has(src("mem", i), c)
  BY <1>1, <1>14, <1>15 DEF hasIs
<1>17. \A p \in Places \ {from, to} : \A i, c : has(src(p, i), c)' <=> has(src(p, i), c)
  BY <1>1, <1>13, <1>14 DEF hasIs
<1>18. \A i, c : ~ has(src(from, i), c)'
  <2>1. \A i : ~ (i \in 1 .. Len(tree'[from]))
    BY <1>13
  <2>. QED BY <1>14, <2>1 DEF hasIs
<1>19. \A i, c : has(src(to, i), c)' <=> i = 1 /\ c \in out
  BY <1>13, <1>14 DEF hasIs
<1>20. \A s, c : has(s, c) \/ has(s, c)' => isSource(s)
  BY <1>1, <1>14 DEF hasIs, isSource, src, Tiers
<1>21. \A p, i : src(p, i).tier = p /\ src(p, i).n = i
  BY DEF src
<1>22. ASSUME NEW s, NEW c, s.tier \notin {from, to} PROVE has(s, c)' <=> has(s, c)
  <2>. SUFFICES ASSUME isSource(s) PROVE has(s, c)' <=> has(s, c)
    BY <1>20
  <2>1. PICK p, i : s = src(p, i) /\ p \in Tiers /\ p \notin {from, to}
    BY <1>22 DEF isSource
  <2>2. has(src(p, i), c)' <=> has(src(p, i), c)
    BY <1>16, <1>17, <2>1 DEF Tiers
  <2>. QED BY <2>1, <2>2
<1>23. ASSUME NEW s, NEW c, s.tier \in {from, to} PROVE has(s, c)' <=> s = src(to, 1) /\ c \in out
  <2>1. CASE isSource(s)
    <3>1. PICK p, i : s = src(p, i) /\ p \in {from, to}
      BY <1>23, <2>1 DEF isSource
    <3>2. CASE p = from
      <4>1. ~ has(src(from, i), c)' /\ s # src(to, 1)
        BY <1>18, <1>21, <3>1, <3>2
      <4>. QED BY <3>1, <3>2, <4>1
    <3>3. CASE p = to
      <4>1. has(src(to, i), c)' <=> i = 1 /\ c \in out
        BY <1>19
      <4>2. s = src(to, 1) <=> i = 1
        BY <1>21, <3>1, <3>3
      <4>. QED BY <3>1, <3>3, <4>1, <4>2
    <3>. QED BY <3>1, <3>2, <3>3
  <2>2. CASE ~ isSource(s)
    <3>1. ~ has(s, c)'
      BY <1>20, <2>2
    <3>2. isSource(src(to, 1))
      BY <1>21 DEF isSource, Tiers
    <3>. QED BY <2>2, <3>1, <3>2
  <2>. QED BY <2>1, <2>2
<1>24. ASSUME NEW s, NEW c, NEW d, s.tier \in op, has(s, d), c \in M, d.key = c.key PROVE overlap
  <2>1. s \in tablesOf(tree, s.tier) /\ d \in content(tree, s)
    BY <1>2, <1>24 DEF has
  <2>2. hasKeysOf(s.tier, M)
    BY <1>24, <2>1 DEF hasKeysOf, copiesIn
  <2>. QED BY <1>8, <1>24, <2>2
<1>25. compacted(from, to, op, M, out, overlap)
  BY <1>3, <1>6, <1>10, <1>22, <1>23, <1>24 DEF compacted
<1>. QED BY <1>13, <1>25

-----------------------------------------------------------------------------
(* The three compactions.                                                  *)
goesDown(from, to, op) ==
  \/ from = "l98" /\ to = "l99" /\ op = {"l0", "base"}
  \/ from = "l99" /\ to = "base" /\ op = {"l0", "base"}
  \/ from = "l0" /\ to = "base" /\ op = {"l98", "l99"}

(* Every version that a compaction had it had in one of its tables.        *)
LEMMA CompactedFrom ==
  ASSUME NEW from, NEW to, NEW op, NEW M, NEW out, NEW overlap, compacted(from, to, op, M, out, overlap)
  PROVE  /\ \A c \in M : \E r : has(r, c) /\ r.tier \in {from, to}
         /\ \A s, c : has(s, c)' => has(s, c) \/ (s.tier = to /\ c \in out /\ c \in M)
         /\ \A s, c : has(s, c)' => \E r : has(r, c)
<1>1. \A c \in M : \E r : has(r, c) /\ r.tier \in {from, to}
  BY DEF compacted, mergedOf
<1>2. src(to, 1).tier = to
  BY DEF src
<1>3. \A s, c : has(s, c)' => has(s, c) \/ (s.tier = to /\ c \in out /\ c \in M)
  <2>. SUFFICES ASSUME NEW s, NEW c, has(s, c)', ~ has(s, c) PROVE s.tier = to /\ c \in out /\ c \in M
    OBVIOUS
  <2>1. s.tier \in {from, to}
    BY DEF compacted
  <2>2. s = src(to, 1) /\ c \in out
    BY <2>1 DEF compacted
  <2>. QED BY <1>2, <2>2 DEF compacted, keptOf
<1>. QED BY <1>1, <1>3

LEMMA CompactMade ==
  ASSUME NEW from, NEW to, NEW op, NEW M, NEW out, NEW overlap, compacted(from, to, op, M, out, overlap),
         VlogTyped, madeBy, UNCHANGED <<newest, files>>
  PROVE  madeBy'
<1>1. \A s, c : has(s, c)' => \E r : has(r, c)
  BY CompactedFrom
<1>2. ASSUME NEW c \in M, NEW d \in M, same(c, d) PROVE c = d
  <2>. DEFINE G == {s \in sourcesNow : s.tier \in {from, to}}
  <2>1. PICK r \in G : has(r, c) /\ \A q \in G : \A e : has(q, e) /\ earlier(q, r) => ~ same(e, c)
    BY DEF compacted, mergedOf
  <2>2. PICK s \in G : has(s, d) /\ \A q \in G : \A e : has(q, e) /\ earlier(q, s) => ~ same(e, d)
    BY DEF compacted, mergedOf
  <2>3. isSource(r) /\ isSource(s)
    BY <2>1, <2>2, HasIs DEF hasIs
  <2>4. ~ earlier(r, s) /\ ~ earlier(s, r)
    BY <1>2, <2>1, <2>2 DEF same
  <2>5. r = s
    BY <2>3, <2>4, EarlierOrder
  <2>. QED BY <1>2, <2>1, <2>2, <2>5 DEF madeBy
<1>3. ASSUME NEW s, NEW c, NEW d, has(s, c)', has(s, d)', same(c, d) PROVE c = d
  <2>1. CASE s.tier \notin {from, to}
    BY <1>3, <2>1 DEF compacted, madeBy
  <2>2. CASE s.tier \in {from, to}
    <3>1. c \in M /\ d \in M
      BY <1>3, <2>2 DEF compacted, keptOf
    <3>. QED BY <1>2, <1>3, <3>1
  <2>. QED BY <2>1, <2>2
<1>4. \A s, c : has(s, c)' => c.ver <= newest'[c.key].ver
  BY <1>1 DEF madeBy
<1>6. \A r, s, c, d : has(r, c)' /\ has(s, d)' /\ same(c, d) => c.kind = d.kind
  BY <1>1 DEF madeBy
<1>7. \A f \in DOMAIN files' : \A i \in DOMAIN files'[f] :
        /\ files'[f][i].ver <= newest'[files'[f][i].key].ver
        /\ \A s, c : has(s, c)' /\ same(c, files'[f][i]) => c.kind = "put"
  BY <1>1 DEF madeBy
<1>. QED BY <1>3, <1>4, <1>6, <1>7 DEF madeBy, same

LEMMA CompactApart ==
  ASSUME NEW from, NEW to, NEW op, NEW M, NEW out, NEW overlap, compacted(from, to, op, M, out, overlap),
         goesDown(from, to, op), apartBy, UNCHANGED <<heat, upset>>
  PROVE  apartBy'
<1>. SUFFICES ASSUME NEW s, NEW c, has(s, c)', c.key \notin upset, c.kind = "put"
              PROVE  (isHotSource(s) => c.key \in heat) /\ (s.tier = "l0" => c.key \notin heat)
  BY DEF apartBy, isHotSource
<1>1. CASE has(s, c)
  BY <1>1 DEF apartBy
<1>2. CASE s.tier = to /\ c \in M
  <2>1. PICK r : has(r, c) /\ r.tier \in {from, to}
    BY <1>2, CompactedFrom
  <2>2. CASE to = "l99" /\ from = "l98"
    BY <1>2, <2>1, <2>2 DEF apartBy, isHotSource
  <2>3. CASE to = "base"
    BY <1>2, <2>3 DEF isHotSource
  <2>. QED BY <2>2, <2>3 DEF goesDown
<1>. QED BY <1>1, <1>2, CompactedFrom

LEMMA CompactRise ==
  ASSUME NEW from, NEW to, NEW op, NEW M, NEW out, NEW overlap, compacted(from, to, op, M, out, overlap),
         goesDown(from, to, op), riseBy, VlogTyped, UNCHANGED <<heat, upset>>
  PROVE  riseBy'
<1>. SUFFICES ASSUME NEW r, NEW s, NEW c, NEW d, has(r, c)', has(s, d)', onHotPath(r), onHotPath(s), earlier(r, s),
                     c.key = d.key, c.key \notin upset, goesHot(c), goesHot(d)
              PROVE  c.ver >= d.ver
  BY DEF riseBy, onHotPath, isHotSource, earlier, goesHot
<1>1. CASE has(r, c) /\ has(s, d)
  BY <1>1 DEF riseBy
<1>2. CASE ~ has(r, c) \/ ~ has(s, d)
  <2>1. to = "l99" /\ from = "l98"
    BY <1>2, CompactedFrom DEF onHotPath, isHotSource, goesDown
  <2>2. \A q, e : has(q, e)' /\ onHotPath(q) => q.tier = "mem" \/ q = src("l99", 1)
    BY <2>1 DEF compacted, onHotPath, isHotSource
  <2>3. r.tier = "mem" \/ r = src("l99", 1)
    BY <2>2
  <2>4. s.tier = "mem" \/ s = src("l99", 1)
    BY <2>2
  <2>5. src("l99", 1).tier = "l99" /\ src("l99", 1).n = 1
    BY DEF src
  <2>6. r.tier = "mem" /\ has(r, c)
    <3>1. ~ (r = src("l99", 1))
      BY <2>4, <2>5 DEF earlier, rank
    <3>2. r.tier = "mem"
      BY <2>3, <3>1
    <3>. QED BY <2>1, <3>2 DEF compacted
  <2>7. s = src("l99", 1)
    <3>1. s.tier = "mem" => has(s, d)
      BY <2>1 DEF compacted
    <3>. QED BY <1>2, <2>4, <2>6, <3>1
  <2>8. d \in M
    <3>1. s.tier = "l99"
      BY <2>5, <2>7
    <3>. QED BY <2>1, <3>1 DEF compacted, keptOf
  <2>9. PICK q : has(q, d) /\ q.tier \in {from, to}
    BY <2>8, CompactedFrom
  <2>10. earlier(r, q) /\ onHotPath(q)
    BY <2>1, <2>6, <2>9 DEF earlier, rank, onHotPath, isHotSource
  <2>. QED BY <2>6, <2>9, <2>10 DEF riseBy
<1>. QED BY <1>1, <1>2

(* What a compaction says about newer versions of a key.                   *)
LEMMA CompactNewer ==
  ASSUME NEW from, NEW to, NEW op, NEW M, NEW out, NEW overlap, compacted(from, to, op, M, out, overlap),
         VlogTyped, NEW c \in Copy, newerThan(c), overlap \/ c \in out
  PROVE  newerThan(c)'
<1>1. PICK q, d : has(q, d) /\ d.key = c.key /\ d.ver > c.ver
  BY DEF newerThan
<1>2. CASE q.tier \notin {from, to}
  <2>1. has(q, d)'
    BY <1>1, <1>2 DEF compacted
  <2>. QED BY <1>1, <2>1 DEF newerThan
<1>3. CASE q.tier \in {from, to}
  <2>1. PICK g \in M : same(g, d)
    <3>1. q \in sourcesNow
      BY <1>1 DEF has
    <3>. QED BY <1>1, <1>3, <3>1 DEF compacted, mergedOf
  <2>2. g.key = c.key /\ g.ver > c.ver
    BY <1>1, <2>1 DEF same
  <2>3. M \subseteq Copy /\ keptOf(M, out, overlap)
    BY DEF compacted, mergedOf
  <2>4. PICK x \in out : x.key = c.key /\ x.ver >= g.ver
    <3>1. CASE overlap
      BY <2>2, <2>3, <3>1 DEF keptOf
    <3>2. CASE c \in out
      <4>1. g \in out
        BY <2>2, <2>3, <3>2 DEF keptOf
      <4>2. g.ver \in Nat
        BY <2>3, CopyFacts
      <4>. QED BY <2>2, <4>1, <4>2
    <3>. QED BY <3>1, <3>2
  <2>5. x.ver > c.ver
    <3>1. x \in M
      BY <2>3 DEF keptOf
    <3>2. x.ver \in Nat /\ g.ver \in Nat /\ c.ver \in Nat
      BY <2>3, <3>1, CopyFacts
    <3>. QED BY <2>2, <2>4, <3>2
  <2>6. has(src(to, 1), x)'
    <3>1. src(to, 1).tier = to
      BY DEF src
    <3>. QED BY <3>1 DEF compacted
  <2>. QED BY <2>4, <2>5, <2>6 DEF newerThan
<1>. QED BY <1>2, <1>3

LEMMA CompactHidden ==
  ASSUME NEW from, NEW to, NEW op, NEW M, NEW out, NEW overlap, compacted(from, to, op, M, out, overlap),
         goesDown(from, to, op), VlogTyped, heldBy, UNCHANGED <<heat, upset, newest, files, filesToBeDeleted, gc>>
  PROVE  hiddenBy'
<1>1. madeBy /\ apartBy /\ hiddenBy
  BY DEF heldBy
<1>2. \A c : isLost(c)' <=> isLost(c)
  BY DEF isLost, readable
<1>. SUFFICES ASSUME NEW s, NEW c, has(s, c)', c.key \notin upset, isLost(c), firstAt(s, c)'
              PROVE  s.tier = "base" /\ newerThan(c)'
  BY <1>2 DEF hiddenBy
<1>3. c.kind = "put"
  BY DEF isLost
<1>4. \A r, d : has(r, d)' /\ earlier(r, s) => ~ same(d, c)
  BY DEF firstAt, same, earlier
<1>5. \A r, d : has(r, d) => isSource(r) /\ r \in sourcesNow
  BY HasIs DEF hasIs, has
<1>6. M \subseteq Copy /\ keptOf(M, out, overlap) /\ mergedOf({r \in sourcesNow : r.tier \in {from, to}}, M)
  BY DEF compacted, mergedOf
<1>7. src(to, 1).tier = to
  BY DEF src
<1>8. \A x \in out : has(src(to, 1), x)'
  BY <1>7 DEF compacted
<1>9. CASE s.tier \notin {from, to}
  <2>1. has(s, c)
    BY <1>9 DEF compacted
  <2>2. c \in Copy
    BY <2>1, HasTyped
  <2>3. CASE firstAt(s, c)
    <3>1. s.tier = "base" /\ newerThan(c)
      BY <1>1, <2>1, <2>3 DEF hiddenBy
    <3>2. s.tier \in op
      BY <1>9, <3>1 DEF goesDown
    <3>3. CASE overlap
      BY <2>2, <3>1, <3>3, CompactNewer
    <3>4. CASE ~ overlap
      <4>1. \A g \in M : g.key # c.key
        BY <2>1, <3>2, <3>4 DEF compacted
      <4>2. PICK q, d : has(q, d) /\ d.key = c.key /\ d.ver > c.ver
        BY <3>1 DEF newerThan
      <4>3. q.tier \notin {from, to}
        BY <1>5, <1>6, <4>1, <4>2 DEF mergedOf, same
      <4>4. has(q, d)'
        BY <4>2, <4>3 DEF compacted
      <4>. QED BY <3>1, <4>2, <4>4 DEF newerThan
    <3>. QED BY <3>3, <3>4
  <2>4. CASE ~ firstAt(s, c)
    <3>1. PICK r, d : has(r, d) /\ earlier(r, s) /\ same(d, c)
      BY <2>4 DEF firstAt
    <3>2. r.tier \in {from, to}
      <4>1. ~ has(r, d)'
        BY <1>4, <3>1
      <4>. QED BY <3>1, <4>1 DEF compacted
    <3>3. d.kind = "put" /\ d.key = c.key /\ d.ver = c.ver
      BY <1>1, <1>3, <2>1, <3>1 DEF madeBy, same
    <3>4. ~ (isHotSource(r) /\ s.tier = "l0")
      BY <1>1, <1>3, <2>1, <3>1, <3>3 DEF apartBy
    <3>5. isSource(s)
      BY <1>5, <2>1
    <3>6. from = "l98" /\ to = "l99" /\ s.tier = "base" /\ s.tier \in op
      BY <1>9, <3>1, <3>2, <3>4, <3>5 DEF goesDown, earlier, rank, isHotSource, isSource, Tiers, Places
    <3>7. PICK g \in M : same(g, d)
      BY <1>5, <1>6, <3>1, <3>2 DEF mergedOf
    <3>8. overlap
      <4>1. g.key = c.key
        BY <3>3, <3>7 DEF same
      <4>. QED BY <2>1, <3>6, <4>1 DEF compacted
    <3>9. PICK x \in out : x.key = g.key /\ x.ver >= g.ver
      BY <1>6, <3>8 DEF keptOf
    <3>10. has(src(to, 1), x)'
      BY <1>8
    <3>11. earlier(src(to, 1), s)
      BY <1>7, <3>6 DEF earlier, rank
    <3>12. x.key = c.key /\ x.ver >= c.ver
      BY <3>3, <3>7, <3>9 DEF same
    <3>13. x.ver # c.ver
      BY <1>4, <3>10, <3>11, <3>12 DEF same
    <3>14. x.ver \in Nat /\ c.ver \in Nat
      <4>1. x \in M
        BY <1>6 DEF keptOf
      <4>. QED BY <1>6, <2>2, <4>1, CopyFacts
    <3>15. x.ver > c.ver
      BY <3>12, <3>13, <3>14
    <3>. QED BY <3>6, <3>10, <3>12, <3>15 DEF newerThan
  <2>. QED BY <2>3, <2>4
<1>10. CASE s.tier \in {from, to}
  <2>1. s = src(to, 1) /\ c \in out /\ c \in M /\ s.tier = to
    BY <1>6, <1>7, <1>10 DEF compacted, keptOf
  <2>2. PICK r : /\ r \in sourcesNow /\ r.tier \in {from, to} /\ has(r, c)
                 /\ \A q \in sourcesNow : q.tier \in {from, to} => \A d : has(q, d) /\ earlier(q, r) => ~ same(d, c)
    BY <1>6, <2>1 DEF mergedOf
  <2>3. CASE firstAt(r, c)
    <3>1. r.tier = "base" /\ newerThan(c)
      BY <1>1, <2>2, <2>3 DEF hiddenBy
    <3>2. to = "base"
      BY <2>2, <3>1 DEF goesDown
    <3>3. c \in Copy
      BY <1>6, <2>1
    <3>. QED BY <2>1, <3>1, <3>2, <3>3, CompactNewer
  <2>4. CASE ~ firstAt(r, c)
    <3>1. PICK q, d : has(q, d) /\ earlier(q, r) /\ same(d, c)
      BY <2>4 DEF firstAt
    <3>2. q.tier \notin {from, to}
      BY <1>5, <2>2, <3>1
    <3>3. has(q, d)'
      BY <3>1, <3>2 DEF compacted
    <3>4. rank(q.tier) < rank(r.tier)
      BY <2>2, <3>1, <3>2 DEF earlier
    <3>5. isSource(q)
      BY <1>5, <3>1
    <3>6. earlier(q, s)
      <4>1. rank(q.tier) < rank(to)
        BY <2>2, <3>4, <3>5 DEF goesDown, rank, isSource, Tiers, Places
      <4>. QED BY <2>1, <4>1 DEF earlier
    <3>. QED BY <1>4, <3>1, <3>3, <3>6
  <2>. QED BY <2>3, <2>4
<1>. QED BY <1>9, <1>10

LEMMA CompactKeeps ==
  ASSUME NEW from \in Places, NEW to \in Places, NEW op \in SUBSET Places, goesDown(from, to, op),
         keepBy, compactInto(from, to, op)
  PROVE  keepBy'
<1>1. from # to /\ to # "l0"
  BY DEF goesDown
<1>2. VlogTyped' /\ \E M, out, overlap : compacted(from, to, op, M, out, overlap)
  BY <1>1, CompactMoves
<1>3. PICK M, out, overlap : compacted(from, to, op, M, out, overlap)
  BY <1>2
<1>4. UNCHANGED <<vTs, heat, upset, newest, files, maxFid, hotMaxFid, filesToBeDeleted, gc>>
  BY DEF compactInto, fileVars
<1>5. VlogTyped /\ heldBy /\ madeBy /\ apartBy /\ riseBy
  BY DEF keepBy, heldBy
<1>6. FilesMade' /\ GcMade'
  BY <1>4 DEF keepBy, FilesMade, GcMade, isOld, isActive, isHotVlog
<1>7. madeBy'
  BY <1>3, <1>4, <1>5, CompactMade
<1>8. apartBy'
  BY <1>3, <1>4, <1>5, CompactApart
<1>9. riseBy'
  BY <1>3, <1>4, <1>5, CompactRise
<1>10. hiddenBy'
  BY <1>3, <1>4, <1>5, CompactHidden
<1>. QED BY <1>2, <1>6, <1>7, <1>8, <1>9, <1>10 DEF keepBy, heldBy

LEMMA CompactionsKeep == keepBy /\ (compactL98 \/ compactL99 \/ compactL0) => keepBy'
<1>1. {"l98", "l99", "l0", "base"} = Places
  BY DEF Places
<1>2. keepBy /\ compactL98 => keepBy'
  BY <1>1, CompactKeeps DEF compactL98, goesDown
<1>3. keepBy /\ compactL99 => keepBy'
  BY <1>1, CompactKeeps DEF compactL99, goesDown
<1>4. keepBy /\ compactL0 => keepBy'
  BY <1>1, CompactKeeps DEF compactL0, goesDown
<1>. QED BY <1>2, <1>3, <1>4

(* The compaction of tables of level 0 into one of level 0.                *)
pickedL0 == {s \in sourcesNow : s.tier = "l0" /\ s.n <= l0run}

l0Compacted(M, out, overlap) ==
  /\ mergedOf(pickedL0, M)
  /\ keptOf(M, out, overlap)
  /\ \A s, c, d : s.tier # "l0" /\ s.tier # "mem" /\ has(s, d) /\ c \in M /\ d.key = c.key => overlap
  /\ \A s, c : s.tier # "l0" => (has(s, c)' <=> has(s, c))
  /\ \A s, c : s.tier = "l0" /\ has(s, c)' =>
       \/ \A d : has(s, d)' => d \in out
       \/ \E r : r.tier = "l0" /\ r \notin pickedL0 /\ \A d : has(s, d)' => has(r, d)
  /\ \A x \in out : \E s : s.tier = "l0" /\ has(s, x)'
  /\ \A r, d : r.tier = "l0" /\ r \notin pickedL0 /\ has(r, d) => \E s : s.tier = "l0" /\ has(s, d)'
  /\ upset \subseteq upset'
  /\ \A r, c : r.tier = "l0" /\ r \notin pickedL0 /\ has(r, c) /\ c.key \notin upset' =>
       /\ \A g \in M : g.key # c.key
       /\ \A q, d : q.tier = "l0" /\ q \notin pickedL0 /\ has(q, d) /\ d.key = c.key => q = r

(* A sequence after another one with, perhaps, one table more.             *)
reorders(rest, out, tables, at, u) ==
  /\ rest \in Seq(SUBSET Copy) /\ out \in SUBSET Copy
  /\ tables = rest \/ tables = Append(rest, out)
  /\ out # {} => tables = Append(rest, out)
  /\ at \in orders(Len(tables)) /\ u = [i \in 1 .. Len(tables) |-> tables[at[i]]]

reordered(rest, out, u) ==
  /\ u \in Seq(SUBSET Copy)
  /\ \A i \in 1 .. Len(u) : (\E j \in 1 .. Len(rest) : u[i] = rest[j]) \/ u[i] = out
  /\ \A j \in 1 .. Len(rest) : \E i \in 1 .. Len(u) : u[i] = rest[j]
  /\ out # {} => \E i \in 1 .. Len(u) : u[i] = out

LEMMA ReorderedTables ==
  ASSUME NEW rest, NEW out, NEW tables, NEW at, NEW u, reorders(rest, out, tables, at, u)
  PROVE  reordered(rest, out, u)
<1>. rest \in Seq(SUBSET Copy) /\ out \in SUBSET Copy /\ (tables = rest \/ tables = Append(rest, out))
     /\ (out # {} => tables = Append(rest, out))
  BY DEF reorders
<1>0. PICK n : n = Len(tables) /\ at \in orders(n) /\ u = [i \in 1 .. n |-> tables[at[i]]]
  BY DEF reorders
<1>1. Append(rest, out) \in Seq(SUBSET Copy)
  OBVIOUS
<1>2. tables \in Seq(SUBSET Copy) /\ n \in Nat
  BY <1>0, <1>1
<1>3. Len(rest) \in Nat
  OBVIOUS
<1>4. \A j \in 1 .. n : (\E i \in 1 .. Len(rest) : tables[j] = rest[i]) \/ tables[j] = out
  <2>1. CASE tables = rest
    BY <1>0, <2>1
  <2>2. CASE tables = Append(rest, out)
    <3>1. n = Len(rest) + 1 /\ tables[Len(rest) + 1] = out /\ \A j \in 1 .. Len(rest) : tables[j] = rest[j]
      BY <1>0, <2>2
    <3>2. \A j \in 1 .. n : j \in 1 .. Len(rest) \/ j = Len(rest) + 1
      BY <1>3, <3>1
    <3>. QED BY <3>1, <3>2
  <2>. QED BY <2>1, <2>2
<1>5. \A j \in 1 .. Len(rest) : j \in 1 .. n /\ tables[j] = rest[j]
  <2>1. CASE tables = rest
    BY <1>0, <2>1
  <2>2. CASE tables = Append(rest, out)
    <3>1. n = Len(rest) + 1 /\ \A j \in 1 .. Len(rest) : tables[j] = rest[j]
      BY <1>0, <2>2
    <3>2. \A j \in 1 .. Len(rest) : j \in 1 .. n
      BY <1>3, <3>1
    <3>. QED BY <3>1, <3>2
  <2>. QED BY <2>1, <2>2
<1>6. out # {} => \E j \in 1 .. n : tables[j] = out
  <2>. SUFFICES ASSUME out # {} PROVE \E j \in 1 .. n : tables[j] = out
    OBVIOUS
  <2>1. n = Len(rest) + 1 /\ tables[Len(rest) + 1] = out
    BY <1>0
  <2>2. Len(rest) + 1 \in 1 .. n
    BY <1>3, <2>1
  <2>. QED BY <2>1, <2>2
<1>7. at \in [1 .. n -> 1 .. n] /\ \A j \in 1 .. n : \E i \in 1 .. n : at[i] = j
  BY <1>0 DEF orders
<1>8. \A j \in 1 .. n : tables[j] \in SUBSET Copy
  BY <1>0, <1>2
<1>9. u \in [1 .. n -> SUBSET Copy]
  BY <1>0, <1>7, <1>8
<1>10. u \in Seq(SUBSET Copy) /\ Len(u) = n
  BY <1>2, <1>9
<1>11. \A i \in 1 .. n : at[i] \in 1 .. n /\ u[i] = tables[at[i]]
  BY <1>0, <1>7
<1>. HIDE DEF orders
<1>12. \A i \in 1 .. n : (\E j \in 1 .. Len(rest) : u[i] = rest[j]) \/ u[i] = out
  BY <1>4, <1>11
<1>13. \A j \in 1 .. n : \E i \in 1 .. n : u[i] = tables[j]
  <2>. SUFFICES ASSUME NEW j \in 1 .. n PROVE \E i \in 1 .. n : u[i] = tables[j]
    OBVIOUS
  <2>1. PICK i \in 1 .. n : at[i] = j
    BY <1>7
  <2>2. u[i] = tables[j]
    BY <1>11, <2>1
  <2>. QED BY <2>2
<1>14. \A j \in 1 .. Len(rest) : \E i \in 1 .. n : u[i] = rest[j]
  BY <1>5, <1>13
<1>15. out # {} => \E i \in 1 .. n : u[i] = out
  BY <1>6, <1>13
<1>. QED BY <1>10, <1>12, <1>14, <1>15 DEF reordered

LEMMA L0Moves ==
  ASSUME keepBy, finishL0ToL0
  PROVE  VlogTyped' /\ \E M, out, overlap : l0Compacted(M, out, overlap)
<1>. VlogTyped /\ VersionsAgree
  BY HeldMade DEF keepBy
<1>1. sourcesAre /\ hasIs
  BY SourcesAre, HasIs
<1>2. tree \in Trees /\ l0run \in Nat /\ l0run <= Len(tree["l0"]) /\ "l0" \in Places /\ Len(tree["l0"]) \in Nat
  <2>1. tree \in Trees /\ l0run \in 0 .. Len(tree["l0"]) /\ "l0" \in Places
    BY DEF VlogTyped, Trees, Places
  <2>2. Len(tree["l0"]) \in Nat
    BY <2>1 DEF Trees
  <2>. QED BY <2>1, <2>2
<1>3. \A i : src("l0", i).tier = "l0" /\ src("l0", i).n = i
  BY DEF src
<1>4. \A s : s \in sourcesNow /\ s.tier = "l0" => s = src("l0", s.n) /\ s.n \in 1 .. Len(tree["l0"])
  <2>. SUFFICES ASSUME NEW s \in sourcesNow, s.tier = "l0" PROVE s = src("l0", s.n) /\ s.n \in 1 .. Len(tree["l0"])
    OBVIOUS
  <2>1. s = src("l0", s.n)
    BY <1>1 DEF sourcesAre, isSource
  <2>2. src("l0", s.n) \in sourcesNow
    BY <2>1
  <2>. QED BY <1>1, <1>2, <2>1, <2>2 DEF sourcesAre
<1>5. {[tier |-> "l0", n |-> i] : i \in 1 .. l0run} = pickedL0
  <2>1. \A i \in 1 .. l0run : src("l0", i) \in pickedL0
    <3>. SUFFICES ASSUME NEW i \in 1 .. l0run PROVE src("l0", i) \in pickedL0
      OBVIOUS
    <3>1. i \in 1 .. Len(tree["l0"]) /\ i <= l0run
      BY <1>2
    <3>2. src("l0", i) \in sourcesNow
      BY <1>1, <1>2, <3>1 DEF sourcesAre
    <3>. QED BY <1>3, <3>1, <3>2 DEF pickedL0
  <2>2. \A s \in pickedL0 : s = src("l0", s.n) /\ s.n \in 1 .. l0run
    BY <1>2, <1>4 DEF pickedL0
  <2>. QED BY <2>1, <2>2 DEF src
<1>6. pickedL0 \in SUBSET sourcesNow
  BY DEF pickedL0
<1>7. PICK M : M = mergeTables(pickedL0)
  OBVIOUS
<1>8. mergedOf(pickedL0, M)
  BY <1>6, <1>7, MergedIs
<1>9. M \in SUBSET Copy /\ \A c \in M : c.ver <= vTs
  BY <1>6, <1>8, MergedBound
<1>10. PICK overlap \in BOOLEAN : overlap = (\E p \in Places \ {"l0"} : hasKeysOf(p, M))
  OBVIOUS
<1>11. PICK out : out = kept(M, overlap)
  OBVIOUS
<1>12. keptOf(M, out, overlap)
  BY <1>9, <1>10, <1>11, KeptIs
<1>13. out \in SUBSET Copy
  BY <1>9, <1>12 DEF keptOf
<1>14. PICK rest : rest = SubSeq(tree["l0"], l0run + 1, Len(tree["l0"]))
  OBVIOUS
<1>15. /\ rest \in Seq(SUBSET Copy) /\ Len(rest) = Len(tree["l0"]) - l0run
       /\ \A i \in 1 .. Len(rest) : rest[i] = tree["l0"][i + l0run]
  <2>1. tree["l0"] \in Seq(SUBSET Copy)
    BY <1>2 DEF Trees
  <2>2. PICK t : t = tree["l0"]
    OBVIOUS
  <2>3. PICK lo : lo = l0run
    OBVIOUS
  <2>4. t \in Seq(SUBSET Copy) /\ lo \in Nat /\ lo <= Len(t) /\ Len(t) \in Nat /\ rest = SubSeq(t, lo + 1, Len(t))
    BY <1>2, <1>14, <2>1, <2>2, <2>3
  <2>5. Len(rest) = Len(t) - lo /\ \A i \in 1 .. Len(t) - lo : rest[i] = t[i + lo]
    BY <2>4
  <2>6. rest \in Seq(SUBSET Copy)
    <3>1. \A i \in 1 .. Len(rest) : i + lo \in 1 .. Len(t)
      BY <2>4, <2>5
    <3>2. \A i \in 1 .. Len(rest) : rest[i] \in SUBSET Copy
      BY <2>4, <2>5, <3>1
    <3>. QED BY <2>4, <2>5
  <2>. QED BY <2>2, <2>3, <2>5, <2>6
<1>16. PICK t1 : t1 = [tree EXCEPT !["l0"] = rest]
  OBVIOUS
<1>17. t1 \in Trees /\ t1["l0"] = rest
  BY <1>2, <1>15, <1>16 DEF Trees
<1>18. PICK tables : tables = addTable(t1, "l0", out)["l0"]
  OBVIOUS
<1>19. (tables = rest \/ tables = Append(rest, out)) /\ (out # {} => tables = Append(rest, out))
  <2>1. PICK x : x = addTable(t1, "l0", out)
    OBVIOUS
  <2>2. added(x, t1, "l0", out)
    <3>1. t1 \in Trees /\ "l0" \in Places /\ out \in SUBSET Copy
      BY <1>2, <1>13, <1>17
    <3>. QED BY <2>1, <3>1, AddTableIs
  <2>. QED BY <1>17, <1>18, <2>1, <2>2 DEF added
<1>20. M = mergeTables({[tier |-> "l0", n |-> i] : i \in 1 .. l0run})
  BY <1>5, <1>7
<1>21. PICK at \in orders(Len(tables)) : tree' = [tree EXCEPT !["l0"] = [i \in 1 .. Len(tables) |-> tables[at[i]]]]
  <2>. DEFINE m0 == mergeTables({[tier |-> "l0", n |-> i] : i \in 1 .. l0run})
              o0 == kept(m0, \E p \in Places \ {"l0"} : hasKeysOf(p, m0))
              r0 == SubSeq(tree["l0"], l0run + 1, Len(tree["l0"]))
              t0 == addTable([tree EXCEPT !["l0"] = r0], "l0", o0)["l0"]
  <2>1. \E at \in orders(Len(t0)) : tree' = [tree EXCEPT !["l0"] = [i \in 1 .. Len(t0) |-> t0[at[i]]]]
    BY DEF finishL0ToL0
  <2>2. m0 = M
    BY <1>20
  <2>3. o0 = out
    <3>. HIDE DEF m0
    <3>1. o0 = kept(M, overlap)
      BY <1>10, <2>2
    <3>. QED BY <1>11, <3>1
  <2>4. t0 = tables
    <3>. HIDE DEF o0
    <3>1. r0 = rest
      BY <1>14
    <3>. QED BY <1>16, <1>18, <2>3, <3>1
  <2>. HIDE DEF t0
  <2>. QED BY <2>1, <2>4
<1>23. PICK u : u = [i \in 1 .. Len(tables) |-> tables[at[i]]]
  OBVIOUS
<1>24. /\ u \in Seq(SUBSET Copy)
       /\ \A i \in 1 .. Len(u) : (\E j \in 1 .. Len(rest) : u[i] = rest[j]) \/ u[i] = out
       /\ \A j \in 1 .. Len(rest) : \E i \in 1 .. Len(u) : u[i] = rest[j]
       /\ out # {} => \E i \in 1 .. Len(u) : u[i] = out
  <2>1. reorders(rest, out, tables, at, u)
    BY <1>13, <1>15, <1>19, <1>21, <1>23 DEF reorders
  <2>. QED BY <2>1, ReorderedTables DEF reordered
<1>25. tree' = [tree EXCEPT !["l0"] = u]
  BY <1>21, <1>23
<1>26. tree' \in Trees /\ tree'["l0"] = u /\ \A p \in Places \ {"l0"} : tree'[p] = tree[p]
  BY <1>2, <1>24, <1>25 DEF Trees
<1>27. UNCHANGED <<vTs, heat, mems, nFlushed, iters, newest>> /\ l0run' = 0
  BY DEF finishL0ToL0
<1>28. VlogTyped'
  <2>1. Len(tree'["l0"]) \in Nat
    BY <1>24, <1>26
  <2>2. l0run' \in 0 .. Len(tree'["l0"])
    BY <1>27, <2>1
  <2>3. Len(tree'["l99"]) <= 1 /\ Len(tree'["base"]) <= 1
    BY <1>26 DEF VlogTyped, Places
  <2>4. tree' \in [Places -> Seq(SUBSET Copy)]
    BY <1>26 DEF Trees
  <2>. QED BY <1>27, <2>2, <2>3, <2>4 DEF VlogTyped
<1>29. hasIs'
  BY <1>28, HasIsNext
<1>30. \A i, c : has(src("l0", i), c)' <=> i \in 1 .. Len(u) /\ c \in u[i]
  BY <1>2, <1>26, <1>29 DEF hasIs
<1>31. \A i, c : has(src("l0", i), c) <=> i \in 1 .. Len(tree["l0"]) /\ c \in tree["l0"][i]
  BY <1>1, <1>2 DEF hasIs
<1>32. \A s, c : has(s, c) \/ has(s, c)' => isSource(s)
  BY <1>1, <1>29 DEF hasIs, isSource, src, Tiers
<1>33. ASSUME NEW s, NEW c, s.tier # "l0" PROVE has(s, c)' <=> has(s, c)
  <2>. SUFFICES ASSUME isSource(s) PROVE has(s, c)' <=> has(s, c)
    BY <1>32
  <2>1. s = src(s.tier, s.n) /\ (s.tier = "mem" \/ s.tier \in Places \ {"l0"})
    BY <1>33 DEF isSource, Tiers
  <2>2. CASE s.tier = "mem"
    <3>1. has(src("mem", s.n), c)' <=> has(src("mem", s.n), c)
      BY <1>1, <1>27, <1>29 DEF hasIs
    <3>. QED BY <2>1, <2>2, <3>1
  <2>3. CASE s.tier \in Places \ {"l0"}
    <3>1. has(src(s.tier, s.n), c)' <=> has(src(s.tier, s.n), c)
      BY <1>1, <1>26, <1>29, <2>3 DEF hasIs
    <3>. QED BY <2>1, <3>1
  <2>. QED BY <2>1, <2>2, <2>3
<1>34. \A j \in 1 .. Len(rest) : j + l0run \in 1 .. Len(tree["l0"]) /\ rest[j] = tree["l0"][j + l0run] /\ ~ (j + l0run <= l0run)
  BY <1>2, <1>15
<1>35. \A r : r \in sourcesNow /\ r.tier = "l0" /\ r \notin pickedL0 =>
         r = src("l0", r.n) /\ r.n - l0run \in 1 .. Len(rest) /\ rest[r.n - l0run] = tree["l0"][r.n]
  <2>. SUFFICES ASSUME NEW r \in sourcesNow, r.tier = "l0", r \notin pickedL0
                PROVE  r = src("l0", r.n) /\ r.n - l0run \in 1 .. Len(rest) /\ rest[r.n - l0run] = tree["l0"][r.n]
    OBVIOUS
  <2>1. r = src("l0", r.n) /\ r.n \in 1 .. Len(tree["l0"]) /\ ~ (r.n <= l0run)
    BY <1>4 DEF pickedL0
  <2>2. r.n - l0run \in 1 .. Len(rest) /\ (r.n - l0run) + l0run = r.n
    BY <1>2, <1>15, <2>1
  <2>. QED BY <1>15, <2>1, <2>2
<1>36. ASSUME NEW s, NEW c, s.tier = "l0", has(s, c)'
       PROVE  \/ \A d : has(s, d)' => d \in out
              \/ \E r : r.tier = "l0" /\ r \notin pickedL0 /\ \A d : has(s, d)' => has(r, d)
  <2>1. PICK i : s = src("l0", i)
    BY <1>32, <1>36 DEF isSource
  <2>2. i \in 1 .. Len(u) /\ \A d : has(s, d)' => d \in u[i]
    BY <1>30, <1>36, <2>1
  <2>3. CASE u[i] = out
    BY <2>2, <2>3
  <2>4. CASE \E j \in 1 .. Len(rest) : u[i] = rest[j]
    <3>1. PICK j \in 1 .. Len(rest) : u[i] = rest[j]
      BY <2>4
    <3>2. PICK r : r = src("l0", j + l0run)
      OBVIOUS
    <3>3. r.tier = "l0" /\ r \notin pickedL0
      BY <1>3, <1>34, <3>1, <3>2 DEF pickedL0
    <3>4. \A d : has(s, d)' => has(r, d)
      BY <1>31, <1>34, <2>2, <3>1, <3>2
    <3>. QED BY <3>3, <3>4
  <2>. QED BY <1>24, <2>2, <2>3, <2>4
<1>37. ASSUME NEW x \in out PROVE \E s : s.tier = "l0" /\ has(s, x)'
  <2>1. PICK i \in 1 .. Len(u) : u[i] = out
    BY <1>24
  <2>2. has(src("l0", i), x)'
    BY <1>30, <2>1
  <2>. QED BY <1>3, <2>2
<1>38. ASSUME NEW r, NEW d, r.tier = "l0", r \notin pickedL0, has(r, d) PROVE \E s : s.tier = "l0" /\ has(s, d)'
  <2>1. r \in sourcesNow
    BY <1>38 DEF has
  <2>2. r = src("l0", r.n) /\ r.n - l0run \in 1 .. Len(rest) /\ rest[r.n - l0run] = tree["l0"][r.n]
    BY <1>35, <1>38, <2>1
  <2>3. d \in rest[r.n - l0run]
    <3>1. has(src("l0", r.n), d)
      BY <1>38, <2>2
    <3>. QED BY <1>31, <2>2, <3>1
  <2>4. PICK i \in 1 .. Len(u) : u[i] = rest[r.n - l0run]
    BY <1>24, <2>2
  <2>5. has(src("l0", i), d)'
    BY <1>30, <2>3, <2>4
  <2>. QED BY <1>3, <2>5
<1>39. /\ upset \subseteq upset'
       /\ \A k \in VKeys \ upset' : \A i \in 1 .. Len(rest) : k \in keysIn(rest[i]) =>
            k \notin keysIn(M) /\ \A j \in 1 .. Len(rest) : k \in keysIn(rest[j]) => j = i
  BY <1>14, <1>20 DEF finishL0ToL0
<1>40. ASSUME NEW r, NEW c, r.tier = "l0", r \notin pickedL0, has(r, c), c.key \notin upset'
       PROVE  /\ \A g \in M : g.key # c.key
              /\ \A q, d : q.tier = "l0" /\ q \notin pickedL0 /\ has(q, d) /\ d.key = c.key => q = r
  <2>1. \A q, d : q.tier = "l0" /\ q \notin pickedL0 /\ has(q, d) =>
          q = src("l0", q.n) /\ q.n - l0run \in 1 .. Len(rest) /\ d.key \in keysIn(rest[q.n - l0run]) /\ q.n \in Nat
    <3>. SUFFICES ASSUME NEW q, NEW d, q.tier = "l0", q \notin pickedL0, has(q, d)
                  PROVE  q = src("l0", q.n) /\ q.n - l0run \in 1 .. Len(rest) /\ d.key \in keysIn(rest[q.n - l0run])
                         /\ q.n \in Nat
      OBVIOUS
    <3>1. q \in sourcesNow
      BY DEF has
    <3>2. q = src("l0", q.n) /\ q.n - l0run \in 1 .. Len(rest) /\ rest[q.n - l0run] = tree["l0"][q.n]
      BY <1>35, <3>1
    <3>3. d \in rest[q.n - l0run] /\ q.n \in 1 .. Len(tree["l0"])
      <4>1. has(src("l0", q.n), d)
        BY <3>2
      <4>. QED BY <1>31, <3>2, <4>1
    <3>4. q.n \in Nat
      BY <1>2, <3>3
    <3>. QED BY <3>2, <3>3, <3>4 DEF keysIn
  <2>2. c.key \in VKeys
    BY <1>40, HasTyped, CopyFacts
  <2>3. r = src("l0", r.n) /\ r.n - l0run \in 1 .. Len(rest) /\ c.key \in keysIn(rest[r.n - l0run]) /\ r.n \in Nat
    BY <1>40, <2>1
  <2>4. /\ c.key \notin keysIn(M)
        /\ \A j \in 1 .. Len(rest) : c.key \in keysIn(rest[j]) => j = r.n - l0run
    BY <1>39, <1>40, <2>2, <2>3
  <2>5. \A g \in M : g.key # c.key
    BY <2>4 DEF keysIn
  <2>6. ASSUME NEW q, NEW d, q.tier = "l0", q \notin pickedL0, has(q, d), d.key = c.key PROVE q = r
    <3>1. q = src("l0", q.n) /\ q.n - l0run \in 1 .. Len(rest) /\ d.key \in keysIn(rest[q.n - l0run]) /\ q.n \in Nat
      BY <2>1, <2>6
    <3>2. q.n - l0run = r.n - l0run
      BY <2>4, <2>6, <3>1
    <3>3. q.n = r.n
      BY <1>2, <2>3, <3>1, <3>2
    <3>4. src("l0", q.n) = src("l0", r.n)
      BY <3>3
    <3>. QED BY <2>3, <3>1, <3>4
  <2>. QED BY <2>5, <2>6
<1>41. ASSUME NEW s, NEW c, NEW d, s.tier # "l0", s.tier # "mem", has(s, d), c \in M, d.key = c.key PROVE overlap
  <2>1. s = src(s.tier, s.n) /\ s.tier \in Places \ {"l0"}
    BY <1>32, <1>41 DEF isSource, Tiers
  <2>2. s \in tablesOf(tree, s.tier)
    <3>1. src(s.tier, s.n) \in sourcesNow
      BY <1>41, <2>1 DEF has
    <3>2. s.n \in 1 .. Len(tree[s.tier])
      BY <1>1, <2>1, <3>1 DEF sourcesAre
    <3>. QED BY <2>1, <3>2 DEF tablesOf, src
  <2>3. d \in content(tree, s)
    BY <1>41 DEF has
  <2>4. hasKeysOf(s.tier, M)
    BY <1>41, <2>2, <2>3 DEF hasKeysOf, copiesIn
  <2>. QED BY <1>10, <2>1, <2>4
<1>42. l0Compacted(M, out, overlap)
  BY <1>8, <1>12, <1>33, <1>36, <1>37, <1>38, <1>39, <1>40, <1>41 DEF l0Compacted
<1>. QED BY <1>28, <1>42

(* Every copy level 0 then has it had before.                              *)
LEMMA L0From ==
  ASSUME NEW M, NEW out, NEW overlap, l0Compacted(M, out, overlap)
  PROVE  /\ M \subseteq Copy /\ keptOf(M, out, overlap)
         /\ \A c \in M : \E r \in pickedL0 : has(r, c) /\ \A q \in pickedL0 : \A d : has(q, d) /\ earlier(q, r) => ~ same(d, c)
         /\ \A r \in pickedL0 : r.tier = "l0" /\ \A c : has(r, c) => \E g \in M : same(g, c)
         /\ \A s, c : has(s, c)' => \E r : has(r, c) /\ (s.tier = r.tier)
<1>1. /\ M \subseteq Copy /\ keptOf(M, out, overlap)
      /\ \A c \in M : \E r \in pickedL0 : has(r, c) /\ \A q \in pickedL0 : \A d : has(q, d) /\ earlier(q, r) => ~ same(d, c)
      /\ \A r \in pickedL0 : \A c : has(r, c) => \E g \in M : same(g, c)
  BY DEF l0Compacted, mergedOf
<1>2. \A r \in pickedL0 : r.tier = "l0"
  BY DEF pickedL0
<1>3. ASSUME NEW s, NEW c, has(s, c)' PROVE \E r : has(r, c) /\ s.tier = r.tier
  <2>1. CASE s.tier # "l0"
    BY <1>3, <2>1 DEF l0Compacted
  <2>2. CASE s.tier = "l0"
    <3>1. c \in out \/ \E r : r.tier = "l0" /\ has(r, c)
      BY <1>3, <2>2 DEF l0Compacted
    <3>2. c \in out => \E r : r.tier = "l0" /\ has(r, c)
      BY <1>1, <1>2 DEF keptOf
    <3>. QED BY <2>2, <3>1, <3>2
  <2>. QED BY <2>1, <2>2
<1>. QED BY <1>1, <1>2, <1>3

LEMMA L0Made ==
  ASSUME NEW M, NEW out, NEW overlap, l0Compacted(M, out, overlap),
         VlogTyped, madeBy, UNCHANGED <<newest, files>>
  PROVE  madeBy'
<1>1. \A s, c : has(s, c)' => \E r : has(r, c)
  BY L0From
<1>2. ASSUME NEW c \in M, NEW d \in M, same(c, d) PROVE c = d
  <2>1. PICK r \in pickedL0 : has(r, c) /\ \A q \in pickedL0 : \A e : has(q, e) /\ earlier(q, r) => ~ same(e, c)
    BY L0From
  <2>2. PICK s \in pickedL0 : has(s, d) /\ \A q \in pickedL0 : \A e : has(q, e) /\ earlier(q, s) => ~ same(e, d)
    BY L0From
  <2>3. isSource(r) /\ isSource(s)
    BY <2>1, <2>2, HasIs DEF hasIs
  <2>4. ~ earlier(r, s) /\ ~ earlier(s, r)
    BY <1>2, <2>1, <2>2 DEF same
  <2>5. r = s
    BY <2>3, <2>4, EarlierOrder
  <2>. QED BY <1>2, <2>1, <2>2, <2>5 DEF madeBy
<1>3. ASSUME NEW s, NEW c, NEW d, has(s, c)', has(s, d)', same(c, d) PROVE c = d
  <2>1. CASE s.tier # "l0"
    BY <1>3, <2>1 DEF l0Compacted, madeBy
  <2>2. CASE c \in out /\ d \in out
    <3>1. c \in M /\ d \in M
      BY <2>2 DEF l0Compacted, keptOf
    <3>. QED BY <1>2, <1>3, <3>1
  <2>3. CASE \E r : has(r, c) /\ has(r, d)
    BY <1>3, <2>3 DEF madeBy
  <2>. QED BY <1>3, <2>1, <2>2, <2>3 DEF l0Compacted
<1>4. \A s, c : has(s, c)' => c.ver <= newest'[c.key].ver
  BY <1>1 DEF madeBy
<1>6. \A r, s, c, d : has(r, c)' /\ has(s, d)' /\ same(c, d) => c.kind = d.kind
  BY <1>1 DEF madeBy
<1>7. \A f \in DOMAIN files' : \A i \in DOMAIN files'[f] :
        /\ files'[f][i].ver <= newest'[files'[f][i].key].ver
        /\ \A s, c : has(s, c)' /\ same(c, files'[f][i]) => c.kind = "put"
  BY <1>1 DEF madeBy
<1>. QED BY <1>3, <1>4, <1>6, <1>7 DEF madeBy, same

LEMMA L0Apart ==
  ASSUME NEW M, NEW out, NEW overlap, l0Compacted(M, out, overlap), apartBy, UNCHANGED heat
  PROVE  apartBy'
<1>. SUFFICES ASSUME NEW s, NEW c, has(s, c)', c.key \notin upset', c.kind = "put"
              PROVE  (isHotSource(s) => c.key \in heat) /\ (s.tier = "l0" => c.key \notin heat)
  BY DEF apartBy, isHotSource
<1>1. c.key \notin upset
  BY DEF l0Compacted
<1>2. PICK r : has(r, c) /\ s.tier = r.tier
  BY L0From
<1>. QED BY <1>1, <1>2 DEF apartBy, isHotSource

LEMMA L0Rise ==
  ASSUME NEW M, NEW out, NEW overlap, l0Compacted(M, out, overlap), riseBy, UNCHANGED heat
  PROVE  riseBy'
<1>. SUFFICES ASSUME NEW r, NEW s, NEW c, NEW d, has(r, c)', has(s, d)', onHotPath(r), onHotPath(s), earlier(r, s),
                     c.key = d.key, c.key \notin upset', goesHot(c), goesHot(d)
              PROVE  c.ver >= d.ver
  BY DEF riseBy, onHotPath, isHotSource, earlier, goesHot
<1>1. has(r, c) /\ has(s, d) /\ c.key \notin upset
  BY DEF l0Compacted, onHotPath, isHotSource
<1>. QED BY <1>1 DEF riseBy

LEMMA L0Hidden ==
  ASSUME NEW M, NEW out, NEW overlap, l0Compacted(M, out, overlap),
         VlogTyped, heldBy, UNCHANGED <<files, filesToBeDeleted, gc>>
  PROVE  hiddenBy'
<1>1. madeBy /\ hiddenBy
  BY DEF heldBy
<1>2. \A c : isLost(c)' <=> isLost(c)
  BY DEF isLost, readable
<1>. SUFFICES ASSUME NEW s, NEW c, has(s, c)', c.key \notin upset', isLost(c), firstAt(s, c)'
              PROVE  s.tier = "base" /\ newerThan(c)'
  BY <1>2 DEF hiddenBy
<1>3. c.kind = "put" /\ c.key \notin upset
  BY DEF isLost, l0Compacted
<1>4. \A r, d : has(r, d)' /\ earlier(r, s) => ~ same(d, c)
  BY DEF firstAt, same, earlier
<1>5. \A r, d : has(r, d) => isSource(r) /\ r \in sourcesNow
  BY HasIs DEF hasIs, has
<1>6. /\ M \subseteq Copy /\ keptOf(M, out, overlap)
      /\ \A x \in M : \E r \in pickedL0 : has(r, x) /\ \A q \in pickedL0 : \A d : has(q, d) /\ earlier(q, r) => ~ same(d, x)
      /\ \A r \in pickedL0 : r.tier = "l0" /\ \A x : has(r, x) => \E g \in M : same(g, x)
  BY L0From
<1>7. CASE s.tier # "l0"
  <2>1. has(s, c)
    BY <1>7 DEF l0Compacted
  <2>2. c \in Copy
    BY <2>1, HasTyped
  <2>3. ASSUME s.tier = "base", NEW q \in pickedL0, NEW d, has(q, d), d.key = c.key, d.ver >= c.ver
        PROVE  \E r, x : r.tier = "l0" /\ has(r, x)' /\ x.key = c.key /\ x.ver >= d.ver /\ x.ver \in Nat /\ d.ver \in Nat
    <3>1. PICK g \in M : same(g, d)
      BY <1>6, <2>3
    <3>2. overlap
      <4>1. g.key = c.key
        BY <2>3, <3>1 DEF same
      <4>. QED BY <2>1, <2>3, <4>1 DEF l0Compacted
    <3>3. PICK x \in out : x.key = g.key /\ x.ver >= g.ver
      BY <1>6, <3>2 DEF keptOf
    <3>4. PICK r : r.tier = "l0" /\ has(r, x)'
      BY DEF l0Compacted
    <3>5. x.ver \in Nat /\ g.ver \in Nat
      <4>1. x \in M
        BY <1>6 DEF keptOf
      <4>. QED BY <1>6, <4>1, CopyFacts
    <3>. QED BY <2>3, <3>1, <3>3, <3>4, <3>5 DEF same
  <2>4. CASE firstAt(s, c)
    <3>1. s.tier = "base" /\ newerThan(c)
      BY <1>1, <1>3, <2>1, <2>4 DEF hiddenBy
    <3>2. PICK q, d : has(q, d) /\ d.key = c.key /\ d.ver > c.ver
      BY <3>1 DEF newerThan
    <3>3. CASE q.tier # "l0"
      <4>1. has(q, d)'
        BY <3>2, <3>3 DEF l0Compacted
      <4>. QED BY <3>1, <3>2, <4>1 DEF newerThan
    <3>4. CASE q.tier = "l0" /\ q \notin pickedL0
      <4>1. \E r : has(r, d)'
        BY <3>2, <3>4 DEF l0Compacted
      <4>. QED BY <3>1, <3>2, <4>1 DEF newerThan
    <3>5. CASE q \in pickedL0
      <4>1. d.ver \in Nat /\ c.ver \in Nat
        BY <2>2, <3>2, HasTyped, CopyFacts
      <4>2. d.ver >= c.ver
        BY <3>2, <4>1
      <4>3. PICK r, x : has(r, x)' /\ x.key = c.key /\ x.ver >= d.ver /\ x.ver \in Nat
        BY <2>3, <3>1, <3>2, <3>5, <4>2
      <4>4. x.ver > c.ver
        BY <3>2, <4>1, <4>3
      <4>. QED BY <3>1, <4>3, <4>4 DEF newerThan
    <3>. QED BY <3>3, <3>4, <3>5
  <2>5. CASE ~ firstAt(s, c)
    <3>1. PICK r, d : has(r, d) /\ earlier(r, s) /\ same(d, c)
      BY <2>5 DEF firstAt
    <3>2. r.tier = "l0"
      <4>1. ~ has(r, d)'
        BY <1>4, <3>1
      <4>. QED BY <3>1, <4>1 DEF l0Compacted
    <3>3. isSource(s)
      BY <1>5, <2>1
    <3>4. s.tier = "base"
      BY <1>7, <3>1, <3>2, <3>3 DEF earlier, rank, isSource, Tiers, Places
    <3>5. \A q : q.tier = "l0" => earlier(q, s)
      BY <3>4 DEF earlier, rank
    <3>6. r \in pickedL0
      <4>1. CASE r \notin pickedL0
        <5>1. PICK q : q.tier = "l0" /\ has(q, d)'
          BY <3>1, <3>2, <4>1 DEF l0Compacted
        <5>. QED BY <1>4, <3>1, <3>5, <5>1
      <4>. QED BY <4>1
    <3>7. d.key = c.key /\ d.ver = c.ver /\ c.ver \in Nat
      BY <2>2, <3>1, CopyFacts DEF same
    <3>8. d.ver >= c.ver
      BY <3>7
    <3>9. PICK q, x : q.tier = "l0" /\ has(q, x)' /\ x.key = c.key /\ x.ver >= d.ver /\ x.ver \in Nat
      BY <2>3, <3>1, <3>4, <3>6, <3>7, <3>8
    <3>10. x.ver # c.ver
      BY <1>4, <3>5, <3>9 DEF same
    <3>11. x.ver > c.ver
      BY <3>7, <3>9, <3>10
    <3>. QED BY <3>4, <3>9, <3>11 DEF newerThan
  <2>. QED BY <2>4, <2>5
<1>8. CASE s.tier = "l0"
  <2>1. \A q, d : has(q, d) /\ same(d, c) /\ q.tier # "l0" => ~ \E r : r.tier = "l0" /\ isSource(r) /\ earlier(q, r)
    <3>. SUFFICES ASSUME NEW q, NEW d, has(q, d), same(d, c), q.tier # "l0", NEW r, r.tier = "l0", earlier(q, r) PROVE FALSE
      OBVIOUS
    <3>1. has(q, d)'
      BY DEF l0Compacted
    <3>2. earlier(q, s)
      BY <1>8 DEF earlier
    <3>. QED BY <1>4, <3>1, <3>2
  <2>2. ASSUME NEW r, r.tier = "l0", has(r, c)
        PROVE  \E q, d : has(q, d) /\ earlier(q, r) /\ same(d, c) /\ q.tier = "l0"
    <3>1. ~ firstAt(r, c)
      BY <1>1, <1>3, <2>2 DEF hiddenBy
    <3>2. PICK q, d : has(q, d) /\ earlier(q, r) /\ same(d, c)
      BY <3>1 DEF firstAt
    <3>3. isSource(r)
      BY <1>5, <2>2
    <3>. QED BY <2>1, <2>2, <3>2, <3>3
  <2>3. CASE c \in out
    <3>1. c \in M
      BY <1>6, <2>3 DEF keptOf
    <3>2. PICK r \in pickedL0 : has(r, c) /\ \A q \in pickedL0 : \A d : has(q, d) /\ earlier(q, r) => ~ same(d, c)
      BY <1>6, <3>1
    <3>3. r.tier = "l0"
      BY <1>6
    <3>4. PICK q, d : has(q, d) /\ earlier(q, r) /\ same(d, c) /\ q.tier = "l0"
      BY <2>2, <3>2, <3>3
    <3>5. q \notin pickedL0
      BY <3>2, <3>4
    <3>6. d.key = c.key
      BY <3>4 DEF same
    <3>7. d.key \notin upset'
      BY <3>6
    <3>8. \A g \in M : g.key # d.key
      BY <3>4, <3>5, <3>7 DEF l0Compacted
    <3>. QED BY <3>1, <3>6, <3>8
  <2>4. CASE \E r : r.tier = "l0" /\ r \notin pickedL0 /\ has(r, c)
    <3>1. PICK r : r.tier = "l0" /\ r \notin pickedL0 /\ has(r, c)
      BY <2>4
    <3>2. PICK q, d : has(q, d) /\ earlier(q, r) /\ same(d, c) /\ q.tier = "l0"
      BY <2>2, <3>1
    <3>3. /\ \A g \in M : g.key # c.key
          /\ \A x, e : x.tier = "l0" /\ x \notin pickedL0 /\ has(x, e) /\ e.key = c.key => x = r
      BY <3>1 DEF l0Compacted
    <3>4. CASE q \in pickedL0
      <4>1. PICK g \in M : same(g, d)
        BY <1>6, <3>2, <3>4
      <4>. QED BY <3>2, <3>3, <4>1 DEF same
    <3>5. CASE q \notin pickedL0
      <4>1. q = r
        BY <3>2, <3>3, <3>5 DEF same
      <4>2. isSource(r)
        BY <1>5, <3>1
      <4>. QED BY <3>2, <4>1, <4>2, EarlierOrder
    <3>. QED BY <3>4, <3>5
  <2>. QED BY <1>8, <2>3, <2>4 DEF l0Compacted
<1>. QED BY <1>7, <1>8

LEMMA FinishL0Keeps == keepBy /\ finishL0ToL0 => keepBy'
<1>. SUFFICES ASSUME keepBy, finishL0ToL0 PROVE keepBy'
  OBVIOUS
<1>1. VlogTyped' /\ \E M, out, overlap : l0Compacted(M, out, overlap)
  BY L0Moves
<1>2. PICK M, out, overlap : l0Compacted(M, out, overlap)
  BY <1>1
<1>3. UNCHANGED <<vTs, heat, newest, files, maxFid, hotMaxFid, filesToBeDeleted, gc>>
  BY DEF finishL0ToL0, fileVars
<1>4. VlogTyped /\ heldBy /\ madeBy /\ apartBy /\ riseBy
  BY DEF keepBy, heldBy
<1>5. FilesMade' /\ GcMade'
  BY <1>3 DEF keepBy, FilesMade, GcMade, isOld, isActive, isHotVlog
<1>6. madeBy'
  BY <1>2, <1>3, <1>4, L0Made
<1>7. apartBy'
  BY <1>2, <1>3, <1>4, L0Apart
<1>8. riseBy'
  BY <1>2, <1>3, <1>4, L0Rise
<1>9. hiddenBy'
  BY <1>2, <1>3, <1>4, L0Hidden
<1>. QED BY <1>1, <1>5, <1>6, <1>7, <1>8, <1>9 DEF keepBy, heldBy

-----------------------------------------------------------------------------
(* What a request writes, entry by entry.                                  *)
Req == [key : VKeys, ver : Nat \ {0}, kind : {"put", "del"}]
Actives == {maxFid, hotMaxFid}
Writes == [v : [files : [DOMAIN files -> Seq(Entry)], cold : {maxFid}, hot : {hotMaxFid}], mt : SUBSET Copy]
entryOf(e) == [key |-> e.key, ver |-> e.ver]

(* gs has what fs has, and what is new is of the requests S.               *)
growsBy(fs, gs, S) ==
  /\ DOMAIN fs \subseteq DOMAIN gs
  /\ \A f \in DOMAIN fs : \A i \in 1 .. Len(fs[f]) : f \in DOMAIN gs /\ i \in 1 .. Len(gs[f]) /\ gs[f][i] = fs[f][i]
  /\ \A f \in DOMAIN gs : \A i \in 1 .. Len(gs[f]) :
       \/ f \in DOMAIN fs /\ i \in 1 .. Len(fs[f]) /\ gs[f][i] = fs[f][i]
       \/ f \in Actives /\ \E e \in S : e.kind = "put" /\ gs[f][i] = entryOf(e)

mentions(S, c) == \E e \in S : same(e, c)
(* c was written for one of the requests S.                                *)
isFresh(gs, c, S) ==
  \E e \in S : /\ same(e, c) /\ e.kind = c.kind
               /\ c.kind = "put" => c.fid \in Actives /\ c.fid \in DOMAIN gs /\ c.off \in 1 .. Len(gs[c.fid])
                                    /\ gs[c.fid][c.off] = entryOf(c)

(* mt has what mt0 has, but for the requests S what was written for them.  *)
putsBy(mt0, mt, gs, S) ==
  /\ \A c \in mt : (c \in mt0 /\ ~ mentions(S, c)) \/ isFresh(gs, c, S)
  /\ \A c \in mt0 : mentions(S, c) \/ c \in mt
  /\ \A e \in S : \E c \in mt : same(e, c)
  /\ (\A c, d \in mt0 : same(c, d) => c = d) => \A c, d \in mt : same(c, d) => c = d

wroteOne(w, x, e) ==
  /\ x \in Writes
  /\ growsBy(w.v.files, x.v.files, {e})
  /\ putsBy(w.mt, x.mt, x.v.files, {e})

LEMMA PutIs ==
  ASSUME NEW mt, NEW c, NEW gs, NEW e, same(e, c), isFresh(gs, c, {e})
  PROVE  putsBy(mt, Put(mt, c), gs, {e})
<1>1. \A d : d \in Put(mt, c) <=> d = c \/ (d \in mt /\ ~ same(d, c))
  BY DEF Put, same
<1>2. \A d : mentions({e}, d) <=> same(d, c)
  BY DEF mentions, same
<1>. QED BY <1>1, <1>2 DEF putsBy, same

LEMMA DeletionWritten ==
  ASSUME NEW w \in Writes, NEW e \in Req, e.kind = "del"
  PROVE  wroteOne(w, writeOne(w, e), e)
<1>1. PICK c : c = tombstone(e)
  OBVIOUS
<1>2. c \in Copy /\ same(e, c) /\ c.kind = "del"
  BY <1>1 DEF tombstone, Copy, Req, same
<1>3. PICK mt : mt = Put(w.mt, c)
  OBVIOUS
<1>4. mt \in SUBSET Copy
  BY <1>2, <1>3 DEF Put, Writes
<1>5. PICK x : x = [w EXCEPT !.mt = mt]
  OBVIOUS
<1>6. x \in Writes /\ x.v = w.v /\ x.mt = mt
  BY <1>4, <1>5 DEF Writes
<1>7. writeOne(w, e) = x
  BY <1>1, <1>3, <1>5 DEF writeOne, Writes
<1>8. growsBy(w.v.files, x.v.files, {e})
  BY <1>6 DEF growsBy
<1>9. isFresh(x.v.files, c, {e})
  BY <1>2 DEF isFresh
<1>10. putsBy(w.mt, x.mt, x.v.files, {e})
  BY <1>2, <1>3, <1>6, <1>9, PutIs
<1>. QED BY <1>6, <1>7, <1>8, <1>10 DEF wroteOne

LEMMA ValueWritten ==
  ASSUME NEW w \in Writes, NEW e \in Req, e.kind = "put", FilesMade
  PROVE  wroteOne(w, writeOne(w, e), e)
<1>1. PICK fid : fid = IF e.key \in heat THEN w.v.hot ELSE w.v.cold
  OBVIOUS
<1>2. fid \in Actives /\ fid \in DOMAIN files /\ fid \in Nat
  BY <1>1 DEF Writes, Actives, FilesMade
<1>3. PICK fs, y : fs = w.v.files /\ y = entryOf(e)
  OBVIOUS
<1>4. fs \in [DOMAIN files -> Seq(Entry)] /\ y \in Entry
  BY <1>3 DEF Writes, Req, Entry, entryOf
<1>5. PICK n, fl : n = Len(fs[fid]) /\ fl = Append(fs[fid], y)
  OBVIOUS
<1>6. /\ n \in Nat /\ fl \in Seq(Entry) /\ Len(fl) = n + 1 /\ fl[n + 1] = y
      /\ \A i \in 1 .. n : fl[i] = fs[fid][i]
  <2>1. fs[fid] \in Seq(Entry)
    BY <1>2, <1>4
  <2>. QED BY <1>4, <1>5, <2>1
<1>7. PICK gs : gs = [fs EXCEPT ![fid] = fl]
  OBVIOUS
<1>8. gs \in [DOMAIN files -> Seq(Entry)] /\ gs[fid] = fl /\ \A f \in DOMAIN files : f # fid => gs[f] = fs[f]
  BY <1>2, <1>4, <1>6, <1>7
<1>9. PICK c : c = pointerTo(w.v, e)
  OBVIOUS
<1>10. c = [key |-> e.key, ver |-> e.ver, kind |-> "put", fid |-> fid, off |-> n + 1]
  BY <1>1, <1>3, <1>5, <1>9 DEF pointerTo
<1>11. c \in Copy /\ same(e, c) /\ c.kind = "put" /\ c.fid = fid /\ c.off = n + 1 /\ entryOf(c) = y
  BY <1>2, <1>3, <1>6, <1>10 DEF Copy, Req, same, entryOf
<1>12. PICK mt : mt = Put(w.mt, c)
  OBVIOUS
<1>13. mt \in SUBSET Copy
  BY <1>11, <1>12 DEF Put, Writes
<1>14. PICK x : x = writeOne(w, e)
  OBVIOUS
<1>15. x = [v |-> appendTo(w.v, e), mt |-> mt]
  BY <1>9, <1>12, <1>14 DEF writeOne
<1>16. appendTo(w.v, e) = [w.v EXCEPT !.files = gs]
  <2>1. appendTo(w.v, e) = [w.v EXCEPT !.files = [w.v.files EXCEPT ![fid] = Append(@, y)]]
    BY <1>1, <1>3 DEF appendTo, entryOf
  <2>2. [w.v.files EXCEPT ![fid] = Append(@, y)] = gs
    BY <1>2, <1>3, <1>4, <1>5, <1>7
  <2>. QED BY <2>1, <2>2
<1>17. x \in Writes /\ x.v.files = gs /\ x.mt = mt
  <2>1. PICK v : v = [w.v EXCEPT !.files = gs]
    OBVIOUS
  <2>2. v \in [files : [DOMAIN files -> Seq(Entry)], cold : {maxFid}, hot : {hotMaxFid}] /\ v.files = gs
    BY <1>8, <2>1 DEF Writes
  <2>3. x = [v |-> v, mt |-> mt]
    BY <1>15, <1>16, <2>1
  <2>. QED BY <1>13, <2>2, <2>3 DEF Writes
<1>18. growsBy(fs, gs, {e})
  <2>1. DOMAIN fs = DOMAIN files /\ DOMAIN gs = DOMAIN files
    BY <1>4, <1>8
  <2>2. \A i \in 1 .. n : i \in 1 .. Len(fl) /\ fl[i] = fs[fid][i]
    BY <1>6
  <2>3. \A i \in 1 .. Len(fl) : i \in 1 .. n \/ i = n + 1
    BY <1>6
  <2>4. \A f \in DOMAIN files : \A i \in 1 .. Len(fs[f]) : i \in 1 .. Len(gs[f]) /\ gs[f][i] = fs[f][i]
    BY <1>5, <1>8, <2>2
  <2>5. \A f \in DOMAIN files : \A i \in 1 .. Len(gs[f]) :
          (i \in 1 .. Len(fs[f]) /\ gs[f][i] = fs[f][i]) \/ (f \in Actives /\ gs[f][i] = entryOf(e))
    <3>. SUFFICES ASSUME NEW f \in DOMAIN files, NEW i \in 1 .. Len(gs[f])
                  PROVE  (i \in 1 .. Len(fs[f]) /\ gs[f][i] = fs[f][i]) \/ (f \in Actives /\ gs[f][i] = entryOf(e))
      OBVIOUS
    <3>1. CASE f # fid
      BY <1>8, <3>1
    <3>2. CASE f = fid /\ i \in 1 .. n
      BY <1>5, <1>8, <2>2, <3>2
    <3>3. CASE f = fid /\ i = n + 1
      BY <1>2, <1>3, <1>6, <1>8, <3>3
    <3>. QED BY <1>8, <2>3, <3>1, <3>2, <3>3
  <2>. QED BY <2>1, <2>4, <2>5 DEF growsBy
<1>19. isFresh(gs, c, {e})
  <2>1. n + 1 \in 1 .. Len(gs[fid]) /\ gs[fid][n + 1] = y /\ fid \in DOMAIN gs
    BY <1>2, <1>6, <1>8
  <2>. QED BY <1>2, <1>11, <2>1 DEF isFresh
<1>20. putsBy(w.mt, mt, gs, {e})
  BY <1>11, <1>12, <1>19, PutIs
<1>. QED BY <1>3, <1>14, <1>17, <1>18, <1>20 DEF wroteOne

LEMMA EntryWritten ==
  ASSUME NEW w \in Writes, NEW e \in Req, FilesMade
  PROVE  wroteOne(w, writeOne(w, e), e)
<1>1. e.kind = "put" \/ e.kind = "del"
  BY DEF Req
<1>. QED BY <1>1, DeletionWritten, ValueWritten

(* Two writes, one after the other.                                        *)
LEMMA GrowsOn ==
  ASSUME NEW fs, NEW gs, NEW hs, NEW S, NEW T, growsBy(fs, gs, S), growsBy(gs, hs, T)
  PROVE  growsBy(fs, hs, S \cup T)
<1>1. \A f \in DOMAIN fs : \A i \in 1 .. Len(fs[f]) : f \in DOMAIN hs /\ i \in 1 .. Len(hs[f]) /\ hs[f][i] = fs[f][i]
  BY DEF growsBy
<1>2. ASSUME NEW f \in DOMAIN hs, NEW i \in 1 .. Len(hs[f])
      PROVE  \/ f \in DOMAIN fs /\ i \in 1 .. Len(fs[f]) /\ hs[f][i] = fs[f][i]
             \/ f \in Actives /\ \E e \in S \cup T : e.kind = "put" /\ hs[f][i] = entryOf(e)
  <2>1. CASE f \in DOMAIN gs /\ i \in 1 .. Len(gs[f]) /\ hs[f][i] = gs[f][i]
    BY <2>1 DEF growsBy
  <2>2. CASE f \in Actives /\ \E e \in T : e.kind = "put" /\ hs[f][i] = entryOf(e)
    BY <2>2
  <2>. QED BY <1>2, <2>1, <2>2 DEF growsBy
<1>. QED BY <1>1, <1>2 DEF growsBy

LEMMA PutsOn ==
  ASSUME NEW mt0, NEW mt1, NEW mt2, NEW gs, NEW hs, NEW S, NEW e, putsBy(mt0, mt1, gs, S), putsBy(mt1, mt2, hs, {e}),
         growsBy(gs, hs, {e})
  PROVE  putsBy(mt0, mt2, hs, S \cup {e})
<1>1. \A c : mentions(S \cup {e}, c) <=> mentions(S, c) \/ same(e, c)
  BY DEF mentions
<1>2. \A c : mentions({e}, c) <=> same(e, c)
  BY DEF mentions
<1>3. \A c : isFresh(gs, c, S) => isFresh(hs, c, S \cup {e})
  BY DEF isFresh, growsBy
<1>4. \A c : isFresh(hs, c, {e}) => isFresh(hs, c, S \cup {e})
  BY DEF isFresh
<1>5. \A c \in mt2 : (c \in mt0 /\ ~ mentions(S \cup {e}, c)) \/ isFresh(hs, c, S \cup {e})
  BY <1>1, <1>2, <1>3, <1>4 DEF putsBy
<1>6. \A c \in mt0 : mentions(S \cup {e}, c) \/ c \in mt2
  BY <1>1, <1>2 DEF putsBy
<1>7. ASSUME NEW d \in S PROVE \E c \in mt2 : same(d, c)
  <2>1. PICK c \in mt1 : same(d, c)
    BY <1>7 DEF putsBy
  <2>2. CASE same(e, c)
    <3>1. PICK x \in mt2 : same(e, x)
      BY DEF putsBy
    <3>. QED BY <2>1, <2>2, <3>1 DEF same
  <2>3. CASE ~ same(e, c)
    BY <1>2, <2>1, <2>3 DEF putsBy
  <2>. QED BY <2>2, <2>3
<1>8. \A d \in S \cup {e} : \E c \in mt2 : same(d, c)
  BY <1>7 DEF putsBy
<1>9. (\A c, d \in mt0 : same(c, d) => c = d) => \A c, d \in mt2 : same(c, d) => c = d
  BY DEF putsBy
<1>. QED BY <1>5, <1>6, <1>8, <1>9 DEF putsBy

(* All of a request.                                                       *)
startOfWrite == [v |-> Vlog, mt |-> mems[Len(mems)]]
writesTo(entries, n, g) ==
  g = [k \in 0 .. n |-> IF k = 0 THEN startOfWrite ELSE writeOne(g[k - 1], entries[k])]

LEMMA RequestsExist ==
  ASSUME NEW entries, NEW n \in Nat
  PROVE  \E g : writesTo(entries, n, g)
<1>. DEFINE Bad == {k \in Nat : ~ \E g : writesTo(entries, k, g)}
<1>. SUFFICES ASSUME Bad # {} PROVE FALSE
  OBVIOUS
<1>1. PICK k \in Bad : \A j \in Bad : k <= j
  <2>. Bad \in SUBSET Nat
    OBVIOUS
  <2>. HIDE DEF Bad
  <2>. QED BY Least
<1>2. k \in Nat /\ ~ \E g : writesTo(entries, k, g)
  OBVIOUS
<1>3. k # 0
  <2>1. writesTo(entries, 0, [i \in 0 .. 0 |-> startOfWrite])
    BY DEF writesTo
  <2>. QED BY <1>2, <2>1
<1>4. PICK g : writesTo(entries, k - 1, g)
  <2>1. k - 1 \in Nat /\ ~ (k <= k - 1)
    BY <1>2, <1>3
  <2>. QED BY <1>1, <2>1
<1>5. writesTo(entries, k, [i \in 0 .. k |-> IF i = k THEN writeOne(g[k - 1], entries[k]) ELSE g[i]])
  <2>. DEFINE f == [i \in 0 .. k |-> IF i = k THEN writeOne(g[k - 1], entries[k]) ELSE g[i]]
  <2>1. \A i \in 0 .. k : f[i] = IF i = 0 THEN startOfWrite ELSE writeOne(f[i - 1], entries[i])
    <3>. SUFFICES ASSUME NEW i \in 0 .. k
                  PROVE f[i] = IF i = 0 THEN startOfWrite ELSE writeOne(f[i - 1], entries[i])
      OBVIOUS
    <3>1. CASE i = k
      <4>1. k - 1 \in 0 .. k /\ k - 1 # k
        BY <1>2, <1>3
      <4>. QED BY <1>3, <3>1, <4>1
    <3>2. CASE i # k
      <4>1. i \in 0 .. k - 1 /\ f[i] = g[i]
        BY <1>2, <3>2
      <4>2. g[i] = IF i = 0 THEN startOfWrite ELSE writeOne(g[i - 1], entries[i])
        BY <1>4, <4>1 DEF writesTo
      <4>3. i # 0 => i - 1 \in 0 .. k /\ i - 1 # k
        BY <1>2, <4>1
      <4>. QED BY <4>1, <4>2, <4>3
    <3>. QED BY <3>1, <3>2
  <2>. QED BY <2>1 DEF writesTo
<1>. QED BY <1>2, <1>5

firstOnes(entries, n) == {entries[j] : j \in 1 .. n}
wroteAll(w, S) ==
  /\ w \in Writes
  /\ growsBy(files, w.v.files, S)
  /\ putsBy(mems[Len(mems)], w.mt, w.v.files, S)

LEMMA RequestWritten ==
  ASSUME VlogTyped, FilesMade, NEW entries \in Seq(Req)
  PROVE  wroteAll(vwrite(entries), firstOnes(entries, Len(entries)))
<1>. DEFINE n == Len(entries)
<1>1. n \in Nat
  OBVIOUS
<1>2. PICK g : writesTo(entries, n, g) /\ vwrite(entries) = g[n]
  <2>1. \E g : writesTo(entries, n, g)
    BY <1>1, RequestsExist
  <2>2. vwrite(entries) = (CHOOSE g : writesTo(entries, n, g))[n]
    BY DEF vwrite, writesTo, startOfWrite
  <2>. QED BY <2>1, <2>2
<1>3. \A k \in 1 .. n : entries[k] \in Req
  OBVIOUS
<1>. HIDE DEF n
<1>. DEFINE Bad == {k \in Nat : k <= n /\ ~ wroteAll(g[k], firstOnes(entries, k))}
<1>4. Bad = {}
  <2>. SUFFICES ASSUME Bad # {} PROVE FALSE
    OBVIOUS
  <2>1. PICK k \in Bad : \A j \in Bad : k <= j
    <3>. Bad \in SUBSET Nat
      OBVIOUS
    <3>. HIDE DEF Bad
    <3>. QED BY Least
  <2>2. k \in Nat /\ k <= n /\ ~ wroteAll(g[k], firstOnes(entries, k)) /\ k \in 0 .. n
    BY <1>1
  <2>3. g[k] = IF k = 0 THEN startOfWrite ELSE writeOne(g[k - 1], entries[k])
    BY <1>2, <2>2 DEF writesTo
  <2>4. k # 0
    <3>1. firstOnes(entries, 0) = {}
      BY DEF firstOnes
    <3>2. startOfWrite \in Writes /\ startOfWrite.v.files = files /\ startOfWrite.mt = mems[Len(mems)]
      <4>1. mems \in Seq(SUBSET Copy) /\ Len(mems) \in Nat /\ Len(mems) > 0
        BY DEF VlogTyped
      <4>2. mems[Len(mems)] \in SUBSET Copy
        BY <4>1
      <4>. QED BY <4>2 DEF startOfWrite, Vlog, Writes, FilesMade
    <3>3. growsBy(files, files, {})
      BY DEF growsBy
    <3>4. putsBy(mems[Len(mems)], mems[Len(mems)], files, {})
      BY DEF putsBy, mentions
    <3>5. wroteAll(startOfWrite, {})
      BY <3>2, <3>3, <3>4 DEF wroteAll
    <3>. QED BY <2>2, <2>3, <3>1, <3>5
  <2>5. wroteAll(g[k - 1], firstOnes(entries, k - 1)) /\ k \in 1 .. n /\ k - 1 \in Nat
    <3>1. k - 1 \in Nat /\ k - 1 <= n /\ ~ (k <= k - 1) /\ k \in 1 .. n
      BY <1>1, <2>2, <2>4
    <3>. QED BY <2>1, <3>1
  <2>. HIDE DEF Bad
  <2>6. PICK w, x, e, S : w = g[k - 1] /\ x = g[k] /\ e = entries[k] /\ S = firstOnes(entries, k - 1)
    OBVIOUS
  <2>7. x = writeOne(w, e) /\ e \in Req
    BY <1>3, <2>3, <2>4, <2>5, <2>6
  <2>8. wroteAll(w, S)
    BY <2>5, <2>6
  <2>9. wroteOne(w, x, e)
    <3>1. w \in Writes
      BY <2>8 DEF wroteAll
    <3>. QED BY <2>7, <3>1, EntryWritten
  <2>10. wroteAll(x, S \cup {e})
    BY <2>8, <2>9, GrowsOn, PutsOn DEF wroteAll, wroteOne
  <2>11. firstOnes(entries, k) = S \cup {e}
    <3>1. \A j : j \in 1 .. k <=> j \in 1 .. k - 1 \/ j = k
      BY <2>5
    <3>. QED BY <2>6, <3>1 DEF firstOnes
  <2>. QED BY <2>2, <2>6, <2>10, <2>11
<1>5. n \in Nat /\ n <= n
  BY <1>1
<1>. QED BY <1>2, <1>4, <1>5 DEF n

-----------------------------------------------------------------------------
(* The files after the ones that are full were closed.                     *)
moreFiles(fs, gs) ==
  /\ DOMAIN fs \subseteq DOMAIN gs /\ \A f \in DOMAIN fs : gs[f] = fs[f]
  /\ \A f \in DOMAIN gs : f \notin DOMAIN fs => gs[f] = <<>>

LEMMA FilesClosed ==
  ASSUME FilesMade, NEW w \in Writes, NEW u, u = createVlogFile(w.v),
         u.cold <= VMaxFile, u.hot <= HotVlogFidMask + VMaxFile,
         files' = u.files, maxFid' = u.cold, hotMaxFid' = u.hot, UNCHANGED filesToBeDeleted
  PROVE  /\ FilesMade' /\ moreFiles(w.v.files, files')
         /\ \A f \in Nat : isOld(f) => isOld(f)'
<1>1. PICK fs, cold, hot : /\ fs = w.v.files
                           /\ cold = (IF Len(fs[maxFid]) > ValueLogMaxEntries THEN maxFid + 1 ELSE maxFid)
                           /\ hot = (IF Len(fs[hotMaxFid]) > ValueLogMaxEntries THEN hotMaxFid + 1 ELSE hotMaxFid)
  OBVIOUS
<1>2. w.v.cold = maxFid /\ w.v.hot = hotMaxFid /\ fs \in [DOMAIN files -> Seq(Entry)]
  BY <1>1 DEF Writes
<1>3. u = [files |-> [f \in DOMAIN fs \cup {cold, hot} |-> IF f \in DOMAIN fs THEN fs[f] ELSE <<>>],
           cold |-> cold, hot |-> hot]
  BY <1>1, <1>2 DEF createVlogFile
<1>4. /\ files' = [f \in DOMAIN fs \cup {cold, hot} |-> IF f \in DOMAIN fs THEN fs[f] ELSE <<>>]
      /\ maxFid' = cold /\ hotMaxFid' = hot /\ cold <= VMaxFile
  BY <1>3
<1>5. moreFiles(fs, files')
  BY <1>4 DEF moreFiles
<1>6. DOMAIN fs = DOMAIN files /\ DOMAIN files' = DOMAIN files \cup {cold, hot}
  BY <1>2, <1>4
<1>7. /\ maxFid \in 1 .. 100 /\ hotMaxFid \in Nat /\ hotMaxFid > 100
      /\ {maxFid, hotMaxFid} \subseteq DOMAIN files
      /\ \A f \in DOMAIN files : f \in Nat /\ (isOld(f) \/ isActive(f))
  BY DEF FilesMade, isHotVlog, HotVlogFidMask
<1>8. cold \in 1 .. 100 /\ hot \in Nat /\ hot > 100 /\ maxFid <= cold /\ hotMaxFid <= hot
  <2>1. VMaxFile \in Int /\ VMaxFile <= 99 /\ cold <= VMaxFile
    <3>1. VMaxFile \in 1 .. HotVlogFidMask - 1
      BY ValueLogAssumption
    <3>2. HotVlogFidMask - 1 = 99
      BY DEF HotVlogFidMask
    <3>. QED BY <1>4, <3>1, <3>2
  <2>2. maxFid \in Int /\ maxFid >= 1 /\ hotMaxFid \in Int /\ hotMaxFid > 100
    BY <1>7
  <2>3. (cold = maxFid \/ cold = maxFid + 1) /\ (hot = hotMaxFid \/ hot = hotMaxFid + 1)
    BY <1>1
  <2>4. cold \in Int /\ cold >= 1 /\ maxFid <= cold /\ hot \in Int /\ hot > 100 /\ hotMaxFid <= hot
    BY <2>2, <2>3
  <2>5. cold <= 100
    BY <2>1, <2>4
  <2>. QED BY <2>4, <2>5
<1>9. ASSUME NEW f \in Nat, isOld(f) PROVE isOld(f)'
  <2>1. f < IF isHotVlog(f) THEN hotMaxFid ELSE maxFid
    BY <1>9 DEF isOld
  <2>2. f < IF isHotVlog(f) THEN hot ELSE cold
    BY <1>7, <1>8, <2>1
  <2>. QED BY <1>4, <2>2 DEF isOld, isHotVlog
<1>10. ~ isHotVlog(cold) /\ isHotVlog(hot) /\ ~ isHotVlog(maxFid) /\ isHotVlog(hotMaxFid)
  BY <1>7, <1>8 DEF isHotVlog, HotVlogFidMask
<1>11. ASSUME NEW f \in DOMAIN files' PROVE f \in Nat /\ (isOld(f)' \/ isActive(f)')
  <2>1. f \in Nat
    BY <1>6, <1>7, <1>8
  <2>2. CASE f \in {cold, hot}
    <3>1. isActive(f)'
      BY <1>4, <1>10, <2>2 DEF isActive, isHotVlog
    <3>. QED BY <2>1, <3>1
  <2>3. CASE f \in DOMAIN files /\ isOld(f)
    BY <1>9, <2>1, <2>3
  <2>4. CASE f \in DOMAIN files /\ isActive(f)
    <3>1. f = maxFid \/ f = hotMaxFid
      BY <2>4 DEF isActive
    <3>2. CASE f = maxFid
      <4>1. f = cold \/ f < cold
        BY <1>7, <1>8, <3>2
      <4>. QED BY <1>4, <1>10, <2>1, <3>2, <4>1 DEF isActive, isOld, isHotVlog
    <3>3. CASE f = hotMaxFid
      <4>1. f = hot \/ f < hot
        BY <1>7, <1>8, <3>3
      <4>. QED BY <1>4, <1>10, <2>1, <3>3, <4>1 DEF isActive, isOld, isHotVlog
    <3>. QED BY <3>1, <3>2, <3>3
  <2>. QED BY <1>6, <1>7, <2>2, <2>3, <2>4
<1>12. files' \in [DOMAIN files' -> Seq(Entry)]
  <2>1. <<>> \in Seq(Entry)
    OBVIOUS
  <2>. QED BY <1>2, <1>4, <2>1
<1>13. \A f \in filesToBeDeleted' : f \in Nat /\ isOld(f)'
  BY <1>9 DEF FilesMade
<1>14. maxFid' \in 1 .. HotVlogFidMask /\ hotMaxFid' \in Nat /\ isHotVlog(hotMaxFid)' /\ {maxFid', hotMaxFid'} \subseteq DOMAIN files'
  BY <1>4, <1>6, <1>8, <1>10 DEF HotVlogFidMask, isHotVlog
<1>15. FilesMade'
  BY <1>11, <1>12, <1>13, <1>14 DEF FilesMade
<1>. QED BY <1>1, <1>5, <1>9, <1>15

(* What a request S does to the files and to the last memtable.            *)
requested(last, S) ==
  /\ isSource(last) /\ last.tier = "mem"
  /\ growsBy(files, files', S)
  /\ \A s, c : has(s, c) /\ s # last => earlier(last, s)
  /\ \A s, c : s # last => (has(s, c)' <=> has(s, c))
  /\ \A c : has(last, c)' => (has(last, c) /\ ~ mentions(S, c)) \/ isFresh(files', c, S)
  /\ \A c : has(last, c) => mentions(S, c) \/ has(last, c)'
  /\ \A e \in S : \E c : has(last, c)' /\ same(e, c)
  /\ \A c, d : has(last, c)' /\ has(last, d)' /\ same(c, d) => c = d

LEMMA MoreGrows ==
  ASSUME NEW fs, NEW gs, NEW hs, NEW S, growsBy(fs, gs, S), moreFiles(gs, hs)
  PROVE  growsBy(fs, hs, S)
<1>1. \A f \in DOMAIN hs : \A i \in 1 .. Len(hs[f]) : f \in DOMAIN gs
  <2>. SUFFICES ASSUME NEW f \in DOMAIN hs, NEW i \in 1 .. Len(hs[f]), f \notin DOMAIN gs PROVE FALSE
    OBVIOUS
  <2>1. hs[f] = <<>>
    BY DEF moreFiles
  <2>. QED BY <2>1
<1>2. \A f \in DOMAIN gs : f \in DOMAIN hs /\ hs[f] = gs[f]
  BY DEF moreFiles
<1>. QED BY <1>1, <1>2 DEF growsBy

LEMMA RequestMoves ==
  ASSUME VlogTyped, FilesMade, madeBy, NEW entries \in Seq(Req), writeRequest(entries),
         UNCHANGED <<heat, nFlushed, tree, l0run, filesToBeDeleted, iters>>,
         vTs' \in Nat, DOMAIN newest' = VKeys, \A k \in VKeys : newest'[k].ver \in 0 .. vTs'
  PROVE  /\ VlogTyped' /\ FilesMade'
         /\ \A f \in Nat : isOld(f) => isOld(f)'
         /\ \E last : requested(last, firstOnes(entries, Len(entries)))
<1>1. PICK w, u, S : w = vwrite(entries) /\ u = createVlogFile(w.v) /\ S = firstOnes(entries, Len(entries))
  OBVIOUS
<1>2. /\ u.cold <= VMaxFile /\ u.hot <= HotVlogFidMask + VMaxFile
      /\ files' = u.files /\ maxFid' = u.cold /\ hotMaxFid' = u.hot
      /\ mems' = [mems EXCEPT ![Len(mems)] = w.mt]
  BY <1>1 DEF writeRequest
<1>3. wroteAll(w, S)
  BY <1>1, RequestWritten
<1>4. w \in Writes /\ growsBy(files, w.v.files, S) /\ putsBy(mems[Len(mems)], w.mt, w.v.files, S)
  BY <1>3 DEF wroteAll
<1>5. FilesMade' /\ moreFiles(w.v.files, files') /\ \A f \in Nat : isOld(f) => isOld(f)'
  <2>1. w \in Writes /\ UNCHANGED filesToBeDeleted
    BY <1>4
  <2>. QED BY <1>1, <1>2, <2>1, FilesClosed
<1>6. growsBy(files, files', S)
  BY <1>4, <1>5, MoreGrows
<1>7. PICK n, mt : n = Len(mems) /\ mt = w.mt
  OBVIOUS
<1>8. n \in Nat /\ n > 0 /\ mems \in Seq(SUBSET Copy) /\ mt \in SUBSET Copy /\ nFlushed \in Nat /\ nFlushed < n
  BY <1>4, <1>7 DEF VlogTyped, Writes
<1>9. mems' \in Seq(SUBSET Copy) /\ Len(mems') = n /\ mems'[n] = mt /\ \A i \in 1 .. n : i # n => mems'[i] = mems[i]
  <2>1. mems' = [mems EXCEPT ![n] = mt]
    BY <1>2, <1>7
  <2>2. n \in 1 .. Len(mems)
    BY <1>7, <1>8
  <2>. QED BY <1>7, <1>8, <2>1, <2>2
<1>10. VlogTyped'
  BY <1>7, <1>8, <1>9 DEF VlogTyped
<1>11. hasIs /\ hasIs' /\ sourcesAre
  BY <1>10, HasIs, HasIsNext, SourcesAre
<1>12. PICK last : last = src("mem", n)
  OBVIOUS
<1>13. last.tier = "mem" /\ last.n = n /\ isSource(last)
  BY <1>8, <1>12 DEF src, isSource, Tiers
<1>14. n \in nFlushed + 1 .. n /\ \A i \in nFlushed + 1 .. n : i \in 1 .. n /\ (i # n => i < n)
  BY <1>8
<1>15. \A c : has(last, c) <=> c \in mems[n]
  BY <1>7, <1>11, <1>12, <1>14 DEF hasIs
<1>16. \A c : has(last, c)' <=> c \in mt
  BY <1>9, <1>11, <1>12, <1>14 DEF hasIs
<1>17. ASSUME NEW s, NEW c, s # last PROVE has(s, c)' <=> has(s, c)
  <2>1. has(s, c) \/ has(s, c)' => isSource(s)
    BY <1>11 DEF hasIs, isSource, src, Tiers
  <2>. SUFFICES ASSUME isSource(s) PROVE has(s, c)' <=> has(s, c)
    BY <2>1
  <2>2. CASE s.tier = "mem"
    <3>1. PICK i : s = src("mem", i) /\ i # n
      BY <1>12, <1>17, <2>2 DEF isSource
    <3>2. has(src("mem", i), c)' <=> i \in nFlushed + 1 .. n /\ c \in mems'[i]
      BY <1>9, <1>11 DEF hasIs
    <3>3. has(src("mem", i), c) <=> i \in nFlushed + 1 .. n /\ c \in mems[i]
      BY <1>7, <1>11 DEF hasIs
    <3>4. i \in nFlushed + 1 .. n => mems'[i] = mems[i]
      BY <1>9, <1>14, <3>1
    <3>. QED BY <3>1, <3>2, <3>3, <3>4
  <2>3. CASE s.tier \in Places
    <3>1. PICK p, i : s = src(p, i) /\ p \in Places
      BY <2>3 DEF isSource
    <3>2. has(src(p, i), c)' <=> has(src(p, i), c)
      BY <1>11, <3>1 DEF hasIs
    <3>. QED BY <3>1, <3>2
  <2>. QED BY <2>2, <2>3 DEF isSource, Tiers
<1>18. ASSUME NEW s, NEW c, has(s, c), s # last PROVE earlier(last, s)
  <2>1. isSource(s)
    BY <1>11, <1>18 DEF hasIs
  <2>2. CASE s.tier = "mem"
    <3>1. PICK i : s = src("mem", i) /\ i = s.n /\ i # n
      BY <1>12, <1>18, <2>1, <2>2 DEF isSource
    <3>2. i \in nFlushed + 1 .. n
      BY <1>7, <1>11, <1>18, <3>1 DEF hasIs
    <3>3. last.n > s.n
      BY <1>8, <1>13, <1>14, <3>1, <3>2
    <3>. QED BY <1>13, <2>2, <3>3 DEF earlier
  <2>3. CASE s.tier \in Places
    BY <1>13, <2>3 DEF earlier, rank, Places
  <2>. QED BY <2>1, <2>2, <2>3 DEF isSource, Tiers
<1>19. putsBy(mems[n], mt, w.v.files, S)
  BY <1>4, <1>7
<1>20. \A c : isFresh(w.v.files, c, S) => isFresh(files', c, S)
  BY <1>5 DEF isFresh, moreFiles
<1>21. \A c, d \in mems[n] : same(c, d) => c = d
  BY <1>15 DEF madeBy
<1>22. /\ \A c : has(last, c)' => (has(last, c) /\ ~ mentions(S, c)) \/ isFresh(files', c, S)
       /\ \A c : has(last, c) => mentions(S, c) \/ has(last, c)'
       /\ \A e \in S : \E c : has(last, c)' /\ same(e, c)
       /\ \A c, d : has(last, c)' /\ has(last, d)' /\ same(c, d) => c = d
  BY <1>15, <1>16, <1>19, <1>20, <1>21 DEF putsBy
<1>23. requested(last, S)
  BY <1>6, <1>13, <1>17, <1>18, <1>22 DEF requested
<1>. QED BY <1>1, <1>5, <1>10, <1>23

(* The requests S agree with what has been written before.                 *)
agrees(S) ==
  /\ S \subseteq Req
  /\ \A e \in S : e.ver <= newest'[e.key].ver
  /\ \A e \in S : \A s, c : has(s, c) /\ same(e, c) => c.kind = e.kind
  /\ \A e, d \in S : same(e, d) => e.kind = d.kind
  /\ \A e \in S : \A f \in DOMAIN files : \A i \in DOMAIN files[f] : same(e, files[f][i]) => e.kind = "put"
  /\ \A e \in S : e.key \notin upset' /\ goesHot(e) => \A s, c : has(s, c) /\ c.key = e.key => e.ver >= c.ver
  /\ \A k \in VKeys : newest[k].ver <= newest'[k].ver
  /\ upset \subseteq upset' /\ heat' = heat

LEMMA WrittenFrom ==
  ASSUME NEW last, NEW S, requested(last, S)
  PROVE  \A s, c : has(s, c)' => (\E r : has(r, c)) \/ \E e \in S : same(e, c) /\ e.kind = c.kind
BY DEF requested, isFresh

LEMMA WriteMade ==
  ASSUME VlogTyped, VlogTyped', FilesMade, FilesMade', madeBy, NEW last, NEW S, requested(last, S), agrees(S)
  PROVE  madeBy'
<1>1. \A s, c : has(s, c)' => (\E r : has(r, c)) \/ \E e \in S : same(e, c) /\ e.kind = c.kind
  BY WrittenFrom
<1>2. \A k \in VKeys : newest[k].ver \in Nat /\ newest'[k].ver \in Nat /\ newest[k].ver <= newest'[k].ver
  BY DEF VlogTyped, agrees
<1>3. \A s, c : has(s, c) => c.key \in VKeys /\ c.ver \in Nat
  BY HasTyped, CopyFacts
<1>4. ASSUME NEW s, NEW c, has(s, c)' PROVE c.ver <= newest'[c.key].ver
  <2>1. ASSUME NEW r, has(r, c) PROVE c.ver <= newest'[c.key].ver
    <3>1. c.ver <= newest[c.key].ver
      BY <2>1 DEF madeBy
    <3>2. c.key \in VKeys /\ c.ver \in Nat
      BY <1>3, <2>1
    <3>3. newest[c.key].ver \in Nat /\ newest'[c.key].ver \in Nat /\ newest[c.key].ver <= newest'[c.key].ver
      BY <1>2, <3>2
    <3>. QED BY <3>1, <3>2, <3>3
  <2>2. ASSUME NEW e \in S, same(e, c) PROVE c.ver <= newest'[c.key].ver
    BY <2>2 DEF agrees, same
  <2>. QED BY <1>1, <1>4, <2>1, <2>2
<1>5. \A s, c, d : has(s, c)' /\ has(s, d)' /\ same(c, d) => c = d
  BY DEF requested, madeBy
<1>6. ASSUME NEW r, NEW s, NEW c, NEW d, has(r, c)', has(s, d)', same(c, d) PROVE c.kind = d.kind
  <2>1. CASE (\E q : has(q, c)) /\ (\E q : has(q, d))
    BY <1>6, <2>1 DEF madeBy
  <2>2. ASSUME NEW e \in S, same(e, d), e.kind = d.kind, NEW q, has(q, c) PROVE c.kind = d.kind
    <3>1. same(e, c)
      BY <1>6, <2>2 DEF same
    <3>. QED BY <2>2, <3>1 DEF agrees
  <2>3. ASSUME NEW e \in S, same(e, c), e.kind = c.kind, NEW q, has(q, d) PROVE c.kind = d.kind
    <3>1. same(e, d)
      BY <1>6, <2>3 DEF same
    <3>. QED BY <2>3, <3>1 DEF agrees
  <2>4. ASSUME NEW e \in S, same(e, c), e.kind = c.kind, NEW x \in S, same(x, d), x.kind = d.kind PROVE c.kind = d.kind
    <3>1. same(e, x)
      BY <1>6, <2>4 DEF same
    <3>. QED BY <2>4, <3>1 DEF agrees
  <2>. QED BY <1>1, <1>6, <2>1, <2>2, <2>3, <2>4
<1>7. ASSUME NEW f \in DOMAIN files', NEW i \in DOMAIN files'[f]
      PROVE  \/ f \in DOMAIN files /\ i \in DOMAIN files[f] /\ files'[f][i] = files[f][i] /\ files[f][i] \in Entry
             \/ \E e \in S : e.kind = "put" /\ files'[f][i] = entryOf(e)
  <2>1. i \in 1 .. Len(files'[f])
    BY <1>7 DEF FilesMade
  <2>2. \/ f \in DOMAIN files /\ i \in 1 .. Len(files[f]) /\ files'[f][i] = files[f][i]
        \/ \E e \in S : e.kind = "put" /\ files'[f][i] = entryOf(e)
    BY <1>7, <2>1 DEF requested, growsBy
  <2>3. f \in DOMAIN files /\ i \in 1 .. Len(files[f]) => i \in DOMAIN files[f] /\ files[f][i] \in Entry
    BY DEF FilesMade
  <2>. QED BY <2>2, <2>3
<1>8. ASSUME NEW f \in DOMAIN files', NEW i \in DOMAIN files'[f]
      PROVE  files'[f][i].ver <= newest'[files'[f][i].key].ver
  <2>1. CASE f \in DOMAIN files /\ i \in DOMAIN files[f] /\ files'[f][i] = files[f][i] /\ files[f][i] \in Entry
    <3>1. PICK x : x = files[f][i]
      OBVIOUS
    <3>2. x.ver <= newest[x.key].ver /\ x.key \in VKeys /\ x.ver \in Nat
      BY <2>1, <3>1 DEF madeBy, Entry
    <3>3. newest[x.key].ver \in Nat /\ newest'[x.key].ver \in Nat /\ newest[x.key].ver <= newest'[x.key].ver
      BY <1>2, <3>2
    <3>4. x.ver <= newest'[x.key].ver
      BY <3>2, <3>3
    <3>. QED BY <2>1, <3>1, <3>4
  <2>2. ASSUME NEW e \in S, files'[f][i] = entryOf(e) PROVE files'[f][i].ver <= newest'[files'[f][i].key].ver
    BY <2>2 DEF agrees, entryOf
  <2>. QED BY <1>7, <1>8, <2>1, <2>2
<1>9. ASSUME NEW f \in DOMAIN files', NEW i \in DOMAIN files'[f], NEW s, NEW c, has(s, c)', same(c, files'[f][i])
      PROVE  c.kind = "put"
  <2>1. PICK x : x = files'[f][i]
    OBVIOUS
  <2>2. same(c, x)
    BY <1>9, <2>1
  <2>3. CASE f \in DOMAIN files /\ i \in DOMAIN files[f] /\ x = files[f][i]
    <3>1. ASSUME NEW r, has(r, c) PROVE c.kind = "put"
      BY <2>2, <2>3, <3>1 DEF madeBy
    <3>2. ASSUME NEW e \in S, same(e, c), e.kind = c.kind PROVE c.kind = "put"
      <4>1. same(e, x)
        BY <2>2, <3>2 DEF same
      <4>. QED BY <2>3, <3>2, <4>1 DEF agrees
    <3>. QED BY <1>1, <1>9, <3>1, <3>2
  <2>4. ASSUME NEW e \in S, e.kind = "put", x = entryOf(e) PROVE c.kind = "put"
    <3>1. same(e, c)
      BY <2>2, <2>4 DEF same, entryOf
    <3>2. ASSUME NEW r, has(r, c) PROVE c.kind = "put"
      BY <2>4, <3>1, <3>2 DEF agrees
    <3>3. ASSUME NEW d \in S, same(d, c), d.kind = c.kind PROVE c.kind = "put"
      <4>1. same(d, e)
        BY <3>1, <3>3 DEF same
      <4>. QED BY <2>4, <3>3, <4>1 DEF agrees
    <3>. QED BY <1>1, <1>9, <3>2, <3>3
  <2>. QED BY <1>7, <1>9, <2>1, <2>3, <2>4
<1>. QED BY <1>4, <1>5, <1>6, <1>8, <1>9 DEF madeBy, same

LEMMA WriteApart ==
  ASSUME apartBy, NEW last, NEW S, requested(last, S), agrees(S)
  PROVE  apartBy'
<1>. SUFFICES ASSUME NEW s, NEW c, has(s, c)', c.key \notin upset', c.kind = "put"
              PROVE  (isHotSource(s) => c.key \in heat') /\ (s.tier = "l0" => c.key \notin heat')
  BY DEF apartBy, isHotSource
<1>1. c.key \notin upset /\ heat' = heat
  BY DEF agrees
<1>2. CASE s = last
  BY <1>2 DEF requested, isHotSource
<1>3. CASE s # last
  <2>1. has(s, c)
    BY <1>3 DEF requested
  <2>. QED BY <1>1, <2>1 DEF apartBy
<1>. QED BY <1>2, <1>3

LEMMA WriteRise ==
  ASSUME VlogTyped, VlogTyped', riseBy, NEW last, NEW S, requested(last, S), agrees(S)
  PROVE  riseBy'
<1>. SUFFICES ASSUME NEW r, NEW s, NEW c, NEW d, has(r, c)', has(s, d)', onHotPath(r), onHotPath(s), earlier(r, s),
                     c.key = d.key, c.key \notin upset', goesHot(c), goesHot(d)
              PROVE  c.ver >= d.ver
  BY DEF riseBy, onHotPath, isHotSource, earlier, goesHot, agrees
<1>1. c.key \notin upset
  BY DEF agrees
<1>2. isSource(r) /\ isSource(s) /\ isSource(last)
  <2>1. hasIs'
    BY HasIsNext
  <2>. QED BY <2>1 DEF hasIs, isSource, src, Tiers, requested
<1>3. s # last
  <2>. SUFFICES ASSUME s = last PROVE FALSE
    OBVIOUS
  <2>1. r # last
    BY <1>2, EarlierOrder
  <2>2. has(r, c)
    BY <2>1 DEF requested
  <2>3. earlier(last, r)
    BY <2>1, <2>2 DEF requested
  <2>. QED BY <1>2, <2>3, EarlierOrder
<1>4. has(s, d)
  BY <1>3 DEF requested
<1>5. CASE has(r, c)
  BY <1>1, <1>4, <1>5 DEF riseBy
<1>6. CASE ~ has(r, c)
  <2>1. r = last /\ isFresh(files', c, S)
    BY <1>6 DEF requested
  <2>2. PICK e \in S : same(e, c) /\ e.kind = c.kind
    BY <2>1 DEF isFresh
  <2>3. goesHot(e) /\ e.key \notin upset' /\ e.key = d.key /\ e.ver = c.ver
    BY <2>2 DEF goesHot, same
  <2>. QED BY <1>4, <2>3 DEF agrees
<1>. QED BY <1>5, <1>6

LEMMA FreshIsKept ==
  ASSUME FilesMade, GcMade, filesToBeDeleted' = filesToBeDeleted, gc # NoGC \/ gc' = NoGC, gc'.fid = gc.fid \/ gc' = NoGC,
         NEW S, NEW c, isFresh(files', c, S), NEW s, has(s, c)'
  PROVE  ~ isLost(c)'
<1>. SUFFICES ASSUME c.kind = "put" PROVE ~ isLost(c)'
  BY DEF isLost
<1>1. /\ c.fid \in Actives /\ c.fid \in DOMAIN files' /\ c.off \in 1 .. Len(files'[c.fid])
      /\ files'[c.fid][c.off] = [key |-> c.key, ver |-> c.ver]
  BY DEF isFresh, entryOf
<1>2. ~ isOld(c.fid)
  BY <1>1, ActiveIsNotOld DEF Actives
<1>3. c.fid \notin filesToBeDeleted
  BY <1>2 DEF FilesMade
<1>4. gc' # NoGC => c.fid # gc'.fid
  BY <1>2, GcFacts
<1>5. readable(c)'
  BY <1>1 DEF readable
<1>. QED BY <1>3, <1>4, <1>5 DEF isLost

LEMMA WriteHidden ==
  ASSUME VlogTyped, heldBy, NEW last, NEW S, requested(last, S), agrees(S),
         \A s, c : has(s, c) /\ isLost(c)' /\ ~ mentions(S, c) => isLost(c),
         \A s, c : has(s, c)' /\ isFresh(files', c, S) => ~ isLost(c)'
  PROVE  hiddenBy'
<1>1. hiddenBy
  BY DEF heldBy
<1>. SUFFICES ASSUME NEW s, NEW c, has(s, c)', c.key \notin upset', isLost(c)', firstAt(s, c)'
              PROVE  s.tier = "base" /\ newerThan(c)'
  BY DEF hiddenBy
<1>2. c.key \notin upset
  BY DEF agrees
<1>3. \A r, d : has(r, d)' /\ earlier(r, s) => ~ same(d, c)
  BY DEF firstAt, same, earlier
<1>4. has(s, c) /\ ~ mentions(S, c)
  <2>1. CASE s = last
    BY <2>1 DEF requested
  <2>2. CASE s # last
    <3>1. has(s, c)
      BY <2>2 DEF requested
    <3>2. earlier(last, s)
      BY <2>2, <3>1 DEF requested
    <3>3. ~ mentions(S, c)
      <4>. SUFFICES ASSUME NEW e \in S, same(e, c) PROVE FALSE
        BY DEF mentions
      <4>1. PICK d : has(last, d)' /\ same(e, d)
        BY DEF requested
      <4>2. same(d, c)
        BY <4>1 DEF same
      <4>. QED BY <1>3, <3>2, <4>1, <4>2
    <3>. QED BY <3>1, <3>3
  <2>. QED BY <2>1, <2>2
<1>5. isLost(c)
  BY <1>4
<1>6. firstAt(s, c)
  <2>. SUFFICES ASSUME NEW r, NEW d, has(r, d), earlier(r, s), same(d, c) PROVE FALSE
    BY DEF firstAt
  <2>1. CASE r # last
    <3>1. has(r, d)'
      BY <2>1 DEF requested
    <3>. QED BY <1>3, <3>1
  <2>2. CASE r = last
    <3>1. ~ mentions(S, d)
      BY <1>4 DEF mentions, same
    <3>2. has(last, d)'
      BY <2>2, <3>1 DEF requested
    <3>. QED BY <1>3, <2>2, <3>2
  <2>. QED BY <2>1, <2>2
<1>7. s.tier = "base" /\ newerThan(c)
  BY <1>1, <1>2, <1>4, <1>5, <1>6 DEF hiddenBy
<1>8. PICK r, d : has(r, d) /\ d.key = c.key /\ d.ver > c.ver
  BY <1>7 DEF newerThan
<1>9. CASE r # last \/ ~ mentions(S, d)
  <2>1. has(r, d)'
    BY <1>8, <1>9 DEF requested
  <2>. QED BY <1>7, <1>8, <2>1 DEF newerThan
<1>10. CASE r = last /\ mentions(S, d)
  <2>1. PICK e \in S : same(e, d)
    BY <1>10 DEF mentions
  <2>2. PICK x : has(last, x)' /\ same(e, x)
    BY DEF requested
  <2>3. x.key = c.key /\ x.ver > c.ver
    BY <1>8, <2>1, <2>2 DEF same
  <2>. QED BY <1>7, <2>2, <2>3 DEF newerThan
<1>. QED BY <1>9, <1>10

(* What can be read can still be read after a write.                       *)
LEMMA StaysReadable ==
  ASSUME FilesMade, NEW last, NEW S, requested(last, S), NEW c, readable(c)
  PROVE  readable(c)'
<1>. SUFFICES ASSUME c.ver > 0, c.kind = "put"
              PROVE  /\ c.fid \in DOMAIN files' /\ c.off \in 1 .. Len(files'[c.fid])
                     /\ files'[c.fid][c.off] = [key |-> c.key, ver |-> c.ver]
  BY DEF readable
<1>1. /\ c.fid \in DOMAIN files /\ c.off \in 1 .. Len(files[c.fid])
      /\ files[c.fid][c.off] = [key |-> c.key, ver |-> c.ver]
  BY DEF readable
<1>. QED BY <1>1 DEF requested, growsBy

LEMMA WriteKeeps ==
  ASSUME keepBy, NEW entries \in Seq(Req), writeRequest(entries),
         UNCHANGED <<heat, nFlushed, tree, l0run, filesToBeDeleted, iters>>,
         vTs' \in Nat, DOMAIN newest' = VKeys, \A k \in VKeys : newest'[k].ver \in 0 .. vTs',
         NEW S, S = firstOnes(entries, Len(entries)), agrees(S),
         gc # NoGC \/ gc' = NoGC, gc'.fid = gc.fid \/ gc' = NoGC,
         \A last : \A s, c : requested(last, S) /\ has(s, c) /\ isLost(c)' /\ ~ mentions(S, c) => isLost(c)
  PROVE  VlogTyped' /\ FilesMade' /\ heldBy' /\ growsBy(files, files', S) /\ \A f \in Nat : isOld(f) => isOld(f)'
<1>1. VlogTyped /\ FilesMade /\ GcMade /\ heldBy /\ madeBy /\ apartBy /\ riseBy
  BY DEF keepBy, heldBy
<1>2. /\ VlogTyped' /\ FilesMade'
      /\ \A f \in Nat : isOld(f) => isOld(f)'
      /\ \E last : requested(last, firstOnes(entries, Len(entries)))
  BY <1>1, RequestMoves
<1>3. PICK last : requested(last, S)
  BY <1>2
<1>4. \A s, c : has(s, c) /\ isLost(c)' /\ ~ mentions(S, c) => isLost(c)
  BY <1>3
<1>5. \A s, c : has(s, c)' /\ isFresh(files', c, S) => ~ isLost(c)'
  BY <1>1, FreshIsKept
<1>6. hiddenBy'
  BY <1>1, <1>3, <1>4, <1>5, WriteHidden
<1>7. madeBy' /\ apartBy' /\ riseBy'
  BY <1>1, <1>2, <1>3, WriteMade, WriteApart, WriteRise
<1>8. growsBy(files, files', S)
  BY <1>3 DEF requested
<1>. QED BY <1>2, <1>6, <1>7, <1>8 DEF heldBy

(* A file that GC works on stays one that takes no writes.                 *)
LEMMA GcStays ==
  ASSUME GcMade, FilesMade, FilesMade', NEW S, growsBy(files, files', S), \A f \in Nat : isOld(f) => isOld(f)',
         filesToBeDeleted' = filesToBeDeleted, gc # NoGC
  PROVE  /\ gc.fid \in DOMAIN files' /\ (\A f : f = gc.fid => isOld(f)') /\ gc.fid \notin filesToBeDeleted'
         /\ \A j \in DOMAIN gc.wb : \E i \in DOMAIN files'[gc.fid] :
              files'[gc.fid][i] = [key |-> gc.wb[j].key, ver |-> gc.wb[j].ver]
<1>1. gc.fid \in DOMAIN files /\ isOld(gc.fid) /\ gc.fid \notin filesToBeDeleted /\ gc.fid \in Nat
  BY GcFacts DEF FilesMade
<1>2. ASSUME NEW j \in DOMAIN gc.wb
      PROVE  \E i \in DOMAIN files'[gc.fid] : files'[gc.fid][i] = [key |-> gc.wb[j].key, ver |-> gc.wb[j].ver]
  <2>1. PICK i \in DOMAIN files[gc.fid] : files[gc.fid][i] = [key |-> gc.wb[j].key, ver |-> gc.wb[j].ver]
    BY <1>2, GcFacts
  <2>2. i \in 1 .. Len(files[gc.fid])
    BY <1>1, <2>1 DEF FilesMade
  <2>3. i \in 1 .. Len(files'[gc.fid]) /\ files'[gc.fid][i] = files[gc.fid][i]
    BY <1>1, <2>2 DEF growsBy
  <2>4. i \in DOMAIN files'[gc.fid]
    BY <1>1, <2>3 DEF FilesMade
  <2>. QED BY <2>1, <2>3, <2>4
<1>3. gc.fid \in DOMAIN files'
  BY <1>1 DEF growsBy
<1>. QED BY <1>1, <1>2, <1>3

LEMMA CommitKeeps == ASSUME NEW k \in VKeys, NEW kind \in VKinds, keepBy, Commit(k, kind) PROVE keepBy'
<1>1. VlogTyped /\ FilesMade /\ GcMade /\ madeBy /\ VersionsAgree
  BY HeldMade DEF keepBy, heldBy
<1>2. PICK e : e = [key |-> k, ver |-> vTs + 1, kind |-> kind]
  OBVIOUS
<1>3. vTs \in Nat /\ kind \in {"put", "del"}
  BY <1>1, ValueLogAssumption DEF VlogTyped
<1>4. e \in Req /\ e.key = k /\ e.ver = vTs + 1
  BY <1>2, <1>3 DEF Req
<1>5. PICK entries, S : entries = <<e>> /\ S = {e}
  OBVIOUS
<1>6. entries \in Seq(Req) /\ S = firstOnes(entries, Len(entries))
  <2>1. entries \in Seq(Req) /\ Len(entries) = 1 /\ entries[1] = e
    BY <1>4, <1>5
  <2>2. \A j : j \in 1 .. 1 <=> j = 1
    OBVIOUS
  <2>. QED BY <1>5, <2>1, <2>2 DEF firstOnes
<1>7. /\ vTs' = vTs + 1 /\ newest' = [newest EXCEPT ![k] = [ver |-> vTs + 1, kind |-> kind]]
      /\ UNCHANGED <<heat, nFlushed, tree, l0run, filesToBeDeleted, gc, iters, upset>>
  BY DEF Commit
<1>8. writeRequest(entries)
  BY <1>2, <1>5 DEF Commit
<1>9. DOMAIN newest = VKeys /\ \A j \in VKeys : newest[j].ver \in 0 .. vTs
  BY <1>1 DEF VlogTyped
<1>10. DOMAIN newest' = VKeys /\ newest'[k].ver = vTs + 1 /\ \A j \in VKeys : j # k => newest'[j] = newest[j]
  BY <1>7, <1>9
<1>11. vTs' \in Nat /\ \A j \in VKeys : newest'[j].ver \in 0 .. vTs' /\ newest[j].ver <= newest'[j].ver
  BY <1>3, <1>7, <1>9, <1>10
<1>12. ASSUME NEW s, NEW c, has(s, c) PROVE ~ same(e, c) /\ vTs + 1 >= c.ver
  <2>1. c.ver \in 1 .. vTs
    BY <1>1, <1>12, VersionBound
  <2>. QED BY <1>3, <1>4, <2>1 DEF same
<1>13. ASSUME NEW f \in DOMAIN files, NEW i \in DOMAIN files[f] PROVE ~ same(e, files[f][i])
  <2>1. PICK x : x = files[f][i]
    OBVIOUS
  <2>2. x \in Entry
    BY <1>1, <1>13, <2>1 DEF FilesMade
  <2>3. x.ver <= newest[x.key].ver /\ x.key \in VKeys /\ x.ver \in Nat
    BY <1>1, <1>13, <2>1, <2>2 DEF madeBy, Entry
  <2>4. newest[x.key].ver \in 0 .. vTs
    BY <1>9, <2>3
  <2>5. x.ver # vTs + 1
    BY <1>3, <2>3, <2>4
  <2>. QED BY <1>4, <2>1, <2>5 DEF same
<1>14. agrees(S)
  <2>1. e.ver <= newest'[e.key].ver
    BY <1>3, <1>4, <1>10
  <2>2. UNCHANGED <<upset, heat>>
    BY <1>7
  <2>. QED BY <1>4, <1>5, <1>11, <1>12, <1>13, <2>1, <2>2 DEF agrees
<1>15. ASSUME NEW last, NEW s, NEW c, requested(last, S), has(s, c), isLost(c)' PROVE isLost(c)
  <2>1. readable(c) => readable(c)'
    BY <1>1, <1>15, StaysReadable
  <2>2. gc' = gc /\ filesToBeDeleted' = filesToBeDeleted
    BY <1>7
  <2>. QED BY <1>15, <2>1, <2>2 DEF isLost
<1>16. gc' = gc
  BY <1>7
<1>17. VlogTyped' /\ FilesMade' /\ heldBy' /\ growsBy(files, files', S) /\ \A f \in Nat : isOld(f) => isOld(f)'
  BY <1>6, <1>7, <1>8, <1>10, <1>11, <1>14, <1>15, <1>16, WriteKeeps
<1>18. GcMade'
  <2>1. CASE gc = NoGC
    BY <1>16, <2>1 DEF GcMade
  <2>2. CASE gc # NoGC
    <3>1. filesToBeDeleted' = filesToBeDeleted
      BY <1>7
    <3>2. /\ gc.fid \in DOMAIN files' /\ (\A f : f = gc.fid => isOld(f)') /\ gc.fid \notin filesToBeDeleted'
          /\ \A j \in DOMAIN gc.wb : \E i \in DOMAIN files'[gc.fid] :
               files'[gc.fid][i] = [key |-> gc.wb[j].key, ver |-> gc.wb[j].ver]
      BY <1>1, <1>17, <2>2, <3>1, GcStays
    <3>3. isOld(gc.fid)'
      BY <1>16, <3>2
    <3>4. gc \in [phase : {"scan", "delete"}, fid : DOMAIN files, pos : Nat \ {0}, wb : Seq(WbEntry)]
      BY <1>1, <2>2 DEF GcMade
    <3>5. gc' \in [phase : {"scan", "delete"}, fid : DOMAIN files', pos : Nat \ {0}, wb : Seq(WbEntry)]
      BY <1>16, <3>2, <3>4
    <3>. QED BY <1>16, <3>2, <3>3, <3>5 DEF GcMade
  <2>. QED BY <2>1, <2>2
<1>. QED BY <1>17, <1>18 DEF keepBy

(* GC writes back entries that are older than the last commit of their key.*)
LEMMA RewriteBatchKeeps == ASSUME keepBy, rewriteBatch PROVE keepBy'
<1>1. VlogTyped /\ FilesMade /\ GcMade /\ madeBy /\ VersionsAgree
  BY HeldMade DEF keepBy, heldBy
<1>2. gc.phase = "scan" /\ gc # NoGC /\ gc.pos > Len(files[gc.fid])
  BY DEF rewriteBatch, NoGC
<1>3. PICK entries, S, fid : entries = gc.wb /\ S = firstOnes(entries, Len(entries)) /\ fid = gc.fid
  OBVIOUS
<1>4. /\ gc \in [phase : {"scan", "delete"}, fid : DOMAIN files, pos : Nat \ {0}, wb : Seq(WbEntry)]
      /\ fid \in DOMAIN files /\ entries \in Seq(WbEntry) /\ gc.pos \in Nat /\ fid \in Nat
      /\ \A j \in DOMAIN entries : \E i \in DOMAIN files[fid] :
           files[fid][i] = [key |-> entries[j].key, ver |-> entries[j].ver]
  <2>1. gc \in [phase : {"scan", "delete"}, fid : DOMAIN files, pos : Nat \ {0}, wb : Seq(WbEntry)]
    BY <1>1, <1>2 DEF GcMade
  <2>. QED BY <1>1, <1>2, <1>3, <2>1, GcFacts DEF FilesMade
<1>5. WbEntry \subseteq Req
  BY DEF WbEntry, Req
<1>6. entries \in Seq(Req)
  BY <1>4, <1>5
<1>7. /\ gc' = [gc EXCEPT !.phase = "delete", !.wb = <<>>] /\ writeRequest(entries)
      /\ UNCHANGED <<vTs, heat, nFlushed, tree, l0run, filesToBeDeleted, iters, newest>>
      /\ upset' = upset \cup {k \in heat : \E i \in 1 .. Len(entries) : entries[i].key = k /\ entries[i].ver < newest[k].ver}
  BY <1>3 DEF rewriteBatch
<1>8. gc' = [phase |-> "delete", fid |-> fid, pos |-> gc.pos, wb |-> <<>>]
  BY <1>3, <1>4, <1>7
<1>9. ASSUME NEW e \in S
      PROVE  /\ e \in WbEntry
             /\ \E i \in DOMAIN files[fid] : files[fid][i] = entryOf(e)
             /\ e.key \notin upset' /\ e.key \in heat => ~ (e.ver < newest[e.key].ver)
  <2>1. PICK j \in 1 .. Len(entries) : e = entries[j]
    BY <1>3, <1>9 DEF firstOnes
  <2>2. j \in DOMAIN entries /\ e \in WbEntry
    BY <1>4, <2>1
  <2>. QED BY <1>4, <1>7, <2>1, <2>2 DEF entryOf
<1>10. \A e \in S : e \in Req /\ e.kind = "put" /\ e.key \in VKeys /\ e.ver \in Nat
  BY <1>9 DEF WbEntry, Req
<1>11. \A j \in VKeys : newest[j].ver \in 0 .. vTs /\ newest[j].ver \in Nat /\ vTs \in Nat
  BY <1>1 DEF VlogTyped
<1>12. ASSUME NEW e \in S
       PROVE  /\ e.ver <= newest[e.key].ver
              /\ \A s, c : has(s, c) /\ same(e, c) => c.kind = "put"
  <2>1. PICK i \in DOMAIN files[fid] : files[fid][i] = entryOf(e)
    BY <1>9
  <2>2. PICK x : x = files[fid][i]
    OBVIOUS
  <2>3. x.ver = e.ver /\ x.key = e.key
    BY <2>1, <2>2 DEF entryOf
  <2>4. x.ver <= newest[x.key].ver /\ \A s, c : has(s, c) /\ same(c, x) => c.kind = "put"
    BY <1>1, <1>4, <2>2 DEF madeBy
  <2>. QED BY <2>3, <2>4 DEF same
<1>13. ASSUME NEW e \in S, e.key \notin upset', goesHot(e), NEW s, NEW c, has(s, c), c.key = e.key
       PROVE  e.ver >= c.ver
  <2>1. e.key \in heat
    BY <1>10, <1>13 DEF goesHot
  <2>2. ~ (e.ver < newest[e.key].ver)
    BY <1>9, <1>13, <2>1
  <2>3. c.ver \in 1 .. vTs /\ c.ver <= newest[e.key].ver
    BY <1>1, <1>13, VersionBound
  <2>. QED BY <1>10, <1>11, <2>2, <2>3
<1>14. agrees(S)
  <2>1. S \subseteq Req /\ newest' = newest /\ heat' = heat /\ upset \subseteq upset'
    BY <1>7, <1>10
  <2>2. \A k \in VKeys : newest[k].ver <= newest'[k].ver
    BY <1>11, <2>1
  <2>. QED BY <1>10, <1>12, <1>13, <2>1, <2>2 DEF agrees
<1>15. ASSUME NEW last, NEW s, NEW c, requested(last, S), has(s, c), isLost(c)', ~ mentions(S, c) PROVE isLost(c)
  <2>. SUFFICES ASSUME readable(c), c.fid \notin filesToBeDeleted PROVE isLost(c)
    BY <1>15 DEF isLost
  <2>1. readable(c)' /\ filesToBeDeleted' = filesToBeDeleted
    BY <1>1, <1>7, <1>15, StaysReadable
  <2>2. c.kind = "put" /\ c.fid = fid
    BY <1>8, <1>15, <2>1 DEF isLost
  <2>3. c \in Copy
    BY <1>1, <1>15, HasTyped
  <2>4. c.off < gc.pos
    <3>1. c.off \in 1 .. Len(files[fid])
      BY <2>2, <2>3, CopyFacts DEF readable
    <3>2. Len(files[fid]) \in Nat
      BY <1>1, <1>4 DEF FilesMade
    <3>. QED BY <1>2, <1>3, <1>4, <3>1, <3>2
  <2>5. ASSUME NEW j \in DOMAIN gc.wb, gc.wb[j] = [key |-> c.key, ver |-> c.ver, kind |-> "put"] PROVE FALSE
    <3>1. j \in 1 .. Len(entries) /\ entries[j] = [key |-> c.key, ver |-> c.ver, kind |-> "put"]
      BY <1>3, <1>4, <2>5
    <3>2. entries[j] \in S
      BY <1>3, <3>1 DEF firstOnes
    <3>3. same(entries[j], c)
      BY <3>1 DEF same
    <3>. QED BY <1>15, <3>2, <3>3 DEF mentions
  <2>. QED BY <1>2, <1>3, <2>2, <2>4, <2>5 DEF isLost
<1>16. gc'.fid = gc.fid
  BY <1>3, <1>8
<1>17. vTs' \in Nat /\ DOMAIN newest' = VKeys /\ \A k \in VKeys : newest'[k].ver \in 0 .. vTs'
  BY <1>1, <1>7 DEF VlogTyped
<1>18. VlogTyped' /\ FilesMade' /\ heldBy' /\ growsBy(files, files', S) /\ \A f \in Nat : isOld(f) => isOld(f)'
  <2>1. UNCHANGED <<heat, nFlushed, tree, l0run, filesToBeDeleted, iters>>
    BY <1>7
  <2>. QED BY <1>2, <1>3, <1>6, <1>7, <1>14, <1>15, <1>16, <1>17, <2>1, WriteKeeps
<1>19. GcMade'
  <2>1. filesToBeDeleted' = filesToBeDeleted
    BY <1>7
  <2>2. fid \in DOMAIN files' /\ (\A f : f = fid => isOld(f)') /\ fid \notin filesToBeDeleted'
    BY <1>1, <1>2, <1>3, <1>18, <2>1, GcStays
  <2>3. isOld(gc.fid)'
    BY <1>3, <1>16, <2>2
  <2>4. gc' \in [phase : {"scan", "delete"}, fid : DOMAIN files', pos : Nat \ {0}, wb : Seq(WbEntry)]
    <3>1. gc.pos \in Nat \ {0} /\ <<>> \in Seq(WbEntry)
      BY <1>4
    <3>. QED BY <1>8, <2>2, <3>1
  <2>5. gc'.wb = <<>> /\ DOMAIN gc'.wb = {} /\ gc'.fid = fid
    BY <1>8
  <2>. QED BY <2>2, <2>3, <2>4, <2>5 DEF GcMade
<1>. QED BY <1>18, <1>19 DEF keepBy

LEMMA VlogStarts == ValueLogInit => VlogInv
<1>. SUFFICES ASSUME ValueLogInit PROVE keepBy
  BY KeepForms DEF keepForms
<1>1. /\ vTs = 0 /\ heat \in SUBSET VKeys /\ mems = <<{}>> /\ nFlushed = 0
      /\ tree = [p \in Places |-> <<>>] /\ l0run = 0 /\ maxFid = 1 /\ hotMaxFid = HotVlogFidMask + 1
      /\ files = [f \in {maxFid, hotMaxFid} |-> <<>>] /\ filesToBeDeleted = {}
      /\ gc = NoGC /\ iters = [i \in Iterators |-> NoIter] /\ newest = [k \in VKeys |-> None]
  BY DEF ValueLogInit
<1>2. VlogTyped
  <2>1. mems \in Seq(SUBSET Copy) /\ Len(mems) = 1
    BY <1>1
  <2>2. <<>> \in Seq(SUBSET Copy) /\ Len(<<>>) = 0
    OBVIOUS
  <2>3. tree \in [Places -> Seq(SUBSET Copy)] /\ \A p \in Places : Len(tree[p]) = 0
    BY <1>1, <2>2
  <2>4. l0run \in 0 .. Len(tree["l0"])
    BY <1>1, <2>3 DEF Places
  <2>5. Len(tree["l99"]) <= 1 /\ Len(tree["base"]) <= 1
    BY <2>3 DEF Places
  <2>. QED BY <1>1, <2>1, <2>3, <2>4, <2>5 DEF VlogTyped, None
<1>3. FilesMade
  <2>1. maxFid = 1 /\ hotMaxFid = 101 /\ HotVlogFidMask = 100
    BY <1>1 DEF HotVlogFidMask
  <2>2. ~ isHotVlog(maxFid) /\ isHotVlog(hotMaxFid)
    BY <2>1 DEF isHotVlog
  <2>3. DOMAIN files = {maxFid, hotMaxFid} /\ files \in [DOMAIN files -> Seq(Entry)]
    <3>1. <<>> \in Seq(Entry)
      OBVIOUS
    <3>. QED BY <1>1, <3>1
  <2>. QED BY <1>1, <2>1, <2>2, <2>3 DEF FilesMade, isActive
<1>4. GcMade
  BY <1>1 DEF GcMade
<1>5. \A s, c : ~ has(s, c)
  <2>1. hasIs
    BY <1>2, HasIs
  <2>2. \A i : i \in nFlushed + 1 .. Len(mems) => mems[i] = {}
    BY <1>1
  <2>3. \A p \in Places : \A i : ~ (i \in 1 .. Len(tree[p]))
    BY <1>1
  <2>4. \A i, c : ~ has(src("mem", i), c)
    BY <2>1, <2>2 DEF hasIs
  <2>5. \A p \in Places : \A i, c : ~ has(src(p, i), c)
    BY <2>1, <2>3 DEF hasIs
  <2>. QED BY <2>1, <2>4, <2>5 DEF hasIs, isSource, Tiers
<1>6. \A f \in DOMAIN files : DOMAIN files[f] = {}
  BY <1>1
<1>7. heldBy
  BY <1>5, <1>6 DEF heldBy, madeBy, apartBy, riseBy, hiddenBy
<1>. QED BY <1>2, <1>3, <1>4, <1>7 DEF keepBy

LEMMA VlogKept == VlogInv /\ [ValueLogNext]_vlogVars => VlogInv'
<1>. SUFFICES ASSUME keepBy, [ValueLogNext]_vlogVars PROVE keepBy'
  BY KeepForms, KeepFormsNext DEF keepForms
<1>1. ASSUME NEW k \in VKeys, NEW kind \in VKinds, Commit(k, kind) PROVE keepBy'
  BY <1>1, CommitKeeps
<1>2. CASE rotateMem
  BY <1>2, RotateKeeps
<1>3. CASE flushMem
  BY <1>3, FlushKeeps
<1>4. CASE compactL98 \/ compactL99 \/ compactL0
  BY <1>4, CompactionsKeep
<1>5. CASE startL0ToL0
  BY <1>5, StartL0Keeps
<1>6. CASE finishL0ToL0
  BY <1>6, FinishL0Keeps
<1>7. ASSUME NEW k \in VKeys, changeHeat(k) PROVE keepBy'
  BY <1>7, ChangeHeatKeeps
<1>8. CASE pickLogMissing
  BY <1>8, PickMissingKeeps
<1>9. CASE runGC
  BY <1>9, RunGCKeeps
<1>10. CASE rewriteEntry
  BY <1>10, RewriteEntryKeeps
<1>11. CASE rewriteBatch
  BY <1>11, RewriteBatchKeeps
<1>12. CASE rewriteError
  BY <1>12, RewriteErrorKeeps
<1>13. CASE deleteLogFile
  BY <1>13, DeleteLogFileKeeps
<1>14. ASSUME NEW i \in Iterators, newIteratorMems(i) PROVE keepBy'
  BY <1>14, IteratorMemsKeeps
<1>15. ASSUME NEW i \in Iterators, newIteratorTables(i) PROVE keepBy'
  BY <1>15, IteratorTablesKeeps
<1>16. ASSUME NEW i \in Iterators, decrIteratorCount(i) PROVE keepBy'
  BY <1>16, IteratorCloseKeeps
<1>17. ASSUME NEW i \in Iterators, deleteWaiting(i) PROVE keepBy'
  BY <1>17, DeleteWaitingKeeps
<1>18. CASE UNCHANGED vlogVars
  <2>1. copiesKept /\ filesKept /\ heatKept /\ newest' = newest
    BY <1>18, CopiesSame DEF vlogVars, filesKept, heatKept
  <2>2. \A c : isLost(c)' <=> isLost(c)
    BY <1>18 DEF vlogVars, isLost, readable
  <2>3. heldBy'
    BY <2>1, <2>2, StillHeld DEF keepBy
  <2>4. VlogTyped' /\ FilesMade' /\ GcMade'
    BY <1>18 DEF keepBy, vlogVars, VlogTyped, FilesMade, GcMade, isOld, isActive, isHotVlog
  <2>. QED BY <2>3, <2>4 DEF keepBy
<1>. QED BY <1>1, <1>2, <1>3, <1>4, <1>5, <1>6, <1>7, <1>8, <1>9, <1>10, <1>11, <1>12, <1>13, <1>14, <1>15, <1>16, <1>17, <1>18
     DEF ValueLogNext, vlogTreeStep, gcStep, iterStep

(* The inductive invariant: what GC and compaction leave behind of a value *)
(* that is gone lies where no lookup of a settled key finds it.            *)
THEOREM ValueLogInvariant == ValueLogSpec => []VlogInv
BY VlogStarts, VlogKept, PTL DEF ValueLogSpec

(* Txn.Get of a settled key never finds a pointer into a file that GC has  *)
(* deleted: rewrite collects what the tree still points to, and what it    *)
(* leaves is only found behind what it wrote back or what replaced it.     *)
THEOREM LiveValuesStay == ValueLogSpec => []NoDanglingReadSettled
BY ValueLogInvariant, InvariantSettles, PTL

=============================================================================
