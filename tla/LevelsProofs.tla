----------------------------- MODULE LevelsProofs -----------------------------
(***************************************************************************)
(* Proof that the compactions Levels.tla admits are disjoint: no table is  *)
(* in two of them, and each finds its tables in place when it replaces and *)
(* deletes them, for any tree, any sizes and any number of compactors; and *)
(* that without rewrites of the last level every claim is given up.        *)
(***************************************************************************)
EXTENDS Levels, FiniteSetTheorems, WellFoundedInduction, TLAPS

(* Sets of naturals have a minimum, and a maximum when they are bounded.   *)
LEMMA MinOfNats ==
  ASSUME NEW S \in SUBSET Nat, S # {} PROVE Min(S) \in S /\ \A y \in S : Min(S) <= y
<1>1. IsWellFoundedOn(OpToRel(<, Nat), Nat)
  BY NatLessThanWellFounded
<1>2. PICK m \in S : \A y \in S : ~ (<<y, m>> \in OpToRel(<, Nat))
  BY <1>1, WFMin
<1>3. \A y \in S : ~ (y < m)
  <2>. TAKE y \in S
  <2>1. y \in Nat /\ m \in Nat
    OBVIOUS
  <2>. QED BY <1>2, <2>1 DEF OpToRel
<1>4. \A y \in S : m <= y
  BY <1>3
<1>. QED BY <1>4 DEF Min

LEMMA MaxOfNats ==
  ASSUME NEW S \in SUBSET Nat, S # {}, NEW n \in Nat, \A y \in S : y <= n
  PROVE  Max(S) \in S /\ \A y \in S : y <= Max(S)
<1>. DEFINE T == {x \in 0 .. n : n - x \in S}
<1>1. T \in SUBSET Nat /\ T # {}
  <2>1. PICK y \in S : TRUE
    OBVIOUS
  <2>2. n - y \in 0 .. n /\ n - (n - y) = y
    BY <2>1
  <2>3. n - y \in T
    BY <2>1, <2>2
  <2>4. \A x \in 0 .. n : x \in Nat
    OBVIOUS
  <2>. QED BY <2>3, <2>4
<1>2. Min(T) \in T /\ \A x \in T : Min(T) <= x
  <2>. HIDE DEF T
  <2>. QED BY <1>1, MinOfNats
<1>3. \A y \in S : y <= n - Min(T)
  <2>. SUFFICES ASSUME NEW y \in S PROVE y <= n - Min(T)
    OBVIOUS
  <2>1. n - y \in T
    BY n - (n - y) = y
  <2>. QED BY <1>2, <2>1
<1>4. n - Min(T) \in S
  BY <1>2
<1>. QED BY <1>3, <1>4 DEF Max

-----------------------------------------------------------------------------
(* nth(S, i) is in S, and every member of S is the i-th for one i.         *)
LEMMA BelowGrows ==
  ASSUME NEW S \in SUBSET Nat, IsFiniteSet(S), NEW j \in S, NEW k \in S, j < k
  PROVE  /\ Cardinality({h \in S : h < j}) \in Nat
         /\ Cardinality({h \in S : h < j}) < Cardinality({h \in S : h < k})
<1>. DEFINE J == {h \in S : h < j}  K == {h \in S : h < k}
<1>0. j \in Nat /\ k \in Nat /\ \A h \in S : h \in Nat
  OBVIOUS
<1>a. (\A h \in S : h < j => h < k) /\ ~ (j < j)
  BY <1>0
<1>1. J \subseteq K /\ j \in K /\ j \notin J /\ K \in SUBSET S
  BY <1>a
<1>. HIDE DEF J, K
<1>2. IsFiniteSet(K) /\ J \in SUBSET K /\ J # K
  BY <1>1, FS_Subset
<1>3. IsFiniteSet(J) /\ Cardinality(J) <= Cardinality(K) /\ (Cardinality(K) = Cardinality(J) => K = J)
  BY <1>2, FS_Subset
<1>4. Cardinality(J) \in Nat /\ Cardinality(K) \in Nat
  BY <1>2, <1>3, FS_CardinalityType
<1>5. Cardinality(J) < Cardinality(K)
  BY <1>2, <1>3, <1>4
<1>. QED BY <1>4, <1>5 DEF J, K

LEMMA NthMember ==
  ASSUME NEW S \in SUBSET Nat, NEW n \in Nat, \A y \in S : y <= n, IsFiniteSet(S), NEW i \in 1 .. Cardinality(S)
  PROVE  nth(S, i) \in S /\ Cardinality({h \in S : h < nth(S, i)}) = i - 1
<1>. DEFINE below(k) == {h \in S : h < k}
            A == {k \in S : Cardinality(below(k)) <= i - 1}
<1>0. \A k : IsFiniteSet(below(k)) /\ Cardinality(below(k)) \in Nat
  <2>. TAKE k
  <2>1. below(k) \in SUBSET S
    OBVIOUS
  <2>. QED BY <2>1, FS_Subset, FS_CardinalityType
<1>a. Cardinality(S) \in Nat /\ i \in Nat /\ i >= 1 /\ S # {}
  BY FS_CardinalityType, FS_EmptySet
<1>1. A # {} /\ A \in SUBSET Nat /\ \A y \in A : y <= n
  <2>1. PICK z \in S : \A y \in S : z <= y
    BY <1>a, MinOfNats
  <2>2. \A h \in S : h \in Nat /\ z \in Nat /\ ~ (h < z)
    BY <2>1
  <2>3. below(z) = {}
    BY <2>2
  <2>4. Cardinality(below(z)) <= i - 1
    BY <1>a, <2>3, FS_EmptySet
  <2>. QED BY <2>1, <2>4
<1>. DEFINE m == Max(A)
<1>2. m \in A /\ \A y \in A : y <= m
  <2>. HIDE DEF A
  <2>. QED BY <1>1, MaxOfNats
<1>. HIDE DEF m
<1>3. Cardinality(below(m)) = i - 1
  <2>. SUFFICES ASSUME Cardinality(below(m)) # i - 1 PROVE FALSE
    OBVIOUS
  <2>1. Cardinality(below(m)) < i - 1 /\ m \in S
    BY <1>0, <1>2, <1>a
  <2>. DEFINE up == {h \in S : h > m}
  <2>2. CASE up = {}
    <3>1. S = below(m) \cup {m}
      <4>1. \A h \in S : h < m \/ h = m
        BY <2>1, <2>2
      <4>. QED BY <2>1, <4>1
    <3>2. Cardinality(S) = Cardinality(below(m)) + 1
      <4>1. m \notin below(m)
        BY <2>1
      <4>. HIDE DEF below
      <4>. QED BY <1>0, <3>1, <4>1, FS_AddElement
    <3>. QED BY <1>0, <1>a, <2>1, <3>2
  <2>3. CASE up # {}
    <3>. DEFINE u == Min(up)
    <3>1. u \in up /\ \A y \in up : u <= y
      <4>1. up \in SUBSET Nat
        OBVIOUS
      <4>. HIDE DEF up
      <4>. QED BY <2>3, <4>1, MinOfNats
    <3>. HIDE DEF u
    <3>2. below(u) = below(m) \cup {m}
      <4>1. u \in S /\ m < u /\ \A h \in S : h > m => u <= h
        BY <3>1
      <4>2. \A h \in S : h < u <=> (h < m \/ h = m)
        BY <2>1, <4>1
      <4>. QED BY <2>1, <4>2
    <3>3. Cardinality(below(u)) = Cardinality(below(m)) + 1
      <4>1. m \notin below(m)
        BY <2>1
      <4>. HIDE DEF below
      <4>. QED BY <1>0, <3>2, <4>1, FS_AddElement
    <3>4. u \in A /\ u > m
      <4>1. u \in S /\ u > m
        BY <3>1
      <4>2. Cardinality(below(u)) <= i - 1
        BY <1>0, <1>a, <2>1, <3>3
      <4>. QED BY <4>1, <4>2
    <3>. QED BY <1>2, <3>4, <2>1
  <2>. QED BY <2>2, <2>3
<1>4. \E k \in S : Cardinality({h \in S : h < k}) = i - 1
  BY <1>2, <1>3
<1>. QED BY <1>4 DEF nth

LEMMA NthCovers ==
  ASSUME NEW S \in SUBSET Nat, NEW n \in Nat, \A y \in S : y <= n, IsFiniteSet(S), NEW k \in S
  PROVE  \E i \in 1 .. Cardinality(S) : nth(S, i) = k
<1>. DEFINE below(x) == {h \in S : h < x}
            i == Cardinality(below(k)) + 1
<1>1. below(k) \in SUBSET S /\ k \notin below(k)
  OBVIOUS
<1>2. IsFiniteSet(below(k)) /\ Cardinality(below(k)) \in Nat /\ Cardinality(below(k)) < Cardinality(S) /\ Cardinality(S) \in Nat
  <2>. HIDE DEF below
  <2>1. Cardinality(below(k)) <= Cardinality(S) /\ IsFiniteSet(below(k)) /\ (Cardinality(S) = Cardinality(below(k)) => S = below(k))
    BY <1>1, FS_Subset
  <2>2. Cardinality(below(k)) \in Nat /\ Cardinality(S) \in Nat
    BY <2>1, FS_CardinalityType
  <2>. QED BY <1>1, <2>1, <2>2
<1>3. i \in 1 .. Cardinality(S) /\ i - 1 = Cardinality(below(k))
  BY <1>2
<1>4. nth(S, i) \in S /\ Cardinality(below(nth(S, i))) = Cardinality(below(k))
  <2>. HIDE DEF i
  <2>. QED BY <1>3, NthMember
<1>5. nth(S, i) = k
  <2>. SUFFICES ASSUME NEW m \in S, Cardinality(below(m)) = Cardinality(below(k)), m # k PROVE FALSE
    BY <1>4
  <2>1. CASE m < k
    BY <2>1, BelowGrows
  <2>2. CASE k < m
    BY <2>2, <1>2, BelowGrows
  <2>. QED BY <2>1, <2>2
<1>. QED BY <1>3, <1>5

-----------------------------------------------------------------------------
(* A sequence without some tables has the others, once each.               *)
LEMMA WithoutFacts ==
  ASSUME NEW X, NEW s \in Seq(X), NEW T
  PROVE  /\ Without(s, T) \in Seq(X) /\ ToSet(Without(s, T)) = ToSet(s) \ T
         /\ IsInjective(s) => IsInjective(Without(s, T))
<1>. DEFINE stay == {i \in DOMAIN s : s[i] \notin T}
            w == Without(s, T)
<1>1. /\ stay \in SUBSET Nat /\ Len(s) \in Nat /\ (\A i \in stay : i <= Len(s)) /\ stay \in SUBSET (1 .. Len(s))
      /\ DOMAIN s = 1 .. Len(s) /\ (\A i \in DOMAIN s : s[i] \in X)
  OBVIOUS
<1>2. IsFiniteSet(stay)
  <2>1. IsFiniteSet(1 .. Len(s))
    BY <1>1, FS_Interval
  <2>. HIDE DEF stay
  <2>. QED BY <1>1, <2>1, FS_Subset
<1>3. \A i \in stay : i \in DOMAIN s /\ s[i] \in X /\ s[i] \notin T
  BY <1>1
<1>4. \A i \in DOMAIN s : s[i] \notin T => i \in stay
  OBVIOUS
<1>5. w = [i \in 1 .. Cardinality(stay) |-> s[nth(stay, i)]]
  BY DEF Without
<1>. HIDE DEF stay, w
<1>6. \A i \in 1 .. Cardinality(stay) : nth(stay, i) \in stay /\ Cardinality({h \in stay : h < nth(stay, i)}) = i - 1
  BY <1>1, <1>2, NthMember
<1>7. Cardinality(stay) \in Nat
  BY <1>2, FS_CardinalityType
<1>8. w \in Seq(X) /\ DOMAIN w = 1 .. Cardinality(stay) /\ \A i \in DOMAIN w : w[i] = s[nth(stay, i)]
  <2>1. \A i \in 1 .. Cardinality(stay) : s[nth(stay, i)] \in X
    BY <1>3, <1>6
  <2>2. w \in [1 .. Cardinality(stay) -> X]
    BY <1>5, <2>1
  <2>. QED BY <1>5, <1>7, <2>2
<1>9. ToSet(w) = ToSet(s) \ T
  <2>1. \A x \in ToSet(w) : x \in ToSet(s) \ T
    BY <1>3, <1>6, <1>8 DEF ToSet
  <2>2. ASSUME NEW x \in ToSet(s) \ T PROVE x \in ToSet(w)
    <3>1. PICK k \in stay : x = s[k]
      BY <1>4 DEF ToSet
    <3>2. PICK i \in 1 .. Cardinality(stay) : nth(stay, i) = k
      BY <1>1, <1>2, NthCovers
    <3>. QED BY <1>8, <3>1, <3>2 DEF ToSet
  <2>. QED BY <2>1, <2>2
<1>10. ASSUME IsInjective(s) PROVE IsInjective(w)
  <2>. SUFFICES ASSUME NEW i \in DOMAIN w, NEW j \in DOMAIN w, w[i] = w[j] PROVE i = j
    BY DEF IsInjective
  <2>1. nth(stay, i) = nth(stay, j)
    BY <1>3, <1>6, <1>8, <1>10 DEF IsInjective
  <2>2. i - 1 = j - 1
    BY <1>6, <1>8, <2>1
  <2>. QED BY <1>7, <1>8, <2>2
<1>. QED BY <1>8, <1>9, <1>10 DEF w

LEMMA ToSetFinite ==
  ASSUME NEW X, NEW s \in Seq(X) PROVE IsFiniteSet(ToSet(s)) /\ ToSet(s) \in SUBSET X
<1>. DEFINE f == [i \in 1 .. Len(s) |-> s[i]]
<1>0. DOMAIN s = 1 .. Len(s) /\ \A i \in DOMAIN s : s[i] \in X
  OBVIOUS
<1>1. f \in Surjection(1 .. Len(s), ToSet(s))
  BY <1>0 DEF Surjection, ToSet
<1>2. IsFiniteSet(1 .. Len(s))
  BY FS_Interval
<1>. HIDE DEF f
<1>. QED BY <1>0, <1>1, <1>2, FS_Surjection DEF ToSet

(* replaceTables leaves the other tables of the level and the new ones,    *)
(* once each, in whatever order the sort gives them.                       *)
LEMMA ReplacedFacts ==
  ASSUME NEW X, NEW s \in Seq(X), NEW out \in Seq(X), NEW bot, NEW q \in replaced(s, bot, out)
  PROVE  q \in Seq(X) /\ ToSet(q) = (ToSet(s) \ bot) \cup ToSet(out) /\ IsInjective(q)
<1>. DEFINE S == (ToSet(s) \ bot) \cup ToSet(out)
            D == 1 .. Cardinality(S)
<1>1. IsFiniteSet(S) /\ S \in SUBSET X
  <2>1. IsFiniteSet(ToSet(s)) /\ IsFiniteSet(ToSet(out)) /\ ToSet(s) \in SUBSET X /\ ToSet(out) \in SUBSET X
    BY ToSetFinite
  <2>2. IsFiniteSet(ToSet(s) \ bot)
    BY <2>1, FS_Difference
  <2>. QED BY <2>1, <2>2, FS_Union
<1>2. q \in [D -> S] /\ \A i, j \in D : i # j => q[i] # q[j]
  BY DEF replaced, SetToSeqs
<1>. HIDE DEF S
<1>3. Cardinality(S) \in Nat
  BY <1>1, FS_CardinalityType
<1>4. q \in Seq(X) /\ IsInjective(q)
  BY <1>1, <1>2, <1>3 DEF IsInjective
<1>5. Cardinality(D) = Cardinality(S) /\ IsFiniteSet(D)
  BY <1>3, FS_Interval
<1>6. q \in Surjection(D, S)
  <2>1. q \in Injection(D, S)
    BY <1>2, <1>4 DEF Injection
  <2>. HIDE DEF D
  <2>. QED BY <1>1, <1>5, <2>1, FS_Injection
<1>7. ToSet(q) = S
  BY <1>2, <1>6 DEF ToSet, Surjection
<1>. QED BY <1>4, <1>7 DEF S

-----------------------------------------------------------------------------
(* A new table is none of the live ones.                                   *)
LEMMA NewTableFresh ==
  ASSUME NEW ents \in EntrySets \ {{}}, NEW stale \in Nat, IsFiniteSet(LiveTables)
  PROVE  newTable(ents, stale) \in TableSet /\ newTable(ents, stale) \notin LiveTables
<1>. DEFINE same == {t \in LiveTables : t.ents = ents}
            used == {t.id : t \in same}
            free == (0 .. Cardinality(used)) \ used
<1>1. IsFiniteSet(used) /\ Cardinality(used) \in Nat
  <2>. DEFINE f == [t \in same |-> t.id]
  <2>1. IsFiniteSet(same)
    BY FS_Subset
  <2>2. f \in Surjection(same, used)
    BY DEF Surjection
  <2>. HIDE DEF f, same, used
  <2>3. IsFiniteSet(used)
    BY <2>1, <2>2, FS_Surjection
  <2>. QED BY <2>3, FS_CardinalityType
<1>2. free \in SUBSET Nat /\ free # {}
  <2>. HIDE DEF used
  <2>. SUFFICES ASSUME 0 .. Cardinality(used) \in SUBSET used PROVE FALSE
    BY <1>1
  <2>1. Cardinality(0 .. Cardinality(used)) = Cardinality(used) + 1
    BY <1>1, FS_Interval
  <2>2. Cardinality(0 .. Cardinality(used)) <= Cardinality(used)
    BY <1>1, FS_Subset
  <2>. QED BY <1>1, <2>1, <2>2
<1>3. Min(free) \in free
  <2>. HIDE DEF free
  <2>. QED BY <1>2, MinOfNats
<1>. DEFINE t == newTable(ents, stale)
<1>4. t = [id |-> Min(free), ents |-> ents, stale |-> stale]
  BY DEF newTable
<1>5. Min(free) \in Nat /\ Min(free) \notin used
  <2>1. Min(free) \in 0 .. Cardinality(used) /\ Min(free) \notin used
    BY <1>3
  <2>. HIDE DEF used, free
  <2>. QED BY <2>1, <1>1
<1>. HIDE DEF t, free
<1>6. t \in TableSet /\ t.id = Min(free) /\ t.ents = ents
  BY <1>4, <1>5 DEF TableSet
<1>7. t \notin LiveTables
  BY <1>5, <1>6
<1>. QED BY <1>6, <1>7 DEF t

(* The output of a compaction: new tables, none empty.                     *)
LEMMA TablesOfFacts ==
  ASSUME NEW kept \in EntrySets, NEW cuts, IsFiniteSet(LiveTables)
  PROVE  tablesOf(kept, cuts) \in Seq(TableSet) /\ ToSet(tablesOf(kept, cuts)) \cap LiveTables = {}
<1>. DEFINE group(k) == {e \in kept : \A c \in cuts : (e.key > c) <=> (k > c)}
            heads == {k \in {e.key : e \in kept} : \A e \in group(k) : k <= e.key}
            n == Cardinality(heads)
            cut(i) == group(nth(heads, i))
            stale(i) == Cardinality({e \in cut(i) : dead(e)})
            out == tablesOf(kept, cuts)
<1>1. heads \in SUBSET Nat /\ IsFiniteSet(heads) /\ NumKeys \in Nat /\ \A k \in heads : k <= NumKeys
  <2>1. NumKeys \in Nat
    BY SizeAssumption
  <2>2. heads \in SUBSET (1 .. NumKeys)
    BY DEF EntrySets, Entries, Key
  <2>3. IsFiniteSet(1 .. NumKeys)
    BY <2>1, FS_Interval
  <2>. HIDE DEF heads
  <2>4. IsFiniteSet(heads)
    BY <2>2, <2>3, FS_Subset
  <2>5. \A k \in 1 .. NumKeys : k \in Nat /\ k <= NumKeys
    BY <2>1
  <2>. QED BY <2>1, <2>2, <2>4, <2>5
<1>2. \A k \in heads : group(k) \in EntrySets \ {{}}
  <2>. TAKE k \in heads
  <2>1. group(k) \in SUBSET kept /\ kept \in SUBSET Entries /\ IsFiniteSet(kept)
    BY DEF EntrySets
  <2>2. PICK e \in kept : e.key = k
    OBVIOUS
  <2>3. e \in group(k)
    BY <2>2
  <2>. HIDE DEF group
  <2>. QED BY <2>1, <2>3, FS_Subset DEF EntrySets
<1>3. n \in Nat
  BY <1>1, FS_CardinalityType
<1>4. \A i \in 1 .. n : cut(i) \in EntrySets \ {{}} /\ stale(i) \in Nat
  <2>. TAKE i \in 1 .. n
  <2>1. nth(heads, i) \in heads
    <3>. HIDE DEF heads
    <3>. QED BY <1>1, NthMember
  <2>2. cut(i) \in EntrySets \ {{}}
    BY <1>2, <2>1
  <2>. HIDE DEF cut
  <2>3. {e \in cut(i) : dead(e)} \in SUBSET cut(i) /\ IsFiniteSet(cut(i))
    BY <2>2 DEF EntrySets
  <2>. QED BY <2>2, <2>3, FS_Subset, FS_CardinalityType
<1>5. out = [i \in 1 .. n |-> newTable(cut(i), stale(i))]
  BY DEF tablesOf
<1>. HIDE DEF n, cut, stale, out
<1>6. \A i \in 1 .. n : newTable(cut(i), stale(i)) \in TableSet /\ newTable(cut(i), stale(i)) \notin LiveTables
  BY <1>4, NewTableFresh
<1>7. out \in [1 .. n -> TableSet] /\ \A i \in 1 .. n : out[i] \notin LiveTables
  BY <1>5, <1>6
<1>8. out \in Seq(TableSet)
  BY <1>3, <1>7
<1>9. ToSet(out) \cap LiveTables = {}
  BY <1>7 DEF ToSet
<1>. QED BY <1>8, <1>9 DEF out

-----------------------------------------------------------------------------
(* The key range of some tables is a proper one that holds their keys, and *)
(* two ranges with a key in common overlap.                                *)
LEMMA TableKeys == ASSUME NEW t \in TableSet PROVE KeysOf(t) \in SUBSET Key /\ KeysOf(t) # {}
BY DEF TableSet, EntrySets, Entries, KeysOf

LEMMA KeyRangeFacts ==
  ASSUME NEW T \in SUBSET TableSet, T # {}
  PROVE  getKeyRange(T) \in Ranges /\ proper(getKeyRange(T)) /\ ~ getKeyRange(T).inf /\ inRange(getKeyRange(T), T)
<1>. DEFINE keys == UNION {KeysOf(t) : t \in T}
            r == keyRange(Min(keys), Max(keys))
<1>0. NumKeys \in Nat
  BY SizeAssumption
<1>1. keys \in SUBSET Key /\ keys # {} /\ \A t \in T : \A k \in KeysOf(t) : k \in keys
  BY TableKeys
<1>2. getKeyRange(T) = r
  BY DEF getKeyRange
<1>. HIDE DEF keys
<1>3. keys \in SUBSET Nat /\ \A k \in keys : 1 <= k /\ k <= NumKeys
  BY <1>0, <1>1 DEF Key
<1>4. /\ Min(keys) \in keys /\ Max(keys) \in keys
      /\ \A k \in keys : Min(keys) <= k /\ k <= Max(keys)
  BY <1>0, <1>1, <1>3, MinOfNats, MaxOfNats
<1>5. r = [left |-> Min(keys), right |-> Max(keys), inf |-> FALSE]
  BY DEF keyRange
<1>a. Min(keys) \in Nat /\ Max(keys) \in Nat
  BY <1>3, <1>4
<1>6. r \in Ranges /\ r.left = Min(keys) /\ r.right = Max(keys) /\ ~ r.inf
  BY <1>5, <1>a DEF Ranges
<1>. HIDE DEF r
<1>7. proper(r) /\ inRange(r, T)
  BY <1>1, <1>3, <1>4, <1>6 DEF proper, inRange
<1>. QED BY <1>2, <1>6, <1>7

LEMMA RangesMeet ==
  ASSUME NEW r \in Ranges, NEW q \in Ranges, NEW k \in Key, r.inf \/ (r.left <= k /\ k <= r.right),
         q.inf \/ (q.left <= k /\ k <= q.right)
  PROVE  overlapsWith(r, q)
<1>1. k \in Nat /\ k >= 1 /\ r.left \in Nat /\ r.right \in Nat /\ q.left \in Nat /\ q.right \in Nat
  BY DEF Key, Ranges
<1>2. ~ isEmpty(r) /\ ~ isEmpty(q)
  BY <1>1 DEF isEmpty
<1>. QED BY <1>1, <1>2 DEF overlapsWith

LEMMA OverlapsItself == ASSUME NEW r \in Ranges, proper(r) PROVE overlapsWith(r, r) /\ ~ isEmpty(r)
BY DEF Ranges, proper, overlapsWith, isEmpty

-----------------------------------------------------------------------------
(* What a step does to the compactors, and to the rest.                    *)
LEMMA DefNotIdle == ASSUME NEW cd \in CompactDefs PROVE cd # Idle
BY DEF CompactDefs, Idle

LEMMA ActiveDefs == ASSUME LevelsType PROVE Active \subseteq Compactors /\ \A c \in Active : running[c] \in CompactDefs
BY DEF LevelsType, Active

RestTyped ==
  /\ ts' \in Nat /\ mt' \in EntrySets /\ imm' \in Seq(EntrySets)
  /\ flush' \in [stage : {"idle", "cold", "drop"}, cold : EntrySets] /\ (flush'.stage # "idle" => imm' # <<>>)

LEMMA RestKept == ASSUME LevelsType, UNCHANGED <<ts, mt, imm, flush>> PROVE RestTyped
BY DEF LevelsType, RestTyped

LEMMA TreeKept ==
  ASSUME CompactionsInv, RestTyped, UNCHANGED <<levels, cstatus, running>> PROVE CompactionsInv'
<1>1. LevelsType'
  BY DEF CompactionsInv, LevelsType, RestTyped, LiveTables, Tables
<1>2. OnePlace' /\ TablesTaken'
  BY DEF CompactionsInv, OnePlace, TablesTaken, Tables, Active, built
<1>3. ClaimsHeld' /\ NothingLeft'
  BY DEF CompactionsInv, ClaimsHeld, NothingLeft, Active
<1>4. CompactionsDisjoint'
  BY DEF CompactionsInv, CompactionsDisjoint, Tables, Active
<1>. QED BY <1>1, <1>2, <1>3, <1>4 DEF CompactionsInv

LEMMA CompactionsStart == Init => CompactionsInv
<1>. SUFFICES ASSUME Init PROVE CompactionsInv
  OBVIOUS
<1>1. /\ ts = 0 /\ mt = {} /\ imm = <<>> /\ levels = [l \in LevelId |-> <<>>] /\ running = [c \in Compactors |-> Idle]
      /\ flush = [stage |-> "idle", cold |-> {}] /\ cstatus = [ranges |-> [l \in LevelId |-> {}], tables |-> {}]
  BY DEF Init, newStatus
<1>2. Active = {} /\ (\A l \in LevelId : Tables(l) = {}) /\ cstatus.tables = {}
  BY <1>1 DEF Active, Tables, ToSet
<1>3. LiveTables = {}
  BY <1>2 DEF LiveTables, Active
<1>4. LevelsType
  <2>1. {} \in EntrySets /\ IsFiniteSet(LiveTables)
    BY <1>3, FS_EmptySet DEF EntrySets
  <2>2. cstatus \in [ranges : [LevelId -> SUBSET Ranges], tables : SUBSET TableSet]
    BY <1>1
  <2>. QED BY <1>1, <2>1, <2>2 DEF LevelsType
<1>5. OnePlace /\ TablesTaken /\ ClaimsHeld /\ CompactionsDisjoint
  BY <1>1, <1>2 DEF OnePlace, TablesTaken, ClaimsHeld, CompactionsDisjoint, built, IsInjective
<1>6. NothingLeft
  BY <1>1, <1>2 DEF NothingLeft
<1>. QED BY <1>4, <1>5, <1>6 DEF CompactionsInv

LEMMA LiveOnes ==
  /\ cstatus.tables \subseteq LiveTables /\ \A l \in LevelId : Tables(l) \subseteq LiveTables
  /\ \A c \in Active : ToSet(running[c].out) \subseteq LiveTables
<1>. DEFINE inTree == {Tables(l) : l \in LevelId}
            outs == {ToSet(running[c].out) : c \in {c \in Compactors : running[c] # Idle}}
<1>1. LiveTables = (UNION inTree) \cup cstatus.tables \cup (UNION outs)
  BY DEF LiveTables
<1>2. \A l \in LevelId : Tables(l) \in inTree
  OBVIOUS
<1>3. \A c \in Active : ToSet(running[c].out) \in outs
  BY DEF Active
<1>. HIDE DEF inTree, outs
<1>. QED BY <1>1, <1>2, <1>3

(* A flush appends a table that is nowhere else.                           *)
LEMMA AddKeeps ==
  ASSUME CompactionsInv, RestTyped, UNCHANGED <<cstatus, running>>, NEW l \in LevelId, NEW t \in TableSet,
         t \notin LiveTables, levels' = [levels EXCEPT ![l] = Append(@, t)]
  PROVE  CompactionsInv'
<1>0. LevelsType /\ levels \in [LevelId -> Seq(TableSet)]
  BY DEF CompactionsInv, LevelsType
<1>1. /\ levels' \in [LevelId -> Seq(TableSet)] /\ levels'[l] = Append(levels[l], t)
      /\ \A m \in LevelId \ {l} : levels'[m] = levels[m]
  BY <1>0
<1>2. Tables(l)' = Tables(l) \cup {t} /\ \A m \in LevelId \ {l} : Tables(m)' = Tables(m)
  <2>1. ToSet(Append(levels[l], t)) = ToSet(levels[l]) \cup {t}
    BY <1>0 DEF ToSet
  <2>. QED BY <1>1, <2>1 DEF Tables
<1>3. t \notin cstatus.tables /\ (\A m \in LevelId : t \notin Tables(m)) /\ \A c \in Active : t \notin ToSet(running[c].out)
  BY LiveOnes
<1>4. LevelsType'
  <2>1. LiveTables' \subseteq LiveTables \cup {t}
    BY <1>2 DEF LiveTables
  <2>2. IsFiniteSet(LiveTables')
    BY <1>0, <2>1, FS_AddElement, FS_Subset DEF LevelsType
  <2>. QED BY <1>0, <1>1, <2>2 DEF LevelsType, RestTyped
<1>5. \A m \in LevelId : IsInjective(levels'[m])
  <2>1. IsInjective(Append(levels[l], t))
    <3>1. IsInjective(levels[l]) /\ levels[l] \in Seq(TableSet) /\ \A i \in 1 .. Len(levels[l]) : levels[l][i] # t
      BY <1>0, <1>3 DEF CompactionsInv, OnePlace, Tables, ToSet
    <3>. QED BY <3>1 DEF IsInjective
  <2>. QED BY <1>1, <2>1 DEF CompactionsInv, OnePlace
<1>a. \A m \in LevelId : Tables(m)' = Tables(m) \cup (IF m = l THEN {t} ELSE {})
  BY <1>2
<1>b. Active' = Active /\ (\A c \in Compactors : built(c)' = built(c)) /\ UNCHANGED <<running, cstatus>>
  BY DEF Active, built
<1>6. OnePlace'
  <2>1. \A m, n \in LevelId : m # n => Tables(m)' \cap Tables(n)' = {}
    BY <1>3, <1>a DEF CompactionsInv, OnePlace
  <2>2. \A c \in Compactors, m \in LevelId : built(c) => ToSet(running[c].out) \cap Tables(m)' = {}
    BY <1>3, <1>a DEF CompactionsInv, OnePlace, built
  <2>3. \A c \in Compactors : built(c) =>
          /\ ToSet(running[c].out) \cap cstatus.tables = {}
          /\ \A d \in Compactors \ {c} : built(d) => ToSet(running[c].out) \cap ToSet(running[d].out) = {}
    BY DEF CompactionsInv, OnePlace
  <2>. HIDE DEF built
  <2>. QED BY <1>5, <1>b, <2>1, <2>2, <2>3 DEF OnePlace
<1>7. TablesTaken'
  BY <1>2, <1>3 DEF CompactionsInv, TablesTaken, Active, allTables
<1>8. ClaimsHeld' /\ NothingLeft'
  BY DEF CompactionsInv, ClaimsHeld, NothingLeft, Active
<1>9. CompactionsDisjoint'
  <2>1. \A c \in Active : running[c].this \in LevelId /\ running[c].next \in LevelId
    BY <1>0, ActiveDefs DEF CompactDefs
  <2>. QED BY <1>a, <1>b, <2>1 DEF CompactionsInv, CompactionsDisjoint
<1>. QED BY <1>4, <1>6, <1>7, <1>8, <1>9 DEF CompactionsInv

-----------------------------------------------------------------------------
(* A compaction that is registered has tables of its own and ranges of its *)
(* own.                                                                    *)
LEMMA RegisterKeeps ==
  ASSUME CompactionsInv, UNCHANGED <<ts, mt, imm, flush, levels>>,
         NEW c \in Compactors, running[c] = Idle, NEW cd \in CompactDefs, running' = [running EXCEPT ![c] = cd],
         cd.phase = "picked", cd.out = <<>>,
         cd.top \subseteq Tables(cd.this), cd.bot \subseteq Tables(cd.next), cd.top \cap cd.bot = {},
         cstatus' \in [ranges : [LevelId -> SUBSET Ranges], tables : SUBSET TableSet],
         cstatus'.tables = cstatus.tables \cup allTables(cd),
         \A l \in LevelId : cstatus.ranges[l] \subseteq cstatus'.ranges[l],
         \A p \in claims(cd) : p[2] \in cstatus'.ranges[p[1]] /\ proper(p[2]),
         inRange(cd.thisRange, cd.top), inRange(cd.nextRange, cd.bot),
         cd.thisRange.inf => c = CompactorZero, ~ cd.nextRange.inf,
         \A d \in Active : allTables(cd) \cap allTables(running[d]) = {} /\ claims(cd) \cap claims(running[d]) = {},
         ~ LmaxCompaction => /\ \A l \in LevelId : \A r \in cstatus'.ranges[l] : r \in cstatus.ranges[l] \/ <<l, r>> \in claims(cd)
                             /\ cd.this = cd.next => cd.bot = {}
  PROVE  CompactionsInv'
<1>0. LevelsType /\ running \in [Compactors -> CompactDefs \cup {Idle}] /\ cd # Idle
  BY DefNotIdle DEF CompactionsInv, LevelsType
<1>1. /\ running'[c] = cd /\ (\A d \in Compactors \ {c} : running'[d] = running[d]) /\ Active' = Active \cup {c} /\ c \notin Active
      /\ running' \in [Compactors -> CompactDefs \cup {Idle}] /\ Active \subseteq Compactors
  BY <1>0 DEF Active
<1>2. (\A l \in LevelId : Tables(l)' = Tables(l)) /\ \A d \in Active : running'[d] = running[d] /\ d # c
  BY <1>1 DEF Tables
<1>3. allTables(cd) \subseteq UNION {Tables(l) : l \in LevelId}
  <2>1. cd.this \in LevelId /\ cd.next \in LevelId
    BY DEF CompactDefs
  <2>. QED BY <2>1 DEF allTables
<1>4. LevelsType'
  <2>1. LiveTables' \subseteq LiveTables
    <3>1. \A d \in Active' : ToSet(running'[d].out) \subseteq LiveTables
      <4>1. ToSet(cd.out) = {}
        BY DEF ToSet
      <4>. QED BY <1>1, <4>1, LiveOnes
    <3>2. (\A l \in LevelId : Tables(l)' \subseteq LiveTables) /\ cstatus'.tables \subseteq LiveTables
      BY <1>2, <1>3, LiveOnes
    <3>. QED BY <3>1, <3>2 DEF LiveTables, Active
  <2>. QED BY <1>0, <1>1, <2>1, FS_Subset DEF LevelsType
<1>5. OnePlace'
  <2>1. \A d \in Compactors : built(d)' => built(d) /\ d # c
    BY <1>1 DEF built
  <2>2. \A d \in Compactors : built(d) => ToSet(running[d].out) \cap cstatus'.tables = {}
    BY <1>3 DEF CompactionsInv, OnePlace
  <2>3. \A l, m \in LevelId : l # m => Tables(l)' \cap Tables(m)' = {}
    BY <1>2 DEF CompactionsInv, OnePlace
  <2>4. \A l \in LevelId : IsInjective(levels'[l])
    BY DEF CompactionsInv, OnePlace
  <2>5. \A d \in Compactors : built(d) =>
          /\ \A l \in LevelId : ToSet(running[d].out) \cap Tables(l)' = {}
          /\ \A e \in Compactors \ {d} : built(e) => ToSet(running[d].out) \cap ToSet(running[e].out) = {}
    BY <1>2 DEF CompactionsInv, OnePlace
  <2>. HIDE DEF built
  <2>. SUFFICES ASSUME NEW d \in Compactors, built(d)'
                PROVE  /\ ToSet(running'[d].out) \cap cstatus'.tables = {}
                       /\ \A l \in LevelId : ToSet(running'[d].out) \cap Tables(l)' = {}
                       /\ \A e \in Compactors \ {d} : built(e)' => ToSet(running'[d].out) \cap ToSet(running'[e].out) = {}
    BY <2>3, <2>4 DEF OnePlace
  <2>6. built(d) /\ running'[d] = running[d] /\ \A e \in Compactors : built(e)' => built(e) /\ running'[e] = running[e]
    BY <1>1, <2>1
  <2>. QED BY <2>2, <2>5, <2>6
<1>6. TablesTaken'
  <2>1. allTables(cd) \subseteq cstatus'.tables /\ cd.top \cap cd.bot = {} /\ cd.phase # "replaced"
    OBVIOUS
  <2>2. \A d \in Active : allTables(running[d]) \subseteq cstatus'.tables
    BY DEF CompactionsInv, TablesTaken
  <2>. QED BY <1>1, <1>2, <2>1, <2>2 DEF CompactionsInv, TablesTaken
<1>7. ClaimsHeld'
  <2>1. ASSUME NEW d \in Active
        PROVE  /\ \A p \in claims(running[d]) : p[2] \in cstatus'.ranges[p[1]] /\ proper(p[2])
               /\ inRange(running[d].thisRange, running[d].top) /\ inRange(running[d].nextRange, running[d].bot)
               /\ (running[d].thisRange.inf => d = CompactorZero) /\ ~ running[d].nextRange.inf
               /\ \A e \in Active \ {d} : claims(running[d]) \cap claims(running[e]) = {}
    <3>1. \A p \in claims(running[d]) : p[1] \in LevelId
      BY <1>0, ActiveDefs DEF claims, CompactDefs
    <3>. QED BY <3>1 DEF CompactionsInv, ClaimsHeld
  <2>2. /\ \A p \in claims(cd) : p[2] \in cstatus'.ranges[p[1]] /\ proper(p[2])
        /\ inRange(cd.thisRange, cd.top) /\ inRange(cd.nextRange, cd.bot)
        /\ (cd.thisRange.inf => c = CompactorZero) /\ ~ cd.nextRange.inf
        /\ \A e \in Active : claims(cd) \cap claims(running[e]) = {}
    OBVIOUS
  <2>. SUFFICES ASSUME NEW d \in Active'
                PROVE  /\ \A p \in claims(running'[d]) : p[2] \in cstatus'.ranges[p[1]] /\ proper(p[2])
                       /\ inRange(running'[d].thisRange, running'[d].top) /\ inRange(running'[d].nextRange, running'[d].bot)
                       /\ (running'[d].thisRange.inf => d = CompactorZero) /\ ~ running'[d].nextRange.inf
                       /\ \A e \in Active' \ {d} : claims(running'[d]) \cap claims(running'[e]) = {}
    BY DEF ClaimsHeld
  <2>3. CASE d = c
    <3>1. \A e \in Active' \ {d} : e \in Active /\ running'[e] = running[e]
      BY <1>1, <1>2, <2>3
    <3>. QED BY <1>1, <2>2, <2>3, <3>1
  <2>4. CASE d # c
    <3>1. d \in Active /\ running'[d] = running[d]
      BY <1>1, <1>2, <2>4
    <3>2. \A e \in Active' \ {d} : e = c \/ (e \in Active \ {d} /\ running'[e] = running[e])
      BY <1>1, <1>2
    <3>3. claims(running[d]) \cap claims(cd) = {}
      BY <2>2, <3>1
    <3>. QED BY <1>1, <2>1, <3>1, <3>2, <3>3
  <2>. QED BY <2>3, <2>4
<1>8. NothingLeft'
  <2>. SUFFICES ASSUME ~ LmaxCompaction PROVE NothingLeft'
    BY DEF NothingLeft
  <2>1. cstatus'.tables \subseteq UNION {allTables(running'[d]) : d \in Active'}
    BY <1>1, <1>2 DEF CompactionsInv, NothingLeft
  <2>2. \A l \in LevelId : \A r \in cstatus'.ranges[l] : \E d \in Active' : <<l, r>> \in claims(running'[d])
    BY <1>1, <1>2 DEF CompactionsInv, NothingLeft
  <2>3. \A d \in Active' : running'[d].this = running'[d].next => running'[d].bot = {}
    BY <1>1, <1>2 DEF CompactionsInv, NothingLeft
  <2>. QED BY <2>1, <2>2, <2>3 DEF NothingLeft
<1>9. CompactionsDisjoint'
  <2>1. \A d \in Active : running[d].this \in LevelId /\ running[d].next \in LevelId
    BY <1>0, ActiveDefs DEF CompactDefs
  <2>2. cd.this \in LevelId /\ cd.next \in LevelId
    BY DEF CompactDefs
  <2>3. \A d \in Active' : /\ running'[d].top \subseteq ToSet(levels'[running'[d].this])
                           /\ running'[d].phase # "replaced" => running'[d].bot \subseteq ToSet(levels'[running'[d].next])
    BY <1>1, <1>2, <2>1, <2>2 DEF CompactionsInv, CompactionsDisjoint, Tables
  <2>4. \A d, e \in Active' : d # e => allTables(running'[d]) \cap allTables(running'[e]) = {}
    <3>1. \A d \in Active : allTables(running[d]) \cap allTables(cd) = {}
      OBVIOUS
    <3>. QED BY <1>1, <1>2, <3>1 DEF CompactionsInv, CompactionsDisjoint
  <2>. QED BY <2>3, <2>4 DEF CompactionsDisjoint, Tables
<1>. QED BY <1>4, <1>5, <1>6, <1>7, <1>8, <1>9 DEF CompactionsInv

-----------------------------------------------------------------------------
(* The steps of a running compaction.  Building and replacing leave its    *)
(* levels, tables and ranges as they are.                                  *)
sameClaims(cd, nd) ==
  /\ nd.this = cd.this /\ nd.next = cd.next /\ nd.top = cd.top /\ nd.bot = cd.bot
  /\ nd.thisRange = cd.thisRange /\ nd.nextRange = cd.nextRange

LEMMA ClaimsKept ==
  ASSUME CompactionsInv, UNCHANGED cstatus, NEW c \in Active, NEW nd \in CompactDefs, sameClaims(running[c], nd),
         running' = [running EXCEPT ![c] = nd]
  PROVE  /\ ClaimsHeld' /\ NothingLeft' /\ Active' = Active /\ running' \in [Compactors -> CompactDefs \cup {Idle}]
         /\ running'[c] = nd /\ (\A d \in Compactors \ {c} : running'[d] = running[d])
         /\ \A d \in Active : sameClaims(running[d], running'[d])
<1>0. running \in [Compactors -> CompactDefs \cup {Idle}] /\ nd # Idle /\ c \in Compactors /\ running[c] # Idle
  BY DefNotIdle DEF CompactionsInv, LevelsType, Active
<1>1. /\ running' \in [Compactors -> CompactDefs \cup {Idle}] /\ running'[c] = nd
      /\ \A d \in Compactors \ {c} : running'[d] = running[d]
  BY <1>0
<1>2. Active' = Active
  BY <1>0, <1>1 DEF Active
<1>3. \A d \in Active : sameClaims(running[d], running'[d])
  <2>1. \A d \in Active : d = c \/ running'[d] = running[d]
    BY <1>1 DEF Active
  <2>. QED BY <1>1, <2>1 DEF sameClaims
<1>4. \A d \in Active : claims(running'[d]) = claims(running[d]) /\ allTables(running'[d]) = allTables(running[d])
  BY <1>3 DEF sameClaims, claims, allTables
<1>5. ClaimsHeld'
  BY <1>2, <1>3, <1>4 DEF CompactionsInv, ClaimsHeld, sameClaims
<1>6. NothingLeft'
  BY <1>2, <1>3, <1>4 DEF CompactionsInv, NothingLeft, sameClaims
<1>. QED BY <1>1, <1>2, <1>3, <1>5, <1>6

LEMMA MergedEntries ==
  ASSUME NEW T \in SUBSET TableSet, IsFiniteSet(T), NEW kept \in SUBSET UNION {t.ents : t \in T} PROVE kept \in EntrySets
<1>. DEFINE sets == {t.ents : t \in T}
            f == [t \in T |-> t.ents]
<1>1. \A S \in sets : S \in SUBSET Entries /\ IsFiniteSet(S)
  BY DEF TableSet, EntrySets
<1>2. f \in Surjection(T, sets)
  BY DEF Surjection
<1>3. kept \in SUBSET UNION sets
  OBVIOUS
<1>. HIDE DEF f, sets
<1>4. IsFiniteSet(sets)
  BY <1>2, FS_Surjection
<1>5. IsFiniteSet(UNION sets) /\ UNION sets \in SUBSET Entries
  BY <1>1, <1>4, FS_UNION
<1>6. IsFiniteSet(kept)
  BY <1>3, <1>5, FS_Subset
<1>. QED BY <1>3, <1>5, <1>6 DEF EntrySets

LEMMA BuildKeeps ==
  ASSUME CompactionsInv, NEW c \in Compactors, NEW d, NEW cuts, compactBuildTables(c, d, cuts) PROVE CompactionsInv'
<1>. DEFINE cd == running[c]
            merged == UNION {t.ents : t \in allTables(cd)}
            kept == {e \in merged : keeps(merged, checkOverlap(cd), d, e)}
            out == tablesOf(kept, cuts)
            nd == [cd EXCEPT !.phase = "built", !.out = out]
<1>0. LevelsType /\ running \in [Compactors -> CompactDefs \cup {Idle}] /\ IsFiniteSet(LiveTables)
  BY DEF CompactionsInv, LevelsType
<1>1. cd.phase = "picked" /\ c \in Active /\ cd \in CompactDefs
  <2>1. cd.phase = "picked"
    BY DEF compactBuildTables
  <2>2. cd # Idle
    BY <2>1 DEF Idle
  <2>. QED BY <1>0, <2>1, <2>2 DEF Active
<1>2. running' = [running EXCEPT ![c] = nd] /\ UNCHANGED <<ts, mt, imm, flush, levels, cstatus>>
  BY <1>0 DEF compactBuildTables
<1>3. out \in Seq(TableSet) /\ ToSet(out) \cap LiveTables = {}
  <2>1. allTables(cd) \subseteq cstatus.tables /\ cstatus.tables \subseteq LiveTables
    BY <1>1, LiveOnes DEF CompactionsInv, TablesTaken
  <2>2. allTables(cd) \in SUBSET TableSet /\ IsFiniteSet(allTables(cd))
    <3>1. allTables(cd) \in SUBSET TableSet
      BY <1>1 DEF CompactDefs, allTables
    <3>. QED BY <1>0, <2>1, <3>1, FS_Subset
  <2>3. kept \in SUBSET merged
    OBVIOUS
  <2>. HIDE DEF kept, cd
  <2>4. kept \in EntrySets
    BY <2>2, <2>3, MergedEntries
  <2>. QED BY <1>0, <2>4, TablesOfFacts
<1>. HIDE DEF out
<1>4. nd \in CompactDefs /\ sameClaims(cd, nd) /\ nd.phase = "built" /\ nd.out = out
  BY <1>1, <1>3 DEF CompactDefs, sameClaims
<1>. HIDE DEF nd, cd
<1>5. /\ ClaimsHeld' /\ NothingLeft' /\ Active' = Active /\ running' \in [Compactors -> CompactDefs \cup {Idle}]
      /\ running'[c] = nd /\ (\A e \in Compactors \ {c} : running'[e] = running[e])
      /\ \A e \in Active : sameClaims(running[e], running'[e])
  <2>1. sameClaims(running[c], nd) /\ UNCHANGED cstatus
    BY <1>2, <1>4 DEF cd
  <2>. QED BY <1>1, <1>2, <1>4, <2>1, ClaimsKept
<1>6. (\A l \in LevelId : Tables(l)' = Tables(l)) /\ Active \subseteq Compactors
  BY <1>2 DEF Tables, Active
<1>7. LevelsType'
  <2>1. \A e \in Active' : ToSet(running'[e].out) \subseteq LiveTables \cup ToSet(out)
    <3>1. \A e \in Active : e = c \/ running'[e] = running[e]
      BY <1>5, <1>6
    <3>. QED BY <1>4, <1>5, <3>1, LiveOnes
  <2>2. (\A l \in LevelId : Tables(l)' \subseteq LiveTables) /\ cstatus'.tables \subseteq LiveTables
    BY <1>2, <1>6, LiveOnes
  <2>3. LiveTables' \subseteq LiveTables \cup ToSet(out)
    BY <2>1, <2>2 DEF LiveTables, Active
  <2>4. IsFiniteSet(LiveTables')
    <3>1. IsFiniteSet(LiveTables \cup ToSet(out))
      BY <1>0, <1>3, ToSetFinite, FS_Union
    <3>. QED BY <2>3, <3>1, FS_Subset
  <2>. QED BY <1>0, <1>2, <1>5, <2>4 DEF LevelsType
<1>8. OnePlace'
  <2>1. /\ built(c)' /\ running'[c].out = out
        /\ \A e \in Compactors \ {c} : (built(e)' <=> built(e)) /\ running'[e] = running[e]
    BY <1>1, <1>4, <1>5, <1>6 DEF built
  <2>2. /\ ToSet(out) \cap cstatus.tables = {} /\ (\A l \in LevelId : ToSet(out) \cap Tables(l) = {})
        /\ \A e \in Compactors \ {c} : built(e) => ToSet(out) \cap ToSet(running[e].out) = {}
    BY <1>3, LiveOnes DEF built
  <2>3. \A l \in LevelId : IsInjective(levels'[l])
    BY <1>2 DEF CompactionsInv, OnePlace
  <2>4. \A l, m \in LevelId : l # m => Tables(l)' \cap Tables(m)' = {}
    BY <1>6 DEF CompactionsInv, OnePlace
  <2>5. \A e \in Compactors \ {c} : built(e) =>
          /\ ToSet(running[e].out) \cap cstatus.tables = {}
          /\ \A l \in LevelId : ToSet(running[e].out) \cap Tables(l) = {}
          /\ \A f \in Compactors \ {e} : built(f) => ToSet(running[e].out) \cap ToSet(running[f].out) = {}
    BY DEF CompactionsInv, OnePlace
  <2>. HIDE DEF built
  <2>. SUFFICES ASSUME NEW e \in Compactors, built(e)'
                PROVE  /\ ToSet(running'[e].out) \cap cstatus'.tables = {}
                       /\ \A l \in LevelId : ToSet(running'[e].out) \cap Tables(l)' = {}
                       /\ \A f \in Compactors \ {e} : built(f)' => ToSet(running'[e].out) \cap ToSet(running'[f].out) = {}
    BY <2>3, <2>4 DEF OnePlace
  <2>6. CASE e = c
    BY <1>2, <1>6, <2>1, <2>2, <2>6
  <2>7. CASE e # c
    <3>1. \A f \in Compactors \ {e} : built(f)' => ToSet(running'[e].out) \cap ToSet(running'[f].out) = {}
      BY <2>1, <2>2, <2>5, <2>7
    <3>. QED BY <1>2, <1>6, <2>1, <2>5, <2>7, <3>1
  <2>. QED BY <2>6, <2>7
<1>9. TablesTaken'
  <2>1. \A e \in Active : running'[e].phase = "replaced" => running[e].phase = "replaced"
    BY <1>4, <1>5, <1>6
  <2>. QED BY <1>2, <1>5, <1>6, <2>1 DEF CompactionsInv, TablesTaken, sameClaims, allTables
<1>10. CompactionsDisjoint'
  <2>1. \A e \in Active : running'[e].phase # "replaced" => running[e].phase # "replaced"
    BY <1>1, <1>5, <1>6 DEF cd
  <2>2. \A e, f \in Active' : e # f => allTables(running'[e]) \cap allTables(running'[f]) = {}
    BY <1>5 DEF CompactionsInv, CompactionsDisjoint, sameClaims, allTables
  <2>3. \A e \in Active' : /\ running'[e].top \subseteq ToSet(levels'[running'[e].this])
                           /\ running'[e].phase # "replaced" => running'[e].bot \subseteq ToSet(levels'[running'[e].next])
    BY <1>2, <1>5, <2>1 DEF CompactionsInv, CompactionsDisjoint, sameClaims, Tables
  <2>. QED BY <2>2, <2>3 DEF CompactionsDisjoint, Tables
<1>. QED BY <1>5, <1>7, <1>8, <1>9, <1>10 DEF CompactionsInv

LEMMA ReplaceKeeps ==
  ASSUME CompactionsInv, NEW c \in Compactors, replaceTables(c) PROVE CompactionsInv'
<1>. DEFINE cd == running[c]
            nd == [cd EXCEPT !.phase = "replaced"]
<1>0. LevelsType /\ running \in [Compactors -> CompactDefs \cup {Idle}] /\ IsFiniteSet(LiveTables)
      /\ levels \in [LevelId -> Seq(TableSet)]
  BY DEF CompactionsInv, LevelsType
<1>1. cd.phase = "built" /\ c \in Active /\ cd \in CompactDefs /\ built(c)
  <2>1. cd.phase = "built"
    BY DEF replaceTables
  <2>2. cd # Idle
    BY <2>1 DEF Idle
  <2>. QED BY <1>0, <2>1, <2>2 DEF Active, built
<1>2. running' = [running EXCEPT ![c] = nd] /\ UNCHANGED <<ts, mt, imm, flush, cstatus>>
  BY <1>0 DEF replaceTables
<1>3. PICK q \in replaced(levels[cd.next], cd.bot, cd.out) : levels' = [levels EXCEPT ![cd.next] = q]
  BY DEF replaceTables
<1>a. cd.next \in LevelId /\ cd.this \in LevelId /\ cd.out \in Seq(TableSet)
  BY <1>1 DEF CompactDefs
<1>n. PICK n \in LevelId : n = cd.next
  BY <1>a
<1>4. nd \in CompactDefs /\ sameClaims(cd, nd) /\ nd.phase = "replaced" /\ nd.out = cd.out
  BY <1>1 DEF CompactDefs, sameClaims
<1>. HIDE DEF nd, cd
<1>5. /\ ClaimsHeld' /\ NothingLeft' /\ Active' = Active /\ running' \in [Compactors -> CompactDefs \cup {Idle}]
      /\ running'[c] = nd /\ (\A e \in Compactors \ {c} : running'[e] = running[e])
      /\ \A e \in Active : sameClaims(running[e], running'[e])
  <2>1. sameClaims(running[c], nd) /\ UNCHANGED cstatus
    BY <1>2, <1>4 DEF cd
  <2>. QED BY <1>1, <1>2, <1>4, <2>1, ClaimsKept
<1>6. q \in Seq(TableSet) /\ ToSet(q) = (Tables(n) \ cd.bot) \cup ToSet(cd.out) /\ IsInjective(q)
  <2>1. levels[cd.next] \in Seq(TableSet)
    BY <1>0, <1>a
  <2>. QED BY <1>a, <1>n, <2>1, ReplacedFacts DEF Tables
<1>7. levels' \in [LevelId -> Seq(TableSet)] /\ levels'[n] = q /\ \A l \in LevelId \ {n} : levels'[l] = levels[l]
  BY <1>0, <1>3, <1>6, <1>n
<1>8. Tables(n)' = (Tables(n) \ cd.bot) \cup ToSet(cd.out) /\ \A l \in LevelId \ {n} : Tables(l)' = Tables(l)
  BY <1>6, <1>7 DEF Tables
<1>9. /\ ToSet(cd.out) \cap cstatus.tables = {} /\ (\A l \in LevelId : ToSet(cd.out) \cap Tables(l) = {})
      /\ \A e \in Compactors \ {c} : built(e) => ToSet(running[e].out) \cap ToSet(cd.out) = {}
  BY <1>1 DEF CompactionsInv, OnePlace, cd
<1>10. cd.top \cap cd.bot = {} /\ allTables(cd) \subseteq cstatus.tables /\ cd.bot \subseteq Tables(n)
       /\ cd.top \subseteq Tables(cd.this)
  BY <1>1, <1>n DEF CompactionsInv, TablesTaken, CompactionsDisjoint, cd
<1>b. \A l \in LevelId : Tables(l)' = Tables(l) \/ (l = n /\ Tables(l)' = (Tables(l) \ cd.bot) \cup ToSet(cd.out))
  BY <1>8
<1>c. Active \subseteq Compactors /\ ToSet(cd.out) \subseteq LiveTables
  BY <1>1, LiveOnes DEF cd, Active
<1>11. LevelsType'
  <2>1. \A e \in Active' : ToSet(running'[e].out) \subseteq LiveTables
    <3>1. \A e \in Active : running'[e].out = running[e].out
      BY <1>4, <1>5, <1>c DEF cd
    <3>. QED BY <1>5, <3>1, LiveOnes
  <2>2. (\A l \in LevelId : Tables(l)' \subseteq LiveTables) /\ cstatus'.tables \subseteq LiveTables
    BY <1>2, <1>b, <1>c, LiveOnes
  <2>3. LiveTables' \subseteq LiveTables
    BY <2>1, <2>2 DEF LiveTables, Active
  <2>. QED BY <1>0, <1>2, <1>5, <1>7, <2>3, FS_Subset DEF LevelsType
<1>12. OnePlace'
  <2>1. \A e \in Compactors : built(e)' => built(e) /\ e # c /\ running'[e] = running[e]
    BY <1>4, <1>5 DEF built
  <2>2. \A l \in LevelId : IsInjective(levels'[l])
    BY <1>6, <1>7 DEF CompactionsInv, OnePlace
  <2>3. \A l, m \in LevelId : l # m => Tables(l)' \cap Tables(m)' = {}
    <3>1. \A l, m \in LevelId : l # m => Tables(l) \cap Tables(m) = {}
      BY DEF CompactionsInv, OnePlace
    <3>2. \A l \in LevelId \ {n} : Tables(l)' \cap Tables(n)' = {}
      BY <1>8, <1>9, <3>1
    <3>. QED BY <1>8, <3>1, <3>2
  <2>4. \A e \in Compactors \ {c} : built(e) => \A l \in LevelId : ToSet(running[e].out) \cap Tables(l)' = {}
    BY <1>9, <1>b DEF CompactionsInv, OnePlace
  <2>5. \A e \in Compactors : built(e) =>
          /\ ToSet(running[e].out) \cap cstatus.tables = {}
          /\ \A f \in Compactors \ {e} : built(f) => ToSet(running[e].out) \cap ToSet(running[f].out) = {}
    BY DEF CompactionsInv, OnePlace
  <2>. HIDE DEF built
  <2>. SUFFICES ASSUME NEW e \in Compactors, built(e)'
                PROVE  /\ ToSet(running'[e].out) \cap cstatus'.tables = {}
                       /\ \A l \in LevelId : ToSet(running'[e].out) \cap Tables(l)' = {}
                       /\ \A f \in Compactors \ {e} : built(f)' => ToSet(running'[e].out) \cap ToSet(running'[f].out) = {}
    BY <2>2, <2>3 DEF OnePlace
  <2>. QED BY <1>2, <2>1, <2>4, <2>5
<1>13. TablesTaken'
  <2>1. ASSUME NEW e \in Active, running'[e].phase = "replaced" PROVE \A l \in LevelId : running[e].bot \cap Tables(l)' = {}
    <3>1. allTables(running[e]) \subseteq cstatus.tables
      BY DEF CompactionsInv, TablesTaken
    <3>2. running[e].bot \cap ToSet(cd.out) = {}
      BY <1>9, <3>1 DEF allTables
    <3>3. CASE e = c
      <4>1. \A l \in LevelId \ {n} : cd.bot \cap Tables(l) = {}
        BY <1>10 DEF CompactionsInv, OnePlace
      <4>. QED BY <1>8, <3>2, <3>3, <4>1 DEF cd
    <3>4. CASE e # c
      <4>1. running[e].phase = "replaced"
        BY <1>5, <1>c, <2>1, <3>4
      <4>2. \A l \in LevelId : running[e].bot \cap Tables(l) = {}
        BY <4>1 DEF CompactionsInv, TablesTaken
      <4>. QED BY <1>b, <3>2, <4>2
    <3>. QED BY <3>3, <3>4
  <2>2. \A e \in Active : /\ allTables(running'[e]) = allTables(running[e])
                          /\ running'[e].top = running[e].top /\ running'[e].bot = running[e].bot
    BY <1>5 DEF sameClaims, allTables
  <2>. QED BY <1>2, <1>5, <2>1, <2>2 DEF CompactionsInv, TablesTaken
<1>14. CompactionsDisjoint'
  <2>1. \A e, f \in Active' : e # f => allTables(running'[e]) \cap allTables(running'[f]) = {}
    BY <1>5 DEF CompactionsInv, CompactionsDisjoint, sameClaims, allTables
  <2>2. ASSUME NEW e \in Active
        PROVE  /\ running[e].top \subseteq ToSet(levels'[running[e].this])
               /\ running'[e].phase # "replaced" => running[e].bot \subseteq ToSet(levels'[running[e].next])
    <3>1. running[e].this \in LevelId /\ running[e].next \in LevelId
      BY <1>0, ActiveDefs DEF CompactDefs
    <3>2. CASE e = c
      <4>1. running'[e].phase = "replaced"
        BY <1>4, <1>5, <3>2
      <4>. QED BY <1>b, <1>10, <1>a, <3>2, <4>1 DEF cd, Tables
    <3>3. CASE e # c
      <4>1. running'[e].phase = running[e].phase
        BY <1>5, <1>c, <3>3
      <4>2. running[e].top \cap cd.bot = {} /\ running[e].bot \cap cd.bot = {}
        BY <1>1, <3>3 DEF CompactionsInv, CompactionsDisjoint, allTables, cd
      <4>3. running[e].top \subseteq Tables(running[e].this)
            /\ (running[e].phase # "replaced" => running[e].bot \subseteq Tables(running[e].next))
        BY DEF CompactionsInv, CompactionsDisjoint
      <4>. QED BY <1>b, <3>1, <4>1, <4>2, <4>3 DEF Tables
    <3>. QED BY <3>2, <3>3
  <2>3. \A e \in Active' : /\ running'[e].top \subseteq ToSet(levels'[running'[e].this])
                           /\ running'[e].phase # "replaced" => running'[e].bot \subseteq ToSet(levels'[running'[e].next])
    BY <1>5, <2>2 DEF sameClaims, Tables
  <2>. QED BY <2>1, <2>3 DEF CompactionsDisjoint, Tables
<1>. QED BY <1>5, <1>11, <1>12, <1>13, <1>14 DEF CompactionsInv

(* A compaction that ends, well or not, takes with it its own claims and   *)
(* at most its own tables.                                                 *)
LEMMA GiveUpKeeps ==
  ASSUME CompactionsInv, UNCHANGED <<ts, mt, imm, flush>>, NEW c \in Active,
         cstatus' = delete(cstatus, running[c]), running' = [running EXCEPT ![c] = Idle],
         levels' \in [LevelId -> Seq(TableSet)], \A l \in LevelId : IsInjective(levels'[l]),
         \A l \in LevelId : Tables(l)' \subseteq Tables(l) /\ Tables(l) \ running[c].top \subseteq Tables(l)'
  PROVE  CompactionsInv'
<1>. DEFINE cd == running[c]
<1>0. LevelsType /\ running \in [Compactors -> CompactDefs \cup {Idle}] /\ IsFiniteSet(LiveTables)
      /\ cstatus \in [ranges : [LevelId -> SUBSET Ranges], tables : SUBSET TableSet]
  BY DEF CompactionsInv, LevelsType
<1>1. cd \in CompactDefs /\ cd.this \in LevelId /\ cd.next \in LevelId /\ cd.nextRange \in Ranges
  <2>1. cd \in CompactDefs
    BY <1>0, ActiveDefs
  <2>. QED BY <2>1 DEF CompactDefs
<1>2. /\ Active' = Active \ {c} /\ Active \subseteq Compactors /\ running' \in [Compactors -> CompactDefs \cup {Idle}]
      /\ running'[c] = Idle /\ \A d \in Compactors \ {c} : running'[d] = running[d]
  BY <1>0 DEF Active
<1>3. cstatus'.tables = cstatus.tables \ allTables(cd) /\ cstatus' \in [ranges : [LevelId -> SUBSET Ranges], tables : SUBSET TableSet]
  BY <1>0 DEF delete
<1>4. \A l \in LevelId : \A r : r \in cstatus'.ranges[l] <=>
         /\ r \in cstatus.ranges[l] /\ ~ (l = cd.this /\ r = cd.thisRange)
         /\ ~ (l = cd.next /\ cd.this # cd.next /\ ~ isEmpty(cd.nextRange) /\ r = cd.nextRange)
  BY <1>0 DEF delete
<1>. HIDE DEF cd
<1>5. \A d \in Active' : d \in Active /\ d # c /\ running'[d] = running[d] /\ allTables(running[d]) \cap allTables(cd) = {}
  BY <1>2 DEF CompactionsInv, CompactionsDisjoint, cd
<1>6. LevelsType'
  <2>1. \A d \in Active' : ToSet(running'[d].out) \subseteq LiveTables
    BY <1>5, LiveOnes
  <2>2. (\A l \in LevelId : Tables(l)' \subseteq LiveTables) /\ cstatus'.tables \subseteq LiveTables
    BY <1>3, LiveOnes
  <2>3. LiveTables' \subseteq LiveTables
    BY <2>1, <2>2 DEF LiveTables, Active
  <2>. QED BY <1>0, <1>2, <1>3, <2>3, FS_Subset DEF LevelsType
<1>7. OnePlace'
  <2>1. \A d \in Compactors : built(d)' => built(d) /\ running'[d] = running[d]
    BY <1>2, <1>5 DEF built
  <2>2. \A l, m \in LevelId : l # m => Tables(l)' \cap Tables(m)' = {}
    BY DEF CompactionsInv, OnePlace
  <2>3. \A d \in Compactors : built(d) =>
          /\ ToSet(running[d].out) \cap cstatus'.tables = {}
          /\ \A l \in LevelId : ToSet(running[d].out) \cap Tables(l)' = {}
    BY <1>3 DEF CompactionsInv, OnePlace
  <2>4. \A d \in Compactors : built(d) =>
          \A e \in Compactors \ {d} : built(e) => ToSet(running[d].out) \cap ToSet(running[e].out) = {}
    BY DEF CompactionsInv, OnePlace
  <2>. HIDE DEF built
  <2>. QED BY <2>1, <2>2, <2>3, <2>4 DEF OnePlace
<1>8. TablesTaken'
  <2>1. \A d \in Active : /\ allTables(running[d]) \subseteq cstatus.tables /\ running[d].top \cap running[d].bot = {}
                          /\ running[d].phase = "replaced" => \A l \in LevelId : running[d].bot \cap Tables(l) = {}
    BY DEF CompactionsInv, TablesTaken
  <2>. QED BY <1>3, <1>5, <2>1 DEF TablesTaken
<1>9. ClaimsHeld'
  <2>1. <<cd.this, cd.thisRange>> \in claims(cd) /\ (cd.this # cd.next => <<cd.next, cd.nextRange>> \in claims(cd))
    BY DEF claims
  <2>2. ASSUME NEW d \in Active', NEW p \in claims(running[d]) PROVE p[2] \in cstatus'.ranges[p[1]] /\ proper(p[2])
    <3>1. p[1] \in LevelId /\ p = <<p[1], p[2]>>
      <4>1. running[d] \in CompactDefs
        BY <1>0, <1>5, ActiveDefs
      <4>2. running[d].this \in LevelId /\ running[d].next \in LevelId
        BY <4>1 DEF CompactDefs
      <4>. QED BY <4>2 DEF claims
    <3>2. p[2] \in cstatus.ranges[p[1]] /\ proper(p[2]) /\ p \notin claims(cd)
      BY <1>5 DEF CompactionsInv, ClaimsHeld, cd
    <3>3. ~ (p[1] = cd.this /\ p[2] = cd.thisRange) /\ ~ (p[1] = cd.next /\ cd.this # cd.next /\ p[2] = cd.nextRange)
      BY <2>1, <3>1, <3>2
    <3>. QED BY <1>4, <3>1, <3>2, <3>3
  <2>3. \A d \in Active' :
          /\ inRange(running[d].thisRange, running[d].top) /\ inRange(running[d].nextRange, running[d].bot)
          /\ (running[d].thisRange.inf => d = CompactorZero) /\ ~ running[d].nextRange.inf
          /\ \A e \in Active' \ {d} : claims(running[d]) \cap claims(running[e]) = {}
    BY <1>5 DEF CompactionsInv, ClaimsHeld
  <2>. QED BY <1>5, <2>2, <2>3 DEF ClaimsHeld
<1>10. NothingLeft'
  <2>. SUFFICES ASSUME ~ LmaxCompaction PROVE NothingLeft'
    BY DEF NothingLeft
  <2>1. cstatus'.tables \subseteq UNION {allTables(running'[d]) : d \in Active'}
    <3>1. cstatus.tables \subseteq UNION {allTables(running[d]) : d \in Active}
      BY DEF CompactionsInv, NothingLeft
    <3>2. \A d \in Active : d = c \/ (d \in Active' /\ running'[d] = running[d])
      BY <1>2, <1>5
    <3>. QED BY <1>3, <3>1, <3>2 DEF cd
  <2>2. ASSUME NEW l \in LevelId, NEW r \in cstatus'.ranges[l] PROVE \E d \in Active' : <<l, r>> \in claims(running'[d])
    <3>1. r \in cstatus.ranges[l]
      BY <1>4
    <3>2. PICK d \in Active : <<l, r>> \in claims(running[d])
      BY <3>1 DEF CompactionsInv, NothingLeft
    <3>3. ASSUME d = c PROVE FALSE
      <4>1. (l = cd.this /\ r = cd.thisRange) \/ (l = cd.next /\ r = cd.nextRange /\ cd.this # cd.next)
        <5>1. cd.this = cd.next => cd.bot = {}
          BY DEF CompactionsInv, NothingLeft, cd
        <5>. QED BY <3>2, <3>3, <5>1 DEF claims, cd
      <4>2. cd.this # cd.next => ~ isEmpty(cd.nextRange)
        <5>1. cd.this # cd.next => <<cd.next, cd.nextRange>> \in claims(cd)
          BY DEF claims
        <5>2. \A p \in claims(cd) : proper(p[2])
          BY DEF CompactionsInv, ClaimsHeld, cd
        <5>. QED BY <1>1, <5>1, <5>2, OverlapsItself
      <4>. QED BY <1>4, <4>1, <4>2
    <3>. QED BY <1>2, <3>2, <3>3
  <2>3. \A d \in Active' : running'[d].this = running'[d].next => running'[d].bot = {}
    BY <1>5 DEF CompactionsInv, NothingLeft
  <2>. QED BY <2>1, <2>2, <2>3 DEF NothingLeft
<1>11. CompactionsDisjoint'
  <2>1. \A d, e \in Active' : d # e => allTables(running'[d]) \cap allTables(running'[e]) = {}
    BY <1>5 DEF CompactionsInv, CompactionsDisjoint
  <2>2. ASSUME NEW d \in Active'
        PROVE  /\ running[d].top \subseteq ToSet(levels'[running[d].this])
               /\ running[d].phase # "replaced" => running[d].bot \subseteq ToSet(levels'[running[d].next])
    <3>1. running[d].this \in LevelId /\ running[d].next \in LevelId
      BY <1>0, <1>5, ActiveDefs DEF CompactDefs
    <3>2. running[d].top \cap cd.top = {} /\ running[d].bot \cap cd.top = {}
      BY <1>5 DEF allTables
    <3>3. running[d].top \subseteq Tables(running[d].this)
          /\ (running[d].phase # "replaced" => running[d].bot \subseteq Tables(running[d].next))
      BY <1>5 DEF CompactionsInv, CompactionsDisjoint
    <3>. QED BY <3>1, <3>2, <3>3 DEF Tables, cd
  <2>3. \A d \in Active' : /\ running'[d].top \subseteq ToSet(levels'[running'[d].this])
                           /\ running'[d].phase # "replaced" => running'[d].bot \subseteq ToSet(levels'[running'[d].next])
    BY <1>5, <2>2
  <2>. QED BY <2>1, <2>3 DEF CompactionsDisjoint, Tables
<1>. QED BY <1>6, <1>7, <1>8, <1>9, <1>10, <1>11 DEF CompactionsInv

LEMMA DeleteKeeps ==
  ASSUME CompactionsInv, NEW c \in Compactors, deleteTables(c) PROVE CompactionsInv'
<1>1. LevelsType /\ levels \in [LevelId -> Seq(TableSet)] /\ running \in [Compactors -> CompactDefs \cup {Idle}]
  BY DEF CompactionsInv, LevelsType
<1>2. c \in Active /\ running[c].this \in LevelId
  <2>1. running[c] # Idle
    BY DEF deleteTables, Idle
  <2>2. running[c] \in CompactDefs
    BY <1>1, <2>1
  <2>. QED BY <2>1, <2>2 DEF CompactDefs, Active
<1>3. PICK l \in LevelId : l = running[c].this
  BY <1>2
<1>4. levels' = [levels EXCEPT ![l] = Without(levels[l], running[c].top)]
  BY <1>3 DEF deleteTables
<1>5. /\ Without(levels[l], running[c].top) \in Seq(TableSet) /\ IsInjective(Without(levels[l], running[c].top))
      /\ ToSet(Without(levels[l], running[c].top)) = Tables(l) \ running[c].top
  <2>1. levels[l] \in Seq(TableSet) /\ IsInjective(levels[l])
    BY <1>1 DEF CompactionsInv, OnePlace
  <2>. QED BY <2>1, WithoutFacts DEF Tables
<1>6. levels'[l] = Without(levels[l], running[c].top) /\ \A m \in LevelId \ {l} : levels'[m] = levels[m]
  BY <1>1, <1>4
<1>7. levels' \in [LevelId -> Seq(TableSet)] /\ \A m \in LevelId : IsInjective(levels'[m])
  BY <1>1, <1>4, <1>5, <1>6 DEF CompactionsInv, OnePlace
<1>8. \A m \in LevelId : Tables(m)' \subseteq Tables(m) /\ Tables(m) \ running[c].top \subseteq Tables(m)'
  BY <1>5, <1>6 DEF Tables
<1>9. cstatus' = delete(cstatus, running[c]) /\ running' = [running EXCEPT ![c] = Idle] /\ UNCHANGED <<ts, mt, imm, flush>>
  BY DEF deleteTables
<1>. QED BY <1>2, <1>7, <1>8, <1>9, GiveUpKeeps

LEMMA ErrorKeeps ==
  ASSUME CompactionsInv, NEW c \in Compactors, compactError(c) PROVE CompactionsInv'
<1>1. c \in Active
  BY DEF compactError, Active, Idle
<1>2. cstatus' = delete(cstatus, running[c]) /\ running' = [running EXCEPT ![c] = Idle] /\ UNCHANGED <<ts, mt, imm, flush, levels>>
  BY DEF compactError
<1>3. levels' \in [LevelId -> Seq(TableSet)] /\ (\A m \in LevelId : IsInjective(levels'[m]))
      /\ \A m \in LevelId : Tables(m)' \subseteq Tables(m) /\ Tables(m) \ running[c].top \subseteq Tables(m)'
  BY <1>2 DEF CompactionsInv, LevelsType, OnePlace, Tables
<1>. QED BY <1>1, <1>2, <1>3, GiveUpKeeps

-----------------------------------------------------------------------------
(* The writer, the flusher and the reader.                                 *)
LEMMA PartOfEntries == ASSUME NEW S \in EntrySets, NEW T \in SUBSET S PROVE T \in EntrySets
BY FS_Subset DEF EntrySets

LEMMA WriterKeeps == ASSUME CompactionsInv, WriterStep PROVE CompactionsInv'
<1>0. LevelsType
  BY DEF CompactionsInv
<1>1. ASSUME NEW ks \in SUBSET Key, NEW kind \in Kinds, writeToLSM(ks, kind) PROVE CompactionsInv'
  <2>. DEFINE entry(k) == [key |-> k, ver |-> ts + 1, kind |-> kind]
              ents == {entry(k) : k \in ks}
              f == [k \in ks |-> entry(k)]
  <2>1. \A k \in ks : entry(k) \in Entries
    BY <1>0, ChoiceAssumption DEF LevelsType, Entries
  <2>2. IsFiniteSet(ks)
    <3>1. NumKeys \in Nat
      BY SizeAssumption
    <3>2. IsFiniteSet(1 .. NumKeys)
      BY <3>1, FS_Interval
    <3>. QED BY <3>2, FS_Subset DEF Key
  <2>3. ents \in SUBSET Entries
    BY <2>1
  <2>4. f \in Surjection(ks, ents)
    BY DEF Surjection
  <2>5. mt' = mt \cup ents /\ ts' = ts + 1 /\ UNCHANGED <<imm, flush, levels, cstatus, running>>
    BY <1>1 DEF writeToLSM
  <2>. HIDE DEF ents, f
  <2>6. IsFiniteSet(ents)
    BY <2>2, <2>4, FS_Surjection
  <2>7. mt' \in EntrySets
    BY <1>0, <2>3, <2>5, <2>6, FS_Union DEF LevelsType, EntrySets
  <2>8. RestTyped
    BY <1>0, <2>5, <2>7 DEF LevelsType, RestTyped
  <2>. QED BY <2>5, <2>8, TreeKept
<1>2. ASSUME ensureRoomForWrite PROVE CompactionsInv'
  <2>1. imm' = Append(imm, mt) /\ mt' = {} /\ UNCHANGED <<ts, flush, levels, cstatus, running>>
    BY <1>2 DEF ensureRoomForWrite
  <2>2. {} \in EntrySets
    BY FS_EmptySet DEF EntrySets
  <2>3. imm' \in Seq(EntrySets) /\ imm' # <<>>
    BY <1>0, <2>1 DEF LevelsType
  <2>4. RestTyped
    BY <1>0, <2>1, <2>2, <2>3 DEF LevelsType, RestTyped
  <2>. QED BY <2>1, <2>4, TreeKept
<1>. QED BY <1>1, <1>2 DEF WriterStep

LEMMA FlusherKeeps == ASSUME CompactionsInv, FlushStep PROVE CompactionsInv'
<1>0. LevelsType /\ IsFiniteSet(LiveTables) /\ 0 \in LevelId /\ 98 \in LevelId
  BY SizeAssumption DEF CompactionsInv, LevelsType, LevelId, Cold
<1>1. ASSUME NEW hot \in SUBSET HotKeys, flushHot(hot) PROVE CompactionsInv'
  <2>. DEFINE ents == HotPart(imm[1], hot)
              cold == ColdPart(imm[1], hot)
  <2>1. imm # <<>> /\ flush' = [stage |-> "cold", cold |-> cold] /\ UNCHANGED <<ts, mt, imm, cstatus, running>>
        /\ levels' = IF ents = {} THEN levels ELSE [levels EXCEPT ![98] = Append(@, newTable(ents, 0))]
    BY <1>1 DEF flushHot
  <2>2. imm[1] \in EntrySets
    BY <1>0, <2>1 DEF LevelsType
  <2>3. ents \in EntrySets /\ cold \in EntrySets
    <3>1. ents \in SUBSET imm[1] /\ cold \in SUBSET imm[1]
      BY DEF HotPart, ColdPart
    <3>. QED BY <2>2, <3>1, PartOfEntries
  <2>. HIDE DEF ents, cold
  <2>4. RestTyped
    BY <1>0, <2>1, <2>3 DEF LevelsType, RestTyped
  <2>5. CASE ents = {}
    BY <2>1, <2>4, <2>5, TreeKept
  <2>6. CASE ents # {}
    <3>1. newTable(ents, 0) \in TableSet /\ newTable(ents, 0) \notin LiveTables
      BY <1>0, <2>3, <2>6, NewTableFresh
    <3>2. levels' = [levels EXCEPT ![98] = Append(@, newTable(ents, 0))]
      BY <2>1, <2>6
    <3>. QED BY <1>0, <2>1, <2>4, <3>1, <3>2, AddKeeps
  <2>. QED BY <2>5, <2>6
<1>2. ASSUME tryAddLevel0Table PROVE CompactionsInv'
  <2>1. flush.stage = "cold" /\ flush' = [stage |-> "drop", cold |-> {}] /\ UNCHANGED <<ts, mt, imm, cstatus, running>>
    BY <1>2 DEF tryAddLevel0Table
  <2>2. {} \in EntrySets
    BY FS_EmptySet DEF EntrySets
  <2>3. RestTyped
    BY <1>0, <2>1, <2>2 DEF LevelsType, RestTyped
  <2>4. CASE UNCHANGED levels
    BY <2>1, <2>3, <2>4, TreeKept
  <2>5. CASE flush.cold # {} /\ levels' = [levels EXCEPT ![0] = Append(@, newTable(flush.cold, 0))]
    <3>1. flush.cold \in EntrySets
      BY <1>0 DEF LevelsType
    <3>2. newTable(flush.cold, 0) \in TableSet /\ newTable(flush.cold, 0) \notin LiveTables
      BY <1>0, <2>5, <3>1, NewTableFresh
    <3>. QED BY <1>0, <2>1, <2>3, <2>5, <3>2, AddKeeps
  <2>. QED BY <1>2, <2>4, <2>5 DEF tryAddLevel0Table
<1>3. ASSUME dropImm PROVE CompactionsInv'
  <2>1. flush.stage = "drop" /\ imm' = Tail(imm) /\ flush' = [flush EXCEPT !.stage = "idle"]
        /\ UNCHANGED <<ts, mt, levels, cstatus, running>>
    BY <1>3 DEF dropImm
  <2>2. imm \in Seq(EntrySets) /\ imm # <<>>
    BY <1>0, <2>1 DEF LevelsType
  <2>3. imm' \in Seq(EntrySets)
    BY <2>1, <2>2
  <2>4. RestTyped
    BY <1>0, <2>1, <2>3 DEF LevelsType, RestTyped
  <2>. QED BY <2>1, <2>4, TreeKept
<1>. QED BY <1>1, <1>2, <1>3 DEF FlushStep

LEMMA ReaderKeeps == ASSUME CompactionsInv, UNCHANGED <<ts, mt, imm, flush, levels, cstatus, running>> PROVE CompactionsInv'
<1>1. RestTyped
  BY RestKept DEF CompactionsInv
<1>. QED BY <1>1, TreeKept

-----------------------------------------------------------------------------
(* What a compaction picks: tables of its levels that no other one has.    *)
LEMMA BaseLevelCold == baseLevel \in Cold
<1>. DEFINE firsts == {0} \cup {l \in 1 .. MaxLevel : targetSz(l) <= BaseLevelSize}
            first == Max(firsts)
            sunks == {first} \cup {l \in first + 1 .. MaxLevel - 1 : \A m \in first + 1 .. l : levels[m] = <<>>}
            sunk == Max(sunks)
<1>0. MaxLevel \in Nat
  BY SizeAssumption
<1>1. firsts \in SUBSET (0 .. MaxLevel) /\ firsts # {}
  BY <1>0
<1>2. first \in 0 .. MaxLevel
  <2>1. firsts \in SUBSET Nat /\ \A y \in firsts : y <= MaxLevel
    BY <1>0, <1>1
  <2>. HIDE DEF firsts
  <2>. QED BY <1>0, <1>1, <2>1, MaxOfNats
<1>. HIDE DEF first
<1>3. sunks \in SUBSET (0 .. MaxLevel) /\ sunks # {}
  BY <1>0, <1>2
<1>4. sunk \in 0 .. MaxLevel
  <2>1. sunks \in SUBSET Nat /\ \A y \in sunks : y <= MaxLevel
    BY <1>0, <1>3
  <2>. HIDE DEF sunks
  <2>. QED BY <1>0, <1>3, <2>1, MaxOfNats
<1>5. baseLevel = IF sunk < MaxLevel /\ levels[sunk] = <<>> /\ LevelSize(sunk + 1) < targetSz(sunk + 1) THEN sunk + 1 ELSE sunk
  BY DEF baseLevel, first
<1>. HIDE DEF sunk
<1>6. sunk < MaxLevel => sunk + 1 \in 0 .. MaxLevel
  BY <1>0, <1>4
<1>. QED BY <1>4, <1>5, <1>6 DEF Cold

(* Tables whose range is not claimed are in no compaction.                 *)
LEMMA TakenApart ==
  ASSUME CompactionsInv, NEW l \in LevelId, NEW r \in Ranges, NEW T \in SUBSET Tables(l), inRange(r, T),
         ~ levelOverlaps(cstatus, l, r), NEW d \in Active
  PROVE  T \cap allTables(running[d]) = {}
<1>. DEFINE cd == running[d]
<1>1. LevelsType /\ cd \in CompactDefs
  BY ActiveDefs DEF CompactionsInv
<1>2. cd.this \in LevelId /\ cd.next \in LevelId /\ cd.thisRange \in Ranges /\ cd.nextRange \in Ranges
  BY <1>1 DEF CompactDefs
<1>. SUFFICES ASSUME NEW t \in T, t \in cd.top \/ t \in cd.bot PROVE FALSE
  BY DEF allTables
<1>3. t \in TableSet
  <2>1. levels[l] \in Seq(TableSet) /\ t \in ToSet(levels[l])
    BY <1>1 DEF LevelsType, Tables
  <2>. QED BY <2>1, ToSetFinite
<1>4. PICK k \in KeysOf(t) : k \in Key
  BY <1>3, TableKeys
<1>5. r.inf \/ (r.left <= k /\ k <= r.right)
  BY DEF inRange
<1>6. \A m \in LevelId : t \in Tables(m) => m = l
  BY DEF CompactionsInv, OnePlace
<1>7. \A q \in cstatus.ranges[l] : ~ overlapsWith(q, r)
  BY DEF levelOverlaps
<1>8. /\ \A p \in claims(cd) : p[2] \in cstatus.ranges[p[1]]
      /\ inRange(cd.thisRange, cd.top) /\ inRange(cd.nextRange, cd.bot)
  BY DEF CompactionsInv, ClaimsHeld
<1>9. CASE t \in cd.top
  <2>1. cd.this = l
    BY <1>2, <1>6, <1>9 DEF CompactionsInv, CompactionsDisjoint
  <2>2. <<cd.this, cd.thisRange>> \in claims(cd)
    BY DEF claims
  <2>3. cd.thisRange \in cstatus.ranges[l]
    BY <1>8, <2>1, <2>2
  <2>4. cd.thisRange.inf \/ (cd.thisRange.left <= k /\ k <= cd.thisRange.right)
    BY <1>8, <1>9 DEF inRange
  <2>5. overlapsWith(cd.thisRange, r)
    <3>. HIDE DEF cd
    <3>. QED BY <1>2, <1>4, <1>5, <2>4, RangesMeet
  <2>. QED BY <1>7, <2>3, <2>5
<1>10. CASE t \in cd.bot
  <2>1. cd.next = l
    <3>1. cd.phase # "replaced"
      BY <1>10 DEF CompactionsInv, TablesTaken
    <3>2. t \in Tables(cd.next)
      BY <1>10, <3>1 DEF CompactionsInv, CompactionsDisjoint
    <3>. QED BY <1>2, <1>6, <3>2
  <2>2. <<cd.next, cd.nextRange>> \in claims(cd)
    BY <1>10 DEF claims
  <2>3. cd.nextRange \in cstatus.ranges[l]
    BY <1>8, <2>1, <2>2
  <2>4. cd.nextRange.inf \/ (cd.nextRange.left <= k /\ k <= cd.nextRange.right)
    BY <1>8, <1>10 DEF inRange
  <2>5. overlapsWith(cd.nextRange, r)
    <3>. HIDE DEF cd
    <3>. QED BY <1>2, <1>4, <1>5, <2>4, RangesMeet
  <2>. QED BY <1>7, <2>3, <2>5
<1>. QED BY <1>9, <1>10

LEMMA ClaimsApart ==
  ASSUME CompactionsInv, NEW l \in LevelId, NEW r \in Ranges, proper(r), ~ levelOverlaps(cstatus, l, r), NEW d \in Active
  PROVE  <<l, r>> \notin claims(running[d])
<1>. SUFFICES ASSUME <<l, r>> \in claims(running[d]) PROVE FALSE
  OBVIOUS
<1>1. \A p \in claims(running[d]) : p[2] \in cstatus.ranges[p[1]]
  BY DEF CompactionsInv, ClaimsHeld
<1>2. r \in cstatus.ranges[l]
  BY <1>1
<1>. QED BY <1>2, OverlapsItself DEF levelOverlaps

(* register, for a range on this level that is free, and one on the next   *)
(* level that is free too unless nothing is taken from there.              *)
LEMMA ClaimRegisters ==
  ASSUME CompactionsInv, NEW c \in Compactors, NEW cd \in CompactDefs, register(c, cd), cd.phase = "picked", cd.out = <<>>,
         cd.top \subseteq Tables(cd.this), cd.bot \subseteq Tables(cd.next), cd.top \cap cd.bot = {},
         inRange(cd.thisRange, cd.top), inRange(cd.nextRange, cd.bot),
         proper(cd.thisRange), ~ cd.thisRange.inf, ~ cd.nextRange.inf, ~ levelOverlaps(cstatus, cd.this, cd.thisRange),
         cd.this # cd.next \/ cd.bot # {} => proper(cd.nextRange) /\ ~ levelOverlaps(cstatus, cd.next, cd.nextRange),
         LmaxCompaction \/ cd.this # cd.next
  PROVE  CompactionsInv'
<1>0. LevelsType /\ cstatus \in [ranges : [LevelId -> SUBSET Ranges], tables : SUBSET TableSet]
  BY DEF CompactionsInv, LevelsType
<1>1. /\ cd.this \in LevelId /\ cd.next \in LevelId /\ cd.thisRange \in Ranges /\ cd.nextRange \in Ranges
      /\ allTables(cd) \in SUBSET TableSet
  BY DEF CompactDefs, allTables
<1>2. /\ running[c] = Idle /\ cstatus' = claim(cstatus, cd) /\ running' = [running EXCEPT ![c] = cd]
      /\ UNCHANGED <<ts, mt, imm, flush, levels>>
  BY DEF register
<1>3. /\ cstatus' \in [ranges : [LevelId -> SUBSET Ranges], tables : SUBSET TableSet]
      /\ cstatus'.tables = cstatus.tables \cup allTables(cd)
  BY <1>0, <1>1, <1>2 DEF claim
<1>4. \A l \in LevelId : \A r : r \in cstatus'.ranges[l] <=>
         r \in cstatus.ranges[l] \/ (l = cd.this /\ r = cd.thisRange) \/ (l = cd.next /\ r = cd.nextRange)
  BY <1>0, <1>2 DEF claim
<1>5. \A l \in LevelId : cstatus.ranges[l] \subseteq cstatus'.ranges[l]
  BY <1>4
<1>6. \A p \in claims(cd) : p[2] \in cstatus'.ranges[p[1]] /\ proper(p[2])
  <2>1. cd.thisRange \in cstatus'.ranges[cd.this] /\ cd.nextRange \in cstatus'.ranges[cd.next]
    BY <1>1, <1>4
  <2>. QED BY <2>1 DEF claims
<1>7. ASSUME NEW d \in Active PROVE allTables(cd) \cap allTables(running[d]) = {} /\ claims(cd) \cap claims(running[d]) = {}
  <2>1. cd.top \cap allTables(running[d]) = {} /\ <<cd.this, cd.thisRange>> \notin claims(running[d])
    BY <1>1, TakenApart, ClaimsApart
  <2>2. CASE cd.this # cd.next \/ cd.bot # {}
    <3>1. cd.bot \cap allTables(running[d]) = {} /\ <<cd.next, cd.nextRange>> \notin claims(running[d])
      BY <1>1, <2>2, TakenApart, ClaimsApart
    <3>2. claims(cd) \subseteq {<<cd.this, cd.thisRange>>, <<cd.next, cd.nextRange>>}
      BY DEF claims
    <3>3. allTables(cd) = cd.top \cup cd.bot
      BY DEF allTables
    <3>. QED BY <2>1, <3>1, <3>2, <3>3
  <2>3. CASE cd.this = cd.next /\ cd.bot = {}
    <3>1. claims(cd) = {<<cd.this, cd.thisRange>>} /\ allTables(cd) = cd.top
      BY <2>3 DEF claims, allTables
    <3>. QED BY <2>1, <3>1
  <2>. QED BY <2>2, <2>3
<1>8. ~ LmaxCompaction => /\ \A l \in LevelId : \A r \in cstatus'.ranges[l] : r \in cstatus.ranges[l] \/ <<l, r>> \in claims(cd)
                          /\ cd.this = cd.next => cd.bot = {}
  BY <1>4 DEF claims
<1>. QED BY <1>2, <1>3, <1>5, <1>6, <1>7, <1>8, RegisterKeeps

(* The usual compaction, from one level into another.                      *)
LEMMA IntoNextRegisters ==
  ASSUME CompactionsInv, NEW c \in Compactors, NEW this \in LevelId, NEW next \in LevelId, this # next,
         NEW top \in SUBSET Tables(this), top # {},
         compareOk(cstatus, intoNext(this, next, top)), register(c, intoNext(this, next, top))
  PROVE  CompactionsInv'
<1>. DEFINE thisRange == getKeyRange(top)
            bot == overlappingTables(next, thisRange)
            nextRange == nextRangeOf(thisRange, bot)
            cd == intoNext(this, next, top)
<1>0. \A l \in LevelId : Tables(l) \in SUBSET TableSet
  <2>1. \A l \in LevelId : levels[l] \in Seq(TableSet)
    BY DEF CompactionsInv, LevelsType
  <2>. QED BY <2>1, ToSetFinite DEF Tables
<1>1. cd = [phase |-> "picked", this |-> this, next |-> next, top |-> top, bot |-> bot,
            thisRange |-> thisRange, nextRange |-> nextRange, base |-> baseLevel, out |-> <<>>]
  BY DEF intoNext, compactDef
<1>2. bot \in SUBSET Tables(next) /\ bot \in SUBSET TableSet /\ top \in SUBSET TableSet
  <2>1. bot \in SUBSET Tables(next)
    BY DEF overlappingTables
  <2>. HIDE DEF bot
  <2>. QED BY <1>0, <2>1
<1>. HIDE DEF bot
<1>3. thisRange \in Ranges /\ proper(thisRange) /\ ~ thisRange.inf /\ inRange(thisRange, top)
  BY <1>2, KeyRangeFacts
<1>. HIDE DEF thisRange
<1>4. nextRange \in Ranges /\ proper(nextRange) /\ ~ nextRange.inf /\ inRange(nextRange, bot)
  <2>1. CASE bot = {}
    BY <1>3, <2>1 DEF nextRangeOf, inRange
  <2>2. CASE bot # {}
    <3>1. nextRange = getKeyRange(bot)
      BY <2>2 DEF nextRangeOf
    <3>. QED BY <1>2, <2>2, <3>1, KeyRangeFacts
  <2>. QED BY <2>1, <2>2
<1>. HIDE DEF nextRange, cd
<1>5. /\ cd.phase = "picked" /\ cd.this = this /\ cd.next = next /\ cd.top = top /\ cd.bot = bot
      /\ cd.thisRange = thisRange /\ cd.nextRange = nextRange /\ cd.out = <<>>
  BY <1>1
<1>6. cd \in CompactDefs
  <2>1. baseLevel \in Cold /\ <<>> \in Seq(TableSet)
    BY BaseLevelCold
  <2>. QED BY <1>1, <1>2, <1>3, <1>4, <2>1 DEF CompactDefs
<1>7. top \cap bot = {}
  BY <1>2 DEF CompactionsInv, OnePlace
<1>8. compareOk(cstatus, cd) /\ register(c, cd)
  BY DEF cd
<1>9. ~ levelOverlaps(cstatus, this, thisRange) /\ ~ levelOverlaps(cstatus, next, nextRange)
  BY <1>5, <1>8 DEF compareOk
<1>. QED BY <1>2, <1>3, <1>4, <1>5, <1>6, <1>7, <1>8, <1>9, ClaimRegisters

LEMMA PrefixFacts ==
  ASSUME NEW X, NEW s \in Seq(X), s # <<>>
  PROVE  overlappingPrefix(s) \in SUBSET ToSet(s) /\ overlappingPrefix(s) # {}
<1>. DEFINE first(n) == {s[i] : i \in 1 .. n}
            all == {n \in 1 .. Len(s) : \A i \in 2 .. n : overlapsWith(getKeyRange(first(i - 1)), getKeyRange({s[i]}))}
            n == Max(all)
<1>0. Len(s) \in Nat /\ 1 \in 1 .. Len(s) /\ DOMAIN s = 1 .. Len(s)
  OBVIOUS
<1>1. all \in SUBSET (1 .. Len(s)) /\ 1 \in all
  <2>1. 2 .. 1 = {}
    OBVIOUS
  <2>. QED BY <1>0, <2>1
<1>2. n \in 1 .. Len(s)
  <2>1. all \in SUBSET Nat /\ \A y \in all : y <= Len(s)
    BY <1>0, <1>1
  <2>. HIDE DEF all
  <2>. QED BY <1>0, <1>1, <2>1, MaxOfNats
<1>3. overlappingPrefix(s) = first(n)
  BY DEF overlappingPrefix
<1>. HIDE DEF n
<1>4. 1 \in 1 .. n /\ \A i \in 1 .. n : i \in DOMAIN s
  BY <1>0, <1>2
<1>. QED BY <1>3, <1>4 DEF ToSet

LEMMA OneRegisters ==
  ASSUME CompactionsInv, NEW c \in Compactors, NEW this \in LevelId, NEW next \in LevelId, this # next, fillOne(c, this, next)
  PROVE  CompactionsInv'
<1>1. PICK t \in Tables(this) : compareOk(cstatus, intoNext(this, next, {t})) /\ register(c, intoNext(this, next, {t}))
  BY DEF fillOne
<1>2. {t} \in SUBSET Tables(this) /\ {t} # {}
  OBVIOUS
<1>. QED BY <1>1, <1>2, IntoNextRegisters

LEMMA PrefixRegisters ==
  ASSUME CompactionsInv, NEW c \in Compactors, NEW this \in LevelId, NEW next \in LevelId, this # next, levels[this] # <<>>,
         compareOk(cstatus, intoNext(this, next, overlappingPrefix(levels[this]))),
         register(c, intoNext(this, next, overlappingPrefix(levels[this])))
  PROVE  CompactionsInv'
<1>1. levels[this] \in Seq(TableSet)
  BY DEF CompactionsInv, LevelsType
<1>2. overlappingPrefix(levels[this]) \in SUBSET Tables(this) /\ overlappingPrefix(levels[this]) # {}
  BY <1>1, PrefixFacts DEF Tables
<1>. QED BY <1>2, IntoNextRegisters

(* Level 0 into itself: tables no other compaction has, and the one claim  *)
(* of everything, which only compactor 0 makes.                            *)
LEMMA RunFacts ==
  ASSUME NEW X, levels[0] \in Seq(X), L0Run # {} PROVE L0Run \in SUBSET Tables(0) /\ L0Run \cap cstatus.tables = {}
<1>. DEFINE s == levels[0]
            free == {i \in 1 .. Len(s) : ~ L0Taken(s[i])}
            first == Min(free)
            upTo(n) == {s[i] : i \in first .. n}
            ends == {n \in first .. Len(s) : /\ \A i \in first .. n : i \in free
                                             /\ n > first => SizeOf(upTo(n - 1)) < BigSize}
            last == Max(ends)
<1>0. L0Run = IF free = {} THEN {} ELSE upTo(last)
  BY DEF L0Run
<1>1. free # {}
  BY <1>0
<1>2. Len(s) \in Nat /\ DOMAIN s = 1 .. Len(s) /\ free \in SUBSET (1 .. Len(s))
  OBVIOUS
<1>3. \A i \in free : s[i] \in Tables(0) /\ s[i] \notin cstatus.tables
  BY <1>2 DEF Tables, ToSet, L0Taken
<1>. HIDE DEF free, s
<1>4. first \in free
  <2>1. free \in SUBSET Nat
    BY <1>2
  <2>. QED BY <1>1, <2>1, MinOfNats
<1>. HIDE DEF first
<1>5. first \in ends /\ ends \in SUBSET Nat /\ \A n \in ends : n <= Len(s)
  <2>1. first \in 1 .. Len(s)
    BY <1>2, <1>4
  <2>2. first \in first .. Len(s) /\ ~ (first > first) /\ \A i \in first .. first : i = first
    BY <1>2, <2>1
  <2>3. first \in ends
    BY <1>4, <2>2
  <2>4. \A n \in first .. Len(s) : n \in Nat /\ n <= Len(s)
    BY <1>2, <2>1
  <2>. QED BY <2>3, <2>4
<1>6. last \in ends
  <2>. HIDE DEF ends
  <2>. QED BY <1>2, <1>5, MaxOfNats
<1>7. \A i \in first .. last : i \in free
  <2>. HIDE DEF last
  <2>. QED BY <1>6
<1>. HIDE DEF last, ends
<1>. QED BY <1>0, <1>1, <1>3, <1>7

LEMMA ZeroRegisters ==
  ASSUME CompactionsInv, NEW c \in Compactors, fillTablesL0ToL0(c) PROVE CompactionsInv'
<1>. DEFINE cd == compactDef(0, 0, L0Run, {}, infRange, emptyRange)
<1>0. LevelsType /\ cstatus \in [ranges : [LevelId -> SUBSET Ranges], tables : SUBSET TableSet] /\ 0 \in LevelId
      /\ levels \in [LevelId -> Seq(TableSet)]
  BY SizeAssumption DEF CompactionsInv, LevelsType, LevelId, Cold
<1>1. /\ c = CompactorZero /\ running[c] = Idle /\ running' = [running EXCEPT ![c] = cd]
      /\ UNCHANGED <<ts, mt, imm, flush, levels>>
      /\ cstatus' = [ranges |-> [cstatus.ranges EXCEPT ![0] = @ \cup {infRange}], tables |-> cstatus.tables \cup L0Run]
  BY DEF fillTablesL0ToL0
<1>2. L0Run \in SUBSET Tables(0) /\ L0Run \in SUBSET TableSet /\ L0Run \cap cstatus.tables = {}
  <2>1. levels[0] \in Seq(TableSet)
    BY <1>0
  <2>2. L0Run \in SUBSET Tables(0) /\ L0Run \cap cstatus.tables = {}
    <3>1. CASE L0Run = {}
      BY <3>1
    <3>2. CASE L0Run # {}
      BY <2>1, <3>2, RunFacts
    <3>. QED BY <3>1, <3>2
  <2>3. Tables(0) \in SUBSET TableSet
    BY <2>1, ToSetFinite DEF Tables
  <2>. QED BY <2>2, <2>3
<1>3. cd = [phase |-> "picked", this |-> 0, next |-> 0, top |-> L0Run, bot |-> {},
            thisRange |-> infRange, nextRange |-> emptyRange, base |-> baseLevel, out |-> <<>>]
  BY DEF compactDef
<1>4. infRange \in Ranges /\ emptyRange \in Ranges /\ infRange.inf = TRUE /\ emptyRange.inf = FALSE
  BY DEF infRange, emptyRange, keyRange, Ranges
<1>. HIDE DEF cd
<1>5. /\ cd.phase = "picked" /\ cd.this = 0 /\ cd.next = 0 /\ cd.top = L0Run /\ cd.bot = {}
      /\ cd.thisRange = infRange /\ cd.nextRange = emptyRange /\ cd.out = <<>>
  BY <1>3
<1>6. cd \in CompactDefs
  <2>1. baseLevel \in Cold /\ <<>> \in Seq(TableSet)
    BY BaseLevelCold
  <2>. QED BY <1>0, <1>2, <1>3, <1>4, <2>1 DEF CompactDefs
<1>7. claims(cd) = {<<0, infRange>>} /\ allTables(cd) = L0Run
  BY <1>5 DEF claims, allTables
<1>8. /\ cstatus'.tables = cstatus.tables \cup L0Run /\ infRange \in cstatus'.ranges[0]
      /\ \A l \in LevelId : \A r : r \in cstatus'.ranges[l] <=> r \in cstatus.ranges[l] \/ (l = 0 /\ r = infRange)
  BY <1>0, <1>1
<1>9. cstatus' \in [ranges : [LevelId -> SUBSET Ranges], tables : SUBSET TableSet]
  BY <1>0, <1>1, <1>2, <1>4
<1>10. ASSUME NEW d \in Active PROVE allTables(cd) \cap allTables(running[d]) = {} /\ claims(cd) \cap claims(running[d]) = {}
  <2>1. allTables(running[d]) \subseteq cstatus.tables
    BY DEF CompactionsInv, TablesTaken
  <2>2. ~ running[d].thisRange.inf /\ ~ running[d].nextRange.inf
    <3>1. d # c
      BY <1>1 DEF Active
    <3>. QED BY <1>1, <3>1 DEF CompactionsInv, ClaimsHeld
  <2>3. <<0, infRange>> \notin claims(running[d])
    BY <1>4, <2>2 DEF claims
  <2>. QED BY <1>2, <1>7, <2>1, <2>3
<1>11. inRange(cd.thisRange, cd.top) /\ inRange(cd.nextRange, cd.bot) /\ proper(infRange)
  BY <1>4, <1>5 DEF inRange, proper
<1>12. \A l \in LevelId : cstatus.ranges[l] \subseteq cstatus'.ranges[l]
  BY <1>8
<1>13. cd.top \subseteq Tables(cd.this) /\ cd.bot \subseteq Tables(cd.next) /\ cd.top \cap cd.bot = {}
  BY <1>2, <1>5
<1>14. \A p \in claims(cd) : p[2] \in cstatus'.ranges[p[1]] /\ proper(p[2])
  BY <1>7, <1>8, <1>11
<1>15. ~ LmaxCompaction => /\ \A l \in LevelId : \A r \in cstatus'.ranges[l] : r \in cstatus.ranges[l] \/ <<l, r>> \in claims(cd)
                           /\ cd.this = cd.next => cd.bot = {}
  BY <1>5, <1>7, <1>8
<1>16. cstatus'.tables = cstatus.tables \cup allTables(cd) /\ (cd.thisRange.inf => c = CompactorZero) /\ ~ cd.nextRange.inf
  BY <1>1, <1>4, <1>5, <1>7, <1>8
<1>17. /\ running[c] = Idle /\ running' = [running EXCEPT ![c] = cd] /\ UNCHANGED <<ts, mt, imm, flush, levels>>
       /\ cd.phase = "picked" /\ cd.out = <<>>
  BY <1>1, <1>5
<1>. QED BY <1>6, <1>9, <1>10, <1>11, <1>12, <1>13, <1>14, <1>15, <1>16, <1>17, RegisterKeeps

(* A rewrite of tables of the last level, with or without those that       *)
(* follow the first.                                                       *)
LEMMA RewriteRegisters ==
  ASSUME CompactionsInv, NEW c \in Compactors, NEW i \in 1 .. Len(levels[MaxLevel]), fillMaxLevelTables(c, i)
  PROVE  CompactionsInv'
<1>. DEFINE s == levels[MaxLevel]
            t == s[i]
            kr == getKeyRange({t})
            ends == {n \in i .. Len(s) : n > i => SizeOf({s[j] : j \in i .. n}) < FileSz}
            last == Max(ends)
            bot == IF SizeOf({t}) >= FileSz THEN {} ELSE {s[j] : j \in i + 1 .. last}
            nextRange == getKeyRange({t} \cup bot)
            whole == compactDef(MaxLevel, MaxLevel, {t}, bot, kr, nextRange)
            alone == compactDef(MaxLevel, MaxLevel, {t}, {}, kr, emptyRange)
<1>0. MaxLevel \in LevelId /\ levels[MaxLevel] \in Seq(TableSet) /\ IsInjective(levels[MaxLevel])
  <2>1. MaxLevel \in LevelId
    BY SizeAssumption DEF LevelId, Cold
  <2>. QED BY <2>1 DEF CompactionsInv, LevelsType, OnePlace
<1>1. LmaxCompaction /\ ~ levelOverlaps(cstatus, MaxLevel, kr) /\ register(c, IF compareOk(cstatus, whole) THEN whole ELSE alone)
  BY DEF fillMaxLevelTables
<1>2. Len(s) \in Nat /\ DOMAIN s = 1 .. Len(s) /\ i \in DOMAIN s /\ (\A j \in DOMAIN s : s[j] \in TableSet /\ s[j] \in Tables(MaxLevel))
      /\ \A j \in DOMAIN s : s[j] = s[i] => j = i
  BY <1>0 DEF Tables, ToSet, IsInjective
<1>3. last \in i .. Len(s)
  <2>1. i \in ends
    BY <1>2
  <2>2. ends \in SUBSET Nat /\ \A y \in ends : y <= Len(s)
    BY <1>2
  <2>3. last \in ends
    <3>. HIDE DEF ends
    <3>. QED BY <1>2, <2>1, <2>2, MaxOfNats
  <2>. HIDE DEF last
  <2>. QED BY <2>3
<1>. HIDE DEF last, s
<1>4. t \in TableSet /\ t \in Tables(MaxLevel)
  BY <1>2
<1>5. bot \in SUBSET Tables(MaxLevel) /\ bot \in SUBSET TableSet /\ t \notin bot
  <2>1. \A j \in i + 1 .. last : j \in DOMAIN s /\ j # i
    BY <1>2, <1>3
  <2>. QED BY <1>2, <2>1
<1>. HIDE DEF bot, t
<1>6. kr \in Ranges /\ proper(kr) /\ ~ kr.inf /\ inRange(kr, {t})
  <2>1. {t} \in SUBSET TableSet /\ {t} # {}
    BY <1>4
  <2>. QED BY <2>1, KeyRangeFacts
<1>7. nextRange \in Ranges /\ proper(nextRange) /\ ~ nextRange.inf /\ inRange(nextRange, bot)
  <2>1. {t} \cup bot \in SUBSET TableSet /\ {t} \cup bot # {}
    BY <1>4, <1>5
  <2>2. nextRange \in Ranges /\ proper(nextRange) /\ ~ nextRange.inf /\ inRange(nextRange, {t} \cup bot)
    BY <2>1, KeyRangeFacts
  <2>. HIDE DEF nextRange
  <2>. QED BY <2>2 DEF inRange
<1>. HIDE DEF nextRange, kr
<1>8. baseLevel \in Cold /\ <<>> \in Seq(TableSet)
  BY BaseLevelCold
<1>9. CASE compareOk(cstatus, whole)
  <2>1. whole = [phase |-> "picked", this |-> MaxLevel, next |-> MaxLevel, top |-> {t}, bot |-> bot,
                 thisRange |-> kr, nextRange |-> nextRange, base |-> baseLevel, out |-> <<>>]
    BY DEF compactDef
  <2>2. compareOk(cstatus, whole) /\ register(c, whole)
    BY <1>1, <1>9
  <2>. HIDE DEF whole
  <2>3. /\ whole.phase = "picked" /\ whole.this = MaxLevel /\ whole.next = MaxLevel /\ whole.top = {t} /\ whole.bot = bot
        /\ whole.thisRange = kr /\ whole.nextRange = nextRange /\ whole.out = <<>>
    BY <2>1
  <2>4. whole \in CompactDefs
    BY <1>0, <1>4, <1>5, <1>6, <1>7, <1>8, <2>1 DEF CompactDefs
  <2>5. ~ levelOverlaps(cstatus, MaxLevel, nextRange)
    BY <2>2, <2>3 DEF compareOk
  <2>. QED BY <1>1, <1>4, <1>5, <1>6, <1>7, <2>2, <2>3, <2>4, <2>5, ClaimRegisters
<1>10. CASE ~ compareOk(cstatus, whole)
  <2>1. alone = [phase |-> "picked", this |-> MaxLevel, next |-> MaxLevel, top |-> {t}, bot |-> {},
                 thisRange |-> kr, nextRange |-> emptyRange, base |-> baseLevel, out |-> <<>>]
    BY DEF compactDef
  <2>2. register(c, alone)
    BY <1>1, <1>10
  <2>3. emptyRange \in Ranges /\ emptyRange.inf = FALSE /\ inRange(emptyRange, {})
    BY DEF emptyRange, keyRange, Ranges, inRange
  <2>. HIDE DEF alone
  <2>4. /\ alone.phase = "picked" /\ alone.this = MaxLevel /\ alone.next = MaxLevel /\ alone.top = {t} /\ alone.bot = {}
        /\ alone.thisRange = kr /\ alone.nextRange = emptyRange /\ alone.out = <<>>
    BY <2>1
  <2>5. alone \in CompactDefs
    BY <1>0, <1>4, <1>6, <1>8, <2>1, <2>3 DEF CompactDefs
  <2>. QED BY <1>1, <1>4, <1>6, <2>2, <2>3, <2>4, <2>5, ClaimRegisters
<1>. QED BY <1>9, <1>10

LEMMA PickKeeps == ASSUME CompactionsInv, NEW c \in Compactors, PickStep(c) PROVE CompactionsInv'
<1>0. MaxLevel \in Nat /\ MaxLevel < 98 /\ 0 \in LevelId /\ 98 \in LevelId /\ 99 \in LevelId /\ \A l \in 0 .. MaxLevel : l \in LevelId
  BY SizeAssumption DEF LevelId, Cold
<1>1. baseLevel \in 0 .. MaxLevel
  BY BaseLevelCold DEF Cold
<1>2. CASE fillTablesL0ToLbase(c)
  <2>1. levels[0] # <<>> /\ baseLevel # 0
    BY <1>1, <1>2 DEF fillTablesL0ToLbase
  <2>2. /\ compareOk(cstatus, intoNext(0, baseLevel, overlappingPrefix(levels[0])))
        /\ register(c, intoNext(0, baseLevel, overlappingPrefix(levels[0])))
    BY <1>2 DEF fillTablesL0ToLbase
  <2>. QED BY <1>0, <1>1, <2>1, <2>2, PrefixRegisters
<1>3. CASE fillTablesL0ToL0(c)
  BY <1>3, ZeroRegisters
<1>4. CASE fillTablesL98(c)
  <2>1. levels[98] # <<>> /\ compareOk(cstatus, intoNext(98, 99, overlappingPrefix(levels[98])))
        /\ register(c, intoNext(98, 99, overlappingPrefix(levels[98])))
    BY <1>4 DEF fillTablesL98
  <2>. QED BY <1>0, <2>1, PrefixRegisters
<1>5. CASE fillTablesL99(c)
  <2>1. fillOne(c, 99, baseLevel) /\ baseLevel # 99 /\ baseLevel \in LevelId
    BY <1>0, <1>1, <1>5 DEF fillTablesL99
  <2>. QED BY <1>0, <2>1, OneRegisters
<1>6. ASSUME NEW l \in 1 .. MaxLevel - 1, fillTables(c, l) PROVE CompactionsInv'
  <2>1. l \in LevelId /\ l + 1 \in LevelId /\ l # l + 1
    <3>1. l \in 0 .. MaxLevel /\ l + 1 \in 0 .. MaxLevel /\ l # l + 1
      BY <1>0
    <3>. QED BY <1>0, <3>1
  <2>. QED BY <1>6, <2>1, OneRegisters DEF fillTables
<1>7. ASSUME NEW i \in 1 .. Len(levels[MaxLevel]), fillMaxLevelTables(c, i) PROVE CompactionsInv'
  BY <1>7, RewriteRegisters
<1>. QED BY <1>2, <1>3, <1>4, <1>5, <1>6, <1>7 DEF PickStep

-----------------------------------------------------------------------------
(* Whatever the flusher, the compactors and the reader interleave, what is *)
(* claimed and where the tables are stay consistent: CompactionsInv is     *)
(* inductive.                                                              *)
THEOREM CompactionsInvariant == Spec => []CompactionsInv
<1>1. CompactionsInv /\ [Next]_vars => CompactionsInv'
  <2>. SUFFICES ASSUME CompactionsInv, [Next]_vars PROVE CompactionsInv'
    OBVIOUS
  <2>1. ASSUME NEW c \in Compactors, RunStep(c) PROVE CompactionsInv'
    <3>1. ASSUME NEW d, NEW cuts, compactBuildTables(c, d, cuts) PROVE CompactionsInv'
      BY <3>1, BuildKeeps
    <3>. QED BY <2>1, <3>1, ReplaceKeeps, DeleteKeeps DEF RunStep
  <2>2. CASE ReadStep
    <3>1. UNCHANGED <<ts, mt, imm, flush, levels, cstatus, running>>
      BY <2>2 DEF ReadStep, openReader, readMemTables, readLevel, closeReader
    <3>. QED BY <3>1, ReaderKeeps
  <2>3. ASSUME NEW v \in 1 .. ts, Expire(v) PROVE CompactionsInv'
    <3>1. UNCHANGED <<ts, mt, imm, flush, levels, cstatus, running>>
      BY <2>3 DEF Expire
    <3>. QED BY <3>1, ReaderKeeps
  <2>4. CASE UNCHANGED vars
    <3>1. UNCHANGED <<ts, mt, imm, flush, levels, cstatus, running>>
      BY <2>4 DEF vars
    <3>. QED BY <3>1, ReaderKeeps
  <2>5. ASSUME NEW c \in Compactors, PickStep(c) \/ compactError(c) PROVE CompactionsInv'
    BY <2>5, PickKeeps, ErrorKeeps
  <2>. QED BY <2>1, <2>2, <2>3, <2>4, <2>5, WriterKeeps, FlusherKeeps DEF Next
<1>. QED BY <1>1, CompactionsStart, PTL DEF Spec

(* No table is ever in two compactions, and a compaction finds its tables  *)
(* in their levels when it replaces and deletes them.                      *)
THEOREM TablesInOneCompaction == Spec => []CompactionsDisjoint
<1>1. CompactionsInv => CompactionsDisjoint
  BY DEF CompactionsInv
<1>. QED BY <1>1, CompactionsInvariant, PTL

(* Without rewrites of the last level (Options.LmaxCompaction off, as it   *)
(* is by default) the compactions that have ended leave no claim behind.   *)
THEOREM RangesAreReleased == ASSUME ~ LmaxCompaction PROVE Spec => []RangesReleased
<1>1. CompactionsInv => RangesReleased
  <2>. SUFFICES ASSUME CompactionsInv, Active = {} PROVE cstatus = newStatus(LevelId)
    BY DEF RangesReleased
  <2>1. cstatus.tables = {} /\ \A l \in LevelId : cstatus.ranges[l] = {}
    BY DEF CompactionsInv, NothingLeft
  <2>2. cstatus \in [ranges : [LevelId -> SUBSET Ranges], tables : SUBSET TableSet]
    BY DEF CompactionsInv, LevelsType
  <2>3. cstatus = [ranges |-> cstatus.ranges, tables |-> cstatus.tables] /\ cstatus.ranges = [l \in LevelId |-> {}]
    BY <2>1, <2>2
  <2>. QED BY <2>1, <2>3 DEF newStatus
<1>. QED BY <1>1, CompactionsInvariant, PTL
==============================================================================
