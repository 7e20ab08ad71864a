---------------------------- MODULE WaterMarkProofs ---------------------------
(***************************************************************************)
(* Lemmas on the methods of y/watermark.go: each of Begin, Done,           *)
(* WaitForMark and an iteration of process preserves WaterMarkInv, the     *)
(* accounting between the callers and the state of process; and what the   *)
(* accounting gives: doneUntil is safe, monotone and never ahead of a mark.*)
(***************************************************************************)
EXTENDS WaterMark, FiniteSetTheorems, WellFoundedInduction, TLAPS

(* A non-empty set of timestamps has a maximum: the last index popped from  *)
(* the heap of process is well defined.                                     *)
LEMMA MaxOfTS ==
  ASSUME NEW S \in SUBSET TS, S # {}
  PROVE  Max(S) \in S /\ \A y \in S : y <= Max(S)
<1> DEFINE T == {MaxTs - x : x \in S}
<1>1. T \subseteq Nat /\ T # {}
  <2>1. \A x \in S : MaxTs - x \in Nat
    BY MaxTsAssumption DEF TS
  <2>2. PICK x \in S : TRUE
    OBVIOUS
  <2>3. MaxTs - x \in T
    OBVIOUS
  <2> QED BY <2>1, <2>3
<1>2. IsWellFoundedOn(OpToRel(<, Nat), Nat)
  BY NatLessThanWellFounded
<1>3. PICK m \in T : \A y \in T : ~ (<<y, m>> \in OpToRel(<, Nat))
  <2> HIDE DEF T
  <2> QED BY <1>1, <1>2, WFMin
<1>4. PICK x \in S : m = MaxTs - x
  OBVIOUS
<1>5. \A y \in S : y <= x
  <2> SUFFICES ASSUME NEW y \in S PROVE y <= x
    OBVIOUS
  <2>1. MaxTs - y \in Nat /\ m \in Nat /\ MaxTs - y \in T
    BY <1>1
  <2>2. ~ (MaxTs - y < m)
    BY <1>3, <2>1 DEF OpToRel
  <2> QED BY <2>1, <2>2, <1>4, MaxTsAssumption DEF TS
<1>6. \E z \in S : \A y \in S : z >= y
  BY <1>5, MaxTsAssumption DEF TS
<1> QED BY <1>6, MaxTsAssumption DEF Max, TS

-----------------------------------------------------------------------------
(* Sending a mark changes nothing but the channel.                          *)
LEMMA SendFacts ==
  ASSUME NEW w \in WaterMarkType, NEW kind \in {"begin", "done", "wait"},
         NEW i \in TS, NEW t \in Txn
  PROVE  LET v == Send(w, kind, i, t)
         IN  /\ v \in WaterMarkType
             /\ v.doneUntil = w.doneUntil /\ v.indices = w.indices
             /\ v.pending = w.pending /\ v.waiters = w.waiters /\ v.closed = w.closed
             /\ v.markCh \in Seq(MarkType) /\ w.markCh \in Seq(MarkType)
             /\ Len(v.markCh) = Len(w.markCh) + 1
             /\ \A p \in 1 .. Len(w.markCh) : v.markCh[p] = w.markCh[p]
             /\ v.markCh[Len(w.markCh) + 1] = MarkOf(kind, i, t)
             /\ MarkOf(kind, i, t) \in MarkType
<1> DEFINE m == MarkOf(kind, i, t)
<1>1. m \in MarkType
  BY DEF MarkOf, MarkType
<1>2. w.markCh \in Seq(MarkType)
  BY DEF WaterMarkType
<1>3. Append(w.markCh, m) \in Seq(MarkType)
  BY <1>1, <1>2
<1> DEFINE v == Send(w, kind, i, t)
<1>4. v.markCh = Append(w.markCh, m)
  BY DEF Send, WaterMarkType
<1>5. /\ v.doneUntil = w.doneUntil /\ v.indices = w.indices
      /\ v.pending = w.pending /\ v.waiters = w.waiters /\ v.closed = w.closed
  BY DEF Send, WaterMarkType
<1>6. v \in WaterMarkType
  <2> HIDE DEF m
  <2> QED BY <1>3 DEF Send, WaterMarkType, m
<1>7. /\ Len(v.markCh) = Len(w.markCh) + 1
      /\ \A p \in 1 .. Len(w.markCh) : v.markCh[p] = w.markCh[p]
      /\ v.markCh[Len(w.markCh) + 1] = m
  <2> HIDE DEF m, v
  <2> QED BY <1>1, <1>2, <1>4
<1> HIDE DEF v
<1>8. v.markCh \in Seq(MarkType)
  BY <1>3, <1>4
<1> QED BY <1>1, <1>2, <1>5, <1>6, <1>7, <1>8 DEF v

(* After a send exactly the mark just sent has joined those in markCh.      *)
LEMMA InChSend ==
  ASSUME NEW w \in WaterMarkType, NEW kind \in {"begin", "done", "wait"},
         NEW i \in TS, NEW t \in Txn
  PROVE  \A k, u : InCh(Send(w, kind, i, t), k, u) <=> InCh(w, k, u) \/ (k = kind /\ u = t)
<1> DEFINE v == Send(w, kind, i, t)
<1>1. /\ Len(v.markCh) = Len(w.markCh) + 1 /\ Len(w.markCh) \in Nat
      /\ \A p \in 1 .. Len(w.markCh) : v.markCh[p] = w.markCh[p]
      /\ v.markCh[Len(w.markCh) + 1] = MarkOf(kind, i, t)
  BY SendFacts
<1> HIDE DEF v
<1>2. \A k, u : InCh(v, k, u) <=> InCh(w, k, u) \/ (k = kind /\ u = t)
  BY <1>1 DEF InCh, MarkOf
<1> QED BY <1>2 DEF v

-----------------------------------------------------------------------------
(* Begin: the caller joins at an index that is not below any earlier one.   *)
LEMMA BeginPreservesInv ==
  ASSUME NEW w, NEW idx \in [Txn -> TS], NEW began \in SUBSET Txn, NEW ended \in SUBSET Txn,
         NEW top \in TS, WaterMarkInv(w, idx, began, ended, top),
         NEW t \in Txn, t \notin began, t \notin ended, NEW i \in TS, top <= i
  PROVE  WaterMarkInv(Begin(w, i, t), [idx EXCEPT ![t] = i], began \cup {t}, ended, i)
<1> DEFINE v == Send(w, "begin", i, t)
           idx2 == [idx EXCEPT ![t] = i]
           n == Len(w.markCh)
<1>1. /\ w \in WaterMarkType /\ v \in WaterMarkType
      /\ v.doneUntil = w.doneUntil /\ v.indices = w.indices /\ v.pending = w.pending
      /\ Len(v.markCh) = n + 1 /\ n \in Nat
      /\ \A p \in 1 .. n : v.markCh[p] = w.markCh[p] /\ w.markCh[p] \in MarkType
      /\ v.markCh[n + 1].kind = "begin" /\ v.markCh[n + 1].index = i /\ v.markCh[n + 1].who = t
  <2>1. w \in WaterMarkType
    BY DEF WaterMarkInv
  <2>2. w.markCh \in Seq(MarkType)
    BY <2>1 DEF WaterMarkType
  <2>3. n \in Nat /\ \A p \in 1 .. n : w.markCh[p] \in MarkType
    BY <2>2
  <2>4. v.markCh[n + 1] = MarkOf("begin", i, t)
    BY <2>1, SendFacts
  <2> QED BY <2>1, <2>3, <2>4, SendFacts DEF MarkOf
<1>2. \A k, u : InCh(v, k, u) <=> InCh(w, k, u) \/ (k = "begin" /\ u = t)
  BY <1>1, InChSend
<1>3. \A p \in 1 .. n : w.markCh[p].kind # "wait" => w.markCh[p].who # t
  BY <1>1 DEF WaterMarkInv, ChannelInv
<1>4. \A u \in Txn : Held(v, began \cup {t}, ended, u) <=> Held(w, began, ended, u)
  BY <1>2 DEF Held
<1>5. \A j : Holders(v, idx2, began \cup {t}, ended, j) = Holders(w, idx, began, ended, j)
  BY <1>4 DEF Holders, Held
<1> HIDE DEF v
<1>6. ChannelInv(v, idx2, began \cup {t}, ended)
  <2>1. \A p \in 1 .. Len(v.markCh) : v.markCh[p].kind # "wait" =>
          /\ v.markCh[p].index = idx2[v.markCh[p].who]
          /\ v.markCh[p].who \in began \cup {t}
          /\ v.markCh[p].kind = "done" => v.markCh[p].who \in ended
    BY <1>1, <1>3 DEF WaterMarkInv, ChannelInv, MarkType
  <2>2. \A p, q \in 1 .. Len(v.markCh) : p < q /\ v.markCh[p].kind # "wait" =>
          /\ v.markCh[p].who = v.markCh[q].who => v.markCh[p].kind # v.markCh[q].kind
          /\ v.markCh[q].kind = "begin" =>
               /\ v.markCh[p].who = v.markCh[q].who => v.markCh[p].kind # "done"
               /\ v.markCh[p].kind = "begin" => v.markCh[p].index <= v.markCh[q].index
    <3> SUFFICES ASSUME NEW p \in 1 .. n + 1, NEW q \in 1 .. n + 1, p < q, v.markCh[p].kind # "wait"
                 PROVE  /\ v.markCh[p].who = v.markCh[q].who => v.markCh[p].kind # v.markCh[q].kind
                        /\ v.markCh[q].kind = "begin" =>
                             /\ v.markCh[p].who = v.markCh[q].who => v.markCh[p].kind # "done"
                             /\ v.markCh[p].kind = "begin" => v.markCh[p].index <= v.markCh[q].index
      BY <1>1
    <3>1. p \in 1 .. n /\ v.markCh[p] = w.markCh[p] /\ w.markCh[p] \in MarkType
      BY <1>1
    <3>2. CASE q = n + 1
      <4>1. v.markCh[p].who # t
        BY <3>1, <1>3
      <4>2. v.markCh[p].kind = "begin" => v.markCh[p].index <= top
        BY <3>1 DEF WaterMarkInv, HeapInv
      <4>3. v.markCh[p].index \in TS
        BY <3>1 DEF MarkType
      <4> QED BY <1>1, <3>2, <4>1, <4>2, <4>3, MaxTsAssumption DEF TS
    <3>3. CASE q \in 1 .. n
      BY <1>1, <3>1, <3>3 DEF WaterMarkInv, ChannelInv
    <3> QED BY <1>1, <3>2, <3>3
  <2>3. \A u \in Txn : u \in ended /\ InCh(v, "begin", u) => InCh(v, "done", u)
    BY <1>2 DEF WaterMarkInv, ChannelInv
  <2> QED BY <2>1, <2>2, <2>3 DEF ChannelInv
<1>7. HeapInv(v, idx2, began \cup {t}, ended, i)
  <2>1. \A j \in TS : v.pending[j] = Cardinality(Holders(v, idx2, began \cup {t}, ended, j))
    BY <1>1, <1>5 DEF WaterMarkInv, HeapInv
  <2>2. \A u \in Txn : Held(v, began \cup {t}, ended, u) => idx2[u] \in v.indices
    <3> SUFFICES ASSUME NEW u \in Txn, Held(v, began \cup {t}, ended, u)
                 PROVE  idx2[u] \in v.indices
      OBVIOUS
    <3>1. Held(w, began, ended, u) /\ u # t
      BY <1>4 DEF Held
    <3> QED BY <3>1, <1>1 DEF WaterMarkInv, HeapInv
  <2>3. /\ \A j \in w.indices : w.doneUntil <= j /\ j <= top
        /\ w.doneUntil <= top
        /\ \A p \in 1 .. n : w.markCh[p].kind = "begin" =>
             /\ w.doneUntil <= w.markCh[p].index /\ w.markCh[p].index <= top
             /\ \A j \in w.indices : j <= w.markCh[p].index
    BY DEF WaterMarkInv, HeapInv
  <2>4. w.indices \subseteq TS /\ w.doneUntil \in TS
    BY <1>1 DEF WaterMarkType
  <2>5. \A p \in 1 .. n : w.markCh[p].index \in TS
    BY <1>1 DEF MarkType
  <2>6. /\ \A j \in v.indices : v.doneUntil <= j /\ j <= i
        /\ v.doneUntil <= i
    BY <1>1, <2>3, <2>4, MaxTsAssumption DEF TS
  <2>7. \A p \in 1 .. Len(v.markCh) : v.markCh[p].kind = "begin" =>
             /\ v.doneUntil <= v.markCh[p].index /\ v.markCh[p].index <= i
             /\ \A j \in v.indices : j <= v.markCh[p].index
    <3> SUFFICES ASSUME NEW p \in 1 .. n + 1, v.markCh[p].kind = "begin"
                 PROVE  /\ v.doneUntil <= v.markCh[p].index /\ v.markCh[p].index <= i
                        /\ \A j \in v.indices : j <= v.markCh[p].index
      BY <1>1
    <3>1. CASE p = n + 1
      BY <1>1, <3>1, <2>6, MaxTsAssumption DEF TS
    <3>2. CASE p \in 1 .. n
      <4>1. /\ v.doneUntil <= v.markCh[p].index /\ v.markCh[p].index <= top
            /\ \A j \in v.indices : j <= v.markCh[p].index
            /\ v.markCh[p].index \in TS
        BY <1>1, <2>3, <2>5, <3>2
      <4> QED BY <4>1, MaxTsAssumption DEF TS
    <3> QED BY <1>1, <3>1, <3>2
  <2> QED BY <2>1, <2>2, <2>6, <2>7 DEF HeapInv
<1> QED BY <1>1, <1>6, <1>7 DEF WaterMarkInv, Begin, v

(* Done: the caller stays a holder until process receives the mark.         *)
LEMMA DonePreservesInv ==
  ASSUME NEW w, NEW idx \in [Txn -> TS], NEW began \in SUBSET Txn, NEW ended \in SUBSET Txn,
         NEW top \in TS, WaterMarkInv(w, idx, began, ended, top),
         NEW t \in Txn, t \in began, t \notin ended
  PROVE  WaterMarkInv(Done(w, idx[t], t), idx, began, ended \cup {t}, top)
<1> DEFINE v == Send(w, "done", idx[t], t)
           n == Len(w.markCh)
<1>0. /\ \A p \in 1 .. n : w.markCh[p].kind # "wait" =>
           /\ w.markCh[p].index = idx[w.markCh[p].who]
           /\ w.markCh[p].who \in began
           /\ w.markCh[p].kind = "done" => w.markCh[p].who \in ended
      /\ \A p, q \in 1 .. n : p < q /\ w.markCh[p].kind # "wait" =>
           /\ w.markCh[p].who = w.markCh[q].who => w.markCh[p].kind # w.markCh[q].kind
           /\ w.markCh[q].kind = "begin" =>
                /\ w.markCh[p].who = w.markCh[q].who => w.markCh[p].kind # "done"
                /\ w.markCh[p].kind = "begin" => w.markCh[p].index <= w.markCh[q].index
  BY DEF WaterMarkInv, ChannelInv
<1>1. /\ w \in WaterMarkType /\ v \in WaterMarkType
      /\ v.doneUntil = w.doneUntil /\ v.indices = w.indices /\ v.pending = w.pending
      /\ Len(v.markCh) = n + 1 /\ n \in Nat
      /\ \A p \in 1 .. n : v.markCh[p] = w.markCh[p]
      /\ v.markCh[n + 1].kind = "done" /\ v.markCh[n + 1].index = idx[t] /\ v.markCh[n + 1].who = t
  <2>1. w \in WaterMarkType
    BY DEF WaterMarkInv
  <2>2. w.markCh \in Seq(MarkType)
    BY <2>1 DEF WaterMarkType
  <2>3. n \in Nat
    BY <2>2
  <2>4. v.markCh[n + 1] = MarkOf("done", idx[t], t)
    BY <2>1, SendFacts
  <2> QED BY <2>1, <2>3, <2>4, SendFacts DEF MarkOf
<1>2. \A k, u : InCh(v, k, u) <=> InCh(w, k, u) \/ (k = "done" /\ u = t)
  BY <1>1, InChSend
<1>3. \A p \in 1 .. n : w.markCh[p].kind = "done" => w.markCh[p].who # t
  BY <1>1 DEF WaterMarkInv, ChannelInv
<1>4. ~ InCh(w, "done", t)
  BY <1>3 DEF InCh
<1>5. \A u \in Txn : Held(v, began, ended \cup {t}, u) <=> Held(w, began, ended, u)
  BY <1>2, <1>4 DEF Held
<1>6. \A j : Holders(v, idx, began, ended \cup {t}, j) = Holders(w, idx, began, ended, j)
  BY <1>5 DEF Holders
<1> HIDE DEF v
<1>7. ChannelInv(v, idx, began, ended \cup {t})
  <2>1. \A p \in 1 .. Len(v.markCh) : v.markCh[p].kind # "wait" =>
          /\ v.markCh[p].index = idx[v.markCh[p].who]
          /\ v.markCh[p].who \in began
          /\ v.markCh[p].kind = "done" => v.markCh[p].who \in ended \cup {t}
    <3> SUFFICES ASSUME NEW p \in 1 .. n + 1, v.markCh[p].kind # "wait"
                 PROVE  /\ v.markCh[p].index = idx[v.markCh[p].who]
                        /\ v.markCh[p].who \in began
                        /\ v.markCh[p].kind = "done" => v.markCh[p].who \in ended \cup {t}
      BY <1>1
    <3>1. CASE p \in 1 .. n
      BY <1>0, <1>1, <3>1
    <3>2. CASE p = n + 1
      BY <1>1, <3>2
    <3> QED BY <1>1, <3>1, <3>2
  <2>2. \A p, q \in 1 .. Len(v.markCh) : p < q /\ v.markCh[p].kind # "wait" =>
          /\ v.markCh[p].who = v.markCh[q].who => v.markCh[p].kind # v.markCh[q].kind
          /\ v.markCh[q].kind = "begin" =>
               /\ v.markCh[p].who = v.markCh[q].who => v.markCh[p].kind # "done"
               /\ v.markCh[p].kind = "begin" => v.markCh[p].index <= v.markCh[q].index
    <3> SUFFICES ASSUME NEW p \in 1 .. n + 1, NEW q \in 1 .. n + 1, p < q, v.markCh[p].kind # "wait"
                 PROVE  /\ v.markCh[p].who = v.markCh[q].who => v.markCh[p].kind # v.markCh[q].kind
                        /\ v.markCh[q].kind = "begin" =>
                             /\ v.markCh[p].who = v.markCh[q].who => v.markCh[p].kind # "done"
                             /\ v.markCh[p].kind = "begin" => v.markCh[p].index <= v.markCh[q].index
      BY <1>1
    <3>1. p \in 1 .. n /\ v.markCh[p] = w.markCh[p]
      BY <1>1
    <3>2. CASE q = n + 1
      BY <1>1, <3>1, <3>2, <1>3
    <3>3. CASE q \in 1 .. n
      <4>1. v.markCh[q] = w.markCh[q]
        BY <1>1, <3>3
      <4> QED BY <1>0, <3>1, <3>3, <4>1
    <3> QED BY <1>1, <3>2, <3>3
  <2>3. \A u \in Txn : u \in ended \cup {t} /\ InCh(v, "begin", u) => InCh(v, "done", u)
    BY <1>2 DEF WaterMarkInv, ChannelInv
  <2> QED BY <2>1, <2>2, <2>3 DEF ChannelInv
<1>8. HeapInv(v, idx, began, ended \cup {t}, top)
  <2>1. \A j \in TS : v.pending[j] = Cardinality(Holders(v, idx, began, ended \cup {t}, j))
    BY <1>1, <1>6 DEF WaterMarkInv, HeapInv
  <2>2. \A u \in Txn : Held(v, began, ended \cup {t}, u) => idx[u] \in v.indices
    BY <1>1, <1>5 DEF WaterMarkInv, HeapInv
  <2>3. /\ \A j \in v.indices : v.doneUntil <= j /\ j <= top
        /\ v.doneUntil <= top
        /\ \A p \in 1 .. Len(v.markCh) : v.markCh[p].kind = "begin" =>
             /\ v.doneUntil <= v.markCh[p].index /\ v.markCh[p].index <= top
             /\ \A j \in v.indices : j <= v.markCh[p].index
    BY <1>1 DEF WaterMarkInv, HeapInv
  <2> QED BY <2>1, <2>2, <2>3 DEF HeapInv
<1> QED BY <1>1, <1>7, <1>8 DEF WaterMarkInv, Done, v

(* A waiter in the channel plays no part in the accounting.                 *)
LEMMA WaitPreservesInv ==
  ASSUME NEW w, NEW idx \in [Txn -> TS], NEW began \in SUBSET Txn, NEW ended \in SUBSET Txn,
         NEW top \in TS, WaterMarkInv(w, idx, began, ended, top),
         NEW t \in Txn, NEW i \in TS
  PROVE  WaterMarkInv(Wait(w, i, t), idx, began, ended, top)
<1> DEFINE v == Send(w, "wait", i, t)
           n == Len(w.markCh)
<1>1. /\ w \in WaterMarkType /\ v \in WaterMarkType
      /\ v.doneUntil = w.doneUntil /\ v.indices = w.indices /\ v.pending = w.pending
      /\ Len(v.markCh) = n + 1 /\ n \in Nat
      /\ \A p \in 1 .. n : v.markCh[p] = w.markCh[p]
      /\ v.markCh[n + 1].kind = "wait" /\ v.markCh[n + 1].index = i /\ v.markCh[n + 1].who = t
  <2>1. w \in WaterMarkType
    BY DEF WaterMarkInv
  <2>2. w.markCh \in Seq(MarkType)
    BY <2>1 DEF WaterMarkType
  <2>3. n \in Nat
    BY <2>2
  <2>4. v.markCh[n + 1] = MarkOf("wait", i, t)
    BY <2>1, SendFacts
  <2> QED BY <2>1, <2>3, <2>4, SendFacts DEF MarkOf
<1>2. \A k, u : InCh(v, k, u) <=> InCh(w, k, u) \/ (k = "wait" /\ u = t)
  BY <1>1, InChSend
<1>5. \A u \in Txn : Held(v, began, ended, u) <=> Held(w, began, ended, u)
  BY <1>2 DEF Held
<1>6. \A j : Holders(v, idx, began, ended, j) = Holders(w, idx, began, ended, j)
  BY <1>5 DEF Holders
<1> HIDE DEF v
<1>7. ChannelInv(v, idx, began, ended)
  <2>1. \A p \in 1 .. Len(v.markCh) : v.markCh[p].kind # "wait" =>
          /\ v.markCh[p].index = idx[v.markCh[p].who]
          /\ v.markCh[p].who \in began
          /\ v.markCh[p].kind = "done" => v.markCh[p].who \in ended
    BY <1>1 DEF WaterMarkInv, ChannelInv
  <2>2. \A p, q \in 1 .. Len(v.markCh) : p < q /\ v.markCh[p].kind # "wait" =>
          /\ v.markCh[p].who = v.markCh[q].who => v.markCh[p].kind # v.markCh[q].kind
          /\ v.markCh[q].kind = "begin" =>
               /\ v.markCh[p].who = v.markCh[q].who => v.markCh[p].kind # "done"
               /\ v.markCh[p].kind = "begin" => v.markCh[p].index <= v.markCh[q].index
    <3> SUFFICES ASSUME NEW p \in 1 .. n + 1, NEW q \in 1 .. n + 1, p < q, v.markCh[p].kind # "wait"
                 PROVE  /\ v.markCh[p].who = v.markCh[q].who => v.markCh[p].kind # v.markCh[q].kind
                        /\ v.markCh[q].kind = "begin" =>
                             /\ v.markCh[p].who = v.markCh[q].who => v.markCh[p].kind # "done"
                             /\ v.markCh[p].kind = "begin" => v.markCh[p].index <= v.markCh[q].index
      BY <1>1
    <3>1. p \in 1 .. n /\ v.markCh[p] = w.markCh[p]
      BY <1>1
    <3>2. CASE q = n + 1
      BY <1>1, <3>1, <3>2
    <3>3. CASE q \in 1 .. n
      BY <1>1, <3>1, <3>3 DEF WaterMarkInv, ChannelInv
    <3> QED BY <1>1, <3>2, <3>3
  <2>3. \A u \in Txn : u \in ended /\ InCh(v, "begin", u) => InCh(v, "done", u)
    BY <1>2 DEF WaterMarkInv, ChannelInv
  <2> QED BY <2>1, <2>2, <2>3 DEF ChannelInv
<1>8. HeapInv(v, idx, began, ended, top)
  <2>1. \A j \in TS : v.pending[j] = Cardinality(Holders(v, idx, began, ended, j))
    BY <1>1, <1>6 DEF WaterMarkInv, HeapInv
  <2>2. \A u \in Txn : Held(v, began, ended, u) => idx[u] \in v.indices
    BY <1>1, <1>5 DEF WaterMarkInv, HeapInv
  <2>3. /\ \A j \in v.indices : v.doneUntil <= j /\ j <= top
        /\ v.doneUntil <= top
        /\ \A p \in 1 .. Len(v.markCh) : v.markCh[p].kind = "begin" =>
             /\ v.doneUntil <= v.markCh[p].index /\ v.markCh[p].index <= top
             /\ \A j \in v.indices : j <= v.markCh[p].index
    BY <1>1 DEF WaterMarkInv, HeapInv
  <2> QED BY <2>1, <2>2, <2>3 DEF HeapInv
<1> QED BY <1>1, <1>7, <1>8 DEF WaterMarkInv, Wait, v

-----------------------------------------------------------------------------
(* The holders of an index are finitely many, so pending is a natural number *)
(* and is 0 exactly when nobody holds the index.                             *)
LEMMA HoldersFinite ==
  ASSUME NEW w, NEW idx, NEW began, NEW ended, NEW i
  PROVE  LET H == Holders(w, idx, began, ended, i)
         IN  /\ IsFiniteSet(H) /\ Cardinality(H) \in Nat
             /\ Cardinality(H) = 0 <=> H = {}
<1> DEFINE H == Holders(w, idx, began, ended, i)
<1>1. H \subseteq Txn
  BY DEF Holders
<1> HIDE DEF H
<1>2. IsFiniteSet(H)
  BY <1>1, TxnAssumption, FS_Subset
<1>3. Cardinality(H) \in Nat /\ (Cardinality(H) = 0 <=> H = {})
  BY <1>2, FS_CardinalityType, FS_EmptySet
<1> QED BY <1>2, <1>3 DEF H

(* One holder more, one holder less.                                         *)
LEMMA OneMore ==
  ASSUME NEW S, NEW T, NEW x, IsFiniteSet(S), x \notin S, T = S \cup {x}
  PROVE  Cardinality(T) = Cardinality(S) + 1
BY FS_AddElement

LEMMA OneLess ==
  ASSUME NEW S, NEW T, NEW x, IsFiniteSet(S), x \in S, T = S \ {x}
  PROVE  Cardinality(T) = Cardinality(S) - 1
BY FS_RemoveElement

(* The second half of processOne: once pending and the heap account for the  *)
(* mark just received, popping the finished minima keeps the accounting.     *)
LEMMA PopPreservesInv ==
  ASSUME NEW w \in WaterMarkType, NEW idx \in [Txn -> TS], NEW began, NEW ended,
         NEW top \in TS, NEW index \in TS, NEW delta \in {1, -1},
         ChannelInv(w, idx, began, ended),
         HeapInv([w EXCEPT !.indices = w.indices \cup {index},
                           !.pending = [w.pending EXCEPT ![index] = @ + delta]],
                 idx, began, ended, top)
  PROVE  WaterMarkInv(processOne(w, index, delta), idx, began, ended, top)
<1> DEFINE indices == w.indices \cup {index}
           pending == [w.pending EXCEPT ![index] = @ + delta]
           h == [w EXCEPT !.indices = indices, !.pending = pending]
           popped == Popped(indices, pending)
           until == IF popped = {} THEN w.doneUntil ELSE Max(popped)
           notify == ToNotify(w.waiters, w.doneUntil, until)
           v == processOne(w, index, delta)
           H(i) == Holders(w, idx, began, ended, i)
<1>1. /\ w.markCh \in Seq(MarkType) /\ w.doneUntil \in TS /\ w.indices \subseteq TS
      /\ w.pending \in [TS -> Int] /\ w.waiters \subseteq MarkType /\ w.closed \subseteq Txn
  BY DEF WaterMarkType
<1>2. indices \subseteq TS /\ pending \in [TS -> Int]
  BY <1>1
<1>3. /\ h.markCh = w.markCh /\ h.doneUntil = w.doneUntil
      /\ h.indices = indices /\ h.pending = pending
  <2> HIDE DEF indices, pending
  <2> QED BY DEF WaterMarkType, h
<1>4. popped \subseteq indices
  BY DEF Popped
<1>5. notify \subseteq w.waiters
  BY DEF ToNotify
<1>6. /\ v.markCh = w.markCh /\ v.doneUntil = until /\ v.indices = indices \ popped
      /\ v.pending = [i \in TS |-> IF i \in popped THEN 0 ELSE pending[i]]
      /\ v.waiters = w.waiters \ notify
      /\ v.closed = w.closed \cup {m.who : m \in notify}
      /\ v = [w EXCEPT !.doneUntil = v.doneUntil, !.indices = v.indices, !.pending = v.pending,
                       !.waiters = v.waiters, !.closed = v.closed]
  <2> HIDE DEF indices, pending, popped, until, notify
  <2>1. v = [w EXCEPT !.doneUntil = until,
                      !.indices   = indices \ popped,
                      !.pending   = [i \in TS |-> IF i \in popped THEN 0 ELSE pending[i]],
                      !.waiters   = @ \ notify,
                      !.closed    = @ \cup {m.who : m \in notify}]
    BY DEF processOne, indices, pending, popped, until, notify
  <2> HIDE DEF v
  <2> QED BY <2>1 DEF WaterMarkType
<1> HIDE DEF h, v
<1>7. /\ \A k, u : InCh(h, k, u) <=> InCh(w, k, u)
      /\ \A k, u : InCh(v, k, u) <=> InCh(w, k, u)
  BY <1>3, <1>6 DEF InCh
<1>8. /\ \A u : Held(h, began, ended, u) <=> Held(w, began, ended, u)
      /\ \A u : Held(v, began, ended, u) <=> Held(w, began, ended, u)
  BY <1>7 DEF Held
<1>9. \A i : Holders(h, idx, began, ended, i) = H(i) /\ Holders(v, idx, began, ended, i) = H(i)
  BY <1>8 DEF Holders
<1> HIDE DEF indices, pending, notify
<1>10. /\ \A i \in TS : pending[i] = Cardinality(H(i))
       /\ \A t \in Txn : Held(w, began, ended, t) => idx[t] \in indices
       /\ \A i \in indices : w.doneUntil <= i /\ i <= top
       /\ w.doneUntil <= top
       /\ \A p \in 1 .. Len(w.markCh) : w.markCh[p].kind = "begin" =>
            /\ w.doneUntil <= w.markCh[p].index /\ w.markCh[p].index <= top
            /\ \A i \in indices : i <= w.markCh[p].index
  BY <1>3, <1>8, <1>9 DEF HeapInv, h, indices, pending
<1>11. \A i \in popped : pending[i] <= 0
  BY <1>2 DEF Popped, TS
<1> HIDE DEF H
<1>12. \A i \in popped : H(i) = {}
  <2> SUFFICES ASSUME NEW i \in popped PROVE H(i) = {}
    OBVIOUS
  <2>1. Cardinality(H(i)) \in Nat /\ (Cardinality(H(i)) = 0 => H(i) = {})
    BY HoldersFinite DEF H
  <2>2. i \in TS
    BY <1>2, <1>4
  <2> QED BY <2>1, <2>2, <1>10, <1>11
<1>13. popped # {} => until \in popped /\ \A i \in popped : i <= until
  <2> HIDE DEF popped
  <2> QED BY <1>2, <1>4, MaxOfTS DEF popped
<1>14. \A i \in indices \ popped : until <= i
  <2>1. CASE popped = {}
    BY <1>10, <2>1
  <2>2. CASE popped # {}
    <3> SUFFICES ASSUME NEW i \in indices \ popped, ~ (until <= i) PROVE FALSE
      OBVIOUS
    <3>1. until \in popped /\ until \in TS /\ i \in TS
      BY <1>2, <1>4, <1>13, <2>2
    <3>2. \A j \in indices : j <= until => pending[j] <= 0
      BY <3>1 DEF Popped
    <3>3. i < until
      <4> HIDE DEF until, popped
      <4> QED BY <3>1, MaxTsAssumption DEF TS
    <3>4. \A j \in indices : j <= i => j <= until
      <4> HIDE DEF until, popped
      <4> QED BY <3>1, <3>3, <1>2, MaxTsAssumption DEF TS
    <3>5. i \in popped
      <4> HIDE DEF until
      <4> QED BY <3>2, <3>4 DEF Popped
    <3> QED BY <3>5
  <2> QED BY <2>1, <2>2
<1>15. until \in TS /\ until <= top
       /\ \A p \in 1 .. Len(w.markCh) : w.markCh[p].kind = "begin" => until <= w.markCh[p].index
  <2>1. CASE popped = {}
    BY <1>1, <1>10, <2>1
  <2>2. CASE popped # {}
    BY <1>2, <1>4, <1>10, <1>13, <2>2
  <2> QED BY <2>1, <2>2
<1> HIDE DEF until, popped
<1>16. v \in WaterMarkType
  <2>1. v.indices \subseteq TS /\ v.waiters \subseteq MarkType
    BY <1>1, <1>2, <1>6
  <2>2. v.pending \in [TS -> Int]
    <3>1. v.pending = [i \in TS |-> IF i \in popped THEN 0 ELSE pending[i]]
      BY <1>6
    <3> QED BY <1>2, <3>1
  <2>3. v.closed \subseteq Txn
    <3>1. \A m \in notify : m.who \in Txn
      BY <1>1, <1>5 DEF MarkType
    <3>2. v.closed = w.closed \cup {m.who : m \in notify}
      BY <1>6
    <3> QED BY <1>1, <3>1, <3>2
  <2> QED BY <2>1, <2>2, <2>3, <1>6, <1>15 DEF WaterMarkType
<1>17. ChannelInv(v, idx, began, ended)
  <2>1. v.markCh = w.markCh
    BY <1>6
  <2> QED BY <2>1, <1>7 DEF ChannelInv
<1>18. HeapInv(v, idx, began, ended, top)
  <2>1. \A i \in TS : v.pending[i] = Cardinality(Holders(v, idx, began, ended, i))
    <3> SUFFICES ASSUME NEW i \in TS PROVE v.pending[i] = Cardinality(H(i))
      BY <1>9 DEF H
    <3>1. CASE i \in popped
      <4>1. v.pending[i] = 0 /\ H(i) = {}
        BY <1>6, <1>12, <3>1
      <4> QED BY <4>1, FS_EmptySet
    <3>2. CASE i \notin popped
      BY <1>6, <1>10, <3>2
    <3> QED BY <3>1, <3>2
  <2>2. \A t \in Txn : Held(v, began, ended, t) => idx[t] \in v.indices
    <3> SUFFICES ASSUME NEW t \in Txn, Held(v, began, ended, t) PROVE idx[t] \in v.indices
      OBVIOUS
    <3>1. idx[t] \in indices
      BY <1>8, <1>10
    <3>2. t \in H(idx[t])
      BY <1>8 DEF H, Holders
    <3> QED BY <3>1, <3>2, <1>6, <1>12
  <2>3. \A i \in v.indices : v.doneUntil <= i /\ i <= top
    BY <1>6, <1>10, <1>14
  <2>4. \A p \in 1 .. Len(v.markCh) : v.markCh[p].kind = "begin" =>
             /\ v.doneUntil <= v.markCh[p].index /\ v.markCh[p].index <= top
             /\ \A i \in v.indices : i <= v.markCh[p].index
    BY <1>6, <1>10, <1>15
  <2> QED BY <2>1, <2>2, <2>3, <2>4, <1>6, <1>15 DEF HeapInv
<1> QED BY <1>16, <1>17, <1>18 DEF WaterMarkInv, v

-----------------------------------------------------------------------------
(* What process finds when it has received the head of the channel.         *)
LEMMA TailFacts ==
  ASSUME NEW w \in WaterMarkType, w.markCh # <<>>
  PROVE  LET r == [w EXCEPT !.markCh = Tail(@)]
         IN  /\ r \in WaterMarkType
             /\ r.doneUntil = w.doneUntil /\ r.indices = w.indices
             /\ r.pending = w.pending /\ r.waiters = w.waiters /\ r.closed = w.closed
             /\ Len(w.markCh) \in Nat \ {0} /\ Len(r.markCh) = Len(w.markCh) - 1
             /\ \A p \in 1 .. Len(r.markCh) : r.markCh[p] = w.markCh[p + 1]
             /\ Head(w.markCh) = w.markCh[1] /\ w.markCh[1] \in MarkType
<1> DEFINE r == [w EXCEPT !.markCh = Tail(@)]
<1>1. w.markCh \in Seq(MarkType)
  BY DEF WaterMarkType
<1>2. /\ Tail(w.markCh) \in Seq(MarkType)
      /\ Len(w.markCh) \in Nat \ {0} /\ Len(Tail(w.markCh)) = Len(w.markCh) - 1
      /\ \A p \in 1 .. Len(Tail(w.markCh)) : Tail(w.markCh)[p] = w.markCh[p + 1]
      /\ Head(w.markCh) = w.markCh[1] /\ w.markCh[1] \in MarkType
  BY <1>1
<1>3. r.markCh = Tail(w.markCh)
  BY DEF WaterMarkType
<1>4. /\ r.doneUntil = w.doneUntil /\ r.indices = w.indices
      /\ r.pending = w.pending /\ r.waiters = w.waiters /\ r.closed = w.closed
  BY DEF WaterMarkType
<1>5. r \in WaterMarkType
  BY <1>2 DEF WaterMarkType
<1> HIDE DEF r
<1>6. /\ Len(r.markCh) = Len(w.markCh) - 1
      /\ \A p \in 1 .. Len(r.markCh) : r.markCh[p] = w.markCh[p + 1]
  BY <1>2, <1>3
<1> QED BY <1>2, <1>4, <1>5, <1>6 DEF r

(* Receiving the head: for a waiter nothing is owed; the sender of a Begin   *)
(* becomes a holder and the sender of a Done stops being one.                *)
LEMMA ReceiveHead ==
  ASSUME NEW w, NEW idx \in [Txn -> TS], NEW began \in SUBSET Txn, NEW ended \in SUBSET Txn,
         NEW top \in TS, WaterMarkInv(w, idx, began, ended, top), w.markCh # <<>>
  PROVE  LET r == [w EXCEPT !.markCh = Tail(@)]
             m == w.markCh[1]
         IN  /\ ChannelInv(r, idx, began, ended)
             /\ \A u \in Txn : m.kind = "wait" \/ u # m.who =>
                   (Held(r, began, ended, u) <=> Held(w, began, ended, u))
             /\ m.kind = "begin" => ~ Held(w, began, ended, m.who) /\ Held(r, began, ended, m.who)
             /\ m.kind = "done"  => Held(w, began, ended, m.who) /\ ~ Held(r, began, ended, m.who)
             /\ m.kind # "wait" => idx[m.who] = m.index
<1> DEFINE r == [w EXCEPT !.markCh = Tail(@)]
           m == w.markCh[1]
           n == Len(w.markCh)
<1>1. /\ w \in WaterMarkType /\ n \in Nat \ {0} /\ Len(r.markCh) = n - 1
      /\ \A p \in 1 .. n - 1 : r.markCh[p] = w.markCh[p + 1]
      /\ m \in MarkType /\ m.kind \in {"begin", "done", "wait"} /\ m.who \in Txn
  <2>1. w \in WaterMarkType
    BY DEF WaterMarkInv
  <2>2. m \in MarkType
    BY <2>1, TailFacts
  <2> QED BY <2>1, <2>2, TailFacts DEF MarkType
<1>2. /\ \A p \in 1 .. n : w.markCh[p].kind # "wait" =>
           /\ w.markCh[p].index = idx[w.markCh[p].who]
           /\ w.markCh[p].who \in began
           /\ w.markCh[p].kind = "done" => w.markCh[p].who \in ended
      /\ \A p, q \in 1 .. n : p < q /\ w.markCh[p].kind # "wait" =>
           /\ w.markCh[p].who = w.markCh[q].who => w.markCh[p].kind # w.markCh[q].kind
           /\ w.markCh[q].kind = "begin" =>
                /\ w.markCh[p].who = w.markCh[q].who => w.markCh[p].kind # "done"
                /\ w.markCh[p].kind = "begin" => w.markCh[p].index <= w.markCh[q].index
      /\ \A t \in Txn : t \in ended /\ InCh(w, "begin", t) => InCh(w, "done", t)
  BY DEF WaterMarkInv, ChannelInv
<1> HIDE DEF r
<1>3. \A k, u : InCh(w, k, u) <=> InCh(r, k, u) \/ (k = m.kind /\ u = m.who)
  <2> SUFFICES ASSUME NEW k, NEW u
               PROVE  InCh(w, k, u) <=> InCh(r, k, u) \/ (k = m.kind /\ u = m.who)
    OBVIOUS
  <2>1. ASSUME InCh(w, k, u) PROVE InCh(r, k, u) \/ (k = m.kind /\ u = m.who)
    <3>1. PICK p \in 1 .. n : w.markCh[p].kind = k /\ w.markCh[p].who = u
      BY <2>1 DEF InCh
    <3>2. CASE p = 1
      BY <3>1, <3>2
    <3>3. CASE p # 1
      <4>1. p - 1 \in 1 .. n - 1 /\ (p - 1) + 1 = p
        BY <1>1, <3>3
      <4>2. r.markCh[p - 1] = w.markCh[p]
        BY <1>1, <4>1
      <4> QED BY <1>1, <3>1, <4>1, <4>2 DEF InCh
    <3> QED BY <3>2, <3>3
  <2>2. ASSUME InCh(r, k, u) PROVE InCh(w, k, u)
    <3>1. PICK p \in 1 .. n - 1 : r.markCh[p].kind = k /\ r.markCh[p].who = u
      BY <1>1, <2>2 DEF InCh
    <3>2. p + 1 \in 1 .. n /\ w.markCh[p + 1] = r.markCh[p]
      BY <1>1
    <3> QED BY <3>1, <3>2 DEF InCh
  <2>3. InCh(w, m.kind, m.who)
    <3>1. 1 \in 1 .. n
      BY <1>1
    <3> QED BY <3>1 DEF InCh
  <2> QED BY <2>1, <2>2, <2>3
(* A mark of the same caller behind the head is its Done, if anything.      *)
<1>4. m.kind # "wait" => ~ InCh(r, m.kind, m.who) /\ (m.kind = "done" => ~ InCh(r, "begin", m.who))
  <2> SUFFICES ASSUME m.kind # "wait", NEW p \in 1 .. n - 1, r.markCh[p].who = m.who,
                      r.markCh[p].kind = m.kind \/ (m.kind = "done" /\ r.markCh[p].kind = "begin")
               PROVE  FALSE
    BY <1>1 DEF InCh
  <2>1. 1 \in 1 .. n /\ p + 1 \in 1 .. n /\ 1 < p + 1 /\ r.markCh[p] = w.markCh[p + 1]
    BY <1>1
  <2> QED BY <1>2, <2>1
<1>5. m.kind # "wait" => /\ m.index = idx[m.who] /\ m.who \in began
                         /\ m.kind = "done" => m.who \in ended
  <2>1. 1 \in 1 .. n
    BY <1>1
  <2> QED BY <1>2, <2>1
<1>6. ChannelInv(r, idx, began, ended)
  <2>1. \A p \in 1 .. Len(r.markCh) : r.markCh[p].kind # "wait" =>
          /\ r.markCh[p].index = idx[r.markCh[p].who]
          /\ r.markCh[p].who \in began
          /\ r.markCh[p].kind = "done" => r.markCh[p].who \in ended
    <3> SUFFICES ASSUME NEW p \in 1 .. n - 1, r.markCh[p].kind # "wait"
                 PROVE  /\ r.markCh[p].index = idx[r.markCh[p].who]
                        /\ r.markCh[p].who \in began
                        /\ r.markCh[p].kind = "done" => r.markCh[p].who \in ended
      BY <1>1
    <3>1. p + 1 \in 1 .. n /\ r.markCh[p] = w.markCh[p + 1]
      BY <1>1
    <3> QED BY <1>2, <3>1
  <2>2. \A p, q \in 1 .. Len(r.markCh) : p < q /\ r.markCh[p].kind # "wait" =>
          /\ r.markCh[p].who = r.markCh[q].who => r.markCh[p].kind # r.markCh[q].kind
          /\ r.markCh[q].kind = "begin" =>
               /\ r.markCh[p].who = r.markCh[q].who => r.markCh[p].kind # "done"
               /\ r.markCh[p].kind = "begin" => r.markCh[p].index <= r.markCh[q].index
    <3> SUFFICES ASSUME NEW p \in 1 .. n - 1, NEW q \in 1 .. n - 1, p < q, r.markCh[p].kind # "wait"
                 PROVE  /\ r.markCh[p].who = r.markCh[q].who => r.markCh[p].kind # r.markCh[q].kind
                        /\ r.markCh[q].kind = "begin" =>
                             /\ r.markCh[p].who = r.markCh[q].who => r.markCh[p].kind # "done"
                             /\ r.markCh[p].kind = "begin" => r.markCh[p].index <= r.markCh[q].index
      BY <1>1
    <3>1. p + 1 \in 1 .. n /\ q + 1 \in 1 .. n /\ p + 1 < q + 1
      BY <1>1
    <3>2. r.markCh[p] = w.markCh[p + 1] /\ r.markCh[q] = w.markCh[q + 1]
      BY <1>1
    <3> QED BY <1>2, <3>1, <3>2
  <2>3. \A u \in Txn : u \in ended /\ InCh(r, "begin", u) => InCh(r, "done", u)
    BY <1>2, <1>3, <1>4
  <2> QED BY <2>1, <2>2, <2>3 DEF ChannelInv
<1>7. \A u \in Txn : m.kind = "wait" \/ u # m.who =>
        (Held(r, began, ended, u) <=> Held(w, began, ended, u))
  BY <1>3 DEF Held
<1>8. m.kind = "begin" => ~ Held(w, began, ended, m.who) /\ Held(r, began, ended, m.who)
  <2> SUFFICES ASSUME m.kind = "begin"
               PROVE  ~ Held(w, began, ended, m.who) /\ Held(r, began, ended, m.who)
    OBVIOUS
  <2>1. InCh(w, "begin", m.who) /\ ~ InCh(r, "begin", m.who) /\ m.who \in began
    BY <1>3, <1>4, <1>5
  <2>2. m.who \in ended => InCh(r, "done", m.who)
    BY <1>1, <1>2, <1>3, <2>1
  <2> QED BY <2>1, <2>2 DEF Held
<1>9. m.kind = "done" => Held(w, began, ended, m.who) /\ ~ Held(r, began, ended, m.who)
  <2> SUFFICES ASSUME m.kind = "done"
               PROVE  Held(w, began, ended, m.who) /\ ~ Held(r, began, ended, m.who)
    OBVIOUS
  <2>1. /\ InCh(w, "done", m.who) /\ ~ InCh(r, "done", m.who) /\ ~ InCh(r, "begin", m.who)
        /\ m.who \in began /\ m.who \in ended
    BY <1>3, <1>4, <1>5
  <2>2. ~ InCh(w, "begin", m.who)
    BY <1>3, <2>1
  <2> QED BY <2>1, <2>2 DEF Held
<1> HIDE DEF m
<1> QED BY <1>5, <1>6, <1>7, <1>8, <1>9 DEF r, m

(* A begin or done mark: pending and the heap follow the change of holders.  *)
LEMMA ProcessOnePreservesInv ==
  ASSUME NEW w, NEW idx \in [Txn -> TS], NEW began \in SUBSET Txn, NEW ended \in SUBSET Txn,
         NEW top \in TS, WaterMarkInv(w, idx, began, ended, top), w.markCh # <<>>,
         w.markCh[1].kind # "wait",
         NEW delta \in {1, -1}, delta = 1 <=> w.markCh[1].kind = "begin"
  PROVE  WaterMarkInv(processOne([w EXCEPT !.markCh = Tail(@)], w.markCh[1].index, delta),
                      idx, began, ended, top)
<1> DEFINE r == [w EXCEPT !.markCh = Tail(@)]
           m == w.markCh[1]
           n == Len(w.markCh)
           index == m.index
           indices == r.indices \cup {index}
           pending == [r.pending EXCEPT ![index] = @ + delta]
           h == [r EXCEPT !.indices = indices, !.pending = pending]
           HW(i) == Holders(w, idx, began, ended, i)
           HR(i) == Holders(r, idx, began, ended, i)
<1>1. /\ w \in WaterMarkType /\ r \in WaterMarkType
      /\ r.doneUntil = w.doneUntil /\ r.indices = w.indices /\ r.pending = w.pending
      /\ n \in Nat \ {0} /\ Len(r.markCh) = n - 1
      /\ \A p \in 1 .. n - 1 : r.markCh[p] = w.markCh[p + 1]
      /\ m \in MarkType /\ index \in TS /\ m.who \in Txn /\ m.kind \in {"begin", "done"}
  <2>1. w \in WaterMarkType
    BY DEF WaterMarkInv
  <2>2. m \in MarkType
    BY <2>1, TailFacts
  <2> QED BY <2>1, <2>2, TailFacts DEF MarkType
<1>2. /\ ChannelInv(r, idx, began, ended)
      /\ \A u \in Txn : u # m.who => (Held(r, began, ended, u) <=> Held(w, began, ended, u))
      /\ m.kind = "begin" => ~ Held(w, began, ended, m.who) /\ Held(r, began, ended, m.who)
      /\ m.kind = "done"  => Held(w, began, ended, m.who) /\ ~ Held(r, began, ended, m.who)
      /\ idx[m.who] = index
  BY ReceiveHead
<1>3. /\ \A i \in TS : w.pending[i] = Cardinality(HW(i))
      /\ \A t \in Txn : Held(w, began, ended, t) => idx[t] \in w.indices
      /\ \A i \in w.indices : w.doneUntil <= i /\ i <= top
      /\ w.doneUntil <= top
      /\ \A p \in 1 .. n : w.markCh[p].kind = "begin" =>
           /\ w.doneUntil <= w.markCh[p].index /\ w.markCh[p].index <= top
           /\ \A i \in w.indices : i <= w.markCh[p].index
  BY DEF WaterMarkInv, HeapInv
<1>4. /\ w.pending \in [TS -> Int] /\ w.indices \subseteq TS /\ w.doneUntil \in TS
  BY <1>1 DEF WaterMarkType
<1> HIDE DEF r, m
<1>5. pending \in [TS -> Int] /\ indices \subseteq TS
  BY <1>1, <1>4
<1>6. /\ h.markCh = r.markCh /\ h.doneUntil = r.doneUntil
      /\ h.indices = indices /\ h.pending = pending
  <2> HIDE DEF indices, pending
  <2> QED BY <1>1 DEF WaterMarkType, h
<1> HIDE DEF h
<1>7. \A u : Held(h, began, ended, u) <=> Held(r, began, ended, u)
  BY <1>6 DEF Held, InCh
<1>8. \A i : Holders(h, idx, began, ended, i) = HR(i)
  BY <1>7 DEF Holders
<1>9. \A i \in TS : pending[i] = Cardinality(HR(i))
  <2> SUFFICES ASSUME NEW i \in TS PROVE pending[i] = Cardinality(HR(i))
    OBVIOUS
  <2>1. CASE i # index
    <3>1. HR(i) = HW(i)
      BY <1>2, <2>1 DEF Holders
    <3> QED BY <1>1, <1>3, <1>4, <2>1, <3>1
  <2>2. CASE i = index /\ m.kind = "begin"
    <3>1. HR(i) = HW(i) \cup {m.who} /\ m.who \notin HW(i)
      BY <1>1, <1>2, <2>2 DEF Holders
    <3>2. IsFiniteSet(HW(i)) /\ Cardinality(HW(i)) \in Nat
      BY HoldersFinite
    <3> HIDE DEF HR, HW
    <3>3. Cardinality(HR(i)) = Cardinality(HW(i)) + 1
      BY <3>1, <3>2, OneMore, Zenon
    <3>4. delta = 1
      BY <2>2 DEF m
    <3> QED BY <1>1, <1>3, <1>4, <2>2, <3>3, <3>4
  <2>3. CASE i = index /\ m.kind = "done"
    <3>1. HR(i) = HW(i) \ {m.who} /\ m.who \in HW(i)
      BY <1>1, <1>2, <2>3 DEF Holders
    <3>2. IsFiniteSet(HW(i)) /\ Cardinality(HW(i)) \in Nat
      BY HoldersFinite
    <3> HIDE DEF HR, HW
    <3>3. Cardinality(HR(i)) = Cardinality(HW(i)) - 1
      BY <3>1, <3>2, OneLess, Zenon
    <3>4. delta = -1
      BY <2>3 DEF m
    <3> QED BY <1>1, <1>3, <1>4, <2>3, <3>2, <3>3, <3>4
  <2> QED BY <1>1, <2>1, <2>2, <2>3
<1>10. \A t \in Txn : Held(r, began, ended, t) => idx[t] \in indices
  BY <1>1, <1>2, <1>3
(* The mark's index is where the heap may hold it.                          *)
<1>11. w.doneUntil <= index /\ index <= top
       /\ \A p \in 1 .. n - 1 : r.markCh[p].kind = "begin" => index <= r.markCh[p].index
  <2>1. CASE m.kind = "begin"
    <3>1. 1 \in 1 .. n
      BY <1>1
    <3>2. \A p \in 1 .. n - 1 : 1 < p + 1 /\ p + 1 \in 1 .. n /\ r.markCh[p] = w.markCh[p + 1]
      BY <1>1
    <3>3. \A q \in 1 .. n : 1 < q /\ w.markCh[q].kind = "begin" => index <= w.markCh[q].index
      BY <2>1, <3>1 DEF WaterMarkInv, ChannelInv, m
    <3>4. w.doneUntil <= index /\ index <= top
      BY <1>3, <2>1, <3>1 DEF m
    <3> QED BY <3>2, <3>3, <3>4
  <2>2. CASE m.kind = "done"
    <3>1. index \in w.indices
      BY <1>1, <1>2, <1>3, <2>2
    <3>2. \A p \in 1 .. n - 1 : p + 1 \in 1 .. n /\ r.markCh[p] = w.markCh[p + 1]
      BY <1>1
    <3> QED BY <1>3, <3>1, <3>2
  <2> QED BY <1>1, <2>1, <2>2
<1>12. \A p \in 1 .. n - 1 : r.markCh[p].kind = "begin" =>
            /\ r.doneUntil <= r.markCh[p].index /\ r.markCh[p].index <= top
            /\ \A i \in indices : i <= r.markCh[p].index
  <2>1. \A p \in 1 .. n - 1 : p + 1 \in 1 .. n /\ r.markCh[p] = w.markCh[p + 1]
    BY <1>1
  <2> QED BY <1>1, <1>3, <1>11, <2>1
<1> HIDE DEF indices, pending, index
<1>13. HeapInv(h, idx, began, ended, top)
  <2>1. \A i \in TS : h.pending[i] = Cardinality(Holders(h, idx, began, ended, i))
    BY <1>6, <1>8, <1>9
  <2>2. \A t \in Txn : Held(h, began, ended, t) => idx[t] \in h.indices
    BY <1>6, <1>7, <1>10
  <2>3. \A i \in h.indices : h.doneUntil <= i /\ i <= top
    BY <1>1, <1>3, <1>6, <1>11 DEF indices
  <2> QED BY <2>1, <2>2, <2>3, <1>1, <1>3, <1>6, <1>12 DEF HeapInv
<1>14. WaterMarkInv(processOne(r, index, delta), idx, began, ended, top)
  BY <1>1, <1>2, <1>13, PopPreservesInv DEF h, indices, pending
<1> QED BY <1>14 DEF r, m, index

(* One iteration of the watermark goroutine keeps the accounting, whatever   *)
(* mark it receives.                                                         *)
LEMMA ProcessPreservesInv ==
  ASSUME NEW w, NEW idx \in [Txn -> TS], NEW began \in SUBSET Txn, NEW ended \in SUBSET Txn,
         NEW top \in TS, WaterMarkInv(w, idx, began, ended, top), w.markCh # <<>>
  PROVE  WaterMarkInv(process(w), idx, began, ended, top)
<1> DEFINE r == [w EXCEPT !.markCh = Tail(@)]
           m == w.markCh[1]
           v == processWait(r, m)
<1>1. /\ w \in WaterMarkType /\ r \in WaterMarkType /\ Head(w.markCh) = m
      /\ r.doneUntil = w.doneUntil /\ r.indices = w.indices /\ r.pending = w.pending
      /\ Len(w.markCh) \in Nat \ {0} /\ Len(r.markCh) = Len(w.markCh) - 1
      /\ \A p \in 1 .. Len(r.markCh) : r.markCh[p] = w.markCh[p + 1]
      /\ m \in MarkType /\ m.who \in Txn /\ m.kind \in {"begin", "done", "wait"}
  <2>1. w \in WaterMarkType
    BY DEF WaterMarkInv
  <2>2. m \in MarkType
    BY <2>1, TailFacts
  <2> QED BY <2>1, <2>2, TailFacts DEF MarkType
<1>2. CASE m.kind = "wait"
  <2>1. process(w) = v
    BY <1>1, <1>2 DEF process
  <2>2. /\ ChannelInv(r, idx, began, ended)
        /\ \A u \in Txn : Held(r, began, ended, u) <=> Held(w, began, ended, u)
    BY <1>2, ReceiveHead
  <2> HIDE DEF r, m
  <2>3. /\ v.markCh = r.markCh /\ v.doneUntil = r.doneUntil
        /\ v.indices = r.indices /\ v.pending = r.pending
    BY <1>1 DEF processWait, WaterMarkType
  <2>4. v \in WaterMarkType
    BY <1>1 DEF processWait, WaterMarkType
  <2> HIDE DEF v
  <2>5. \A k, u : InCh(v, k, u) <=> InCh(r, k, u)
    BY <2>3 DEF InCh
  <2>6. \A u \in Txn : Held(v, began, ended, u) <=> Held(w, began, ended, u)
    BY <2>2, <2>5 DEF Held
  <2>7. \A i : Holders(v, idx, began, ended, i) = Holders(w, idx, began, ended, i)
    BY <2>6 DEF Holders
  <2>8. ChannelInv(v, idx, began, ended)
    BY <2>2, <2>3, <2>5 DEF ChannelInv
  <2>9. HeapInv(v, idx, began, ended, top)
    <3>1. \A i \in TS : v.pending[i] = Cardinality(Holders(v, idx, began, ended, i))
      BY <1>1, <2>3, <2>7 DEF WaterMarkInv, HeapInv
    <3>2. \A t \in Txn : Held(v, began, ended, t) => idx[t] \in v.indices
      BY <1>1, <2>3, <2>6 DEF WaterMarkInv, HeapInv
    <3>3. /\ \A i \in v.indices : v.doneUntil <= i /\ i <= top
          /\ v.doneUntil <= top
      BY <1>1, <2>3 DEF WaterMarkInv, HeapInv
    <3>4. \A p \in 1 .. Len(v.markCh) : v.markCh[p].kind = "begin" =>
               /\ v.doneUntil <= v.markCh[p].index /\ v.markCh[p].index <= top
               /\ \A i \in v.indices : i <= v.markCh[p].index
      <4>1. \A p \in 1 .. Len(v.markCh) :
              p + 1 \in 1 .. Len(w.markCh) /\ v.markCh[p] = w.markCh[p + 1]
        BY <1>1, <2>3
      <4> QED BY <1>1, <2>3, <4>1 DEF WaterMarkInv, HeapInv
    <3> QED BY <3>1, <3>2, <3>3, <3>4 DEF HeapInv
  <2> QED BY <2>1, <2>4, <2>8, <2>9 DEF WaterMarkInv
<1>3. CASE m.kind = "done"
  <2>1. process(w) = processOne(r, m.index, -1)
    BY <1>1, <1>3 DEF process
  <2>2. -1 \in {1, -1} /\ m.kind # "wait" /\ (-1 = 1 <=> m.kind = "begin")
    BY <1>3
  <2>3. WaterMarkInv(processOne(r, m.index, -1), idx, began, ended, top)
    BY ONLY <2>2, w.markCh # <<>>, idx \in [Txn -> TS], began \in SUBSET Txn, ended \in SUBSET Txn,
            top \in TS, WaterMarkInv(w, idx, began, ended, top), ProcessOnePreservesInv
  <2> QED BY <2>1, <2>3
<1>4. CASE m.kind = "begin"
  <2>1. process(w) = processOne(r, m.index, 1)
    BY <1>1, <1>4 DEF process
  <2> QED BY <1>4, <2>1, ProcessOnePreservesInv
<1> QED BY <1>1, <1>2, <1>3, <1>4

-----------------------------------------------------------------------------
(* What the accounting is for: doneUntil never passes the index of a caller  *)
(* that has called Begin and not Done, however far process lags behind.      *)
LEMMA DoneUntilIsSafe ==
  ASSUME NEW w, NEW idx \in [Txn -> TS], NEW began \in SUBSET Txn, NEW ended \in SUBSET Txn,
         NEW top \in TS, WaterMarkInv(w, idx, began, ended, top),
         NEW t \in Txn, t \in began, t \notin ended
  PROVE  w.doneUntil <= idx[t]
<1>1. CASE Held(w, began, ended, t)
  BY <1>1 DEF WaterMarkInv, HeapInv
<1>2. CASE ~ Held(w, began, ended, t)
  <2>1. PICK p \in 1 .. Len(w.markCh) : w.markCh[p].kind = "begin" /\ w.markCh[p].who = t
    BY <1>2 DEF Held, InCh
  <2>2. w.markCh[p].index = idx[t]
    BY <2>1 DEF WaterMarkInv, ChannelInv
  <2> QED BY <2>1, <2>2 DEF WaterMarkInv, HeapInv
<1> QED BY <1>1, <1>2

(* The assertion at the top of processOne never fails.                       *)
LEMMA HeadFresh ==
  ASSUME NEW w, NEW idx \in [Txn -> TS], NEW began \in SUBSET Txn, NEW ended \in SUBSET Txn,
         NEW top \in TS, WaterMarkInv(w, idx, began, ended, top)
  PROVE  HeadIsFresh(w)
<1> SUFFICES ASSUME w.markCh # <<>>, Head(w.markCh).kind # "wait"
             PROVE  w.doneUntil <= Head(w.markCh).index
  BY DEF HeadIsFresh
<1> DEFINE m == w.markCh[1]
<1>1. /\ Head(w.markCh) = m /\ m.who \in Txn /\ m.kind \in {"begin", "done"}
      /\ 1 \in 1 .. Len(w.markCh)
  <2>1. w \in WaterMarkType
    BY DEF WaterMarkInv
  <2>2. m \in MarkType /\ Head(w.markCh) = m /\ Len(w.markCh) \in Nat \ {0}
    BY <2>1, TailFacts
  <2> QED BY <2>2 DEF MarkType
<1>2. CASE m.kind = "begin"
  BY <1>1, <1>2 DEF WaterMarkInv, HeapInv
<1>3. CASE m.kind = "done"
  <2>1. Held(w, began, ended, m.who) /\ idx[m.who] = m.index
    BY <1>1, <1>3, ReceiveHead
  <2> QED BY <1>1, <2>1 DEF WaterMarkInv, HeapInv
<1> QED BY <1>1, <1>2, <1>3

(* doneUntil never goes back.                                                *)
LEMMA DoneUntilGrows ==
  ASSUME NEW w, NEW idx \in [Txn -> TS], NEW began \in SUBSET Txn, NEW ended \in SUBSET Txn,
         NEW top \in TS, WaterMarkInv(w, idx, began, ended, top), w.markCh # <<>>
  PROVE  w.doneUntil <= process(w).doneUntil
<1> DEFINE r == [w EXCEPT !.markCh = Tail(@)]
           m == w.markCh[1]
<1>1. /\ w \in WaterMarkType /\ r \in WaterMarkType /\ Head(w.markCh) = m
      /\ r.doneUntil = w.doneUntil /\ r.indices = w.indices /\ r.pending = w.pending
      /\ m \in MarkType /\ m.index \in TS
  <2>1. w \in WaterMarkType
    BY DEF WaterMarkInv
  <2>2. m \in MarkType
    BY <2>1, TailFacts
  <2> QED BY <2>1, <2>2, TailFacts DEF MarkType
<1>2. w.doneUntil \in TS /\ w.indices \subseteq TS
  BY <1>1 DEF WaterMarkType
<1>3. m.kind # "wait" => w.doneUntil <= m.index
  BY <1>1, HeadFresh DEF HeadIsFresh
<1>4. \A i \in w.indices : w.doneUntil <= i
  BY DEF WaterMarkInv, HeapInv
<1> HIDE DEF r, m
<1>5. CASE m.kind = "wait"
  <2>1. process(w) = processWait(r, m)
    BY <1>1, <1>5 DEF process, r
  <2>2. processWait(r, m).doneUntil = r.doneUntil
    BY <1>1 DEF processWait, WaterMarkType
  <2> QED BY <1>1, <1>2, <2>1, <2>2, MaxTsAssumption DEF TS
<1>6. ASSUME NEW delta \in {1, -1}, m.kind # "wait", process(w) = processOne(r, m.index, delta)
      PROVE  w.doneUntil <= process(w).doneUntil
  <2> DEFINE popped == Popped(r.indices \cup {m.index}, [r.pending EXCEPT ![m.index] = @ + delta])
  <2>1. popped \subseteq w.indices \cup {m.index} /\ popped \subseteq TS
    BY <1>1, <1>2 DEF Popped
  <2>2. process(w).doneUntil = IF popped = {} THEN r.doneUntil ELSE Max(popped)
    <3> HIDE DEF popped
    <3> QED BY <1>1, <1>6 DEF processOne, WaterMarkType, popped
  <2> HIDE DEF popped
  <2>3. CASE popped = {}
    BY <1>1, <1>2, <2>2, <2>3, MaxTsAssumption DEF TS
  <2>4. CASE popped # {}
    BY <1>3, <1>4, <1>6, <2>1, <2>2, <2>4, MaxOfTS
  <2> QED BY <2>3, <2>4
<1>7. CASE m.kind = "done"
  BY <1>1, <1>6, <1>7 DEF process, r
<1>8. CASE m.kind # "wait" /\ m.kind # "done"
  BY <1>1, <1>6, <1>8 DEF process, r
<1> QED BY <1>5, <1>7, <1>8

-----------------------------------------------------------------------------
(* Timestamps are ordered integers.                                          *)
LEMMA TSOrder ==
  /\ TS \subseteq Int
  /\ \A x, y \in TS : (x <= y \/ y < x) /\ (x < y => x <= y /\ x # y)
  /\ \A x, y, z \in TS : (x <= y /\ y <= z => x <= z) /\ (x <= y /\ y < z => x < z)
BY MaxTsAssumption DEF TS

(* What an iteration of process does to the channel, the heap and the        *)
(* waiters: doneUntil stays, or moves to a popped index that is below all    *)
(* that stay in the heap; only waiters it has reached are notified.          *)
LEMMA ProcessMoves ==
  ASSUME NEW w, NEW idx \in [Txn -> TS], NEW began \in SUBSET Txn, NEW ended \in SUBSET Txn,
         NEW top \in TS, WaterMarkInv(w, idx, began, ended, top), w.markCh # <<>>
  PROVE  LET v == process(w)
             m == w.markCh[1]
             n == Len(w.markCh)
         IN  /\ n \in Nat \ {0} /\ Len(v.markCh) = n - 1
             /\ \A p \in 1 .. n - 1 : v.markCh[p] = w.markCh[p + 1]
             /\ m.kind = "wait" => v.doneUntil = w.doneUntil /\ v.indices = w.indices
             /\ v.indices \subseteq w.indices \cup {m.index}
             /\ \/ v.doneUntil = w.doneUntil
                \/ /\ v.doneUntil \in w.indices \cup {m.index}
                   /\ \A i \in v.indices : v.doneUntil < i
             /\ \A x \in v.waiters : x \in w.waiters \/ (m.kind = "wait" /\ x = m)
             /\ \A t \in v.closed : t \in w.closed \/
                  \E x : /\ x \in w.waiters \/ (m.kind = "wait" /\ x = m)
                         /\ x.who = t /\ x.index <= v.doneUntil
<1> DEFINE r == [w EXCEPT !.markCh = Tail(@)]
           m == w.markCh[1]
           n == Len(w.markCh)
<1>1. /\ w \in WaterMarkType /\ r \in WaterMarkType /\ Head(w.markCh) = m
      /\ r.doneUntil = w.doneUntil /\ r.indices = w.indices /\ r.pending = w.pending
      /\ r.waiters = w.waiters /\ r.closed = w.closed
      /\ n \in Nat \ {0} /\ Len(r.markCh) = n - 1
      /\ \A p \in 1 .. n - 1 : r.markCh[p] = w.markCh[p + 1]
      /\ m \in MarkType /\ m.index \in TS /\ m.kind \in {"begin", "done", "wait"}
  <2>1. w \in WaterMarkType
    BY DEF WaterMarkInv
  <2>2. m \in MarkType
    BY <2>1, TailFacts
  <2> QED BY <2>1, <2>2, TailFacts DEF MarkType
<1>2. /\ w.doneUntil \in TS /\ w.indices \subseteq TS /\ w.waiters \subseteq MarkType
  BY <1>1 DEF WaterMarkType
<1> HIDE DEF r, m, n
<1>3. CASE m.kind = "wait"
  <2>1. process(w) = processWait(r, m)
    BY <1>1, <1>3 DEF process, r
  <2>2. CASE r.doneUntil >= m.index
    <3>1. process(w) = [r EXCEPT !.closed = @ \cup {m.who}]
      BY <2>1, <2>2 DEF processWait
    <3>2. /\ process(w).markCh = r.markCh /\ process(w).doneUntil = r.doneUntil
          /\ process(w).indices = r.indices /\ process(w).waiters = r.waiters
          /\ process(w).closed = r.closed \cup {m.who}
      BY <1>1, <3>1 DEF WaterMarkType
    <3>3. m.index <= w.doneUntil
      BY <1>1, <1>2, <2>2
    <3> QED BY <1>1, <1>3, <3>2, <3>3 DEF m, n
  <2>3. CASE ~ (r.doneUntil >= m.index)
    <3>1. process(w) = [r EXCEPT !.waiters = @ \cup {m}]
      BY <2>1, <2>3 DEF processWait
    <3>2. /\ process(w).markCh = r.markCh /\ process(w).doneUntil = r.doneUntil
          /\ process(w).indices = r.indices /\ process(w).waiters = r.waiters \cup {m}
          /\ process(w).closed = r.closed
      BY <1>1, <3>1 DEF WaterMarkType
    <3> QED BY <1>1, <1>3, <3>2 DEF m, n
  <2> QED BY <2>2, <2>3
<1>4. CASE m.kind # "wait"
  <2>1. PICK delta \in {1, -1} : process(w) = processOne(r, m.index, delta)
    BY <1>1, <1>4 DEF process, r
  <2> DEFINE indices == r.indices \cup {m.index}
             pending == [r.pending EXCEPT ![m.index] = @ + delta]
             popped  == Popped(indices, pending)
             until   == IF popped = {} THEN r.doneUntil ELSE Max(popped)
             notify  == ToNotify(r.waiters, r.doneUntil, until)
  <2>2. /\ popped \subseteq indices /\ indices \subseteq TS
        /\ \A i \in indices \ popped, j \in popped : j < i
    <3>1. popped \subseteq indices /\ indices \subseteq TS
      BY <1>1, <1>2 DEF Popped
    <3>2. ASSUME NEW i \in indices \ popped, NEW j \in popped, ~ (j < i) PROVE FALSE
      <4>1. i \in TS /\ j \in TS /\ i <= j
        BY <3>1, <3>2, TSOrder
      <4>2. \A l \in indices : l <= i => l <= j
        BY <3>1, <4>1, TSOrder
      <4> HIDE DEF indices, pending
      <4>3. i \in Popped(indices, pending)
        BY <3>2, <4>1, <4>2 DEF Popped
      <4> QED BY <3>2, <4>3
    <3> QED BY <3>1, <3>2
  <2>3. /\ process(w).markCh = r.markCh /\ process(w).doneUntil = until
        /\ process(w).indices = indices \ popped
        /\ process(w).waiters = r.waiters \ notify
        /\ process(w).closed = r.closed \cup {x.who : x \in notify}
    <3> HIDE DEF popped, notify, until, indices, pending
    <3> QED BY <1>1, <2>1 DEF processOne, WaterMarkType, popped, notify, until, indices, pending
  <2> HIDE DEF indices, pending
  <2>4. popped # {} => Max(popped) \in popped
    <3> HIDE DEF popped
    <3> QED BY <2>2, MaxOfTS
  <2>5. until \in TS
    BY <1>1, <1>2, <2>2, <2>4
  <2>6. until = w.doneUntil \/ (until \in indices /\ \A i \in indices \ popped : until < i)
    BY <1>1, <2>2, <2>4
  <2>7. \A x \in notify : x \in w.waiters /\ x.index <= until
    <3> HIDE DEF until
    <3> QED BY <1>1, <1>2, <2>5 DEF ToNotify, MarkType, TS
  <2> HIDE DEF until, notify, popped
  <2>8. \A x \in process(w).waiters : x \in w.waiters
    BY <1>1, <2>3
  <2>9. \A t \in process(w).closed : t \in w.closed \/
          \E x : x \in w.waiters /\ x.who = t /\ x.index <= until
    BY <1>1, <2>3, <2>7
  <2>10. indices = w.indices \cup {m.index}
    BY <1>1 DEF indices
  <2>11. process(w).indices \subseteq w.indices \cup {m.index}
    BY <2>3, <2>10
  <2>12. \/ process(w).doneUntil = w.doneUntil
         \/ /\ process(w).doneUntil \in w.indices \cup {m.index}
            /\ \A i \in process(w).indices : process(w).doneUntil < i
    BY <2>3, <2>6, <2>10
  <2>13. \A t \in process(w).closed : t \in w.closed \/
          \E x : x \in w.waiters /\ x.who = t /\ x.index <= process(w).doneUntil
    BY <2>3, <2>9
  <2>14. Len(process(w).markCh) = n - 1 /\ \A p \in 1 .. n - 1 : process(w).markCh[p] = w.markCh[p + 1]
    BY <1>1, <2>3
  <2> QED BY <1>1, <1>4, <2>8, <2>11, <2>12, <2>13, <2>14 DEF m, n
<1> QED BY <1>1, <1>3, <1>4 DEF m, n

(* A Begin with a new largest index keeps doneUntil strictly below all that  *)
(* is not done.                                                              *)
LEMMA BeginKeepsStrict ==
  ASSUME NEW w, NEW idx \in [Txn -> TS], NEW began \in SUBSET Txn, NEW ended \in SUBSET Txn,
         NEW top \in TS, WaterMarkInv(w, idx, began, ended, top),
         StrictInv(w, idx, began, ended),
         NEW t \in Txn, t \notin began, t \notin ended, NEW i \in TS, top < i
  PROVE  StrictInv(Begin(w, i, t), [idx EXCEPT ![t] = i], began \cup {t}, ended)
<1> DEFINE v == Send(w, "begin", i, t)
           idx2 == [idx EXCEPT ![t] = i]
           n == Len(w.markCh)
<1>1. /\ w \in WaterMarkType
      /\ v.doneUntil = w.doneUntil /\ v.indices = w.indices
      /\ Len(v.markCh) = n + 1 /\ n \in Nat
      /\ \A p \in 1 .. n : v.markCh[p] = w.markCh[p]
      /\ v.markCh[n + 1].kind = "begin" /\ v.markCh[n + 1].index = i
  <2>1. w \in WaterMarkType
    BY DEF WaterMarkInv
  <2>2. w.markCh \in Seq(MarkType)
    BY <2>1 DEF WaterMarkType
  <2>3. n \in Nat
    BY <2>2
  <2>4. v.markCh[n + 1] = MarkOf("begin", i, t)
    BY <2>1, SendFacts
  <2> QED BY <2>1, <2>3, <2>4, SendFacts DEF MarkOf
<1>2. \A u \in Txn : Held(v, began \cup {t}, ended, u) => u # t /\ Held(w, began, ended, u)
  <2>1. \A k, u : InCh(v, k, u) <=> InCh(w, k, u) \/ (k = "begin" /\ u = t)
    BY <1>1, InChSend
  <2> QED BY <2>1 DEF Held
<1> HIDE DEF v
<1>3. /\ w.doneUntil \in TS /\ w.indices \subseteq TS /\ TS \subseteq Int
      /\ w.doneUntil < i /\ \A j \in w.indices : j < i
      /\ \A p \in 1 .. n : w.markCh[p].kind = "begin" =>
            w.markCh[p].index \in TS /\ w.markCh[p].index < i
  <2>1. w.doneUntil \in TS /\ w.indices \subseteq TS /\ TS \subseteq Int
    BY <1>1, TSOrder DEF WaterMarkType
  <2>2. \A p \in 1 .. n : w.markCh[p] \in MarkType
    BY <1>1 DEF WaterMarkType
  <2>3. \A p \in 1 .. n : w.markCh[p].index \in TS
    BY <2>2 DEF MarkType
  <2>4. /\ w.doneUntil <= top /\ \A j \in w.indices : j <= top
        /\ \A p \in 1 .. n : w.markCh[p].kind = "begin" => w.markCh[p].index <= top
    BY DEF WaterMarkInv, HeapInv
  <2>5. \A x \in TS : x <= top => x < i
    BY TSOrder
  <2> QED BY <2>1, <2>3, <2>4, <2>5
<1>4. \A p \in 1 .. n + 1 : v.markCh[p].kind = "begin" =>
        v.doneUntil < v.markCh[p].index /\ \A j \in v.indices : j < v.markCh[p].index
  BY <1>1, <1>3 DEF StrictInv
<1>5. \A p, q \in 1 .. n + 1 :
        p < q /\ v.markCh[p].kind = "begin" /\ v.markCh[q].kind = "begin"
          => v.markCh[p].index < v.markCh[q].index
  <2> SUFFICES ASSUME NEW p \in 1 .. n + 1, NEW q \in 1 .. n + 1, p < q,
                      v.markCh[p].kind = "begin", v.markCh[q].kind = "begin"
               PROVE  v.markCh[p].index < v.markCh[q].index
    OBVIOUS
  <2>1. p \in 1 .. n /\ v.markCh[p] = w.markCh[p]
    BY <1>1
  <2>2. CASE q = n + 1
    BY <1>1, <1>3, <2>1, <2>2
  <2>3. CASE q \in 1 .. n
    BY <1>1, <2>1, <2>3 DEF StrictInv
  <2> QED BY <1>1, <2>2, <2>3
<1>6. \A u \in Txn : Held(v, began \cup {t}, ended, u) => v.doneUntil < idx2[u]
  BY <1>1, <1>2 DEF StrictInv
<1> QED BY <1>1, <1>4, <1>5, <1>6 DEF StrictInv, Begin, v

(* Marks of the other kinds say nothing about it.                            *)
LEMMA SendKeepsStrict ==
  ASSUME NEW w \in WaterMarkType, NEW idx, NEW began, NEW ended, NEW ended2,
         StrictInv(w, idx, began, ended),
         NEW kind \in {"done", "wait"}, NEW i \in TS, NEW t \in Txn,
         \A u \in Txn : Held(Send(w, kind, i, t), began, ended2, u) => Held(w, began, ended, u)
  PROVE  StrictInv(Send(w, kind, i, t), idx, began, ended2)
<1> DEFINE v == Send(w, kind, i, t)
           n == Len(w.markCh)
<1>1. /\ v.doneUntil = w.doneUntil /\ v.indices = w.indices
      /\ Len(v.markCh) = n + 1 /\ n \in Nat
      /\ \A p \in 1 .. n : v.markCh[p] = w.markCh[p]
      /\ v.markCh[n + 1].kind # "begin"
  <2>1. w.markCh \in Seq(MarkType)
    BY DEF WaterMarkType
  <2>2. n \in Nat
    BY <2>1
  <2>3. v.markCh[n + 1] = MarkOf(kind, i, t)
    BY SendFacts
  <2> QED BY <2>2, <2>3, SendFacts DEF MarkOf
<1> HIDE DEF v
<1>2. \A p \in 1 .. n + 1 : v.markCh[p].kind = "begin" => p \in 1 .. n
  BY <1>1
<1>3. \A u \in Txn : Held(v, began, ended2, u) => v.doneUntil < idx[u]
  BY <1>1 DEF StrictInv, v
<1>4. \A p \in 1 .. n + 1 : v.markCh[p].kind = "begin" =>
        v.doneUntil < v.markCh[p].index /\ \A j \in v.indices : j < v.markCh[p].index
  BY <1>1, <1>2 DEF StrictInv
<1>5. \A p, q \in 1 .. n + 1 :
        p < q /\ v.markCh[p].kind = "begin" /\ v.markCh[q].kind = "begin"
          => v.markCh[p].index < v.markCh[q].index
  BY <1>1, <1>2 DEF StrictInv
<1> QED BY <1>1, <1>3, <1>4, <1>5 DEF StrictInv, v

(* An iteration of process keeps it: doneUntil moves only to an index whose  *)
(* holders are done, and the heap keeps the others above it.                 *)
LEMMA ProcessKeepsStrict ==
  ASSUME NEW w, NEW idx \in [Txn -> TS], NEW began \in SUBSET Txn, NEW ended \in SUBSET Txn,
         NEW top \in TS, WaterMarkInv(w, idx, began, ended, top), w.markCh # <<>>,
         StrictInv(w, idx, began, ended)
  PROVE  StrictInv(process(w), idx, began, ended)
<1> DEFINE v == process(w)
           r == [w EXCEPT !.markCh = Tail(@)]
           m == w.markCh[1]
           n == Len(w.markCh)
<1>1. /\ n \in Nat \ {0} /\ Len(v.markCh) = n - 1
      /\ \A p \in 1 .. n - 1 : v.markCh[p] = w.markCh[p + 1]
      /\ m.kind = "wait" => v.doneUntil = w.doneUntil /\ v.indices = w.indices
      /\ v.indices \subseteq w.indices \cup {m.index}
      /\ \/ v.doneUntil = w.doneUntil
         \/ v.doneUntil \in w.indices \cup {m.index} /\ \A i \in v.indices : v.doneUntil < i
  BY ProcessMoves
<1>2. \A u \in Txn : Held(v, began, ended, u) =>
        \/ Held(w, began, ended, u)
        \/ m.kind = "begin" /\ idx[u] = m.index
  <2>1. w \in WaterMarkType /\ r.markCh = v.markCh
    <3>1. w \in WaterMarkType
      BY DEF WaterMarkInv
    <3>2. r.markCh = Tail(w.markCh) /\ r \in WaterMarkType
      BY <3>1, TailFacts DEF WaterMarkType
    <3>3. /\ \A x : processWait(r, x).markCh = r.markCh
          /\ \A i, d : processOne(r, i, d).markCh = r.markCh
      <4> HIDE DEF r
      <4> QED BY <3>2 DEF processWait, processOne, WaterMarkType
    <3> QED BY <3>1, <3>3 DEF process
  <2>2. \A u : Held(v, began, ended, u) <=> Held(r, began, ended, u)
    BY <2>1 DEF Held, InCh
  <2>3. \A u \in Txn : m.kind = "wait" \/ u # m.who =>
          (Held(r, began, ended, u) <=> Held(w, began, ended, u))
    BY ReceiveHead
  <2>4. /\ m.kind = "done" => ~ Held(r, began, ended, m.who)
        /\ m.kind # "wait" => idx[m.who] = m.index
    BY ReceiveHead
  <2>5. m.kind \in {"begin", "done", "wait"}
    BY <2>1, TailFacts DEF MarkType
  <2> QED BY <2>2, <2>3, <2>4, <2>5
<1>3. 1 \in 1 .. n /\ \A p \in 1 .. n - 1 : p + 1 \in 1 .. n /\ 1 < p + 1
  BY <1>1
<1>4. m.kind # "wait" /\ m.kind # "begin" => m.index \in w.indices
  <2> SUFFICES ASSUME m.kind # "wait", m.kind # "begin" PROVE m.index \in w.indices
    OBVIOUS
  <2>1. w \in WaterMarkType
    BY DEF WaterMarkInv
  <2>2. m.kind = "done" /\ m.who \in Txn
    BY <2>1, TailFacts DEF MarkType
  <2>3. Held(w, began, ended, m.who) /\ idx[m.who] = m.index
    BY <2>2, ReceiveHead
  <2> QED BY <2>2, <2>3 DEF WaterMarkInv, HeapInv
<1>5. /\ w.doneUntil \in TS /\ w.indices \subseteq TS /\ m.index \in TS /\ v.doneUntil \in TS
      /\ \A p \in 1 .. n - 1 : v.markCh[p].index \in TS
  <2>1. w \in WaterMarkType /\ v \in WaterMarkType
    <3>1. w \in WaterMarkType /\ WaterMarkInv(v, idx, began, ended, top)
      BY ProcessPreservesInv DEF WaterMarkInv
    <3> QED BY <3>1 DEF WaterMarkInv
  <2>2. m \in MarkType /\ \A p \in 1 .. n - 1 : v.markCh[p] \in MarkType
    BY <1>1, <2>1, TailFacts DEF WaterMarkType
  <2> QED BY <2>1, <2>2 DEF WaterMarkType, MarkType
(* Later Begins are above the mark just handled, hence above doneUntil.      *)
<1>6. \A p \in 1 .. n - 1 : v.markCh[p].kind = "begin" =>
        /\ w.doneUntil < v.markCh[p].index
        /\ \A i \in w.indices : i < v.markCh[p].index
        /\ m.kind # "wait" => m.index < v.markCh[p].index
  BY <1>1, <1>3, <1>4 DEF StrictInv
<1> HIDE DEF v
<1>7. \A p \in 1 .. n - 1 : v.markCh[p].kind = "begin" =>
        /\ v.doneUntil < v.markCh[p].index
        /\ \A i \in v.indices : i < v.markCh[p].index
  BY <1>1, <1>6
<1>8. \A p, q \in 1 .. n - 1 :
        p < q /\ v.markCh[p].kind = "begin" /\ v.markCh[q].kind = "begin"
          => v.markCh[p].index < v.markCh[q].index
  <2> SUFFICES ASSUME NEW p \in 1 .. n - 1, NEW q \in 1 .. n - 1, p < q,
                      v.markCh[p].kind = "begin", v.markCh[q].kind = "begin"
               PROVE  v.markCh[p].index < v.markCh[q].index
    OBVIOUS
  <2>1. p + 1 \in 1 .. n /\ q + 1 \in 1 .. n /\ p + 1 < q + 1
    BY <1>1
  <2> QED BY <1>1, <2>1 DEF StrictInv
<1>9. ASSUME NEW u \in Txn, Held(v, began, ended, u) PROVE v.doneUntil < idx[u]
  <2>1. idx[u] \in v.indices
    <3>1. WaterMarkInv(v, idx, began, ended, top)
      BY ProcessPreservesInv DEF v
    <3> QED BY <1>9, <3>1 DEF WaterMarkInv, HeapInv
  <2>2. CASE v.doneUntil = w.doneUntil
    <3>1. CASE Held(w, began, ended, u)
      BY <2>2, <3>1 DEF StrictInv
    <3>2. CASE m.kind = "begin" /\ idx[u] = m.index
      BY <1>3, <2>2, <3>2 DEF StrictInv
    <3> QED BY <1>2, <1>9, <3>1, <3>2
  <2>3. CASE \A i \in v.indices : v.doneUntil < i
    BY <2>1, <2>3
  <2> QED BY <1>1, <2>2, <2>3
<1> QED BY <1>1, <1>7, <1>8, <1>9 DEF StrictInv, v

-----------------------------------------------------------------------------
(* The waiters: a caller that has waited joins ...                           *)
LEMMA WaitKeepsWaiters ==
  ASSUME NEW w \in WaterMarkType, NEW idx \in [Txn -> TS], NEW waited,
         WaitersInv(w, idx, waited), NEW t \in Txn, t \in waited
  PROVE  WaitersInv(Wait(w, idx[t], t), idx, waited)
<1> DEFINE v == Send(w, "wait", idx[t], t)
           n == Len(w.markCh)
<1>1. /\ v.doneUntil = w.doneUntil /\ v.waiters = w.waiters /\ v.closed = w.closed
      /\ Len(v.markCh) = n + 1 /\ n \in Nat
      /\ \A p \in 1 .. n : v.markCh[p] = w.markCh[p]
      /\ v.markCh[n + 1].who = t /\ v.markCh[n + 1].index = idx[t]
  <2>1. w.markCh \in Seq(MarkType)
    BY DEF WaterMarkType
  <2>2. n \in Nat /\ idx[t] \in TS
    BY <2>1
  <2>3. v.markCh[n + 1] = MarkOf("wait", idx[t], t)
    BY <2>2, SendFacts
  <2> QED BY <2>2, <2>3, SendFacts DEF MarkOf
<1> HIDE DEF v
<1>2. \A p \in 1 .. n + 1 : v.markCh[p].kind = "wait" =>
        v.markCh[p].who \in waited /\ v.markCh[p].index = idx[v.markCh[p].who]
  BY <1>1 DEF WaitersInv
<1> QED BY <1>1, <1>2 DEF WaitersInv, Wait, v

(* ... other calls leave the waiters alone ...                               *)
LEMMA SendKeepsWaiters ==
  ASSUME NEW w \in WaterMarkType, NEW idx, NEW waited, WaitersInv(w, idx, waited),
         NEW kind \in {"begin", "done"}, NEW i \in TS, NEW t \in Txn
  PROVE  WaitersInv(Send(w, kind, i, t), idx, waited)
<1> DEFINE v == Send(w, kind, i, t)
           n == Len(w.markCh)
<1>1. /\ v.doneUntil = w.doneUntil /\ v.waiters = w.waiters /\ v.closed = w.closed
      /\ Len(v.markCh) = n + 1 /\ n \in Nat
      /\ \A p \in 1 .. n : v.markCh[p] = w.markCh[p]
      /\ v.markCh[n + 1].kind # "wait"
  <2>1. w.markCh \in Seq(MarkType)
    BY DEF WaterMarkType
  <2>2. n \in Nat
    BY <2>1
  <2>3. v.markCh[n + 1] = MarkOf(kind, i, t)
    BY SendFacts
  <2> QED BY <2>2, <2>3, SendFacts DEF MarkOf
<1> HIDE DEF v
<1>2. \A p \in 1 .. n + 1 : v.markCh[p].kind = "wait" =>
        v.markCh[p].who \in waited /\ v.markCh[p].index = idx[v.markCh[p].who]
  BY <1>1 DEF WaitersInv
<1> QED BY <1>1, <1>2 DEF WaitersInv, v

(* ... and process closes a channel when doneUntil has reached its index.    *)
LEMMA ProcessKeepsWaiters ==
  ASSUME NEW w, NEW idx \in [Txn -> TS], NEW began \in SUBSET Txn, NEW ended \in SUBSET Txn,
         NEW top \in TS, WaterMarkInv(w, idx, began, ended, top), w.markCh # <<>>,
         NEW rts \in [Txn -> TS], NEW waited \in SUBSET Txn, WaitersInv(w, rts, waited)
  PROVE  WaitersInv(process(w), rts, waited)
<1> DEFINE v == process(w)
           m == w.markCh[1]
           n == Len(w.markCh)
<1>1. /\ n \in Nat \ {0} /\ Len(v.markCh) = n - 1
      /\ \A p \in 1 .. n - 1 : v.markCh[p] = w.markCh[p + 1]
      /\ \A x \in v.waiters : x \in w.waiters \/ (m.kind = "wait" /\ x = m)
      /\ \A t \in v.closed : t \in w.closed \/
           \E x : /\ x \in w.waiters \/ (m.kind = "wait" /\ x = m)
                  /\ x.who = t /\ x.index <= v.doneUntil
  BY ProcessMoves
<1>2. w.doneUntil <= v.doneUntil /\ w.doneUntil \in TS /\ v.doneUntil \in TS
  <2>1. w \in WaterMarkType /\ WaterMarkInv(v, idx, began, ended, top)
    BY ProcessPreservesInv DEF WaterMarkInv
  <2> QED BY <2>1, DoneUntilGrows DEF WaterMarkInv, WaterMarkType
<1> HIDE DEF v
<1>3. 1 \in 1 .. n /\ \A p \in 1 .. n - 1 : p + 1 \in 1 .. n
  BY <1>1
<1>4. \A x : x \in w.waiters \/ (m.kind = "wait" /\ x = m) =>
        x.who \in waited /\ x.index = rts[x.who]
  BY <1>3 DEF WaitersInv
<1>5. \A p \in 1 .. n - 1 : v.markCh[p].kind = "wait" =>
        v.markCh[p].who \in waited /\ v.markCh[p].index = rts[v.markCh[p].who]
  BY <1>1, <1>3 DEF WaitersInv
<1>6. ASSUME NEW t \in v.closed PROVE t \in waited /\ rts[t] <= v.doneUntil
  <2>1. CASE t \in w.closed
    BY <1>2, <2>1, TSOrder DEF WaitersInv
  <2>2. CASE \E x : /\ x \in w.waiters \/ (m.kind = "wait" /\ x = m)
                    /\ x.who = t /\ x.index <= v.doneUntil
    BY <1>4, <2>2
  <2> QED BY <1>1, <2>1, <2>2
<1> QED BY <1>1, <1>4, <1>5, <1>6 DEF WaitersInv, v
=============================================================================
