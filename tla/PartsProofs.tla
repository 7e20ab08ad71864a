------------------------------ MODULE PartsProofs -----------------------------
(***************************************************************************)
(* Proofs about Sequence.tla, HeatMap.tla and Stream.tla, for every number *)
(* of handles and producers, every key and every bound: the sequences      *)
(* return no number twice, a statistics slot of the heat map has one owner *)
(* and a backup that succeeds is exact.                                    *)
(***************************************************************************)
EXTENDS Sequence, HeatMap, Stream, FiniteSetTheorems, WellFoundedInduction, TLAPS

-----------------------------------------------------------------------------
(***************************************************************************)
(* Sequence.                                                               *)
(***************************************************************************)

(* What a step does to the handles: h becomes r, and, when the key was     *)
(* written, the others that are in a transaction become stale.             *)
Moves(h, r, written) ==
  /\ handle' \in [SeqHandles -> Handles] /\ handle'[h] = r
  /\ \A g \in SeqHandles \ {h} :
       /\ handle'[g].pc = handle[g].pc /\ handle'[g].erred = handle[g].erred
       /\ handle'[g].next = handle[g].next /\ handle'[g].leased = handle[g].leased
       /\ handle'[g].stale = (handle[g].stale \/ (written /\ inTxn(handle[g])))

LEMMA MovesAlone ==
  ASSUME SequenceType, NEW h \in SeqHandles, NEW r \in Handles, handle' = [handle EXCEPT ![h] = r]
  PROVE  Moves(h, r, FALSE)
<1>1. handle \in [SeqHandles -> Handles]
  BY DEF SequenceType
<1>2. handle' \in [SeqHandles -> Handles] /\ handle'[h] = r /\ \A g \in SeqHandles \ {h} : handle'[g] = handle[g]
  BY <1>1
<1>3. \A g \in SeqHandles : handle[g].stale \in BOOLEAN
  BY <1>1 DEF Handles
<1>. QED BY <1>2, <1>3 DEF Moves

LEMMA MadeStale ==
  ASSUME NEW q \in Handles, NEW b \in BOOLEAN, NEW s, s = [q EXCEPT !.stale = q.stale \/ b]
  PROVE  /\ s \in Handles /\ s.stale = (q.stale \/ b) /\ s.pc = q.pc
         /\ s.next = q.next /\ s.leased = q.leased /\ s.erred = q.erred
BY DEF Handles

LEMMA MovesWritten ==
  ASSUME SequenceType, NEW h \in SeqHandles, NEW r \in Handles, handle' = afterWrite(h, r)
  PROVE  Moves(h, r, TRUE)
<1>1. \A g \in SeqHandles : handle[g] \in Handles /\ inTxn(handle[g]) \in BOOLEAN
  BY DEF SequenceType, inTxn
<1>2. handle' = [g \in SeqHandles |-> handle'[g]] /\ handle'[h] = r
  BY DEF afterWrite
<1>3. ASSUME NEW g \in SeqHandles, g # h
      PROVE  /\ handle'[g] \in Handles
             /\ handle'[g].pc = handle[g].pc /\ handle'[g].erred = handle[g].erred
             /\ handle'[g].next = handle[g].next /\ handle'[g].leased = handle[g].leased
             /\ handle'[g].stale = (handle[g].stale \/ inTxn(handle[g]))
  <2>1. handle'[g] = [handle[g] EXCEPT !.stale = handle[g].stale \/ inTxn(handle[g])]
    BY <1>3 DEF afterWrite
  <2>. QED BY <1>1, <2>1, MadeStale
<1>. HIDE DEF Handles, inTxn
<1>4. \A g \in SeqHandles : handle'[g] \in Handles
  BY <1>2, <1>3
<1>5. handle' \in [SeqHandles -> Handles]
  BY <1>2, <1>4
<1>. QED BY <1>2, <1>3, <1>5 DEF Moves

(* The record a handle becomes, for each thing the code does to it.        *)
LEMMA Leasing ==
  ASSUME SequenceType, lease.val + Bandwidth <= SeqMaxLease, NEW q \in Handles, NEW b \in BOOLEAN,
         NEW r, r = [leasing(q) EXCEPT !.first = b]
  PROVE  /\ r \in Handles /\ r.pc = "lease" /\ r.next = lease.val /\ r.leased = lease.val + Bandwidth
         /\ r.stale = FALSE /\ r.erred = q.erred
<1>1. lease.val \in 0 .. SeqMaxLease /\ lease.val + Bandwidth \in 0 .. SeqMaxLease
  BY SequenceAssumption DEF SequenceType
<1>. QED BY <1>1 DEF leasing, Handles

LEMMA Incremented ==
  ASSUME SeqMaxLease \in Nat, NEW q \in Handles, q.next < q.leased, NEW r, r = incremented(q)
  PROVE  /\ r \in Handles /\ r.pc = "idle" /\ r.next = q.next + 1 /\ r.leased = q.leased
         /\ r.stale = q.stale /\ r.erred = q.erred
<1>1. q.next + 1 \in 0 .. SeqMaxLease
  BY DEF Handles
<1>. QED BY <1>1 DEF incremented, Handles

LEMMA Settled ==
  ASSUME NEW q \in Handles, NEW r, r = [q EXCEPT !.pc = "idle"]
  PROVE  /\ r \in Handles /\ r.pc = "idle" /\ r.next = q.next /\ r.leased = q.leased
         /\ r.stale = q.stale /\ r.erred = q.erred
BY DEF Handles

LEMMA Erred ==
  ASSUME NEW q \in Handles, NEW r, r = [q EXCEPT !.pc = "idle", !.erred = TRUE]
  PROVE  /\ r \in Handles /\ r.pc = "idle" /\ r.next = q.next /\ r.leased = q.leased
         /\ r.stale = q.stale /\ r.erred = TRUE
BY DEF Handles

LEMMA Releasing ==
  ASSUME NEW q \in Handles, NEW r, r = [q EXCEPT !.pc = "release", !.stale = FALSE]
  PROVE  /\ r \in Handles /\ r.pc = "release" /\ r.next = q.next /\ r.leased = q.leased
         /\ r.stale = FALSE /\ r.erred = q.erred
BY DEF Handles

LEMMA Emptied ==
  ASSUME NEW q \in Handles, NEW r, r = [q EXCEPT !.leased = q.next]
  PROVE  /\ r \in Handles /\ r.pc = q.pc /\ r.next = q.next /\ r.leased = q.next
         /\ r.stale = q.stale /\ r.erred = q.erred
BY DEF Handles

LEMMA Released ==
  ASSUME NEW q \in Handles, NEW r, r = [q EXCEPT !.pc = "idle", !.leased = q.next]
  PROVE  /\ r \in Handles /\ r.pc = "idle" /\ r.next = q.next /\ r.leased = q.next
         /\ r.stale = q.stale /\ r.erred = q.erred
BY DEF Handles

LEMMA Dropped ==
  ASSUME SeqMaxLease \in Nat, NEW r, r = NoHandle
  PROVE  /\ r \in Handles /\ r.pc = "none" /\ r.next = 0 /\ r.leased = 0
         /\ r.stale = FALSE /\ r.erred = FALSE /\ r.next <= r.leased
BY DEF NoHandle, Handles

(* The types of the fields, for the arithmetic on them.                    *)
Numbers ==
  /\ lease.val \in 0 .. SeqMaxLease /\ seqFails \in Nat
  /\ \A g \in SeqHandles :
       /\ handle[g].next \in 0 .. SeqMaxLease /\ handle[g].leased \in 0 .. SeqMaxLease
       /\ handle[g].next <= handle[g].leased
       /\ handle[g].stale \in BOOLEAN /\ handle[g].erred \in BOOLEAN
  /\ \A n \in 0 .. SeqMaxLease : given[n] \in 0 .. 2

LEMMA SequenceNumbers == ASSUME SequenceType PROVE Numbers
BY DEF SequenceType, Handles, Numbers

LEMMA HandleNumbers ==
  ASSUME NEW r \in Handles
  PROVE  r.next \in 0 .. SeqMaxLease /\ r.leased \in 0 .. SeqMaxLease /\ r.stale \in BOOLEAN /\ r.erred \in BOOLEAN
BY DEF Handles

(* The parts of the invariant hold of new handles and an absent key.       *)
LEMMA SequenceStarts == SequenceInit => SequenceInv
<1>. SUFFICES ASSUME SequenceInit PROVE SequenceInv
  OBVIOUS
<1>. USE SequenceAssumption DEF SequenceInit
<1>1. \A h \in SeqHandles :
        /\ handle[h] \in Handles /\ handle[h].pc = "none"
        /\ handle[h].next = 0 /\ handle[h].leased = 0 /\ handle[h].next <= handle[h].leased
  BY Dropped
<1>2. SequenceType
  <2>1. handle \in [SeqHandles -> Handles]
    BY <1>1
  <2>2. \A h \in SeqHandles : handle[h].next <= handle[h].leased
    BY <1>1
  <2>3. lease \in [val : 0 .. SeqMaxLease, found : BOOLEAN] /\ given \in [0 .. SeqMaxLease -> 0 .. 2]
    OBVIOUS
  <2>. QED BY <2>1, <2>2, <2>3 DEF SequenceType
<1>3. FreshTxn
  BY <1>1 DEF FreshTxn
<1>4. OneOwner
  BY <1>1 DEF OneOwner, owns
<1>. QED BY <1>2, <1>3, <1>4 DEF SequenceInv

-----------------------------------------------------------------------------
(* Every operation keeps the invariant.                                    *)
LEMMA GetKeeps == ASSUME SequenceInv, NEW h \in SeqHandles, GetSequence(h) PROVE SequenceInv'
<1>. USE SequenceAssumption
<1>0. SequenceType /\ handle[h] \in Handles
  BY DEF SequenceInv, SequenceType
<1>1. PICK r \in Handles : /\ handle' = [handle EXCEPT ![h] = r] /\ r.pc = "lease" /\ r.stale = FALSE
                          /\ r.next = lease.val /\ r.leased = lease.val + Bandwidth
  BY <1>0, Leasing DEF GetSequence
<1>2. Moves(h, r, FALSE)
  BY <1>0, <1>1, MovesAlone
<1>3. UNCHANGED <<lease, seqFails, given, reused>>
  BY DEF GetSequence
<1>4. SequenceType'
  BY <1>0, <1>1, <1>2, <1>3 DEF SequenceType, Moves
<1>5. FreshTxn'
  BY <1>0, <1>1, <1>2, <1>3 DEF SequenceInv, FreshTxn, Moves
<1>6. ~ reused' => OneOwner'
  BY <1>0, <1>1, <1>2, <1>3 DEF SequenceInv, OneOwner, owns, Moves
<1>. QED BY <1>4, <1>5, <1>6 DEF SequenceInv

LEMMA NextKeeps == ASSUME SequenceInv, NEW h \in SeqHandles, NextFromLease(h) PROVE SequenceInv'
<1>. USE SequenceAssumption
<1>0. SequenceType /\ handle[h] \in Handles /\ handle[h].next \in 0 .. SeqMaxLease /\ handle[h].leased \in 0 .. SeqMaxLease
  BY DEF SequenceInv, SequenceType, Handles
<1>1. PICK r \in Handles : /\ handle' = [handle EXCEPT ![h] = r] /\ r.pc = "idle"
                          /\ r.next = handle[h].next + 1 /\ r.leased = handle[h].leased
                          /\ r.erred = handle[h].erred
  BY <1>0, Incremented DEF NextFromLease
<1>2. Moves(h, r, FALSE)
  BY <1>0, <1>1, MovesAlone
<1>3. /\ UNCHANGED <<lease, seqFails>> /\ handle[h].pc = "idle" /\ handle[h].next < handle[h].leased
      /\ reused' = (reused \/ handle[h].erred)
      /\ given' = [given EXCEPT ![handle[h].next] = IF @ = 2 THEN 2 ELSE @ + 1]
  BY DEF NextFromLease, uses, returned
<1>4. SequenceType'
  <2>1. reused' \in BOOLEAN /\ given' \in [0 .. SeqMaxLease -> 0 .. 2]
    BY <1>0, <1>3 DEF SequenceType, Handles
  <2>. QED BY <1>0, <1>1, <1>2, <1>3, <2>1 DEF SequenceType, Moves
<1>5. FreshTxn'
  BY <1>0, <1>1, <1>2, <1>3 DEF SequenceInv, FreshTxn, Moves
<1>6. ~ reused' => OneOwner'
  BY <1>0, <1>1, <1>2, <1>3 DEF SequenceInv, SequenceType, OneOwner, owns, Moves, Handles
<1>. QED BY <1>4, <1>5, <1>6 DEF SequenceInv

LEMMA RenewKeeps == ASSUME SequenceInv, NEW h \in SeqHandles, NextRenews(h) PROVE SequenceInv'
<1>. USE SequenceAssumption
<1>0. SequenceType /\ handle[h] \in Handles
  BY DEF SequenceInv, SequenceType
<1>1. PICK r \in Handles : /\ handle' = [handle EXCEPT ![h] = r] /\ r.pc = "lease" /\ r.stale = FALSE
                          /\ r.next = lease.val /\ r.leased = lease.val + Bandwidth
  BY <1>0, Leasing DEF NextRenews
<1>2. Moves(h, r, FALSE)
  BY <1>0, <1>1, MovesAlone
<1>3. UNCHANGED <<lease, seqFails, given>> /\ reused' = (reused \/ handle[h].erred)
  BY DEF NextRenews, uses
<1>4. SequenceType'
  <2>1. reused' \in BOOLEAN
    BY <1>0, <1>3 DEF SequenceType, Handles
  <2>. QED BY <1>0, <1>1, <1>2, <1>3, <2>1 DEF SequenceType, Moves
<1>5. FreshTxn'
  BY <1>0, <1>1, <1>2, <1>3 DEF SequenceInv, FreshTxn, Moves
<1>6. ASSUME ~ reused' PROVE OneOwner'
  <2>1. OneOwner
    BY <1>3, <1>6 DEF SequenceInv
  <2>2. \A n \in 0 .. SeqMaxLease, g \in SeqHandles : owns(g, n)' => owns(g, n)
    BY <1>1, <1>2 DEF Moves, owns
  <2>3. \A g \in SeqHandles : handle'[g].pc = "release" => ~ handle'[g].erred
    BY <1>1, <1>2, <2>1 DEF OneOwner, Moves
  <2>. QED BY <1>3, <2>1, <2>2, <2>3 DEF OneOwner
<1>. QED BY <1>4, <1>5, <1>6 DEF SequenceInv

(* A commit of updateLease: the numbers from the value that was stored to  *)
(* the new one are nobody's before it and the handle's after it.           *)
LEMMA LeaseKeeps == ASSUME SequenceInv, NEW h \in SeqHandles, leaseCommits(h) PROVE SequenceInv'
<1>. USE SequenceAssumption
<1>0. SequenceType /\ handle[h] \in Handles /\ handle[h].next \in 0 .. SeqMaxLease /\ handle[h].leased \in 0 .. SeqMaxLease
  BY DEF SequenceInv, SequenceType, Handles
<1>1. /\ lease' = [val |-> handle[h].leased, found |-> TRUE] /\ UNCHANGED <<seqFails, reused>>
      /\ handle[h].next = lease.val /\ handle[h].leased = lease.val + Bandwidth
      /\ handle[h].pc = "lease" /\ ~ handle[h].stale
  <2>1. /\ lease' = [val |-> handle[h].leased, found |-> TRUE] /\ UNCHANGED <<seqFails, reused>>
        /\ handle[h].pc = "lease" /\ ~ handle[h].stale
    BY DEF leaseCommits
  <2>. QED BY <2>1 DEF SequenceInv, FreshTxn
<1>2. /\ Numbers /\ handle[h].next < handle[h].leased /\ lease'.val = handle[h].leased
      /\ lease' \in [val : 0 .. SeqMaxLease, found : BOOLEAN]
  <2>1. Numbers
    BY <1>0, SequenceNumbers
  <2>. QED BY <1>0, <1>1, <2>1 DEF Numbers
<1>3. ASSUME NEW r \in Handles, handle' = afterWrite(h, r), r.pc = "idle", r.leased = handle[h].leased,
             r.erred = handle[h].erred,
             \/ UNCHANGED given /\ r.next = handle[h].next
             \/ /\ given' = [given EXCEPT ![handle[h].next] = IF @ = 2 THEN 2 ELSE @ + 1]
                /\ r.next = handle[h].next + 1
      PROVE  SequenceInv'
  <2>1. Moves(h, r, TRUE)
    BY <1>0, <1>3, MovesWritten
  <2>2. SequenceType'
    <3>1. given' \in [0 .. SeqMaxLease -> 0 .. 2]
      BY <1>0, <1>3 DEF SequenceType
    <3>2. \A g \in SeqHandles : handle'[g].next <= handle'[g].leased
      BY <1>2, <1>3, <2>1 DEF Moves, Numbers
    <3>. QED BY <1>0, <1>1, <1>2, <2>1, <3>1, <3>2 DEF SequenceType, Moves
  <2>3. FreshTxn'
    <3>1. \A g \in SeqHandles \ {h} : ~ handle'[g].stale => handle'[g].pc \notin {"lease", "release"}
      BY <2>1 DEF Moves, inTxn
    <3>2. handle'[h].pc = "idle"
      BY <1>3, <2>1 DEF Moves
    <3>. QED BY <3>1, <3>2 DEF FreshTxn
  <2>4. ASSUME ~ reused' PROVE OneOwner'
    <3>1. OneOwner
      BY <1>1, <2>4 DEF SequenceInv
    <3>2. \A n \in 0 .. SeqMaxLease, g \in SeqHandles :
            owns(g, n)' <=> IF g = h THEN ~ r.erred /\ r.next <= n /\ n < r.leased ELSE owns(g, n)
      BY <1>3, <2>1 DEF Moves, owns
    <3>3. \A n \in 0 .. SeqMaxLease :
            given'[n] = given[n] \/ (n = handle[h].next /\ r.next = n + 1 /\ given[n] = 0 /\ given'[n] = 1)
      BY <1>0, <1>1, <1>2, <1>3, <3>1 DEF OneOwner, Numbers, SequenceType
    <3>4. \A g \in SeqHandles : handle'[g].pc = "release" => ~ handle'[g].erred
      BY <1>3, <2>1, <3>1 DEF OneOwner, Moves
    <3>. QED BY <1>1, <1>2, <1>3, <3>1, <3>2, <3>3, <3>4 DEF OneOwner, Numbers
  <2>. QED BY <2>2, <2>3, <2>4 DEF SequenceInv
<1>4. CASE handle[h].first
  <2>1. PICK r \in Handles : /\ r = [handle[h] EXCEPT !.pc = "idle"] /\ r.pc = "idle" /\ r.next = handle[h].next
                            /\ r.leased = handle[h].leased /\ r.erred = handle[h].erred
    BY <1>0, Settled
  <2>. QED BY <1>3, <1>4, <2>1 DEF leaseCommits
<1>5. CASE ~ handle[h].first
  <2>1. PICK r \in Handles : /\ r = incremented(handle[h]) /\ r.pc = "idle" /\ r.next = handle[h].next + 1
                            /\ r.leased = handle[h].leased /\ r.erred = handle[h].erred
    BY <1>0, <1>2, Incremented
  <2>. QED BY <1>3, <1>5, <2>1 DEF leaseCommits, returned
<1>. QED BY <1>4, <1>5

(* A commit that fails, whether its entry was written or not, leaves the   *)
(* handle with an error, or without a lease.                               *)
LEMMA FailureKeeps ==
  ASSUME SequenceInv, NEW h \in SeqHandles, NEW val \in 0 .. SeqMaxLease, NEW written \in BOOLEAN,
         NEW r \in Handles, commitFails(h, val, written, r), r.pc \in {"none", "idle"}, r.next <= r.leased,
         \A n \in Int : r.next <= n /\ n < r.leased => r.pc = "idle" /\ r.erred,
         handle[h].pc = "release" => val = handle[h].next, handle[h].pc = "lease" => val = handle[h].leased,
         inTxn(handle[h])
  PROVE  SequenceInv'
<1>. USE SequenceAssumption
<1>0. /\ SequenceType /\ handle[h] \in Handles /\ handle[h].next \in 0 .. SeqMaxLease
      /\ handle[h].leased \in 0 .. SeqMaxLease /\ handle[h].next <= handle[h].leased
  BY DEF SequenceInv, SequenceType, Handles
<1>1. Moves(h, r, written)
  BY <1>0, MovesAlone, MovesWritten DEF commitFails
<1>2. /\ UNCHANGED <<given, reused>> /\ seqFails' \in Nat
      /\ IF written THEN lease' = [val |-> val, found |-> TRUE] /\ ~ handle[h].stale ELSE UNCHANGED lease
  BY <1>0 DEF commitFails, SequenceType
<1>3. lease' \in [val : 0 .. SeqMaxLease, found : BOOLEAN] /\ (written => lease'.val = val)
  <2>1. CASE written
    <3>1. lease' = [val |-> val, found |-> TRUE]
      BY <1>2, <2>1
    <3>. QED BY <3>1
  <2>2. CASE ~ written
    BY <1>0, <1>2, <2>2 DEF SequenceType
  <2>. QED BY <2>1, <2>2
<1>4. Numbers /\ r.next \in 0 .. SeqMaxLease /\ r.leased \in 0 .. SeqMaxLease /\ r.erred \in BOOLEAN
  BY <1>0, SequenceNumbers, HandleNumbers
<1>5. SequenceType'
  <2>1. \A g \in SeqHandles : handle'[g].next <= handle'[g].leased
    BY <1>1, <1>4 DEF Moves, Numbers
  <2>. QED BY <1>0, <1>1, <1>2, <1>3, <2>1 DEF SequenceType, Moves
<1>6. FreshTxn'
  BY <1>0, <1>1, <1>2, <1>3, <1>4 DEF SequenceInv, FreshTxn, Moves, inTxn, Numbers
<1>7. ASSUME ~ reused' PROVE OneOwner'
  <2>1. OneOwner
    BY <1>2, <1>7 DEF SequenceInv
  <2>2. \A n \in 0 .. SeqMaxLease, g \in SeqHandles : owns(g, n)' <=> g # h /\ owns(g, n)
    BY <1>1, <1>4 DEF Moves, owns
  <2>3. \A g \in SeqHandles : handle'[g].pc = "release" => ~ handle'[g].erred
    BY <1>1, <2>1 DEF OneOwner, Moves
  <2>4. \A n \in 0 .. SeqMaxLease : n < lease.val /\ ~ owns(h, n) => n < lease'.val
    BY <1>0, <1>2, <1>3, <1>4, <2>1 DEF Numbers, SequenceInv, FreshTxn, OneOwner, owns, inTxn
  <2>. QED BY <1>2, <2>1, <2>2, <2>3, <2>4 DEF OneOwner
<1>. QED BY <1>5, <1>6, <1>7 DEF SequenceInv

LEMMA LeaseFailureKeeps ==
  ASSUME SequenceInv, NEW h \in SeqHandles, NEW w \in BOOLEAN, leaseFails(h, w) PROVE SequenceInv'
<1>0. SequenceType /\ Numbers /\ handle[h] \in Handles
  BY SequenceNumbers DEF SequenceInv, SequenceType
<1>1. handle[h].pc = "lease" /\ handle[h].leased \in 0 .. SeqMaxLease
  BY <1>0 DEF leaseFails, Numbers
<1>2. CASE handle[h].first
  <2>1. PICK r \in Handles : r = NoHandle /\ r.pc = "none" /\ r.next = 0 /\ r.leased = 0
    BY Dropped, SequenceAssumption
  <2>2. commitFails(h, handle[h].leased, w, r)
    BY <1>2, <2>1 DEF leaseFails
  <2>. QED BY <1>0, <1>1, <2>1, <2>2, FailureKeeps DEF inTxn
<1>3. CASE ~ handle[h].first
  <2>1. PICK r \in Handles : /\ r = [handle[h] EXCEPT !.pc = "idle", !.erred = TRUE] /\ r.pc = "idle"
                            /\ r.next = handle[h].next /\ r.leased = handle[h].leased /\ r.erred = TRUE
    BY <1>0, Erred
  <2>2. commitFails(h, handle[h].leased, w, r)
    BY <1>3, <2>1 DEF leaseFails
  <2>3. r.next <= r.leased
    BY <1>0, <2>1 DEF Numbers
  <2>. QED BY <1>0, <1>1, <2>1, <2>2, <2>3, FailureKeeps DEF inTxn
<1>. QED BY <1>2, <1>3

LEMMA ReleaseFailureKeeps ==
  ASSUME SequenceInv, NEW h \in SeqHandles, NEW w \in BOOLEAN, releaseFails(h, w) PROVE SequenceInv'
<1>0. SequenceType /\ Numbers /\ handle[h] \in Handles
  BY SequenceNumbers DEF SequenceInv, SequenceType
<1>1. handle[h].pc = "release" /\ handle[h].next \in 0 .. SeqMaxLease
  BY <1>0 DEF releaseFails, Numbers
<1>2. PICK r \in Handles : /\ r = [handle[h] EXCEPT !.pc = "idle", !.erred = TRUE] /\ r.pc = "idle"
                          /\ r.next = handle[h].next /\ r.leased = handle[h].leased /\ r.erred = TRUE
  BY <1>0, Erred
<1>3. commitFails(h, handle[h].next, w, r)
  BY <1>2 DEF releaseFails
<1>4. r.next <= r.leased
  BY <1>0, <1>2 DEF Numbers
<1>. QED BY <1>0, <1>1, <1>2, <1>3, <1>4, FailureKeeps DEF inTxn

(* Release is entered with the whole of the stored lease, or gives up the  *)
(* rest of the handle's at once.                                           *)
LEMMA ReleaseKeeps == ASSUME SequenceInv, NEW h \in SeqHandles, Release(h) PROVE SequenceInv'
<1>. USE SequenceAssumption
<1>0. SequenceType /\ Numbers /\ handle[h] \in Handles
  BY SequenceNumbers DEF SequenceInv, SequenceType
<1>1. UNCHANGED <<lease, seqFails, given>> /\ reused' = (reused \/ handle[h].erred) /\ handle[h].pc = "idle"
  BY DEF Release, uses
<1>2. PICK r \in Handles :
        /\ handle' = [handle EXCEPT ![h] = r] /\ r.next = handle[h].next /\ r.erred = handle[h].erred
        /\ \/ r.pc = "release" /\ r.stale = FALSE /\ r.leased = handle[h].leased /\ r.leased = lease.val
           \/ r.pc = "idle" /\ r.leased = handle[h].next
  <2>1. CASE stillStored(handle[h])
    <3>1. PICK r \in Handles :
            /\ r = [handle[h] EXCEPT !.pc = "release", !.stale = FALSE] /\ r.pc = "release" /\ r.stale = FALSE
            /\ r.next = handle[h].next /\ r.leased = handle[h].leased /\ r.erred = handle[h].erred
      BY <1>0, Releasing
    <3>2. handle' = [handle EXCEPT ![h] = r]
      BY <2>1, <3>1 DEF Release
    <3>. QED BY <2>1, <3>1, <3>2 DEF stillStored
  <2>2. CASE ~ stillStored(handle[h])
    <3>1. PICK r \in Handles :
            /\ r = [handle[h] EXCEPT !.leased = handle[h].next] /\ r.pc = handle[h].pc
            /\ r.next = handle[h].next /\ r.leased = handle[h].next /\ r.erred = handle[h].erred
      BY <1>0, Emptied
    <3>2. handle' = [handle EXCEPT ![h] = r]
      BY <2>2, <3>1 DEF Release
    <3>. QED BY <1>1, <3>1, <3>2
  <2>. QED BY <2>1, <2>2
<1>3. Moves(h, r, FALSE)
  BY <1>0, <1>2, MovesAlone
<1>4. SequenceType'
  <2>1. reused' \in BOOLEAN
    BY <1>0, <1>1 DEF SequenceType, Handles
  <2>2. \A g \in SeqHandles : handle'[g].next <= handle'[g].leased
    BY <1>0, <1>2, <1>3 DEF Moves, Numbers
  <2>. QED BY <1>0, <1>1, <1>3, <2>1, <2>2 DEF SequenceType, Moves
<1>5. FreshTxn'
  BY <1>0, <1>1, <1>2, <1>3 DEF SequenceInv, FreshTxn, Moves, Numbers
<1>6. ASSUME ~ reused' PROVE OneOwner'
  <2>1. OneOwner /\ ~ handle[h].erred
    BY <1>1, <1>6 DEF SequenceInv
  <2>2. \A n \in 0 .. SeqMaxLease, g \in SeqHandles : owns(g, n)' => owns(g, n)
    BY <1>0, <1>1, <1>2, <1>3 DEF Moves, owns, Numbers
  <2>3. \A g \in SeqHandles : handle'[g].pc = "release" => ~ handle'[g].erred
    BY <1>2, <1>3, <2>1 DEF OneOwner, Moves
  <2>. QED BY <1>1, <2>1, <2>2, <2>3 DEF OneOwner
<1>. QED BY <1>4, <1>5, <1>6 DEF SequenceInv

(* A commit of Release: the numbers given back were the handle's alone.    *)
LEMMA ReleaseCommitKeeps == ASSUME SequenceInv, NEW h \in SeqHandles, releaseCommits(h) PROVE SequenceInv'
<1>. USE SequenceAssumption
<1>0. SequenceType /\ Numbers /\ handle[h] \in Handles
  BY SequenceNumbers DEF SequenceInv, SequenceType
<1>1. /\ lease' = [val |-> handle[h].next, found |-> TRUE] /\ UNCHANGED <<seqFails, given, reused>>
      /\ handle[h].pc = "release" /\ handle[h].leased = lease.val
  <2>1. /\ lease' = [val |-> handle[h].next, found |-> TRUE] /\ UNCHANGED <<seqFails, given, reused>>
        /\ handle[h].pc = "release" /\ ~ handle[h].stale
    BY DEF releaseCommits
  <2>. QED BY <2>1 DEF SequenceInv, FreshTxn
<1>2. PICK r \in Handles : /\ handle' = afterWrite(h, r) /\ r.pc = "idle" /\ r.next = handle[h].next
                          /\ r.leased = handle[h].next /\ r.erred = handle[h].erred
  BY <1>0, Released DEF releaseCommits
<1>3. Moves(h, r, TRUE)
  BY <1>0, <1>2, MovesWritten
<1>4. SequenceType'
  <2>1. lease' \in [val : 0 .. SeqMaxLease, found : BOOLEAN]
    BY <1>0, <1>1 DEF Numbers
  <2>2. \A g \in SeqHandles : handle'[g].next <= handle'[g].leased
    BY <1>0, <1>2, <1>3 DEF Moves, Numbers
  <2>. QED BY <1>0, <1>1, <1>3, <2>1, <2>2 DEF SequenceType, Moves
<1>5. FreshTxn'
  <2>1. \A g \in SeqHandles \ {h} : ~ handle'[g].stale => handle'[g].pc \notin {"lease", "release"}
    BY <1>3 DEF Moves, inTxn
  <2>2. handle'[h].pc = "idle"
    BY <1>2, <1>3 DEF Moves
  <2>. QED BY <2>1, <2>2 DEF FreshTxn
<1>6. ASSUME ~ reused' PROVE OneOwner'
  <2>1. OneOwner /\ ~ handle[h].erred /\ lease'.val = handle[h].next
    BY <1>1, <1>6 DEF SequenceInv, OneOwner
  <2>2. \A n \in 0 .. SeqMaxLease, g \in SeqHandles : owns(g, n)' <=> g # h /\ owns(g, n)
    BY <1>0, <1>2, <1>3 DEF Moves, owns, Numbers
  <2>3. \A g \in SeqHandles : handle'[g].pc = "release" => ~ handle'[g].erred
    BY <1>2, <1>3, <2>1 DEF OneOwner, Moves
  <2>4. \A n \in 0 .. SeqMaxLease : n < lease.val /\ ~ owns(h, n) => n < lease'.val
    BY <1>0, <1>1, <2>1 DEF Numbers, owns
  <2>. QED BY <1>1, <2>1, <2>2, <2>3, <2>4 DEF OneOwner
<1>. QED BY <1>4, <1>5, <1>6 DEF SequenceInv

LEMMA DropKeeps == ASSUME SequenceInv, NEW h \in SeqHandles, dropHandle(h) PROVE SequenceInv'
<1>. USE SequenceAssumption
<1>0. SequenceType /\ Numbers
  BY SequenceNumbers DEF SequenceInv
<1>1. PICK r \in Handles : /\ handle' = [handle EXCEPT ![h] = r] /\ r.pc = "none" /\ r.next = 0 /\ r.leased = 0
  BY Dropped DEF dropHandle
<1>2. Moves(h, r, FALSE)
  BY <1>0, <1>1, MovesAlone
<1>3. UNCHANGED <<lease, seqFails, given, reused>>
  BY DEF dropHandle
<1>4. SequenceType'
  <2>1. \A g \in SeqHandles : handle'[g].next <= handle'[g].leased
    BY <1>0, <1>1, <1>2 DEF Moves, Numbers
  <2>. QED BY <1>0, <1>2, <1>3, <2>1 DEF SequenceType, Moves
<1>5. FreshTxn'
  BY <1>0, <1>1, <1>2, <1>3 DEF SequenceInv, FreshTxn, Moves
<1>6. ~ reused' => OneOwner'
  BY <1>0, <1>1, <1>2, <1>3 DEF SequenceInv, OneOwner, owns, Moves
<1>. QED BY <1>4, <1>5, <1>6 DEF SequenceInv

-----------------------------------------------------------------------------
(* GetSequence, Next, Release, their failed commits and restarts keep the  *)
(* types, the freshness of what may commit and the owners of the numbers.  *)
THEOREM SequenceInvariant == SequenceSpec => []SequenceInv
<1>1. ASSUME SequenceInv, [SequenceNext]_sequenceVars PROVE SequenceInv'
  <2>1. CASE SequenceNext
    BY <1>1, <2>1, GetKeeps, NextKeeps, RenewKeeps, LeaseKeeps, LeaseFailureKeeps, ReleaseKeeps,
       ReleaseCommitKeeps, ReleaseFailureKeeps, DropKeeps DEF SequenceNext
  <2>2. CASE UNCHANGED sequenceVars
    BY <1>1, <2>2 DEF SequenceInv, sequenceVars, SequenceType, FreshTxn, OneOwner, owns
  <2>. QED BY <1>1, <2>1, <2>2
<1>. QED BY <1>1, SequenceStarts, PTL DEF SequenceSpec

(* Next returns no number twice, by one handle or by several, in one run   *)
(* of the program or in many, as long as no handle is used after it has    *)
(* reported an error.                                                      *)
THEOREM SequenceNumbersUnique == SequenceSpec => []SequenceUniqueClean
<1>1. SequenceInv => SequenceUniqueClean
  BY DEF SequenceInv, OneOwner, SequenceUniqueClean, SequenceUnique
<1>. QED BY <1>1, SequenceInvariant, PTL

-----------------------------------------------------------------------------
(***************************************************************************)
(* Heat map.                                                               *)
(***************************************************************************)

-----------------------------------------------------------------------------
(* Sequences of anything.                                                  *)
LEMMA SeqIsTuple ==
  ASSUME NEW T, NEW s \in Seq(T)
  PROVE  isTuple(s) /\ Len(s) \in Nat
<1>1. Len(s) \in Nat /\ s \in [1 .. Len(s) -> T]
  OBVIOUS
<1>2. s \in [1 .. Len(s) -> {s[i] : i \in DOMAIN s}]
  BY <1>1
<1>. QED BY <1>1, <1>2 DEF isTuple, ToSet

LEMMA EmptyIsTuple ==
  isTuple(<<>>)
<1>1. <<>> \in Seq({})
  OBVIOUS
<1>. QED BY <1>1, SeqIsTuple

LEMMA FunctionIsTuple ==
  ASSUME NEW n \in Nat, NEW f, f = [i \in 1 .. n |-> f[i]]
  PROVE  isTuple(f) /\ Len(f) = n
<1>1. f \in [1 .. n -> {f[i] : i \in 1 .. n}]
  OBVIOUS
<1>2. f \in Seq({f[i] : i \in 1 .. n}) /\ Len(f) = n
  BY <1>1
<1>. QED BY <1>2, SeqIsTuple

LEMMA TupleFacts ==
  ASSUME NEW s, isTuple(s)
  PROVE  /\ Len(s) \in Nat /\ DOMAIN s = 1 .. Len(s) /\ s = [i \in 1 .. Len(s) |-> s[i]]
         /\ (s = <<>> <=> Len(s) = 0)
<1>1. PICK T : s \in Seq(T)
  BY DEF isTuple
<1>. QED BY <1>1

LEMMA SeqMonotone ==
  ASSUME NEW S, NEW T, \A x \in S : x \in T, NEW s \in Seq(S)
  PROVE  s \in Seq(T)
OBVIOUS

replaced(s, n, e) == [s EXCEPT ![n] = e]
LEMMA TupleExcept ==
  ASSUME NEW s, isTuple(s), NEW n, NEW e
  PROVE  /\ isTuple(replaced(s, n, e)) /\ Len(replaced(s, n, e)) = Len(s)
         /\ \A i \in 1 .. Len(s) : replaced(s, n, e)[i] = IF i = n THEN e ELSE s[i]
<1>. DEFINE t == [s EXCEPT ![n] = e]
<1>1. Len(s) \in Nat /\ DOMAIN s = 1 .. Len(s)
  BY TupleFacts
<1>2. t = [i \in 1 .. Len(s) |-> t[i]] /\ \A i \in 1 .. Len(s) : t[i] = IF i = n THEN e ELSE s[i]
  BY <1>1
<1>3. replaced(s, n, e) = t
  BY DEF replaced
<1>. HIDE DEF t
<1>4. isTuple(t) /\ Len(t) = Len(s)
  BY <1>1, <1>2, FunctionIsTuple
<1>. QED BY <1>2, <1>3, <1>4

LEMMA TupleAppend ==
  ASSUME NEW s, isTuple(s), NEW e
  PROVE  /\ isTuple(Append(s, e)) /\ Len(Append(s, e)) = Len(s) + 1 /\ Append(s, e)[Len(s) + 1] = e
         /\ \A i \in 1 .. Len(s) : Append(s, e)[i] = s[i]
<1>1. PICK T : T = ToSet(s) \cup {e}
  OBVIOUS
<1>2. s \in Seq(T) /\ e \in T
  BY <1>1 DEF isTuple
<1>3. /\ Append(s, e) \in Seq(T) /\ Len(Append(s, e)) = Len(s) + 1 /\ Append(s, e)[Len(s) + 1] = e
      /\ \A i \in 1 .. Len(s) : Append(s, e)[i] = s[i]
  BY <1>2
<1>4. isTuple(Append(s, e))
  BY <1>3, SeqIsTuple
<1>. QED BY <1>3, <1>4

LEMMA TupleConcat ==
  ASSUME NEW s, isTuple(s), NEW t, isTuple(t)
  PROVE  /\ isTuple(s \o t) /\ Len(s \o t) = Len(s) + Len(t)
         /\ \A i \in 1 .. Len(s) + Len(t) : (s \o t)[i] = IF i <= Len(s) THEN s[i] ELSE t[i - Len(s)]
<1>1. PICK T : T = ToSet(s) \cup ToSet(t)
  OBVIOUS
<1>2. s \in Seq(T) /\ t \in Seq(T)
  BY <1>1 DEF isTuple
<1>3. /\ s \o t \in Seq(T) /\ Len(s \o t) = Len(s) + Len(t)
      /\ \A i \in 1 .. Len(s) + Len(t) : (s \o t)[i] = IF i <= Len(s) THEN s[i] ELSE t[i - Len(s)]
  BY <1>2
<1>4. isTuple(s \o t)
  BY <1>3, SeqIsTuple
<1>. QED BY <1>3, <1>4

LEMMA TupleFront ==
  ASSUME NEW s, isTuple(s), s # <<>>
  PROVE  /\ isTuple(Front(s)) /\ Len(Front(s)) = Len(s) - 1 /\ \A i \in 1 .. Len(s) - 1 : Front(s)[i] = s[i]
         /\ Last(s) = s[Len(s)] /\ Len(s) \in 1 .. Len(s)
<1>1. Len(s) \in Nat /\ Len(s) > 0
  BY TupleFacts
<1>2. PICK T : s \in Seq(T)
  BY DEF isTuple
<1>3. Front(s) \in Seq(T) /\ Len(Front(s)) = Len(s) - 1 /\ \A i \in 1 .. Len(s) - 1 : Front(s)[i] = s[i]
  <2>1. Len(s) - 1 \in Nat /\ 1 <= Len(s) /\ Len(s) - 1 <= Len(s)
    BY <1>1
  <2>2. PICK m \in Nat : m = Len(s) - 1
    BY <2>1
  <2>3. SubSeq(s, 1, m) \in Seq(T)
    BY <1>2, <2>1, <2>2
  <2>4. Len(SubSeq(s, 1, m)) = m /\ \A i \in 1 .. m : SubSeq(s, 1, m)[i] = s[i]
    BY <1>2, <2>1, <2>2
  <2>. QED BY <2>2, <2>3, <2>4 DEF Front
<1>4. isTuple(Front(s))
  BY <1>3, SeqIsTuple
<1>5. Len(s) \in 1 .. Len(s)
  BY <1>1
<1>. QED BY <1>3, <1>4, <1>5 DEF Last

-----------------------------------------------------------------------------
(* A set of naturals has a least member; induction over a sequence is a    *)
(* least counterexample.                                                   *)
LEMMA LeastNat ==
  ASSUME NEW S \in SUBSET Nat, S # {}
  PROVE  /\ \E x \in S : \A y \in S : x <= y
         /\ Min(S) \in S
<1>1. PICK x \in S : \A y \in S : ~ (<<y, x>> \in OpToRel(<, Nat))
  BY NatLessThanWellFounded, WFMin
<1>2. ASSUME NEW y \in S PROVE x <= y
  <2>1. y \in Nat /\ x \in Nat
    OBVIOUS
  <2>2. ~ (y < x)
    BY <1>1, <2>1 DEF OpToRel
  <2>. QED BY <2>1, <2>2
<1>. QED BY <1>2 DEF Min

(* What FlattenSeq computes, as far as its length goes.                    *)
Flattens(s, k, f) == f = [i \in 1 .. k |-> IF i = 1 THEN s[i] ELSE f[i - 1] \o s[i]]

LEMMA FlattenExists ==
  ASSUME NEW s, NEW n \in Nat, n > 0
  PROVE  \E f : Flattens(s, n, f)
<1>. DEFINE Bad == {k \in Nat : k > 0 /\ ~ \E f : Flattens(s, k, f)}
<1>. SUFFICES ASSUME Bad # {} PROVE FALSE
  OBVIOUS
<1>1. PICK k \in Bad : \A j \in Bad : k <= j
  <2>. Bad \in SUBSET Nat
    OBVIOUS
  <2>. HIDE DEF Bad
  <2>. QED BY LeastNat
<1>2. k \in Nat /\ k > 0 /\ ~ \E f : Flattens(s, k, f)
  OBVIOUS
<1>3. k # 1
  <2>1. Flattens(s, 1, [i \in 1 .. 1 |-> s[i]])
    BY DEF Flattens
  <2>. QED BY <1>2, <2>1
<1>4. PICK g : Flattens(s, k - 1, g)
  <2>1. k - 1 \in Nat /\ k - 1 > 0 /\ ~ (k <= k - 1)
    BY <1>2, <1>3
  <2>. QED BY <1>1, <2>1
<1>5. Flattens(s, k, [i \in 1 .. k |-> IF i = k THEN g[k - 1] \o s[k] ELSE g[i]])
  <2>. DEFINE f == [i \in 1 .. k |-> IF i = k THEN g[k - 1] \o s[k] ELSE g[i]]
  <2>1. \A i \in 1 .. k : f[i] = IF i = 1 THEN s[i] ELSE f[i - 1] \o s[i]
    <3>. SUFFICES ASSUME NEW i \in 1 .. k PROVE f[i] = IF i = 1 THEN s[i] ELSE f[i - 1] \o s[i]
      OBVIOUS
    <3>1. CASE i = k
      <4>1. k - 1 \in 1 .. k /\ k - 1 # k
        BY <1>2, <1>3
      <4>. QED BY <1>3, <3>1, <4>1
    <3>2. CASE i # k
      <4>1. i \in 1 .. k - 1 /\ f[i] = g[i]
        BY <1>2, <3>2
      <4>2. g[i] = IF i = 1 THEN s[i] ELSE g[i - 1] \o s[i]
        BY <1>4, <4>1 DEF Flattens
      <4>3. i # 1 => i - 1 \in 1 .. k /\ i - 1 # k
        BY <1>2, <4>1
      <4>. QED BY <4>1, <4>2, <4>3
    <3>. QED BY <3>1, <3>2
  <2>. QED BY <2>1 DEF Flattens
<1>. QED BY <1>2, <1>5

LEMMA FlattenIsTuple ==
  ASSUME NEW s, isTuple(s), \A i \in 1 .. Len(s) : isTuple(s[i])
  PROVE  isTuple(FlattenSeq(s))
<1>. DEFINE n == Len(s)
            f == CHOOSE g : Flattens(s, n, g)
<1>1. n \in Nat
  BY TupleFacts
<1>2. CASE n = 0
  BY <1>2 DEF FlattenSeq
<1>3. CASE n > 0
  <2>1. Flattens(s, n, f)
    <3>1. \E g : Flattens(s, n, g)
      BY <1>1, <1>3, FlattenExists
    <3>. QED BY <3>1
  <2>2. FlattenSeq(s) = f[n]
    BY <1>1, <1>3 DEF FlattenSeq, Flattens
  <2>. HIDE DEF f
  <2>3. \A k \in 1 .. n : isTuple(f[k])
    <3>. DEFINE Bad == {k \in Nat : k \in 1 .. n /\ ~ isTuple(f[k])}
    <3>. SUFFICES ASSUME Bad # {} PROVE FALSE
      BY <1>1
    <3>1. PICK k \in Bad : \A j \in Bad : k <= j
      <4>. Bad \in SUBSET Nat
        OBVIOUS
      <4>. HIDE DEF Bad
      <4>. QED BY LeastNat
    <3>2. k \in 1 .. n /\ f[k] = IF k = 1 THEN s[k] ELSE f[k - 1] \o s[k]
      BY <2>1 DEF Flattens
    <3>3. k # 1 => isTuple(f[k - 1])
      <4>1. k # 1 => k - 1 \in 1 .. n /\ k - 1 \in Nat /\ ~ (k <= k - 1)
        BY <1>1, <3>2
      <4>. QED BY <3>1, <4>1
    <3>4. isTuple(f[k])
      BY <3>2, <3>3, TupleConcat
    <3>. QED BY <3>4
  <2>. QED BY <1>1, <1>3, <2>2, <2>3
<1>. QED BY <1>1, <1>2, <1>3

-----------------------------------------------------------------------------
(* The pool.                                                               *)
StatsMade(r) == DOMAIN r = {"active", "writes", "epochStart", "ratio", "samples"} /\ isTuple(r.samples)
PoolOk(sl, free) ==
  /\ isTuple(sl) /\ free \in Seq(1 .. Len(sl)) /\ \A i \in 1 .. Len(sl) : StatsMade(sl[i])
  /\ \A i, j \in 1 .. Len(free) : free[i] = free[j] => i = j
isFree(free, s) == \E i \in 1 .. Len(free) : free[i] = s

(* What AllocateStats gives: d slots that were free or did not exist.      *)
Allotted(sl, free, d, ids, sl2, free2) ==
  /\ Len(sl2) \in Nat /\ Len(sl) <= Len(sl2) /\ isTuple(ids) /\ Len(ids) = d
  /\ \A j \in 1 .. d : /\ ids[j] \in 1 .. Len(sl2) /\ sl2[ids[j]].active /\ ~ isFree(free2, ids[j])
                       /\ isFree(free, ids[j]) \/ ids[j] > Len(sl)
  /\ \A i, j \in 1 .. d : ids[i] = ids[j] => i = j
  /\ \A i \in 1 .. Len(sl) : ~ isFree(free, i) => sl2[i] = sl[i] /\ ~ isFree(free2, i)

Allots(sl, free, sts, ids, sl2, free2) ==
  LET n == Len(sl)
      f == Len(free)
      d == Len(sts)
      more == IF d > f THEN d - f ELSE 0
      owner(i) == {j \in 1 .. d : ids[j] = i}
  IN  /\ ids = [j \in 1 .. d |-> IF j <= f THEN free[f - j + 1] ELSE n + j - f]
      /\ free2 = SubSeq(free, 1, f + more - d) /\ sl2 = [i \in 1 .. n + more |-> sl2[i]]
      /\ \A i \in 1 .. n + more : IF owner(i) = {} THEN sl2[i] = sl[i] ELSE \E j \in owner(i) : sl2[i] = sts[j]

LEMMA AllocateFields ==
  ASSUME NEW p, NEW sts, NEW a, a = AllocateStats(p, sts)
  PROVE  Allots(p.slots, p.free, sts, a.ids, a.pool.slots, a.pool.free)
<1>. DEFINE f == Len(p.free)
            d == Len(sts)
            more == IF d > f THEN d - f ELSE 0
            ids == [j \in 1 .. d |-> IF j <= f THEN p.free[f - j + 1] ELSE Len(p.slots) + j - f]
            owner(i) == {j \in 1 .. d : ids[j] = i}
            sl2 == [i \in 1 .. Len(p.slots) + more |->
                      IF owner(i) = {} THEN p.slots[i] ELSE sts[CHOOSE j \in owner(i) : TRUE]]
<1>1. a.ids = ids /\ a.pool.slots = sl2 /\ a.pool.free = SubSeq(p.free, 1, f + more - d)
  BY DEF AllocateStats, Pool
<1>2. \A i \in 1 .. Len(p.slots) + more : IF owner(i) = {} THEN sl2[i] = p.slots[i]
                                         ELSE \E j \in owner(i) : sl2[i] = sts[j]
  <2>. HIDE DEF owner
  <2>. QED OBVIOUS
<1>3. sl2 = [i \in 1 .. Len(p.slots) + more |-> sl2[i]]
  OBVIOUS
<1>. HIDE DEF sl2
<1>4. Allots(p.slots, p.free, sts, ids, sl2, SubSeq(p.free, 1, f + more - d))
  BY <1>2, <1>3, Zenon DEF Allots
<1>. QED BY <1>1, <1>4, Zenon

LEMMA AllotsMore ==
  ASSUME NEW sl, NEW free, PoolOk(sl, free), NEW sts, isTuple(sts),
         \A j \in 1 .. Len(sts) : StatsMade(sts[j]) /\ sts[j].active,
         NEW ids, NEW sl2, NEW free2, Allots(sl, free, sts, ids, sl2, free2)
  PROVE  PoolOk(sl2, free2) /\ Allotted(sl, free, Len(sts), ids, sl2, free2)
<1>1. PICK n, f, d, more :
        /\ n = Len(sl) /\ f = Len(free) /\ d = Len(sts) /\ more = IF d > f THEN d - f ELSE 0
  OBVIOUS
<1>. DEFINE owner(i) == {j \in 1 .. d : ids[j] = i}
<1>a. ids = [j \in 1 .. d |-> IF j <= f THEN free[f - j + 1] ELSE n + j - f]
  BY <1>1 DEF Allots
<1>b. free2 = SubSeq(free, 1, f + more - d)
  BY <1>1 DEF Allots
<1>c. sl2 = [i \in 1 .. n + more |-> sl2[i]]
  BY <1>1 DEF Allots
<1>d. \A i \in 1 .. n + more : IF owner(i) = {} THEN sl2[i] = sl[i] ELSE \E j \in owner(i) : sl2[i] = sts[j]
  BY <1>1 DEF Allots
<1>2. /\ n \in Nat /\ d \in Nat /\ f \in Nat /\ more \in Nat /\ free \in Seq(1 .. n) /\ f = Len(free)
      /\ more = IF d > f THEN d - f ELSE 0
  BY <1>1, TupleFacts DEF PoolOk
<1>3. isTuple(ids) /\ Len(ids) = d /\ isTuple(sl2) /\ Len(sl2) = n + more
  <2>1. n + more \in Nat
    BY <1>2
  <2>2. ids = [i \in 1 .. d |-> ids[i]]
    BY <1>a, <1>2
  <2>3. isTuple(ids) /\ Len(ids) = d
    BY <1>2, <2>2, FunctionIsTuple
  <2>4. isTuple(sl2) /\ Len(sl2) = n + more
    BY <1>c, <2>1, FunctionIsTuple
  <2>. QED BY <2>3, <2>4
<1>4. \A i \in 1 .. f : free[i] \in 1 .. n
  BY <1>2
<1>5. \A j \in 1 .. d : /\ ids[j] \in 1 .. n + more
                        /\ j <= f => f - j + 1 \in 1 .. f /\ ids[j] = free[f - j + 1]
                        /\ j > f => ids[j] = n + j - f
  <2>1. ASSUME NEW j \in 1 .. d
        PROVE  ids[j] = IF j <= f THEN free[f - j + 1] ELSE n + j - f
    BY <1>a
  <2>2. ASSUME NEW j \in 1 .. d, j <= f PROVE f - j + 1 \in 1 .. f
    BY <1>2, <2>2
  <2>3. ASSUME NEW j \in 1 .. d, j > f PROVE n + j - f \in 1 .. n + more /\ ~ (j <= f)
    BY <1>2, <2>3
  <2>4. 1 .. n \subseteq 1 .. n + more
    BY <1>2
  <2>5. ASSUME NEW j \in 1 .. d PROVE j <= f \/ j > f
    BY <1>2
  <2>. QED BY <1>4, <2>1, <2>2, <2>3, <2>4, <2>5
<1>6. \A i, j \in 1 .. d : ids[i] = ids[j] => i = j
  <2>1. ASSUME NEW i \in 1 .. d, NEW j \in 1 .. d, ids[i] = ids[j] PROVE i = j
    <3>1. CASE i <= f /\ j <= f
      <4>1. f - i + 1 = f - j + 1
        <5>1. /\ f - i + 1 \in 1 .. f /\ f - j + 1 \in 1 .. f /\ free[f - i + 1] = free[f - j + 1]
          BY <1>5, <2>1, <3>1
        <5>. QED BY <1>1, <5>1 DEF PoolOk
      <4>. QED BY <1>2, <4>1
    <3>2. CASE i > f /\ j > f
      BY <1>2, <1>5, <2>1, <3>2
    <3>3. CASE i <= f /\ j > f
      <4>1. ids[j] > n
        BY <1>2, <1>5, <3>3
      <4>2. ids[i] \in 1 .. n
        BY <1>2, <1>4, <1>5, <3>3
      <4>. QED BY <1>2, <2>1, <4>1, <4>2
    <3>4. CASE i > f /\ j <= f
      <4>1. ids[i] > n
        BY <1>2, <1>5, <3>4
      <4>2. ids[j] \in 1 .. n
        BY <1>2, <1>4, <1>5, <3>4
      <4>. QED BY <1>2, <2>1, <4>1, <4>2
    <3>. QED BY <1>2, <3>1, <3>2, <3>3, <3>4
  <2>. QED BY <2>1
<1>7. /\ free2 \in Seq(1 .. n) /\ Len(free2) = (IF d > f THEN 0 ELSE f - d)
      /\ \A i \in 1 .. Len(free2) : free2[i] = free[i] /\ i \in 1 .. f /\ d <= f /\ i <= f - d
  <2>1. PICK m : m = f + more - d
    OBVIOUS
  <2>2. m \in Nat /\ m <= f /\ m = (IF d > f THEN 0 ELSE f - d)
    BY <1>2, <2>1
  <2>3. /\ SubSeq(free, 1, m) \in Seq(1 .. n) /\ Len(SubSeq(free, 1, m)) = m
        /\ \A i \in 1 .. m : SubSeq(free, 1, m)[i] = free[i]
    BY <1>2, <2>2
  <2>. QED BY <1>b, <1>2, <2>1, <2>2, <2>3
<1>8. \A i \in n + 1 .. n + more : owner(i) # {}
  <2>1. ASSUME NEW i \in n + 1 .. n + more PROVE owner(i) # {}
    <3>1. f + (i - n) \in 1 .. d /\ f + (i - n) > f /\ n + (f + (i - n)) - f = i
      BY <1>2
    <3>2. ids[f + (i - n)] = i
      BY <1>5, <3>1
    <3>. QED BY <3>1, <3>2
  <2>. QED BY <2>1
<1>9. \A i \in 1 .. n + more : owner(i) # {} => \E j \in 1 .. d : sl2[i] = sts[j]
  BY <1>d
<1>10. \A i \in 1 .. n + more : StatsMade(sl2[i])
  <2>1. \A i \in 1 .. n + more : owner(i) = {} => i \in 1 .. n /\ sl2[i] = sl[i]
    <3>. HIDE DEF owner
    <3>. QED BY <1>d, <1>2, <1>8
  <2>. HIDE DEF owner
  <2>. QED BY <1>1, <1>9, <2>1 DEF PoolOk
<1>11. \A j \in 1 .. d : sl2[ids[j]].active
  <2>1. \A j \in 1 .. d : owner(ids[j]) # {} /\ ids[j] \in 1 .. n + more
    BY <1>5
  <2>. HIDE DEF owner
  <2>2. ASSUME NEW j \in 1 .. d PROVE sl2[ids[j]].active
    <3>1. PICK k \in 1 .. d : sl2[ids[j]] = sts[k]
      BY <1>9, <2>1
    <3>. QED BY <1>1, <3>1
  <2>. QED BY <2>2
<1>12. \A j \in 1 .. d : ~ isFree(free2, ids[j]) /\ (isFree(free, ids[j]) \/ ids[j] > n)
  <2>1. ASSUME NEW j \in 1 .. d PROVE ~ isFree(free2, ids[j]) /\ (isFree(free, ids[j]) \/ ids[j] > n)
    <3>1. CASE j <= f
      <4>1. ASSUME NEW i \in 1 .. Len(free2), free2[i] = ids[j] PROVE FALSE
        <5>1. i \in 1 .. f /\ free[i] = free[f - j + 1] /\ f - j + 1 \in 1 .. f /\ i <= f - d
          BY <1>5, <1>7, <3>1, <4>1
        <5>2. i = f - j + 1
          BY <1>1, <5>1 DEF PoolOk
        <5>. QED BY <1>2, <5>1, <5>2
      <4>2. isFree(free, ids[j])
        BY <1>1, <1>5, <3>1 DEF isFree
      <4>. QED BY <4>1, <4>2 DEF isFree
    <3>2. CASE j > f
      <4>1. ids[j] > n
        BY <1>2, <1>5, <3>2
      <4>2. \A i \in 1 .. Len(free2) : free2[i] \in 1 .. n
        BY <1>4, <1>7
      <4>. QED BY <1>2, <4>1, <4>2 DEF isFree
    <3>. QED BY <1>2, <3>1, <3>2
  <2>. QED BY <2>1
<1>13. \A i \in 1 .. n : ~ isFree(free, i) => sl2[i] = sl[i] /\ ~ isFree(free2, i)
  <2>1. ASSUME NEW i \in 1 .. n, ~ isFree(free, i) PROVE sl2[i] = sl[i] /\ ~ isFree(free2, i)
    <3>1. owner(i) = {}
      BY <1>2, <1>12, <2>1
    <3>2. sl2[i] = sl[i]
      <4>1. i \in 1 .. n + more
        BY <1>2
      <4>. HIDE DEF owner
      <4>. QED BY <1>d, <3>1, <4>1
    <3>3. ~ isFree(free2, i)
      BY <1>1, <1>7, <2>1 DEF isFree
    <3>. QED BY <3>2, <3>3
  <2>. QED BY <2>1
<1>14. PoolOk(sl2, free2)
  <2>1. free2 \in Seq(1 .. n + more)
    <3>1. \A i \in 1 .. n : i \in 1 .. n + more
      BY <1>2
    <3>2. free2 \in Seq(1 .. n)
      BY <1>7
    <3>. QED BY <3>1, <3>2, SeqMonotone
  <2>2. \A i, j \in 1 .. Len(free2) : free2[i] = free2[j] => i = j
    BY <1>1, <1>7 DEF PoolOk
  <2>. QED BY <1>3, <1>10, <2>1, <2>2 DEF PoolOk
<1>15. Allotted(sl, free, d, ids, sl2, free2)
  <2>1. n + more \in Nat /\ n <= n + more
    BY <1>2
  <2>. QED BY <1>1, <1>3, <1>5, <1>6, <1>11, <1>12, <1>13, <2>1 DEF Allotted
<1>. QED BY <1>1, <1>14, <1>15

(* The owners of slots: own[n] is the slot of node n, or 0.                *)
Owners(k, own, sl, free) ==
  \A n \in 1 .. k : /\ own[n] \in 0 .. Len(sl)
                    /\ own[n] # 0 => /\ sl[own[n]].active /\ ~ isFree(free, own[n])
                                     /\ \A m \in 1 .. k : own[m] = own[n] => m = n
SameBut(k, own, own2, n) == \A m \in 1 .. k : m # n => own2[m] = own[m]

LEMMA AllotNew ==
  ASSUME NEW k \in Nat, NEW d \in Nat, NEW own, NEW sl, NEW free, Owners(k, own, sl, free), PoolOk(sl, free),
         NEW ids, NEW sl2, NEW free2, Allotted(sl, free, d, ids, sl2, free2),
         NEW own2, \A n \in 1 .. k : own2[n] = own[n], \A j \in 1 .. d : own2[k + j] = ids[j]
  PROVE  Owners(k + d, own2, sl2, free2)
<1>1. Len(sl) \in Nat /\ Len(sl2) \in Nat /\ Len(sl) <= Len(sl2)
  BY TupleFacts DEF PoolOk, Allotted
<1>2. ASSUME NEW n \in 1 .. k, own[n] # 0
      PROVE  /\ own[n] \in 1 .. Len(sl) /\ own[n] \in 1 .. Len(sl2) /\ sl2[own[n]].active
             /\ ~ isFree(free2, own[n]) /\ \A j \in 1 .. d : ids[j] # own[n]
  <2>1. own[n] \in 1 .. Len(sl) /\ sl[own[n]].active /\ ~ isFree(free, own[n])
    BY <1>1, <1>2 DEF Owners
  <2>2. sl2[own[n]] = sl[own[n]] /\ ~ isFree(free2, own[n])
    BY <2>1 DEF Allotted
  <2>3. ASSUME NEW j \in 1 .. d, ids[j] = own[n] PROVE FALSE
    <3>1. ids[j] > Len(sl) /\ ids[j] \in 1 .. Len(sl2)
      BY <2>1, <2>3 DEF Allotted
    <3>. QED BY <1>1, <2>1, <2>3, <3>1
  <2>4. own[n] \in 1 .. Len(sl2)
    BY <1>1, <2>1
  <2>. QED BY <2>1, <2>2, <2>3, <2>4
<1>3. ASSUME NEW j \in 1 .. d
      PROVE  ids[j] \in 1 .. Len(sl2) /\ ids[j] # 0 /\ sl2[ids[j]].active /\ ~ isFree(free2, ids[j])
  <2>1. ids[j] \in 1 .. Len(sl2) /\ sl2[ids[j]].active /\ ~ isFree(free2, ids[j])
    BY DEF Allotted
  <2>. QED BY <1>1, <2>1
<1>4. ASSUME NEW m \in 1 .. k + d PROVE m \in 1 .. k \/ \E j \in 1 .. d : m = k + j
  <2>1. m \in 1 .. k \/ (m - k \in 1 .. d /\ m = k + (m - k))
    BY <1>4
  <2>. QED BY <2>1
<1>5. ASSUME NEW n \in 1 .. k + d
      PROVE  /\ own2[n] \in 0 .. Len(sl2)
             /\ own2[n] # 0 => /\ sl2[own2[n]].active /\ ~ isFree(free2, own2[n])
                               /\ \A m \in 1 .. k + d : own2[m] = own2[n] => m = n
  <2>1. CASE n \in 1 .. k
    <3>1. own2[n] = own[n] /\ own[n] \in 0 .. Len(sl2)
      <4>1. own[n] \in 0 .. Len(sl) /\ own2[n] = own[n]
        BY <2>1 DEF Owners
      <4>. QED BY <1>1, <4>1
    <3>2. ASSUME own[n] # 0, NEW m \in 1 .. k + d, own2[m] = own2[n] PROVE m = n
      <4>1. CASE m \in 1 .. k
        BY <2>1, <3>1, <3>2, <4>1 DEF Owners
      <4>2. ASSUME NEW j \in 1 .. d, m = k + j PROVE FALSE
        BY <1>2, <2>1, <3>1, <3>2, <4>2
      <4>. QED BY <1>4, <4>1, <4>2
    <3>. QED BY <1>2, <2>1, <3>1, <3>2
  <2>2. ASSUME NEW i \in 1 .. d, n = k + i
        PROVE  /\ own2[n] \in 0 .. Len(sl2) /\ sl2[own2[n]].active /\ ~ isFree(free2, own2[n])
               /\ \A m \in 1 .. k + d : own2[m] = own2[n] => m = n
    <3>1. own2[n] = ids[i] /\ ids[i] \in 0 .. Len(sl2)
      <4>1. own2[n] = ids[i] /\ ids[i] \in 1 .. Len(sl2)
        BY <1>3, <2>2
      <4>. QED BY <1>1, <4>1
    <3>2. ASSUME NEW m \in 1 .. k + d, own2[m] = own2[n] PROVE m = n
      <4>1. CASE m \in 1 .. k
        <5>1. own[m] = ids[i] /\ own[m] # 0
          BY <1>3, <3>1, <3>2, <4>1
        <5>. QED BY <1>2, <4>1, <5>1
      <4>2. ASSUME NEW j \in 1 .. d, m = k + j PROVE m = n
        <5>1. ids[j] = ids[i]
          BY <3>1, <3>2, <4>2
        <5>. QED BY <2>2, <4>2, <5>1 DEF Allotted
      <4>. QED BY <1>4, <4>1, <4>2
    <3>. QED BY <1>3, <3>1, <3>2
  <2>. QED BY <1>4, <2>1, <2>2
<1>. QED BY <1>5 DEF Owners

LEMMA AllotOne ==
  ASSUME NEW k \in Nat, NEW n \in 1 .. k, NEW own, NEW sl, NEW free, Owners(k, own, sl, free), PoolOk(sl, free),
         NEW ids, NEW sl2, NEW free2, Allotted(sl, free, 1, ids, sl2, free2),
         NEW own2, SameBut(k, own, own2, n), own2[n] = ids[1]
  PROVE  Owners(k, own2, sl2, free2)
<1>1. Len(sl) \in Nat /\ Len(sl2) \in Nat /\ Len(sl) <= Len(sl2)
  BY TupleFacts DEF PoolOk, Allotted
<1>2. /\ ids[1] \in 1 .. Len(sl2) /\ sl2[ids[1]].active /\ ~ isFree(free2, ids[1])
      /\ isFree(free, ids[1]) \/ ids[1] > Len(sl)
  BY DEF Allotted
<1>3. ASSUME NEW m \in 1 .. k, own[m] # 0
      PROVE  /\ own[m] \in 1 .. Len(sl2) /\ sl2[own[m]].active /\ ~ isFree(free2, own[m]) /\ own[m] # ids[1]
  <2>1. own[m] \in 1 .. Len(sl) /\ sl[own[m]].active /\ ~ isFree(free, own[m])
    BY <1>1, <1>3 DEF Owners
  <2>2. sl2[own[m]] = sl[own[m]] /\ ~ isFree(free2, own[m])
    BY <2>1 DEF Allotted
  <2>3. own[m] # ids[1]
    BY <1>1, <1>2, <2>1
  <2>4. own[m] \in 1 .. Len(sl2)
    BY <1>1, <2>1
  <2>. QED BY <2>1, <2>2, <2>3, <2>4
<1>4. ASSUME NEW m \in 1 .. k
      PROVE  /\ own2[m] \in 0 .. Len(sl2)
             /\ own2[m] # 0 => /\ sl2[own2[m]].active /\ ~ isFree(free2, own2[m])
                               /\ \A l \in 1 .. k : own2[l] = own2[m] => l = m
  <2>1. ids[1] \in 0 .. Len(sl2) /\ ids[1] # 0
    BY <1>1, <1>2
  <2>2. CASE m = n
    <3>1. ASSUME NEW l \in 1 .. k, own2[l] = own2[m] PROVE l = m
      BY <1>3, <2>1, <2>2, <3>1 DEF SameBut
    <3>. QED BY <1>2, <2>1, <2>2, <3>1
  <2>3. CASE m # n
    <3>1. own2[m] = own[m] /\ own[m] \in 0 .. Len(sl2)
      <4>1. own2[m] = own[m] /\ own[m] \in 0 .. Len(sl)
        BY <2>3 DEF SameBut, Owners
      <4>. QED BY <1>1, <4>1
    <3>2. ASSUME own[m] # 0, NEW l \in 1 .. k, own2[l] = own2[m] PROVE l = m
      <4>1. l # n
        BY <1>3, <3>1, <3>2
      <4>2. own[l] = own[m]
        BY <3>1, <3>2, <4>1 DEF SameBut
      <4>. QED BY <3>2, <4>2 DEF Owners
    <3>. QED BY <1>3, <3>1, <3>2
  <2>. QED BY <2>2, <2>3
<1>. QED BY <1>4 DEF Owners

(* What FreeStats does.                                                    *)
Freed(sl, free, s, sl2, free2) ==
  /\ Len(sl2) = Len(sl) /\ \A i \in 1 .. Len(sl) : i # s => sl2[i] = sl[i]
  /\ \A x : isFree(free2, x) <=> isFree(free, x) \/ x = s

LEMMA Frees ==
  ASSUME NEW sl, NEW free, PoolOk(sl, free), NEW s \in 1 .. Len(sl), ~ isFree(free, s),
         NEW p, p = FreeStats(Pool(sl, free), s)
  PROVE  PoolOk(p.slots, p.free) /\ Freed(sl, free, s, p.slots, p.free)
<1>1. p.slots = [sl EXCEPT ![s].active = FALSE, ![s].samples = <<>>] /\ p.free = Append(free, s)
  BY DEF FreeStats, Pool
<1>2. PICK r, sl2, free2 : /\ r = [sl[s] EXCEPT !.active = FALSE, !.samples = <<>>]
                           /\ sl2 = [sl EXCEPT ![s] = r] /\ free2 = Append(free, s)
  OBVIOUS
<1>3. isTuple(sl) /\ Len(sl) \in Nat /\ DOMAIN sl = 1 .. Len(sl)
  BY TupleFacts DEF PoolOk
<1>4. p.slots = sl2 /\ p.free = free2
  BY <1>1, <1>2, <1>3
<1>5. isTuple(sl2) /\ Len(sl2) = Len(sl) /\ \A i \in 1 .. Len(sl) : sl2[i] = IF i = s THEN r ELSE sl[i]
  <2>1. sl2 = replaced(sl, s, r)
    BY <1>2, Zenon DEF replaced
  <2>. QED BY <1>3, <2>1, TupleExcept
<1>6. StatsMade(r)
  <2>1. DOMAIN sl[s] = {"active", "writes", "epochStart", "ratio", "samples"}
    BY DEF PoolOk, StatsMade
  <2>2. DOMAIN r = DOMAIN sl[s] /\ r.samples = <<>>
    BY <1>2, <2>1
  <2>3. isTuple(<<>>)
    BY EmptyIsTuple
  <2>. QED BY <2>1, <2>2, <2>3 DEF StatsMade
<1>7. /\ free2 \in Seq(1 .. Len(sl)) /\ Len(free2) = Len(free) + 1 /\ Len(free) \in Nat
      /\ free2[Len(free) + 1] = s /\ \A i \in 1 .. Len(free) : free2[i] = free[i]
  BY <1>2 DEF PoolOk
<1>8. ASSUME NEW i \in 1 .. Len(free2) PROVE i = Len(free) + 1 \/ (i \in 1 .. Len(free) /\ i # Len(free) + 1)
  BY <1>7
<1>9. \A i, j \in 1 .. Len(free2) : free2[i] = free2[j] => i = j
  <2>1. ASSUME NEW i \in 1 .. Len(free2), NEW j \in 1 .. Len(free2), free2[i] = free2[j] PROVE i = j
    <3>1. CASE i \in 1 .. Len(free) /\ j \in 1 .. Len(free)
      BY <1>7, <2>1, <3>1 DEF PoolOk
    <3>2. CASE i \in 1 .. Len(free) /\ j = Len(free) + 1
      BY <1>7, <2>1, <3>2 DEF isFree
    <3>3. CASE i = Len(free) + 1 /\ j \in 1 .. Len(free)
      BY <1>7, <2>1, <3>3 DEF isFree
    <3>. QED BY <1>8, <3>1, <3>2, <3>3
  <2>. QED BY <2>1
<1>10. \A x : isFree(free2, x) <=> isFree(free, x) \/ x = s
  <2>1. ASSUME NEW x, isFree(free2, x) PROVE isFree(free, x) \/ x = s
    BY <1>7, <1>8, <2>1 DEF isFree
  <2>2. ASSUME NEW x, isFree(free, x) \/ x = s PROVE isFree(free2, x)
    <3>1. Len(free) + 1 \in 1 .. Len(free2) /\ \A i \in 1 .. Len(free) : i \in 1 .. Len(free2)
      BY <1>7
    <3>. QED BY <1>7, <2>2, <3>1 DEF isFree
  <2>. QED BY <2>1, <2>2
<1>11. PoolOk(sl2, free2)
  <2>1. \A i \in 1 .. Len(sl) : StatsMade(sl2[i])
    BY <1>5, <1>6 DEF PoolOk
  <2>. QED BY <1>5, <1>7, <1>9, <2>1 DEF PoolOk
<1>. QED BY <1>4, <1>5, <1>10, <1>11 DEF Freed

LEMMA FreeOwned ==
  ASSUME NEW k \in Nat, NEW n \in 1 .. k, NEW own, NEW sl, NEW free, Owners(k, own, sl, free), isTuple(sl),
         own[n] # 0, NEW sl2, NEW free2, Freed(sl, free, own[n], sl2, free2),
         NEW own2, SameBut(k, own, own2, n), own2[n] = 0
  PROVE  Owners(k, own2, sl2, free2)
<1>1. Len(sl) \in Nat /\ Len(sl2) = Len(sl)
  BY TupleFacts DEF Freed
<1>2. ASSUME NEW m \in 1 .. k, m # n, own[m] # 0
      PROVE  /\ own[m] \in 1 .. Len(sl) /\ own[m] # own[n] /\ sl2[own[m]].active /\ ~ isFree(free2, own[m])
             /\ \A l \in 1 .. k : own[l] = own[m] => l = m
  <2>1. /\ own[m] \in 1 .. Len(sl) /\ sl[own[m]].active /\ ~ isFree(free, own[m])
        /\ \A l \in 1 .. k : own[l] = own[m] => l = m
    BY <1>1, <1>2 DEF Owners
  <2>2. own[m] # own[n]
    BY <1>2, <2>1
  <2>. QED BY <2>1, <2>2 DEF Freed
<1>3. ASSUME NEW m \in 1 .. k
      PROVE  /\ own2[m] \in 0 .. Len(sl2)
             /\ own2[m] # 0 => /\ sl2[own2[m]].active /\ ~ isFree(free2, own2[m])
                               /\ \A l \in 1 .. k : own2[l] = own2[m] => l = m
  <2>1. CASE m = n
    BY <1>1, <2>1
  <2>2. CASE m # n
    <3>1. own2[m] = own[m] /\ own[m] \in 0 .. Len(sl2)
      BY <1>1, <2>2 DEF SameBut, Owners
    <3>2. ASSUME own[m] # 0, NEW l \in 1 .. k, own2[l] = own2[m] PROVE l = m
      <4>1. l # n
        BY <3>1, <3>2
      <4>2. own[l] = own[m]
        BY <3>1, <3>2, <4>1 DEF SameBut
      <4>. QED BY <1>2, <2>2, <3>2, <4>2
    <3>. QED BY <1>2, <2>2, <3>1, <3>2
  <2>. QED BY <2>1, <2>2
<1>. QED BY <1>3 DEF Owners

-----------------------------------------------------------------------------
(* The invariant, as a relation of the variables' values.                  *)
NodeMade(nd, n, k, m) ==
  /\ DOMAIN nd = {"start", "end", "seg", "leaf", "children", "splitKeys", "threshold", "stats"}
  /\ nd.leaf \in BOOLEAN /\ nd.stats \in 0 .. m
  /\ nd.children \in Seq(n + 1 .. k) /\ isTuple(nd.splitKeys)
  /\ ~ nd.leaf => nd.stats = 0 /\ nd.children # <<>>
TreeMade(nodes, m) ==
  isTuple(nodes) /\ nodes # <<>> /\ \A n \in 1 .. Len(nodes) : NodeMade(nodes[n], n, Len(nodes), m)
ownersOf(nodes) == [n \in 1 .. Len(nodes) |-> nodes[n].stats]
Core(nodes, sl, free) ==
  /\ TreeMade(nodes, Len(sl)) /\ PoolOk(sl, free)
  /\ Owners(Len(nodes), ownersOf(nodes), sl, free)

FrameMade(nodes, stack, k) ==
  LET f == stack[k] IN
  /\ DOMAIN f = {"node", "prefix", "zone", "kids", "next"} /\ f.next \in Nat
  /\ f.node \in 1 .. Len(nodes)
  /\ f.next > 0 => ~ nodes[f.node].leaf /\ f.kids \in Seq(f.node + 1 .. Len(nodes))
  /\ k < Len(stack) => f.next > 0
  /\ \A l \in k + 1 .. Len(stack) : f.node < stack[l].node
StackOk(nodes, stack) == isTuple(stack) /\ \A k \in 1 .. Len(stack) : FrameMade(nodes, stack, k)
VisitOk(nodes, pc, stack, i) ==
  /\ StackOk(nodes, stack)
  /\ pc \in {"walk", "check", "free", "fold"} => stack # <<>>
  /\ pc \in {"check", "free", "fold"} => ~ nodes[Last(stack).node].leaf
  /\ pc \in {"check", "free"} => i \in 1 .. Len(nodes[Last(stack).node].children)
SearchOk(nodes, sea) == DOMAIN sea = {"pc", "node", "key"} /\ sea.node \in 1 .. Len(nodes)
DecayOk(nodes, dec) ==
  DOMAIN dec = {"pc", "stack", "found", "i", "sum"} /\ VisitOk(nodes, dec.pc, dec.stack, dec.i)

LEMMA OwnersAre ==
  ASSUME NEW nodes, NEW sl, NEW free, TreeMade(nodes, Len(sl)), isTuple(free)
  PROVE  Owners(Len(nodes), ownersOf(nodes), sl, free)
           <=> \A n \in 1 .. Len(nodes) : nodes[n].stats # 0 =>
                 /\ sl[nodes[n].stats].active /\ nodes[n].stats \notin ToSet(free)
                 /\ \A m \in 1 .. Len(nodes) : nodes[m].stats = nodes[n].stats => m = n
<1>1. \A x : isFree(free, x) <=> x \in ToSet(free)
  <2>1. DOMAIN free = 1 .. Len(free)
    BY TupleFacts
  <2>. QED BY <2>1 DEF isFree, ToSet
<1>2. \A n \in 1 .. Len(nodes) : ownersOf(nodes)[n] = nodes[n].stats /\ nodes[n].stats \in 0 .. Len(sl)
  BY DEF ownersOf, TreeMade, NodeMade
<1>. QED BY <1>1, <1>2 DEF Owners

LEMMA InvariantIs ==
  /\ HeatInv <=> Core(heatNodes, slots, FreeList) /\ SearchOk(heatNodes, search) /\ DecayOk(heatNodes, decay)
  /\ HeatInv' <=> Core(heatNodes', slots', FreeList') /\ SearchOk(heatNodes', search') /\ DecayOk(heatNodes', decay')
<1>. DEFINE Owned == \A n \in 1 .. Len(heatNodes) : heatNodes[n].stats # 0 =>
                       /\ slots[heatNodes[n].stats].active /\ heatNodes[n].stats \notin ToSet(FreeList)
                       /\ \A m \in 1 .. Len(heatNodes) : heatNodes[m].stats = heatNodes[n].stats => m = n
            Once == \A i, j \in 1 .. Len(FreeList) : FreeList[i] = FreeList[j] => i = j
<1>1. (SlotsOwnedOnce <=> Once /\ Owned) /\ (SlotsOwnedOnce' <=> Once' /\ Owned')
  BY Zenon DEF SlotsOwnedOnce
<1>2. (NodesMade <=> TreeMade(heatNodes, Len(slots))) /\ (NodesMade' <=> TreeMade(heatNodes', Len(slots')))
  BY Zenon DEF NodesMade, TreeMade, NodeMade
<1>3. /\ PoolMade /\ Once <=> PoolOk(slots, FreeList)
      /\ PoolMade' /\ Once' <=> PoolOk(slots', FreeList')
  BY Zenon DEF PoolMade, PoolOk, StatsMade
<1>4. (SearchMade <=> SearchOk(heatNodes, search)) /\ (SearchMade' <=> SearchOk(heatNodes', search'))
  BY Zenon DEF SearchMade, SearchOk
<1>5. (DecayMade <=> DecayOk(heatNodes, decay)) /\ (DecayMade' <=> DecayOk(heatNodes', decay'))
  BY Zenon DEF DecayMade, DecayOk, StackMade, StackOk, FrameMade, VisitOk, top
<1>6. (PoolMade => isTuple(FreeList)) /\ (PoolMade' => isTuple(FreeList'))
  BY SeqIsTuple DEF PoolMade
<1>7. NodesMade /\ PoolMade => (Owned <=> Owners(Len(heatNodes), ownersOf(heatNodes), slots, FreeList))
  <2>. HIDE DEF Once
  <2>. QED BY <1>2, <1>6, OwnersAre
<1>8. NodesMade' /\ PoolMade' => (Owned' <=> Owners(Len(heatNodes'), ownersOf(heatNodes'), slots', FreeList'))
  <2>. HIDE DEF Once
  <2>. QED BY <1>2, <1>6, OwnersAre
<1>9. HeatInv <=> Core(heatNodes, slots, FreeList) /\ SearchOk(heatNodes, search) /\ DecayOk(heatNodes, decay)
  <2>. HIDE DEF Once, Owned
  <2>. QED BY <1>1, <1>2, <1>3, <1>4, <1>5, <1>7, Zenon DEF HeatInv, Core
<1>10. HeatInv' <=> Core(heatNodes', slots', FreeList') /\ SearchOk(heatNodes', search') /\ DecayOk(heatNodes', decay')
  <2>. HIDE DEF Once, Owned
  <2>. QED BY <1>1, <1>2, <1>3, <1>4, <1>5, <1>8, Zenon DEF HeatInv, Core
<1>. QED BY <1>9, <1>10

(* A tree that grew: routers keep their children.                          *)
Grows(nodes, nodes2) ==
  /\ Len(nodes) <= Len(nodes2)
  /\ \A n \in 1 .. Len(nodes) :
       ~ nodes[n].leaf => ~ nodes2[n].leaf /\ nodes2[n].children = nodes[n].children

LEMMA StackGrows ==
  ASSUME NEW nodes, NEW nodes2, Len(nodes) \in Nat, Len(nodes2) \in Nat, Grows(nodes, nodes2),
         NEW stack, StackOk(nodes, stack)
  PROVE  StackOk(nodes2, stack)
<1>1. ASSUME NEW k \in 1 .. Len(stack) PROVE FrameMade(nodes2, stack, k)
  <2>1. FrameMade(nodes, stack, k)
    BY DEF StackOk
  <2>2. PICK f : f = stack[k]
    OBVIOUS
  <2>3. /\ f.node \in 1 .. Len(nodes)
        /\ f.next > 0 => ~ nodes[f.node].leaf /\ f.kids \in Seq(f.node + 1 .. Len(nodes))
    BY <2>1, <2>2 DEF FrameMade
  <2>4. \A x \in f.node + 1 .. Len(nodes) : x \in f.node + 1 .. Len(nodes2)
    BY <2>3 DEF Grows
  <2>5. f.next > 0 => f.kids \in Seq(f.node + 1 .. Len(nodes2))
    BY <2>3, <2>4, SeqMonotone
  <2>6. f.node \in 1 .. Len(nodes2) /\ (f.next > 0 => ~ nodes2[f.node].leaf)
    BY <2>3 DEF Grows
  <2>. QED BY <2>1, <2>2, <2>5, <2>6 DEF FrameMade
<1>. QED BY <1>1 DEF StackOk

LEMMA VisitGrows ==
  ASSUME NEW nodes, NEW nodes2, Len(nodes) \in Nat, Len(nodes2) \in Nat, Grows(nodes, nodes2),
         NEW pc, NEW stack, NEW i, VisitOk(nodes, pc, stack, i)
  PROVE  VisitOk(nodes2, pc, stack, i)
<1>1. StackOk(nodes2, stack)
  BY StackGrows DEF VisitOk
<1>2. stack # <<>> => Last(stack).node \in 1 .. Len(nodes)
  <2>1. isTuple(stack)
    BY DEF VisitOk, StackOk
  <2>2. stack # <<>> => Last(stack) = stack[Len(stack)] /\ Len(stack) \in 1 .. Len(stack)
    BY <2>1, TupleFront
  <2>. QED BY <2>2 DEF VisitOk, StackOk, FrameMade
<1>. QED BY <1>1, <1>2 DEF VisitOk, Grows

LEMMA OthersGrow ==
  ASSUME NEW nodes, NEW nodes2, Len(nodes) \in Nat, Len(nodes2) \in Nat, Grows(nodes, nodes2)
  PROVE  /\ \A s : SearchOk(nodes, s) => SearchOk(nodes2, s)
         /\ \A d : DecayOk(nodes, d) => DecayOk(nodes2, d)
<1>1. \A s : SearchOk(nodes, s) => SearchOk(nodes2, s)
  BY DEF SearchOk, Grows
<1>2. ASSUME NEW d, DecayOk(nodes, d) PROVE DecayOk(nodes2, d)
  BY <1>2, VisitGrows DEF DecayOk
<1>. QED BY <1>1, <1>2

-----------------------------------------------------------------------------
(* Steps that change one slot or one node.                                 *)
LEMMA SlotChanged ==
  ASSUME NEW nodes, NEW sl, NEW free, Core(nodes, sl, free), NEW s, NEW r, StatsMade(r),
         s \in 1 .. Len(sl), r.active = sl[s].active, NEW sl2, sl2 = replaced(sl, s, r)
  PROVE  Core(nodes, sl2, free)
<1>1. isTuple(sl) /\ PoolOk(sl, free)
  BY DEF Core, PoolOk
<1>2. isTuple(sl2) /\ Len(sl2) = Len(sl) /\ \A i \in 1 .. Len(sl) : sl2[i] = IF i = s THEN r ELSE sl[i]
  BY <1>1, TupleExcept
<1>3. Len(sl) \in Nat
  BY <1>1, TupleFacts
<1>4. TreeMade(nodes, Len(sl)) /\ Owners(Len(nodes), ownersOf(nodes), sl, free)
  BY DEF Core
<1>5. PoolOk(sl2, free)
  <2>1. \A i \in 1 .. Len(sl) : StatsMade(sl2[i])
    BY <1>1, <1>2 DEF PoolOk
  <2>. QED BY <1>1, <1>2, <2>1 DEF PoolOk
<1>6. \A i \in 1 .. Len(sl) : sl2[i].active = sl[i].active
  BY <1>2
<1>7. Owners(Len(nodes), ownersOf(nodes), sl2, free)
  <2>1. ASSUME NEW n \in 1 .. Len(nodes), ownersOf(nodes)[n] # 0 PROVE sl2[ownersOf(nodes)[n]].active
    <3>1. ownersOf(nodes)[n] \in 1 .. Len(sl) /\ sl[ownersOf(nodes)[n]].active
      BY <1>3, <1>4, <2>1 DEF Owners
    <3>. QED BY <1>6, <3>1
  <2>. QED BY <1>2, <1>4, <2>1 DEF Owners
<1>8. TreeMade(nodes, Len(sl2))
  BY <1>2, <1>4
<1>. QED BY <1>5, <1>7, <1>8 DEF Core

LEMMA NodeChanged ==
  ASSUME NEW nodes, NEW m, TreeMade(nodes, m), NEW n \in 1 .. Len(nodes), NEW nd, NodeMade(nd, n, Len(nodes), m),
         NEW nodes2, nodes2 = replaced(nodes, n, nd)
  PROVE  /\ TreeMade(nodes2, m) /\ Len(nodes2) = Len(nodes) /\ Len(nodes) \in Nat
         /\ \A i \in 1 .. Len(nodes) : nodes2[i] = IF i = n THEN nd ELSE nodes[i]
<1>1. isTuple(nodes) /\ Len(nodes) \in Nat /\ Len(nodes) # 0
  BY TupleFacts DEF TreeMade
<1>2. /\ isTuple(nodes2) /\ Len(nodes2) = Len(nodes)
      /\ \A i \in 1 .. Len(nodes) : nodes2[i] = IF i = n THEN nd ELSE nodes[i]
  BY <1>1, TupleExcept
<1>3. TreeMade(nodes2, m)
  <2>1. nodes2 # <<>>
    BY <1>1, <1>2, TupleFacts
  <2>. QED BY <1>2, <2>1 DEF TreeMade
<1>. QED BY <1>1, <1>2, <1>3

(* AddSample with a very high ratio: only the threshold changes.           *)
LEMMA ThresholdChanged ==
  ASSUME NEW nodes, NEW sl, NEW free, Core(nodes, sl, free), NEW n \in 1 .. Len(nodes), NEW nd,
         nodes[n].leaf, nd.leaf = nodes[n].leaf, nd.stats = nodes[n].stats, nd.children = nodes[n].children,
         nd.splitKeys = nodes[n].splitKeys, DOMAIN nd = DOMAIN nodes[n],
         NEW nodes2, nodes2 = replaced(nodes, n, nd)
  PROVE  Core(nodes2, sl, free) /\ Grows(nodes, nodes2) /\ Len(nodes2) \in Nat
<1>1. TreeMade(nodes, Len(sl)) /\ PoolOk(sl, free) /\ Owners(Len(nodes), ownersOf(nodes), sl, free)
  BY DEF Core
<1>2. NodeMade(nd, n, Len(nodes), Len(sl))
  <2>1. NodeMade(nodes[n], n, Len(nodes), Len(sl))
    BY <1>1 DEF TreeMade
  <2>. QED BY <2>1 DEF NodeMade
<1>3. /\ TreeMade(nodes2, Len(sl)) /\ Len(nodes2) = Len(nodes) /\ Len(nodes) \in Nat
      /\ \A i \in 1 .. Len(nodes) : nodes2[i] = IF i = n THEN nd ELSE nodes[i]
  BY <1>1, <1>2, NodeChanged
<1>4. Grows(nodes, nodes2)
  BY <1>3 DEF Grows
<1>5. \A i \in 1 .. Len(nodes) : ownersOf(nodes2)[i] = ownersOf(nodes)[i]
  BY <1>3 DEF ownersOf
<1>6. Owners(Len(nodes), ownersOf(nodes2), sl, free)
  BY <1>1, <1>5 DEF Owners
<1>. QED BY <1>1, <1>3, <1>4, <1>6 DEF Core

(* freeChild: the child's slot goes to the free list.                      *)
LEMMA SlotFreed ==
  ASSUME NEW nodes, NEW sl, NEW free, Core(nodes, sl, free), NEW c \in 1 .. Len(nodes), nodes[c].stats # 0,
         NEW p, p = FreeStats(Pool(sl, free), nodes[c].stats),
         NEW nd, DOMAIN nd = DOMAIN nodes[c], nd.leaf = nodes[c].leaf, nd.children = nodes[c].children,
         nd.splitKeys = nodes[c].splitKeys, nd.stats = 0, NEW nodes2, nodes2 = replaced(nodes, c, nd)
  PROVE  Core(nodes2, p.slots, p.free) /\ Grows(nodes, nodes2) /\ Len(nodes2) \in Nat
<1>1. TreeMade(nodes, Len(sl)) /\ PoolOk(sl, free) /\ Owners(Len(nodes), ownersOf(nodes), sl, free)
  BY DEF Core
<1>3. PICK sl2, free2 : sl2 = p.slots /\ free2 = p.free
  OBVIOUS
<1>4. Len(sl) \in Nat /\ isTuple(sl)
  BY <1>1, TupleFacts DEF PoolOk
<1>5. NodeMade(nodes[c], c, Len(nodes), Len(sl)) /\ isTuple(nodes)
  BY <1>1 DEF TreeMade
<1>6. NodeMade(nd, c, Len(nodes), Len(sl))
  BY <1>4, <1>5 DEF NodeMade
<1>8. /\ TreeMade(nodes2, Len(sl)) /\ Len(nodes2) = Len(nodes) /\ Len(nodes) \in Nat
      /\ \A i \in 1 .. Len(nodes) : nodes2[i] = IF i = c THEN nd ELSE nodes[i]
  BY <1>1, <1>6, NodeChanged
<1>9. Grows(nodes, nodes2)
  BY <1>6, <1>8 DEF Grows
<1>10. nodes[c].stats \in 1 .. Len(sl) /\ ~ isFree(free, nodes[c].stats) /\ ownersOf(nodes)[c] = nodes[c].stats
  <2>1. ownersOf(nodes)[c] = nodes[c].stats
    BY DEF ownersOf
  <2>2. nodes[c].stats \in 0 .. Len(sl) /\ ~ isFree(free, nodes[c].stats)
    BY <1>1, <2>1 DEF Owners
  <2>. QED BY <1>4, <2>1, <2>2
<1>11. PoolOk(sl2, free2) /\ Freed(sl, free, nodes[c].stats, sl2, free2)
  BY <1>1, <1>3, <1>10, Frees
<1>12. Owners(Len(nodes), ownersOf(nodes2), sl2, free2)
  <2>1. SameBut(Len(nodes), ownersOf(nodes), ownersOf(nodes2), c) /\ ownersOf(nodes2)[c] = 0
    BY <1>6, <1>8 DEF SameBut, ownersOf
  <2>. QED BY <1>1, <1>4, <1>8, <1>10, <1>11, <2>1, FreeOwned
<1>13. Core(nodes2, sl2, free2)
  BY <1>8, <1>11, <1>12 DEF Core, Freed
<1>. QED BY <1>3, <1>8, <1>9, <1>13

LEMMA AllocateOk ==
  ASSUME NEW sl, NEW free, PoolOk(sl, free), NEW sts, isTuple(sts),
         \A j \in 1 .. Len(sts) : StatsMade(sts[j]) /\ sts[j].active,
         NEW a, a = AllocateStats(Pool(sl, free), sts)
  PROVE  /\ PoolOk(a.pool.slots, a.pool.free) /\ a.pool = Pool(a.pool.slots, a.pool.free)
         /\ Allotted(sl, free, Len(sts), a.ids, a.pool.slots, a.pool.free)
<1>1. PICK ids, sl2, free2 : ids = a.ids /\ sl2 = a.pool.slots /\ free2 = a.pool.free
  OBVIOUS
<1>2. Allots(Pool(sl, free).slots, Pool(sl, free).free, sts, a.ids, a.pool.slots, a.pool.free)
  BY AllocateFields
<1>3. Pool(sl, free).slots = sl /\ Pool(sl, free).free = free
  BY DEF Pool
<1>4. Allots(sl, free, sts, ids, sl2, free2)
  BY <1>1, <1>2, <1>3, Zenon
<1>5. PoolOk(sl2, free2) /\ Allotted(sl, free, Len(sts), ids, sl2, free2)
  BY <1>4, AllotsMore
<1>6. a.pool = Pool(a.pool.slots, a.pool.free)
  BY DEF AllocateStats, Pool
<1>. QED BY <1>1, <1>5, <1>6, Zenon

LEMMA TreeWider ==
  ASSUME NEW nodes, NEW m \in Nat, NEW m2 \in Nat, m <= m2, TreeMade(nodes, m)
  PROVE  TreeMade(nodes, m2)
BY DEF TreeMade, NodeMade

NewLeaf(nd, id) ==
  /\ DOMAIN nd = {"start", "end", "seg", "leaf", "children", "splitKeys", "threshold", "stats"}
  /\ nd.leaf = TRUE /\ nd.children = <<>> /\ nd.splitKeys = <<>> /\ nd.stats = id

(* foldNode: the router is a leaf with statistics of its own.              *)
LEMMA NodeFolded ==
  ASSUME NEW nodes, NEW sl, NEW free, Core(nodes, sl, free), NEW n \in 1 .. Len(nodes),
         NEW ids, NEW sl2, NEW free2, PoolOk(sl2, free2), Allotted(sl, free, 1, ids, sl2, free2),
         NEW nd, DOMAIN nd = DOMAIN nodes[n], NewLeaf(nd, ids[1]), NEW nodes2, nodes2 = replaced(nodes, n, nd)
  PROVE  /\ Core(nodes2, sl2, free2) /\ Len(nodes2) = Len(nodes) /\ Len(nodes) \in Nat
         /\ \A i \in 1 .. Len(nodes) : i # n => nodes2[i] = nodes[i]
<1>1. TreeMade(nodes, Len(sl)) /\ PoolOk(sl, free) /\ Owners(Len(nodes), ownersOf(nodes), sl, free)
  BY DEF Core
<1>2. Len(sl) \in Nat /\ Len(sl2) \in Nat /\ Len(sl) <= Len(sl2) /\ ids[1] \in 1 .. Len(sl2)
  BY <1>1, TupleFacts DEF PoolOk, Allotted
<1>3. TreeMade(nodes, Len(sl2))
  BY <1>1, <1>2, TreeWider
<1>4. NodeMade(nodes[n], n, Len(nodes), Len(sl2)) /\ isTuple(nodes)
  BY <1>3 DEF TreeMade
<1>5. NodeMade(nd, n, Len(nodes), Len(sl2))
  <2>1. <<>> \in Seq(n + 1 .. Len(nodes)) /\ isTuple(<<>>)
    BY EmptyIsTuple
  <2>2. ids[1] \in 0 .. Len(sl2)
    BY <1>2
  <2>. QED BY <1>4, <2>1, <2>2 DEF NodeMade, NewLeaf
<1>6. /\ TreeMade(nodes2, Len(sl2)) /\ Len(nodes2) = Len(nodes) /\ Len(nodes) \in Nat
      /\ \A i \in 1 .. Len(nodes) : nodes2[i] = IF i = n THEN nd ELSE nodes[i]
  BY <1>3, <1>5, NodeChanged
<1>7. Owners(Len(nodes), ownersOf(nodes2), sl2, free2)
  <2>1. SameBut(Len(nodes), ownersOf(nodes), ownersOf(nodes2), n) /\ ownersOf(nodes2)[n] = ids[1]
    BY <1>6 DEF SameBut, ownersOf, NewLeaf
  <2>. QED BY <1>1, <1>6, <2>1, AllotOne
<1>8. Core(nodes2, sl2, free2)
  BY <1>6, <1>7 DEF Core
<1>. QED BY <1>6, <1>8

(* Evolve: d new leaves, the split node's slot freed.                      *)
SplitAt(nodes, n, d, nd, new, ids, nodes2) ==
  /\ d \in Nat /\ d > 0 /\ n \in 1 .. Len(nodes) /\ nodes[n].leaf
  /\ DOMAIN nd = DOMAIN nodes[n] /\ nd.leaf = FALSE /\ nd.stats = 0 /\ isTuple(nd.splitKeys)
  /\ nd.children = [j \in 1 .. d |-> Len(nodes) + j]
  /\ isTuple(new) /\ Len(new) = d /\ \A j \in 1 .. d : NewLeaf(new[j], ids[j])
  /\ nodes2 = replaced(nodes, n, nd) \o new

LEMMA NodesAdded ==
  ASSUME NEW nodes, NEW m \in Nat, TreeMade(nodes, m), NEW n, NEW d, NEW nd, NEW new, NEW ids, NEW nodes2,
         SplitAt(nodes, n, d, nd, new, ids, nodes2), \A j \in 1 .. d : ids[j] \in 0 .. m
  PROVE  /\ TreeMade(nodes2, m) /\ Len(nodes2) = Len(nodes) + d /\ Grows(nodes, nodes2) /\ Len(nodes) \in Nat
         /\ nodes2[n] = nd /\ \A i \in 1 .. Len(nodes) : i # n => nodes2[i] = nodes[i]
         /\ \A j \in 1 .. d : nodes2[Len(nodes) + j] = new[j]
<1>0. /\ d \in Nat /\ d > 0 /\ n \in 1 .. Len(nodes) /\ nodes[n].leaf
      /\ DOMAIN nd = DOMAIN nodes[n] /\ nd.leaf = FALSE /\ nd.stats = 0 /\ isTuple(nd.splitKeys)
      /\ isTuple(new) /\ Len(new) = d /\ \A j \in 1 .. d : NewLeaf(new[j], ids[j])
  BY DEF SplitAt
<1>1. isTuple(nodes) /\ Len(nodes) \in Nat /\ \A i \in 1 .. Len(nodes) : NodeMade(nodes[i], i, Len(nodes), m)
  BY TupleFacts DEF TreeMade
<1>2. PICK k \in Nat : k = Len(nodes)
  BY <1>1
<1>3. PICK t : t = replaced(nodes, n, nd)
  OBVIOUS
<1>4. isTuple(t) /\ Len(t) = k /\ \A i \in 1 .. k : t[i] = IF i = n THEN nd ELSE nodes[i]
  BY <1>1, <1>2, <1>3, TupleExcept
<1>5. /\ isTuple(t \o new) /\ Len(t \o new) = Len(t) + Len(new)
      /\ \A i \in 1 .. Len(t) + Len(new) : (t \o new)[i] = IF i <= Len(t) THEN t[i] ELSE new[i - Len(t)]
  BY <1>0, <1>4, TupleConcat
<1>6. /\ isTuple(nodes2) /\ Len(nodes2) = k + d
      /\ \A i \in 1 .. k + d : nodes2[i] = IF i <= k THEN t[i] ELSE new[i - k]
  <2>1. nodes2 = t \o new
    BY <1>3, Zenon DEF SplitAt
  <2>. QED BY <1>0, <1>4, <1>5, <2>1
<1>7. /\ \A i \in 1 .. k : i \in 1 .. k + d /\ i <= k
      /\ \A j \in 1 .. d : k + j \in 1 .. k + d /\ ~ (k + j <= k) /\ (k + j) - k = j
      /\ \A i \in 1 .. k + d : i \in 1 .. k \/ (i - k \in 1 .. d /\ i = k + (i - k))
  BY <1>0
<1>8. \A i \in 1 .. k : nodes2[i] = IF i = n THEN nd ELSE nodes[i]
  BY <1>4, <1>6, <1>7
<1>9. \A j \in 1 .. d : nodes2[k + j] = new[j]
  BY <1>0, <1>6, <1>7
<1>10. NodeMade(nd, n, k + d, m)
  <2>1. NodeMade(nodes[n], n, k, m)
    BY <1>0, <1>1, <1>2
  <2>2. nd.children \in Seq(n + 1 .. k + d) /\ Len(nd.children) = d
    <3>1. \A j \in 1 .. d : k + j \in n + 1 .. k + d
      BY <1>0, <1>2
    <3>2. PICK ch : ch = nd.children
      OBVIOUS
    <3>3. ch = [j \in 1 .. d |-> k + j]
      BY <1>2, <3>2 DEF SplitAt
    <3>4. ch \in [1 .. d -> n + 1 .. k + d]
      BY <3>1, <3>3
    <3>5. ch \in Seq(n + 1 .. k + d) /\ Len(ch) = d
      <4>1. d \in Nat
        BY <1>0
      <4>2. PICK T : T = n + 1 .. k + d
        OBVIOUS
      <4>3. ch \in [1 .. d -> T]
        BY <3>4, <4>2
      <4>4. ch \in Seq(T) /\ Len(ch) = d
        BY <4>1, <4>3
      <4>. QED BY <4>2, <4>4
    <3>. QED BY <3>2, <3>5
  <2>3. nd.children # <<>>
    BY <1>0, <2>2
  <2>4. nd.stats \in 0 .. m
    BY <1>0
  <2>5. DOMAIN nd = {"start", "end", "seg", "leaf", "children", "splitKeys", "threshold", "stats"}
    BY <1>0, <2>1 DEF NodeMade
  <2>. QED BY <1>0, <2>2, <2>3, <2>4, <2>5 DEF NodeMade
<1>11. ASSUME NEW i \in 1 .. k + d PROVE NodeMade(nodes2[i], i, k + d, m)
  <2>1. CASE i \in 1 .. k
    <3>1. CASE i = n
      BY <1>8, <1>10, <2>1, <3>1
    <3>2. CASE i # n
      <4>1. NodeMade(nodes[i], i, k, m)
        BY <1>1, <1>2, <2>1
      <4>2. \A x \in i + 1 .. k : x \in i + 1 .. k + d
        BY <1>0
      <4>3. nodes[i].children \in Seq(i + 1 .. k + d)
        <5>1. nodes[i].children \in Seq(i + 1 .. k)
          BY <4>1 DEF NodeMade
        <5>2. PICK S, T : S = i + 1 .. k /\ T = i + 1 .. k + d
          OBVIOUS
        <5>3. \A x \in S : x \in T
          BY <4>2, <5>2
        <5>4. nodes[i].children \in Seq(S)
          BY <5>1, <5>2
        <5>5. nodes[i].children \in Seq(T)
          BY <5>3, <5>4, SeqMonotone
        <5>. QED BY <5>2, <5>5
      <4>4. NodeMade(nodes[i], i, k + d, m)
        BY <4>1, <4>3 DEF NodeMade
      <4>. QED BY <1>8, <2>1, <3>2, <4>4
    <3>. QED BY <3>1, <3>2
  <2>2. ASSUME NEW j \in 1 .. d, i = k + j PROVE NodeMade(nodes2[i], i, k + d, m)
    <3>1. nodes2[i] = new[j] /\ NewLeaf(new[j], ids[j]) /\ ids[j] \in 0 .. m
      BY <1>0, <1>9, <2>2
    <3>2. <<>> \in Seq(i + 1 .. k + d) /\ isTuple(<<>>)
      BY EmptyIsTuple
    <3>. QED BY <3>1, <3>2 DEF NewLeaf, NodeMade
  <2>. QED BY <1>7, <2>1, <2>2
<1>12. TreeMade(nodes2, m)
  <2>1. nodes2 # <<>>
    BY <1>0, <1>6, TupleFacts
  <2>. QED BY <1>6, <1>11, <2>1 DEF TreeMade
<1>13. Grows(nodes, nodes2)
  <2>1. Len(nodes) <= Len(nodes2)
    BY <1>0, <1>2, <1>6
  <2>. QED BY <1>0, <1>2, <1>8, <2>1 DEF Grows
<1>. QED BY <1>0, <1>2, <1>6, <1>8, <1>9, <1>12, <1>13

LEMMA NodeSplit ==
  ASSUME NEW nodes, NEW sl, NEW free, Core(nodes, sl, free), NEW d, NEW n, nodes[n].stats # 0,
         NEW nd, NEW new, NEW ids, NEW nodes2, SplitAt(nodes, n, d, nd, new, ids, nodes2),
         NEW sl1, NEW free1, PoolOk(sl1, free1), Allotted(sl, free, d, ids, sl1, free1),
         NEW p, p = FreeStats(Pool(sl1, free1), nodes[n].stats)
  PROVE  Core(nodes2, p.slots, p.free) /\ Grows(nodes, nodes2) /\ Len(nodes2) \in Nat /\ Len(nodes) \in Nat
<1>0. d \in Nat /\ d > 0 /\ n \in 1 .. Len(nodes) /\ nd.stats = 0 /\ \A j \in 1 .. d : NewLeaf(new[j], ids[j])
  BY DEF SplitAt
<1>1. TreeMade(nodes, Len(sl)) /\ PoolOk(sl, free) /\ Owners(Len(nodes), ownersOf(nodes), sl, free)
  BY DEF Core
<1>2. Len(sl) \in Nat /\ Len(sl1) \in Nat /\ Len(sl) <= Len(sl1)
  BY <1>1, TupleFacts DEF PoolOk, Allotted
<1>3. \A j \in 1 .. d : ids[j] \in 0 .. Len(sl1)
  BY <1>2 DEF Allotted
<1>4. TreeMade(nodes, Len(sl1))
  BY <1>1, <1>2, TreeWider
<1>5. /\ TreeMade(nodes2, Len(sl1)) /\ Len(nodes2) = Len(nodes) + d /\ Grows(nodes, nodes2) /\ Len(nodes) \in Nat
      /\ nodes2[n] = nd /\ \A i \in 1 .. Len(nodes) : i # n => nodes2[i] = nodes[i]
      /\ \A j \in 1 .. d : nodes2[Len(nodes) + j] = new[j]
  BY <1>2, <1>3, <1>4, NodesAdded
<1>6. PICK k \in Nat : k = Len(nodes)
  BY <1>5
<1>. DEFINE own == [i \in 1 .. k + d |-> IF i <= k THEN nodes[i].stats ELSE ids[i - k]]
<1>7. /\ \A i \in 1 .. k : own[i] = ownersOf(nodes)[i] /\ i \in 1 .. k + d
      /\ \A j \in 1 .. d : own[k + j] = ids[j]
      /\ own[n] = nodes[n].stats
  <2>1. \A i \in 1 .. k : i \in 1 .. k + d /\ i <= k
    BY <1>0
  <2>2. \A j \in 1 .. d : k + j \in 1 .. k + d /\ ~ (k + j <= k) /\ (k + j) - k = j
    BY <1>0
  <2>. QED BY <1>0, <1>6, <2>1, <2>2 DEF ownersOf
<1>8. \A i \in 1 .. k + d : i # n => ownersOf(nodes2)[i] = own[i]
  <2>1. ASSUME NEW i \in 1 .. k + d, i # n PROVE ownersOf(nodes2)[i] = own[i]
    <3>1. ownersOf(nodes2)[i] = nodes2[i].stats
      BY <1>5, <1>6 DEF ownersOf
    <3>2. CASE i <= k
      <4>1. nodes2[i] = nodes[i] /\ i \in 1 .. k
        BY <1>0, <1>5, <1>6, <2>1, <3>2
      <4>2. own[i] = nodes[i].stats
        BY <3>2
      <4>. QED BY <3>1, <4>1, <4>2
    <3>3. CASE ~ (i <= k)
      <4>1. i - k \in 1 .. d /\ k + (i - k) = i
        BY <1>0, <3>3
      <4>2. nodes2[i] = new[i - k] /\ NewLeaf(new[i - k], ids[i - k])
        BY <1>0, <1>5, <1>6, <4>1
      <4>3. own[i] = ids[i - k]
        BY <3>3
      <4>. QED BY <3>1, <4>2, <4>3 DEF NewLeaf
    <3>. QED BY <3>2, <3>3
  <2>. QED BY <2>1
<1>9. ownersOf(nodes2)[n] = 0
  <2>1. n \in 1 .. Len(nodes2)
    BY <1>0, <1>5
  <2>. QED BY <1>0, <1>5, <2>1 DEF ownersOf
<1>. HIDE DEF own
<1>10. Owners(k + d, own, sl1, free1)
  BY <1>0, <1>1, <1>6, <1>7, AllotNew
<1>11. n \in 1 .. k + d /\ k + d \in Nat
  BY <1>0, <1>6
<1>12. own[n] \in 1 .. Len(sl1) /\ ~ isFree(free1, own[n]) /\ own[n] # 0
  BY <1>2, <1>7, <1>10, <1>11 DEF Owners
<1>13. PICK sl2, free2 : sl2 = p.slots /\ free2 = p.free
  OBVIOUS
<1>14. PoolOk(sl2, free2) /\ Freed(sl1, free1, own[n], sl2, free2)
  <2>1. p = FreeStats(Pool(sl1, free1), own[n])
    BY <1>7
  <2>. QED BY <1>12, <1>13, <2>1, Frees
<1>15. Owners(k + d, ownersOf(nodes2), sl2, free2)
  <2>1. SameBut(k + d, own, ownersOf(nodes2), n)
    BY <1>8 DEF SameBut
  <2>2. isTuple(sl1)
    BY DEF PoolOk
  <2>. QED BY <1>9, <1>10, <1>11, <1>12, <1>14, <2>1, <2>2, FreeOwned
<1>16. Core(nodes2, sl2, free2)
  <2>1. Len(sl2) = Len(sl1) /\ Len(nodes2) = k + d
    BY <1>5, <1>6, <1>14 DEF Freed
  <2>. QED BY <1>5, <1>14, <1>15, <2>1 DEF Core
<1>17. Len(nodes2) \in Nat
  BY <1>0, <1>5
<1>. QED BY <1>5, <1>13, <1>16, <1>17

-----------------------------------------------------------------------------
(* The operators of a split.                                               *)
LEMMA SubTuple ==
  ASSUME NEW s, isTuple(s), NEW a \in Nat, NEW b \in Nat, b <= Len(s)
  PROVE  isTuple(SubSeq(s, a + 1, b)) /\ Len(SubSeq(s, a + 1, b)) \in Nat
<1>1. PICK T : s \in Seq(T)
  BY DEF isTuple
<1>2. SubSeq(s, a + 1, b) \in Seq(T)
  BY <1>1
<1>. QED BY <1>2, SeqIsTuple

LEMMA Singleton ==
  ASSUME NEW x
  PROVE  isTuple(<<x>>) /\ Len(<<x>>) = 1
<1>1. <<x>> \in Seq({x}) /\ Len(<<x>>) = 1
  OBVIOUS
<1>. QED BY <1>1, SeqIsTuple

LEMMA SortedIsTuple ==
  ASSUME NEW s, isTuple(s)
  PROVE  isTuple(sortedSamples(s))
<1>. DEFINE before(i) == {j \in DOMAIN s : KeyLess(s[j], s[i]) \/ (s[j] = s[i] /\ j < i)}
            f == [k \in 1 .. Len(s) |-> s[CHOOSE i \in DOMAIN s : Cardinality(before(i)) = k - 1]]
<1>1. Len(s) \in Nat
  BY TupleFacts
<1>2. sortedSamples(s) = f
  BY DEF sortedSamples
<1>3. f = [k \in 1 .. Len(s) |-> f[k]]
  OBVIOUS
<1>. HIDE DEF f
<1>4. isTuple(f)
  BY <1>1, <1>3, FunctionIsTuple
<1>. QED BY <1>2, <1>4

LEMMA GroupsFinite ==
  ASSUME NEW R, isTuple(R), NEW G \in FindTopNPrefixGroups(R)
  PROVE  Cardinality(G) \in Nat
<1>1. PICK n \in Nat : n = Len(R)
  BY TupleFacts
<1>. DEFINE Pairs == (1 .. n) \X (1 .. n)
            group(p) == [first |-> p[1], last |-> p[2]]
            All == {group(p) : p \in Pairs}
<1>2. IsFiniteSet(Pairs)
  <2>1. IsFiniteSet(1 .. n)
    BY FS_Interval
  <2>. QED BY <2>1, FS_Product
<1>3. IsFiniteSet(All)
  <2>. DEFINE f == [p \in Pairs |-> group(p)]
  <2>1. f \in Surjection(Pairs, All)
    BY DEF Surjection
  <2>. HIDE DEF f, Pairs, All
  <2>. QED BY <1>2, <2>1, FS_Surjection
<1>4. prefixGroups(R) \subseteq [first : 1 .. n, last : 1 .. n]
  BY <1>1 DEF prefixGroups
<1>5. [first : 1 .. n, last : 1 .. n] \subseteq All
  <2>1. ASSUME NEW g \in [first : 1 .. n, last : 1 .. n] PROVE g \in All
    <3>1. <<g.first, g.last>> \in Pairs /\ g = group(<<g.first, g.last>>)
      OBVIOUS
    <3>. QED BY <3>1
  <2>. QED BY <2>1
<1>6. G \subseteq prefixGroups(R)
  BY DEF FindTopNPrefixGroups
<1>7. G \subseteq All
  BY <1>4, <1>5, <1>6
<1>. HIDE DEF All
<1>. QED BY <1>3, <1>7, FS_Subset, FS_CardinalityType

LEMMA RangeIndex ==
  ASSUME NEW R, isTuple(R), NEW end
  PROVE  rangeEndIndex(R, end) \in Nat /\ rangeEndIndex(R, end) <= Len(R)
<1>1. PICK n \in Nat : n = Len(R)
  BY TupleFacts
<1>. DEFINE S == {i \in 1 .. Len(R) : KeyLess(R[i], end)}
<1>2. S \subseteq 1 .. n
  BY <1>1
<1>. HIDE DEF S
<1>3. IsFiniteSet(1 .. n) /\ Cardinality(1 .. n) = n
  BY FS_Interval
<1>4. Cardinality(S) \in Nat /\ Cardinality(S) <= n
  BY <1>2, <1>3, FS_Subset, FS_CardinalityType
<1>. QED BY <1>1, <1>4 DEF rangeEndIndex, S

LEMMA InheritedStats ==
  ASSUME NEW st, NEW R, isTuple(R), NEW D, NEW j, NEW ratio,
         ~ (rangeStartIndex(R, D, j) > rangeEndIndex(R, D[j].end))
  PROVE  StatsMade(inherit(st, R, D, j, ratio)) /\ inherit(st, R, D, j, ratio).active
<1>. DEFINE a == rangeStartIndex(R, D, j)
            b == rangeEndIndex(R, D[j].end)
            mine == SubSeq(R, a + 1, b)
            cap == IF Len(mine) > ReservoirCap THEN ReservoirCap ELSE Len(mine)
            kept == SubSeq(mine, 1, cap)
            dropped == [i \in 1 .. Len(kept) |-> dropBytes(kept[i], Len(D[j].seg))]
<1>1. a \in Nat /\ b \in Nat /\ b <= Len(R)
  BY RangeIndex DEF rangeStartIndex
<1>2. isTuple(mine) /\ Len(mine) \in Nat
  <2>. HIDE DEF a, b
  <2>. QED BY <1>1, SubTuple
<1>3. cap \in Nat /\ cap <= Len(mine)
  <2>. HIDE DEF mine
  <2>. QED BY <1>2, HeatAssumption
<1>4. isTuple(kept) /\ Len(kept) \in Nat
  <2>1. PICK z \in Nat : z = 0
    OBVIOUS
  <2>2. isTuple(SubSeq(mine, z + 1, cap)) /\ Len(SubSeq(mine, z + 1, cap)) \in Nat
    <3>. HIDE DEF mine, cap
    <3>. QED BY <1>2, <1>3, SubTuple
  <2>3. z + 1 = 1
    BY <2>1
  <2>. HIDE DEF mine, cap
  <2>. QED BY <2>2, <2>3
<1>5. isTuple(dropped)
  <2>1. dropped = [i \in 1 .. Len(kept) |-> dropped[i]]
    <3>. HIDE DEF kept
    <3>. QED OBVIOUS
  <2>. HIDE DEF dropped, kept
  <2>. QED BY <1>4, <2>1, FunctionIsTuple
<1>6. /\ inherit(st, R, D, j, ratio).samples = dropped /\ inherit(st, R, D, j, ratio).active = TRUE
      /\ DOMAIN inherit(st, R, D, j, ratio) = {"active", "writes", "epochStart", "ratio", "samples"}
  BY DEF inherit
<1>. HIDE DEF dropped
<1>. QED BY <1>5, <1>6 DEF StatsMade

LEMMA SplitRangesTuple ==
  ASSUME NEW nd, NEW P, isTuple(P)
  PROVE  isTuple(splitRanges(nd, P)) /\ Len(splitRanges(nd, P)) \in Nat /\ Len(splitRanges(nd, P)) > 0
<1>. DEFINE m == Len(P)
            own(key, otherwise) == IF nd.seg = <<>> THEN key ELSE otherwise
            range(s, e, g) == [start |-> s, end |-> e, seg |-> g, gap |-> g = <<>>]
            afterEnd(i) == IF i = m THEN own(nd.end, <<>>) ELSE P[i + 1]
            group(i) == LET e == NextKeySameLength(P[i]) IN
                        <<[range(P[i], e, P[i]) EXCEPT !.gap = FALSE]>>
                        \o (IF afterEnd(i) = e THEN <<>> ELSE <<range(e, afterEnd(i), <<>>)>>)
            first == range(own(nd.start, <<>>), P[1], <<>>)
            groups == [i \in 1 .. m |-> group(i)]
<1>1. splitRanges(nd, P) = <<first>> \o FlattenSeq(groups)
  BY DEF splitRanges
<1>2. \A i : isTuple(group(i))
  <2>1. ASSUME NEW i, NEW x, NEW y, NEW c PROVE isTuple(<<x>> \o (IF c THEN <<>> ELSE <<y>>))
    <3>1. isTuple(IF c THEN <<>> ELSE <<y>>)
      BY EmptyIsTuple, Singleton
    <3>. QED BY <3>1, Singleton, TupleConcat
  <2>2. ASSUME NEW i PROVE isTuple(group(i))
    <3>1. PICK x, y, e : /\ e = NextKeySameLength(P[i]) /\ x = [range(P[i], e, P[i]) EXCEPT !.gap = FALSE]
                         /\ y = range(e, afterEnd(i), <<>>)
      OBVIOUS
    <3>2. group(i) = <<x>> \o (IF afterEnd(i) = e THEN <<>> ELSE <<y>>)
      BY <3>1
    <3>3. isTuple(<<x>> \o (IF afterEnd(i) = e THEN <<>> ELSE <<y>>))
      <4>. HIDE DEF afterEnd
      <4>. QED BY <2>1
    <3>. QED BY <3>2, <3>3
  <2>. QED BY <2>2
<1>3. m \in Nat
  BY TupleFacts
<1>. HIDE DEF group, first
<1>4. groups = [i \in 1 .. m |-> groups[i]] /\ \A i \in 1 .. m : isTuple(groups[i])
  BY <1>2
<1>. HIDE DEF groups
<1>5. isTuple(groups) /\ Len(groups) = m
  BY <1>3, <1>4, FunctionIsTuple
<1>6. isTuple(FlattenSeq(groups))
  BY <1>4, <1>5, FlattenIsTuple
<1>7. Len(FlattenSeq(groups)) \in Nat
  BY <1>6, TupleFacts
<1>8. isTuple(<<first>> \o FlattenSeq(groups)) /\ Len(<<first>> \o FlattenSeq(groups)) = 1 + Len(FlattenSeq(groups))
  BY <1>6, Singleton, TupleConcat
<1>. QED BY <1>1, <1>7, <1>8

LEMMA SplitKeysTuple ==
  ASSUME NEW D, isTuple(D), Len(D) > 0
  PROVE  isTuple(splitKeysOf(D))
<1>. DEFINE n == IF D[Len(D)].gap THEN Len(D) - 1 ELSE Len(D)
            f == [i \in 1 .. n |-> D[i].end]
<1>1. n \in Nat
  BY TupleFacts
<1>2. splitKeysOf(D) = f
  BY DEF splitKeysOf
<1>3. f = [i \in 1 .. n |-> f[i]]
  OBVIOUS
<1>. HIDE DEF f, n
<1>4. isTuple(f)
  BY <1>1, <1>3, FunctionIsTuple
<1>. QED BY <1>2, <1>4

-----------------------------------------------------------------------------
(* The steps of the sampling goroutine.                                    *)
EvolvesTo(n, st, R, ratio, D) ==
  IF \E j \in 1 .. Len(D) : rangeStartIndex(R, D, j) > rangeEndIndex(R, D[j].end)
  THEN heatPanic' = TRUE /\ UNCHANGED <<heatNodes, slots, FreeList>>
  ELSE
    \E a \in {AllocateStats(Pool(slots, FreeList), [j \in 1 .. Len(D) |-> inherit(st, R, D, j, ratio)])} :
      /\ Len(heatNodes) + Len(D) <= HeatMaxNodes
      /\ heatNodes' = [heatNodes EXCEPT
           ![n] = [@ EXCEPT !.leaf = FALSE, !.stats = 0, !.splitKeys = splitKeysOf(D),
                            !.children = [j \in 1 .. Len(D) |-> Len(heatNodes) + j]]]
           \o [j \in 1 .. Len(D) |-> newHeatNode(D[j].start, D[j].end, D[j].seg, a.ids[j])]
      /\ LET pool == FreeStats(a.pool, heatNodes[n].stats) IN slots' = pool.slots /\ FreeList' = pool.free
      /\ UNCHANGED heatPanic

LEMMA EvolveStep ==
  ASSUME Core(heatNodes, slots, FreeList), NEW n \in 1 .. Len(heatNodes), heatNodes[n].leaf, heatNodes[n].stats # 0,
         NEW st, isTuple(st.samples), Evolve(n, st)
  PROVE  Core(heatNodes', slots', FreeList') /\ Grows(heatNodes, heatNodes') /\ Len(heatNodes') \in Nat
<1>1. PICK R \in {sortedSamples(st.samples)}, ratio \in 0 .. 2 : \E G \in FindTopNPrefixGroups(R) :
      \E order \in {inOrder(G)} :
      \E P \in {[i \in 1 .. Len(order) |-> calcCommonPrefix(SubSeq(R, order[i].first, order[i].last))]} :
      \E D \in {splitRanges(heatNodes[n], P)} : EvolvesTo(n, st, R, ratio, D)
  BY Zenon DEF Evolve, EvolvesTo
<1>a. PICK G \in FindTopNPrefixGroups(R) : \E order \in {inOrder(G)} :
      \E P \in {[i \in 1 .. Len(order) |-> calcCommonPrefix(SubSeq(R, order[i].first, order[i].last))]} :
      \E D \in {splitRanges(heatNodes[n], P)} : EvolvesTo(n, st, R, ratio, D)
  BY <1>1, Zenon
<1>b. PICK order \in {inOrder(G)} :
      \E P \in {[i \in 1 .. Len(order) |-> calcCommonPrefix(SubSeq(R, order[i].first, order[i].last))]} :
      \E D \in {splitRanges(heatNodes[n], P)} : EvolvesTo(n, st, R, ratio, D)
  BY <1>a, Zenon
<1>c. PICK P \in {[i \in 1 .. Len(order) |-> calcCommonPrefix(SubSeq(R, order[i].first, order[i].last))]} :
      \E D \in {splitRanges(heatNodes[n], P)} : EvolvesTo(n, st, R, ratio, D)
  BY <1>b, Zenon
<1>2. PICK D \in {splitRanges(heatNodes[n], P)} : EvolvesTo(n, st, R, ratio, D)
  BY <1>c, Zenon
<1>3. TreeMade(heatNodes, Len(slots)) /\ PoolOk(slots, FreeList)
  BY DEF Core
<1>4. isTuple(heatNodes) /\ Len(heatNodes) \in Nat
  BY <1>3, TupleFacts DEF TreeMade
<1>5. isTuple(R)
  BY SortedIsTuple
<1>6. isTuple(P)
  <2>1. Cardinality(G) \in Nat
    BY <1>5, GroupsFinite
  <2>2. Len(order) \in Nat
    <3>. DEFINE f == [k \in 1 .. Cardinality(G) |-> CHOOSE g \in G : Cardinality({h \in G : h.first < g.first}) = k - 1]
    <3>1. order = f /\ f = [k \in 1 .. Cardinality(G) |-> f[k]]
      BY DEF inOrder
    <3>. HIDE DEF f
    <3>. QED BY <2>1, <3>1, FunctionIsTuple
  <2>. DEFINE f == [i \in 1 .. Len(order) |-> calcCommonPrefix(SubSeq(R, order[i].first, order[i].last))]
  <2>3. P = f /\ f = [i \in 1 .. Len(order) |-> f[i]]
    OBVIOUS
  <2>. HIDE DEF f
  <2>. QED BY <2>2, <2>3, FunctionIsTuple
<1>7. isTuple(D) /\ Len(D) \in Nat /\ Len(D) > 0
  BY <1>6, SplitRangesTuple
<1>8. CASE \E j \in 1 .. Len(D) : rangeStartIndex(R, D, j) > rangeEndIndex(R, D[j].end)
  <2>1. UNCHANGED <<heatNodes, slots, FreeList>>
    BY <1>2, <1>8, Zenon DEF EvolvesTo
  <2>. QED BY <1>4, <2>1 DEF Grows
<1>9. CASE ~ \E j \in 1 .. Len(D) : rangeStartIndex(R, D, j) > rangeEndIndex(R, D[j].end)
  <2>. DEFINE sts == [j \in 1 .. Len(D) |-> inherit(st, R, D, j, ratio)]
  <2>1. PICK a \in {AllocateStats(Pool(slots, FreeList), sts)} :
            /\ heatNodes' = [heatNodes EXCEPT
                 ![n] = [@ EXCEPT !.leaf = FALSE, !.stats = 0, !.splitKeys = splitKeysOf(D),
                                  !.children = [j \in 1 .. Len(D) |-> Len(heatNodes) + j]]]
                 \o [j \in 1 .. Len(D) |-> newHeatNode(D[j].start, D[j].end, D[j].seg, a.ids[j])]
            /\ LET pool == FreeStats(a.pool, heatNodes[n].stats) IN slots' = pool.slots /\ FreeList' = pool.free
    BY <1>2, <1>9, Zenon DEF EvolvesTo
  <2>2. a = AllocateStats(Pool(slots, FreeList), sts)
    BY <2>1
  <2>3. isTuple(sts) /\ Len(sts) = Len(D) /\ \A j \in 1 .. Len(D) : StatsMade(sts[j]) /\ sts[j].active
    <3>1. sts = [j \in 1 .. Len(D) |-> sts[j]] /\ \A j \in 1 .. Len(D) : sts[j] = inherit(st, R, D, j, ratio)
      OBVIOUS
    <3>. HIDE DEF sts
    <3>2. isTuple(sts) /\ Len(sts) = Len(D)
      BY <1>7, <3>1, FunctionIsTuple
    <3>3. ASSUME NEW j \in 1 .. Len(D) PROVE StatsMade(sts[j]) /\ sts[j].active
      <4>1. StatsMade(inherit(st, R, D, j, ratio)) /\ inherit(st, R, D, j, ratio).active
        BY <1>5, <1>9, InheritedStats
      <4>. QED BY <3>1, <4>1
    <3>. QED BY <3>2, <3>3
  <2>. HIDE DEF sts
  <2>4. PICK ids, sl1, free1, d : ids = a.ids /\ sl1 = a.pool.slots /\ free1 = a.pool.free /\ d = Len(D)
    OBVIOUS
  <2>5. PoolOk(sl1, free1) /\ a.pool = Pool(sl1, free1) /\ Allotted(slots, FreeList, d, ids, sl1, free1)
    <3>1. /\ PoolOk(a.pool.slots, a.pool.free) /\ a.pool = Pool(a.pool.slots, a.pool.free)
          /\ Allotted(slots, FreeList, Len(sts), a.ids, a.pool.slots, a.pool.free)
      BY <1>3, <2>2, <2>3, AllocateOk
    <3>. QED BY <2>3, <2>4, <3>1, Zenon
  <2>6. PICK p : p = FreeStats(Pool(sl1, free1), heatNodes[n].stats)
    OBVIOUS
  <2>7. slots' = p.slots /\ FreeList' = p.free
    BY <2>1, <2>5, <2>6, Zenon
  <2>. DEFINE nd == [heatNodes[n] EXCEPT !.leaf = FALSE, !.stats = 0, !.splitKeys = splitKeysOf(D),
                                         !.children = [j \in 1 .. d |-> Len(heatNodes) + j]]
              new == [j \in 1 .. d |-> newHeatNode(D[j].start, D[j].end, D[j].seg, ids[j])]
  <2>8. /\ DOMAIN nd = DOMAIN heatNodes[n] /\ nd.leaf = FALSE /\ nd.stats = 0 /\ nd.splitKeys = splitKeysOf(D)
        /\ nd.children = [j \in 1 .. d |-> Len(heatNodes) + j]
    <3>1. DOMAIN heatNodes[n] = {"start", "end", "seg", "leaf", "children", "splitKeys", "threshold", "stats"}
      BY <1>3 DEF TreeMade, NodeMade
    <3>2. PICK c : c = [j \in 1 .. d |-> Len(heatNodes) + j]
      OBVIOUS
    <3>3. nd = [heatNodes[n] EXCEPT !.leaf = FALSE, !.stats = 0, !.splitKeys = splitKeysOf(D), !.children = c]
      BY <3>2, Zenon
    <3>. HIDE DEF nd
    <3>. QED BY <3>1, <3>2, <3>3
  <2>9. isTuple(new) /\ Len(new) = d /\ \A j \in 1 .. d : NewLeaf(new[j], ids[j])
    <3>1. new = [j \in 1 .. d |-> new[j]] /\ \A j \in 1 .. d : NewLeaf(new[j], ids[j])
      BY DEF NewLeaf, newHeatNode
    <3>. HIDE DEF new
    <3>. QED BY <1>7, <2>4, <3>1, FunctionIsTuple
  <2>10. heatNodes' = replaced(heatNodes, n, nd) \o new
    <3>1. heatNodes' = [heatNodes EXCEPT ![n] = nd] \o new
      BY <1>4, <2>1, <2>4, TupleFacts
    <3>. HIDE DEF nd, new
    <3>. QED BY <3>1, Zenon DEF replaced
  <2>. HIDE DEF nd, new
  <2>11. isTuple(nd.splitKeys)
    BY <1>7, <2>8, SplitKeysTuple
  <2>12. SplitAt(heatNodes, n, d, nd, new, ids, heatNodes')
    BY <1>7, <2>4, <2>8, <2>9, <2>10, <2>11 DEF SplitAt
  <2>13. Core(heatNodes', p.slots, p.free) /\ Grows(heatNodes, heatNodes') /\ Len(heatNodes') \in Nat
    BY <2>5, <2>6, <2>12, NodeSplit
  <2>. QED BY <2>7, <2>13
<1>. QED BY <1>8, <1>9

LEMMA AddSampleStep ==
  ASSUME HeatInv, AddSample
  PROVE  HeatInv'
<1>. DEFINE n == search.node
            nd == heatNodes[n]
            st == slots[nd.stats]
            counted == [st EXCEPT !.writes = @ + 1]
<1>1. /\ Core(heatNodes, slots, FreeList) /\ SearchOk(heatNodes, search) /\ DecayOk(heatNodes, decay)
      /\ TreeMade(heatNodes, Len(slots)) /\ PoolOk(slots, FreeList) /\ n \in 1 .. Len(heatNodes)
      /\ NodeMade(nd, n, Len(heatNodes), Len(slots))
  BY InvariantIs DEF Core, SearchOk, TreeMade
<1>2. isTuple(heatNodes) /\ Len(heatNodes) \in Nat /\ isTuple(slots) /\ Len(slots) \in Nat /\ DOMAIN slots = 1 .. Len(slots)
      /\ DOMAIN heatNodes = 1 .. Len(heatNodes)
  BY <1>1, TupleFacts DEF TreeMade, PoolOk
<1>3. search' = [search EXCEPT !.pc = "idle"] /\ decay' = decay
  BY DEF AddSample
<1>4. nd.stats # 0 => nd.stats \in 1 .. Len(slots) /\ StatsMade(st)
  <2>1. nd.stats # 0 => nd.stats \in 1 .. Len(slots)
    BY <1>1, <1>2 DEF NodeMade
  <2>. QED BY <1>1, <2>1 DEF PoolOk
<1>5. SUFFICES Core(heatNodes', slots', FreeList') /\ Grows(heatNodes, heatNodes') /\ Len(heatNodes') \in Nat
  <2>1. ASSUME Core(heatNodes', slots', FreeList') /\ Grows(heatNodes, heatNodes') /\ Len(heatNodes') \in Nat
        PROVE  HeatInv'
    <3>1. SearchOk(heatNodes, search')
      BY <1>1, <1>3 DEF SearchOk
    <3>2. SearchOk(heatNodes', search') /\ DecayOk(heatNodes', decay')
      BY <1>1, <1>2, <1>3, <2>1, <3>1, OthersGrow
    <3>. QED BY <2>1, <3>2, InvariantIs
  <2>. QED BY <2>1
<1>6. ASSUME NEW r, StatsMade(r), r.active = st.active, nd.stats # 0,
             slots' = [slots EXCEPT ![nd.stats] = r], UNCHANGED FreeList
      PROVE  Core(heatNodes, slots', FreeList')
  <2>1. PICK s : s = nd.stats
    OBVIOUS
  <2>2. slots' = replaced(slots, s, r)
    BY <1>6, <2>1, Zenon DEF replaced
  <2>3. s \in 1 .. Len(slots) /\ r.active = slots[s].active
    BY <1>4, <1>6, <2>1
  <2>4. Core(heatNodes, slots', FreeList)
    BY <1>1, <1>6, <2>2, <2>3, SlotChanged
  <2>. QED BY <1>6, <2>4
<1>7. UNCHANGED heatNodes => Grows(heatNodes, heatNodes') /\ Len(heatNodes') \in Nat
  BY <1>2 DEF Grows
<1>8. ASSUME nd.stats # 0
      PROVE  /\ DOMAIN counted = DOMAIN st /\ counted.active = st.active /\ counted.samples = st.samples
             /\ counted.writes = st.writes + 1 /\ StatsMade(counted)
  <2>1. DOMAIN st = {"active", "writes", "epochStart", "ratio", "samples"} /\ isTuple(st.samples)
    BY <1>4, <1>8 DEF StatsMade
  <2>2. /\ DOMAIN counted = DOMAIN st /\ counted.active = st.active /\ counted.samples = st.samples
        /\ counted.writes = st.writes + 1
    <3>. HIDE DEF st
    <3>. QED BY <2>1
  <2>. QED BY <2>1, <2>2 DEF StatsMade
<1>9. ASSUME nd.stats # 0, NEW s, isTuple(s)
      PROVE  StatsMade([counted EXCEPT !.samples = s]) /\ [counted EXCEPT !.samples = s].active = st.active
  <2>1. DOMAIN counted = {"active", "writes", "epochStart", "ratio", "samples"} /\ counted.active = st.active
    BY <1>8, <1>9 DEF StatsMade
  <2>. HIDE DEF counted, st
  <2>. QED BY <1>9, <2>1 DEF StatsMade
<1>10. CASE UNCHANGED <<heatNodes, slots, FreeList>>
  BY <1>1, <1>7, <1>10
<1>11. CASE /\ nd.stats # 0 /\ slots' = [slots EXCEPT ![nd.stats] = [counted EXCEPT !.samples = Append(@, search.key)]]
            /\ UNCHANGED <<heatNodes, FreeList>>
  <2>1. isTuple(Append(st.samples, search.key))
    BY <1>4, <1>11, TupleAppend DEF StatsMade
  <2>2. PICK s : s = Append(st.samples, search.key)
    OBVIOUS
  <2>3. [counted EXCEPT !.samples = Append(@, search.key)] = [counted EXCEPT !.samples = s]
    BY <1>8, <1>11, <2>2
  <2>4. PICK r : r = [counted EXCEPT !.samples = s]
    OBVIOUS
  <2>5. StatsMade(r) /\ r.active = st.active
    BY <1>9, <1>11, <2>1, <2>2, <2>4, Zenon
  <2>6. slots' = [slots EXCEPT ![nd.stats] = r]
    BY <1>11, <2>3, <2>4, Zenon
  <2>7. Core(heatNodes, slots', FreeList')
    BY <1>6, <1>11, <2>5, <2>6
  <2>. QED BY <1>7, <1>11, <2>7
<1>12. ASSUME nd.leaf, nd.stats # 0, NEW k \in 0 .. ReservoirCap,
              NEW new, new = IF k = 0 THEN counted ELSE [counted EXCEPT !.samples[k] = search.key],
              \/ slots' = [slots EXCEPT ![nd.stats] = new] /\ UNCHANGED <<heatNodes, FreeList>>
              \/ /\ slots' = [slots EXCEPT ![nd.stats] = new]
                 /\ heatNodes' = [heatNodes EXCEPT ![n].threshold = 2 * @] /\ UNCHANGED FreeList
              \/ Evolve(n, new)
       PROVE  Core(heatNodes', slots', FreeList') /\ Grows(heatNodes, heatNodes') /\ Len(heatNodes') \in Nat
  <2>1. StatsMade(new) /\ new.active = st.active
    <3>1. PICK s : s = replaced(st.samples, k, search.key)
      OBVIOUS
    <3>2. isTuple(s)
      BY <1>4, <1>12, <3>1, TupleExcept DEF StatsMade
    <3>3. [counted EXCEPT !.samples[k] = search.key] = [counted EXCEPT !.samples = s]
      <4>1. [counted EXCEPT !.samples[k] = search.key]
              = [counted EXCEPT !.samples = [counted.samples EXCEPT ![k] = search.key]]
        <5>. HIDE DEF counted
        <5>. QED OBVIOUS
      <4>2. [counted.samples EXCEPT ![k] = search.key] = s
        BY <1>8, <1>12, <3>1, Zenon DEF replaced
      <4>. QED BY <4>1, <4>2, Zenon
    <3>4. StatsMade([counted EXCEPT !.samples = s]) /\ [counted EXCEPT !.samples = s].active = st.active
      BY <1>9, <1>12, <3>2, Zenon
    <3>. QED BY <1>8, <1>12, <3>3, <3>4, Zenon
  <2>2. CASE slots' = [slots EXCEPT ![nd.stats] = new] /\ UNCHANGED <<heatNodes, FreeList>>
    <3>1. Core(heatNodes, slots', FreeList')
      BY <1>6, <1>12, <2>1, <2>2
    <3>. QED BY <1>7, <2>2, <3>1
  <2>3. CASE /\ slots' = [slots EXCEPT ![nd.stats] = new]
             /\ heatNodes' = [heatNodes EXCEPT ![n].threshold = 2 * @] /\ UNCHANGED FreeList
    <3>1. Core(heatNodes, slots', FreeList')
      BY <1>6, <1>12, <2>1, <2>3
    <3>2. PICK m : m = [nd EXCEPT !.threshold = 2 * nd.threshold]
      OBVIOUS
    <3>3. /\ DOMAIN m = DOMAIN nd /\ m.leaf = nd.leaf /\ m.stats = nd.stats /\ m.children = nd.children
          /\ m.splitKeys = nd.splitKeys
      <4>1. DOMAIN nd = {"start", "end", "seg", "leaf", "children", "splitKeys", "threshold", "stats"}
        BY <1>1 DEF NodeMade
      <4>. HIDE DEF nd
      <4>. QED BY <3>2, <4>1
    <3>4. heatNodes' = replaced(heatNodes, n, m)
      <4>1. heatNodes' = [heatNodes EXCEPT ![n] = [nd EXCEPT !.threshold = 2 * nd.threshold]]
        BY <1>1, <1>2, <2>3 DEF NodeMade
      <4>. QED BY <3>2, <4>1, Zenon DEF replaced
    <3>5. nd = heatNodes[n]
      OBVIOUS
    <3>. HIDE DEF n, nd
    <3>. QED BY <1>1, <1>12, <3>1, <3>3, <3>4, <3>5, ThresholdChanged
  <2>4. CASE Evolve(n, new)
    <3>1. isTuple(new.samples)
      BY <2>1 DEF StatsMade
    <3>. QED BY <1>1, <1>12, <2>4, <3>1, EvolveStep
  <2>. QED BY <1>12, <2>2, <2>3, <2>4
<1>13. \/ UNCHANGED <<heatNodes, slots, FreeList>>
       \/ /\ nd.stats # 0 /\ slots' = [slots EXCEPT ![nd.stats] = [counted EXCEPT !.samples = Append(@, search.key)]]
          /\ UNCHANGED <<heatNodes, FreeList>>
       \/ /\ nd.leaf /\ nd.stats # 0
          /\ \E k \in 0 .. ReservoirCap :
               LET new == IF k = 0 THEN counted ELSE [counted EXCEPT !.samples[k] = search.key] IN
               \/ slots' = [slots EXCEPT ![nd.stats] = new] /\ UNCHANGED <<heatNodes, FreeList>>
               \/ /\ slots' = [slots EXCEPT ![nd.stats] = new]
                  /\ heatNodes' = [heatNodes EXCEPT ![n].threshold = 2 * @] /\ UNCHANGED FreeList
               \/ Evolve(n, new)
  BY Zenon DEF AddSample
<1>. HIDE DEF counted
<1>. QED BY <1>10, <1>11, <1>12, <1>13, Zenon

LEMMA QueueStep ==
  ASSUME HeatInv, (\E k \in HeatKeys : RecordWriteAsync(k)) \/ asyncProcessSamples
  PROVE  HeatInv'
<1>1. /\ Core(heatNodes, slots, FreeList) /\ SearchOk(heatNodes, search) /\ DecayOk(heatNodes, decay)
  BY InvariantIs
<1>2. heatNodes' = heatNodes /\ slots' = slots /\ FreeList' = FreeList /\ decay' = decay
  BY DEF RecordWriteAsync, asyncProcessSamples
<1>3. Len(heatNodes) \in Nat /\ Len(heatNodes) # 0
  BY <1>1, TupleFacts DEF Core, TreeMade
<1>4. search' = search \/ search' = [pc |-> "walk", node |-> 1, key |-> Head(sampleCh)]
  BY DEF RecordWriteAsync, asyncProcessSamples
<1>5. SearchOk(heatNodes', search')
  BY <1>1, <1>2, <1>3, <1>4 DEF SearchOk
<1>. QED BY <1>1, <1>2, <1>5, InvariantIs

LEMMA ChildOfIsChild ==
  ASSUME NEW nd, NEW T, nd.children \in Seq(T), nd.children # <<>>, isTuple(nd.splitKeys), NEW key
  PROVE  childOf(nd, key) \in T
<1>. DEFINE above == {i \in 1 .. Len(nd.splitKeys) : KeyLess(key, nd.splitKeys[i])}
            i == IF above = {} THEN Len(nd.splitKeys) + 1 ELSE Min(above)
            c == IF i > Len(nd.children) THEN Len(nd.children) ELSE i
<1>1. Len(nd.splitKeys) \in Nat
  BY TupleFacts
<1>2. i \in Nat /\ i >= 1
  <2>1. above \in SUBSET Nat /\ \A x \in above : x \in Nat /\ x >= 1
    BY <1>1
  <2>. HIDE DEF above
  <2>2. CASE above = {}
    BY <1>1, <2>2
  <2>3. CASE above # {}
    <3>1. Min(above) \in above
      BY <2>1, <2>3, LeastNat
    <3>. QED BY <2>1, <2>3, <3>1
  <2>. QED BY <2>2, <2>3
<1>3. c \in 1 .. Len(nd.children)
  <2>. HIDE DEF i
  <2>. QED BY <1>2
<1>4. childOf(nd, key) = nd.children[c]
  BY DEF childOf
<1>. HIDE DEF c
<1>. QED BY <1>3, <1>4

LEMMA SearchLeafStep ==
  ASSUME HeatInv, SearchLeaf
  PROVE  HeatInv'
<1>. DEFINE nd == heatNodes[search.node]
            rest == dropBytes(search.key, Len(nd.seg))
<1>1. /\ Core(heatNodes, slots, FreeList) /\ SearchOk(heatNodes, search) /\ DecayOk(heatNodes, decay)
      /\ NodeMade(nd, search.node, Len(heatNodes), Len(slots)) /\ search.node \in 1 .. Len(heatNodes)
  BY InvariantIs DEF Core, SearchOk, TreeMade
<1>2. heatNodes' = heatNodes /\ slots' = slots /\ FreeList' = FreeList /\ decay' = decay
  BY DEF SearchLeaf
<1>3. \/ search' = [search EXCEPT !.pc = "idle"]
      \/ search' = [search EXCEPT !.pc = "add", !.key = rest]
      \/ ~ nd.leaf /\ search' = [search EXCEPT !.node = childOf(nd, rest), !.key = rest]
  BY Zenon DEF SearchLeaf
<1>4. Len(heatNodes) \in Nat
  BY <1>1, TupleFacts DEF Core, TreeMade
<1>5. ~ nd.leaf => childOf(nd, rest) \in 1 .. Len(heatNodes)
  <2>1. PICK T : T = search.node + 1 .. Len(heatNodes)
    OBVIOUS
  <2>2. ASSUME ~ nd.leaf PROVE childOf(nd, rest) \in T
    <3>1. nd.children \in Seq(T) /\ nd.children # <<>> /\ isTuple(nd.splitKeys)
      BY <1>1, <2>1, <2>2 DEF NodeMade
    <3>. HIDE DEF nd, rest
    <3>. QED BY <3>1, ChildOfIsChild
  <2>. QED BY <1>1, <1>4, <2>1, <2>2
<1>. HIDE DEF nd, rest
<1>6. SearchOk(heatNodes', search')
  BY <1>1, <1>2, <1>3, <1>5 DEF SearchOk
<1>. QED BY <1>1, <1>2, <1>6, InvariantIs

-----------------------------------------------------------------------------
(* The steps of the decaying goroutine.                                    *)
LEMMA LastFrame ==
  ASSUME NEW nodes, NEW stack, StackOk(nodes, stack), stack # <<>>
  PROVE  /\ isTuple(stack) /\ Len(stack) \in Nat /\ Len(stack) > 0 /\ Last(stack) = stack[Len(stack)]
         /\ Last(stack).node \in 1 .. Len(nodes) /\ Last(stack).next \in Nat
         /\ DOMAIN Last(stack) = {"node", "prefix", "zone", "kids", "next"}
         /\ Last(stack).next > 0 => /\ ~ nodes[Last(stack).node].leaf
                                    /\ Last(stack).kids \in Seq(Last(stack).node + 1 .. Len(nodes))
<1>1. isTuple(stack)
  BY DEF StackOk
<1>2. Len(stack) \in Nat /\ Len(stack) > 0
  BY <1>1, TupleFacts
<1>3. Last(stack) = stack[Len(stack)]
  BY DEF Last
<1>4. FrameMade(nodes, stack, Len(stack))
  BY <1>2 DEF StackOk
<1>. QED BY <1>1, <1>2, <1>3, <1>4 DEF FrameMade

LEMMA Popped ==
  ASSUME NEW nodes, Len(nodes) \in Nat, NEW stack, StackOk(nodes, stack), stack # <<>>, NEW nodes2, Len(nodes2) = Len(nodes),
         \A n \in 1 .. Len(nodes) : n # Last(stack).node => nodes2[n] = nodes[n], NEW i
  PROVE  VisitOk(nodes2, IF Len(stack) = 1 THEN "publish" ELSE "walk", Front(stack), i)
<1>1. PICK k \in Nat : k = Len(stack) /\ k > 0
  BY LastFrame
<1>2. /\ isTuple(Front(stack)) /\ Len(Front(stack)) = k - 1 /\ \A l \in 1 .. k - 1 : Front(stack)[l] = stack[l]
      /\ Last(stack) = stack[k]
  BY <1>1, LastFrame, TupleFront
<1>3. ASSUME NEW l \in 1 .. k - 1 PROVE FrameMade(nodes2, Front(stack), l)
  <2>1. l \in 1 .. k /\ l < k /\ k \in l + 1 .. k /\ \A j \in l + 1 .. k - 1 : j \in l + 1 .. k /\ j \in 1 .. k - 1
    BY <1>1
  <2>2. FrameMade(nodes, stack, l)
    BY <1>1, <2>1 DEF StackOk
  <2>3. PICK f : f = stack[l]
    OBVIOUS
  <2>4. f.node \in 1 .. Len(nodes) /\ f.node < stack[k].node
    BY <1>1, <2>1, <2>2, <2>3 DEF FrameMade
  <2>5. f.node # Last(stack).node
    <3>1. Last(stack).node \in 1 .. Len(nodes)
      BY LastFrame
    <3>. QED BY <1>2, <2>4, <3>1
  <2>6. nodes2[f.node] = nodes[f.node]
    BY <2>4, <2>5
  <2>7. Front(stack)[l] = f /\ \A j \in l + 1 .. k - 1 : Front(stack)[j] = stack[j] /\ f.node < stack[j].node
    BY <1>1, <1>2, <2>1, <2>2, <2>3 DEF FrameMade
  <2>8. f.next > 0
    BY <1>1, <2>1, <2>2, <2>3 DEF FrameMade
  <2>9. DOMAIN f = {"node", "prefix", "zone", "kids", "next"} /\ f.next \in Nat
        /\ (f.next > 0 => ~ nodes2[f.node].leaf /\ f.kids \in Seq(f.node + 1 .. Len(nodes2)))
        /\ f.node \in 1 .. Len(nodes2)
    BY <2>2, <2>3, <2>4, <2>6 DEF FrameMade
  <2>. QED BY <1>2, <2>7, <2>8, <2>9 DEF FrameMade
<1>4. StackOk(nodes2, Front(stack))
  BY <1>2, <1>3 DEF StackOk
<1>5. k # 1 => Front(stack) # <<>>
  BY <1>1, <1>2, TupleFacts
<1>. QED BY <1>1, <1>4, <1>5 DEF VisitOk

LEMMA Pushed ==
  ASSUME NEW nodes, NEW m, TreeMade(nodes, m), NEW stack, StackOk(nodes, stack), stack # <<>>,
         NEW kids, kids = IF Last(stack).next = 0 THEN nodes[Last(stack).node].children ELSE Last(stack).kids,
         Last(stack).next = 0 => ~ nodes[Last(stack).node].leaf,
         Last(stack).next + 1 <= Len(kids),
         NEW below, DOMAIN below = DOMAIN Last(stack), below.node = Last(stack).node, below.kids = kids,
         below.next = Last(stack).next + 1,
         NEW new, DOMAIN new = {"node", "prefix", "zone", "kids", "next"}, new.next = 0,
         new.node = kids[Last(stack).next + 1],
         NEW stack2, stack2 = Append(replaced(stack, Len(stack), below), new)
  PROVE  StackOk(nodes, stack2) /\ stack2 # <<>>
<1>1. PICK f, k : f = Last(stack) /\ k = Len(stack)
  OBVIOUS
<1>2. /\ isTuple(stack) /\ k \in Nat /\ k > 0 /\ f = stack[k] /\ f.node \in 1 .. Len(nodes) /\ f.next \in Nat
      /\ DOMAIN f = {"node", "prefix", "zone", "kids", "next"}
      /\ f.next > 0 => ~ nodes[f.node].leaf /\ f.kids \in Seq(f.node + 1 .. Len(nodes))
  BY <1>1, LastFrame
<1>3. Len(nodes) \in Nat /\ NodeMade(nodes[f.node], f.node, Len(nodes), m)
  BY <1>2, TupleFacts DEF TreeMade
<1>4. ~ nodes[f.node].leaf /\ kids \in Seq(f.node + 1 .. Len(nodes))
  <2>1. f.next = 0 \/ f.next > 0
    BY <1>2
  <2>2. nodes[f.node].children \in Seq(f.node + 1 .. Len(nodes))
    BY <1>3 DEF NodeMade
  <2>. QED BY <1>1, <1>2, <2>1, <2>2
<1>5. PICK i \in Nat : i = f.next + 1 /\ i \in 1 .. Len(kids) /\ i > 0
  <2>1. f.next + 1 \in 1 .. Len(kids)
    BY <1>1, <1>2, <1>4
  <2>. QED BY <1>2, <2>1
<1>6. kids[i] \in f.node + 1 .. Len(nodes)
  <2>1. PICK T : T = f.node + 1 .. Len(nodes)
    OBVIOUS
  <2>2. kids \in Seq(T)
    BY <1>4, <2>1
  <2>3. kids[i] \in T
    BY <1>5, <2>2
  <2>. QED BY <2>1, <2>3
<1>7. PICK s : s = replaced(stack, k, below)
  OBVIOUS
<1>8. isTuple(s) /\ Len(s) = k /\ \A l \in 1 .. k : s[l] = IF l = k THEN below ELSE stack[l]
  BY <1>1, <1>2, <1>7, TupleExcept
<1>9. /\ isTuple(stack2) /\ Len(stack2) = k + 1 /\ stack2[k + 1] = new
      /\ \A l \in 1 .. k : stack2[l] = IF l = k THEN below ELSE stack[l]
  <2>1. stack2 = Append(s, new)
    BY <1>1, <1>7, Zenon
  <2>2. /\ isTuple(Append(s, new)) /\ Len(Append(s, new)) = Len(s) + 1 /\ Append(s, new)[Len(s) + 1] = new
        /\ \A l \in 1 .. Len(s) : Append(s, new)[l] = s[l]
    BY <1>8, TupleAppend
  <2>. QED BY <1>8, <2>1, <2>2
<1>10. below.node = f.node /\ below.kids = kids /\ below.next = i /\ new.node = kids[i] /\ DOMAIN below = DOMAIN f
  BY <1>1, <1>5
<1>a. new.node \in 1 .. Len(nodes) /\ f.node < new.node
  <2>1. PICK c, g, n : c = new.node /\ g = f.node /\ n = Len(nodes)
    OBVIOUS
  <2>2. c \in g + 1 .. n /\ g \in 1 .. n /\ n \in Nat
    BY <1>2, <1>3, <1>6, <1>10, <2>1
  <2>3. c \in 1 .. n /\ g < c
    BY <2>2
  <2>. QED BY <2>1, <2>3
<1>11. ASSUME NEW l \in 1 .. k + 1 PROVE FrameMade(nodes, stack2, l)
  <2>1. CASE l = k + 1
    <3>1. stack2[l] = new /\ new.node \in 1 .. Len(nodes)
      BY <1>9, <1>a, <2>1
    <3>2. ~ (l < k + 1) /\ ~ \E j : j \in l + 1 .. k + 1
      BY <1>2, <2>1
    <3>. QED BY <1>9, <3>1, <3>2 DEF FrameMade
  <2>2. CASE l = k
    <3>1. stack2[l] = below
      BY <1>2, <1>9, <2>2
    <3>2. \A j \in l + 1 .. k + 1 : stack2[j] = new
      <4>1. \A j \in l + 1 .. k + 1 : j = k + 1
        BY <1>2, <2>2
      <4>. QED BY <1>9, <4>1
    <3>3. below.node < new.node
      BY <1>10, <1>a
    <3>4. below.kids \in Seq(below.node + 1 .. Len(nodes)) /\ ~ nodes[below.node].leaf /\ below.node \in 1 .. Len(nodes)
          /\ below.next \in Nat /\ below.next > 0 /\ DOMAIN below = {"node", "prefix", "zone", "kids", "next"}
      BY <1>2, <1>4, <1>5, <1>10
    <3>. QED BY <1>9, <3>1, <3>2, <3>3, <3>4 DEF FrameMade
  <2>3. CASE l # k /\ l # k + 1
    <3>1. l \in 1 .. k /\ l < k
      BY <1>2, <2>3
    <3>2. FrameMade(nodes, stack, l)
      BY <1>1, <3>1 DEF StackOk
    <3>3. stack2[l] = stack[l]
      BY <1>9, <2>3, <3>1
    <3>4. ASSUME NEW j \in l + 1 .. k + 1 PROVE stack[l].node < stack2[j].node
      <4>1. CASE j = k + 1
        <5>1. k \in l + 1 .. k
          BY <1>2, <3>1
        <5>2. stack[l].node < f.node /\ stack[l].node \in 1 .. Len(nodes)
          BY <1>1, <1>2, <3>2, <5>1 DEF FrameMade
        <5>3. PICK b, g, c, n : b = stack[l].node /\ g = f.node /\ c = new.node /\ n = Len(nodes)
          OBVIOUS
        <5>4. b < g /\ g < c /\ b \in 1 .. n /\ g \in 1 .. n /\ c \in 1 .. n /\ n \in Nat
          BY <1>2, <1>3, <1>a, <5>2, <5>3
        <5>5. b < c
          BY <5>4
        <5>. QED BY <1>9, <4>1, <5>3, <5>5
      <4>2. CASE j # k + 1
        <5>1. j \in l + 1 .. k /\ j \in 1 .. k
          BY <1>2, <4>2
        <5>2. stack[l].node < stack[j].node
          BY <1>1, <3>2, <5>1 DEF FrameMade
        <5>3. stack2[j].node = stack[j].node
          BY <1>2, <1>9, <1>10, <5>1
        <5>. QED BY <5>2, <5>3
      <4>. QED BY <4>1, <4>2
    <3>5. stack[l].next > 0
      BY <1>1, <3>1, <3>2 DEF FrameMade
    <3>. QED BY <1>9, <3>2, <3>3, <3>4, <3>5 DEF FrameMade
  <2>. QED BY <2>1, <2>2, <2>3
<1>12. stack2 # <<>>
  BY <1>2, <1>9, TupleFacts
<1>. QED BY <1>9, <1>11, <1>12 DEF StackOk

(* A record like decay, given its fields.                                  *)
LEMMA DecayIs ==
  ASSUME NEW nodes, NEW d, DOMAIN d = {"pc", "stack", "found", "i", "sum"}, VisitOk(nodes, d.pc, d.stack, d.i)
  PROVE  DecayOk(nodes, d)
BY DEF DecayOk

LEMMA PopFields ==
  ASSUME DOMAIN decay = {"pc", "stack", "found", "i", "sum"}
  PROVE  /\ DOMAIN pop = {"pc", "stack", "found", "i", "sum"} /\ pop.stack = Front(decay.stack)
         /\ pop.pc = (IF Len(decay.stack) = 1 THEN "publish" ELSE "walk") /\ pop.i = decay.i
BY DEF pop

LEMMA PopOk ==
  ASSUME DecayOk(heatNodes, decay), Len(heatNodes) \in Nat, decay.stack # <<>>,
         NEW nodes2, Len(nodes2) = Len(heatNodes),
         \A n \in 1 .. Len(heatNodes) : n # top.node => nodes2[n] = heatNodes[n]
  PROVE  VisitOk(nodes2, pop.pc, pop.stack, pop.i) /\ DecayOk(nodes2, pop)
<1>1. DOMAIN decay = {"pc", "stack", "found", "i", "sum"} /\ StackOk(heatNodes, decay.stack)
  BY DEF DecayOk, VisitOk
<1>2. PICK st, pc, i : st = decay.stack /\ pc = (IF Len(st) = 1 THEN "publish" ELSE "walk") /\ i = decay.i
  OBVIOUS
<1>3. \A n \in 1 .. Len(heatNodes) : n # Last(st).node => nodes2[n] = heatNodes[n]
  BY <1>2 DEF top
<1>4. VisitOk(nodes2, IF Len(st) = 1 THEN "publish" ELSE "walk", Front(st), i)
  BY <1>1, <1>2, <1>3, Popped
<1>5. VisitOk(nodes2, pop.pc, pop.stack, pop.i)
  <2>1. pop.pc = pc /\ pop.stack = Front(st) /\ pop.i = i
    BY <1>1, <1>2, PopFields
  <2>2. VisitOk(nodes2, pc, Front(st), i)
    BY <1>2, <1>4, Zenon
  <2>. QED BY <2>1, <2>2, Zenon
<1>. QED BY <1>1, <1>5, PopFields, DecayIs

LEMMA FlushStep ==
  ASSUME HeatInv, OnMemtableFlush
  PROVE  HeatInv'
<1>1. /\ Core(heatNodes, slots, FreeList) /\ SearchOk(heatNodes, search) /\ DecayOk(heatNodes, decay)
  BY InvariantIs
<1>2. heatNodes' = heatNodes /\ slots' = slots /\ FreeList' = FreeList /\ search' = search
  BY DEF OnMemtableFlush
<1>3. Len(heatNodes) \in Nat /\ Len(heatNodes) # 0
  BY <1>1, TupleFacts DEF Core, TreeMade
<1>4. PICK f : f = frame(1, <<>>, [start |-> <<>>, end |-> <<>>])
  OBVIOUS
<1>5. DOMAIN f = {"node", "prefix", "zone", "kids", "next"} /\ f.node = 1 /\ f.next = 0
  BY <1>4 DEF frame
<1>6. decay' = decay \/ decay' = [pc |-> "walk", stack |-> <<f>>, found |-> {}, i |-> 0, sum |-> 0]
  BY <1>4, Zenon DEF OnMemtableFlush
<1>7. VisitOk(heatNodes, "walk", <<f>>, 0)
  <2>1. isTuple(<<f>>) /\ Len(<<f>>) = 1 /\ <<f>>[1] = f
    BY Singleton
  <2>2. FrameMade(heatNodes, <<f>>, 1)
    <3>1. ~ \E l : l \in 1 + 1 .. 1
      OBVIOUS
    <3>2. 1 \in 1 .. Len(heatNodes)
      BY <1>3
    <3>. QED BY <1>5, <2>1, <3>1, <3>2 DEF FrameMade
  <2>3. StackOk(heatNodes, <<f>>)
    BY <2>1, <2>2 DEF StackOk
  <2>. QED BY <2>1, <2>3, TupleFacts DEF VisitOk
<1>8. DecayOk(heatNodes, decay')
  <2>1. CASE decay' = [pc |-> "walk", stack |-> <<f>>, found |-> {}, i |-> 0, sum |-> 0]
    <3>1. DOMAIN decay' = {"pc", "stack", "found", "i", "sum"} /\ decay'.pc = "walk" /\ decay'.stack = <<f>> /\ decay'.i = 0
      BY <2>1
    <3>2. VisitOk(heatNodes, decay'.pc, decay'.stack, decay'.i)
      BY <1>7, <3>1, Zenon
    <3>. QED BY <3>1, <3>2 DEF DecayOk
  <2>. QED BY <1>1, <1>6, <2>1
<1>. QED BY <1>1, <1>2, <1>8, InvariantIs

(* What a visit of the stack's last node stands on.                        *)
LEMMA VisitFacts ==
  ASSUME HeatInv, decay.pc \in {"walk", "check", "free", "fold"}
  PROVE  /\ Core(heatNodes, slots, FreeList) /\ SearchOk(heatNodes, search) /\ DecayOk(heatNodes, decay)
         /\ TreeMade(heatNodes, Len(slots)) /\ PoolOk(slots, FreeList)
         /\ Len(heatNodes) \in Nat /\ DOMAIN heatNodes = 1 .. Len(heatNodes)
         /\ Len(slots) \in Nat /\ DOMAIN slots = 1 .. Len(slots)
         /\ DOMAIN decay = {"pc", "stack", "found", "i", "sum"} /\ StackOk(heatNodes, decay.stack) /\ decay.stack # <<>>
         /\ top.node \in 1 .. Len(heatNodes) /\ top.next \in Nat
         /\ NodeMade(heatNodes[top.node], top.node, Len(heatNodes), Len(slots))
<1>1. /\ Core(heatNodes, slots, FreeList) /\ SearchOk(heatNodes, search) /\ DecayOk(heatNodes, decay)
  BY InvariantIs
<1>2. TreeMade(heatNodes, Len(slots)) /\ PoolOk(slots, FreeList)
  BY <1>1 DEF Core
<1>3. isTuple(heatNodes) /\ isTuple(slots)
  BY <1>2 DEF TreeMade, PoolOk
<1>4. Len(heatNodes) \in Nat /\ DOMAIN heatNodes = 1 .. Len(heatNodes) /\ Len(slots) \in Nat /\ DOMAIN slots = 1 .. Len(slots)
  BY <1>3, TupleFacts
<1>5. DOMAIN decay = {"pc", "stack", "found", "i", "sum"} /\ StackOk(heatNodes, decay.stack) /\ decay.stack # <<>>
  BY <1>1 DEF DecayOk, VisitOk
<1>6. top.node \in 1 .. Len(heatNodes) /\ top.next \in Nat
  BY <1>5, LastFrame DEF top
<1>7. NodeMade(heatNodes[top.node], top.node, Len(heatNodes), Len(slots))
  BY <1>2, <1>6 DEF TreeMade
<1>. QED BY <1>1, <1>2, <1>4, <1>5, <1>6, <1>7

LEMMA DecayLeafStep ==
  ASSUME HeatInv, decayLeaf
  PROVE  HeatInv'
<1>. DEFINE nd == heatNodes[top.node]
            st == slots[nd.stats]
<1>1. decay.pc \in {"walk", "check", "free", "fold"} /\ nd.leaf
  BY DEF decayLeaf
<1>2. /\ Core(heatNodes, slots, FreeList) /\ SearchOk(heatNodes, search) /\ DecayOk(heatNodes, decay)
      /\ PoolOk(slots, FreeList) /\ Len(heatNodes) \in Nat /\ decay.stack # <<>>
      /\ Len(slots) \in Nat /\ DOMAIN slots = 1 .. Len(slots)
      /\ DOMAIN decay = {"pc", "stack", "found", "i", "sum"} /\ nd.stats \in 0 .. Len(slots)
  BY <1>1, VisitFacts DEF NodeMade
<1>3. heatNodes' = heatNodes /\ FreeList' = FreeList /\ search' = search
  BY DEF decayLeaf
<1>4. DecayOk(heatNodes, pop)
  BY <1>2, PopOk
<1>5. \/ nd.stats = 0 /\ decay' = pop /\ UNCHANGED slots
      \/ /\ nd.stats # 0
         /\ \E r \in 0 .. 2 :
              /\ slots' = [slots EXCEPT ![nd.stats].ratio = r, ![nd.stats].epochStart = st.writes]
              /\ decay' = [pop EXCEPT !.found = IF r = 0 THEN @ ELSE @ \cup {absolute(top) @@ [top |-> r = 2]}]
  BY Zenon DEF decayLeaf
<1>6. CASE nd.stats = 0 /\ decay' = pop /\ UNCHANGED slots
  BY <1>2, <1>3, <1>4, <1>6, InvariantIs
<1>7. ASSUME nd.stats # 0, NEW r,
             slots' = [slots EXCEPT ![nd.stats].ratio = r, ![nd.stats].epochStart = st.writes],
             decay' = [pop EXCEPT !.found = IF r = 0 THEN @ ELSE @ \cup {absolute(top) @@ [top |-> r = 2]}]
      PROVE  HeatInv'
  <2>1. PICK s : s = nd.stats
    OBVIOUS
  <2>2. s \in 1 .. Len(slots)
    BY <1>2, <1>7, <2>1
  <2>3. PICK new : new = [slots[s] EXCEPT !.ratio = r, !.epochStart = slots[s].writes]
    OBVIOUS
  <2>4. StatsMade(new) /\ new.active = slots[s].active
    <3>1. StatsMade(slots[s])
      BY <1>2, <2>2 DEF PoolOk
    <3>2. DOMAIN slots[s] = {"active", "writes", "epochStart", "ratio", "samples"}
      BY <3>1 DEF StatsMade
    <3>3. DOMAIN new = DOMAIN slots[s] /\ new.samples = slots[s].samples /\ new.active = slots[s].active
      BY <2>3, <3>2
    <3>. QED BY <3>1, <3>3 DEF StatsMade
  <2>5. slots' = replaced(slots, s, new)
    <3>1. slots' = [slots EXCEPT ![s] = [slots[s] EXCEPT !.ratio = r, !.epochStart = slots[s].writes]]
      BY <1>2, <1>7, <2>1, <2>2
    <3>. QED BY <2>3, <3>1, Zenon DEF replaced
  <2>6. Core(heatNodes, slots', FreeList)
    BY <1>2, <2>2, <2>4, <2>5, SlotChanged
  <2>7. DecayOk(heatNodes, decay')
    <3>1. /\ DOMAIN decay' = DOMAIN pop /\ decay'.pc = pop.pc /\ decay'.stack = pop.stack /\ decay'.i = pop.i
      <4>1. DOMAIN pop = {"pc", "stack", "found", "i", "sum"}
        BY <1>2, PopFields
      <4>2. PICK F : decay' = [pop EXCEPT !.found = F]
        BY <1>7
      <4>. QED BY <4>1, <4>2
    <3>2. DOMAIN pop = {"pc", "stack", "found", "i", "sum"} /\ VisitOk(heatNodes, pop.pc, pop.stack, pop.i)
      BY <1>4 DEF DecayOk
    <3>3. VisitOk(heatNodes, decay'.pc, decay'.stack, decay'.i)
      BY <3>1, <3>2, Zenon
    <3>. QED BY <3>1, <3>2, <3>3 DEF DecayOk
  <2>. QED BY <1>2, <1>3, <2>6, <2>7, InvariantIs
<1>. QED BY <1>5, <1>6, <1>7

LEMMA VisitRouterStep ==
  ASSUME HeatInv, visitRouter
  PROVE  HeatInv'
<1>. DEFINE nd == heatNodes[top.node]
            kids == IF top.next = 0 THEN nd.children ELSE top.kids
            i == top.next + 1
            below == [top EXCEPT !.kids = kids, !.next = i]
<1>1. decay.pc \in {"walk", "check", "free", "fold"} /\ decay.pc = "walk" /\ (top.next = 0 => ~ nd.leaf)
  BY DEF visitRouter
<1>2. /\ Core(heatNodes, slots, FreeList) /\ SearchOk(heatNodes, search) /\ DecayOk(heatNodes, decay)
      /\ TreeMade(heatNodes, Len(slots)) /\ DOMAIN decay = {"pc", "stack", "found", "i", "sum"}
      /\ StackOk(heatNodes, decay.stack) /\ decay.stack # <<>> /\ top.next \in Nat
      /\ NodeMade(nd, top.node, Len(heatNodes), Len(slots))
  BY <1>1, VisitFacts
<1>3. heatNodes' = heatNodes /\ slots' = slots /\ FreeList' = FreeList /\ search' = search
  BY DEF visitRouter
<1>4. /\ isTuple(decay.stack) /\ DOMAIN top = {"node", "prefix", "zone", "kids", "next"}
      /\ top.next > 0 => ~ nd.leaf /\ top.kids \in Seq(top.node + 1 .. Len(heatNodes))
  BY <1>2, LastFrame DEF top
<1>5. ~ nd.leaf
  BY <1>1, <1>2, <1>4
<1>6. \/ /\ i <= Len(kids)
         /\ decay' = [decay EXCEPT !.stack = Append([@ EXCEPT ![Len(@)] = below],
                                                    frame(kids[i], top.prefix \o nd.seg, absolute(top)))]
      \/ decay' = [decay EXCEPT !.pc = "check", !.i = 1, !.sum = 0]
  BY Zenon DEF visitRouter
<1>7. CASE decay' = [decay EXCEPT !.pc = "check", !.i = 1, !.sum = 0]
  <2>1. /\ DOMAIN decay' = {"pc", "stack", "found", "i", "sum"} /\ decay'.pc = "check" /\ decay'.i = 1
        /\ decay'.stack = decay.stack
    BY <1>2, <1>7
  <2>2. 1 \in 1 .. Len(nd.children)
    <3>1. PICK ch, S : ch = nd.children /\ S = top.node + 1 .. Len(heatNodes)
      OBVIOUS
    <3>2. ch \in Seq(S) /\ ch # <<>>
      BY <1>2, <1>5, <3>1 DEF NodeMade
    <3>3. 1 \in 1 .. Len(ch)
      BY <3>2
    <3>. QED BY <3>1, <3>3
  <2>3. VisitOk(heatNodes, "check", decay.stack, 1)
    BY <1>2, <1>5, <2>2 DEF VisitOk, top
  <2>4. VisitOk(heatNodes, decay'.pc, decay'.stack, decay'.i)
    BY <2>1, <2>3, Zenon
  <2>5. DecayOk(heatNodes, decay')
    BY <2>1, <2>4 DEF DecayOk
  <2>. QED BY <1>2, <1>3, <2>5, InvariantIs
<1>8. CASE /\ i <= Len(kids)
           /\ decay' = [decay EXCEPT !.stack = Append([@ EXCEPT ![Len(@)] = below],
                                                      frame(kids[i], top.prefix \o nd.seg, absolute(top)))]
  <2>1. PICK new, st, b, ks : /\ new = frame(kids[i], top.prefix \o nd.seg, absolute(top)) /\ st = decay.stack
                              /\ b = below /\ ks = kids
    OBVIOUS
  <2>2. decay' = [decay EXCEPT !.stack = Append(replaced(st, Len(st), b), new)]
    <3>1. decay' = [decay EXCEPT !.stack = Append([decay.stack EXCEPT ![Len(decay.stack)] = below], new)]
      <4>1. decay' = [decay EXCEPT !.stack = Append([@ EXCEPT ![Len(@)] = below], new)]
        BY <1>8, <2>1, Zenon
      <4>. HIDE DEF below
      <4>. QED BY <1>2, <4>1
    <3>2. [decay.stack EXCEPT ![Len(decay.stack)] = below] = replaced(st, Len(st), b)
      BY <2>1, Zenon DEF replaced
    <3>. QED BY <3>1, <3>2, Zenon
  <2>3. /\ DOMAIN decay' = {"pc", "stack", "found", "i", "sum"} /\ decay'.pc = "walk"
        /\ decay'.stack = Append(replaced(st, Len(st), b), new)
    BY <1>1, <1>2, <2>2
  <2>4. /\ DOMAIN b = DOMAIN Last(st) /\ b.node = Last(st).node /\ b.kids = ks /\ b.next = Last(st).next + 1
    <3>1. b = [top EXCEPT !.kids = ks, !.next = i]
      BY <2>1, Zenon
    <3>2. /\ DOMAIN b = DOMAIN top /\ b.node = top.node /\ b.kids = ks /\ b.next = i
      <4>. HIDE DEF i
      <4>. QED BY <1>4, <3>1
    <3>. QED BY <2>1, <3>2 DEF top
  <2>5. DOMAIN new = {"node", "prefix", "zone", "kids", "next"} /\ new.next = 0 /\ new.node = ks[Last(st).next + 1]
    BY <2>1 DEF frame, top
  <2>6. ks = IF Last(st).next = 0 THEN heatNodes[Last(st).node].children ELSE Last(st).kids
    BY <2>1, Zenon DEF top
  <2>7. /\ StackOk(heatNodes, st) /\ st # <<>> /\ Last(st).next + 1 <= Len(ks)
        /\ Last(st).next = 0 => ~ heatNodes[Last(st).node].leaf
    BY <1>1, <1>2, <1>8, <2>1 DEF top
  <2>8. PICK st2 : st2 = Append(replaced(st, Len(st), b), new)
    OBVIOUS
  <2>9. StackOk(heatNodes, st2) /\ st2 # <<>>
    <3>. HIDE DEF below, kids, nd, i
    <3>. QED BY <1>2, <2>4, <2>5, <2>6, <2>7, <2>8, Pushed
  <2>10. VisitOk(heatNodes, decay'.pc, decay'.stack, decay'.i)
    BY <2>3, <2>8, <2>9 DEF VisitOk
  <2>11. DecayOk(heatNodes, decay')
    BY <2>3, <2>10 DEF DecayOk
  <2>. QED BY <1>2, <1>3, <2>11, InvariantIs
<1>. QED BY <1>6, <1>7, <1>8

LEMMA CheckChildStep ==
  ASSUME HeatInv, checkChild
  PROVE  HeatInv'
<1>. DEFINE nd == heatNodes[top.node]
<1>1. decay.pc \in {"walk", "check", "free", "fold"} /\ decay.pc = "check"
  BY DEF checkChild
<1>2. /\ Core(heatNodes, slots, FreeList) /\ SearchOk(heatNodes, search) /\ DecayOk(heatNodes, decay)
      /\ DOMAIN decay = {"pc", "stack", "found", "i", "sum"} /\ Len(heatNodes) \in Nat
      /\ StackOk(heatNodes, decay.stack) /\ decay.stack # <<>>
      /\ NodeMade(nd, top.node, Len(heatNodes), Len(slots))
  BY <1>1, VisitFacts
<1>3. heatNodes' = heatNodes /\ slots' = slots /\ FreeList' = FreeList /\ search' = search
  BY DEF checkChild
<1>4. ~ nd.leaf /\ decay.i \in 1 .. Len(nd.children)
  BY <1>1, <1>2 DEF DecayOk, VisitOk, top
<1>5. \/ decay' = pop
      \/ \E sum : decay' = [decay EXCEPT !.sum = sum,
                                         !.pc = IF decay.i = Len(nd.children) THEN "free" ELSE "check",
                                         !.i = IF decay.i = Len(nd.children) THEN 1 ELSE @ + 1]
  BY Zenon DEF checkChild
<1>6. CASE decay' = pop
  <2>1. DecayOk(heatNodes, decay')
    BY <1>2, <1>6, PopOk
  <2>. QED BY <1>2, <1>3, <2>1, InvariantIs
<1>7. ASSUME NEW sum,
             decay' = [decay EXCEPT !.sum = sum,
                                    !.pc = IF decay.i = Len(nd.children) THEN "free" ELSE "check",
                                    !.i = IF decay.i = Len(nd.children) THEN 1 ELSE @ + 1]
      PROVE  HeatInv'
  <2>1. PICK pc, i : /\ pc = IF decay.i = Len(nd.children) THEN "free" ELSE "check"
                     /\ i = IF decay.i = Len(nd.children) THEN 1 ELSE decay.i + 1
    OBVIOUS
  <2>2. decay' = [decay EXCEPT !.sum = sum, !.pc = pc, !.i = i]
    <3>. HIDE DEF nd
    <3>. QED BY <1>2, <1>7, <2>1
  <2>3. /\ DOMAIN decay' = {"pc", "stack", "found", "i", "sum"} /\ decay'.pc = pc /\ decay'.i = i
        /\ decay'.stack = decay.stack
    BY <1>2, <2>2
  <2>4. i \in 1 .. Len(nd.children) /\ pc \in {"free", "check"}
    <3>1. PICK ch, S : ch = nd.children /\ S = top.node + 1 .. Len(heatNodes)
      OBVIOUS
    <3>2. Len(ch) \in Nat
      BY <1>2, <3>1 DEF NodeMade
    <3>. QED BY <1>4, <2>1, <3>1, <3>2
  <2>5. VisitOk(heatNodes, pc, decay.stack, i)
    BY <1>2, <1>4, <2>4 DEF VisitOk, top
  <2>6. VisitOk(heatNodes, decay'.pc, decay'.stack, decay'.i)
    BY <2>3, <2>5, Zenon
  <2>7. DecayOk(heatNodes, decay')
    BY <2>3, <2>6 DEF DecayOk
  <2>. QED BY <1>2, <1>3, <2>7, InvariantIs
<1>. QED BY <1>5, <1>6, <1>7

LEMMA FreeChildStep ==
  ASSUME HeatInv, freeChild
  PROVE  HeatInv'
<1>. DEFINE nd == heatNodes[top.node]
            c == nd.children[decay.i]
<1>1. decay.pc \in {"walk", "check", "free", "fold"} /\ decay.pc = "free"
  BY DEF freeChild
<1>2. /\ Core(heatNodes, slots, FreeList) /\ SearchOk(heatNodes, search) /\ DecayOk(heatNodes, decay)
      /\ TreeMade(heatNodes, Len(slots)) /\ DOMAIN heatNodes = 1 .. Len(heatNodes)
      /\ DOMAIN decay = {"pc", "stack", "found", "i", "sum"} /\ Len(heatNodes) \in Nat
      /\ StackOk(heatNodes, decay.stack) /\ decay.stack # <<>> /\ top.node \in 1 .. Len(heatNodes)
      /\ NodeMade(nd, top.node, Len(heatNodes), Len(slots))
  BY <1>1, VisitFacts
<1>3. search' = search
  BY DEF freeChild
<1>4. ~ nd.leaf /\ decay.i \in 1 .. Len(nd.children)
  BY <1>1, <1>2 DEF DecayOk, VisitOk, top
<1>5. PICK ch, S, k : ch = nd.children /\ S = top.node + 1 .. Len(heatNodes) /\ k = Len(ch)
  OBVIOUS
<1>a. ch \in Seq(S) /\ k \in Nat /\ decay.i \in 1 .. k
  <2>1. ch \in Seq(S)
    BY <1>2, <1>5 DEF NodeMade
  <2>. QED BY <1>4, <1>5, <2>1
<1>6. c \in 1 .. Len(heatNodes)
  <2>1. ch[decay.i] \in S
    <3>1. PICK j : j = decay.i
      OBVIOUS
    <3>2. j \in 1 .. Len(ch) /\ ch \in Seq(S)
      BY <1>5, <1>a, <3>1
    <3>3. ch[j] \in S
      BY <3>2
    <3>. QED BY <3>1, <3>3
  <2>2. \A x \in S : x \in 1 .. Len(heatNodes)
    BY <1>2, <1>5
  <2>. QED BY <1>5, <2>1, <2>2
<1>7. /\ Core(heatNodes', slots', FreeList') /\ Grows(heatNodes, heatNodes') /\ Len(heatNodes') \in Nat
  <2>1. CASE heatNodes[c].stats = 0
    <3>1. UNCHANGED <<heatNodes, slots, FreeList>>
      BY <2>1, Zenon DEF freeChild
    <3>. QED BY <1>2, <3>1 DEF Grows
  <2>2. CASE heatNodes[c].stats # 0
    <3>1. PICK p : p = FreeStats(Pool(slots, FreeList), heatNodes[c].stats)
      OBVIOUS
    <3>2. slots' = p.slots /\ FreeList' = p.free /\ heatNodes' = [heatNodes EXCEPT ![c].stats = 0]
      BY <2>2, <3>1, Zenon DEF freeChild
    <3>3. PICK e : e = [heatNodes[c] EXCEPT !.stats = 0]
      OBVIOUS
    <3>4. DOMAIN heatNodes[c] = {"start", "end", "seg", "leaf", "children", "splitKeys", "threshold", "stats"}
      BY <1>2, <1>6 DEF TreeMade, NodeMade
    <3>5. /\ DOMAIN e = DOMAIN heatNodes[c] /\ e.leaf = heatNodes[c].leaf /\ e.children = heatNodes[c].children
          /\ e.splitKeys = heatNodes[c].splitKeys /\ e.stats = 0
      <4>. HIDE DEF c
      <4>. QED BY <3>3, <3>4
    <3>6. heatNodes' = replaced(heatNodes, c, e)
      <4>1. heatNodes' = [heatNodes EXCEPT ![c] = [heatNodes[c] EXCEPT !.stats = 0]]
        <5>. HIDE DEF c
        <5>. QED BY <1>2, <1>6, <3>2
      <4>. QED BY <3>3, <4>1, Zenon DEF replaced
    <3>7. Core(heatNodes', p.slots, p.free) /\ Grows(heatNodes, heatNodes') /\ Len(heatNodes') \in Nat
      <4>. HIDE DEF c
      <4>. QED BY <1>2, <1>6, <2>2, <3>1, <3>5, <3>6, SlotFreed
    <3>. QED BY <3>2, <3>7
  <2>. QED BY <2>1, <2>2
<1>8. decay' = [decay EXCEPT !.pc = IF decay.i = Len(nd.children) THEN "fold" ELSE "free", !.i = @ + 1]
  BY Zenon DEF freeChild
<1>9. DecayOk(heatNodes, decay')
  <2>1. PICK pc, i : /\ pc = IF decay.i = Len(nd.children) THEN "fold" ELSE "free"
                     /\ i = decay.i + 1
    OBVIOUS
  <2>2. decay' = [decay EXCEPT !.pc = pc, !.i = i]
    <3>. HIDE DEF nd
    <3>. QED BY <1>2, <1>8, <2>1
  <2>3. /\ DOMAIN decay' = {"pc", "stack", "found", "i", "sum"} /\ decay'.pc = pc /\ decay'.i = i
        /\ decay'.stack = decay.stack
    BY <1>2, <2>2
  <2>4. pc = "fold" \/ (pc = "free" /\ i \in 1 .. Len(nd.children))
    BY <1>5, <1>a, <2>1
  <2>5. VisitOk(heatNodes, pc, decay.stack, i)
    BY <1>2, <1>4, <2>4 DEF VisitOk, top
  <2>6. VisitOk(heatNodes, decay'.pc, decay'.stack, decay'.i)
    BY <2>3, <2>5, Zenon
  <2>. QED BY <2>3, <2>6 DEF DecayOk
<1>10. SearchOk(heatNodes', search') /\ DecayOk(heatNodes', decay')
  BY <1>2, <1>3, <1>7, <1>9, OthersGrow
<1>. QED BY <1>7, <1>10, InvariantIs

LEMMA FoldNodeStep ==
  ASSUME HeatInv, foldNode
  PROVE  HeatInv'
<1>. DEFINE n == top.node
            nd == heatNodes[n]
<1>1. decay.pc \in {"walk", "check", "free", "fold"}
  BY DEF foldNode
<1>2. /\ Core(heatNodes, slots, FreeList) /\ SearchOk(heatNodes, search) /\ DecayOk(heatNodes, decay)
      /\ PoolOk(slots, FreeList) /\ DOMAIN heatNodes = 1 .. Len(heatNodes) /\ decay.stack # <<>>
      /\ Len(heatNodes) \in Nat /\ n \in 1 .. Len(heatNodes) /\ NodeMade(nd, n, Len(heatNodes), Len(slots))
  BY <1>1, VisitFacts
<1>3. PICK a : a = AllocateStats(Pool(slots, FreeList), <<NewStats>>)
  OBVIOUS
<1>4. /\ decay' = pop /\ search' = search /\ slots' = a.pool.slots /\ FreeList' = a.pool.free
      /\ heatNodes' = [heatNodes EXCEPT ![n] = [@ EXCEPT !.leaf = TRUE, !.children = <<>>,
                                                         !.splitKeys = <<>>, !.stats = a.ids[1]]]
  BY <1>3, Zenon DEF foldNode
<1>5. PICK ids, sl2, free2, id : ids = a.ids /\ sl2 = a.pool.slots /\ free2 = a.pool.free /\ id = a.ids[1]
  OBVIOUS
<1>6. PoolOk(sl2, free2) /\ Allotted(slots, FreeList, 1, ids, sl2, free2)
  <2>1. PICK sts : sts = <<NewStats>>
    OBVIOUS
  <2>2. isTuple(sts) /\ Len(sts) = 1
    BY <2>1, Singleton
  <2>3. \A j \in 1 .. Len(sts) : StatsMade(sts[j]) /\ sts[j].active
    <3>1. StatsMade(NewStats) /\ NewStats.active
      BY EmptyIsTuple DEF StatsMade, NewStats
    <3>2. \A j \in 1 .. Len(sts) : sts[j] = NewStats
      BY <2>1, <2>2
    <3>. QED BY <3>1, <3>2
  <2>4. a = AllocateStats(Pool(slots, FreeList), sts)
    BY <1>3, <2>1, Zenon
  <2>5. PoolOk(a.pool.slots, a.pool.free) /\ Allotted(slots, FreeList, Len(sts), a.ids, a.pool.slots, a.pool.free)
    BY <1>2, <2>2, <2>3, <2>4, AllocateOk
  <2>. QED BY <1>5, <2>2, <2>5, Zenon
<1>7. PICK e : e = [nd EXCEPT !.leaf = TRUE, !.children = <<>>, !.splitKeys = <<>>, !.stats = id]
  OBVIOUS
<1>8. DOMAIN e = DOMAIN nd /\ e.leaf = TRUE /\ e.children = <<>> /\ e.splitKeys = <<>> /\ e.stats = ids[1]
  <2>1. DOMAIN nd = {"start", "end", "seg", "leaf", "children", "splitKeys", "threshold", "stats"}
    BY <1>2 DEF NodeMade
  <2>2. DOMAIN e = DOMAIN nd /\ e.leaf = TRUE /\ e.children = <<>> /\ e.splitKeys = <<>> /\ e.stats = id
    <3>. HIDE DEF nd
    <3>. QED BY <1>7, <2>1
  <2>. QED BY <1>5, <2>2
<1>9. heatNodes' = replaced(heatNodes, n, e)
  <2>1. heatNodes' = [heatNodes EXCEPT ![n] = [nd EXCEPT !.leaf = TRUE, !.children = <<>>,
                                                         !.splitKeys = <<>>, !.stats = id]]
    <3>. HIDE DEF n
    <3>. QED BY <1>2, <1>4, <1>5
  <2>. QED BY <1>7, <2>1, Zenon DEF replaced
<1>10. /\ Core(heatNodes', sl2, free2) /\ Len(heatNodes') = Len(heatNodes)
       /\ \A i \in 1 .. Len(heatNodes) : i # n => heatNodes'[i] = heatNodes[i]
  <2>1. PICK m : m = n
    OBVIOUS
  <2>2. Core(heatNodes, slots, FreeList) /\ m \in 1 .. Len(heatNodes)
    BY <1>2, <2>1
  <2>3. DOMAIN e = DOMAIN heatNodes[m] /\ NewLeaf(e, ids[1])
    BY <1>2, <1>8, <2>1 DEF NewLeaf, NodeMade
  <2>4. heatNodes' = replaced(heatNodes, m, e)
    BY <1>9, <2>1
  <2>5. /\ Core(heatNodes', sl2, free2) /\ Len(heatNodes') = Len(heatNodes)
        /\ \A i \in 1 .. Len(heatNodes) : i # m => heatNodes'[i] = heatNodes[i]
    <3>. HIDE DEF n, nd
    <3>. QED BY <1>6, <2>2, <2>3, <2>4, NodeFolded
  <2>. QED BY <2>1, <2>5
<1>11. Core(heatNodes', slots', FreeList')
  BY <1>4, <1>5, <1>10, Zenon
<1>12. DecayOk(heatNodes', decay')
  BY <1>2, <1>4, <1>10, PopOk
<1>13. SearchOk(heatNodes', search')
  BY <1>2, <1>4, <1>10 DEF SearchOk
<1>. QED BY <1>11, <1>12, <1>13, InvariantIs

LEMMA PublishStep ==
  ASSUME HeatInv, publishSnapshot
  PROVE  HeatInv'
<1>1. /\ Core(heatNodes, slots, FreeList) /\ SearchOk(heatNodes, search) /\ DecayOk(heatNodes, decay)
  BY InvariantIs
<1>2. /\ heatNodes' = heatNodes /\ slots' = slots /\ FreeList' = FreeList /\ search' = search
      /\ decay' = [decay EXCEPT !.pc = "idle", !.found = {}]
  BY DEF publishSnapshot
<1>3. DOMAIN decay' = {"pc", "stack", "found", "i", "sum"} /\ decay'.pc = "idle" /\ decay'.stack = decay.stack
  BY <1>1, <1>2 DEF DecayOk
<1>4. DecayOk(heatNodes, decay')
  BY <1>1, <1>3 DEF DecayOk, VisitOk
<1>. QED BY <1>1, <1>2, <1>4, InvariantIs

-----------------------------------------------------------------------------
(* However splits, folds and snapshots interleave, the tree, the pool and  *)
(* the two goroutines stay as made: only a leaf has statistics, children   *)
(* lie behind their parent, the node under pruning stays a router          *)
(* (AddSample, Evolve, EpochDecayAndSnapshot).                             *)
THEOREM HeatMapInvariant == HeatMapSpec => []HeatInv
<1>1. NewHeatmapManager => HeatInv
  <2>. SUFFICES ASSUME NewHeatmapManager PROVE HeatInv
    OBVIOUS
  <2>1. PICK e : e = newHeatNode(<<>>, <<>>, <<>>, 1)
    OBVIOUS
  <2>2. /\ heatNodes = <<e>> /\ slots = <<NewStats>> /\ FreeList = <<>>
        /\ search = [pc |-> "idle", node |-> 1, key |-> <<>>]
        /\ decay = [pc |-> "idle", stack |-> <<>>, found |-> {}, i |-> 0, sum |-> 0]
    BY <2>1, Zenon DEF NewHeatmapManager
  <2>3. NewLeaf(e, 1)
    BY <2>1 DEF NewLeaf, newHeatNode
  <2>4. isTuple(<<e>>) /\ Len(<<e>>) = 1 /\ isTuple(<<NewStats>>) /\ Len(<<NewStats>>) = 1
    BY Singleton
  <2>5. TreeMade(<<e>>, 1)
    <3>1. <<>> \in Seq(1 + 1 .. 1) /\ isTuple(<<>>)
      BY EmptyIsTuple
    <3>2. NodeMade(e, 1, 1, 1)
      <4>1. 1 \in 0 .. 1
        OBVIOUS
      <4>2. e.leaf \in BOOLEAN /\ e.stats \in 0 .. 1 /\ e.children \in Seq(1 + 1 .. 1) /\ isTuple(e.splitKeys)
        BY <2>3, <3>1, <4>1 DEF NewLeaf
      <4>. QED BY <2>3, <4>2 DEF NodeMade, NewLeaf
    <3>3. \A i \in 1 .. 1 : i = 1 /\ <<e>>[i] = e
      OBVIOUS
    <3>4. <<e>> # <<>>
      BY <2>4, TupleFacts
    <3>. QED BY <2>4, <3>2, <3>3, <3>4 DEF TreeMade
  <2>6. StatsMade(NewStats) /\ NewStats.active
    BY EmptyIsTuple DEF StatsMade, NewStats
  <2>7. PoolOk(<<NewStats>>, <<>>)
    <3>1. \A i \in 1 .. 1 : <<NewStats>>[i] = NewStats
      OBVIOUS
    <3>2. <<>> \in Seq(1 .. 1) /\ ~ \E i : i \in 1 .. Len(<<>>)
      OBVIOUS
    <3>. QED BY <2>4, <2>6, <3>1, <3>2 DEF PoolOk
  <2>8. Owners(1, ownersOf(<<e>>), <<NewStats>>, <<>>)
    <3>1. \A i \in 1 .. 1 : ownersOf(<<e>>)[i] = 1 /\ i = 1
      BY <2>3, <2>4 DEF ownersOf, NewLeaf
    <3>2. <<NewStats>>[1] = NewStats /\ ~ \E i : i \in 1 .. Len(<<>>)
      OBVIOUS
    <3>. QED BY <2>4, <2>6, <3>1, <3>2 DEF Owners, isFree
  <2>9. Core(heatNodes, slots, FreeList)
    BY <2>2, <2>4, <2>5, <2>7, <2>8 DEF Core
  <2>10. SearchOk(heatNodes, search)
    BY <2>2, <2>4 DEF SearchOk
  <2>11. DecayOk(heatNodes, decay)
    <3>1. DOMAIN decay = {"pc", "stack", "found", "i", "sum"} /\ decay.pc = "idle" /\ decay.stack = <<>>
      BY <2>2
    <3>2. StackOk(heatNodes, <<>>)
      <4>1. ~ \E i : i \in 1 .. Len(<<>>)
        OBVIOUS
      <4>. QED BY <4>1, EmptyIsTuple DEF StackOk
    <3>. QED BY <3>1, <3>2 DEF DecayOk, VisitOk
  <2>. QED BY <2>9, <2>10, <2>11, InvariantIs
<1>2. HeatInv /\ [HeatMapNext]_heatVars => HeatInv'
  <2>. SUFFICES ASSUME HeatInv, [HeatMapNext]_heatVars PROVE HeatInv'
    OBVIOUS
  <2>1. CASE HeatMapNext
    <3>1. \/ (\E k \in HeatKeys : RecordWriteAsync(k)) \/ asyncProcessSamples
          \/ SearchLeaf \/ AddSample \/ OnMemtableFlush
          \/ decayLeaf \/ visitRouter \/ checkChild \/ freeChild \/ foldNode \/ publishSnapshot
      BY <2>1 DEF HeatMapNext, EpochDecayAndSnapshot
    <3>. QED BY <3>1, QueueStep, SearchLeafStep, AddSampleStep, FlushStep, DecayLeafStep, VisitRouterStep,
                CheckChildStep, FreeChildStep, FoldNodeStep, PublishStep
  <2>2. CASE UNCHANGED heatVars
    <3>1. heatNodes' = heatNodes /\ slots' = slots /\ FreeList' = FreeList /\ search' = search /\ decay' = decay
      BY <2>2 DEF heatVars
    <3>. QED BY <3>1, InvariantIs
  <2>. QED BY <2>1, <2>2
<1>. QED BY <1>1, <1>2, PTL DEF HeatMapSpec

(* No two nodes share a slot of statistics, and an owned slot is active    *)
(* and not on the free list (AllocateStats, FreeStats).                    *)
THEOREM SlotsHaveOneOwner == HeatMapSpec => []SlotsOwnedOnce
<1>1. HeatInv => SlotsOwnedOnce
  BY DEF HeatInv
<1>. QED BY <1>1, HeatMapInvariant, PTL

-----------------------------------------------------------------------------
(***************************************************************************)
(* Stream and backup.                                                      *)
(***************************************************************************)

(* Tuples of lists.                                                        *)
LEMMA SameTuple ==
  ASSUME NEW s, isTuple(s), NEW t, isTuple(t), Len(s) = Len(t), \A i \in 1 .. Len(s) : s[i] = t[i]
  PROVE  s = t
<1>1. Len(s) \in Nat /\ s = [i \in 1 .. Len(s) |-> s[i]] /\ t = [i \in 1 .. Len(s) |-> t[i]]
  BY TupleFacts
<1>. QED BY <1>1

LEMMA EmptyLength == isTuple(<<>>) /\ Len(<<>>) = 0
BY EmptyIsTuple

LEMMA ConcatEmpty ==
  ASSUME NEW s, isTuple(s)
  PROVE  s \o <<>> = s
<1>1. /\ isTuple(s \o <<>>) /\ Len(s \o <<>>) = Len(s) + Len(<<>>)
      /\ \A i \in 1 .. Len(s) + Len(<<>>) : (s \o <<>>)[i] = IF i <= Len(s) THEN s[i] ELSE <<>>[i - Len(s)]
  BY EmptyLength, TupleConcat
<1>2. Len(s) \in Nat /\ Len(s) + Len(<<>>) = Len(s)
  BY TupleFacts, EmptyLength
<1>3. \A i \in 1 .. Len(s) : (s \o <<>>)[i] = s[i]
  BY <1>1, <1>2
<1>4. Len(s \o <<>>) = Len(s)
  BY <1>1, <1>2
<1>. QED BY <1>1, <1>3, <1>4, SameTuple

LEMMA AppendLast ==
  ASSUME NEW s, isTuple(s), NEW t, isTuple(t), NEW e
  PROVE  s \o Append(t, e) = Append(s \o t, e)
<1>. DEFINE a == s \o t
            b == Append(t, e)
            l == s \o b
            r == Append(a, e)
<1>1. /\ isTuple(a) /\ Len(a) = Len(s) + Len(t)
      /\ \A i \in 1 .. Len(s) + Len(t) : a[i] = IF i <= Len(s) THEN s[i] ELSE t[i - Len(s)]
  BY TupleConcat
<1>2. isTuple(b) /\ Len(b) = Len(t) + 1 /\ b[Len(t) + 1] = e /\ \A i \in 1 .. Len(t) : b[i] = t[i]
  BY TupleAppend
<1>. HIDE DEF a, b
<1>3. /\ isTuple(l) /\ Len(l) = Len(s) + Len(b)
      /\ \A i \in 1 .. Len(s) + Len(b) : l[i] = IF i <= Len(s) THEN s[i] ELSE b[i - Len(s)]
  BY <1>2, TupleConcat
<1>4. isTuple(r) /\ Len(r) = Len(a) + 1 /\ r[Len(a) + 1] = e /\ \A i \in 1 .. Len(a) : r[i] = a[i]
  BY <1>1, TupleAppend
<1>. HIDE DEF l, r
<1>5. PICK m \in Nat : m = Len(s)
  BY TupleFacts
<1>6. PICK n \in Nat : n = Len(t)
  BY TupleFacts
<1>7. Len(l) = m + n + 1 /\ Len(r) = m + n + 1
  BY <1>1, <1>2, <1>3, <1>4, <1>5, <1>6
<1>8. ASSUME NEW i \in 1 .. m + n + 1 PROVE l[i] = r[i]
  <2>1. CASE i <= m
    <3>1. i \in 1 .. Len(s) + Len(b) /\ i \in 1 .. Len(a) /\ i \in 1 .. Len(s) + Len(t) /\ i <= Len(s)
      BY <1>1, <1>2, <1>5, <1>6, <2>1
    <3>. QED BY <1>1, <1>3, <1>4, <3>1
  <2>2. CASE i > m /\ i <= m + n
    <3>1. i \in 1 .. Len(s) + Len(b) /\ i \in 1 .. Len(a) /\ i \in 1 .. Len(s) + Len(t) /\ ~ (i <= Len(s))
      BY <1>1, <1>2, <1>5, <1>6, <2>2
    <3>2. i - Len(s) \in 1 .. Len(t)
      BY <1>5, <1>6, <2>2
    <3>3. l[i] = b[i - Len(s)] /\ r[i] = t[i - Len(s)]
      BY <1>1, <1>3, <1>4, <3>1
    <3>. QED BY <1>2, <3>2, <3>3
  <2>3. CASE i = m + n + 1
    <3>1. i \in 1 .. Len(s) + Len(b) /\ i = Len(a) + 1 /\ ~ (i <= Len(s)) /\ i - Len(s) = Len(t) + 1
      BY <1>1, <1>2, <1>5, <1>6, <2>3
    <3>2. l[i] = b[Len(t) + 1] /\ r[i] = e
      BY <1>3, <1>4, <3>1
    <3>. QED BY <1>2, <3>2
  <2>. QED BY <2>1, <2>2, <2>3
<1>9. l = r
  <2>1. \A i \in 1 .. Len(l) : l[i] = r[i]
    BY <1>7, <1>8
  <2>. QED BY <1>3, <1>4, <1>7, <2>1, SameTuple
<1>. QED BY <1>9 DEF l, r, a, b

(* Lists that hold nothing twice.                                          *)
Once(s) == isTuple(s) /\ \A i, j \in DOMAIN s : s[i] = s[j] => i = j

LEMMA ToSetIs ==
  ASSUME NEW s, isTuple(s)
  PROVE  /\ \A x : x \in ToSet(s) <=> \E i \in 1 .. Len(s) : x = s[i]
         /\ DOMAIN s = 1 .. Len(s) /\ Len(s) \in Nat
<1>1. DOMAIN s = 1 .. Len(s) /\ Len(s) \in Nat
  BY TupleFacts
<1>. QED BY <1>1 DEF ToSet

LEMMA OnceAppend ==
  ASSUME NEW s, Once(s), NEW e, e \notin ToSet(s)
  PROVE  Once(Append(s, e)) /\ ToSet(Append(s, e)) = ToSet(s) \cup {e}
<1>. DEFINE t == Append(s, e)
<1>1. isTuple(s) /\ \A i, j \in 1 .. Len(s) : s[i] = s[j] => i = j
  BY ToSetIs DEF Once
<1>2. isTuple(t) /\ Len(t) = Len(s) + 1 /\ t[Len(s) + 1] = e /\ \A i \in 1 .. Len(s) : t[i] = s[i]
  BY <1>1, TupleAppend
<1>. HIDE DEF t
<1>3. PICK n \in Nat : n = Len(s)
  BY <1>1, TupleFacts
<1>4. DOMAIN t = 1 .. n + 1 /\ \A x : x \in ToSet(t) <=> \E i \in 1 .. n + 1 : x = t[i]
  BY <1>2, <1>3, ToSetIs
<1>5. \A x : x \in ToSet(s) <=> \E i \in 1 .. n : x = s[i]
  BY <1>1, <1>3, ToSetIs
<1>6. \A i \in 1 .. n + 1 : i \in 1 .. n \/ i = n + 1
  OBVIOUS
<1>7. \A i \in 1 .. n : i \in 1 .. n + 1 /\ i # n + 1
  OBVIOUS
<1>7a. n + 1 \in 1 .. n + 1
  OBVIOUS
<1>8. \A i \in 1 .. n : t[i] = s[i] /\ t[i] # e
  BY <1>2, <1>3, <1>5
<1>9. t[n + 1] = e
  BY <1>2, <1>3
<1>10. \A i, j \in 1 .. n + 1 : t[i] = t[j] => i = j
  BY <1>1, <1>3, <1>6, <1>8, <1>9
<1>11. ToSet(t) = ToSet(s) \cup {e}
  BY <1>4, <1>5, <1>6, <1>7, <1>7a, <1>8, <1>9
<1>. QED BY <1>2, <1>4, <1>10, <1>11 DEF Once, t

LEMMA OnceFirst ==
  ASSUME NEW s, isTuple(s), NEW t, isTuple(t), Once(s \o t)
  PROVE  Once(s) /\ ToSet(s) \subseteq ToSet(s \o t)
<1>. DEFINE u == s \o t
<1>1. /\ isTuple(u) /\ Len(u) = Len(s) + Len(t)
      /\ \A i \in 1 .. Len(s) + Len(t) : u[i] = IF i <= Len(s) THEN s[i] ELSE t[i - Len(s)]
  BY TupleConcat
<1>2. Once(u)
  OBVIOUS
<1>. HIDE DEF u
<1>3. PICK m \in Nat : m = Len(s)
  BY TupleFacts
<1>4. PICK n \in Nat : n = Len(t)
  BY TupleFacts
<1>5. \A i \in 1 .. m : i \in 1 .. m + n /\ i <= m
  OBVIOUS
<1>6. \A i \in 1 .. m : i \in DOMAIN u /\ u[i] = s[i]
  BY <1>1, <1>3, <1>4, <1>5, TupleFacts
<1>7. \A i, j \in 1 .. m : s[i] = s[j] => i = j
  BY <1>2, <1>6 DEF Once
<1>8. DOMAIN s = 1 .. m
  BY <1>3, TupleFacts
<1>9. ToSet(s) \subseteq ToSet(u)
  BY <1>6, <1>8 DEF ToSet
<1>. QED BY <1>7, <1>8, <1>9 DEF Once, u

LEMMA OnceCounted ==
  ASSUME NEW s, Once(s)
  PROVE  Len(s) = Cardinality(ToSet(s))
<1>1. isTuple(s) /\ Len(s) \in Nat /\ DOMAIN s = 1 .. Len(s) /\ s = [i \in 1 .. Len(s) |-> s[i]]
  BY TupleFacts DEF Once
<1>2. s \in Bijection(1 .. Len(s), ToSet(s))
  BY <1>1 DEF Once, ToSet, Bijection, Injection, Surjection, IsInjective
<1>3. ExistsBijection(1 .. Len(s), ToSet(s))
  BY <1>2 DEF ExistsBijection
<1>. QED BY <1>1, <1>3, FS_CountingElements

LEMMA TailOf ==
  ASSUME NEW T, NEW s \in Seq(T), s # <<>>
  PROVE  /\ Tail(s) \in Seq(T) /\ Len(Tail(s)) = Len(s) - 1 /\ Head(s) = s[1] /\ 1 \in 1 .. Len(s)
         /\ \A i \in 1 .. Len(s) - 1 : Tail(s)[i] = s[i + 1] /\ Len(s) \in Nat
OBVIOUS

(* The lists as functions of the state they are read from: an entry of a   *)
(* list is of the list's key, and a later commit adds nothing to a list.   *)
ListFrom(db, sn, k, ts) ==
  LET es == {e \in db : e.key = k /\ e.ts <= ts /\ (sn > 0 => e.ts > sn)}
      ends == {e \in es : e.kind # "put"}
      listed == {e \in es : \A d \in ends : e.ts >= d.ts}
  IN listed \cup {[key |-> k, ts |-> e.ts - 1, kind |-> "del"] : e \in {e \in listed : e.kind = "disc"}}
ReadFrom(ks, db, sn, at) == {ListFrom(db, sn, k, at[k]) : k \in ks} \ {{}}

LEMMA ListIs == \A k, ts : KeyToList(k, ts) = ListFrom(streamDb, since, k, ts)
BY DEF KeyToList, inStream, ListFrom

ReadsLists ==
  /\ \A k : listOf(k) = ListFrom(streamDb, since, k, readAt[k])
  /\ readLists = ReadFrom(keysRead, streamDb, since, readAt)

LEMMA ListsAre == ReadsLists
<1>1. \A k : listOf(k) = ListFrom(streamDb, since, k, readAt[k])
  BY ListIs DEF listOf
<1>. QED BY <1>1 DEF readLists, ReadFrom, ReadsLists

LEMMA ListsAreNext == ReadsLists'
BY ListsAre, PTL

LEMMA ListHasKey ==
  ASSUME NEW db, NEW sn, NEW k, NEW ts, NEW e \in ListFrom(db, sn, k, ts)
  PROVE  e.key = k
BY DEF ListFrom

CommittedAt(es, t) == \A e \in es : e.ts = t

LEMMA ListKept ==
  ASSUME NEW db, NEW sn, NEW k, NEW t \in Nat, NEW at \in Nat, at <= t,
         NEW new, CommittedAt(new, t + 1)
  PROVE  ListFrom(db \cup new, sn, k, at) = ListFrom(db, sn, k, at)
<1>1. \A e \in new : ~ (e.ts <= at)
  BY DEF CommittedAt
<1>2. {e \in db \cup new : e.key = k /\ e.ts <= at /\ (sn > 0 => e.ts > sn)}
        = {e \in db : e.key = k /\ e.ts <= at /\ (sn > 0 => e.ts > sn)}
  BY <1>1
<1>. QED BY <1>2 DEF ListFrom

LEMMA ReadKept ==
  ASSUME NEW ks, NEW db, NEW sn, NEW at, NEW db2, NEW at2,
         \A k \in ks : ListFrom(db2, sn, k, at2[k]) = ListFrom(db, sn, k, at[k])
  PROVE  ReadFrom(ks, db2, sn, at2) = ReadFrom(ks, db, sn, at)
BY DEF ReadFrom

LEMMA ReadMore ==
  ASSUME NEW ks, NEW db, NEW sn, NEW at, NEW j, j \notin ks
  PROVE  /\ ReadFrom(ks \cup {j}, db, sn, at) = ReadFrom(ks, db, sn, at) \cup ({ListFrom(db, sn, j, at[j])} \ {{}})
         /\ ListFrom(db, sn, j, at[j]) # {} => ListFrom(db, sn, j, at[j]) \notin ReadFrom(ks, db, sn, at)
<1>1. ASSUME NEW k \in ks, ListFrom(db, sn, j, at[j]) # {}, ListFrom(db, sn, j, at[j]) = ListFrom(db, sn, k, at[k])
      PROVE  FALSE
  <2>1. PICK e : e \in ListFrom(db, sn, j, at[j])
    BY <1>1
  <2>2. e.key = j /\ e.key = k
    BY <1>1, <2>1, ListHasKey
  <2>. QED BY <2>2
<1>2. ListFrom(db, sn, j, at[j]) # {} => ListFrom(db, sn, j, at[j]) \notin ReadFrom(ks, db, sn, at)
  BY <1>1 DEF ReadFrom
<1>3. \A x : x \in ReadFrom(ks \cup {j}, db, sn, at)
               <=> x \in ReadFrom(ks, db, sn, at) \/ (x = ListFrom(db, sn, j, at[j]) /\ x # {})
  BY DEF ReadFrom
<1>4. ReadFrom(ks \cup {j}, db, sn, at) = ReadFrom(ks, db, sn, at) \cup ({ListFrom(db, sn, j, at[j])} \ {{}})
  <2>1. PICK more, some, l : /\ more = ReadFrom(ks \cup {j}, db, sn, at) /\ some = ReadFrom(ks, db, sn, at)
                             /\ l = ListFrom(db, sn, j, at[j])
    OBVIOUS
  <2>2. \A x : x \in more <=> x \in some \/ (x = l /\ x # {})
    BY <1>3, <2>1
  <2>3. more = some \cup ({l} \ {{}})
    BY <2>2
  <2>. QED BY <2>1, <2>3
<1>. QED BY <1>2, <1>4

(* What of the lists an action has to keep.                                *)
Delivery(ls, rd, failing) == Once(ls) /\ ToSet(ls) \subseteq rd /\ (~ failing => rd \subseteq ToSet(ls))
live == orchestrate \in {"running", "closed", "ok"} /\ nobodyFailed
Timestamps == streamTs \in Nat /\ startTs \in 0 .. streamTs
Queues == isTuple(dump) /\ isTuple(sender.batch) /\ isTuple(kvChan)

Stamped == \A k \in StreamKeys \ waiting : readAt[k] \in startTs .. streamTs
ListsParts == ListsMade <=> Queues /\ Timestamps /\ Stamped /\ Delivery(lists, readLists, ~ live)

LEMMA ListsMadeIs == ListsParts
<1>1. (\A q \in {dump, sender.batch, kvChan} : q \in Seq(ToSet(q))) <=> Queues
  BY DEF Queues, isTuple
<1>2. Queues => isTuple(lists)
  BY TupleConcat DEF Queues, lists
<1>3. live \in BOOLEAN
  BY DEF live
<1>. QED BY <1>1, <1>2, <1>3 DEF ListsMade, Delivery, Once, Timestamps, Stamped, live, ListsParts

LEMMA ListsMadeNext == ListsParts'
BY ListsMadeIs, PTL

(* What the lists of the keys read, and those keys, depend on.             *)
LEMMA SameReads ==
  ASSUME UNCHANGED <<streamDb, since, readAt>>, keysRead' = keysRead
  PROVE  readLists' = readLists
BY ListsAre, ListsAreNext DEF ReadsLists

LEMMA SameKeys ==
  ASSUME waiting' = waiting, producer' = producer
  PROVE  keysRead' = keysRead
BY DEF keysRead

LEMMA ToSetEmpty == ToSet(<<>>) = {}
BY DEF ToSet

LEMMA StreamStarts == StreamInit => StreamInv
<1>. SUFFICES ASSUME StreamInit PROVE StreamInv
  OBVIOUS
<1>1. waiting = {} /\ ToSet(rangeCh) = {}
  BY ToSetEmpty DEF StreamInit, waiting
<1>2. RangesMade
  BY <1>1 DEF StreamInit, RangesMade
<1>3. \A p \in Producers : producer[p] = IdleProducer
  BY DEF StreamInit
<1>4. ProducersMade
  BY <1>1, <1>3 DEF StreamInit, ProducersMade, ProducerMade, IdleProducer
<1>5. SenderMade /\ OrchestrateMade
  BY DEF StreamInit, SenderMade, OrchestrateMade
<1>6. Queues /\ Timestamps /\ Stamped /\ ~ live
  BY EmptyIsTuple DEF StreamInit, Queues, Timestamps, Stamped, live
<1>7. lists = <<>>
  BY EmptyIsTuple, ConcatEmpty DEF StreamInit, lists
<1>8. Delivery(lists, readLists, ~ live)
  BY <1>6, <1>7, ToSetEmpty, EmptyIsTuple DEF Delivery, Once
<1>. QED BY <1>2, <1>4, <1>5, <1>6, <1>8, ListsMadeIs DEF StreamInv, StreamInit, ListsParts

(* Steps that leave the ranges alone, and those that leave the lists.      *)
LEMMA RangesAlone ==
  ASSUME RangesMade, UNCHANGED <<rangesLeft, rangeCh, rangesClosed>>
  PROVE  RangesMade' /\ waiting' = waiting
BY DEF RangesMade, waiting

LEMMA ProducersAlone ==
  ASSUME ProducersMade, UNCHANGED <<rangesLeft, rangeCh, rangesClosed, producer, startTs, readAt>>, waiting' = waiting,
         Timestamps, streamTs' \in Nat, streamTs <= streamTs'
  PROVE  ProducersMade'
<1>1. \A x \in startTs .. streamTs : x \in startTs .. streamTs'
  BY DEF Timestamps
<1>2. ASSUME NEW p \in Producers PROVE ProducerMade(producer[p])'
  BY <1>1 DEF ProducersMade, ProducerMade
<1>. QED BY <1>2 DEF ProducersMade

LEMMA CommitStep ==
  ASSUME StreamInv, NEW ks, NEW kind, streamCommit(ks, kind)
  PROVE  StreamInv'
<1>1. /\ UNCHANGED <<orchestrate, since, rangesLeft, rangeCh, rangesClosed, producer, kvChan, sender, cancelled,
                     dump, startTs, readAt>>
      /\ streamTs' = streamTs + 1
      /\ streamDb' = streamDb \cup {[key |-> k, ts |-> streamTs + 1, kind |-> kind] : k \in ks}
  BY DEF streamCommit
<1>2. RangesMade /\ ProducersMade /\ SenderMade /\ OrchestrateMade /\ DOMAIN readAt = StreamKeys /\ Queues
      /\ Timestamps /\ Stamped /\ Delivery(lists, readLists, ~ live)
  BY ListsMadeIs DEF StreamInv, ListsParts
<1>3. RangesMade' /\ waiting' = waiting
  BY <1>1, <1>2, RangesAlone
<1>4. streamTs \in Nat /\ streamTs' \in Nat /\ streamTs <= streamTs' /\ startTs \in Nat /\ startTs \in 0 .. streamTs'
  BY <1>1, <1>2 DEF Timestamps
<1>5. ProducersMade'
  BY <1>1, <1>2, <1>3, <1>4, ProducersAlone
<1>6. SenderMade' /\ OrchestrateMade'
  BY <1>1, <1>2 DEF SenderMade, OrchestrateMade
<1>7. keysRead' = keysRead
  BY <1>1, <1>3, SameKeys
<1>8. ASSUME NEW k \in keysRead
      PROVE  ListFrom(streamDb', since, k, readAt[k]) = ListFrom(streamDb, since, k, readAt[k])
  <2>1. k \in StreamKeys \ waiting
    BY DEF keysRead
  <2>2. readAt[k] \in Nat /\ readAt[k] <= streamTs
    BY <1>2, <1>4, <2>1 DEF Stamped
  <2>. DEFINE new == {[key |-> j, ts |-> streamTs + 1, kind |-> kind] : j \in ks}
  <2>3. CommittedAt(new, streamTs + 1)
    BY DEF CommittedAt
  <2>4. streamDb' = streamDb \cup new
    BY <1>1
  <2>. HIDE DEF new
  <2>5. PICK t : t = streamTs
    OBVIOUS
  <2>6. PICK at : at = readAt[k]
    OBVIOUS
  <2>7. PICK db, sn, nw : db = streamDb /\ sn = since /\ nw = new
    OBVIOUS
  <2>8. t \in Nat /\ at \in Nat /\ at <= t /\ CommittedAt(nw, t + 1)
    BY <1>4, <2>2, <2>3, <2>5, <2>6, <2>7
  <2>9. ListFrom(db \cup nw, sn, k, at) = ListFrom(db, sn, k, at)
    BY <2>8, ListKept
  <2>. QED BY <2>4, <2>6, <2>7, <2>9
<1>9. readLists' = readLists
  <2>1. readLists' = ReadFrom(keysRead, streamDb', since, readAt)
    BY <1>1, <1>7, ListsAreNext DEF ReadsLists
  <2>. QED BY <1>8, <2>1, ListsAre, ReadKept DEF ReadsLists
<1>10. lists' = lists /\ live' = live /\ Queues'
  BY <1>1, <1>2 DEF lists, live, nobodyFailed, Queues
<1>11. Timestamps' /\ Stamped'
  BY <1>1, <1>2, <1>3, <1>4 DEF Timestamps, Stamped
<1>12. Delivery(lists', readLists', ~ live')
  BY <1>2, <1>9, <1>10
<1>. QED BY <1>1, <1>2, <1>3, <1>5, <1>6, <1>10, <1>11, <1>12, ListsMadeNext DEF StreamInv, ListsParts

LEMMA BackupStep == ASSUME StreamInv, Backup PROVE StreamInv'
<1>1. /\ orchestrate' = "running" /\ rangesLeft' = ToSet(StreamRanges) /\ rangeCh' = <<>> /\ rangesClosed' = FALSE
      /\ producer' = [p \in Producers |-> IdleProducer] /\ kvChan' = <<>>
      /\ sender' = [pc |-> "wait", batch |-> <<>>] /\ dump' = <<>>
      /\ startTs' = streamTs /\ streamTs' = streamTs /\ readAt' = [k \in StreamKeys |-> 0]
  BY DEF Backup
<1>2. Timestamps
  BY ListsMadeIs DEF StreamInv, ListsParts
<1>3. waiting' = StreamKeys
  BY <1>1, ToSetEmpty DEF waiting, StreamKeys
<1>4. RangesMade'
  BY <1>1, ToSetEmpty DEF RangesMade
<1>5. \A p \in Producers : producer'[p] = IdleProducer
  BY <1>1
<1>6. ProducersMade'
  BY <1>1, <1>5 DEF ProducersMade, ProducerMade, IdleProducer
<1>7. SenderMade' /\ OrchestrateMade'
  BY <1>1 DEF SenderMade, OrchestrateMade
<1>8. Queues' /\ Stamped'
  BY <1>1, <1>3, EmptyIsTuple DEF Queues, Stamped
<1>9. Timestamps'
  BY <1>1, <1>2 DEF Timestamps
<1>10. lists' = <<>>
  BY <1>1, EmptyIsTuple, ConcatEmpty DEF lists
<1>11. readLists' = {}
  <2>1. keysRead' = {}
    BY <1>3 DEF keysRead
  <2>. QED BY <2>1, ListsAreNext DEF ReadsLists, ReadFrom
<1>12. Delivery(lists', readLists', ~ live')
  BY <1>10, <1>11, ToSetEmpty, EmptyIsTuple DEF Delivery, Once
<1>. QED BY <1>1, <1>4, <1>6, <1>7, <1>8, <1>9, <1>12, ListsMadeNext DEF StreamInv, ListsParts

(* An action that leaves the keys read and the lists, or that only moves   *)
(* the lists on, keeps what StreamInv says of them.                        *)
LEMMA ListsStay ==
  ASSUME StreamInv, UNCHANGED <<streamDb, streamTs, since, readAt, startTs>>,
         waiting' = waiting, keysRead' = keysRead, Queues', lists' = lists, live' => live
  PROVE  ListsMade'
<1>1. Timestamps /\ Stamped /\ Delivery(lists, readLists, ~ live)
  BY ListsMadeIs DEF StreamInv, ListsParts
<1>2. readLists' = readLists
  BY SameReads
<1>3. Delivery(lists', readLists', ~ live')
  BY <1>1, <1>2 DEF Delivery
<1>4. Timestamps' /\ Stamped'
  BY <1>1 DEF Timestamps, Stamped
<1>. QED BY <1>3, <1>4, ListsMadeNext DEF ListsParts

LEMMA RangeStep == ASSUME StreamInv, produceRanges PROVE StreamInv'
<1>1. /\ orchestrate = "running" /\ ~ rangesClosed
      /\ UNCHANGED <<streamDb, streamTs, orchestrate, since, producer, kvChan, sender, cancelled, dump, startTs, readAt>>
  BY DEF produceRanges
<1>2. RangesMade /\ ProducersMade /\ SenderMade /\ OrchestrateMade /\ DOMAIN readAt = StreamKeys /\ Queues
  BY ListsMadeIs DEF StreamInv, ListsParts
<1>3. RangesMade' /\ waiting' = waiting
  <2>1. CASE rangesLeft = {} /\ rangesClosed' = TRUE /\ UNCHANGED <<rangesLeft, rangeCh>>
    BY <1>2, <2>1 DEF RangesMade, waiting
  <2>2. ASSUME NEW r \in rangesLeft, rangeCh' = Append(rangeCh, r), rangesLeft' = rangesLeft \ {r}, UNCHANGED rangesClosed
        PROVE  RangesMade' /\ waiting' = waiting
    <3>1. isTuple(rangeCh) /\ rangeCh \in Seq(ToSet(StreamRanges)) /\ r \in ToSet(StreamRanges)
      BY <1>2, SeqIsTuple DEF RangesMade
    <3>2. Once(rangeCh) /\ r \notin ToSet(rangeCh)
      BY <1>2, <3>1 DEF RangesMade, Once
    <3>3. Once(rangeCh') /\ ToSet(rangeCh') = ToSet(rangeCh) \cup {r}
      BY <2>2, <3>2, OnceAppend
    <3>4. rangeCh' \in Seq(ToSet(StreamRanges))
      BY <2>2, <3>1
    <3>5. rangesLeft' \cup ToSet(rangeCh') = rangesLeft \cup ToSet(rangeCh)
      BY <2>2, <3>3
    <3>. QED BY <1>1, <1>2, <2>2, <3>3, <3>4, <3>5 DEF RangesMade, Once, waiting
  <2>. QED BY <2>1, <2>2 DEF produceRanges
<1>4. ProducersMade'
  <2>1. ASSUME NEW p \in Producers PROVE ProducerMade(producer[p])'
    BY <1>1, <1>2, <1>3 DEF ProducersMade, ProducerMade
  <2>. QED BY <1>1, <1>2, <2>1 DEF ProducersMade
<1>5. SenderMade' /\ OrchestrateMade'
  BY <1>1, <1>2 DEF SenderMade, OrchestrateMade
<1>6. keysRead' = keysRead
  BY <1>1, <1>3, SameKeys
<1>7. lists' = lists /\ live' = live /\ Queues'
  BY <1>1, <1>2 DEF lists, live, nobodyFailed, Queues
<1>8. ListsMade'
  BY <1>1, <1>3, <1>6, <1>7, ListsStay
<1>. QED BY <1>1, <1>2, <1>3, <1>4, <1>5, <1>8 DEF StreamInv

(* A producer's own step, seen from outside: p becomes r.                  *)
Becomes(p, r) == /\ DOMAIN producer' = Producers /\ producer'[p] = r
                 /\ \A q \in Producers \ {p} : producer'[q] = producer[q]

LEMMA KeysOfBecomes ==
  ASSUME NEW p \in Producers, NEW r, Becomes(p, r), r.todo = producer[p].todo, waiting' = waiting
  PROVE  keysRead' = keysRead
<1>1. \A q \in Producers : producer'[q].todo = producer[q].todo
  BY DEF Becomes
<1>. QED BY <1>1 DEF keysRead

LEMMA OrchestrateStays ==
  ASSUME OrchestrateMade, NEW p \in Producers, producer[p].pc \notin {"done", "failed"},
         UNCHANGED orchestrate
  PROVE  OrchestrateMade' /\ orchestrate \in {"idle", "running"}
BY DEF OrchestrateMade

LEMMA BeginStep == ASSUME StreamInv, NEW p \in Producers, produceKVs(p) PROVE StreamInv'
<1>1. /\ orchestrate = "running" /\ producer[p].pc = "new"
      /\ producer' = [producer EXCEPT ![p] = [pc |-> "ranges", ts |-> streamTs, todo |-> {}]]
      /\ UNCHANGED <<streamDb, streamTs, orchestrate, since, rangesLeft, rangeCh, rangesClosed, kvChan, sender, dump,
                     startTs, readAt>>
  BY DEF produceKVs
<1>2. RangesMade /\ ProducersMade /\ SenderMade /\ OrchestrateMade /\ DOMAIN readAt = StreamKeys /\ Queues /\ Timestamps
  BY ListsMadeIs DEF StreamInv, ListsParts
<1>3. RangesMade' /\ waiting' = waiting
  BY <1>1, <1>2, RangesAlone
<1>4. Becomes(p, [pc |-> "ranges", ts |-> streamTs, todo |-> {}])
  BY <1>1, <1>2 DEF Becomes, ProducersMade
<1>5. producer[p].todo = {}
  BY <1>1, <1>2 DEF ProducersMade, ProducerMade
<1>6. \A q \in Producers : producer'[q].todo = producer[q].todo
  BY <1>4, <1>5 DEF Becomes
<1>7. ProducersMade'
  <2>0. streamTs \in startTs .. streamTs
    BY <1>2 DEF Timestamps
  <2>1. ProducerMade(producer[p])'
    BY <1>1, <1>4, <2>0 DEF Becomes, ProducerMade
  <2>2. ASSUME NEW q \in Producers \ {p} PROVE ProducerMade(producer[q])'
    BY <1>1, <1>2, <1>3, <1>4 DEF Becomes, ProducersMade, ProducerMade
  <2>. QED BY <1>2, <1>4, <1>6, <2>1, <2>2 DEF Becomes, ProducersMade
<1>8. SenderMade' /\ OrchestrateMade'
  BY <1>1, <1>2, OrchestrateStays DEF SenderMade
<1>9. keysRead' = keysRead
  BY <1>3, <1>4, <1>5, KeysOfBecomes
<1>10. lists' = lists /\ Queues'
  BY <1>1, <1>2 DEF lists, Queues
<1>11. live' => live
  BY <1>1, <1>4 DEF live, nobodyFailed, Becomes
<1>12. ListsMade'
  BY <1>1, <1>3, <1>9, <1>10, <1>11, ListsStay
<1>. QED BY <1>1, <1>2, <1>3, <1>7, <1>8, <1>12 DEF StreamInv

LEMMA CancelStep == ASSUME StreamInv, NEW p \in Producers, producerCancelled(p) PROVE StreamInv'
<1>1. /\ producer[p].pc \in {"ranges", "iterate"}
      /\ producer' = [producer EXCEPT ![p].pc = "failed"]
      /\ UNCHANGED <<streamDb, streamTs, orchestrate, since, rangesLeft, rangeCh, rangesClosed, kvChan, sender, dump,
                     startTs, readAt>>
  BY DEF producerCancelled
<1>2. RangesMade /\ ProducersMade /\ SenderMade /\ OrchestrateMade /\ DOMAIN readAt = StreamKeys /\ Queues /\ Timestamps
  BY ListsMadeIs DEF StreamInv, ListsParts
<1>3. RangesMade' /\ waiting' = waiting
  BY <1>1, <1>2, RangesAlone
<1>4. Becomes(p, [producer[p] EXCEPT !.pc = "failed"])
  BY <1>1, <1>2 DEF Becomes, ProducersMade
<1>5. /\ producer'[p].pc = "failed" /\ producer'[p].todo = producer[p].todo
      /\ DOMAIN producer'[p] = {"pc", "ts", "todo"}
  BY <1>2, <1>4 DEF Becomes, ProducersMade, ProducerMade
<1>6. \A q \in Producers : producer'[q].todo = producer[q].todo
  BY <1>4, <1>5 DEF Becomes
<1>7. ProducersMade'
  <2>1. ProducerMade(producer[p])'
    BY <1>1, <1>2, <1>3, <1>5 DEF ProducersMade, ProducerMade
  <2>2. ASSUME NEW q \in Producers \ {p} PROVE ProducerMade(producer[q])'
    BY <1>1, <1>2, <1>3, <1>4 DEF Becomes, ProducersMade, ProducerMade
  <2>. QED BY <1>2, <1>4, <1>6, <2>1, <2>2 DEF Becomes, ProducersMade
<1>8. SenderMade' /\ OrchestrateMade'
  BY <1>1, <1>2, OrchestrateStays DEF SenderMade
<1>9. keysRead' = keysRead
  BY <1>3, <1>6 DEF keysRead
<1>10. lists' = lists /\ Queues'
  BY <1>1, <1>2 DEF lists, Queues
<1>11. ~ live'
  BY <1>5 DEF live, nobodyFailed
<1>12. ListsMade'
  BY <1>1, <1>3, <1>9, <1>10, <1>11, ListsStay
<1>. QED BY <1>1, <1>2, <1>3, <1>7, <1>8, <1>12 DEF StreamInv

LEMMA TakeRange ==
  ASSUME StreamInv, rangeCh # <<>>, rangeCh' = Tail(rangeCh), UNCHANGED <<rangesLeft, rangesClosed>>
  PROVE  /\ RangesMade' /\ waiting' = waiting \ Head(rangeCh)
         /\ Head(rangeCh) \subseteq waiting /\ Head(rangeCh) \subseteq StreamKeys
<1>1. RangesMade
  BY DEF StreamInv
<1>. DEFINE r == Head(rangeCh)
            t == Tail(rangeCh)
<1>2. rangeCh \in Seq(ToSet(StreamRanges)) /\ isTuple(rangeCh)
  BY <1>1, SeqIsTuple DEF RangesMade
<1>3. /\ t \in Seq(ToSet(StreamRanges)) /\ Len(t) = Len(rangeCh) - 1 /\ r = rangeCh[1] /\ 1 \in 1 .. Len(rangeCh)
      /\ \A i \in 1 .. Len(rangeCh) - 1 : t[i] = rangeCh[i + 1] /\ Len(rangeCh) \in Nat
  BY <1>2, TailOf
<1>4. isTuple(t)
  BY <1>3, SeqIsTuple
<1>. HIDE DEF r, t
<1>5. PICK n \in Nat : n = Len(t)
  BY <1>4, TupleFacts
<1>6. Len(rangeCh) = n + 1 /\ 1 \in 1 .. n + 1
  <2>1. Len(rangeCh) \in Nat
    BY <1>2, TupleFacts
  <2>. QED BY <1>3, <1>5, <2>1
<1>7. \A i \in 1 .. n : t[i] = rangeCh[i + 1] /\ i + 1 \in 1 .. n + 1 /\ i + 1 # 1
  <2>1. Len(rangeCh) - 1 = n
    BY <1>6
  <2>. QED BY <1>3, <2>1
<1>8. \A i \in 1 .. n + 1 : i = 1 \/ \E j \in 1 .. n : i = j + 1
  <2>1. \A i \in 1 .. n + 1 : i # 1 => i - 1 \in 1 .. n /\ i = (i - 1) + 1
    OBVIOUS
  <2>. QED BY <2>1
<1>9. \A i, j \in 1 .. n + 1 : rangeCh[i] = rangeCh[j] => i = j
  BY <1>1, <1>2, <1>6, ToSetIs DEF RangesMade
<1>10. \A i, j \in 1 .. n : t[i] = t[j] => i = j
  <2>1. ASSUME NEW i \in 1 .. n, NEW j \in 1 .. n, t[i] = t[j] PROVE i = j
    <3>1. rangeCh[i + 1] = rangeCh[j + 1] /\ i + 1 \in 1 .. n + 1 /\ j + 1 \in 1 .. n + 1
      BY <1>7, <2>1
    <3>2. i + 1 = j + 1
      BY <1>9, <3>1
    <3>. QED BY <3>2
  <2>. QED BY <2>1
<1>11. \A x : x \in ToSet(rangeCh) <=> \E i \in 1 .. n + 1 : x = rangeCh[i]
  BY <1>2, <1>6, ToSetIs
<1>12. (\A x : x \in ToSet(t) <=> \E i \in 1 .. n : x = t[i]) /\ DOMAIN t = 1 .. n
  BY <1>4, <1>5, ToSetIs
<1>13. ToSet(rangeCh) = ToSet(t) \cup {r} /\ r \notin ToSet(t)
  <2>0. r = rangeCh[1]
    BY <1>3
  <2>1. ASSUME NEW x PROVE x \in ToSet(rangeCh) <=> x = r \/ x \in ToSet(t)
    <3>1. ASSUME x \in ToSet(rangeCh), x # r PROVE x \in ToSet(t)
      <4>1. PICK i \in 1 .. n + 1 : x = rangeCh[i]
        BY <1>11, <3>1
      <4>2. PICK j \in 1 .. n : i = j + 1
        BY <1>8, <2>0, <3>1, <4>1
      <4>3. x = t[j]
        BY <1>7, <4>1, <4>2
      <4>. QED BY <1>12, <4>3
    <3>2. ASSUME x \in ToSet(t) PROVE x \in ToSet(rangeCh)
      <4>1. PICK j \in 1 .. n : x = t[j]
        BY <1>12, <3>2
      <4>2. j + 1 \in 1 .. n + 1 /\ x = rangeCh[j + 1]
        BY <1>7, <4>1
      <4>. QED BY <1>11, <4>2
    <3>3. r \in ToSet(rangeCh)
      BY <1>6, <1>11, <2>0
    <3>. QED BY <3>1, <3>2, <3>3
  <2>2. r \notin ToSet(t)
    <3>1. ASSUME NEW i \in 1 .. n, r = t[i] PROVE FALSE
      <4>1. rangeCh[1] = rangeCh[i + 1] /\ i + 1 \in 1 .. n + 1 /\ i + 1 # 1
        BY <1>7, <2>0, <3>1
      <4>. QED BY <1>6, <1>9, <4>1
    <3>. QED BY <1>12, <3>1
  <2>. QED BY <2>1, <2>2
<1>14. r \in ToSet(rangeCh) /\ rangesLeft \cup ToSet(rangeCh) \subseteq ToSet(StreamRanges) /\ r \notin rangesLeft
  <2>1. \A x \in ToSet(rangeCh) : x \in ToSet(StreamRanges)
    BY <1>2, <1>11, <1>6
  <2>. QED BY <1>1, <1>13, <2>1 DEF RangesMade
<1>15. \A x \in rangesLeft \cup ToSet(t) : x \cap r = {}
  <2>1. \A x \in rangesLeft \cup ToSet(t) : x # r /\ x \in ToSet(StreamRanges) /\ r \in ToSet(StreamRanges)
    BY <1>13, <1>14
  <2>. QED BY <2>1, StreamAssumption
<1>16. r \subseteq StreamKeys /\ r \subseteq waiting
  BY <1>14 DEF StreamKeys, waiting
<1>17. rangeCh' = t
  BY DEF t
<1>18. waiting' = waiting \ r
  <2>1. waiting' = UNION (rangesLeft \cup ToSet(t))
    BY <1>17 DEF waiting
  <2>2. \A k : k \in UNION (rangesLeft \cup ToSet(t)) <=> k \in UNION (rangesLeft \cup ToSet(rangeCh)) /\ k \notin r
    BY <1>13, <1>15
  <2>. QED BY <2>1, <2>2 DEF waiting
<1>19. RangesMade'
  <2>1. ToSet(t) \cap rangesLeft = {}
    BY <1>1, <1>13 DEF RangesMade
  <2>. QED BY <1>1, <1>3, <1>10, <1>12, <1>17, <2>1 DEF RangesMade
<1>. QED BY <1>16, <1>18, <1>19 DEF r

LEMMA TakeStep ==
  ASSUME StreamInv, NEW p \in Producers, nextRange(p), rangeCh # <<>>
  PROVE  StreamInv'
<1>. DEFINE r == Head(rangeCh)
            pc == IF r = {} THEN "ranges" ELSE "iterate"
<1>1. /\ producer[p].pc = "ranges" /\ rangeCh' = Tail(rangeCh)
      /\ producer' = [producer EXCEPT ![p].todo = r, ![p].pc = pc]
      /\ readAt' = [k \in StreamKeys |-> IF k \in r THEN producer[p].ts ELSE readAt[k]]
      /\ UNCHANGED <<streamDb, streamTs, orchestrate, since, rangesLeft, rangesClosed, kvChan, sender, dump, startTs>>
  BY DEF nextRange
<1>2. RangesMade /\ ProducersMade /\ SenderMade /\ OrchestrateMade /\ DOMAIN readAt = StreamKeys /\ Queues
      /\ Timestamps /\ Stamped /\ Delivery(lists, readLists, ~ live)
  BY ListsMadeIs DEF StreamInv, ListsParts
<1>3. RangesMade' /\ waiting' = waiting \ r /\ r \subseteq waiting /\ r \subseteq StreamKeys
  BY <1>1, TakeRange
<1>4. producer[p].todo = {} /\ producer[p].ts \in startTs .. streamTs /\ DOMAIN producer[p] = {"pc", "ts", "todo"}
  BY <1>1, <1>2 DEF ProducersMade, ProducerMade
<1>. HIDE DEF r, pc
<1>5. /\ DOMAIN producer' = Producers /\ producer'[p].todo = r /\ producer'[p].pc = pc
      /\ producer'[p].ts = producer[p].ts /\ DOMAIN producer'[p] = {"pc", "ts", "todo"}
      /\ \A q \in Producers \ {p} : producer'[q] = producer[q]
  BY <1>1, <1>2, <1>4 DEF ProducersMade
<1>6. (\A k \in r : readAt'[k] = producer[p].ts) /\ \A k \in StreamKeys \ r : readAt'[k] = readAt[k]
  BY <1>1, <1>3
<1>7. \A q \in Producers : producer[q].todo \subseteq StreamKeys /\ producer[q].todo \cap r = {}
  BY <1>2, <1>3 DEF ProducersMade, ProducerMade
<1>8. ProducerMade(producer[p])'
  BY <1>1, <1>3, <1>4, <1>5, <1>6 DEF ProducerMade, pc
<1>9. ASSUME NEW q \in Producers \ {p} PROVE ProducerMade(producer[q])'
  <2>1. ProducerMade(producer[q])
    BY <1>2 DEF ProducersMade
  <2>2. producer[q].pc # "done"
    BY <2>1 DEF ProducerMade
  <2>3. \A k \in producer[q].todo : readAt'[k] = readAt[k]
    BY <1>6, <1>7
  <2>. QED BY <1>1, <1>3, <1>5, <2>1, <2>2, <2>3 DEF ProducerMade
<1>10. ProducersMade'
  <2>1. \A q, s \in Producers : q # s => producer'[q].todo \cap producer'[s].todo = {}
    BY <1>2, <1>5, <1>7 DEF ProducersMade
  <2>. QED BY <1>5, <1>8, <1>9, <2>1 DEF ProducersMade
<1>11. SenderMade' /\ OrchestrateMade'
  BY <1>1, <1>2, OrchestrateStays DEF SenderMade
<1>12. keysRead' = keysRead /\ keysRead \cap r = {} /\ keysRead \subseteq StreamKeys
  <2>1. \A k : (\A q \in Producers : k \notin producer'[q].todo) <=> k \notin r /\ \A q \in Producers : k \notin producer[q].todo
    BY <1>4, <1>5
  <2>. QED BY <1>3, <2>1 DEF keysRead
<1>13. readLists' = readLists
  <2>1. \A k \in keysRead : readAt'[k] = readAt[k]
    BY <1>6, <1>12
  <2>2. readLists' = ReadFrom(keysRead, streamDb, since, readAt')
    BY <1>1, <1>12, ListsAreNext DEF ReadsLists
  <2>3. ReadFrom(keysRead, streamDb, since, readAt') = ReadFrom(keysRead, streamDb, since, readAt)
    BY <2>1 DEF ReadFrom
  <2>. QED BY <2>2, <2>3, ListsAre DEF ReadsLists
<1>14. lists' = lists /\ Queues' /\ Timestamps'
  BY <1>1, <1>2 DEF lists, Queues, Timestamps
<1>15. live' => live
  <2>1. producer[p].pc # "failed"
    BY <1>1
  <2>. QED BY <1>1, <1>5, <2>1 DEF live, nobodyFailed
<1>16. Stamped'
  <2>1. ASSUME NEW k \in StreamKeys \ waiting' PROVE readAt'[k] \in startTs .. streamTs
    BY <1>2, <1>3, <1>4, <1>6, <2>1 DEF Stamped
  <2>. QED BY <1>1, <2>1 DEF Stamped
<1>17. Delivery(lists', readLists', ~ live')
  BY <1>2, <1>13, <1>14, <1>15 DEF Delivery
<1>18. DOMAIN readAt' = StreamKeys
  BY <1>1
<1>. QED BY <1>3, <1>10, <1>11, <1>14, <1>16, <1>17, <1>18, ListsMadeNext DEF StreamInv, ListsParts

LEMMA EndStep ==
  ASSUME StreamInv, NEW p \in Producers, nextRange(p), rangeCh = <<>>
  PROVE  StreamInv'
<1>1. /\ producer[p].pc = "ranges" /\ rangesClosed
      /\ producer' = [producer EXCEPT ![p].pc = "done"]
      /\ UNCHANGED <<streamDb, streamTs, orchestrate, since, rangesLeft, rangeCh, rangesClosed, kvChan, sender, dump,
                     startTs, readAt>>
  BY DEF nextRange
<1>2. RangesMade /\ ProducersMade /\ SenderMade /\ OrchestrateMade /\ DOMAIN readAt = StreamKeys /\ Queues /\ Timestamps
  BY ListsMadeIs DEF StreamInv, ListsParts
<1>3. RangesMade' /\ waiting' = waiting
  BY <1>1, <1>2, RangesAlone
<1>4. Becomes(p, [producer[p] EXCEPT !.pc = "done"])
  BY <1>1, <1>2 DEF Becomes, ProducersMade
<1>5. /\ producer'[p].pc = "done" /\ producer'[p].todo = producer[p].todo
      /\ DOMAIN producer'[p] = {"pc", "ts", "todo"}
  BY <1>2, <1>4 DEF Becomes, ProducersMade, ProducerMade
<1>6. \A q \in Producers : producer'[q].todo = producer[q].todo
  BY <1>4, <1>5 DEF Becomes
<1>7. ProducersMade'
  <2>1. ProducerMade(producer[p])'
    BY <1>1, <1>2, <1>3, <1>5 DEF ProducersMade, ProducerMade
  <2>2. ASSUME NEW q \in Producers \ {p} PROVE ProducerMade(producer[q])'
    BY <1>1, <1>2, <1>3, <1>4 DEF Becomes, ProducersMade, ProducerMade
  <2>. QED BY <1>2, <1>4, <1>6, <2>1, <2>2 DEF Becomes, ProducersMade
<1>8. SenderMade' /\ OrchestrateMade'
  BY <1>1, <1>2, OrchestrateStays DEF SenderMade
<1>9. keysRead' = keysRead
  BY <1>3, <1>6 DEF keysRead
<1>10. lists' = lists /\ Queues'
  BY <1>1, <1>2 DEF lists, Queues
<1>11. live' => live
  BY <1>1, <1>4 DEF live, nobodyFailed, Becomes
<1>12. ListsMade'
  BY <1>1, <1>3, <1>9, <1>10, <1>11, ListsStay
<1>. QED BY <1>1, <1>2, <1>3, <1>7, <1>8, <1>12 DEF StreamInv

LEMMA IterateStep == ASSUME StreamInv, NEW p \in Producers, iterate(p) PROVE StreamInv'
<1>. DEFINE k == Min(producer[p].todo)
            list == KeyToList(k, producer[p].ts)
            pc == IF producer[p].todo = {k} THEN "ranges" ELSE "iterate"
<1>1. /\ producer[p].pc = "iterate"
      /\ producer' = [producer EXCEPT ![p].todo = @ \ {k}, ![p].pc = pc]
      /\ UNCHANGED <<streamDb, streamTs, orchestrate, since, rangesLeft, rangeCh, rangesClosed, sender, dump, startTs,
                     readAt>>
      /\ \/ list = {} /\ UNCHANGED kvChan
         \/ list # {} /\ kvChan' = Append(kvChan, list)
  BY DEF iterate
<1>2. RangesMade /\ ProducersMade /\ SenderMade /\ OrchestrateMade /\ DOMAIN readAt = StreamKeys /\ Queues
      /\ Timestamps /\ Stamped /\ Delivery(lists, readLists, ~ live)
  BY ListsMadeIs DEF StreamInv, ListsParts
<1>3. RangesMade' /\ waiting' = waiting
  BY <1>1, <1>2, RangesAlone
<1>4. /\ producer[p].todo # {} /\ producer[p].todo \subseteq StreamKeys \ waiting
      /\ producer[p].ts \in startTs .. streamTs /\ DOMAIN producer[p] = {"pc", "ts", "todo"}
      /\ \A j \in producer[p].todo : readAt[j] = producer[p].ts
  BY <1>1, <1>2 DEF ProducersMade, ProducerMade
<1>5. k \in producer[p].todo
  <2>1. producer[p].todo \in SUBSET Nat
    BY <1>4, StreamAssumption
  <2>. QED BY <1>4, <2>1, LeastNat
<1>6. list = ListFrom(streamDb, since, k, readAt[k])
  BY <1>4, <1>5, ListIs
<1>. HIDE DEF k, list, pc
<1>7. /\ DOMAIN producer' = Producers /\ producer'[p].todo = producer[p].todo \ {k} /\ producer'[p].pc = pc
      /\ producer'[p].ts = producer[p].ts /\ DOMAIN producer'[p] = {"pc", "ts", "todo"}
      /\ \A q \in Producers \ {p} : producer'[q] = producer[q]
  BY <1>1, <1>2, <1>4 DEF ProducersMade
<1>8. ProducerMade(producer[p])'
  <2>1. pc \in {"ranges", "iterate"} /\ (pc = "ranges" => producer[p].todo \ {k} = {})
        /\ (pc = "iterate" => producer[p].todo \ {k} # {})
    BY <1>5 DEF pc
  <2>. QED BY <1>1, <1>3, <1>4, <1>7, <2>1 DEF ProducerMade
<1>9. ASSUME NEW q \in Producers \ {p} PROVE ProducerMade(producer[q])'
  BY <1>1, <1>2, <1>3, <1>7 DEF ProducersMade, ProducerMade
<1>10. ProducersMade'
  <2>1. \A q, s \in Producers : q # s => producer'[q].todo \cap producer'[s].todo = {}
    BY <1>2, <1>7 DEF ProducersMade
  <2>. QED BY <1>7, <1>8, <1>9, <2>1 DEF ProducersMade
<1>11. SenderMade' /\ OrchestrateMade'
  <2>1. OrchestrateMade' /\ orchestrate \in {"idle", "running"}
    BY <1>1, <1>2, OrchestrateStays
  <2>. QED BY <1>1, <1>2, <2>1 DEF SenderMade
<1>12. keysRead' = keysRead \cup {k} /\ k \notin keysRead
  <2>1. k \in StreamKeys \ waiting /\ \A q \in Producers \ {p} : k \notin producer[q].todo
    BY <1>2, <1>4, <1>5 DEF ProducersMade
  <2>2. \A j : (\A q \in Producers : j \notin producer'[q].todo) <=> j = k \/ \A q \in Producers : j \notin producer[q].todo
    BY <1>7, <2>1
  <2>. QED BY <1>3, <1>5, <2>1, <2>2 DEF keysRead
<1>13. /\ readLists' = readLists \cup ({list} \ {{}})
       /\ list # {} => list \notin readLists
  <2>1. PICK ks, db, sn, at, j, l : ks = keysRead /\ db = streamDb /\ sn = since /\ at = readAt /\ j = k /\ l = list
    OBVIOUS
  <2>2. l = ListFrom(db, sn, j, at[j])
    BY <1>6, <2>1
  <2>3. /\ ReadFrom(ks \cup {j}, db, sn, at) = ReadFrom(ks, db, sn, at) \cup ({l} \ {{}})
        /\ l # {} => l \notin ReadFrom(ks, db, sn, at)
    BY <1>12, <2>1, <2>2, ReadMore
  <2>4. readLists = ReadFrom(ks, db, sn, at)
    BY <2>1, ListsAre DEF ReadsLists
  <2>5. readLists' = ReadFrom(ks \cup {j}, db, sn, at)
    BY <1>1, <1>12, <2>1, ListsAreNext DEF ReadsLists
  <2>. QED BY <2>1, <2>3, <2>4, <2>5
<1>14. live' => live
  BY <1>1, <1>7 DEF live, nobodyFailed
<1>15. Queues' /\ Delivery(lists', readLists', ~ live')
  <2>1. CASE list = {} /\ UNCHANGED kvChan
    <3>1. readLists' = readLists /\ lists' = lists /\ Queues'
      BY <1>1, <1>2, <1>13, <2>1 DEF lists, Queues
    <3>. QED BY <1>2, <1>14, <3>1 DEF Delivery
  <2>2. CASE list # {} /\ kvChan' = Append(kvChan, list)
    <3>1. Queues'
      BY <1>1, <1>2, <2>2, TupleAppend DEF Queues
    <3>2. isTuple(dump \o sender.batch)
      BY <1>2, TupleConcat DEF Queues
    <3>3. lists' = Append(lists, list)
      <4>1. lists' = (dump \o sender.batch) \o Append(kvChan, list)
        BY <1>1, <2>2 DEF lists
      <4>2. PICK s, t, l : s = dump \o sender.batch /\ t = kvChan /\ l = list
        OBVIOUS
      <4>3. isTuple(s) /\ isTuple(t)
        BY <1>2, <3>2, <4>2 DEF Queues
      <4>4. s \o Append(t, l) = Append(s \o t, l)
        BY <4>3, AppendLast
      <4>. QED BY <4>1, <4>2, <4>4 DEF lists
    <3>4. Once(lists) /\ list \notin ToSet(lists)
      BY <1>2, <1>13, <2>2 DEF Delivery
    <3>5. Once(lists') /\ ToSet(lists') = ToSet(lists) \cup {list}
      BY <3>3, <3>4, OnceAppend
    <3>6. readLists' = readLists \cup {list}
      BY <1>13, <2>2
    <3>. QED BY <1>2, <1>14, <3>1, <3>5, <3>6 DEF Delivery
  <2>. QED BY <1>1, <2>1, <2>2
<1>16. Timestamps' /\ Stamped'
  BY <1>1, <1>2, <1>3 DEF Timestamps, Stamped
<1>. QED BY <1>1, <1>2, <1>3, <1>10, <1>11, <1>15, <1>16, ListsMadeNext DEF StreamInv, ListsParts

(* What the sender and Orchestrate do: the lists move on.                  *)
LEMMA SenderSteps ==
  ASSUME StreamInv, UNCHANGED <<streamDb, streamTs, since, rangesLeft, rangeCh, rangesClosed, producer, startTs, readAt>>,
         SenderMade', OrchestrateMade', ListsMade'
  PROVE  StreamInv'
<1>1. RangesMade /\ ProducersMade /\ Timestamps /\ DOMAIN readAt = StreamKeys
  BY ListsMadeIs DEF StreamInv, ListsParts
<1>2. RangesMade' /\ waiting' = waiting
  BY <1>1, RangesAlone
<1>3. streamTs' \in Nat /\ streamTs <= streamTs'
  BY <1>1 DEF Timestamps
<1>4. ProducersMade'
  BY <1>1, <1>2, <1>3, ProducersAlone
<1>. QED BY <1>1, <1>2, <1>4 DEF StreamInv

LEMMA KeysAlone ==
  ASSUME UNCHANGED <<rangesLeft, rangeCh, producer>>
  PROVE  waiting' = waiting /\ keysRead' = keysRead
BY DEF waiting, keysRead

LEMMA SlurpStep == ASSUME StreamInv, streamKVs PROVE StreamInv'
<1>1. /\ orchestrate \in {"running", "closed"} /\ sender.pc = "wait"
      /\ UNCHANGED <<streamDb, streamTs, orchestrate, since, rangesLeft, rangeCh, rangesClosed, producer, dump, startTs,
                     readAt>>
  BY DEF streamKVs
<1>2. SenderMade /\ OrchestrateMade /\ Queues
  BY ListsMadeIs DEF StreamInv, ListsParts
<1>3. waiting' = waiting /\ keysRead' = keysRead
  BY <1>1, KeysAlone
<1>4. CASE kvChan # <<>> /\ sender' = [pc |-> "send", batch |-> kvChan] /\ kvChan' = <<>>
  <2>1. SenderMade' /\ OrchestrateMade' /\ Queues' /\ (live' => live)
    BY <1>1, <1>2, <1>4, EmptyIsTuple DEF SenderMade, OrchestrateMade, Queues, live, nobodyFailed
  <2>2. isTuple(dump \o kvChan) /\ sender.batch = <<>>
    BY <1>1, <1>2, TupleConcat DEF Queues, SenderMade
  <2>3. lists' = (dump \o kvChan) \o <<>> /\ lists = (dump \o <<>>) \o kvChan
    BY <1>1, <1>4, <2>2 DEF lists
  <2>4. (dump \o kvChan) \o <<>> = dump \o kvChan
    BY <2>2, ConcatEmpty
  <2>5. dump \o <<>> = dump
    BY <1>2, ConcatEmpty DEF Queues
  <2>6. lists' = lists
    BY <2>3, <2>4, <2>5
  <2>7. ListsMade'
    BY <1>1, <1>3, <2>1, <2>6, ListsStay
  <2>. QED BY <1>1, <2>1, <2>7, SenderSteps
<1>5. CASE kvChan = <<>> /\ orchestrate = "closed" /\ sender' = [sender EXCEPT !.pc = "done"] /\ UNCHANGED kvChan
  <2>1. sender'.pc = "done" /\ sender'.batch = sender.batch /\ DOMAIN sender' = {"pc", "batch"} /\ sender.batch = <<>>
    BY <1>1, <1>2, <1>5 DEF SenderMade
  <2>2. SenderMade' /\ OrchestrateMade' /\ Queues' /\ (live' => live) /\ lists' = lists
    BY <1>1, <1>2, <1>5, <2>1 DEF SenderMade, OrchestrateMade, Queues, live, nobodyFailed, lists
  <2>3. ListsMade'
    BY <1>1, <1>3, <2>2, ListsStay
  <2>. QED BY <1>1, <2>2, <2>3, SenderSteps
<1>. QED BY <1>4, <1>5 DEF streamKVs

LEMMA SendStep == ASSUME StreamInv, Send PROVE StreamInv'
<1>1. /\ sender.pc = "send" /\ dump' = dump \o sender.batch /\ sender' = [pc |-> "wait", batch |-> <<>>]
      /\ UNCHANGED <<streamDb, streamTs, orchestrate, since, rangesLeft, rangeCh, rangesClosed, producer, kvChan, startTs,
                     readAt>>
  BY DEF Send
<1>2. SenderMade /\ OrchestrateMade /\ Queues
  BY ListsMadeIs DEF StreamInv, ListsParts
<1>3. waiting' = waiting /\ keysRead' = keysRead
  BY <1>1, KeysAlone
<1>4. isTuple(dump \o sender.batch)
  BY <1>2, TupleConcat DEF Queues
<1>5. SenderMade' /\ OrchestrateMade' /\ Queues' /\ (live' => live)
  BY <1>1, <1>2, <1>4, EmptyIsTuple DEF SenderMade, OrchestrateMade, Queues, live, nobodyFailed
<1>6. (dump \o sender.batch) \o <<>> = dump \o sender.batch
  BY <1>4, ConcatEmpty
<1>7. lists' = lists
  BY <1>1, <1>6 DEF lists
<1>8. ListsMade'
  BY <1>1, <1>3, <1>5, <1>7, ListsStay
<1>. QED BY <1>1, <1>5, <1>8, SenderSteps

(* A list that is dropped leaves the others, and somebody has failed.      *)
LEMMA ListsShrink ==
  ASSUME StreamInv, UNCHANGED <<streamDb, streamTs, since, rangesLeft, rangeCh, producer, readAt, startTs>>,
         Queues', Once(lists'), ToSet(lists') \subseteq ToSet(lists), ~ live'
  PROVE  ListsMade'
<1>1. Timestamps /\ Stamped /\ Delivery(lists, readLists, ~ live)
  BY ListsMadeIs DEF StreamInv, ListsParts
<1>2. waiting' = waiting /\ readLists' = readLists
  BY KeysAlone, SameReads
<1>3. Delivery(lists', readLists', ~ live')
  BY <1>1, <1>2 DEF Delivery
<1>4. Timestamps' /\ Stamped'
  BY <1>1, <1>2 DEF Timestamps, Stamped
<1>. QED BY <1>3, <1>4, ListsMadeNext DEF ListsParts

LEMMA WithoutMiddle ==
  ASSUME NEW s, isTuple(s), NEW b, isTuple(b), NEW t, isTuple(t), Once((s \o b) \o t)
  PROVE  Once(s \o t) /\ ToSet(s \o t) \subseteq ToSet((s \o b) \o t)
<1>. DEFINE a == s \o b
            u == a \o t
            v == s \o t
<1>1. /\ isTuple(a) /\ Len(a) = Len(s) + Len(b)
      /\ \A i \in 1 .. Len(s) + Len(b) : a[i] = IF i <= Len(s) THEN s[i] ELSE b[i - Len(s)]
  BY TupleConcat
<1>2. /\ isTuple(v) /\ Len(v) = Len(s) + Len(t)
      /\ \A i \in 1 .. Len(s) + Len(t) : v[i] = IF i <= Len(s) THEN s[i] ELSE t[i - Len(s)]
  BY TupleConcat
<1>. HIDE DEF a, v
<1>3. /\ isTuple(u) /\ Len(u) = Len(a) + Len(t)
      /\ \A i \in 1 .. Len(a) + Len(t) : u[i] = IF i <= Len(a) THEN a[i] ELSE t[i - Len(a)]
  BY <1>1, TupleConcat
<1>4. Once(u)
  BY DEF a
<1>. HIDE DEF u
<1>5. PICK m \in Nat : m = Len(s)
  BY TupleFacts
<1>6. PICK n \in Nat : n = Len(b)
  BY TupleFacts
<1>7. PICK o \in Nat : o = Len(t)
  BY TupleFacts
<1>. DEFINE at == [i \in 1 .. m + o |-> IF i <= m THEN i ELSE i + n]
<1>8. Len(a) = m + n /\ Len(u) = m + n + o /\ Len(v) = m + o
  BY <1>1, <1>2, <1>3, <1>5, <1>6, <1>7
<1>9. ASSUME NEW i \in 1 .. m + o PROVE at[i] \in 1 .. m + n + o /\ v[i] = u[at[i]]
  <2>1. CASE i <= m
    <3>1. /\ i \in 1 .. Len(s) + Len(t) /\ i <= Len(s) /\ i \in 1 .. Len(s) + Len(b) /\ i \in 1 .. Len(a) + Len(t)
          /\ i <= Len(a) /\ i \in 1 .. m + n + o
      BY <1>1, <1>5, <1>6, <1>7, <2>1
    <3>2. v[i] = s[i] /\ a[i] = s[i] /\ u[i] = a[i]
      BY <1>1, <1>2, <1>3, <3>1
    <3>3. at[i] = i
      BY <2>1
    <3>. QED BY <3>1, <3>2, <3>3
  <2>2. CASE i > m
    <3>1. /\ i \in 1 .. Len(s) + Len(t) /\ ~ (i <= Len(s)) /\ i + n \in 1 .. Len(a) + Len(t)
          /\ ~ (i + n <= Len(a)) /\ i + n \in 1 .. m + n + o /\ (i + n) - Len(a) = i - Len(s)
      BY <1>5, <1>6, <1>7, <1>8, <2>2
    <3>2. v[i] = t[i - Len(s)] /\ u[i + n] = t[(i + n) - Len(a)]
      BY <1>2, <1>3, <3>1
    <3>3. at[i] = i + n
      BY <2>2
    <3>. QED BY <3>1, <3>2, <3>3
  <2>. QED BY <2>1, <2>2
<1>10. \A i, j \in 1 .. m + o : at[i] = at[j] => i = j
  OBVIOUS
<1>. HIDE DEF at
<1>11. DOMAIN u = 1 .. m + n + o /\ DOMAIN v = 1 .. m + o
  BY <1>2, <1>3, <1>8, TupleFacts
<1>12. Once(v)
  BY <1>2, <1>4, <1>9, <1>10, <1>11 DEF Once
<1>13. ToSet(v) \subseteq ToSet(u)
  BY <1>9, <1>11 DEF ToSet
<1>. QED BY <1>12, <1>13 DEF u, v, a

LEMMA SendFailsStep == ASSUME StreamInv, SendFails PROVE StreamInv'
<1>1. /\ sender.pc = "send" /\ sender' = [pc |-> "failed", batch |-> <<>>]
      /\ UNCHANGED <<streamDb, streamTs, orchestrate, since, rangesLeft, rangeCh, rangesClosed, producer, kvChan, dump,
                     startTs, readAt>>
  BY DEF SendFails
<1>2. SenderMade /\ OrchestrateMade /\ Queues /\ Once(lists)
  BY ListsMadeIs DEF StreamInv, ListsParts, Delivery
<1>3. SenderMade' /\ OrchestrateMade' /\ Queues' /\ ~ live'
  BY <1>1, <1>2, EmptyIsTuple DEF SenderMade, OrchestrateMade, Queues, live, nobodyFailed
<1>4. lists' = dump \o kvChan
  <2>1. lists' = (dump \o <<>>) \o kvChan
    BY <1>1 DEF lists
  <2>. QED BY <1>2, <2>1, ConcatEmpty DEF Queues
<1>5. Once(lists') /\ ToSet(lists') \subseteq ToSet(lists)
  BY <1>2, <1>4, WithoutMiddle DEF Queues, lists
<1>6. ListsMade'
  BY <1>1, <1>3, <1>5, ListsShrink
<1>. QED BY <1>1, <1>3, <1>6, SenderSteps

LEMMA CloseStep == ASSUME StreamInv, closeKvChan PROVE StreamInv'
<1>1. /\ orchestrate = "running" /\ orchestrate' = "closed" /\ \A p \in Producers : producer[p].pc \in {"done", "failed"}
      /\ UNCHANGED <<streamDb, streamTs, since, rangesLeft, rangeCh, rangesClosed, producer, kvChan, sender, dump,
                     startTs, readAt>>
  BY DEF closeKvChan
<1>2. SenderMade /\ OrchestrateMade /\ Queues
  BY ListsMadeIs DEF StreamInv, ListsParts
<1>3. SenderMade' /\ OrchestrateMade' /\ Queues' /\ (live' => live) /\ lists' = lists
  BY <1>1, <1>2 DEF SenderMade, OrchestrateMade, Queues, live, nobodyFailed, lists
<1>4. ListsMade'
  BY <1>1, <1>3, KeysAlone, ListsStay
<1>. QED BY <1>1, <1>3, <1>4, SenderSteps

LEMMA ReturnStep == ASSUME StreamInv, OrchestrateReturns PROVE StreamInv'
<1>1. /\ orchestrate = "closed" /\ outcome # "closed" /\ orchestrate' = outcome /\ kvChan' = <<>>
      /\ UNCHANGED <<streamDb, streamTs, since, rangesLeft, rangeCh, rangesClosed, producer, sender, dump, startTs,
                     readAt>>
  BY DEF OrchestrateReturns
<1>2. SenderMade /\ OrchestrateMade /\ Queues /\ Once(lists)
  BY ListsMadeIs DEF StreamInv, ListsParts, Delivery
<1>3. CASE \E p \in Producers : producer[p].pc = "failed" \/ sender.pc = "failed"
  <2>1. orchestrate' \in {"ok", "err"} /\ (orchestrate' = "ok" => sender.pc = "done" /\ ~ \E p \in Producers : producer[p].pc = "failed")
    BY <1>1 DEF outcome
  <2>2. SenderMade' /\ OrchestrateMade' /\ Queues' /\ ~ live'
    BY <1>1, <1>2, <1>3, <2>1, EmptyIsTuple DEF SenderMade, OrchestrateMade, Queues, live, nobodyFailed
  <2>3. isTuple(dump \o sender.batch)
    BY <1>2, TupleConcat DEF Queues
  <2>4. lists' = dump \o sender.batch
    <3>1. lists' = (dump \o sender.batch) \o <<>>
      BY <1>1 DEF lists
    <3>. QED BY <2>3, <3>1, ConcatEmpty
  <2>5. Once(lists') /\ ToSet(lists') \subseteq ToSet(lists)
    BY <1>2, <2>3, <2>4, OnceFirst DEF Queues, lists
  <2>6. ListsMade'
    BY <1>1, <2>2, <2>5, ListsShrink
  <2>. QED BY <1>1, <2>2, <2>6, SenderSteps
<1>4. CASE ~ \E p \in Producers : producer[p].pc = "failed" \/ sender.pc = "failed"
  <2>1. sender.pc = "done" /\ orchestrate' = "ok" /\ \A p \in Producers : producer[p].pc # "failed"
    BY <1>1, <1>4, StreamAssumption DEF outcome, Producers
  <2>2. kvChan = <<>>
    BY <1>2, <2>1 DEF SenderMade
  <2>3. SenderMade' /\ OrchestrateMade' /\ Queues' /\ (live' => live) /\ lists' = lists
    BY <1>1, <1>2, <2>1, <2>2, EmptyIsTuple DEF SenderMade, OrchestrateMade, Queues, live, nobodyFailed, lists
  <2>4. ListsMade'
    BY <1>1, <2>3, KeysAlone, ListsStay
  <2>. QED BY <1>1, <2>3, <2>4, SenderSteps
<1>. QED BY <1>3, <1>4

LEMMA StreamStutters == ASSUME StreamInv, UNCHANGED streamVars PROVE StreamInv'
<1>1. SenderMade /\ OrchestrateMade /\ Queues
  BY ListsMadeIs DEF StreamInv, ListsParts
<1>2. UNCHANGED <<streamDb, streamTs, orchestrate, since, rangesLeft, rangeCh, rangesClosed, producer, kvChan, sender,
                  dump, startTs, readAt>>
  BY DEF streamVars
<1>3. SenderMade' /\ OrchestrateMade' /\ Queues' /\ (live' => live) /\ lists' = lists
  BY <1>1, <1>2 DEF SenderMade, OrchestrateMade, Queues, live, nobodyFailed, lists
<1>4. ListsMade'
  BY <1>2, <1>3, KeysAlone, ListsStay
<1>. QED BY <1>2, <1>3, <1>4, SenderSteps

(* Every key is in a range nobody has taken, ahead of one producer or      *)
(* read, and the lists of the keys read are on their way or sent, each     *)
(* once (produceRanges, produceKVs, iterate, streamKVs, Backup's Send).    *)
THEOREM StreamInvariant == StreamSpec => []StreamInv
<1>1. ASSUME StreamInv, [StreamNext]_streamVars PROVE StreamInv'
  <2>1. ASSUME NEW ks, NEW kind, streamCommit(ks, kind) PROVE StreamInv'
    BY <1>1, <2>1, CommitStep
  <2>2. ASSUME NEW p \in Producers, producerStep(p) PROVE StreamInv'
    <3>1. CASE produceKVs(p)
      BY <1>1, <3>1, BeginStep
    <3>2. CASE nextRange(p)
      BY <1>1, <3>2, TakeStep, EndStep
    <3>3. CASE iterate(p)
      BY <1>1, <3>3, IterateStep
    <3>4. CASE producerCancelled(p)
      BY <1>1, <3>4, CancelStep
    <3>. QED BY <2>2, <3>1, <3>2, <3>3, <3>4 DEF producerStep
  <2>3. CASE Backup
    BY <1>1, <2>3, BackupStep
  <2>4. CASE produceRanges
    BY <1>1, <2>4, RangeStep
  <2>5. CASE streamKVs
    BY <1>1, <2>5, SlurpStep
  <2>6. CASE Send
    BY <1>1, <2>6, SendStep
  <2>7. CASE SendFails
    BY <1>1, <2>7, SendFailsStep
  <2>8. CASE closeKvChan
    BY <1>1, <2>8, CloseStep
  <2>9. CASE OrchestrateReturns
    BY <1>1, <2>9, ReturnStep
  <2>10. CASE UNCHANGED streamVars
    BY <1>1, <2>10, StreamStutters
  <2>. QED BY <1>1, <2>1, <2>2, <2>3, <2>4, <2>5, <2>6, <2>7, <2>8, <2>9, <2>10 DEF StreamNext
<1>. QED BY <1>1, StreamStarts, PTL DEF StreamSpec

(* A backup that returns without an error has written, for every key, what *)
(* its range's transaction saw, each list once, and no transaction is      *)
(* older than the call, for every number of producers, every size of the   *)
(* channels and every commit meanwhile (Orchestrate, streamKVs).           *)
THEOREM BackupsAreExact == StreamSpec => []DumpExact
<1>1. ASSUME StreamInv PROVE DumpExact
  <2>. SUFFICES ASSUME orchestrate = "ok"
                PROVE  /\ Len(dump) = Cardinality(ToSet(dump))
                       /\ ToSet(dump) = {KeyToList(k, readAt[k]) : k \in StreamKeys} \ {{}}
                       /\ \A k \in StreamKeys : readAt[k] >= startTs
    BY DEF DumpExact
  <2>1. RangesMade /\ ProducersMade /\ SenderMade /\ OrchestrateMade /\ Queues /\ Timestamps /\ Stamped
        /\ Delivery(lists, readLists, ~ live)
    BY <1>1, ListsMadeIs DEF StreamInv, ListsParts
  <2>2. sender.pc = "done" /\ \A p \in Producers : producer[p].pc = "done"
    BY <2>1 DEF OrchestrateMade
  <2>3. live /\ kvChan = <<>> /\ sender.batch = <<>>
    BY <2>1, <2>2 DEF SenderMade, live, nobodyFailed
  <2>4. lists = dump
    BY <2>1, <2>3, ConcatEmpty DEF lists, Queues
  <2>5. rangeCh = <<>> /\ rangesLeft = {}
    <3>1. 1 \in Producers
      BY StreamAssumption DEF Producers
    <3>2. rangesClosed /\ rangeCh = <<>>
      BY <2>1, <2>2, <3>1 DEF ProducersMade, ProducerMade
    <3>. QED BY <2>1, <3>2 DEF RangesMade
  <2>6. waiting = {}
    BY <2>5, ToSetEmpty DEF waiting
  <2>7. keysRead = StreamKeys
    BY <2>1, <2>2, <2>6 DEF keysRead, ProducersMade, ProducerMade
  <2>8. readLists = {KeyToList(k, readAt[k]) : k \in StreamKeys} \ {{}}
    BY <2>7 DEF readLists, listOf
  <2>9. Once(dump) /\ ToSet(dump) = readLists
    BY <2>1, <2>3, <2>4 DEF Delivery
  <2>10. ASSUME NEW k \in StreamKeys PROVE readAt[k] >= startTs
    <3>1. readAt[k] \in startTs .. streamTs
      BY <2>1, <2>6 DEF Stamped
    <3>. QED BY <2>1, <3>1 DEF Timestamps
  <2>. QED BY <2>8, <2>9, <2>10, OnceCounted
<1>. QED BY <1>1, StreamInvariant, PTL
===============================================================================
