------------------------------- MODULE Sequence -------------------------------
(***************************************************************************)
(* db.go: Sequence.  Several handles of one key lease ranges of numbers    *)
(* by transactions that may conflict or fail, and hand them out from       *)
(* memory.  updateLease changes the handle inside the transaction's        *)
(* function, that is, before the commit that may still fail.               *)
(***************************************************************************)
EXTENDS Integers

CONSTANTS
  SeqHandles,      \* Sequence objects, in one process or in several runs of it
  Bandwidth,       \* of every handle
  SeqMaxLease,     \* bound: the stored lease does not pass this
  SeqMaxFail       \* bound: commits that fail for another reason than a conflict

ASSUME SequenceAssumption == Bandwidth \in Nat \ {0} /\ SeqMaxLease \in Nat /\ SeqMaxFail \in Nat

VARIABLES
  lease,      \* the key: its value, and whether it is found
  handle,     \* handle -> its fields and the call it is in
  seqFails,
  given,      \* history: number -> how often it was returned, up to twice
  reused      \* history: a handle was used after it had reported an error
sequenceVars == <<lease, handle, seqFails, given, reused>>

NoHandle == [pc |-> "none", next |-> 0, leased |-> 0, stale |-> FALSE, erred |-> FALSE, first |-> FALSE]

SequenceInit ==
  /\ lease = [val |-> 0, found |-> FALSE]
  /\ handle = [h \in SeqHandles |-> NoHandle]
  /\ seqFails = 0 /\ given = [n \in 0 .. SeqMaxLease |-> 0] /\ reused = FALSE

(* The function of updateLease's transaction, on the handle r.             *)
leasing(r) ==
  [r EXCEPT !.pc = "lease", !.next = lease.val, !.leased = lease.val + Bandwidth, !.stale = FALSE]

(* Next returns the value: val := seq.next; seq.next++.                    *)
returned(r) == given' = [given EXCEPT ![r.next] = IF @ = 2 THEN 2 ELSE @ + 1]
incremented(r) == [r EXCEPT !.pc = "idle", !.next = @ + 1]

(* The program goes on with the handle.                                    *)
uses(h) == handle[h].pc = "idle" /\ reused' = (reused \/ handle[h].erred)

(* A write of the key makes the other transactions that read it conflict.  *)
inTxn(r) == r.pc \in {"lease", "release"}
afterWrite(h, r) == [g \in SeqHandles |-> IF g = h THEN r ELSE [handle[g] EXCEPT !.stale = @ \/ inTxn(handle[g])]]

GetSequence(h) ==
  /\ handle[h].pc = "none" /\ lease.val + Bandwidth <= SeqMaxLease
  /\ handle' = [handle EXCEPT ![h] = [leasing(@) EXCEPT !.first = TRUE]]
  /\ UNCHANGED <<lease, seqFails, given, reused>>

NextFromLease(h) ==
  /\ uses(h) /\ handle[h].next < handle[h].leased
  /\ handle' = [handle EXCEPT ![h] = incremented(@)] /\ returned(handle[h])
  /\ UNCHANGED <<lease, seqFails>>

NextRenews(h) ==
  /\ uses(h) /\ handle[h].next >= handle[h].leased
  /\ lease.val + Bandwidth <= SeqMaxLease
  /\ handle' = [handle EXCEPT ![h] = [leasing(@) EXCEPT !.first = FALSE]]
  /\ UNCHANGED <<lease, seqFails, given>>

(* The commit of updateLease succeeds if the key is as it was read.        *)
leaseCommits(h) ==
  /\ handle[h].pc = "lease" /\ ~ handle[h].stale
  /\ lease' = [val |-> handle[h].leased, found |-> TRUE]
  /\ IF handle[h].first
     THEN handle' = afterWrite(h, [handle[h] EXCEPT !.pc = "idle"]) /\ UNCHANGED given
     ELSE handle' = afterWrite(h, incremented(handle[h])) /\ returned(handle[h])
  /\ UNCHANGED <<seqFails, reused>>

(* Or it conflicts, or fails, before or after its entry was written; the   *)
(* error goes to the caller.  GetSequence's caller drops the handle.       *)
commitFails(h, val, written, r) ==
  /\ IF handle[h].stale THEN ~ written /\ UNCHANGED seqFails
     ELSE seqFails < SeqMaxFail /\ seqFails' = seqFails + 1
  /\ IF written THEN lease' = [val |-> val, found |-> TRUE] /\ handle' = afterWrite(h, r)
     ELSE UNCHANGED lease /\ handle' = [handle EXCEPT ![h] = r]
  /\ UNCHANGED <<given, reused>>

leaseFails(h, written) ==
  /\ handle[h].pc = "lease"
  /\ commitFails(h, handle[h].leased, written,
                 IF handle[h].first THEN NoHandle ELSE [handle[h] EXCEPT !.pc = "idle", !.erred = TRUE])

(* Release gives the rest of the lease back if the key still holds it.     *)
stillStored_any(r) == TRUE
stillStored(r) == lease.val = r.leased

Release(h) ==
  /\ uses(h) /\ lease.found
  /\ handle' = [handle EXCEPT ![h] = IF stillStored(@) THEN [@ EXCEPT !.pc = "release", !.stale = FALSE]
                                                      ELSE [@ EXCEPT !.leased = handle[h].next]]
  /\ UNCHANGED <<lease, seqFails, given>>

releaseCommits(h) ==
  /\ handle[h].pc = "release" /\ ~ handle[h].stale
  /\ lease' = [val |-> handle[h].next, found |-> TRUE]
  /\ handle' = afterWrite(h, [handle[h] EXCEPT !.pc = "idle", !.leased = handle[h].next])
  /\ UNCHANGED <<seqFails, given, reused>>

releaseFails(h, written) ==
  /\ handle[h].pc = "release"
  /\ commitFails(h, handle[h].next, written, [handle[h] EXCEPT !.pc = "idle", !.erred = TRUE])

(* The process ends, or the program forgets the handle.                    *)
dropHandle(h) ==
  /\ handle[h].pc # "none" /\ handle' = [handle EXCEPT ![h] = NoHandle]
  /\ UNCHANGED <<lease, seqFails, given, reused>>

SequenceNext ==
  \E h \in SeqHandles :
    \/ GetSequence(h) \/ NextFromLease(h) \/ NextRenews(h) \/ leaseCommits(h)
    \/ Release(h) \/ releaseCommits(h) \/ dropHandle(h)
    \/ \E w \in BOOLEAN : leaseFails(h, w) \/ releaseFails(h, w)

SequenceSpec == SequenceInit /\ [][SequenceNext]_sequenceVars

-----------------------------------------------------------------------------
(* GetSequence promises "a list of monotonically increasing integers": no  *)
(* number is returned twice, by one handle or by several, in one run of    *)
(* the program or in two.  It does not hold: updateLease moves next and    *)
(* leased before a commit that may fail.                                   *)
SequenceUnique == \A n \in 0 .. SeqMaxLease : given[n] <= 1

(* As far as the code ensures it, however leases, releases, conflicts,     *)
(* failures and restarts interleave: as long as a handle that reported an  *)
(* error is not used again.                                                *)
SequenceUniqueClean == ~ reused => SequenceUnique

-----------------------------------------------------------------------------
(* Why: the inductive invariant behind SequenceUniqueClean.                *)
Handles ==
  [pc : {"none", "idle", "lease", "release"}, next : 0 .. SeqMaxLease, leased : 0 .. SeqMaxLease,
   stale : BOOLEAN, erred : BOOLEAN, first : BOOLEAN]

SequenceType ==
  /\ lease \in [val : 0 .. SeqMaxLease, found : BOOLEAN]
  /\ handle \in [SeqHandles -> Handles] /\ \A h \in SeqHandles : handle[h].next <= handle[h].leased
  /\ seqFails \in Nat /\ given \in [0 .. SeqMaxLease -> 0 .. 2] /\ reused \in BOOLEAN

(* A transaction that may still commit has read the value that is stored.  *)
FreshTxn ==
  \A h \in SeqHandles : ~ handle[h].stale =>
    /\ handle[h].pc = "lease" => handle[h].next = lease.val /\ handle[h].leased = lease.val + Bandwidth
    /\ handle[h].pc = "release" => handle[h].leased = lease.val

(* The numbers a handle may hand out from memory: the rest of its lease,   *)
(* once the lease was committed, and while no commit of it has failed.     *)
owns(h, n) ==
  /\ handle[h].pc \in {"idle", "release"} /\ ~ handle[h].erred
  /\ handle[h].next <= n /\ n < handle[h].leased

(* A number below the stored value is with one handle at most, or was      *)
(* handed out, and then it is with none.                                   *)
OneOwner ==
  /\ \A h \in SeqHandles : handle[h].pc = "release" => ~ handle[h].erred
  /\ \A n \in 0 .. SeqMaxLease :
       /\ given[n] <= 1
       /\ given[n] > 0 => n < lease.val /\ \A h \in SeqHandles : ~ owns(h, n)
       /\ \A h \in SeqHandles : owns(h, n) => n < lease.val
       /\ \A g, h \in SeqHandles : owns(g, n) /\ owns(h, n) => g = h

SequenceInv == SequenceType /\ FreshTxn /\ (~ reused => OneOwner)
=============================================================================
