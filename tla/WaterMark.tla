------------------------------ MODULE WaterMark ------------------------------
(***************************************************************************)
(* y/watermark.go: the minimum unfinished index of a stream of Begin/Done  *)
(* calls.  Callers only push marks on a channel; one goroutine (process)   *)
(* consumes it, so doneUntil lags behind the calls.  A watermark is a      *)
(* record; the operators below are the methods of *WaterMark, each         *)
(* returning the watermark after the call.  Two watermarks of this kind    *)
(* live in the oracle (readMark and txnMark).                              *)
(***************************************************************************)
EXTENDS Integers, Sequences, FiniteSetsExt

CONSTANTS Txn,        \* the callers
          MaxTs,      \* bound: the largest timestamp handed out
          MarkChCap   \* the capacity of markCh (100 in Init)

ASSUME TxnAssumption       == IsFiniteSet(Txn)
ASSUME MaxTsAssumption     == MaxTs \in Nat
ASSUME MarkChCapAssumption == MarkChCap \in Nat \ {0}

TS == 0 .. MaxTs

(* A mark as it travels in markCh.  "who" is the calling transaction: for a *)
(* waiter it stands for the channel to close; for begin and done marks the *)
(* code carries no such field and process never looks at it.               *)
MarkOf(kind, index, who) == [kind |-> kind, index |-> index, who |-> who]

MarkType == [kind : {"begin", "done", "wait"}, index : TS, who : Txn]

WaterMarkType ==
  [doneUntil : TS, markCh : Seq(MarkType), indices : SUBSET TS, pending : [TS -> Int],
   waiters : SUBSET MarkType, closed : SUBSET Txn]

(* The state after DB.Open on an empty directory has called Done(0).       *)
NewWaterMark ==
  [doneUntil |-> 0,                     \* atomic, read by anyone
   markCh    |-> <<>>,
   indices   |-> {},                    \* the heap of process
   pending   |-> [i \in TS |-> 0],
   waiters   |-> {},                    \* wait marks parked in process
   closed    |-> {}]                    \* callers whose waitCh is closed

HasRoom(w) == Len(w.markCh) < MarkChCap

Send(w, kind, index, who) ==
  [w EXCEPT !.markCh = Append(@, MarkOf(kind, index, who))]

Begin(w, index, who) == Send(w, "begin", index, who)
Done(w, index, who)  == Send(w, "done", index, who)
Wait(w, index, who)  == Send(w, "wait", index, who)

(* The heap pops minima as long as the smallest one has no pending work.   *)
Popped_anyOrder(indices, pending) == {i \in indices : pending[i] <= 0}

Popped(indices, pending) ==
  {i \in indices : \A j \in indices : j <= i => pending[j] <= 0}

(* The two loops over waiters: by integer range, or over the whole map.    *)
ToNotify(waiters, doneUntil, until) ==
  IF until - doneUntil <= Cardinality({m.index : m \in waiters})
  THEN {m \in waiters : m.index \in (doneUntil + 1) .. until}
  ELSE {m \in waiters : m.index <= until}

processOne(w, index, delta) ==
  LET indices == w.indices \cup {index}
      pending == [w.pending EXCEPT ![index] = @ + delta]
      popped  == Popped(indices, pending)
      until   == IF popped = {} THEN w.doneUntil ELSE Max(popped)
      notify  == ToNotify(w.waiters, w.doneUntil, until)
  IN  [w EXCEPT !.doneUntil = until,
                !.indices   = indices \ popped,
                !.pending   = [i \in TS |-> IF i \in popped THEN 0 ELSE pending[i]],
                !.waiters   = @ \ notify,
                !.closed    = @ \cup {m.who : m \in notify}]

(* A wait mark: close its channel at once or park it.                      *)
processWait_park(w, m) == [w EXCEPT !.waiters = @ \cup {m}]

processWait(w, m) ==
  IF w.doneUntil >= m.index
  THEN [w EXCEPT !.closed = @ \cup {m.who}]
  ELSE [w EXCEPT !.waiters = @ \cup {m}]

(* One iteration of process: receive the head of markCh and handle it.     *)
process(w) ==
  LET m    == Head(w.markCh)
      rest == [w EXCEPT !.markCh = Tail(@)]
  IN  IF m.kind = "wait"  THEN processWait(rest, m)
      ELSE IF m.kind = "done" THEN processOne(rest, m.index, -1)
      ELSE processOne(rest, m.index, 1)

(* The assertion of processOne about the mark it is about to handle        *)
(* (watermark.go: "doneUntil > index" must not happen).                    *)
HeadIsFresh(w) ==
  w.markCh # <<>> /\ Head(w.markCh).kind # "wait"
     => w.doneUntil <= Head(w.markCh).index

-----------------------------------------------------------------------------
(* Accounting between the callers and the state of process.  idx[t] is the *)
(* index t calls with, began and ended are the callers that have called    *)
(* Begin and Done, and top bounds the indices used so far.                 *)
InCh(w, kind, t) ==
  \E p \in 1 .. Len(w.markCh) : w.markCh[p].kind = kind /\ w.markCh[p].who = t

(* process has handled the Begin of t and not yet its Done.                *)
Held(w, began, ended, t) ==
  t \in began /\ ~ InCh(w, "begin", t) /\ (t \in ended => InCh(w, "done", t))

Holders(w, idx, began, ended, i) ==
  {t \in Txn : Held(w, began, ended, t) /\ idx[t] = i}

(* What is in the channel: marks of calls that were made, each once, a Done *)
(* after its Begin, Begins in the order of their indices.                   *)
ChannelInv(w, idx, began, ended) ==
  /\ \A p \in 1 .. Len(w.markCh) : w.markCh[p].kind # "wait" =>
       /\ w.markCh[p].index = idx[w.markCh[p].who]
       /\ w.markCh[p].who \in began
       /\ w.markCh[p].kind = "done" => w.markCh[p].who \in ended
  /\ \A p, q \in 1 .. Len(w.markCh) : p < q /\ w.markCh[p].kind # "wait" =>
       /\ w.markCh[p].who = w.markCh[q].who => w.markCh[p].kind # w.markCh[q].kind
       /\ w.markCh[q].kind = "begin" =>
            /\ w.markCh[p].who = w.markCh[q].who => w.markCh[p].kind # "done"
            /\ w.markCh[p].kind = "begin" => w.markCh[p].index <= w.markCh[q].index
  /\ \A t \in Txn : t \in ended /\ InCh(w, "begin", t) => InCh(w, "done", t)

(* pending counts the holders of an index, which is then in the heap; the  *)
(* heap is at or above doneUntil and below every Begin still to come.      *)
HeapInv(w, idx, began, ended, top) ==
  /\ \A i \in TS : w.pending[i] = Cardinality(Holders(w, idx, began, ended, i))
  /\ \A t \in Txn : Held(w, began, ended, t) => idx[t] \in w.indices
  /\ \A i \in w.indices : w.doneUntil <= i /\ i <= top
  /\ w.doneUntil <= top
  /\ \A p \in 1 .. Len(w.markCh) : w.markCh[p].kind = "begin" =>
       /\ w.doneUntil <= w.markCh[p].index /\ w.markCh[p].index <= top
       /\ \A i \in w.indices : i <= w.markCh[p].index

WaterMarkInv(w, idx, began, ended, top) ==
  /\ w \in WaterMarkType
  /\ ChannelInv(w, idx, began, ended)
  /\ HeapInv(w, idx, began, ended, top)

(* When every Begin has a new, larger index (commit timestamps do, read     *)
(* timestamps do not), doneUntil stays strictly below what is not done.     *)
StrictInv(w, idx, began, ended) ==
  /\ \A p \in 1 .. Len(w.markCh) : w.markCh[p].kind = "begin" =>
       /\ w.doneUntil < w.markCh[p].index
       /\ \A i \in w.indices : i < w.markCh[p].index
  /\ \A p, q \in 1 .. Len(w.markCh) :
       p < q /\ w.markCh[p].kind = "begin" /\ w.markCh[q].kind = "begin"
         => w.markCh[p].index < w.markCh[q].index
  /\ \A t \in Txn : Held(w, began, ended, t) => w.doneUntil < idx[t]

(* A waiter's channel is closed only when doneUntil has reached its index.  *)
WaitersInv(w, idx, waited) ==
  /\ \A p \in 1 .. Len(w.markCh) : w.markCh[p].kind = "wait" =>
       w.markCh[p].who \in waited /\ w.markCh[p].index = idx[w.markCh[p].who]
  /\ \A m \in w.waiters : m.who \in waited /\ m.index = idx[m.who]
  /\ \A t \in w.closed : t \in waited /\ idx[t] <= w.doneUntil
=============================================================================
