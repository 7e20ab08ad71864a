------------------------------ MODULE WriteBatch ------------------------------
(***************************************************************************)
(* batch.go and y.Throttle: goroutines add entries to one WriteBatch,      *)
(* which commits full transactions in the background, at most MaxPending   *)
(* at a time; errors come back through callbacks and the throttle's error  *)
(* channel.                                                                *)
(***************************************************************************)
EXTENDS Integers, FiniteSets

CONSTANTS
  BatchCallers,    \* goroutines that use the batch
  BatchEntries,    \* entries they may set
  TxnCap,          \* entries a transaction takes before ErrTxnTooBig
  MaxPending       \* SetMaxPendingTxns

ASSUME BatchAssumption == TxnCap \in Nat \ {0} /\ MaxPending \in Nat \ {0} /\ "none" \notin BatchCallers

VARIABLES
  batchTxn,     \* [open, entries]: the current transaction
  batchErr, batchFinished,
  batchLock,    \* who holds wb.Mutex
  caller,       \* caller -> the call it is in
  inFlight,     \* committed transactions whose callback has not finished
  errCh,        \* errors in the throttle's errCh
  finish,       \* Throttle.Finish: "no", "closed"; its error
  batchTodo, accepted, committed, batchFails    \* input, and history
batchVars == <<batchTxn, batchErr, batchFinished, batchLock, caller, inFlight, errCh, finish,
               batchTodo, accepted, committed, batchFails>>
throttleVars == <<inFlight, errCh, finish>>
bhistVars == <<batchTodo, accepted, committed, batchFails>>

NoCaller == "none"
IdleCaller == [pc |-> "idle", op |-> "none", e |-> "none", ok |-> FALSE]

BatchInit ==
  /\ batchTxn = [open |-> TRUE, entries |-> {}] /\ batchErr = FALSE /\ batchFinished = FALSE
  /\ batchLock = NoCaller /\ caller = [c \in BatchCallers |-> IdleCaller]
  /\ inFlight = {} /\ errCh = 0 /\ finish = [state |-> "no", err |-> FALSE]
  /\ batchTodo = BatchEntries /\ accepted = {} /\ committed = {} /\ batchFails = 0

(* A call returns, with or without an error, and unlocks.                  *)
returnUnlocked(c, op, ok) ==
  /\ caller' = [caller EXCEPT ![c] = [IdleCaller EXCEPT !.op = op, !.ok = ok]]
  /\ batchLock' = NoCaller

-----------------------------------------------------------------------------
(* SetEntry or Delete.  A discarded transaction refuses it; one with room  *)
(* takes it; a full one is committed first, with the lock held.            *)
SetEntry(c, e) ==
  /\ caller[c].pc = "idle" /\ batchLock = NoCaller /\ e \in batchTodo /\ batchTodo' = batchTodo \ {e}
  /\ \/ /\ ~ batchTxn.open /\ returnUnlocked(c, "set", FALSE)
        /\ UNCHANGED <<batchTxn, accepted>>
     \/ /\ batchTxn.open /\ Cardinality(batchTxn.entries) < TxnCap
        /\ batchTxn' = [batchTxn EXCEPT !.entries = @ \cup {e}] /\ accepted' = accepted \cup {e}
        /\ returnUnlocked(c, "set", TRUE)
     \/ /\ batchTxn.open /\ Cardinality(batchTxn.entries) = TxnCap
        /\ batchLock' = c /\ caller' = [caller EXCEPT ![c] = [pc |-> "commit", op |-> "set", e |-> e, ok |-> FALSE]]
        /\ UNCHANGED <<batchTxn, accepted>>
  /\ UNCHANGED <<batchErr, batchFinished, throttleVars, committed, batchFails>>

Flush(c) ==
  /\ caller[c].pc = "idle" /\ batchLock = NoCaller /\ batchLock' = c
  /\ caller' = [caller EXCEPT ![c] = [pc |-> "commit", op |-> "flush", e |-> "none", ok |-> FALSE]]
  /\ UNCHANGED <<batchTxn, batchErr, batchFinished, throttleVars, bhistVars>>

(* Cancel keeps the lock while Finish waits for the callbacks.             *)
Cancel(c) ==
  /\ caller[c].pc = "idle" /\ batchLock = NoCaller /\ batchLock' = c
  /\ batchFinished' = TRUE
  /\ caller' = [caller EXCEPT ![c] = [pc |-> "finish", op |-> "cancel", e |-> "none", ok |-> FALSE]]
  /\ UNCHANGED <<batchTxn, batchErr, throttleVars, bhistVars>>

-----------------------------------------------------------------------------
(* commit, first part: not after an error, nor after Flush or Cancel.      *)
commitCheck(c) ==
  /\ caller[c].pc = "commit"
  /\ IF batchErr \/ batchFinished THEN returnUnlocked(c, caller[c].op, FALSE)
     ELSE caller' = [caller EXCEPT ![c].pc = "do"] /\ UNCHANGED batchLock
  /\ UNCHANGED <<batchTxn, batchErr, batchFinished, throttleVars, bhistVars>>

(* Throttle.Do: a slot, or an error, whichever select picks.               *)
slotTaken == Cardinality(inFlight) < MaxPending

doError(c) ==
  /\ caller[c].pc = "do" /\ errCh > 0 /\ errCh' = errCh - 1
  /\ batchErr' = TRUE /\ returnUnlocked(c, caller[c].op, FALSE)
  /\ UNCHANGED <<batchTxn, batchFinished, inFlight, finish, bhistVars>>

(* CommitWith sends the transaction to the background and a new one        *)
(* starts; an error may come before wb.Error is read.                      *)
doCommit(c) ==
  /\ caller[c].pc = "do" /\ slotTaken
  /\ inFlight' = inFlight \cup {[entries |-> batchTxn.entries, pc |-> "running", by |-> c]}
  /\ batchTxn' = [open |-> TRUE, entries |-> {}] /\ caller' = [caller EXCEPT ![c].pc = "sent"]
  /\ UNCHANGED <<batchErr, batchFinished, batchLock, errCh, finish, bhistVars>>

(* What the call wanted the new transaction for is done with it.           *)
commitReturns(c) ==
  /\ caller[c].pc = "sent"
  /\ \/ /\ batchErr /\ returnUnlocked(c, caller[c].op, FALSE) /\ UNCHANGED <<batchTxn, batchFinished, accepted>>
     \/ /\ ~ batchErr /\ caller[c].op = "set" /\ returnUnlocked(c, "set", TRUE)
        /\ batchTxn' = [open |-> TRUE, entries |-> {caller[c].e}]
        /\ accepted' = accepted \cup {caller[c].e} /\ UNCHANGED batchFinished
     \/ /\ ~ batchErr /\ caller[c].op = "flush" /\ batchLock' = NoCaller
        /\ batchFinished' = TRUE /\ batchTxn' = [open |-> FALSE, entries |-> {}]
        /\ caller' = [caller EXCEPT ![c].pc = "finish"] /\ UNCHANGED accepted
  /\ UNCHANGED <<batchErr, throttleVars, batchTodo, committed, batchFails>>

(* The callback: the first error is stored, then Done passes it on.        *)
commitEnds(t, ok) ==
  /\ t \in inFlight /\ t.pc = "running"
  /\ inFlight' = (inFlight \ {t}) \cup {[t EXCEPT !.pc = IF ok THEN "release" ELSE "error"]}
  /\ batchErr' = (batchErr \/ ~ ok)
  /\ committed' = IF ok THEN committed \cup t.entries ELSE committed
  /\ batchFails' = IF ok THEN batchFails ELSE batchFails + 1
  /\ UNCHANGED <<batchTxn, batchFinished, batchLock, caller, errCh, finish, batchTodo, accepted>>

DoneError_noRelease(t) ==
  /\ t \in inFlight /\ t.pc = "error" /\ errCh < MaxPending /\ errCh' = errCh + 1
  /\ inFlight' = (inFlight \ {t}) \cup {[t EXCEPT !.pc = "returned"]}
  /\ UNCHANGED <<batchTxn, batchErr, batchFinished, batchLock, caller, finish, bhistVars>>

DoneError(t) ==
  /\ t \in inFlight /\ t.pc = "error" /\ errCh < MaxPending /\ errCh' = errCh + 1
  /\ inFlight' = (inFlight \ {t}) \cup {[t EXCEPT !.pc = "release"]}
  /\ UNCHANGED <<batchTxn, batchErr, batchFinished, batchLock, caller, finish, bhistVars>>

DoneRelease(t) ==
  /\ t \in inFlight /\ t.pc = "release" /\ inFlight' = inFlight \ {t}
  /\ UNCHANGED <<batchTxn, batchErr, batchFinished, batchLock, caller, errCh, finish, bhistVars>>

(* Throttle.Finish: the first call waits for all; then Flush reports what  *)
(* it or the callbacks found, and Cancel discards the transaction.         *)
waitsFor_slots == Cardinality(inFlight) < MaxPending
waitsFor == inFlight = {}
Finish(c) ==
  /\ caller[c].pc = "finish" /\ finish.state = "no" /\ waitsFor
  /\ finish' = [state |-> "closed", err |-> errCh > 0] /\ errCh' = 0
  /\ UNCHANGED <<batchTxn, batchErr, batchFinished, batchLock, caller, inFlight, bhistVars>>

FlushReturns(c) ==
  /\ caller[c].pc = "finish" /\ caller[c].op = "flush" /\ finish.state = "closed"
  /\ caller' = [caller EXCEPT ![c] = [IdleCaller EXCEPT !.op = "flush", !.ok = ~ finish.err /\ ~ batchErr]]
  /\ UNCHANGED <<batchTxn, batchErr, batchFinished, batchLock, throttleVars, bhistVars>>

CancelReturns(c) ==
  /\ caller[c].pc = "finish" /\ caller[c].op = "cancel" /\ finish.state = "closed"
  /\ batchTxn' = [open |-> FALSE, entries |-> {}] /\ returnUnlocked(c, "cancel", TRUE)
  /\ UNCHANGED <<batchErr, batchFinished, throttleVars, bhistVars>>

callerStep(c) ==
  commitCheck(c) \/ doError(c) \/ doCommit(c) \/ commitReturns(c) \/ Finish(c) \/ FlushReturns(c) \/ CancelReturns(c)
backgroundStep == \E t \in inFlight : DoneError(t) \/ DoneRelease(t) \/ \E ok \in BOOLEAN : commitEnds(t, ok)

BatchNext ==
  \/ \E c \in BatchCallers : callerStep(c) \/ Flush(c) \/ Cancel(c) \/ \E e \in BatchEntries : SetEntry(c, e)
  \/ backgroundStep

(* Goroutines that can run do run, and every commit ends.                  *)
BatchFairness == WF_batchVars(backgroundStep) /\ \A c \in BatchCallers : WF_batchVars(callerStep(c))
BatchSpec == BatchInit /\ [][BatchNext]_batchVars /\ BatchFairness

-----------------------------------------------------------------------------
(* Flush is "to ensure that any pending writes get committed": when it     *)
(* returns nil, every entry the batch accepted is committed.               *)
FlushCommits == \A c \in BatchCallers : caller[c].op = "flush" /\ caller[c].ok => accepted \subseteq committed

(* SetEntry, Flush and Cancel return, whatever fails in the background.    *)
(* It does not hold: Done blocks once MaxPending errors are in the channel *)
(* and nobody calls Do.                                                    *)
BatchReturns == \A c \in BatchCallers : caller[c].pc # "idle" ~> caller[c].pc = "idle"

(* As far as the code ensures it: while the failed commits fit in errCh.   *)
BatchReturnsFew == \A c \in BatchCallers : caller[c].pc # "idle" ~> (caller[c].pc = "idle" \/ batchFails > MaxPending)

-----------------------------------------------------------------------------
(* Why: the inductive invariant behind FlushCommits.                       *)
Calls ==
  [pc : {"idle", "commit", "do", "sent", "finish"}, op : {"none", "set", "flush", "cancel"},
   e : BatchEntries \cup {"none"}, ok : BOOLEAN]

BatchType ==
  /\ batchTxn \in [open : BOOLEAN, entries : SUBSET BatchEntries]
  /\ {batchErr, batchFinished} \subseteq BOOLEAN /\ caller \in [BatchCallers -> Calls]
  /\ inFlight \subseteq [entries : SUBSET BatchEntries, pc : {"running", "error", "release"}, by : BatchCallers]
  /\ finish \in [state : {"no", "closed"}, err : BOOLEAN]

(* A caller in commit has the lock, and so has Cancel until it returns;    *)
(* commit goes on only before Flush or Cancel has taken effect, and        *)
(* nothing is sent to the background after the throttle was closed.        *)
CallsInOrder ==
  /\ \A c \in BatchCallers :
       /\ caller[c].pc \in {"commit", "do", "sent"} \/ (caller[c].pc = "finish" /\ caller[c].op = "cancel") => batchLock = c
       /\ caller[c].pc \in {"do", "sent"} => ~ batchFinished
       /\ caller[c].pc = "finish" => batchFinished
       /\ caller[c].ok => caller[c].pc = "idle"
       /\ caller[c].pc \in {"commit", "do", "sent"} /\ caller[c].op = "set" => caller[c].e \in BatchEntries
  /\ finish.state = "closed" => batchFinished /\ inFlight = {}

(* Flush has sent the last transaction, and none is open again.            *)
hasFlushed(c) == caller[c].op = "flush" /\ (caller[c].pc = "finish" \/ caller[c].ok)
running == UNION {t.entries : t \in {u \in inFlight : u.pc = "running"}}

NothingDropped ==
  /\ ~ batchErr /\ ~ batchFinished => accepted \subseteq committed \cup batchTxn.entries \cup running
  /\ \A c \in BatchCallers : caller[c].pc = "sent" => batchTxn.entries = {}
  /\ \A c \in BatchCallers : hasFlushed(c) =>
       /\ batchFinished /\ ~ batchTxn.open /\ batchTxn.entries = {}
       /\ ~ batchErr => accepted \subseteq committed \cup running
       /\ caller[c].ok => finish.state = "closed"

BatchInv == BatchType /\ CallsInOrder /\ NothingDropped /\ FlushCommits
=============================================================================
