--------------------------- MODULE SerializableStore --------------------------
(***************************************************************************)
(* What db.NewTransaction and Txn promise, without timestamps, watermarks, *)
(* channels or an LSM tree: a log of commits in serial order.  A           *)
(* transaction reads from the prefix of the log that existed when it was   *)
(* created; it commits by appending to the log, and only if nothing it     *)
(* read was written after its prefix.                                      *)
(***************************************************************************)
EXTENDS Integers, Sequences, FiniteSetsExt

CONSTANTS Txn, Key, NotRead

VARIABLES log,    \* the commits: what was written and how the write ended
          phase,  \* "idle", "starting", "started" or "ended"
          snap,   \* length of the log at the creation of the transaction
          view    \* position in the log each key was read from

vars == <<log, phase, snap, view>>

Entry == [writes : SUBSET Key, state : {"pending", "done", "failed"}]

TypeOK ==
  /\ log \in Seq(Entry)
  /\ phase \in [Txn -> {"idle", "starting", "started", "ended"}]
  /\ snap \in [Txn -> Nat]
  /\ view \in [Txn -> [Key -> Nat \cup {NotRead}]]

Init ==
  /\ log = <<>>
  /\ phase = [t \in Txn |-> "idle"]
  /\ snap = [t \in Txn |-> 0]
  /\ view = [t \in Txn |-> [k \in Key |-> NotRead]]

Begin(t) ==
  /\ phase[t] = "idle"
  /\ phase' = [phase EXCEPT ![t] = "starting"]
  /\ snap' = [snap EXCEPT ![t] = Len(log)]
  /\ UNCHANGED <<log, view>>

(* The transaction is handed to the user once all of its prefix is decided.*)
Start(t) ==
  /\ phase[t] = "starting"
  /\ \A i \in 1 .. snap[t] : log[i].state # "pending"
  /\ phase' = [phase EXCEPT ![t] = "started"]
  /\ UNCHANGED <<log, snap, view>>

(* The positions a read of k from the first n commits may answer with: the *)
(* last successful write, or a later one of a commit that failed, which    *)
(* may have been carried out in part.                                      *)
Readable(k, n) ==
  LET writers == {i \in 1 .. n : log[i].state # "pending" /\ k \in log[i].writes}
  IN  {i \in writers \cup {0} : \A j \in writers : log[j].state = "done" => j <= i}

Read(t, k) ==
  /\ phase[t] = "started"
  /\ \E i \in Readable(k, snap[t]) : view' = [view EXCEPT ![t][k] = i]
  /\ UNCHANGED <<log, phase, snap>>

Commit(t, ws) ==
  /\ phase[t] = "started" /\ ws # {}
  /\ \A k \in Key : view[t][k] # NotRead =>
       \A i \in snap[t] + 1 .. Len(log) : k \notin log[i].writes
  /\ log' = Append(log, [writes |-> ws, state |-> "pending"])
  /\ phase' = [phase EXCEPT ![t] = "ended"]
  /\ UNCHANGED <<snap, view>>

Decide(i, outcome) ==
  /\ log[i].state = "pending"
  /\ log' = [log EXCEPT ![i].state = outcome]
  /\ UNCHANGED <<phase, snap, view>>

End(t) ==
  /\ phase[t] = "started"
  /\ phase' = [phase EXCEPT ![t] = "ended"]
  /\ UNCHANGED <<log, snap, view>>

Next ==
  \/ \E t \in Txn :
       \/ Begin(t) \/ Start(t) \/ End(t)
       \/ \E k \in Key : Read(t, k)
       \/ \E ws \in SUBSET Key : Commit(t, ws)
  \/ \E i \in 1 .. Len(log), outcome \in {"done", "failed"} : Decide(i, outcome)

Spec == Init /\ [][Next]_vars
=============================================================================
