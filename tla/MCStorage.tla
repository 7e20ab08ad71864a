------------------------------ MODULE MCStorage ------------------------------
(***************************************************************************)
(* Small instances of the parts that keep what was committed: the value    *)
(* log and its garbage collection; logs, manifest and tables through       *)
(* crashes; the key registry; and, with three transactions, the oracle,    *)
(* which says what nobody reads any more.  A behaviour is one of a single  *)
(* part.                                                                   *)
(***************************************************************************)
EXTENDS MCOracle, ValueLog, Recovery, KeyRegistry

CONSTANT Parts
VARIABLE part

(* What a part may choose at the beginning is fixed in the others.         *)
StorageInit ==
  /\ part \in Parts
  /\ part = "vlog" \/ heat = {}
  /\ part = "recovery" \/ syncWrites = FALSE
  /\ Init /\ ValueLogInit /\ RecoveryInit /\ RegistryInit

(* No definition tells two transactions apart, and each begins once: it is *)
(* enough to look at those behaviours in which they begin in this order.   *)
beginInTurn ==
  /\ pc[t2] # "idle" => pc[t1] # "idle"
  /\ pc[t3] # "idle" => pc[t2] # "idle"

StorageNext ==
  \/ part = "oracle" /\ Next /\ beginInTurn' /\ UNCHANGED <<part, vlogVars, recoveryVars, registryVars>>
  \/ part = "vlog" /\ ValueLogNext /\ UNCHANGED <<part, vars, recoveryVars, registryVars>>
  \/ part = "recovery" /\ RecoveryNext /\ UNCHANGED <<part, vars, vlogVars, registryVars>>
  \/ part = "registry" /\ RegistryNext /\ UNCHANGED <<part, vars, vlogVars, recoveryVars>>

-----------------------------------------------------------------------------
CONSTANTS i1, i2
OneIterator == {i1}
TwoIterators == {i1, i2}
IteratorSymmetry == Permutations(Iterators)
==============================================================================
