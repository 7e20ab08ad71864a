------------------------------- MODULE MCCommits -------------------------------
(***************************************************************************)
(* Small instances of transactions, and of write batches, which commit     *)
(* them in the background: whoever waits is answered.  They share no       *)
(* state, so a behaviour is one of a single part; the other stays in its   *)
(* initial state, in which no fair action is enabled.                      *)
(***************************************************************************)
EXTENDS MCOracle, WriteBatch

CONSTANT Parts
VARIABLE part

CommitsInit == part \in Parts /\ Init /\ BatchInit

CommitsNext ==
  \/ part = "oracle" /\ Next /\ UNCHANGED <<part, batchVars>>
  \/ part = "batch" /\ BatchNext /\ UNCHANGED <<part, vars>>

CommitsSpec ==
  /\ CommitsInit /\ [][CommitsNext]_<<part, vars, batchVars>>
  /\ Fairness /\ BatchFairness
==============================================================================
