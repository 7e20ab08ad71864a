------------------------------- MODULE MCOracle -------------------------------
(* Small instances of Oracle. *)
EXTENDS Oracle, TLC

CONSTANTS t1, t2, t3, k1, k2

Txn2 == {t1, t2}
Txn3 == {t1, t2, t3}
Key1 == {k1}
Key2 == {k1, k2}

FpExact  == (k1 :> 1 @@ k2 :> 2)    \* no two keys share a fingerprint
FpOne    == (k1 :> 1)

TxnSymmetry == Permutations(Txn)
=============================================================================
