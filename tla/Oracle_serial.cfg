SPECIFICATION Spec
CONSTANTS
  t1 = t1  t2 = t2  t3 = t3  k1 = k1  k2 = k2
  Txn <- Txn2
  Key <- Key2
  Fp <- FpExact
  MaxTs = 2
  MarkChCap = 2
  DetectConflicts = TRUE
  SendErrors = TRUE
  WriteErrors = TRUE
  NoTxn = NoTxn
  NotRead = NotRead
SYMMETRY TxnSymmetry
INVARIANTS AssertionsHold SnapshotRead Serializable StoreInv
PROPERTIES ImplementsStore
