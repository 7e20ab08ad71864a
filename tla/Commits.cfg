SPECIFICATION CommitsSpec
CONSTANTS
  Parts = {"oracle", "batch"}
  t1 = t1  t2 = t2  t3 = t3  k1 = k1  k2 = k2
  Txn <- Txn2
  Key <- Key1
  Fp <- FpOne
  MaxTs = 2
  MarkChCap = 3
  DetectConflicts = TRUE
  SendErrors = TRUE
  WriteErrors = TRUE
  NoTxn = NoTxn
  NotRead = NotRead
  BatchCallers = {"c1", "c2"}
  BatchEntries = {"e1", "e2", "e3"}
  TxnCap = 1
  MaxPending = 2
INVARIANTS FlushCommits
PROPERTIES NewTransactionReturns CommitReturns BatchReturnsFew
CHECK_DEADLOCK FALSE
