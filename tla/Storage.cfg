INIT StorageInit
NEXT StorageNext
CONSTANTS
  Parts = {"oracle", "vlog", "recovery", "registry"}
  t1 = t1  t2 = t2  t3 = t3  k1 = k1  k2 = k2
  Txn <- Txn3
  Key <- Key1
  Fp <- FpOne
  MaxTs = 3
  MarkChCap = 3
  DetectConflicts = TRUE
  SendErrors = FALSE
  WriteErrors = FALSE
  NoTxn = NoTxn
  NotRead = NotRead
  i1 = i1
  i2 = i2
  VKeys = {1}
  VKinds = {"put"}
  VMaxTs = 2
  VMaxMem = 3
  VMaxFile = 3
  ValueLogMaxEntries = 1
  Iterators <- TwoIterators
  RKeys = {1, 2}
  RHot = {2}
  RMaxRequest = 2
  RMaxWal = 2
  RMaxTable = 2
  RMaxCrash = 2
  DeletionsRewriteThreshold = 0
  DeletionsRatio = 0
  KeyCallers = {"k1", "k2"}
  RotationDuration = 2
  RegMaxTime = 6
  RegMaxKeys = 4
  RegMaxDown = 2
INVARIANTS DiscardBelowReaders ConflictInfoKept
INVARIANTS NoDanglingReadSettled IteratorKeepsFilesSettled
INVARIANTS CommitsAtomic AckedSurvive SyncedColdSurvive OpenSucceeds
INVARIANTS KeysSurvive
PROPERTIES SnapshotStable
SYMMETRY IteratorSymmetry
CHECK_DEADLOCK FALSE
