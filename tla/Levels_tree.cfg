SPECIFICATION Spec
CONSTANTS
  c0 = c0  c1 = c1  c2 = c2  c3 = c3
  NumKeys = 1
  MaxTs = 3
  MaxReadTs = 2
  Kinds <- PutDel
  MaxLevel = 2
  BaseLevelSize = 1
  LevelSizeMultiplier = 2
  BigSize = 2
  FileSz = 2
  EvictSize = 0
  NumMemtables = 1
  NumLevelZeroTablesStall = 3
  NumVersionsToKeep = 1
  DiscardLag = 0
  Compactors = {c0, c3}
  CompactorZero = c0
  CompactorTwo = c2
  CompactorThree = c3
  LmaxCompaction = FALSE
  HotKeys = {1}
  ReadKeys <- FirstKey
INVARIANTS LookupCorrect CompactionsDisjoint RangesReleased ReaderCorrect
CHECK_DEADLOCK FALSE
