SPECIFICATION FairSpec
CONSTANTS
  c0 = c0  c1 = c1  c2 = c2  c3 = c3
  NumKeys = 1
  MaxTs = 3
  MaxReadTs = 2
  Kinds <- PutDel
  MaxLevel = 2
  BaseLevelSize = 1
  LevelSizeMultiplier = 2
  BigSize = 2
  FileSz = 2
  EvictSize = 9
  NumMemtables = 1
  NumLevelZeroTablesStall = 2
  NumVersionsToKeep = 1
  DiscardLag = 0
  Compactors = {c0}
  CompactorZero = c0
  CompactorTwo = c2
  CompactorThree = c3
  LmaxCompaction = FALSE
  HotKeys = {1}
  ReadKeys <- NoKeys

PROPERTIES FlushFinishes
CHECK_DEADLOCK FALSE
