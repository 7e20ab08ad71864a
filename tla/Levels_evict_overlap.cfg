SPECIFICATION Spec
CONSTANTS
  c0 = c0  c1 = c1  c2 = c2  c3 = c3
  NumKeys = 2
  MaxTs = 3
  MaxReadTs = 2
  Kinds <- Puts
  MaxLevel = 2
  BaseLevelSize = 1
  LevelSizeMultiplier = 2
  BigSize = 1
  FileSz = 2
  EvictSize = 0
  NumMemtables = 1
  NumLevelZeroTablesStall = 2
  NumVersionsToKeep = 1
  DiscardLag = 0
  Compactors = {c1, c3}
  CompactorZero = c0
  CompactorTwo = c2
  CompactorThree = c3
  LmaxCompaction = FALSE
  HotKeys = {1, 2}
  ReadKeys <- NoKeys

INVARIANTS SortedLevels
CHECK_DEADLOCK FALSE
