SPECIFICATION Spec
CONSTANTS
  c0 = c0  c1 = c1  c2 = c2  c3 = c3
  NumKeys = 2
  MaxTs = 2
  MaxReadTs = 2
  Kinds <- OnlyTTL
  MaxLevel = 2
  BaseLevelSize = 2
  LevelSizeMultiplier = 2
  BigSize = 1
  FileSz = 3
  EvictSize = 9
  NumMemtables = 1
  NumLevelZeroTablesStall = 2
  NumVersionsToKeep = 1
  DiscardLag = 0
  Compactors = {c1, c2}
  CompactorZero = c0
  CompactorTwo = c2
  CompactorThree = c3
  LmaxCompaction = TRUE
  HotKeys = {}
  ReadKeys <- NoKeys

INVARIANTS SortedLevels
CHECK_DEADLOCK FALSE
