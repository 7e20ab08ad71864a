SPECIFICATION ValueLogSpec
CONSTANTS
  VKeys = {1}
  VKinds = {"put"}
  VMaxTs = 3
  VMaxMem = 3
  VMaxFile = 3
  ValueLogMaxEntries = 1
  Iterators = {"i1"}
INVARIANTS GetShowsLastCommit
CHECK_DEADLOCK FALSE
