SPECIFICATION LifecycleSpec
CONSTANTS
  LWriters = {"w1"}
  LMaxReq = 1
  LKeys = {1}
  LPrefix = {1}
  Droppers = {"d1"}
  WriteChCap = 1
INVARIANTS DropDrops
CHECK_DEADLOCK FALSE
