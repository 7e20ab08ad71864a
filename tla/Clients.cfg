SPECIFICATION ClientsSpec
CONSTANTS
  Parts = {"lifecycle", "publisher"}
  LWriters = {"w1", "w2"}
  LMaxReq = 1
  LKeys = {1, 2}
  LPrefix = {1}
  Droppers = {"d1", "d2"}
  WriteChCap = 1
  Subs = {"s1", "s2"}
  PubKeys <- OneKey
  SubMatches <- TwoSubscribers
  MaxUpdate = 2
  PubChCap = 1
  SubChCap = 1
INVARIANTS DropDropsCold AckedKept DeliveredInOrder
PROPERTIES RequestsAnswered UpdateDelivered PublisherReturns
CHECK_DEADLOCK FALSE
