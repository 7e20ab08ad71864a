INIT PartsInit
NEXT PartsNext
CONSTANTS
  Parts = {"skiplist", "iterator", "heatmap", "stream", "sequence", "merge", "streamwriter"}
  p1 = p1
  p2 = p2
  h1 = h1
  h2 = h2
  Putters <- TwoPutters
  PutKeys = {1, 2}
  SklHeight = 3
  IterKeys = {1, 2}
  IterMaxTs = 2
  Sources = 3
  Placements <- OverlappingSources
  IterOptions <- AllOptions
  PrefetchSize = 2
  HeatKeys <- TwoByteKeys
  MaxByte = 3
  PruneWrites = 2
  ReservoirCap = 2
  SplitThreshold = 2
  GuaranteedFanOut = 2
  DensityMin = 2
  SampleChCap = 1
  HeatMaxSamples = 5
  HeatMaxEpochs = 1
  HeatMaxNodes = 9
  StreamRanges <- TwoRanges
  StreamKinds = {"put", "disc"}
  StreamMaxTs = 2
  NumGo = 2
  RangeChCap = 1
  KvChanCap = 1
  MaxBackups = 1
  SinceNext = 0
  SeqHandles <- TwoHandles
  Bandwidth = 2
  SeqMaxLease = 3
  SeqMaxFail = 1
  MaxAdd = 3
  MergeChCap = 2
  SwInput <- TwoStreams
  SwMaxLevel = 2
  SwTableCap = 1
  ReqChCap = 1
  SwThrottle = 1
  SwChunks = {0, 1}
  SwMaxSessions = 2
  SwMaxEvents = 1
INVARIANTS PutsKept FindNearest IterationCorrect SlotsOwnedOnce KeysLocated DumpExact
INVARIANTS SequenceUniqueClean MergeCompleteSettled StreamsWritten
SYMMETRY PartsSymmetry
CHECK_DEADLOCK FALSE
