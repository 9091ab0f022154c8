SPECIFICATION Spec
CONSTANTS
  Genesis = "g"
  Blocks <- Deep
  Prev <- DeepPrev
  Height <- DeepHeight
  Target <- DeepTarget
  Rank <- DeepRank
  SaneBlocks = {"a1", "a2", "a3", "s", "t"}
  TimelyFrom <- Timely
  ContextBlocks <- Deep
  ConnectBlocks <- Deep
  LockTime <- NoLocks
  MedianTime <- OneTime
  maxOrphanBlocks = 2
  OrphanTTL = 0
  MaxTime = 1
  NoOrphan = NoOrphan
  NoBlock = NoBlock
  minMemoryNodes = 1
  blockErrCacheSize = 2
  MaxFaults = 1
  MaxRestarts = 1
INVARIANTS
  TypeOK
  
  ReorgListsFit
PROPERTIES
  KnownNeverLost
