SPECIFICATION FairSpec
CONSTANTS
  Genesis = "g"
  Blocks <- Forks
  Prev <- ForksPrev
  Height <- ForksHeight
  Target <- ForksTarget
  Rank <- ForksRank
  SaneBlocks <- Forks
  TimelyFrom <- Timely
  ContextBlocks = {"a1", "a2", "b1", "b2", "x"}
  ConnectBlocks = {"a1", "a2", "b1", "b2", "y"}
  LockTime <- NoLocks
  MedianTime <- OneTime
  maxOrphanBlocks = 2
  OrphanTTL = 0
  MaxTime = 0
  NoOrphan = NoOrphan
  NoBlock = NoBlock
  minMemoryNodes = 9
  blockErrCacheSize = 2
  MaxFaults = 0
  MaxRestarts = 1
INVARIANTS
  
  SideBodiesCached
  
  
PROPERTIES
  PoolUsedAsSpecified
  ImplementsBestChain
  
