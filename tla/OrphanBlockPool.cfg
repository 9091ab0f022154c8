SPECIFICATION OrphanSpec
CONSTANTS
  g = g
  a = a
  b = b
  c = c
  d = d
  e = e
  Genesis = g
  Blocks <- MCBlocks
  Prev <- MCPrev
  maxOrphanBlocks = 2
  OrphanTTL = 1
  MaxTime = 4
  NoOrphan = NoOrphan
INVARIANTS
  OrphanTypeOK
  PoolConsistent
  AtMostOneExtraOrphan
  EvictionHasVictim
PROPERTIES
  AddKeepsLiveOrphans
