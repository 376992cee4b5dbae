CONSTANTS
  Blocks <- LongBlocks
  Genesis = "g"
  Parent <- LongParent
  Anc <- LongAncestors
  ChainWork <- LongWork
  Address <- LongOrder
  BadBlocks = {}
  BadConnect = {}
  MinBlocksToKeep = 2
  BlocksPerFile = 9
  Threads = {t1, t2}
  Budgets <- Nothing
  NoBlock = NoBlock
  NoThread = NoThread
SPECIFICATION Spec
INVARIANT BestChainActive
