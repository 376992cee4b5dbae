CONSTANTS
  Blocks <- TreeBlocks
  Genesis = "g"
  Parent <- TreeParent
  Anc <- TreeAncestors
  ChainWork <- TreeWork
  Address <- PointerOrder
  BadBlocks = {}
  BadConnect = {}
  MinBlocksToKeep = 1
  BlocksPerFile = 1
  Threads = {t1}
  Budgets <- CommandAndCrash
  NoBlock = NoBlock
  NoThread = NoThread
SPECIFICATION Spec
INVARIANT PruneAssertHolds
