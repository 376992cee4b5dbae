CONSTANTS
  Blocks <- TreeBlocks
  Genesis = "g"
  Parent <- TreeParent
  Anc <- TreeAncestors
  ChainWork <- TreeWork
  Address <- PointerOrder
  BadBlocks = {"c2"}
  BadConnect = {"b2"}
  MinBlocksToKeep = 1
  BlocksPerFile = 1
  Threads = {t1}
  Budgets <- CommandAndCrashOrCorruption
  NoBlock = NoBlock
  NoThread = NoThread
SPECIFICATION FairSpec
INVARIANTS
  StatusConsistent
  CandidatesExact
  CoinsFollowTip
  BestChainActive
  DiskRecoverable
PROPERTIES
  LedgerSpec
  ActivationEnds
