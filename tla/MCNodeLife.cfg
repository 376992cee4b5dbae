CONSTANTS
  NodeIds = {n1, n2}
  Openers = {o1}
  MaxInbound = 1
SPECIFICATION FairSpec
INVARIANTS
  TypeOK
  NoUseAfterFree
  RefCountExact
  InboundLimit
  StopFreesAll
PROPERTIES
  ShutdownCompletes
  DisconnectedReclaimed
