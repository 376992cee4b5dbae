CONSTANTS
  NodeIds = {n1, n2, n3}
  MaxConnections = 1
  MaxOutbound = 1
  MaxFeeler = 1
  MaxAddnode = 1
  MaxOneShots = 1
SPECIFICATION FairSpec
INVARIANTS
  TypeOK
  SlotsConserved
  ConnectionLimits
  NoGrantOutlivesStop
PROPERTY
  ShutdownCompletes
