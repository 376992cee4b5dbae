CONSTANTS
  Owners = {o1}
  Stoppers = {s1}
  Names = {n1, n2}
SPECIFICATION FairSpec
INVARIANTS
  TypeOK
  StoppedMeansIdle
  StartedMeansAlive
PROPERTIES
  KillingIsFinal
  OwnerCallsReturn
  StopperReturns
  StartReachesCallback
