CONSTANTS
  Callers = {c1, c2}
  SubNets = {s1}
  MaxTime = 1
  MaxUntil = 2
  MaxRestarts = 1
  FlushFails = TRUE
SYMMETRY CallerSymmetry
SPECIFICATION Spec
INVARIANTS
  FlagHonest
  FileWhole
PROPERTY
  BansOnlyLifted
