CONSTANTS
  Callers = {c1, c2}
  SubNets = {s1}
  MaxTime = 1
  MaxUntil = 1
  MaxRestarts = 0
  FlushFails = FALSE
SPECIFICATION Spec
INVARIANT NothingUnwritten
