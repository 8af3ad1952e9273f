SPECIFICATION Spec
CONSTANTS
  Threads = {t1, t2, t3}
  Slabs = {0, 1}
  Generations = 16
  MaxIssued = 2
  OverlapFrees = TRUE
INVARIANT HandleProtects
