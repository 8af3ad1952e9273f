SPECIFICATION Spec
CONSTANTS
  Threads = {t1, t2}
  Slabs = {0, 1}
  Refs = {0, 1}
  MaxIssued = 2
  StaleReleases = FALSE
  OverlapRepeats = TRUE
INVARIANT RefProtects
