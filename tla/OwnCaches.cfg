SPECIFICATION Spec
CONSTANTS
  Threads = {t1, t2}
  t1 = t1
  t2 = t2
  Capacity = 2
  CacheCount = 2
  CacheSize = 1
  CpuOf <- OwnCpu
  MaxBatch = 1
  MaxCopies = 2
  EnableCache = TRUE
  EnableSecure = FALSE
  EnableGuard = FALSE
  GuardHit <- NoGuardHit
  ClientsWrite = FALSE
INVARIANT NoLostSlab
