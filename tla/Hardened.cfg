SPECIFICATION Spec
CONSTANTS
  Threads = {t1, t2}
  t1 = t1
  t2 = t2
  Capacity = 3
  CacheCount = 1
  CacheSize = 1
  CpuOf <- AnyCpu
  MaxBatch = 2
  MaxCopies = 2
  EnableCache = FALSE
  EnableSecure = TRUE
  EnableGuard = TRUE
  GuardHit <- GuardHitOf
  ClientsWrite = TRUE
INVARIANT SecureIsolation
PROPERTY OwnerDataKept
