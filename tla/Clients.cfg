SPECIFICATION MCSpec
CONSTANTS
  Threads = {t1, t2, t3}
  Slabs = {0, 1}
  Generations = 16
  MaxIssued = 5
  OverlapFrees = FALSE
  Refs = {0, 1, 2}
  StaleReleases = FALSE
  OverlapRepeats = FALSE
  ShardCount = 2
  ShardOf <- OwnShard
  Pages = 3
  PageSize = 2
  Threshold = 1
  MaxSize = 4
  Word = 8
  LateFrees = FALSE
  Few = {t1, t2}
INVARIANT HandleProtects
INVARIANT StaleDetected
INVARIANT RefProtects
INVARIANT EveryShardAsked
INVARIANT HeldBacked
INVARIANT StatsExact
INVARIANT MappedAccounted
