SPECIFICATION MCSpec
CONSTANTS
  Half = 64
  GuardPage = 8
  Sizes <- AllSizes
  Capacities <- AllCapacities
  Lines = {1, 2, 3, 4, 6, 8, 60}
  Requests <- AllRequests
  BaseTable <- SizeClassTable
  ExtendedTable <- ExtendedSizeClassTable
  Colors = 4
  ShardCounts = {1, 2, 3}
  LineSizes = {4, 8, 16, 20, 24}
  Blocks = 3
  Thresholds = {64, 100, 768, 769, 1024, 5000, 8192}
INVARIANT SlabsDisjoint
INVARIANT SlabsInBounds
INVARIANT SlabsAligned
INVARIANT RefusedOnlyAtTop
INVARIANT SmallestClass
INVARIANT MissMeansEmpty
INVARIANT OnOneList
