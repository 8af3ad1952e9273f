SPECIFICATION Spec
CONSTANTS
  Threads = {t1, t2}
  SlabCount = 2
  NodeCount = 2
  OverlapPops = TRUE
PROPERTY StackIsPool
