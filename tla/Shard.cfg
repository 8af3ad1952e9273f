SPECIFICATION FairSpec
CONSTANTS
  Threads = {t1, t2, t3}
  SlabCount = 2
  NodeCount = 2
  OverlapPops = FALSE
INVARIANT TypeOK
INVARIANT CountMatches
PROPERTY MissJustified
PROPERTY StackIsPool
PROPERTY SomeCallReturns
