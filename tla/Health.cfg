SPECIFICATION MCSpec
CONSTANTS
  Observers = {o1, o2}
  Capacity = 3
  PressureThreshold = 1
  CriticalThreshold = 2
  FallbackThreshold = 3
  RecoveryThreshold = 1
  FailRatio = 2
  MaxErrors = 1
  MaxAllocs = 1
  OverlapUnregister = FALSE
  Detector = o1
  RingSize = 2
  Words = 4
  Overtake = FALSE
  MaxChanges = 5
  Callers = {c1, c2}
  Stacks = {h1, h2}
  SampleRate = 3
  CounterSize = 4
  LeakThreshold = 1
  MaxReported = 10
  MaxLoops = 2
  MaxCalls = 5
INVARIANT ToldOnce
INVARIANT PairIsTransition
INVARIANT RingExact
INVARIANT TotalsMatchSets
INVARIANT OneInN
PROPERTY FollowsLoad
PROPERTY LeakReported
