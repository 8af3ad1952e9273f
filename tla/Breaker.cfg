SPECIFICATION TimedSpec
CONSTANTS
  Threads = {t1, t2}
  FailureThreshold = 4
  RecoveryTimeout = 2
INVARIANT CountsMatchState
PROPERTY KeepsTrying
PROPERTY TimedReturns
