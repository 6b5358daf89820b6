SPECIFICATION TmSpec
CONSTANTS
  TmLimits = {3, 9}
  TmGrain = 1
  TmLpTimes = {0, 3}
  TmMaxLPs = 2
  TmMaxCg = 4
  TmMaxIterations = 2
  TmMaxSolves = 2
INVARIANT NeverStartedTwice
CHECK_DEADLOCK FALSE
