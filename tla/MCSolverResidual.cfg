SPECIFICATION Spec
CONSTANTS
  out = out
  bad = bad
  good = good
  low = low
  None = None
  Points <- MCPoints
  Clip <- MCClip
  Feasible = {good}
  Low = {low}
  RestLow = {}
  Start = out
  MaxIterations = 3
  TimeLimits = FALSE
  EnableRestoration = TRUE
  PerformSoc = TRUE
  Aborts = {}
  FuncErrors = FALSE
  MaxSolves = 1
INVARIANTS RestorationInitialized
CHECK_DEADLOCK FALSE
