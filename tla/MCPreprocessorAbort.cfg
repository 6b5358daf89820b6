\* The restoration aborts for a problem with feasible points.
SPECIFICATION Spec
CONSTANTS
  Problems <- MCProblems
  Infinity <- Inf
  Grid <- MCGrid
  Multipliers <- MCMultipliers
INVARIANT NeverAborts
CHECK_DEADLOCK FALSE
