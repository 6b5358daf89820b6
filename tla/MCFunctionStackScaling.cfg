SPECIFICATION FnSpec
CONSTANTS
  FnPoints <- MCFnPoints
  FnScalings <- MCFnScalings
  FnFixedSets <- MCFnFixedSets
  FnBounds <- MCFnBounds
  FnMaxOps = 2
INVARIANT EvaluatesAsDocumented
CHECK_DEADLOCK FALSE
