SPECIFICATION AjSpec
CONSTANTS
  AjNumVars = 3
  AjJacobians <- MCAjJacobians
  AjWorkingSets <- MCAjWorkingSets
  AjRhs <- MCAjRhs
  AjMaxOps = 3
INVARIANT AnsweredAsDocumented
CHECK_DEADLOCK FALSE
