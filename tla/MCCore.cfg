SPECIFICATION MCSpec
CONSTANTS
  out = out
  bad = bad
  good = good
  low = low
  None = None
  Points <- MCPoints
  Clip <- MCClip
  Feasible = {good}
  Low = {low}
  RestLow = {good}
  Start = out
  MaxIterations = 2
  TimeLimits = TRUE
  EnableRestoration = TRUE
  PerformSoc = TRUE
  Aborts = {"callback", "function"}
  FuncErrors = TRUE
  MaxSolves = 1
  NumVars = 2
  NumCons = 1
  Sets = {iterate, target}
  Garbage <- MCGarbage
  Configurations <- MCConfigurations
  LpSets = {s1, s2}
  MaxIncreases = 2
  MaxResolves = 2
  NumResetSteps = 1
  MaxResets = 1
  MaxRounds = 2
  MaxRefinements = 1
INVARIANTS
  IterateCoherent OptimalIsFeasible RestoredFeasible RestorationNeeded FuncAtIterate BudgetKept
  ManualIsRequested CallbackAbortStops
  WsTypeOK Valid RowMapsAgree EqSound
  TpTypeOK StepFromLP FactorizationFits NewtonInputsFit MeritCurrent DirectionsAgree ResetsCounted
PROPERTIES AcceptedWasTried SolveTerminates ImplementsActiveSet TrialPointComputed
CHECK_DEADLOCK FALSE
