SPECIFICATION MCSpec
CONSTANTS
  Problems <- MCProblems
  Infinity <- Inf
  Grid <- MCGrid
  Multipliers <- MCMultipliers
  SpDim = 2
  SpMaxDim = 3
  SpValues <- MCSpValues
  SpMaxValue = 4
  SpMaxOps = 2
  SrWindow = 2
  SrStepCount = 2
  SrPoints <- MCSrPoints
  SrPenalties <- MCSrPenalties
  SrAccepted <- MCSrAccepted
  SrMaxSteps = 3
  CbKeys <- MCCbKeys
  CbMaxAdds = 3
  CbMaxChanges = 2
  FnPoints <- MCFnPoints
  FnScalings <- MCFnScalings
  FnFixedSets <- MCFnFixedSets
  FnBounds <- MCFnBounds
  FnMaxOps = 4
  QnDim = 3
  QnNum = 2
  QnFixedSets <- MCQnFixedSets
  QnMaxPairs = 3
  LsInstances <- MCLsInstances
  LsUnit = 32
  AjNumVars = 3
  AjJacobians <- MCAjJacobians
  AjWorkingSets <- MCAjWorkingSets
  AjRhs <- MCAjRhs
  AjMaxOps = 4
  ClNumVars = 2
  ClInfinity <- ClInf
  ClIterates <- MCClIterates
  ClRadii <- MCClRadii
  ClPenalties <- MCClPenalties
  ClMaxOps = 2
  NsRadii <- MCNsRadii
  NsGrain = 16
  NsHessians <- MCNsHessians
  NsErrors <- MCNsErrors
  NsPenalty = 3
  NsReach = 3
  RtProblems <- MCRtProblems
  RtPoints <- MCRtPoints
  RtMaxOps = 6
  DcNumVars = 2
  DcNumCons = 2
  DcLinear <- MCDcLinear
  DcHess <- MCDcHessians
  DcPoints <- MCDcPoints
  DcDuals <- MCDcDuals
  DcFlagSets <- MCDcFlagSets
  DcMistakes <- MCDcMistakes
  DcPerturbation = 1
  DcTolInverse = 5
  DcMaxChecks = 2
  StInstances <- MCStInstances
  StMaxSolves = 2
  TmLimits <- MCTmLimits
  TmGrain = 1
  TmLpTimes = {0, 3}
  TmMaxLPs = 2
  TmMaxCg = 4
  TmMaxIterations = 2
  TmMaxSolves = 2
INVARIANTS
  
  VecAgrees MatAgrees StepRulesSound CallbacksCalled FunctionsChecked FunctionsFresh QuasiNewtonSound LineSearchSound
  AugJacSound CauchySound StepsSound RestorationSound DerivCheckSound SteihaugSound TimersSound
CHECK_DEADLOCK FALSE
