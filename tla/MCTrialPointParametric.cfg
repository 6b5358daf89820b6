SPECIFICATION TpSpec
CONSTANTS
  Configurations <- ParametricOnly
  LpSets = {s1, s2}
  MaxIncreases = 2
  MaxResolves = 2
  NumResetSteps = 1
  MaxResets = 1
  MaxRounds = 2
  MaxRefinements = 1
INVARIANT CauchyDirectionValid
