SPECIFICATION LsSpec
CONSTANTS
  LsInstances <- MCLsInstances
  LsUnit = 32
INVARIANT ExactMeritIsActual
CHECK_DEADLOCK FALSE
