SPECIFICATION FairSpec
CONSTANTS
  numPorts = 2
  nPrior = 2
  MTU = 2
  Arrivals <- AckAndData
  Configurations <- EveryPolicy
  alphas <- One
  alphaUnsched = 4
  AlphaUnit = 1
  sat = 1
  DeqRates <- HalfOrFull
  RateUnit = 2
  enablePredictions = TRUE
  round_robin = TRUE
INVARIANTS
  AccountsAgree
  SearchEnds
  DtLeavesRoom
PROPERTIES
  TakenFromLongest
  EveryQueueServed
CHECK_DEADLOCK FALSE
