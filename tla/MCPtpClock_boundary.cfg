SPECIFICATION Spec
CONSTANTS
  MaxSteps = 3
  N = 2
  D0 <- MCLocal
  Foreign <- MCMasters
  MaxQueue = 2
  FaultsClear = TRUE
INVARIANTS TypeOK NoIllegalTransition Settled AtMostOneSlave NeverStranded BestRanksFirst
