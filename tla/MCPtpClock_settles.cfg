SPECIFICATION FairSpec
CONSTANTS
  MaxSteps = 3
  N = 2
  D0 <- MCLocal
  Foreign <- MCBetterAndWorse
  MaxQueue = 2
  FaultsClear = FALSE
INVARIANT ListeningDecides
PROPERTIES Converges MasterInSilence
CHECK_DEADLOCK FALSE
