SPECIFICATION FairReceiptSpec
CONSTANTS
  MaxSteps = 3
  N = 1
  D0 <- MCLocal
  Foreign <- MCOneMaster
  MaxQueue = 2
  FaultsClear = FALSE
PROPERTY SilentMasterForgotten
CHECK_DEADLOCK FALSE
