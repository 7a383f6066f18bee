SPECIFICATION Spec
CONSTANTS
  Masters = {m1, m2}
  None = None
  SeqIds = 2
  Others = TRUE
  MaxClockSteps = 1
  MaxSync = 2
  MaxReq = 1
  MaxSessions = 2
INVARIANTS SampleFromParent RequestsContinue SampleTimeIsSync SameSyncExchange
SYMMETRY MCSymmetry
CHECK_DEADLOCK FALSE
