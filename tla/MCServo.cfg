SPECIFICATION Spec
CONSTANTS
  None = None
  Strategies = {"PI", "Stepping"}
  Scale = 20
  Error <- MCSlow
  Offsets = {0, 3, 22, 30}
  Noise = {0, 3}
  FirstThreshold = 20
  Threshold = 25
  DriftMin <- MCDriftMin
  DriftMax = 4
  MinDelta = 35
  Kp = 3
  Ki = 1
  Gain = 10
  Repeats = 1
  MaxTicks = 6
INVARIANTS SlaveIsLocked BaselineSinceStep CalibratesInTime
PROPERTIES ClockForward
CHECK_DEADLOCK FALSE
