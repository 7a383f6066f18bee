SPECIFICATION FairSpec
CONSTANTS
  None = None
  Strategies = {"PI"}
  Scale = 20
  Error = 2
  Offsets = {0, 3}
  Noise = {0}
  FirstThreshold = 20
  Threshold = 25
  DriftMin <- MCDriftMin
  DriftMax = 4
  MinDelta = 35
  Kp = 3
  Ki = 1
  Gain = 10
  Repeats = 0
  MaxTicks = 4
PROPERTIES CalibrationHelps
CHECK_DEADLOCK FALSE
