SPECIFICATION MCSpec
CONSTANTS
  NanosPerSecond = 3
  MaxSeconds = 3
  I64Max = 9
  StepThreshold <- MCThreshold
  NoTime = NoTime
  None = None
  MessageByte = 32
INVARIANTS
  OffsetExact StepExact ReadingExact
  RoundTrip OwnOrRefused
