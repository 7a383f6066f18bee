SPECIFICATION PathSpec
CONSTANTS
  Requests = {}
  Master = m1
  None = None
  SeqIds = 2
  MaxSync = 2
  MaxAnnounce = 1
  MaxReq = 1
  MaxAnswers = 1
  MaxEntries = 2
  MaxHeard = 2
INVARIANTS PathPairsAlways
CHECK_DEADLOCK FALSE
