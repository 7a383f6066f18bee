SPECIFICATION PathSpec
CONSTANTS
  Requests = {}
  Master = m1
  None = None
  SeqIds = 2
  MaxSync = 2
  MaxAnnounce = 1
  MaxReq = 2
  MaxAnswers = 1
  MaxEntries = 4
  MaxHeard = 2
INVARIANTS CyclesContinue FollowsItsSync PathPairs
PROPERTIES SyncFollowedUp
CHECK_DEADLOCK FALSE
