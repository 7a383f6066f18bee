SPECIFICATION TokioFairSpec
CONSTANTS
  Handles = {h1, h2}
  Messages = {a, b}
  None = None
  MaxInbox = 2
  MaxTasks = 4
INVARIANTS NoOrphanTask
PROPERTIES KeepsPromise
