SPECIFICATION DemoSpec
CONSTANTS
  Masters = {m1, m2}
  Foreign = {m1, m2, "worse", "none"}
  ReceiptTicks = 2
  CycleTicks = 1
  MaxTimers = 10
  MaxPackets = 2
  MaxLag = 1
  SocketPackets = 4
  MaxRxPackets = 4
  QueueLength = 8
  MaxRequests = 5
  MaxGeneral = 5
  MaxEvents = 10
  AddrLen = 1
  MaxFrameSize = 7
  Mac = Mac
  Peer = Peer
  Lengths = {4, 5, 6, 7, 10}
  Backlog = 2
  NoFrame = NoFrame
  Word = 16
  MicrosPerTick = 3
  CyclesPerTick = 5
  Nanos = 7
  Hz = 3
  MaxGap = 3
  MaxTicks = 40
  MaxReadings = 40
INVARIANTS
  InstantTracksTime CyclesTrackTime
  RoleSettled
  RequestsReachPort SendsFit
  FramesIntact
PROPERTIES DecisionsHandled
CHECK_DEADLOCK FALSE
