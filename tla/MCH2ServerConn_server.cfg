SPECIFICATION FairSpec
CONSTANTS
  ClientIds = {1, 3, 5, 7}
  PushIds = {2}
  Scenarios <- ServerScenarios
  AdvMaxStreams = 1
  ClientMaxStreams = 1
  MaxQueuedControlFrames = 2
  StreamSendWindow = 1
  ConnSendWindow = 2
  StreamRecvWindow = 2
  ConnRecvWindow = 3
  MinRefresh = 2
  ChunkSize = 1
  MaxUnstarted = 0
  MaxWindow = 4
CHECK_DEADLOCK FALSE
INVARIANT CountersExact
INVARIANT NoWaiterStranded
INVARIANT CreditKept
INVARIANT WireLegal
PROPERTY GoAwayDrains
