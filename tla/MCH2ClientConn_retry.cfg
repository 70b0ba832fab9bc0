SPECIFICATION Spec
CONSTANTS
  Reqs = {"p", "q"}
  Conns = {1, 2}
  Scenarios <- RetryScenarios
  MaxRetry = 1
  InitialStreams = 2
  DefaultStreams = 2
  PeerWindow = 2
  StreamFlow = 3
  ConnFlow = 4
  MinRefresh = 2
  FrameSize = 2
  MaxWindow = 5
  MaxId = 7
  Max1xx = 1
CHECK_DEADLOCK FALSE
INVARIANT BodyUnused
