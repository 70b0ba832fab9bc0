SPECIFICATION FairSpec
CONSTANTS
  Reqs = {"p", "q"}
  Conns = {1, 2}
  Scenarios <- ClientScenarios
  MaxRetry = 1
  InitialStreams = 2
  DefaultStreams = 2
  PeerWindow = 2
  StreamFlow = 3
  ConnFlow = 4
  MinRefresh = 2
  FrameSize = 2
  MaxWindow = 5
  MaxId = 7
  Max1xx = 1
CHECK_DEADLOCK FALSE
INVARIANT WireLegal
INVARIANT RetrySafe
INVARIANT CreditKept
INVARIANT ResponsesWhole
PROPERTY RequestsLetGo
