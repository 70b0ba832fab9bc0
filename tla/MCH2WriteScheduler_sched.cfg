SPECIFICATION Spec
CONSTANTS
  NoFrame = NoFrame
  Streams = {1, 2, 3}
  MaxFrameSize = 1
  Schedulers = {"rr", "random", "priority"}
  InitialWindow = 3
  Frames <- AllFrames
  Updates <- SomeUpdates
  Priorities <- AllPriorities
  MaxClosedNodesInTree = 3
  MaxIdleNodesInTree = 3
  Throttle = TRUE
  ThrottleStep = 1
  MaxCalls = 3
CHECK_DEADLOCK FALSE
INVARIANT NoStreamLost
PROPERTY ImplementsQueue
