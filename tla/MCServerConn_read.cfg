SPECIFICATION FairSpec
CONSTANTS
  Stream <- ThreeRequests
CHECK_DEADLOCK FALSE
INVARIANT NoReadPanic
INVARIANT StreamIntact
INVARIANT AbortsForgotten
PROPERTY BackgroundReadAnswers
