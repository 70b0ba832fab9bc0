SPECIFICATION Spec
CHECK_DEADLOCK FALSE
INVARIANT RoutesRight
INVARIANT FramesWhole
INVARIANT MessagesFramed
INVARIANT CallsTidy
