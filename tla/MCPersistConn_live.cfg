SPECIFICATION FairSpec
CONSTANTS
  r1 = r1
  r2 = r2
  NoReq = NoReq
  Reqs = {r1, r2}
  HasBody = {}
  HasGetBody = {}
  Idempotent = {}
  Expects = {}
  HeaderTimeout = FALSE
  HasCancel = FALSE
  EarlyCancel = FALSE
  Answers = {"empty", "body"}
CHECK_DEADLOCK FALSE
PROPERTY RoundTripEnds
PROPERTY LoopsAndReadersEnd
