SPECIFICATION Spec
CONSTANTS
  r1 = r1
  r2 = r2
  NoReq = NoReq
  Reqs = {r1, r2}
  HasBody = {r2}
  HasGetBody = {r2}
  Idempotent = {r1}
  Expects = {}
  HeaderTimeout = FALSE
  HasCancel = FALSE
  EarlyCancel = TRUE
  Answers = {"empty", "close", "body", "switch"}
CHECK_DEADLOCK FALSE
INVARIANT ResponsesMatch
INVARIANT SentWhole
INVARIANT RetrySafe
INVARIANT BodyClosedOnError
INVARIANT ConnHandedOver
