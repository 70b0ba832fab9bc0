SPECIFICATION Spec
CONSTANTS
  r1 = r1
  r2 = r2
  NoReq = NoReq
  Reqs = {r2}
  HasBody = {r2}
  HasGetBody = {r2}
  Idempotent = {}
  Expects = {r2}
  HeaderTimeout = TRUE
  HasCancel = TRUE
  EarlyCancel = FALSE
  Answers = {"empty", "close", "body", "switch"}
CHECK_DEADLOCK FALSE
INVARIANT WriterQuiet
