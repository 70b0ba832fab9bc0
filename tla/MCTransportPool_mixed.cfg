SPECIFICATION FairSpec
CONSTANTS
  w1 = w1
  w2 = w2
  w3 = w3
  k1 = k1
  k2 = k2
  NoConn = NoConn
  Wants = {w1, w2}
  Keys = {k1}
  key <- OneHost
  Cancelable = {w1, w2}
  Protos = {"h1", "h2"}
  MaxConnsPerHost = 1
  MaxIdleConnsPerHost = 2
  MaxIdleConns = 0
  DisableKeepAlives = FALSE
  IdleConnTimeout = FALSE
INVARIANT ConnsAccounted
INVARIANT NoWaiterPassedOver
INVARIANT NoPermissionLost
PROPERTY Answered
