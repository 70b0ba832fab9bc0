SPECIFICATION Spec
CONSTANTS
  w1 = w1
  w2 = w2
  w3 = w3
  k1 = k1
  k2 = k2
  NoConn = NoConn
  Wants = {w1, w2, w3}
  Keys = {k1, k2}
  key <- TwoHosts
  Cancelable = {w1, w2}
  Protos = {"h1"}
  MaxConnsPerHost = 1
  MaxIdleConnsPerHost = 0
  MaxIdleConns = 1
  DisableKeepAlives = FALSE
  IdleConnTimeout = TRUE
SYMMETRY HostSymmetry
INVARIANT PoolExact
INVARIANT ConnsCounted
PROPERTY NotInterrupted
