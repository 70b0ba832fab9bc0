SPECIFICATION FairSpec
CONSTANTS
  c1 = c1
  l1 = l1
  NoConn = NoConn
  Conns = {c1}
  Listeners = {l1}
  Closers = {"Shutdown", "Close", "SetKeepAlivesEnabled"}
  HTTP2 = TRUE
CHECK_DEADLOCK FALSE
INVARIANT ServerDown
INVARIANT OpenIsTracked
PROPERTY HijackedLeftAlone
PROPERTY ConnStateOrder
 
