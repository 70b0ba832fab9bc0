--------------------------- MODULE MCPersistConn ---------------------------
(* TLC instances of PersistConn.                                           *)
EXTENDS PersistConn

CONSTANTS r1, r2
=============================================================================
