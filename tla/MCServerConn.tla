---------------------------- MODULE MCServerConn ----------------------------
(* Small instances of ServerConn for TLC. *)
EXTENDS ServerConn

\* Three requests, one of which has a body.
ThreeRequests == <<"first", "rest", "first", "rest", "body", "first", "rest">>
=============================================================================
