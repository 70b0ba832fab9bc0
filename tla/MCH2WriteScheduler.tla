------------------------- MODULE MCH2WriteScheduler -------------------------
(* Instances of H2WriteScheduler for TLC: two client streams and one that a  *)
(* client stream pushes, DATA longer than one frame.                         *)
EXTENDS H2WriteScheduler

AllFrames ==
  [stream : {0}, n : {0}, end : {FALSE}]
    \cup [stream : Streams, n : {3}, end : {TRUE}]

\* The connection's window grows, a stream's shrinks.
SomeUpdates == {<<0, 1>>, <<1, -1>>}

AllPriorities == [dep : Ids, weight : {200}, exclusive : BOOLEAN]
=============================================================================
