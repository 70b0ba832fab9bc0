---------------------------- MODULE H2WriteQueue ----------------------------
(***************************************************************************)
(* What http2WriteScheduler promises to the serve loop of an HTTP/2        *)
(* connection (the comments of the interface), with no scheduling policy:  *)
(* a queue per stream, and queue 0 for the frames of the connection.       *)
(* Frames of one stream leave in the order they came, DATA may leave in    *)
(* pieces as flow control allows, only CloseStream drops a frame, and Pop  *)
(* reports that there is nothing to write only when nothing can be.        *)
(***************************************************************************)
EXTENDS Integers, Sequences

CONSTANTS
  Streams,       \* stream identifiers the scheduler may be asked about
  MaxFrameSize,  \* the peer's SETTINGS_MAX_FRAME_SIZE
  NoFrame        \* the answer of a Pop that found nothing

VARIABLES
  pending,  \* stream -> frames to write, oldest first; 0: the connection's
  flow,     \* stream -> bytes of DATA the peer allows on it
  connFlow, \* bytes of DATA the peer allows on the connection
  popped    \* what the last Pop returned

Ids == Streams \cup {0}

\* Bytes that one frame of stream s may carry now.
Allowed(s) ==
  CHOOSE a \in {flow[s], connFlow, MaxFrameSize} :
    \A b \in {flow[s], connFlow, MaxFrameSize} : a <= b

Sendable(s) ==
  /\ pending[s] # <<>>
  /\ Head(pending[s]).n > 0 => Allowed(s) > 0

Init ==
  /\ pending = [s \in Ids |-> <<>>]
  /\ flow \in [Streams -> Int]
  /\ connFlow \in Int
  /\ popped = NoFrame

Push ==
  \E s \in Ids :
    /\ Len(pending'[s]) = Len(pending[s]) + 1
    /\ pending' = [pending EXCEPT ![s] = Append(@, pending'[s][Len(@) + 1])]
    /\ UNCHANGED <<flow, connFlow, popped>>

\* The frame leaves whole, or a piece of it does.
Pop ==
  \E s \in Ids :
    /\ Sendable(s)
    /\ popped' # NoFrame
    /\ LET f == Head(pending[s])
           k == popped'.n
       IN /\ \/ /\ popped' = f
                /\ f.n = 0 \/ k <= Allowed(s)
                /\ pending' = [pending EXCEPT ![s] = Tail(@)]
             \/ /\ k < f.n /\ k \in 1..Allowed(s)
                /\ popped' = [f EXCEPT !.n = k, !.end = FALSE]
                /\ pending' = [pending EXCEPT ![s][1].n = @ - k]
          /\ flow' = [t \in Streams |-> IF t = s THEN flow[t] - k ELSE flow[t]]
          /\ connFlow' = connFlow - k

PopNothing ==
  /\ \A s \in Ids : ~Sendable(s)
  /\ popped' = NoFrame
  /\ UNCHANGED <<pending, flow, connFlow>>

CloseStream ==
  \E s \in Streams :
    /\ pending' = [pending EXCEPT ![s] = <<>>]
    /\ UNCHANGED <<flow, connFlow, popped>>

\* WINDOW_UPDATE and SETTINGS_INITIAL_WINDOW_SIZE, between two Pops.
Window ==
  UNCHANGED <<pending, popped>>

Next == Push \/ Pop \/ PopNothing \/ CloseStream \/ Window

vars == <<pending, flow, connFlow, popped>>

Spec == Init /\ [][Next]_vars
=============================================================================
