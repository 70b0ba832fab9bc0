--------------------------- MODULE MCH2ClientConn ---------------------------
(* Scenarios of H2ClientConn for TLC: two requests, what the servers of the *)
(* connections send, and what else may happen.                              *)
EXTENDS H2ClientConn

get == [body |-> 0, decl |-> 0, getBody |-> FALSE, close |-> FALSE, head |-> FALSE,
        expect |-> FALSE, trailer |-> FALSE, bad |-> "no"]
post(n) == [get EXCEPT !.body = n, !.decl = n]
again(d) == [d EXCEPT !.getBody = TRUE]
stream(n) == [post(n) EXCEPT !.decl = -1]

frameOf(kind, i) ==
  [kind |-> kind, id |-> i, n |-> 0, pad |-> 0, end |-> FALSE, early |-> FALSE, status |-> "ok", decl |-> -1,
   last |-> 0, code |-> "peerReset", ack |-> FALSE, max |-> -1, win |-> -1]
settings == frameOf("settings", 0)
limit(n) == [settings EXCEPT !.max = n]
initWin(n) == [settings EXCEPT !.win = n]
hdr(i, end) == [frameOf("headers", i) EXCEPT !.end = end]
status(i, what) == [hdr(i, FALSE) EXCEPT !.status = what]
data(i, n, end) == [frameOf("data", i) EXCEPT !.n = n, !.end = end]
rst(i, code) == [frameOf("rst", i) EXCEPT !.code = code]
goaway(i) == [frameOf("goaway", 0) EXCEPT !.last = i]
window(i, n) == [frameOf("window", i) EXCEPT !.n = n]
eof == frameOf("eof", 0)
early(f) == [f EXCEPT !.early = TRUE]

answers == <<settings, hdr(1, TRUE)>>
one(d, script, things) ==
  [reqs |-> [r \in {"p"} |-> d], may |-> things,
   scripts |-> [c \in Conns |-> IF c = 1 THEN <<settings>> \o script ELSE answers]]
two(d, e, script, things) ==
  [reqs |-> [r \in Reqs |-> IF r = "p" THEN d ELSE e], may |-> things,
   scripts |-> [c \in Conns |-> IF c = 1 THEN script ELSE answers]]

\* Bodies: full duplex, windows, expectations, lengths that are wrong.
Bodies ==
  {one(stream(3), <<window(1, 1), hdr(1, FALSE), data(1, 2, TRUE)>>, {"cancel"}),
   one(post(3), <<initWin(3), status(1, "redirect"), data(1, 1, TRUE)>>, {}),
   one([post(1) EXCEPT !.expect = TRUE], <<status(1, "info"), status(1, "info")>>, {}),
   one([stream(1) EXCEPT !.trailer = TRUE], <<hdr(1, TRUE)>>, {"cancel"}),
   one([post(2) EXCEPT !.decl = 1], <<>>, {}),
   one([stream(1) EXCEPT !.trailer = TRUE, !.bad = "trailer"], <<hdr(1, TRUE)>>, {}),
   one(get, <<hdr(1, FALSE), data(1, 1, TRUE)>>, {"headerTimeout"}),
   one(again(post(1)), <<>>, {"bodyFails", "headerTimeout"})}
  \cup {one(get, <<[hdr(1, FALSE) EXCEPT !.decl = n], data(1, 2, FALSE), data(1, 1, TRUE)>>, {}) : n \in {1, 4}}
  \cup {one(get, <<hdr(1, FALSE), [data(1, 1, FALSE) EXCEPT !.pad = 1], f, data(1, 1, FALSE), eof>>, {}) :
          f \in {rst(1, "peerReset"), data(1, 2, TRUE), hdr(1, TRUE)}}

\* Retries: refused streams, GOAWAY, the loss of the connection.
Retries ==
  {one(d, <<f, hdr(1, FALSE), eof>>, {}) : d \in {get, again(post(1)), post(1)},
     f \in {rst(1, "refused"), rst(1, "protoPeer"), goaway(0), goaway(1)}}
  \cup {one(get, <<f>>, {"cancel"}) : f \in {rst(1, "refused"), goaway(0)}}
  \cup {one(get, <<rst(1, "refused"), rst(3, "refused"), hdr(5, TRUE)>>, {"cancel"})}

\* Two requests at the limit of the connection's streams, and at its end.
Crowds ==
  {two(get, get, <<limit(1), hdr(1, TRUE), hdr(3, TRUE)>>, {"strict"})}
  \cup {two(get, get, <<settings, hdr(1, TRUE)>>, {"closeIdle"}),
        two(get, get, <<settings, goaway(1)>>, {}),
        two([get EXCEPT !.close = TRUE], get, <<settings, hdr(1, TRUE)>>, {"noKeepAlives"}),
        two(get, [get EXCEPT !.bad = "encode"], <<settings, hdr(1, TRUE)>>, {"noDial", "addConn"}),
        one(get, <<limit(0)>>, {"strict", "cancel"}),
        two([get EXCEPT !.bad = "conn"], [get EXCEPT !.bad = "conn"], <<>>, {"dialFails", "cancel"})}

\* Closing, shutting down, health checks and idle connections.
Leaving ==
  {one(d, <<hdr(1, FALSE), data(1, 1, TRUE), [frameOf("ping", 0) EXCEPT !.ack = TRUE]>>, m) :
     d \in {get, post(1)}, m \in {{"close"}, {"shutdown"}, {"ping"}, {"netDown"}}}
  \cup {two(get, get, <<settings, hdr(1, TRUE)>>, {"idleTimeout", "suspend", "noDial", "addConn"})}

\* Frames that break the rules.
Rules ==
  {one(get, fs, {}) : fs \in
     {<<data(1, 1, FALSE)>>, <<hdr(1, TRUE), hdr(1, TRUE)>>, <<hdr(1, FALSE), data(1, 4, TRUE)>>,
      <<status(1, "malformed")>>, <<[status(1, "info") EXCEPT !.end = TRUE]>>, <<hdr(1, FALSE), hdr(1, FALSE)>>,
      <<early(data(3, 1, TRUE))>>, <<window(0, 4)>>, <<window(1, 3), window(1, 1)>>, <<initWin(6)>>,
      <<[settings EXCEPT !.ack = TRUE], [settings EXCEPT !.ack = TRUE]>>, <<frameOf("push", 0)>>,
      <<frameOf("ping", 0), frameOf("unknown", 0), frameOf("bad", 1)>>, <<[hdr(1, TRUE) EXCEPT !.decl = 1]>>}}
  \cup {one([get EXCEPT !.head = TRUE], <<hdr(1, FALSE), data(1, 1, TRUE)>>, {})}
  \cup {[one(get, <<>>, {}) EXCEPT !.scripts[1] = fs] :
          fs \in {<<frameOf("ping", 0)>>, <<frameOf("bad", 1), settings>>}}

ClientScenarios == Bodies \cup Retries \cup Crowds \cup Leaving \cup Rules

\* A cancelled upload whose response has been returned already.
CancelScenarios == {one(stream(3), <<hdr(1, FALSE)>>, {"cancel"})}

\* A request reserved on a connection that GOAWAY makes unusable.
RetryScenarios == {two(post(1), get, <<settings, goaway(1)>>, {})}
=============================================================================
