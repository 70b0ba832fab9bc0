--------------------------- MODULE MCH2ServerConn ---------------------------
(* Scenarios of H2ServerConn for TLC: what the client sends after its SETTINGS, *)
(* and what the handlers and the timers may do meanwhile.                       *)
EXTENDS H2ServerConn

hdr(i, end) ==
  [kind |-> "headers", id |-> i, end |-> end, good |-> TRUE, decl |-> -1, expect |-> FALSE]
bad(i) == [hdr(i, FALSE) EXCEPT !.good = FALSE]
post(i, n) == [hdr(i, FALSE) EXCEPT !.decl = n, !.expect = TRUE]
data(i, n, end) == [kind |-> "data", id |-> i, n |-> n, end |-> end]
on(kind, i) == [kind |-> kind, id |-> i]
window(i, n) == [kind |-> "windowUpdate", id |-> i, n |-> n]
settings(win) == [kind |-> "settings", id |-> 0, ack |-> FALSE, win |-> win, push |-> win < 3]
ack == [settings(1) EXCEPT !.ack = TRUE]

scenario(script, things) == [script |-> <<settings(1)>> \o script, may |-> things, slow |-> 1]
quick(script) == [scenario(script, {}) EXCEPT !.slow = 0]

\* A request with a body, and everything that may happen to it.
Bodies ==
  {scenario(<<hdr(1, FALSE), data(1, 2, FALSE), f>>, m) :
     f \in {on("rst", 1)}, m \in {{"read", "write", "writeTimeout"}, {"closeBody", "readTimeout", "trailers"}}}
  \cup {scenario(<<hdr(1, FALSE), data(1, 2, TRUE)>>, {"read", "write", "trailers"})}

\* More requests than places for handlers: some are reset before they start.
Crowds ==
  {scenario(<<hdr(1, TRUE), on("rst", 1), hdr(3, TRUE), f>>, {"write"}) : f \in {on("rst", 3), window(3, 1)}}
  \cup {quick(<<hdr(1, TRUE), hdr(3, TRUE)>>),
        quick(<<hdr(1, TRUE), on("rst", 1), hdr(3, TRUE), on("rst", 3), hdr(5, TRUE), hdr(7, TRUE)>>)}

Pushing == {scenario(<<hdr(1, TRUE)>> \o fs, {"push"}) : fs \in {<<on("rst", 1)>>, <<settings(3)>>, <<on("goaway", 0)>>}}
           \cup {scenario(<<hdr(1, TRUE), hdr(3, TRUE)>>, {"push"})}
Panics == {scenario(<<hdr(1, TRUE), on("rst", 1)>>, {"write", "panic"})}

\* The connection goes away, for one reason or another.
Leaving ==
  {scenario(<<hdr(1, TRUE), data(3, 1, TRUE)>>, {"write", "writeTimeout", "shutdown"}),
   scenario(<<hdr(1, TRUE), hdr(3, TRUE)>>, {"write", "writeTimeout", "noKeepAlives"}),
   scenario(<<hdr(1, FALSE), bad(1), settings(1)>>, {"writeTimeout"}),
   scenario(<<>>, {"idleTimeout", "silence"})}

\* Windows at their limits, trailers, and frames that break the rules.
Rules ==
  {quick(<<hdr(1, FALSE)>> \o fs) : fs \in
     {<<window(1, 3), settings(3)>>, <<window(1, 4), window(0, 1)>>, <<window(0, 4)>>, <<hdr(1, FALSE)>>,
      <<hdr(1, TRUE), hdr(1, TRUE), data(1, 1, TRUE)>>, <<bad(1), hdr(1, TRUE)>>,
      <<data(1, 3, FALSE)>>, <<data(1, 0, TRUE)>>, <<on("priority", 1), data(1, 1, FALSE)>>,
      <<on("pushPromise", 1), data(1, 3, FALSE), data(1, 3, FALSE)>>, <<hdr(2, TRUE)>>, <<on("tooLarge", 0)>>,
      <<on("ping", 0), on("ping", 0), on("ping", 0)>>, <<ack, ack>>, <<on("eof", 0)>>}}
  \cup {quick(<<f>>) : f \in {data(1, 1, TRUE), on("rst", 1), window(1, 1), bad(1)}}
  \cup {scenario(<<post(1, 1), data(1, 1, FALSE), data(1, 1, FALSE)>>, {"read"}),
        scenario(<<hdr(1, FALSE), data(1, 1, FALSE), on("eof", 0)>>, {"read"}),
        quick(<<bad(1), data(1, 1, FALSE), hdr(1, TRUE)>>),
        [quick(<<>>) EXCEPT !.script = <<on("ping", 0), settings(1)>>]}

ServerScenarios == Bodies \cup Crowds \cup Pushing \cup Panics \cup Leaving \cup Rules
=============================================================================
