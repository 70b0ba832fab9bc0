---------------------------- MODULE MCAlgorithms ----------------------------
(* TLC instances of the modules that are operators on values: input is what *)
(* they are applied to, one kind of input for each of them.                 *)
EXTENDS Integers, Sequences, SequencesExt
VARIABLE input

(* ServeMux *)
Mux == INSTANCE ServeMux

tok(t, s) == [t |-> t, s |-> s]
heads == {tok("lit", "a"), tok("lit", "b"), tok("wild", "x")}
ends == {tok("lit", "a"), tok("wild", "a"), tok("multi", "z"), tok("dollar", ""), tok("lit", "")}
toks == {<<e>> : e \in ends} \cup {<<h, e>> : h \in heads, e \in ends}
pat(m, h, t) == [method |-> m, host |-> h, toks |-> t]
plain == {pat("", "", t) : t \in toks}
short == {<<tok("lit", "a")>>, <<tok("wild", "x")>>, <<tok("lit", "a"), tok("lit", "")>>, <<tok("lit", "a"), tok("dollar", "")>>}
odd == {pat("GET", "", <<tok("bad", "")>>), pat("bad", "", <<tok("lit", "a")>>), pat("", "bad", <<tok("lit", "a")>>), pat("GET", "h", <<>>), pat("GET", "", <<tok("lit", ""), tok("lit", "a")>>),
        pat("", "", <<tok("wild", "x"), tok("wild", "x")>>), pat("", "", <<tok("multi", "x"), tok("lit", "a")>>)}
varied == {pat(m, h, t) : m \in {"", "GET", "HEAD"}, h \in {"", "h"}, t \in short} \cup odd

mux(ds, n) == [kind |-> "mux", ds |-> ds, left |-> n, ps |-> {}]
Muxes == {mux(plain, 3), mux(varied, 2)}
Handle(d) == input' = [input EXCEPT !.ps = Mux!register(@, d), !.left = @ - 1]

Methods == {"GET", "HEAD", "POST"}
Paths ==
  LET E == {"a", "b", "c"}
      S == {<<e>> : e \in E} \cup {<<e, f>> : e \in E, f \in E} \cup {<<e, f, "a">> : e \in E, f \in E}
  IN S \cup {Append(s, "") : s \in S} \cup {<<"">>}
Asked == IF input.ds = plain THEN Paths ELSE {x \in Paths : Len(x) <= 2 \/ x[3] = ""}
Unclean == {<<"a", "..", "b">>, <<"", "a">>, <<"a", ".", "">>}
Requests(paths) == {[method |-> m, host |-> h, urlHost |-> h, path |-> x] :
             m \in IF input.ds = plain THEN {"GET"} ELSE Methods,
             h \in IF input.ds = plain THEN {""} ELSE {"", "h"}, x \in paths}
\* A pattern is refused exactly if it conflicts with one that is registered,
\* and the example paths of the message are what the message says of them.
MuxConflicts == input.kind = "mux" => \A d \in input.ds : Mux!ConflictClaim(input.ps, d, Methods, Paths)
\* The most specific pattern answers, with the right values; redirections end.
MuxAnswers == input.kind = "mux" =>
  /\ \A r \in Requests(Asked) : Mux!PrecedenceClaim(input.ps, r, Methods, Paths)
  /\ \A r \in Requests(Asked \cup Unclean) : Mux!AnswerClaim(input.ps, r, Methods)

\* What registration promises and what matching relies on and gives.
RoutesRight == MuxConflicts /\ MuxAnswers

\* Patterns with the literal segment "*", which the other inputs leave out.
starred == {pat("", "", <<tok("lit", "*")>> \o t) : t \in {<<>>, <<tok("lit", "b")>>, <<tok("dollar", "")>>}}
           \cup {pat("", "", <<tok("multi", "z")>>), pat("", "", <<tok("wild", "x"), tok("lit", "b")>>)}

\* A literal segment, "*" too, matches itself and nothing else: the pattern that
\* matchPath finds, by the key "*" for the rest of a path, matches the path.
LiteralsMatch == \A r \in Requests(Paths) : Mux!LiteralClaim(input.ps, r)

(* H2Framer: bytes with 8 values, fragments of at most 2 bytes. *)
F == INSTANCE H2Framer WITH Base <- 8, MaxFrameSize <- 2
Ids == {0, 1, F!High - 1, F!High, F!High + 1}
Nums == {0, 1, F!High - 1, F!High, 2 * F!High - 1}
Data == {<<>>, <<3>>, <<1, 7>>}
Prios == {[dep |-> d, exclusive |-> e, weight |-> w] : d \in Ids, e \in BOOLEAN, w \in {0, 7}}
Calls ==
  {[op |-> "DATA", id |-> i, end |-> e, data |-> d, pad |-> p, hasPad |-> h] : i \in Ids, e \in BOOLEAN, d \in Data,
     p \in {<<>>, <<0, 0>>, <<1>>, F!zeros(8)}, h \in {TRUE}}
  \cup {[op |-> "DATA", id |-> i, end |-> e, data |-> d, pad |-> <<>>, hasPad |-> FALSE] : i \in Ids, e \in BOOLEAN, d \in Data}
  \cup {[op |-> "HEADERS", id |-> i, end |-> e, endHeaders |-> h, frag |-> d, pad |-> n, priority |-> q] :
           i \in Ids, e \in BOOLEAN, h \in BOOLEAN, d \in Data, n \in {0, 1, 7}, q \in Prios}
  \cup {[op |-> "PRIORITY", id |-> i, priority |-> q] : i \in Ids, q \in Prios}
  \cup {[op |-> "RST_STREAM", id |-> i, code |-> n] : i \in Ids, n \in Nums}
  \cup {[op |-> "SETTINGS", ack |-> FALSE, settings |-> s] :
           s \in {<<>>} \cup {<<[ID |-> i, Val |-> v], [ID |-> 4, Val |-> w]>> : i \in {1, 63}, v \in Nums, w \in {0, F!High - 1}}}
  \cup {[op |-> "SETTINGS", ack |-> TRUE, settings |-> <<>>]}
  \cup {[op |-> "PUSH_PROMISE", id |-> i, promise |-> j, endHeaders |-> h, frag |-> d, pad |-> n] :
           i \in Ids, j \in Ids, h \in BOOLEAN, d \in Data, n \in {0, 7}}
  \cup {[op |-> "PING", ack |-> a, data |-> [k \in 1 .. 8 |-> k % 8]] : a \in BOOLEAN}
  \cup {[op |-> "GOAWAY", last |-> l, code |-> n, debug |-> d] : l \in {0, 1, F!High - 1}, n \in Nums, d \in Data}
  \cup {[op |-> "WINDOW_UPDATE", id |-> i, inc |-> n] : i \in {0, 1, F!High - 1}, n \in Nums}
  \cup {[op |-> "CONTINUATION", id |-> i, endHeaders |-> h, frag |-> d] : i \in Ids, h \in BOOLEAN, d \in Data}
raw(type, id, flags, p) == [type |-> type, stream |-> id, flags |-> flags, p |-> p]
Frags == {<<>>, <<2>>, <<0, 0>>, <<2, 4>>, <<4, 4>>, <<5>>, <<4, 6>>, <<7>>}
Raws == {raw("HEADERS", 1, f, p) : f \in SUBSET {F!EndHeaders}, p \in Frags}
  \cup {raw("CONTINUATION", i, f, p) : i \in {1, 3}, f \in SUBSET {F!EndHeaders}, p \in Frags}
  \cup {raw("DATA", 3, {}, <<1>>), raw("WINDOW_UPDATE", 3, {}, F!zeros(4)), raw("HEADERS", 3, {F!Padded}, <<1>>), raw("NEW", 0, {}, <<>>)}
MaxReads == 3
HeaderLimit == 4
Receive(f) == input' = [input EXCEPT !.raws = Append(@, f), !.fr = F!ReadFrame(@, f, 4, HeaderLimit)]
Fields == {s \o t : s \in {<<>>, <<2>>}, t \in UNION {[1 .. n -> 4 .. 6] : n \in 0 .. 5}}

\* Writer and reader of frames agree, for every frame, and for every header
\* block over any number of CONTINUATION frames.
FramesRoundTrip ==
  /\ input.kind = "call" => F!WriteClaim(input.c)
  /\ input.kind = "block" => F!BlockClaim(1, input.end, input.fields, HeaderLimit)
\* Header blocks are delivered whole and valid, and the decoder keeps in step
\* with the peer's encoder, whatever the order of the frames.
HeaderBlocksWhole == input.kind = "frames" => F!ReadClaim(input.fr, input.raws, HeaderLimit)

\* Frames and header blocks arrive as they were sent.
FramesWhole == FramesRoundTrip /\ HeaderBlocksWhole

(* Transfer: at most 2 bytes are read after the handler. *)
T == INSTANCE Transfer WITH MaxPostHandlerReadBytes <- 2, MaxExcess <- 16
Splits == {<<>>, <<0>>, <<1>>, <<2>>, <<1, 1>>, <<2, 1>>, <<1, 0, 2>>, <<3>>}
ClientRequests ==
  [method : {"GET", "POST"}, body : -1 .. 3, length : -1 .. 3, te : {<<>>, <<"chunked">>, <<"identity">>},
   close : BOOLEAN, trailer : {{}, {"ok"}, {"bad"}}]
ServerRequests == {q \in [method : {"GET", "HEAD"}, minor : {0, 1}, wants10KeepAlive : BOOLEAN, wantsClose : BOOLEAN, expect : BOOLEAN] :
                   IF q.minor = 0 THEN ~q.wantsClose /\ ~q.expect ELSE ~q.wants10KeepAlive}
NumbersOrNot == 0 .. 2 \cup {T!NotANumber}
Heads ==
  {h \in [response : BOOLEAN, status : {200, 204}, method : {"GET", "HEAD"}, minor : {0, 1}, conn : {{}, {"close"}}, trailer : {{}},
           te : {<<>>, <<"chunked">>, <<"gzip">>, <<"chunked", "chunked">>}, cl : UNION {[1 .. n -> NumbersOrNot] : n \in 0 .. 2}] :
   ~h.response => h.status = 200}
Responses == [status : {200, 204}, hcl : {-1, 1, 3}, te : {"", "identity", "chunked"}, conn : {"", "close", "keep-alive"},
              trailers : BOOLEAN, writes : {<<>>, <<1>>, <<2, 1>>}, early : BOOLEAN, fullDuplex : BOOLEAN]
Bodies == {[kind |-> "none", n |-> 0]} \cup [kind : {"limit"}, n : 1 .. 3] \cup [kind : {"chunked"}, n : {0, 2, 3}]
Replies(q) == {w \in Responses : w.conn = "keep-alive" => q.minor = 0}
Reply(w) == input' = [kind |-> "serve", q |-> input.q, w |-> w]

\* The reader of a request finds its body and the next message where the
\* writer put them.
RequestsFramed == input.kind = "request" =>
  \A ns \in {x \in Splits : T!total(x) = T!Max({0, input.q.body})}, slow \in BOOLEAN : T!RequestClaim(input.q, slow, ns)
\* After a reply that keeps the connection both ends are at the next message,
\* whatever the handler read and wrote.
ServedInStep == input.kind = "serve" =>
  \A t \in Bodies, k \in 0 .. 2, buffered, closes, keepAlives \in BOOLEAN :
     k <= t.n + 1 => T!ServeClaim(input.q, input.w, t, t.n, k, buffered, closes, keepAlives)

\* Lengths and codings that a peer may have written do not leave in doubt where
\* a body ends.
HeadsUnambiguous == input.kind = "head" => T!HeadClaim(input.h)

\* HTTP/1 messages begin and end where both ends think, in both directions.
MessagesFramed == RequestsFramed /\ ServedInStep /\ HeadsUnambiguous

(* Client: a limit of 2 redirections. *)
C == INSTANCE Client WITH MaxRedirects <- 2
Dos == {d \in [method : {"GET", "POST", "HEAD"}, body : {"none", "once", "again"}, timeout : BOOLEAN, cancel : BOOLEAN,
               known : BOOLEAN, sooner : BOOLEAN, check : BOOLEAN, unsendable : BOOLEAN] :
          (d.method # "POST" => d.body = "none") /\ (~d.timeout => d.known) /\ (d.unsendable => ~d.check /\ ~d.sooner)}
MaxRequests == 3
Do(s) == input' = [kind |-> "do", s |-> s]

\* Do closes what it must, keeps what it returns, and tells why it failed.
CallsTidy == input.kind = "do" => C!CallClaim(input.s)

Init == input \in Muxes \cup {[kind |-> "call", c |-> c] : c \in Calls}
          \cup {[kind |-> "block", end |-> e, fields |-> fs] : e \in BOOLEAN, fs \in Fields}
          \cup {[kind |-> "request", q |-> q] : q \in ClientRequests}
          \cup {[kind |-> "head", h |-> h] : h \in Heads}
          \cup {[kind |-> "asked", q |-> q] : q \in ServerRequests}
          \cup {[kind |-> "do", s |-> C!NewCall(d)] : d \in Dos}
          \cup {[kind |-> "frames", fr |-> F!NewFramer, raws |-> <<>>]}
Next == \/ input.kind = "mux" /\ input.left > 0 /\ \E d \in input.ds : Handle(d)
        \/ input.kind = "frames" /\ ~input.fr.dead /\ Len(input.raws) < MaxReads /\ \E f \in Raws : Receive(f)
        \/ input.kind = "do" /\ \E s \in C!Steps(input.s) : s.reqs <= MaxRequests /\ Do(s)
        \/ input.kind = "asked" /\ \E w \in Replies(input.q) : Reply(w)
Spec == Init /\ [][Next]_input

\* The same multiplexer with the patterns that hold a literal "*".
StarSpec == input = mux(starred, 2) /\ [][\E d \in input.ds : input.left > 0 /\ Handle(d)]_input
=============================================================================
