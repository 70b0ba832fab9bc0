------------------------------ MODULE Transfer ------------------------------
(***************************************************************************)
(* How HTTP/1 messages are framed: the writers (transferWriter of          *)
(* transfer.go for requests, chunkWriter of server.go for responses, the   *)
(* chunked coding of internal/chunked.go), the reader (readTransfer) and   *)
(* what a server does with the body its handler left unread.               *)
(*                                                                         *)
(* A wire is a sequence of tokens: bytes of a body, the parts of chunked   *)
(* coding, and "next" for the message that follows.  A head is the fields  *)
(* that framing depends on; -1 is no length.                               *)
(***************************************************************************)
EXTENDS Integers, Sequences, FiniteSets, SequencesExt, FiniteSetsExt
CONSTANTS MaxPostHandlerReadBytes, MaxExcess

tok(t, n) == [t |-> t, n |-> n]
bytes(n) == [i \in 1 .. n |-> tok("byte", 0)]
crlf == tok("crlf", 0)
NextMessage == <<tok("next", 0)>>
drop(s, n) == SubSeq(s, n + 1, Len(s))
total(ns) == FoldLeft(LAMBDA a, n : a + n, 0, ns)

------------------------------------------------------------------------------
(* Chunked coding *)

\* A size line, whose number parseHexUint reads back; one of one digit is three
\* bytes long.
sizeLine(n) == tok("size", n)
chunkedWrite(n) == IF n = 0 THEN <<>> ELSE <<sizeLine(n)>> \o bytes(n) \o <<crlf>>
chunkedClose == <<sizeLine(0)>>
chunkedBody(ns) == FlattenSeq([i \in DOMAIN ns |-> chunkedWrite(ns[i])]) \o chunkedClose

\* beginChunk's count of bytes that are not data.
excessAfter(excess, n) == Max({0, excess + 3 + 2 - (16 + 2 * n)})

\* chunkedReader.Read until it has an error, io.EOF for the last chunk.
RECURSIVE readChunks(_, _, _)
readChunks(wire, n, excess) ==
  LET fails == [n |-> n, rest |-> wire, ok |-> FALSE]
      size == Head(wire).n
      more == excessAfter(excess, size)
  IN IF wire = <<>> \/ Head(wire).t # "size" THEN fails
     ELSE IF size = 0 THEN [n |-> n, rest |-> Tail(wire), ok |-> TRUE]
     ELSE IF more > MaxExcess \/ Len(wire) < size + 2 THEN fails
     ELSE IF wire[size + 2] # crlf THEN fails
     ELSE readChunks(drop(wire, size + 2), n + size, more)

\* body.readTrailer: nothing, or fields up to an empty line.
readTrailer(wire) ==
  LET end == SelectInSeq(wire, LAMBDA x : x = crlf)
  IN IF wire # <<>> /\ Head(wire) = crlf THEN [rest |-> Tail(wire), ok |-> TRUE, fields |-> 0]
     ELSE IF end # 0 /\ \A i \in 1 .. end - 1 : wire[i].t = "field" THEN [rest |-> drop(wire, end), ok |-> TRUE, fields |-> end - 1]
     ELSE [rest |-> wire, ok |-> FALSE, fields |-> 0]

------------------------------------------------------------------------------
(* readTransfer, of a head [response, status, method, minor, te, cl, conn,   *)
(* trailer], where te and cl are the values of those fields, one each line.  *)

noResponseBodyExpected(method) == method = "HEAD"
bodyAllowedForStatus(status) == status \notin 100 .. 199 /\ status \notin {204, 304}
shouldClose(h) == IF h.minor = 0 THEN "close" \in h.conn \/ "keep-alive" \notin h.conn ELSE "close" \in h.conn

\* parseTransferEncoding: HTTP/1.0 ignores the field, a length is overridden.
badTransferEncoding(h) == h.minor >= 1 /\ h.te \notin {<<>>, <<"chunked">>}
isChunked(h) == h.minor >= 1 /\ h.te = <<"chunked">>

\* A Content-Length whose value is no number, or too large a one, is an error.
NotANumber == -3
parseContentLength(v) == IF v = NotANumber THEN -2 ELSE v

\* fixLength: -1 unknown, -2 an error.
fixLength(h) ==
  LET cl == IF isChunked(h) THEN <<>> ELSE h.cl
  IN IF Cardinality({cl[i] : i \in DOMAIN cl}) > 1 THEN -2
     ELSE IF (h.response /\ noResponseBodyExpected(h.method)) \/ ~bodyAllowedForStatus(h.status) THEN 0
     ELSE IF isChunked(h) THEN -1
     ELSE IF cl # <<>> THEN parseContentLength(cl[1])
     ELSE IF h.response THEN -1 ELSE 0

\* The answer to HEAD, whose length is that of a body that does not come.
badHeadLength(h) ==
  /\ h.response /\ noResponseBodyExpected(h.method) /\ ~isChunked(h)
  /\ h.cl # <<>> /\ parseContentLength(h.cl[1]) = -2

badTrailer(h) == isChunked(h) /\ "bad" \in h.trailer

readTransfer(h) ==
  LET realLength == fixLength(h)
      close == \/ shouldClose(h)
               \/ h.response /\ realLength = -1 /\ ~isChunked(h) /\ bodyAllowedForStatus(h.status)
      kind == IF isChunked(h)
              THEN IF h.response /\ (noResponseBodyExpected(h.method) \/ ~bodyAllowedForStatus(h.status))
                   THEN "none" ELSE "chunked"
              ELSE IF realLength = 0 THEN "none" ELSE IF realLength > 0 THEN "limit"
              ELSE IF close THEN "eof" ELSE "none"
  IN [err |-> badTransferEncoding(h) \/ realLength = -2 \/ badHeadLength(h) \/ badTrailer(h),
      close |-> close, kind |-> kind, length |-> realLength]

\* Reading the body to its end: the bytes, what is left on the wire, and
\* whether the end was the right one.
readBody(t, wire) ==
  LET c == readChunks(wire, 0, 0)
      tr == readTrailer(c.rest)
  IN CASE t.kind = "none" -> [n |-> 0, rest |-> wire, ok |-> TRUE]
       [] t.kind = "limit" -> [n |-> Min({t.length, Len(wire)}), rest |-> drop(wire, t.length), ok |-> Len(wire) >= t.length]
       [] t.kind = "eof" -> [n |-> Len(wire), rest |-> <<>>, ok |-> TRUE]
       [] t.kind = "chunked" -> [n |-> c.n, rest |-> tr.rest, ok |-> c.ok /\ tr.ok]

------------------------------------------------------------------------------
(* A request [method, body, length, te, close, trailer]: body is -1 for nil  *)
(* or the number of its bytes, length the caller's ContentLength; slow tells *)
(* whether the first byte of the body comes after the timer of the probe.    *)

outgoingLength(q) == IF q.body = -1 THEN 0 ELSE IF q.length # 0 THEN q.length ELSE -1
requestMethodUsuallyLacksBody(method) == method \in {"GET", "HEAD", "DELETE", "OPTIONS", "PROPFIND", "SEARCH"}

\* probeRequestBody finds out in time that a body is empty.
probedEmpty(q, slow) == requestMethodUsuallyLacksBody(q.method) /\ q.body = 0 /\ ~slow
shouldSendChunkedRequestBody(q, slow) ==
  outgoingLength(q) < 0 /\ q.te = <<>> /\ q.method # "CONNECT" /\ ~probedEmpty(q, slow)

newTransferWriter(q, slow) ==
  LET probed == outgoingLength(q) < 0 /\ q.te = <<>> /\ q.method # "CONNECT" /\ probedEmpty(q, slow)
      body == IF probed THEN -1 ELSE q.body
      te == IF body = -1 THEN <<>> ELSE IF shouldSendChunkedRequestBody(q, slow) THEN <<"chunked">> ELSE q.te
  IN [err |-> q.length # 0 /\ q.body = -1,
      body |-> body, te |-> te, close |-> q.close,
      length |-> IF te = <<"chunked">> THEN -1 ELSE IF body = -1 THEN 0 ELSE outgoingLength(q),
      trailer |-> IF te = <<"chunked">> THEN q.trailer ELSE {}]

shouldSendContentLength(method, t) ==
  /\ t.te # <<"chunked">>
  /\ \/ t.length > 0
     \/ t.length = 0 /\ (method \in {"POST", "PUT", "PATCH"} \/ (t.te = <<"identity">> /\ method \notin {"GET", "HEAD"}))

\* writeHeader
requestHead(q, t) ==
  [response |-> FALSE, status |-> 200, method |-> q.method, minor |-> 1,
   te |-> IF t.te = <<"chunked">> THEN t.te ELSE <<>>,
   cl |-> IF shouldSendContentLength(q.method, t) THEN <<t.length>> ELSE <<>>,
   conn |-> IF t.close THEN {"close"} ELSE {}, trailer |-> t.trailer]

\* writeBody, with the chunks that the body's reader happens to give.
requestWire(t, ns) ==
  IF t.te = <<"chunked">>
  THEN chunkedBody(ns) \o [i \in 1 .. Cardinality(t.trailer) |-> tok("field", 0)] \o <<crlf>>
  ELSE IF t.body = -1 THEN <<>>
  ELSE bytes(IF t.length = -1 THEN t.body ELSE Min({t.body, t.length}))
writeFails(t) == (t.length # -1 /\ t.body # -1 /\ t.length # t.body) \/ "bad" \in t.trailer

------------------------------------------------------------------------------
(* The server's side of one request *)

\* A body of n bytes that its handler reads: what is left, whether the end was
\* seen, whether it was given up, and whether the request says that the
\* connection ends after it.
closing(q) == IF q.minor = 0 THEN ~q.wants10KeepAlive ELSE q.wantsClose
newBody(t, n, q) ==
  [kind |-> t.kind, left |-> n, sawEOF |-> FALSE, closed |-> FALSE, earlyClose |-> FALSE, closing |-> closing(q)]

\* Reads of k bytes together.  The end of a body of known length is seen with
\* the last byte, that of a chunked one if its last chunk is buffered.
bodyRead(b, k, buffered) ==
  [b EXCEPT !.left = @ - Min({k, @}),
            !.sawEOF = @ \/ k > b.left \/ (k = b.left /\ k > 0 /\ (b.kind = "limit" \/ buffered))]

\* body.Close on a server: at most MaxPostHandlerReadBytes are read, and nothing
\* if neither trailers nor a request follow.
bodyClose(b) ==
  LET drained == bodyRead(b, MaxPostHandlerReadBytes, FALSE)
  IN IF b.closed THEN b
     ELSE IF b.sawEOF \/ (b.kind # "chunked" /\ b.closing) THEN [b EXCEPT !.closed = TRUE]
     ELSE IF b.kind = "limit" /\ b.left > MaxPostHandlerReadBytes THEN [b EXCEPT !.closed = TRUE, !.earlyClose = TRUE]
     ELSE [drained EXCEPT !.closed = TRUE, !.earlyClose = b.left >= MaxPostHandlerReadBytes]

\* The part of writeHeader that reads what the handler left, before the reply.
discardBody(b, w) ==
  LET tooBig == IF b.kind = "limit" /\ b.left >= MaxPostHandlerReadBytes THEN TRUE ELSE b.left >= MaxPostHandlerReadBytes + 1
      readAll == bodyRead(b, MaxPostHandlerReadBytes + 1, FALSE)
  IN IF w.fullDuplex \/ b.kind = "none" THEN [b |-> b, close |-> FALSE]
     ELSE IF b.closed THEN [b |-> b, close |-> ~b.sawEOF]
     ELSE IF b.kind = "limit" /\ tooBig THEN [b |-> b, close |-> TRUE]
     ELSE IF tooBig THEN [b |-> readAll, close |-> TRUE]
     ELSE [b |-> bodyClose(readAll), close |-> FALSE]

\* A response: status, hcl the Content-Length that the handler set (or -1), te
\* and conn its Transfer-Encoding and Connection ("" for none), trailers, the
\* sizes of its writes, early for a header written before the handler is done.
bodyAllowed(w) == bodyAllowedForStatus(w.status)
written(w) == IF bodyAllowed(w) THEN total(w.writes) ELSE 0

\* response.write refuses the write that goes beyond the declared length.
accepted(w) ==
  LET fits(i) == w.hcl = -1 \/ total(SubSeq(w.writes, 1, i)) <= w.hcl
      n == IF bodyAllowed(w) THEN Cardinality({i \in DOMAIN w.writes : fits(i)}) ELSE 0
  IN SubSeq(w.writes, 1, n)

\* The writes that reach the chunkWriter: one if the buffer held them all.
pieces(w) == IF w.early THEN accepted(w) ELSE IF total(accepted(w)) = 0 THEN <<>> ELSE <<total(accepted(w))>>

contentLength(q, w) ==
  LET p == total(accepted(w))
      computed == /\ ~w.early /\ ~w.trailers /\ w.te = "" /\ bodyAllowed(w) /\ w.hcl = -1
                  /\ q.method # "HEAD" \/ p > 0
  IN IF computed THEN p ELSE w.hcl

\* The framing of the reply: a length that comes with a coding is dropped.
framing(q, w, length) ==
  LET both == length # -1 /\ w.te \notin {"", "identity"}
      bodiless == q.method = "HEAD" \/ ~bodyAllowed(w)
      hasCL == length # -1 /\ ~both
      chunking == ~bodiless /\ ~hasCL /\ q.minor >= 1 /\ w.te # "identity"
  IN [chunking |-> chunking, untilEOF |-> ~bodiless /\ ~hasCL /\ ~chunking,
      te |-> IF chunking THEN <<"chunked">> ELSE <<>>,
      cl |-> IF bodyAllowed(w) /\ ~chunking /\ hasCL THEN <<length>> ELSE <<>>]

\* The Connection field, where set is what the server wants to add.
connection(q, w, set, close, keepAlives, tooBig) ==
  LET own == IF w.conn = "" \/ tooBig THEN {} ELSE {w.conn}
  IN IF close /\ (~keepAlives \/ w.conn # "close")
     THEN IF q.minor >= 1 THEN {"close"} ELSE set
     ELSE own \cup set

\* expectContinueReader: a client that was not seen to send its whole body may
\* send it after this reply.
unfinished(q, b) == q.expect /\ b.kind # "none" /\ ~b.sawEOF

\* writeHeader: whether to close, the head, and the request's body after it.
writeHeader(q, w, b, keepAlives, pending) ==
  LET length == contentLength(q, w)
      keep10 == q.wants10KeepAlive /\ (q.method = "HEAD" \/ length # -1 \/ ~bodyAllowed(w))
      close1 == (~keep10 /\ (q.minor = 0 \/ q.wantsClose)) \/ w.conn = "close" \/ ~keepAlives \/ pending
      d == IF close1 THEN [b |-> b, close |-> FALSE] ELSE discardBody(b, w)
      tooBig == d.close /\ ~b.closed
      set == IF tooBig THEN {"close"} ELSE IF keep10 /\ w.conn = "" THEN {"keep-alive"} ELSE {}
      f == framing(q, w, length)
      close == close1 \/ d.close \/ f.untilEOF
  IN [close |-> close, b |-> d.b, chunking |-> f.chunking, length |-> length,
      head |-> [response |-> TRUE, status |-> w.status, method |-> q.method, minor |-> q.minor, te |-> f.te, cl |-> f.cl,
                conn |-> connection(q, w, set, close, keepAlives, tooBig), trailer |-> {}]]

\* chunkWriter.Write for each piece, and chunkWriter.close.
responseWire(q, w, r) ==
  IF q.method = "HEAD" \/ ~bodyAllowed(w) THEN <<>>
  ELSE IF r.chunking THEN chunkedBody(pieces(w)) \o (IF w.trailers THEN <<tok("field", 0)>> ELSE <<>>) \o <<crlf>>
  ELSE bytes(total(pieces(w)))

finishRequest(b) == IF b.kind = "none" THEN b ELSE bodyClose(b)

\* Mutant: the length of what was written is not looked at.
shouldReuseHasty(q, w, r, b) == ~r.close /\ ~b.earlyClose
\* shouldReuseConnection, after finishRequest closed the request's body.
shouldReuseConnection(q, w, r, b) ==
  /\ ~r.close
  /\ ~(q.method # "HEAD" /\ r.length # -1 /\ bodyAllowed(w) /\ r.length # written(w))
  /\ ~b.earlyClose

------------------------------------------------------------------------------
(* What both ends rely on *)

\* A request that was written is read with the bytes of its body, up to where
\* the next one begins; one that was cut short is not taken for whole.  (With
\* "identity" and no length there is nothing on the wire to tell the end by.)
ReadBack(q, t, wire, r, whole) ==
  /\ ~writeFails(t) => ~r.err /\ whole.ok /\ whole.n = Max({0, q.body}) /\ whole.rest = NextMessage
  /\ t.length > Max({0, t.body}) => ~readBody(r, wire).ok
  /\ ~writeFails(t) /\ wire # <<>> => ~readBody(r, Front(wire)).ok
Received(q, t, wire, r) == ReadBack(q, t, wire, r, readBody(r, wire \o NextMessage))
Written(q, t, ns) ==
  ~t.err /\ (q.te = <<"identity">> => t.length # -1) => Received(q, t, requestWire(t, ns), readTransfer(requestHead(q, t)))
RequestClaim(q, slow, ns) == Written(q, newTransferWriter(q, slow), ns)

\* One request, whose handler reads k bytes of a body of n and replies: if the
\* server goes on, both ends are where the next message begins; the client has
\* the bytes that were accepted, or knows that they were cut short; and the
\* client is told that it ends, except after HTTP/1.0, a body that was given up
\* or a handler that did not write the length it declared.
InStep(q, w, r, b, reuse, c, got, short) ==
  /\ reuse => b.kind = "none" \/ b.sawEOF
  /\ ~c.err
  /\ ~short => got.ok /\ got.n = IF q.method = "HEAD" THEN 0 ELSE total(accepted(w))
  /\ reuse => ~short /\ (~c.close => got.rest = NextMessage)
  /\ short => ~got.ok
  /\ ~reuse /\ ~short /\ q.minor >= 1 => c.close \/ b.earlyClose \/ (r.length # -1 /\ r.length # written(w))
Finished(q, w, r, b, reuse, c) ==
  InStep(q, w, r, b, reuse, c, readBody(c, responseWire(q, w, r) \o (IF reuse THEN NextMessage ELSE <<>>)),
         r.head.cl # <<>> /\ q.method # "HEAD" /\ r.length # total(accepted(w)))
Closed(q, w, r, b) == Finished(q, w, r, b, shouldReuseConnection(q, w, r, b), readTransfer(r.head))
Replied(q, w, r) == Closed(q, w, r, finishRequest(r.b))
Handled(q, w, b, closes, keepAlives) ==
  Replied(q, w, writeHeader(q, w, IF closes THEN bodyClose(b) ELSE b, keepAlives, unfinished(q, b)))
ServeClaim(q, w, t, n, k, buffered, closes, keepAlives) ==
  Handled(q, w, bodyRead(newBody(t, n, q), k, buffered), closes, keepAlives)

\* Whatever a peer wrote as a head, if it is accepted then its body ends where
\* each of the lengths in it, or the chunked coding, says.
Ends(got, n) == got.ok /\ got.n = n /\ got.rest = NextMessage
HeadClaim(h) ==
  LET t == readTransfer(h)
      bodiless == h.response /\ (noResponseBodyExpected(h.method) \/ ~bodyAllowedForStatus(h.status))
  IN ~t.err /\ ~bodiless =>
       IF h.minor >= 1 /\ h.te # <<>> THEN Ends(readBody(t, chunkedBody(<<1>>) \o <<crlf>> \o NextMessage), 1)
       ELSE \A i \in DOMAIN h.cl : Ends(readBody(t, bytes(h.cl[i]) \o NextMessage), h.cl[i])
==============================================================================
