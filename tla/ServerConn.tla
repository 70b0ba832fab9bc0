----------------------------- MODULE ServerConn -----------------------------
(***************************************************************************)
(* One HTTP/1 connection of the server (server.go): conn.serve reading     *)
(* requests and running handlers, its connReader, and the goroutine that   *)
(* reads in the background while a handler runs, to notice when the client *)
(* goes away.  That goroutine must be stopped, and a byte it has read kept,*)
(* before anyone else may read.                                            *)
(*                                                                         *)
(* What a client sends is a sequence of units: the first byte of a         *)
(* request, the rest of its head, its body.  The background read, which    *)
(* reads one byte, takes one unit; a read into bufr takes any number.      *)
(* EnableFullDuplex is left out (see the README).                          *)
(***************************************************************************)
EXTENDS Integers, Sequences

CONSTANT Stream   \* what the client has to send: "first", "rest", "body", ...

\* What may follow a unit: a head comes in two, with or without a body after it.
Follows == [first |-> {"rest"}, rest |-> {"first", "body"}, body |-> {"first"}]

\* The stream is cut into units where the server's parser cuts it, and may end
\* anywhere.
ASSUME StreamAssumption ==
  /\ Stream \in Seq({"first", "rest", "body"})
  /\ Stream # <<>> => Stream[1] = "first"
  /\ \A i \in 1 .. Len(Stream) - 1 : Stream[i + 1] \in Follows[Stream[i]]

VARIABLES
  \* the client and the network connection
  sent,          \* how many units the client has sent
  clientClosed,  \* the client has closed its side
  taken,         \* how many units have been read from rwc
  rwcClosed,     \* rwc.Close() has been called
  deadline,      \* of reads: "none", "set" (it may never come), "expired", or
                 \* "past" (aLongTimeAgo)
  late,          \* a deadline that was set has come
  \* connReader
  byteBuf,       \* the unit in byteBuf, 0 if ~hasByte
  inRead, aborted,
  bg,            \* the goroutine in backgroundRead, and what Read returned to it
  \* conn
  buf,           \* the units in bufr
  ctxDone,       \* c.cancelCtx() has been called
  panicked,      \* "invalid concurrent Body.Read call"
  \* conn.serve
  pos,           \* position
  reading,       \* it is in rwc.Read
  waiting,       \* it is in cond.Wait of abortPendingRead
  parsed,        \* how many units it has consumed
  head,          \* the first unit of the current request, 0 if there is none
  bodyLeft,      \* the request's body has not been read to its end
  noReuse        \* the conn must not be reused (closeAfterReply, earlyClose)

netVars == <<sent, clientClosed, taken, rwcClosed, late>>
readerVars == <<byteBuf, inRead, aborted, bg>>
reqVars == <<parsed, head, bodyLeft, noReuse>>
vars == <<netVars, deadline, readerVars, buf, ctxDone, panicked, pos, reading, waiting, reqVars>>

NoRead == [at |-> "none", unit |-> 0, err |-> "nil"]

Available == sent - taken

\* What rwc.Read can return besides data.
ReadErrors ==
  (IF deadline \in {"expired", "past"} THEN {"timeout"} ELSE {})
    \cup (IF rwcClosed \/ (clientClosed /\ Available = 0) THEN {"eof"} ELSE {})

CanRead == ~rwcClosed /\ deadline \notin {"expired", "past"} /\ Available > 0

----------------------------------------------------------------------------
(* connReader                                                              *)

\* startBackgroundRead, if b; it panics if someone is reading.
startBackgroundRead(b) ==
  LET go == b /\ ~inRead /\ byteBuf = 0 IN
  /\ panicked' = (panicked \/ (b /\ inRead))
  /\ inRead' = (inRead \/ go)
  /\ deadline' = IF go THEN "none" ELSE deadline
  /\ bg' = IF go THEN [NoRead EXCEPT !.at = "read"] ELSE bg
  /\ UNCHANGED <<byteBuf, aborted>>

\* backgroundRead: Read returns a byte or an error ...
bgReturns ==
  /\ bg.at = "read"
  /\ \/ /\ CanRead
        /\ taken' = taken + 1
        /\ bg' = [at |-> "lock", unit |-> taken + 1, err |-> "nil"]
     \/ /\ \E e \in ReadErrors : bg' = [at |-> "lock", unit |-> 0, err |-> e]
        /\ UNCHANGED taken
  /\ UNCHANGED <<sent, clientClosed, rwcClosed, late, deadline, byteBuf, inRead, aborted, buf, ctxDone,
                 panicked, pos, reading, waiting, reqVars>>

\* Mutant: an error of the background read is not reported.
bgFinishDeaf ==
  /\ bg.at = "lock"
  /\ byteBuf' = IF bg.unit # 0 THEN bg.unit ELSE byteBuf
  /\ aborted' = FALSE /\ inRead' = FALSE
  /\ bg' = NoRead
  /\ UNCHANGED <<netVars, deadline, buf, ctxDone, panicked, pos, reading, waiting, reqVars>>

\* Mutant: the timeout abortPendingRead causes is reported like any error.
bgFinishStrict ==
  /\ bg.at = "lock"
  /\ byteBuf' = IF bg.unit # 0 THEN bg.unit ELSE byteBuf
  /\ ctxDone' = (ctxDone \/ bg.err # "nil")
  /\ aborted' = FALSE /\ inRead' = FALSE
  /\ bg' = NoRead
  /\ UNCHANGED <<netVars, deadline, buf, panicked, pos, reading, waiting, reqVars>>

\* Mutant: inRead is not reset.
bgFinishStays ==
  /\ bg.at = "lock"
  /\ byteBuf' = IF bg.unit # 0 THEN bg.unit ELSE byteBuf
  /\ aborted' = FALSE
  /\ bg' = NoRead
  /\ UNCHANGED <<netVars, deadline, inRead, buf, ctxDone, panicked, pos, reading, waiting, reqVars>>

\* ... and the rest of backgroundRead runs with the lock held.
bgFinish ==
  /\ bg.at = "lock"
  /\ byteBuf' = IF bg.unit # 0 THEN bg.unit ELSE byteBuf
  /\ ctxDone' = (ctxDone \/ bg.err = "eof" \/ (bg.err = "timeout" /\ ~aborted))
  /\ aborted' = FALSE /\ inRead' = FALSE
  /\ bg' = NoRead
  /\ UNCHANGED <<netVars, deadline, buf, panicked, pos, reading, waiting, reqVars>>

\* Whoever calls abortPendingRead, and where it goes on.
AbortThen == [abort |-> "closeBody", hijackAbort |-> "hijackPeek", deferAbort |-> "deferBody"]

\* Mutant: the pending read is left alone.
abortNothing ==
  /\ pos \in DOMAIN AbortThen /\ ~waiting
  /\ pos' = AbortThen[pos]
  /\ UNCHANGED <<netVars, deadline, readerVars, buf, ctxDone, panicked, reading, waiting, reqVars>>

\* Mutant: abortPendingRead waits for the read to end by itself.
abortPatient ==
  /\ pos \in DOMAIN AbortThen /\ ~waiting
  /\ aborted' = inRead /\ waiting' = inRead
  /\ pos' = IF inRead THEN pos ELSE AbortThen[pos]
  /\ UNCHANGED <<netVars, deadline, byteBuf, inRead, bg, buf, ctxDone, panicked, reading, reqVars>>

abortPendingRead ==
  /\ pos \in DOMAIN AbortThen /\ ~waiting
  /\ \/ /\ ~inRead
        /\ pos' = AbortThen[pos]
        /\ UNCHANGED <<deadline, aborted, waiting>>
     \/ /\ inRead
        /\ aborted' = TRUE /\ deadline' = "past" /\ waiting' = TRUE
        /\ UNCHANGED pos
  /\ UNCHANGED <<netVars, byteBuf, inRead, bg, buf, ctxDone, panicked, reading, reqVars>>

\* Mutant: the deadline stays in the past.
abortedForEver ==
  /\ waiting /\ ~inRead
  /\ waiting' = FALSE
  /\ pos' = AbortThen[pos]
  /\ UNCHANGED <<netVars, deadline, readerVars, buf, ctxDone, panicked, reading, reqVars>>

abortReturns ==
  /\ waiting /\ ~inRead
  /\ waiting' = FALSE /\ deadline' = "none"
  /\ pos' = AbortThen[pos]
  /\ UNCHANGED <<netVars, readerVars, buf, ctxDone, panicked, reading, reqVars>>

----------------------------------------------------------------------------
(* Reading into bufr                                                       *)

\* conn.serve, or the handler it runs, needs more than bufr holds.
Hungry ==
  \/ pos \in {"peek", "head"} /\ Len(buf) < 2
  \/ pos \in {"body", "discard", "closeBody", "deferBody"} /\ bodyLeft /\ buf = <<>>
  \/ pos = "hijackPeek" /\ byteBuf # 0

\* Mutant: the byte of the background read is overlooked.
readBeginsAnew ==
  /\ Hungry /\ ~reading
  /\ panicked' = (panicked \/ inRead)
  /\ inRead' = TRUE /\ reading' = TRUE
  /\ UNCHANGED <<netVars, deadline, byteBuf, aborted, bg, buf, ctxDone, pos, waiting, reqVars>>

\* connReader.Read: it panics if someone else is reading, gives out the byte
\* the background read has left, or reads from rwc.
readBegins ==
  /\ Hungry /\ ~reading
  /\ panicked' = (panicked \/ inRead)
  /\ \/ /\ byteBuf # 0
        /\ buf' = Append(buf, byteBuf)
        /\ byteBuf' = 0
        /\ UNCHANGED <<inRead, reading>>
     \/ /\ byteBuf = 0
        /\ inRead' = TRUE /\ reading' = TRUE
        /\ UNCHANGED <<buf, byteBuf>>
  /\ UNCHANGED <<netVars, deadline, aborted, bg, ctxDone, pos, waiting, reqVars>>

readReturns ==
  /\ reading /\ CanRead
  /\ \E n \in 1 .. Available :
       /\ buf' = buf \o [i \in 1 .. n |-> taken + i]
       /\ taken' = taken + n
  /\ inRead' = FALSE /\ reading' = FALSE
  /\ UNCHANGED <<sent, clientClosed, rwcClosed, late, deadline, byteBuf, aborted, bg, ctxDone, panicked,
                 pos, waiting, reqVars>>

\* Where a failed read leads to.
FailedThen == [peek |-> "close", head |-> "close", body |-> "handler", discard |-> "abort",
               closeBody |-> "decide", deferBody |-> "close"]

\* Mutant: that the rest of the body could not be read is forgotten.
readFailsQuietly ==
  /\ reading /\ ReadErrors # {}
  /\ ctxDone' = TRUE
  /\ inRead' = FALSE /\ reading' = FALSE
  /\ pos' = FailedThen[pos]
  /\ UNCHANGED <<netVars, deadline, byteBuf, aborted, bg, buf, panicked, waiting, reqVars>>

\* The read fails, which ends the context.  If the body could not be skipped
\* the conn is not reused (chunkWriter.writeHeader).
readFails ==
  /\ reading /\ ReadErrors # {}
  /\ ctxDone' = TRUE
  /\ inRead' = FALSE /\ reading' = FALSE
  /\ noReuse' = (noReuse \/ pos = "discard")
  /\ pos' = FailedThen[pos]
  /\ UNCHANGED <<netVars, deadline, byteBuf, aborted, bg, buf, panicked, waiting, parsed, head,
                 bodyLeft>>

\* The client closes the conn within a body of declared length: for the body
\* that is its end too (sawEOF), and the background read starts.
bodyCutShort ==
  /\ reading /\ pos \in {"body", "discard", "closeBody", "deferBody"}
  /\ clientClosed /\ Available = 0 /\ ~rwcClosed
  /\ ctxDone' = TRUE /\ reading' = FALSE /\ bodyLeft' = FALSE
  /\ bg' = [NoRead EXCEPT !.at = "read"] /\ deadline' = "none"
  /\ noReuse' = (noReuse \/ pos = "discard")
  /\ pos' = FailedThen[pos]
  /\ UNCHANGED <<netVars, byteBuf, inRead, aborted, buf, panicked, waiting, parsed, head>>

----------------------------------------------------------------------------
(* conn.serve                                                              *)

\* The next request has begun to arrive; readRequest sets its deadline.
peeked ==
  /\ pos = "peek" /\ ~Hungry
  /\ pos' = "head"
  /\ deadline' = "set"
  /\ UNCHANGED <<netVars, readerVars, buf, ctxDone, panicked, reading, waiting, reqVars>>

HasBody(n) == n < Len(Stream) /\ Stream[n + 1] = "body"

\* readRequest has read a head: the handler starts and, unless there is a
\* body to be read first, the background read too.
readRequest ==
  /\ pos = "head" /\ ~Hungry
  /\ buf' = SubSeq(buf, 3, Len(buf))
  /\ parsed' = parsed + 2
  /\ head' = buf[1]
  /\ bodyLeft' = HasBody(buf[2])
  /\ noReuse' = FALSE
  /\ pos' = "handler"
  /\ startBackgroundRead(~HasBody(buf[2]))
  /\ UNCHANGED <<netVars, ctxDone, reading, waiting>>

\* It is not a request the server can serve.
badRequest ==
  /\ pos = "head" /\ ~Hungry
  /\ pos' = "close"
  /\ UNCHANGED <<netVars, deadline, readerVars, buf, ctxDone, panicked, reading, waiting, reqVars>>

\* The handler reads the request's body.
handlerReads ==
  /\ pos = "handler" /\ bodyLeft
  /\ pos' = "body"
  /\ UNCHANGED <<netVars, deadline, readerVars, buf, ctxDone, panicked, reading, waiting, reqVars>>

BodyThen == [body |-> "handler", discard |-> "abort", closeBody |-> "decide", deferBody |-> "close"]

\* body.readLocked comes to the end of the body: onHitEOF.
bodyEnds ==
  /\ pos \in DOMAIN BodyThen /\ bodyLeft /\ buf # <<>>
  /\ buf' = Tail(buf)
  /\ parsed' = parsed + 1
  /\ bodyLeft' = FALSE
  /\ startBackgroundRead(TRUE)
  /\ pos' = BodyThen[pos]
  /\ UNCHANGED <<netVars, ctxDone, reading, waiting, head, noReuse>>

\* There is no body left, or there is too much of it to be read for nothing.
bodySkipped ==
  /\ pos \in DOMAIN BodyThen \ {"body"} /\ ~reading
  /\ noReuse' = (noReuse \/ bodyLeft)
  /\ pos' = BodyThen[pos]
  /\ UNCHANGED <<netVars, deadline, readerVars, buf, ctxDone, panicked, reading, waiting, parsed,
                 head, bodyLeft>>

\* Mutant: Hijack does not stop the background read.
handlerEndsAbruptly ==
  /\ pos = "handler"
  /\ \/ pos' \in {"discard", "hijackPeek", "deferAbort"} /\ UNCHANGED noReuse
     \/ pos' = "abort" /\ noReuse' = TRUE
  /\ UNCHANGED <<netVars, deadline, readerVars, buf, ctxDone, panicked, reading, waiting, parsed,
                 head, bodyLeft>>

\* The handler returns (and what is left of the body is skipped, unless the
\* conn is to be closed anyway), calls Hijack or panics.
handlerEnds ==
  /\ pos = "handler"
  /\ \/ pos' \in {"discard", "hijackAbort", "deferAbort"} /\ UNCHANGED noReuse
     \/ pos' = "abort" /\ noReuse' = TRUE
  /\ UNCHANGED <<netVars, deadline, readerVars, buf, ctxDone, panicked, reading, waiting, parsed,
                 head, bodyLeft>>

\* shouldReuseConnection and doKeepAlives: wait for the next request.
reuse ==
  /\ pos = "decide" /\ ~noReuse
  /\ pos' = "peek" /\ head' = 0
  /\ deadline' = "set"
  /\ UNCHANGED <<netVars, readerVars, buf, ctxDone, panicked, reading, waiting, parsed, bodyLeft,
                 noReuse>>

notReused ==
  /\ pos = "decide"
  /\ pos' = "close" /\ head' = 0
  /\ UNCHANGED <<netVars, deadline, readerVars, buf, ctxDone, panicked, reading, waiting, parsed,
                 bodyLeft, noReuse>>

connClose ==
  /\ pos = "close"
  /\ pos' = "done"
  /\ rwcClosed' = TRUE /\ ctxDone' = TRUE
  /\ UNCHANGED <<sent, clientClosed, taken, late, deadline, readerVars, buf, panicked, reading, waiting,
                 reqVars>>

\* hijackLocked, after the background read's byte has been moved to bufr.
hijacked ==
  /\ pos = "hijackPeek" /\ ~Hungry /\ ~reading
  /\ pos' = "hijacked"
  /\ deadline' = "none"
  /\ UNCHANGED <<netVars, readerVars, buf, ctxDone, panicked, reading, waiting, reqVars>>

----------------------------------------------------------------------------
(* The client, time, and Server.Close or Shutdown                          *)

clientSends ==
  /\ ~clientClosed /\ sent < Len(Stream)
  /\ sent' = sent + 1
  /\ UNCHANGED <<clientClosed, taken, rwcClosed, late, deadline, readerVars, buf, ctxDone, panicked, pos,
                 reading, waiting, reqVars>>

clientCloses ==
  /\ ~clientClosed
  /\ clientClosed' = TRUE
  /\ UNCHANGED <<sent, taken, rwcClosed, late, deadline, readerVars, buf, ctxDone, panicked, pos, reading,
                 waiting, reqVars>>

expires ==
  /\ deadline = "set"
  /\ deadline' = "expired" /\ late' = TRUE
  /\ UNCHANGED <<sent, clientClosed, taken, rwcClosed, readerVars, buf, ctxDone, panicked, pos, reading, waiting, reqVars>>

serverCloses ==
  /\ ~rwcClosed /\ pos # "hijacked"
  /\ rwcClosed' = TRUE
  /\ UNCHANGED <<sent, clientClosed, taken, late, deadline, readerVars, buf, ctxDone, panicked, pos,
                 reading, waiting, reqVars>>

----------------------------------------------------------------------------
Init ==
  /\ sent = 0 /\ clientClosed = FALSE /\ taken = 0 /\ rwcClosed = FALSE
  /\ deadline = "set" /\ late = FALSE
  /\ byteBuf = 0 /\ inRead = FALSE /\ aborted = FALSE /\ bg = NoRead
  /\ buf = <<>> /\ ctxDone = FALSE /\ panicked = FALSE
  /\ pos = "head" /\ reading = FALSE /\ waiting = FALSE
  /\ parsed = 0 /\ head = 0 /\ bodyLeft = FALSE /\ noReuse = FALSE

backgroundRead == bgReturns \/ bgFinish

\* What conn.serve does without waiting for anybody but the background read.
serveRuns ==
  \/ abortPendingRead \/ abortReturns \/ readBegins \/ readFails \/ bodyCutShort \/ peeked \/ readRequest
  \/ badRequest \/ bodyEnds \/ bodySkipped \/ reuse \/ notReused \/ connClose \/ hijacked

Next ==
  \/ backgroundRead \/ serveRuns \/ readReturns \/ handlerReads \/ handlerEnds
  \/ clientSends \/ clientCloses \/ expires \/ serverCloses

Spec == Init /\ [][Next]_vars

\* Goroutines run; clients owe nothing, and handlers need not end.
FairSpec == Spec /\ WF_vars(backgroundRead) /\ WF_vars(serveRuns)

----------------------------------------------------------------------------
(* Properties                                                              *)

Positions == {"peek", "head", "handler", "body", "discard", "abort", "closeBody", "decide",
              "hijackAbort", "hijackPeek", "hijacked", "deferAbort", "deferBody", "close", "done"}

\* Every variable stays in its set, and inRead says whether someone is in
\* rwc.Read, or back from it and about to say so.
TypeOK ==
  /\ taken \in 0 .. sent /\ sent \in 0 .. Len(Stream) /\ parsed \in 0 .. taken
  /\ clientClosed \in BOOLEAN /\ rwcClosed \in BOOLEAN /\ late \in BOOLEAN
  /\ deadline \in {"none", "set", "expired", "past"}
  /\ byteBuf \in 0 .. taken /\ inRead \in BOOLEAN /\ aborted \in BOOLEAN
  /\ bg \in [at : {"none", "read", "lock"}, unit : 0 .. taken, err : {"nil", "eof", "timeout"}]
  /\ buf \in Seq(1 .. taken) /\ ctxDone \in BOOLEAN /\ panicked \in BOOLEAN
  /\ pos \in Positions /\ reading \in BOOLEAN /\ waiting \in BOOLEAN
  /\ head \in 0 .. taken /\ bodyLeft \in BOOLEAN /\ noReuse \in BOOLEAN
  /\ inRead <=> (reading \/ bg.at # "none")

\* Nobody reads from the conn while the background read does ("invalid
\* concurrent Body.Read call").
NoReadPanic == ~panicked

\* No unit is lost, duplicated or reordered, whoever has read it: what is not
\* yet consumed is in bufr, then in byteBuf or on its way there.
NothingLost ==
  LET one(u) == IF u = 0 THEN <<>> ELSE <<u>>
  IN  buf \o one(byteBuf) \o one(bg.unit) = [i \in 1 .. taken - parsed |-> parsed + i]

\* Requests start where requests start, never inside a body nobody has read.
InSync == head # 0 => Stream[head] = "first"

\* abortPendingRead leaves nothing behind that would fail a later read or hide
\* its error.
NoStaleAbort == aborted \/ deadline = "past" => waiting

\* The context of the conn's requests ends only when the client or the server
\* has closed the conn or a read has taken too long: not by aborting a read.
ContextJustified == ctxDone => clientClosed \/ rwcClosed \/ late

\* What Hijack hands over is complete and nobody else reads from it.
HijackedIntact ==
  pos = "hijacked" => /\ ~inRead /\ byteBuf = 0 /\ deadline = "none"
                      /\ buf = [i \in 1 .. taken - parsed |-> parsed + i]

\* The stream of requests is whole and in step, whoever reads it.
StreamIntact == TypeOK /\ NothingLost /\ InSync /\ HijackedIntact

\* An aborted background read has no effect on the reads, the errors and the
\* contexts that follow.
AbortsForgotten == NoStaleAbort /\ ContextJustified

\* While a handler runs whose request has been read entirely, and no other
\* request has been sent, it is told when the client goes away.
DisconnectSeen ==
  (pos = "handler" /\ ~bodyLeft /\ clientClosed /\ taken = sent /\ byteBuf = 0 /\ bg.unit = 0)
     ~> (ctxDone \/ pos # "handler")

\* abortPendingRead returns, whatever the client does.
AbortReturns == waiting ~> ~waiting

\* The background read answers: to the handler whose client goes away, and to
\* the goroutine that aborts it.
BackgroundReadAnswers == DisconnectSeen /\ AbortReturns
=============================================================================
