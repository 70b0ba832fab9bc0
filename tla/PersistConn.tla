---------------------------- MODULE PersistConn ----------------------------
(***************************************************************************)
(* One HTTP/1 connection of the client Transport (transport.go): the       *)
(* roundTrip calls that use it one after the other, its readLoop and its   *)
(* writeLoop, the caller that reads the response body, and a server that   *)
(* answers in order.  Module TransportPool models how the connection gets  *)
(* from one request to the next; here the pool only takes it back, refuses *)
(* it, hands it out or closes it while it is idle.                         *)
(*                                                                         *)
(* Messages are reduced to what the loops tell apart: on the wire from the *)
(* server a response is a head and, when it has a body, the body's end.    *)
(***************************************************************************)
EXTENDS Naturals, SequencesExt

CONSTANTS
  Reqs,          \* the requests
  NoReq,         \* no request
  HasBody,       \* requests with a Body
  HasGetBody,    \* requests with GetBody
  Idempotent,    \* requests with an idempotent method or an Idempotency-Key
  Expects,       \* requests with Expect: 100-continue
  HeaderTimeout, \* whether ResponseHeaderTimeout > 0
  HasCancel,     \* whether the requests' Cancel channels are used besides their contexts
  EarlyCancel,   \* whether CancelRequest is called before RoundTrip has returned
  Answers        \* the kinds of response the server sends

ASSUME ConnAssumption ==
  /\ NoReq \notin Reqs
  /\ HasBody \subseteq Reqs /\ HasGetBody \subseteq HasBody
  /\ Idempotent \subseteq Reqs /\ Expects \subseteq HasBody
  /\ HeaderTimeout \in BOOLEAN /\ HasCancel \in BOOLEAN /\ EarlyCancel \in BOOLEAN
  /\ Answers \subseteq {"empty", "close", "body", "switch"}

VARIABLES
  \* persistConn
  closed,       \* pc.closed
  canceledErr,  \* whether pc.canceledErr # nil
  expected,     \* pc.numExpectedResponses
  nwrite,       \* pc.nwrite, counting the first byte of each request
  reused,       \* pc.reused
  pooled,       \* the conn is in the idle pool
  holder,       \* the request that got the conn from the pool last
  \* channels
  writech, reqch, writeErrCh,  \* buffered, capacity 1
  reqErrCh,     \* roundTrip's own writeErrCh, capacity 1: "empty" or an error
  continueCh,   \* "nil", "open", "sent" (a value is buffered) or "closed"
  waitForBodyRead,  \* capacity 2
  canceler,     \* the requests with an entry in t.reqCanceler
  ctxDone,      \* requests whose context is done
  cancelFired,  \* requests whose Cancel channel is closed
  \* goroutines
  rt,           \* roundTrip of each request
  rl,           \* readLoop
  wl,           \* writeLoop
  body,         \* the caller's reading of a response body
  \* requests
  reqErr,       \* requests whose treq.err is set (reading the body failed)
  bodyUsed,     \* requests whose body has been read or closed (didRead or didClose)
  bodyClosed,   \* requests whose body has been closed
  \* the network
  sent,         \* requests of which bytes have been written to the conn
  full,         \* requests that have been written entirely
  wire,         \* what the server has sent and nobody has read yet
  srv,          \* what the server has said to a request: "none", "100", "head" or "end"
  srvClosed     \* the server has closed its side

pcVars == <<closed, canceledErr, expected, nwrite, reused, pooled, holder>>
chanVars == <<writech, reqch, writeErrCh, reqErrCh, continueCh, waitForBodyRead>>
cancelVars == <<canceler, ctxDone, cancelFired>>
reqVars == <<reqErr, bodyUsed, bodyClosed>>
netVars == <<sent, full, wire, srv, srvClosed>>
vars == <<pcVars, chanVars, cancelVars, rt, rl, wl, body, reqVars, netVars>>

Errors == {"nil", "serverClosedIdle", "readFromServer", "nothingWritten", "canceled",
           "timeout", "owned", "reqErr", "other"}

----------------------------------------------------------------------------
(* Closing, canceling and pooling                                          *)

\* closeLocked(err): only the first call counts.
closeLocked(err) == closed' = IF closed = "nil" THEN err ELSE closed

\* t.cancelRequest(key): runs the canceler, which is pc.cancelRequest once
\* roundTrip has begun, and removes it.
cancelRequest(r) ==
  /\ canceler' = canceler \ {r}
  /\ IF r \in canceler /\ rt[r].at # "start"
     THEN canceledErr' = TRUE /\ closeLocked("canceled")
     ELSE UNCHANGED <<canceledErr, closed>>

\* tryPutIdleConn: accepted (in the pool, or straight to a waiting request,
\* which is the same here) or refused.
putAccepted == closed = "nil" /\ pooled' = TRUE /\ reused' = TRUE
putRefused == UNCHANGED <<pooled, reused>>

\* CloseIdleConnections, the idle timeout and eviction.
closeIdle ==
  /\ pooled /\ closed = "nil"
  /\ pooled' = FALSE
  /\ closeLocked("other")
  /\ UNCHANGED <<canceledErr, expected, nwrite, reused, holder, chanVars, cancelVars, rt, rl,
                 wl, body, reqVars, netVars>>

----------------------------------------------------------------------------
(* roundTrip                                                               *)

At(r, pos) == rt' = [rt EXCEPT ![r].at = pos]

\* getConn returns the conn.
getConn(r) ==
  /\ rt[r].at = "new" /\ pooled /\ closed = "nil"
  /\ pooled' = FALSE
  /\ holder' = r
  /\ canceler' = canceler \cup {r}
  /\ At(r, "start")
  /\ UNCHANGED <<closed, canceledErr, expected, nwrite, reused, chanVars, ctxDone, cancelFired,
                 rl, wl, body, reqVars, netVars>>

\* The request is canceled before roundTrip has set its canceler: the conn
\* goes back unused, or is closed if the pool does not want it.
roundTripCanceled(r) ==
  /\ rt[r].at = "start" /\ r \notin canceler
  /\ rt' = [rt EXCEPT ![r].at = "failed", ![r].err = "canceled"]
  /\ \/ putAccepted /\ UNCHANGED closed
     \/ putRefused /\ closeLocked("other")
  /\ UNCHANGED <<canceledErr, expected, nwrite, holder, chanVars, cancelVars, rl, wl, body,
                 reqVars, netVars>>

roundTripBegins(r) ==
  /\ rt[r].at = "start" /\ r \in canceler
  /\ expected' = expected + 1
  /\ continueCh' = [continueCh EXCEPT ![r] = IF r \in Expects THEN "open" ELSE "nil"]
  /\ At(r, "writech")
  /\ UNCHANGED <<closed, canceledErr, nwrite, reused, pooled, holder, writech, reqch, writeErrCh,
                 reqErrCh, waitForBodyRead, cancelVars, rl, wl, body, reqVars, netVars>>

sendWritech(r) ==
  /\ rt[r].at = "writech" /\ writech = <<>>
  /\ rt' = [rt EXCEPT ![r].at = "reqch", ![r].startBytesWritten = nwrite]
  /\ writech' = <<r>>
  /\ UNCHANGED <<pcVars, reqch, writeErrCh, reqErrCh, continueCh, waitForBodyRead, cancelVars,
                 rl, wl, body, reqVars, netVars>>

sendReqch(r) ==
  /\ rt[r].at = "reqch" /\ reqch = <<>>
  /\ At(r, "select")
  /\ reqch' = <<r>>
  /\ UNCHANGED <<pcVars, writech, writeErrCh, reqErrCh, continueCh, waitForBodyRead, cancelVars,
                 rl, wl, body, reqVars, netVars>>

\* roundTrip's select: the outcome of the write.
selectWriteErr(r) ==
  /\ rt[r].at = "select" /\ reqErrCh[r] # "empty"
  /\ reqErrCh' = [reqErrCh EXCEPT ![r] = "empty"]
  /\ \/ /\ reqErrCh[r] = "nil"
        /\ rt' = [rt EXCEPT ![r].timer = HeaderTimeout]
        /\ UNCHANGED closed
     \/ /\ reqErrCh[r] # "nil"
        /\ closeLocked("other")
        /\ rt' = [rt EXCEPT ![r].at = "map", ![r].err = reqErrCh[r]]
  /\ UNCHANGED <<canceledErr, expected, nwrite, reused, pooled, holder, writech, reqch, writeErrCh,
                 continueCh, waitForBodyRead, cancelVars, rl, wl, body, reqVars, netVars>>

\* Mutant: that this call has canceled the request itself is forgotten.
selectClosedForgetful(r) ==
  /\ rt[r].at = "select" /\ rt[r].pcClosed /\ closed # "nil"
  /\ canceler' = canceler \ {r}
  /\ rt' = IF r \in canceler THEN [rt EXCEPT ![r].at = "map", ![r].err = closed]
           ELSE [rt EXCEPT ![r].pcClosed = FALSE]
  /\ UNCHANGED <<pcVars, chanVars, ctxDone, cancelFired, rl, wl, body, reqVars, netVars>>

\* The conn is closed: this is the request's failure unless readLoop has
\* taken its canceler away, in which case its response is on the way.
selectClosed(r) ==
  /\ rt[r].at = "select" /\ rt[r].pcClosed /\ closed # "nil"
  /\ \/ /\ rt[r].canceled \/ r \in canceler
        /\ rt' = [rt EXCEPT ![r].at = "map", ![r].err = closed, ![r].pcClosed = FALSE]
        /\ canceler' = canceler \ {r}
     \/ /\ ~rt[r].canceled /\ r \notin canceler
        /\ rt' = [rt EXCEPT ![r].pcClosed = FALSE]
        /\ UNCHANGED canceler
  /\ UNCHANGED <<pcVars, chanVars, ctxDone, cancelFired, rl, wl, body, reqVars, netVars>>

\* ResponseHeaderTimeout has passed.
selectTimeout(r) ==
  /\ rt[r].at = "select" /\ rt[r].timer
  /\ closeLocked("timeout")
  /\ rt' = [rt EXCEPT ![r].at = "failed", ![r].err = "timeout"]
  /\ canceler' = canceler \ {r}
  /\ UNCHANGED <<canceledErr, expected, nwrite, reused, pooled, holder, chanVars, ctxDone,
                 cancelFired, rl, wl, body, reqVars, netVars>>

\* req.Cancel or the context: `canceled` is overwritten each time.
selectCancel(r) ==
  /\ rt[r].at = "select" /\ rt[r].cancelChan /\ r \in cancelFired
  /\ cancelRequest(r)
  /\ rt' = [rt EXCEPT ![r].canceled = r \in canceler, ![r].cancelChan = FALSE]
  /\ UNCHANGED <<expected, nwrite, reused, pooled, holder, chanVars, ctxDone, cancelFired, rl, wl,
                 body, reqVars, netVars>>

\* Mutant: roundTrip returns without closing the conn.
selectCtxDoneReturns(r) ==
  /\ rt[r].at = "select" /\ r \in ctxDone
  /\ rt' = [rt EXCEPT ![r].at = "failed", ![r].err = "canceled"]
  /\ UNCHANGED <<pcVars, chanVars, cancelVars, rl, wl, body, reqVars, netVars>>

selectCtxDone(r) ==
  /\ rt[r].at = "select" /\ rt[r].ctxDoneChan /\ r \in ctxDone
  /\ cancelRequest(r)
  /\ rt' = [rt EXCEPT ![r].canceled = r \in canceler, ![r].cancelChan = FALSE,
                      ![r].ctxDoneChan = FALSE]
  /\ UNCHANGED <<expected, nwrite, reused, pooled, holder, chanVars, ctxDone, cancelFired, rl, wl,
                 body, reqVars, netVars>>

\* What mapRoundTripError makes of err, once writeLoop has ended.
mapped(r) ==
  LET e == rt[r].err IN
  CASE canceledErr -> "canceled"
    [] ~canceledErr /\ r \in reqErr -> "reqErr"
    [] ~canceledErr /\ r \notin reqErr /\ e = "serverClosedIdle" -> e
    [] OTHER -> IF nwrite = rt[r].startBytesWritten /\ (e = "readFromServer" \/ closed # "nil")
                THEN "nothingWritten"
                ELSE IF e = "readFromServer" \/ closed = "nil" THEN e ELSE "other"

\* Mutant: writeLoop is not waited for.
mapRoundTripErrorEarly(r) ==
  /\ rt[r].at = "map"
  /\ rt' = [rt EXCEPT ![r].at = "failed", ![r].err = mapped(r)]
  /\ canceler' = canceler \ {r}
  /\ UNCHANGED <<pcVars, chanVars, ctxDone, cancelFired, rl, wl, body, reqVars, netVars>>

mapRoundTripError(r) ==
  /\ rt[r].at = "map" /\ wl.at = "done"
  /\ rt' = [rt EXCEPT ![r].at = "failed", ![r].err = mapped(r)]
  /\ canceler' = canceler \ {r}
  /\ UNCHANGED <<pcVars, chanVars, ctxDone, cancelFired, rl, wl, body, reqVars, netVars>>

isReplayable(r) == r \in Idempotent /\ (r \notin HasBody \/ r \in HasGetBody)

\* Mutant: whether the request is replayable is not considered.
shouldRetryAlways(r) == reused /\ rt[r].err \in {"nothingWritten", "readFromServer", "serverClosedIdle"}

shouldRetryRequest(r) ==
  /\ reused
  /\ \/ rt[r].err = "nothingWritten" /\ (r \notin HasBody \/ r \in HasGetBody)
     \/ rt[r].err \in {"readFromServer", "serverClosedIdle"} /\ isReplayable(r)

\* rewindBody(req) has a fresh body, or none to rewind.
canRewind(r) == r \notin bodyUsed \/ r \in HasGetBody

\* Mutant: the body writeLoop has not come to is left open.
afterFailureOpen(r) ==
  /\ rt[r].at = "failed"
  /\ At(r, IF shouldRetryRequest(r) /\ canRewind(r) THEN "retry" ELSE "error")
  /\ UNCHANGED <<pcVars, chanVars, cancelVars, rl, wl, body, reqVars, netVars>>

\* Transport.roundTrip after pconn.roundTrip has failed: it retries on
\* another conn (the end of r here) or closes the body and returns.
afterFailure(r) ==
  /\ rt[r].at = "failed"
  /\ At(r, IF shouldRetryRequest(r) /\ canRewind(r) THEN "retry" ELSE "error")
  /\ bodyClosed' = IF r \notin HasBody \/ (shouldRetryRequest(r) /\ r \notin bodyUsed) THEN bodyClosed
                   ELSE bodyClosed \cup {r}
  /\ bodyUsed' = bodyUsed \cup (bodyClosed' \ bodyClosed)
  /\ UNCHANGED <<pcVars, chanVars, cancelVars, rl, wl, body, reqErr, netVars>>

\* The user cancels a request.
CancelRequest(r) ==
  /\ rt[r].at = "response" \/ (EarlyCancel /\ rt[r].at \in {"start", "writech", "reqch", "select"})
  /\ r \in canceler
  /\ cancelRequest(r)
  /\ UNCHANGED <<expected, nwrite, reused, pooled, holder, chanVars, ctxDone, cancelFired, rt, rl,
                 wl, body, reqVars, netVars>>

\* Only roundTrip's select and readLoop, while the body is read, look at it.
userCancels(r) ==
  /\ rt[r].at = "select" \/ (rl.at = "waitBody" /\ rl.req = r)
  /\ \/ ctxDone' = ctxDone \cup {r} /\ UNCHANGED cancelFired
     \/ HasCancel /\ cancelFired' = cancelFired \cup {r} /\ UNCHANGED ctxDone
  /\ UNCHANGED <<pcVars, chanVars, canceler, rt, rl, wl, body, reqVars, netVars>>

----------------------------------------------------------------------------
(* writeLoop                                                               *)

WL(pos) == wl' = [wl EXCEPT !.at = pos]

\* The write ends with err; an error before the first byte is marked so.
wrote(err) == wl' = [wl EXCEPT !.at = "writeErrCh", !.err =
                       IF err # "nil" /\ nwrite' = wl.start THEN "nothingWritten" ELSE err]

writeLoopTakes ==
  /\ wl.at = "select" /\ writech # <<>>
  /\ wl' = [at |-> "head", req |-> Head(writech), start |-> nwrite, err |-> "nil"]
  /\ writech' = <<>>
  /\ UNCHANGED <<pcVars, reqch, writeErrCh, reqErrCh, continueCh, waitForBodyRead, cancelVars, rt,
                 rl, body, reqVars, netVars>>

\* Mutant: writeLoop does not watch closech.
writeLoopDeaf == FALSE /\ UNCHANGED vars

writeLoopQuits ==
  /\ wl.at = "select" /\ closed # "nil"
  /\ WL("done")
  /\ UNCHANGED <<pcVars, chanVars, cancelVars, rt, rl, body, reqVars, netVars>>

\* Bytes of the request reach the conn.
flushed ==
  /\ closed \in {"nil", "owned"}
  /\ nwrite' = IF wl.req \in sent THEN nwrite ELSE nwrite + 1
  /\ sent' = sent \cup {wl.req}

\* The head is flushed at once only if the server is to say "continue".
writeHead ==
  /\ wl.at = "head"
  /\ \/ wl.req \in Expects /\ flushed /\ WL("continue")
     \/ wl.req \notin Expects /\ WL(IF wl.req \in HasBody THEN "body" ELSE "flush")
        /\ UNCHANGED <<nwrite, sent>>
  /\ UNCHANGED <<closed, canceledErr, expected, reused, pooled, holder, chanVars, cancelVars, rt, rl,
                 body, reqVars, full, wire, srv, srvClosed>>

\* waitForContinue: after a final response or the end of the conn the body is
\* not sent, and the write ends without an error; after a 100 or the timeout it is.
waitForContinue ==
  /\ wl.at = "continue"
  /\ \/ /\ continueCh[wl.req] = "closed" \/ closed # "nil"
        /\ bodyUsed' = bodyUsed \cup {wl.req}
        /\ bodyClosed' = bodyClosed \cup {wl.req}
        /\ wl' = [wl EXCEPT !.at = "writeErrCh"]
        /\ UNCHANGED continueCh
     \/ /\ continueCh[wl.req] = "sent"
        /\ continueCh' = [continueCh EXCEPT ![wl.req] = "nil"]
        /\ WL("body")
        /\ UNCHANGED <<bodyUsed, bodyClosed>>
     \/ /\ WL("body")  \* ExpectContinueTimeout
        /\ UNCHANGED <<continueCh, bodyUsed, bodyClosed>>
  /\ UNCHANGED <<pcVars, writech, reqch, writeErrCh, reqErrCh, waitForBodyRead, cancelVars, rt, rl,
                 body, reqErr, netVars>>

\* A write can fail as the conn is closed on this side or on the server's.
WriteFails == closed \notin {"nil", "owned"} \/ srvClosed

\* The request's body is read to its end, or reading it or writing what has
\* been read fails; some of it may have been flushed.
writeBody ==
  /\ wl.at = "body"
  /\ bodyUsed' = bodyUsed \cup {wl.req}
  /\ bodyClosed' = bodyClosed \cup {wl.req}
  /\ flushed \/ UNCHANGED <<nwrite, sent>>
  /\ \/ WL("flush") /\ UNCHANGED reqErr
     \/ reqErr' = reqErr \cup {wl.req} /\ wrote("reqErr")
     \/ WriteFails /\ wrote("other") /\ UNCHANGED reqErr
  /\ UNCHANGED <<closed, canceledErr, expected, reused, pooled, holder, chanVars, cancelVars, rt, rl,
                 body, full, wire, srv, srvClosed>>

writeFlush ==
  /\ wl.at = "flush"
  /\ flushed
  /\ full' = full \cup {wl.req}
  /\ wrote("nil")
  /\ UNCHANGED <<closed, canceledErr, expected, reused, pooled, holder, chanVars, cancelVars, rt, rl,
                 body, reqVars, wire, srv, srvClosed>>

\* A write fails, before or after some of its bytes have left; the body is closed.
writeFails ==
  /\ wl.at \in {"head", "flush"} /\ WriteFails
  /\ flushed \/ UNCHANGED <<nwrite, sent>>
  /\ wrote("other")
  /\ bodyUsed' = bodyUsed \cup (HasBody \cap {wl.req})
  /\ bodyClosed' = bodyClosed \cup (HasBody \cap {wl.req})
  /\ UNCHANGED <<closed, canceledErr, expected, reused, pooled, holder, chanVars, cancelVars, rt, rl,
                 body, reqErr, full, wire, srv, srvClosed>>

\* The outcome goes to wroteRequest first and then to roundTrip.
reportWriteErr ==
  /\ \/ /\ wl.at = "writeErrCh" /\ writeErrCh = <<>>
        /\ writeErrCh' = <<wl.err>>
        /\ WL("reqErrCh")
        /\ UNCHANGED <<reqErrCh, closed>>
     \/ /\ wl.at = "reqErrCh" /\ reqErrCh[wl.req] = "empty"
        /\ reqErrCh' = [reqErrCh EXCEPT ![wl.req] = wl.err]
        /\ WL(IF wl.err = "nil" THEN "select" ELSE "close")
        /\ UNCHANGED <<writeErrCh, closed>>
     \/ /\ wl.at = "close"
        /\ closeLocked("other")
        /\ WL("done")
        /\ UNCHANGED <<writeErrCh, reqErrCh>>
  /\ UNCHANGED <<canceledErr, expected, nwrite, reused, pooled, holder, writech, reqch, continueCh,
                 waitForBodyRead, cancelVars, rt, rl, body, reqVars, netVars>>

----------------------------------------------------------------------------
(* readLoop                                                                *)

RL(pos) == rl' = [rl EXCEPT !.at = pos]

\* Data that has been received can be read after the conn is closed, if it
\* is buffered; there is none after the server's EOF.
ReadFails == closed # "nil" \/ (srvClosed /\ wire = <<>>)

\* Peek(1) returns.
readLoopPeek ==
  /\ rl.at = "peek"
  /\ \E e \in {"nil", "EOF", "other"} :
       /\ e = "nil" => wire # <<>>
       /\ e = "EOF" => srvClosed /\ wire = <<>> /\ closed = "nil"
       /\ e = "other" => ReadFails
       /\ rl' = [rl EXCEPT !.at = "peeked", !.err = e]
  /\ UNCHANGED <<pcVars, chanVars, cancelVars, rt, wl, body, reqVars, netVars>>

\* Nobody expects a response: readLoopPeekFailLocked.  Otherwise roundTrip
\* is about to send its request.
readLoopExpects ==
  /\ rl.at = "peeked"
  /\ \/ /\ expected = 0
        /\ closeLocked(IF rl.err = "EOF" \/ (rl.err = "nil" /\ Head(wire).kind = "408")
                       THEN "serverClosedIdle" ELSE "other")
        /\ RL("exit")
     \/ /\ expected > 0
        /\ RL("reqch")
        /\ UNCHANGED closed
  /\ UNCHANGED <<canceledErr, expected, nwrite, reused, pooled, holder, chanVars, cancelVars, rt, wl,
                 body, reqVars, netVars>>

\* Mutant: the response is discounted when it is taken and when it is read.
readLoopTakesTwice ==
  /\ rl.at = "reqch" /\ reqch # <<>>
  /\ reqch' = <<>>
  /\ expected' = expected - 1
  /\ rl' = [rl EXCEPT !.req = Head(reqch), !.at = IF rl.err = "nil" THEN "read" ELSE "sendErr"]
  /\ UNCHANGED <<closed, canceledErr, nwrite, reused, pooled, holder, writech, writeErrCh, reqErrCh,
                 continueCh, waitForBodyRead, cancelVars, rt, wl, body, reqVars, netVars>>

readLoopTakes ==
  /\ rl.at = "reqch" /\ reqch # <<>>
  /\ reqch' = <<>>
  /\ rl' = [rl EXCEPT !.req = Head(reqch),
                      !.at = IF rl.err = "nil" THEN "read" ELSE "sendErr",
                      !.err = IF rl.err = "nil" THEN "nil" ELSE "readFromServer",
                      !.closeErr = IF rl.err = "nil" THEN @ ELSE "readFromServer"]
  /\ UNCHANGED <<pcVars, writech, writeErrCh, reqErrCh, continueCh, waitForBodyRead, cancelVars, rt,
                 wl, body, reqVars, netVars>>

\* readResponse meets a 100 (Continue), and goes on.
readContinue ==
  /\ rl.at = "read" /\ wire # <<>> /\ Head(wire).kind = "100"
  /\ wire' = Tail(wire)
  /\ continueCh' = [continueCh EXCEPT ![rl.req] = IF @ = "open" THEN "sent" ELSE @]
  /\ UNCHANGED <<pcVars, writech, reqch, writeErrCh, reqErrCh, waitForBodyRead, cancelVars, rt, rl,
                 wl, body, reqVars, sent, full, srv, srvClosed>>

\* readResponse returns the final response, or an error.
readResponse ==
  /\ rl.at = "read" /\ wire # <<>> /\ Head(wire).kind # "100"
  /\ wire' = Tail(wire)
  /\ continueCh' = [continueCh EXCEPT ![rl.req] = IF @ = "open" THEN "closed" ELSE @]
  /\ expected' = expected - 1
  /\ rl' = [rl EXCEPT !.resp = Head(wire),
                      !.at = IF Head(wire).kind = "body" THEN "send" ELSE "replace",
                      !.alive = Head(wire).kind \in {"empty", "body"},
                      !.closeErr = IF Head(wire).kind = "switch" THEN "owned" ELSE @]
  /\ UNCHANGED <<closed, canceledErr, nwrite, reused, pooled, holder, writech, reqch, writeErrCh,
                 reqErrCh, waitForBodyRead, cancelVars, rt, wl, body, reqVars, sent, full, srv,
                 srvClosed>>

readResponseFails ==
  /\ rl.at = "read" /\ ReadFails
  /\ rl' = [rl EXCEPT !.at = "sendErr", !.err = "other"]
  /\ UNCHANGED <<pcVars, chanVars, cancelVars, rt, wl, body, reqVars, netVars>>

\* rc.ch <- responseAndError{err: err}, or roundTrip has returned.
Gone(r) == rt[r].at \in {"failed", "error", "retry"}

sendErr ==
  /\ rl.at = "sendErr"
  /\ \/ /\ rt[rl.req].at = "select"
        /\ rt' = [rt EXCEPT ![rl.req].at = "map", ![rl.req].err = rl.err]
     \/ Gone(rl.req) /\ UNCHANGED rt
  /\ RL("exit")
  /\ UNCHANGED <<pcVars, chanVars, cancelVars, wl, body, reqVars, netVars>>

HadBody == rl.resp.kind = "body"

\* rc.ch <- responseAndError{res: resp}, before the body is read or, if
\* there is none, after the conn has been put back.
sendResponse ==
  LET r == rl.req IN
  /\ rl.at = "send"
  /\ \/ /\ rt[r].at = "select"
        /\ rt' = [rt EXCEPT ![r].at = "response", ![r].got = rl.resp.req]
        /\ body' = IF HadBody THEN [body EXCEPT ![r] = "open"] ELSE body
        /\ waitForBodyRead' = IF HadBody THEN <<>> ELSE waitForBodyRead
        /\ RL(IF HadBody THEN "waitBody" ELSE IF rl.alive THEN "peek" ELSE "exit")
     \/ Gone(r) /\ RL("exit") /\ UNCHANGED <<rt, body, waitForBodyRead>>
  /\ UNCHANGED <<pcVars, writech, reqch, writeErrCh, reqErrCh, continueCh, cancelVars, wl, reqVars,
                 netVars>>

\* Mutant: the conn is kept although the body has not been read to its end.
bodyReadAny ==
  /\ rl.at = "waitBody" /\ waitForBodyRead # <<>>
  /\ waitForBodyRead' = Tail(waitForBodyRead)
  /\ rl' = [rl EXCEPT !.at = "replace", !.bodyEOF = Head(waitForBodyRead)]
  /\ UNCHANGED <<pcVars, writech, reqch, writeErrCh, reqErrCh, continueCh, cancelVars, rt, wl, body,
                 reqVars, netVars>>

\* The caller has read the body to its end, has met an error or has closed it early.
bodyRead ==
  /\ rl.at = "waitBody" /\ waitForBodyRead # <<>>
  /\ waitForBodyRead' = Tail(waitForBodyRead)
  /\ rl' = [rl EXCEPT !.at = "replace", !.bodyEOF = Head(waitForBodyRead),
                      !.alive = @ /\ Head(waitForBodyRead)]
  /\ UNCHANGED <<pcVars, writech, reqch, writeErrCh, reqErrCh, continueCh, cancelVars, rt, wl, body,
                 reqVars, netVars>>

\* ... or the request is canceled or the conn closed meanwhile.
bodyAbandoned ==
  /\ rl.at = "waitBody"
  /\ \/ rl.req \in ctxDone \cup cancelFired /\ cancelRequest(rl.req)
     \/ closed # "nil" /\ UNCHANGED <<closed, canceledErr, canceler>>
  /\ rl' = [rl EXCEPT !.at = "exit", !.alive = FALSE]
  /\ UNCHANGED <<expected, nwrite, reused, pooled, holder, chanVars, ctxDone, cancelFired, rt, wl,
                 body, reqVars, netVars>>

\* Where readLoop goes once it is known whether the conn is kept alive.
Recycled(a) == rl' = [rl EXCEPT !.alive = a, !.at = IF ~HadBody THEN "send" ELSE
                                  IF rl.bodyEOF THEN "eofc" ELSE IF a THEN "peek" ELSE "exit"]

\* Mutant: the request stays cancelable after its conn has gone back.
replaceCancelerNot ==
  /\ rl.at = "replace"
  /\ IF rl.alive THEN rl' = [rl EXCEPT !.at = "wrote", !.replaced = rl.req \in canceler]
     ELSE Recycled(FALSE)
  /\ UNCHANGED <<pcVars, chanVars, cancelVars, rt, wl, body, reqVars, netVars>>

\* replaceReqCanceler(rc.cancelKey, nil), and whether EOF has been seen.
replaceCanceler ==
  /\ rl.at = "replace"
  /\ canceler' = canceler \ {rl.req}
  /\ \E sawEOF \in BOOLEAN :
       /\ sawEOF => srvClosed /\ wire = <<>>
       /\ IF rl.alive /\ ~sawEOF
          THEN rl' = [rl EXCEPT !.at = "wrote", !.replaced = rl.req \in canceler]
          ELSE Recycled(FALSE)
  /\ UNCHANGED <<pcVars, chanVars, ctxDone, cancelFired, rt, wl, body, reqVars, netVars>>

\* Mutant: the conn is kept if the write has not ended in time.
wroteRequestMaybe ==
  /\ rl.at = "wrote"
  /\ writeErrCh' = <<>>
  /\ IF rl.replaced THEN RL("put") ELSE Recycled(FALSE)
  /\ UNCHANGED <<pcVars, writech, reqch, reqErrCh, continueCh, waitForBodyRead, cancelVars, rt, wl,
                 body, reqVars, netVars>>

\* wroteRequest: the outcome of the write, or "not yet" after
\* maxWriteWaitBeforeConnReuse.
wroteRequest ==
  /\ rl.at = "wrote"
  /\ \/ /\ writeErrCh # <<>>
        /\ writeErrCh' = <<>>
        /\ IF Head(writeErrCh) = "nil" /\ rl.replaced THEN RL("put") ELSE Recycled(FALSE)
     \/ /\ writeErrCh = <<>>
        /\ Recycled(FALSE)
        /\ UNCHANGED writeErrCh
  /\ UNCHANGED <<pcVars, writech, reqch, reqErrCh, continueCh, waitForBodyRead, cancelVars, rt, wl,
                 body, reqVars, netVars>>

readLoopPuts ==
  /\ rl.at = "put"
  /\ \/ putAccepted /\ Recycled(TRUE)
     \/ putRefused /\ Recycled(FALSE)
  /\ UNCHANGED <<closed, canceledErr, expected, nwrite, holder, chanVars, cancelVars, rt, wl, body,
                 reqVars, netVars>>

\* eofc <- struct{}{}: the caller's last Read of the body returns.
sendEofc ==
  /\ rl.at = "eofc" /\ body[rl.req] = "eof"
  /\ body' = [body EXCEPT ![rl.req] = "done"]
  /\ RL(IF rl.alive THEN "peek" ELSE "exit")
  /\ UNCHANGED <<pcVars, chanVars, cancelVars, rt, wl, reqVars, netVars>>

\* The deferred calls: close(eofc), pc.close(closeErr), removeIdleConn.
readLoopExits ==
  /\ rl.at = "exit"
  /\ RL("done")
  /\ closeLocked(rl.closeErr)
  /\ pooled' = FALSE
  /\ UNCHANGED <<canceledErr, expected, nwrite, reused, holder, chanVars, cancelVars, rt, wl, body,
                 reqVars, netVars>>

----------------------------------------------------------------------------
(* The caller's use of the response body (bodyEOFSignal)                   *)

\* Read sees the end of the body, or an error, of which fn tells readLoop
\* without waiting for it.  Close tells it again, unless Read has seen the
\* end, and waits (earlyCloseFn).
bodyStep(r) ==
  /\ \/ /\ body[r] = "open" /\ wire # <<>> /\ Head(wire) = [kind |-> "end", req |-> r]
        /\ wire' = Tail(wire)
        /\ body' = [body EXCEPT ![r] = "eof"]
        /\ waitForBodyRead' = Append(waitForBodyRead, TRUE)
     \/ /\ body[r] = "open" /\ ReadFails
        /\ body' = [body EXCEPT ![r] = "failed"]
        /\ waitForBodyRead' = Append(waitForBodyRead, FALSE)
        /\ UNCHANGED wire
     \/ /\ body[r] \in {"open", "failed"}
        /\ body' = [body EXCEPT ![r] = "close"]
        /\ waitForBodyRead' = Append(waitForBodyRead, FALSE)
        /\ UNCHANGED wire
  /\ UNCHANGED <<pcVars, writech, reqch, writeErrCh, reqErrCh, continueCh, cancelVars, rt, rl, wl,
                 reqVars, sent, full, srv, srvClosed>>

\* Mutant: readLoop ends without closing eofc.
bodyForgotten(r) == FALSE /\ UNCHANGED vars

\* eofc has been closed.
bodyReleased(r) ==
  /\ body[r] \in {"eof", "close"} /\ rl.at = "done"
  /\ body' = [body EXCEPT ![r] = "done"]
  /\ UNCHANGED <<pcVars, chanVars, cancelVars, rt, rl, wl, reqVars, netVars>>

----------------------------------------------------------------------------
(* The server: it answers the requests it receives one after the other,    *)
(* possibly before it has seen all of one.                                 *)

Says(r, kind, state) ==
  /\ wire' = Append(wire, [kind |-> kind, req |-> r])
  /\ srv' = [srv EXCEPT ![r] = state]

serverAnswers(r) ==
  /\ ~srvClosed /\ closed \in {"nil", "owned"} /\ r \in sent
  /\ \A q \in sent \ {r} : srv[q] = "end"
  /\ \/ r \in Expects /\ srv[r] = "none" /\ Says(r, "100", "100")
     \/ srv[r] \in {"none", "100"} /\ \E kind \in Answers :
           Says(r, kind, IF kind = "body" THEN "head" ELSE "end")
     \/ srv[r] = "head" /\ Says(r, "end", "end")
  /\ UNCHANGED <<pcVars, chanVars, cancelVars, rt, rl, wl, body, reqVars, sent, full, srvClosed>>

\* The server closes the conn, perhaps with a 408 (Request Timeout).
serverCloses ==
  /\ ~srvClosed /\ closed \in {"nil", "owned"}
  /\ srvClosed' = TRUE
  /\ \/ UNCHANGED wire
     \/ /\ \A q \in sent : srv[q] = "end"
        /\ wire' = Append(wire, [kind |-> "408", req |-> NoReq])
  /\ UNCHANGED <<pcVars, chanVars, cancelVars, rt, rl, wl, body, reqVars, sent, full, srv>>

----------------------------------------------------------------------------
\* A new conn: the dial has delivered it to a request, or nobody wanted it
\* any more and it went to the pool, which marks it reused.
Init ==
  /\ closed = "nil" /\ canceledErr = FALSE /\ expected = 0 /\ nwrite = 0
  /\ reused \in BOOLEAN /\ pooled = TRUE /\ holder = NoReq
  /\ writech = <<>> /\ reqch = <<>> /\ writeErrCh = <<>> /\ waitForBodyRead = <<>>
  /\ reqErrCh = [r \in Reqs |-> "empty"]
  /\ continueCh = [r \in Reqs |-> "nil"]
  /\ canceler = {} /\ ctxDone = {} /\ cancelFired = {}
  /\ rt = [r \in Reqs |-> [at |-> "new", err |-> "nil", startBytesWritten |-> 0, got |-> NoReq,
                           timer |-> FALSE, pcClosed |-> TRUE, canceled |-> FALSE,
                           cancelChan |-> TRUE, ctxDoneChan |-> TRUE]]
  /\ rl = [at |-> "peek", req |-> NoReq, err |-> "nil", alive |-> TRUE, closeErr |-> "other",
           resp |-> [kind |-> "none", req |-> NoReq], bodyEOF |-> FALSE, replaced |-> FALSE]
  /\ wl = [at |-> "select", req |-> NoReq, start |-> 0, err |-> "nil"]
  /\ body = [r \in Reqs |-> "none"]
  /\ reqErr = {} /\ bodyUsed = {} /\ bodyClosed = {}
  /\ sent = {} /\ full = {} /\ wire = <<>> /\ srvClosed = FALSE
  /\ srv = [r \in Reqs |-> "none"]

roundTrip(r) ==
  \/ roundTripCanceled(r) \/ roundTripBegins(r) \/ sendWritech(r) \/ sendReqch(r)
  \/ selectWriteErr(r) \/ selectClosed(r) \/ selectTimeout(r) \/ selectCancel(r) \/ selectCtxDone(r)
  \/ mapRoundTripError(r) \/ afterFailure(r)

writeLoop ==
  \/ writeLoopTakes \/ writeLoopQuits \/ writeHead \/ waitForContinue \/ writeFlush \/ writeFails
  \/ reportWriteErr

readLoop ==
  \/ readLoopPeek \/ readLoopExpects \/ readLoopTakes \/ readContinue \/ readResponse
  \/ readResponseFails \/ sendErr \/ sendResponse \/ bodyRead \/ bodyAbandoned \/ replaceCanceler
  \/ wroteRequest \/ readLoopPuts \/ sendEofc \/ readLoopExits

Next ==
  \/ \E r \in Reqs : \/ getConn(r) \/ roundTrip(r) \/ CancelRequest(r) \/ userCancels(r)
                     \/ bodyStep(r) \/ bodyReleased(r) \/ serverAnswers(r)
  \/ writeLoop \/ writeBody \/ readLoop \/ closeIdle \/ serverCloses

Spec == Init /\ [][Next]_vars

\* Goroutines run, timers fire, and reading a request's body comes to an end.
\* The server owes nothing, nor does the user.
LoopFairness ==
  /\ \A r \in Reqs : WF_vars(roundTrip(r)) /\ WF_vars(bodyReleased(r))
  /\ WF_vars(writeLoop) /\ WF_vars(readLoop)

FairSpec == Spec /\ LoopFairness /\ WF_vars(writeBody)

----------------------------------------------------------------------------
(* Properties                                                              *)

InFlight == {"start", "writech", "reqch", "select", "map", "failed"}

\* Every variable stays in the set the code's types and channel capacities give it.
TypeOK ==
  /\ closed \in Errors /\ canceledErr \in BOOLEAN /\ expected \in Nat /\ nwrite \in Nat
  /\ reused \in BOOLEAN /\ pooled \in BOOLEAN /\ holder \in Reqs \cup {NoReq}
  /\ writech \in BoundedSeq(Reqs, 1) /\ reqch \in BoundedSeq(Reqs, 1)
  /\ writeErrCh \in BoundedSeq(Errors, 1) /\ waitForBodyRead \in BoundedSeq(BOOLEAN, 2)
  /\ reqErrCh \in [Reqs -> Errors \cup {"empty"}]
  /\ continueCh \in [Reqs -> {"nil", "open", "sent", "closed"}]
  /\ canceler \subseteq Reqs /\ ctxDone \subseteq Reqs /\ cancelFired \subseteq Reqs
  /\ \A r \in Reqs : /\ rt[r].at \in InFlight \cup {"new", "response", "error", "retry"}
                     /\ rt[r].err \in Errors /\ rt[r].got \in Reqs \cup {NoReq}
                     /\ rt[r].startBytesWritten \in 0 .. nwrite
  /\ rl.at \in {"peek", "peeked", "reqch", "read", "sendErr", "replace", "wrote", "put", "send",
                "waitBody", "eofc", "exit", "done"}
  /\ rl.req \in Reqs \cup {NoReq} /\ rl.closeErr \in Errors
  /\ wl.at \in {"select", "head", "continue", "body", "flush", "writeErrCh", "reqErrCh", "close",
                "done"}
  /\ wl.req \in Reqs \cup {NoReq} /\ wl.err \in Errors
  /\ body \in [Reqs -> {"none", "open", "eof", "failed", "close", "done"}]
  /\ reqErr \subseteq Reqs /\ bodyClosed \subseteq bodyUsed /\ bodyUsed \subseteq HasBody
  /\ full \subseteq sent /\ sent \subseteq Reqs /\ srvClosed \in BOOLEAN

\* A request is given the response to itself, never what the conn still
\* carried for an earlier one (a 408 is the server's farewell to an idle conn
\* and may cross the next request on its way).
RightResponse == \A r \in Reqs : rt[r].at = "response" => rt[r].got \in {r, NoReq}

\* A conn in the pool is as good as new: no message of an earlier request is
\* left in a channel or on the wire, no caller still reads from it, and
\* writeLoop has nothing more to write.
CleanWhenPooled ==
  pooled /\ closed = "nil" =>
    /\ expected = 0 /\ writech = <<>> /\ reqch = <<>> /\ writeErrCh = <<>>
    /\ wl.at = "select" \/ (wl.at = "reqErrCh" /\ wl.err = "nil")
    /\ \A i \in DOMAIN wire : wire[i].kind = "408"
    /\ \A r \in Reqs : body[r] \in {"none", "eof", "done"}

\* Responses go to their requests, and a conn that is used again starts clean.
ResponsesMatch == TypeOK /\ RightResponse /\ CleanWhenPooled

\* A conn is kept for the next request only after the one before it has been
\* written entirely ("the previous write happened and was successful").
SentWhole == pooled => sent \subseteq full

\* When RoundTrip has failed, writeLoop no longer uses the request: its caller
\* may change it, and a retry may use its body.
WriterQuiet ==
  \A r \in Reqs : rt[r].at \in {"failed", "error", "retry"} =>
    ~(wl.req = r /\ wl.at \in {"head", "continue", "body", "flush"})

\* A request of which the server may have seen a part is sent again only if it
\* is replayable.
RetrySafe == \A r \in Reqs : rt[r].at = "retry" /\ r \in sent => isReplayable(r)

\* When RoundTrip returns an error the request's body has been closed.
BodyClosedOnError == \A r \in Reqs : rt[r].at = "error" /\ r \in HasBody => r \in bodyClosed

\* Canceling a request closes the conn it uses, never one that has gone to the
\* pool or to another request.
CancelHitsOwnConn == \A r \in canceler : holder = r /\ ~pooled

\* A conn that is left open for its caller after a 101 has reached the caller.
OwnedIsDelivered ==
  closed = "owned" => rl.resp.kind = "switch" /\ rt[rl.req].at = "response"

\* When a conn changes hands, to the pool or to the caller, the request that
\* used it no longer reaches it and the new owner does.
ConnHandedOver == CancelHitsOwnConn /\ OwnedIsDelivered

\* A roundTrip returns once its context is done or its conn is closed, with one
\* source of cancellation: the select forgets the first when the second fires.
RoundTripEnds ==
  \A r \in Reqs : (rt[r].at \in InFlight /\ (r \in ctxDone \/ closed # "nil"))
                    ~> rt[r].at \in {"response", "error", "retry"} \/ r \in ctxDone \cap cancelFired

\* Both loops of a closed conn end.
LoopsEnd == closed # "nil" ~> rl.at = "done" /\ wl.at = "done"

\* A caller at the end of a body, or closing it, is let go.
BodyIsReleased == \A r \in Reqs : body[r] \in {"eof", "close"} ~> body[r] = "done"

\* Nobody is left waiting when a conn closes: readLoop, writeLoop and the
\* reader of a body, who wait for each other, all come to an end.
LoopsAndReadersEnd == LoopsEnd /\ BodyIsReleased
=============================================================================
