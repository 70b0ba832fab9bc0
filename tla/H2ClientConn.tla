---------------------------- MODULE H2ClientConn ----------------------------
(***************************************************************************)
(* The HTTP/2 client: the connection pool of one address, the connections  *)
(* (http2ClientConn) with their read loops and timers, and for each        *)
(* request the goroutine of its caller (RoundTripOpt, RoundTrip, then the  *)
(* reads of the response body) and the goroutine that sends it (doRequest).*)
(*                                                                         *)
(* A request is tried again on a new clientStream, so streams are named by *)
(* attempts <<request, number>>.  Steps are the sections of cc.mu, wmu or  *)
(* the pool's lock; what a server sends is a script per connection.  Bytes *)
(* are small numbers and errors are named by what the code tells apart.    *)
(***************************************************************************)
EXTENDS Integers, Sequences, FiniteSets, SequencesExt

CONSTANTS
  Reqs,            \* requests, all to one address
  Conns,           \* 1 .. the connections that may be made
  Scenarios,       \* [reqs, scripts, may]: the requests, what each connection's server
                   \* sends, and which configuration and events there are
  MaxRetry,        \* 6 in the code: retries after the first failure
  InitialStreams,  \* initialMaxConcurrentStreams
  DefaultStreams,  \* defaultMaxConcurrentStreams
  PeerWindow,      \* initialWindowSize: what the server grants at first
  StreamFlow, ConnFlow,  \* what we grant: transportDefaultStreamFlow and ConnFlow
  MinRefresh,      \* inflowMinRefresh
  FrameSize,       \* the peer's SETTINGS_MAX_FRAME_SIZE
  MaxWindow,       \* 2^31 - 1
  MaxId,           \* MaxInt32, the end of the stream identifiers
  Max1xx           \* max1xxResponses

Attempts == Reqs \X (1 .. MaxRetry + 2)
None == <<>>
Ended == {"ok", "failed", "closed"}   \* where a caller's goroutine may end

\* The codes of RST_STREAM that the client tells apart.
fromPeer == {"refused", "protoPeer", "peerReset"}

\* What a server may send: fields that do not belong to the kind are ignored,
\* -1 is a length or setting that is not there, "early" a frame that does not
\* wait for the HEADERS of its stream.
Frame ==
  [kind : STRING, id : Nat, n : Nat, pad : Nat, end : BOOLEAN, early : BOOLEAN, status : STRING,
   decl : Nat \cup {-1}, last : Nat, code : fromPeer, ack : BOOLEAN, max : Nat \cup {-1},
   win : Nat \cup {-1}]

ASSUME SizeAssumption == IsFiniteSet(Reqs) /\ Conns \subseteq Nat \ {0} /\ MaxRetry \in Nat

ASSUME WindowAssumption == {PeerWindow, StreamFlow, ConnFlow} \subseteq 1 .. MaxWindow

\* A server does not take back what a GOAWAY said (RFC 7540, 6.8): the last
\* stream of a later one is not higher.
ASSUME ScenarioAssumption ==
  \A s \in Scenarios :
    /\ s.scripts \in [Conns -> Seq(Frame)]
    /\ \A c \in Conns : \A i, j \in DOMAIN s.scripts[c] :
         i < j /\ s.scripts[c][i].kind = "goaway" /\ s.scripts[c][j].kind = "goaway" =>
           s.scripts[c][j].last <= s.scripts[c][i].last

VARIABLES
  cc,      \* connection -> the fields of http2ClientConn
  cs,      \* attempt -> the fields of http2clientStream and its goroutine
  rq,      \* request -> the goroutine of its caller
  pool,    \* the connections of the address, clientConnPool.conns
  calls,   \* connection -> the dial that makes it, dialCall
  left,    \* connection -> frames its server has still to send
  rl,      \* connection -> the stream the read loop has yet to end
  desc,    \* request -> [body, decl, getBody, close, head, expect, trailer, bad]
  may      \* this run's events and configuration

vars == <<cc, cs, rq, pool, calls, left, rl, desc, may>>

newClientConn ==
  [up |-> FALSE, single |-> FALSE, next |-> 1, max |-> InitialStreams, gotSettings |-> FALSE, seen |-> FALSE,
   wantAck |-> TRUE, goAway |-> -1, closing |-> FALSE, closed |-> FALSE, noReuse |-> FALSE,
   reserved |-> 0, initWin |-> PeerWindow, flow |-> PeerWindow, avail |-> ConnFlow, unsent |-> 0,
   lost |-> 0, gone |-> FALSE, werr |-> FALSE, readerDone |-> FALSE, hdrMu |-> None, timer |-> FALSE,
   idle |-> "no", ping |-> FALSE, shut |-> "no", lastHdr |-> 0]

\* src is the request body this attempt reads: whether an earlier attempt closed it.
newStream ==
  [pc |-> "none", err |-> "", cc |-> 0, id |-> 0, in |-> FALSE, abort |-> "", sentHeaders |-> FALSE,
   sentEnd |-> FALSE, sent |-> "none", peerClosed |-> FALSE, resp |-> "none", redirect |-> FALSE,
   reqClosed |-> "no", stale |-> FALSE, toSend |-> 0, chunk |-> 0, eof |-> FALSE, woken |-> FALSE,
   flow |-> 0, avail |-> 0, unsent |-> 0, buf |-> 0, pipeErr |-> "", broken |-> FALSE, fed |-> 0,
   readClosed |-> FALSE, readAborted |-> FALSE, pastHeaders |-> FALSE, pastTrailers |-> FALSE,
   num1xx |-> 0, remain |-> -1, donec |-> FALSE, respHeaderRecv |-> FALSE,
   whole |-> FALSE, early |-> FALSE]

Init ==
  /\ \E s \in Scenarios : desc = s.reqs /\ left = s.scripts /\ may = s.may
  /\ cc = [c \in Conns |-> newClientConn]
  /\ cs = [a \in Attempts |-> newStream]
  /\ rq = [r \in Reqs |-> [pc |-> IF r \in DOMAIN desc THEN "get" ELSE "ok", k |-> 0, call |-> 0, err |-> "", got |-> 0, cancelled |-> FALSE]]
  /\ pool = <<>>
  /\ calls = [c \in Conns |-> [by |-> "", st |-> "none"]]
  /\ rl = [c \in Conns |-> None]

------------------------------------------------------------------------------
(* Helpers on the state *)

least(S) == CHOOSE x \in S : \A y \in S : x <= y
streams(f, c) == {a \in Attempts : f[a].cc = c /\ f[a].in}
pending(f, c) == {a \in Attempts : f[a].cc = c /\ f[a].pc = "pending"}
attempt(r) == <<r, rq[r].k>>
hasBody(a) == desc[a[1]].body > 0
cancelled(a) == rq[a[1]].cancelled

\* streamByID: a stream the read loop has reset no longer gets its frames.
streamByID(c, id) ==
  LET found == {a \in streams(cs, c) : cs[a].id = id /\ ~cs[a].readAborted}
  IN IF found = {} THEN None ELSE CHOOSE a \in found : TRUE

\* cond.Broadcast wakes the requests of the connection that wait for a slot
\* or for window.
Broadcast(f, c) ==
  [a \in Attempts |-> IF f[a].cc = c /\ f[a].pc \in {"pending", "flow"}
                      THEN [f[a] EXCEPT !.woken = TRUE] ELSE f[a]]

\* abortStreamLocked: the first error stays; the request body is closed by a
\* goroutine of its own.
aborted(f, a, e) ==
  [f EXCEPT ![a].abort = IF @ = "" THEN e ELSE @,
            ![a].reqClosed = IF @ = "no" /\ hasBody(a) THEN "closing" ELSE @]
abortStream(f, a, e) == Broadcast(aborted(f, a, e), f[a].cc)
abortAll(f, c, S, e) ==
  Broadcast([a \in Attempts |-> IF a \in S THEN aborted(f, a, e)[a] ELSE f[a]], c)

closeReqBody(a) ==
  /\ cs[a].reqClosed = "closing"
  /\ cs' = [cs EXCEPT ![a].reqClosed = "closed"]
  /\ UNCHANGED <<cc, rq, pool, calls, left, rl, desc, may>>

\* inflow.add: small updates wait for bigger ones.
refresh(x, n) ==
  LET u == x.unsent + n
  IN IF u < MinRefresh /\ u < x.avail THEN [x EXCEPT !.unsent = u]
     ELSE [x EXCEPT !.unsent = 0, !.avail = @ + u]

\* A write fails once the connection is closed or down, and the error sticks.
wrote(f, c) == [f EXCEPT ![c].werr = @ \/ f[c].gone]

closeForError(g, c) ==
  /\ cc' = [cc EXCEPT ![c].closed = TRUE, ![c].gone = TRUE]
  /\ cs' = abortAll(g, c, streams(g, c), "conn")

\* idleStateLocked.
canTakeNewRequest(f, g, c) ==
  /\ ~(f[c].single /\ f[c].next > 1)
  /\ \/ "strict" \in may
     \/ Cardinality(streams(g, c)) + f[c].reserved + 1 <= f[c].max
  /\ f[c].goAway = -1 /\ ~f[c].closed /\ ~f[c].closing /\ ~f[c].noReuse
  /\ f[c].next + 2 * Cardinality(pending(g, c)) < MaxId
  /\ f[c].idle # "tooIdle"

------------------------------------------------------------------------------
(* The pool and the caller of a request *)

\* RoundTrip makes a clientStream and starts doRequest.  Without GetBody a
\* retry has the body of the attempt before.
startRoundTrip(r, c) ==
  LET a == <<r, rq[r].k + 1>>
  IN /\ rq' = [rq EXCEPT ![r].k = @ + 1, ![r].pc = "wait"]
     /\ cs' = [cs EXCEPT ![a] =
                 [newStream EXCEPT !.pc = "lock", !.cc = c, !.toSend = desc[r].body,
                                   !.stale = /\ rq[r].k > 0 /\ hasBody(a) /\ ~desc[r].getBody
                                             /\ cs[attempt(r)].reqClosed # "no"]]

reserveNewRequest(r, c) ==
  /\ canTakeNewRequest(cc, cs, c)
  /\ cc' = [cc EXCEPT ![c].reserved = @ + 1]
  /\ startRoundTrip(r, c)

usable == {i \in DOMAIN pool : canTakeNewRequest(cc, cs, pool[i])}
dialing == {c \in Conns : calls[c].st = "dialing" /\ ~cc[c].single}
unmade == {c \in Conns : calls[c].st = "none"}

\* getStartDialLocked, and the connection of its own of a request that closes
\* it.  A dial beyond Conns fails.
startDial(r, single) ==
  IF unmade = {} THEN rq' = [rq EXCEPT ![r].pc = "failed", ![r].err = "dial"] /\ UNCHANGED <<cc, calls>>
  ELSE LET c == least(unmade)
       IN /\ calls' = [calls EXCEPT ![c] = [by |-> r, st |-> "dialing"]]
          /\ cc' = [cc EXCEPT ![c].single = single]
          /\ rq' = [rq EXCEPT ![r].pc = "dialing", ![r].call = c]

getClientConn(r) ==
  /\ rq[r].pc = "get"
  /\ \/ /\ desc[r].close /\ "noDial" \notin may
        /\ startDial(r, TRUE) /\ UNCHANGED cs
     \/ /\ ~desc[r].close \/ "noDial" \in may
        /\ usable # {} /\ reserveNewRequest(r, pool[least(usable)]) /\ UNCHANGED calls
     \/ /\ "noDial" \in may /\ usable = {}
        /\ rq' = [rq EXCEPT ![r].pc = "failed", ![r].err = "noCachedConn"]
        /\ UNCHANGED <<cc, cs, calls>>
     \/ /\ ~desc[r].close /\ "noDial" \notin may /\ usable = {}
        /\ IF dialing = {} THEN startDial(r, FALSE)
           ELSE /\ rq' = [rq EXCEPT ![r].pc = "dialing", ![r].call = CHOOSE c \in dialing : TRUE]
                /\ UNCHANGED <<cc, calls>>
        /\ UNCHANGED cs
  /\ UNCHANGED <<pool, left, rl, desc, may>>

\* dialCall.dial and newClientConn; addConnLocked for a shared connection.
dialed(c) ==
  /\ calls[c].st = "dialing"
  /\ \/ /\ calls' = [calls EXCEPT ![c].st = "ok"]
        /\ cc' = [cc EXCEPT ![c].up = TRUE, ![c].timer = "idleTimeout" \in may]
        /\ pool' = IF cc[c].single THEN pool ELSE Append(pool, c)
     \/ /\ "dialFails" \in may \/ rq[calls[c].by].cancelled
        /\ calls' = [calls EXCEPT ![c].st = IF rq[calls[c].by].cancelled THEN "canceled" ELSE "failed"]
        /\ UNCHANGED <<cc, pool>>
  /\ UNCHANGED <<cs, rq, left, rl, desc, may>>

\* After the dial: shouldRetryDial tries again when it was another request
\* whose context ended the dial.
gotDial(r) ==
  /\ rq[r].pc = "dialing"
  /\ LET c == rq[r].call
     IN \/ /\ calls[c].st = "ok" /\ cc[c].single
           /\ startRoundTrip(r, c) /\ UNCHANGED cc
        \/ calls[c].st = "ok" /\ ~cc[c].single /\ reserveNewRequest(r, c)
        \/ /\ \/ calls[c].st = "ok" /\ ~cc[c].single /\ ~canTakeNewRequest(cc, cs, c)
              \/ calls[c].st = "canceled" /\ calls[c].by # r
           /\ rq' = [rq EXCEPT ![r].pc = "get"] /\ UNCHANGED <<cc, cs>>
        \/ /\ calls[c].st = "failed" \/ (calls[c].st = "canceled" /\ calls[c].by = r)
           /\ rq' = [rq EXCEPT ![r].pc = "failed", ![r].err = "dial"] /\ UNCHANGED <<cc, cs>>
  /\ UNCHANGED <<pool, calls, left, rl, desc, may>>

\* addConnIfNeeded: a connection that the HTTP/1 transport dialed joins the
\* pool unless one there can take a request.
addConnIfNeeded(c) ==
  /\ "addConn" \in may /\ unmade # {} /\ c = least(unmade)
  /\ calls' = [calls EXCEPT ![c] = [by |-> "", st |-> "ok"]]
  /\ cc' = IF usable # {} THEN cc ELSE [cc EXCEPT ![c].up = TRUE, ![c].timer = "idleTimeout" \in may]
  /\ pool' = IF usable # {} THEN pool ELSE Append(pool, c)
  /\ UNCHANGED <<cs, rq, left, rl, desc, may>>

\* MarkDead and filterOutClientConn: a connection is in the pool once.
MarkDead(c) == pool' = RemoveFirst(pool, c)

MutantCanRetryError(e) == e \in {"unusable", "goaway", "refused", "protoPeer", "conn"}
\* canRetryError, shouldRetryRequest and the loop of RoundTripOpt; the first
\* retry is immediate.
canRetryError(e) == e \in {"unusable", "goaway", "refused", "protoPeer"}
shouldRetryRequest(r, e) ==
  canRetryError(e) /\ (desc[r].body = 0 \/ desc[r].getBody \/ e = "unusable")
roundTripErr(r, e) ==
  [rq EXCEPT ![r].err = e,
             ![r].pc = IF rq[r].k - 1 <= MaxRetry /\ shouldRetryRequest(r, e)
                       THEN IF rq[r].k = 1 THEN "get" ELSE "backoff"
                       ELSE "failed"]

backoff(r) ==
  /\ rq[r].pc = "backoff"
  /\ \/ rq' = [rq EXCEPT ![r].pc = "get"]
     \/ rq[r].cancelled /\ rq' = [rq EXCEPT ![r].pc = "failed", ![r].err = "cancel"]
  /\ UNCHANGED <<cc, cs, pool, calls, left, rl, desc, may>>

\* handleResponseHeaders: after an error status the rest of the request body
\* is not sent.
handleResponseHeaders(r) ==
  LET a == attempt(r)
  IN /\ rq[r].pc = "wait" /\ cs[a].resp # "none"
     /\ cs' = IF cs[a].redirect /\ hasBody(a) /\ cs[a].reqClosed = "no"
              THEN Broadcast([cs EXCEPT ![a].reqClosed = "closing"], cs[a].cc) ELSE cs
     /\ rq' = [rq EXCEPT ![r].pc = IF cs[a].resp # "noBody" THEN "reading"
                                   ELSE IF hasBody(a) THEN "ok" ELSE "waitDone"]
     /\ UNCHANGED <<cc, pool, calls, left, rl, desc, may>>

MutantRoundTripAborted(r) ==
  /\ rq[r].pc = "wait" /\ cs[attempt(r)].abort # ""
  /\ rq' = [rq EXCEPT ![r].pc = "waitAbort"]
  /\ UNCHANGED <<cc, cs, pool, calls, left, rl, desc, may>>
\* The other cases of RoundTrip's select: abort, unless the response is there
\* too, and the end of the context.
roundTripAborted(r) ==
  /\ rq[r].pc = "wait" /\ cs[attempt(r)].abort # "" /\ cs[attempt(r)].resp = "none"
  /\ rq' = [rq EXCEPT ![r].pc = "waitAbort"]
  /\ UNCHANGED <<cc, cs, pool, calls, left, rl, desc, may>>

roundTripCanceled(r) ==
  /\ rq[r].pc = "wait" /\ rq[r].cancelled
  /\ cs' = abortStream(cs, attempt(r), "cancel")
  /\ rq' = [rq EXCEPT ![r].pc = "cancelRequest"]
  /\ UNCHANGED <<cc, pool, calls, left, rl, desc, may>>

MutantCancelRequest(r) ==
  /\ rq[r].pc = "cancelRequest" /\ cs[attempt(r)].reqClosed = "closed"
  /\ rq' = [rq EXCEPT ![r].pc = "failed", ![r].err = "cancel"]
  /\ UNCHANGED <<cc, cs, pool, calls, left, rl, desc, may>>
cancelRequest(r) ==
  /\ rq[r].pc = "cancelRequest" /\ cs[attempt(r)].reqClosed # "closing"
  /\ rq' = [rq EXCEPT ![r].pc = "failed", ![r].err = "cancel"]
  /\ UNCHANGED <<cc, cs, pool, calls, left, rl, desc, may>>

waitDone(r) ==
  /\ rq[r].pc \in {"waitDone", "waitAbort"}
  /\ cs[attempt(r)].donec \/ rq[r].cancelled
  /\ \/ rq[r].pc = "waitAbort" /\ rq' = roundTripErr(r, cs[attempt(r)].abort)
     \/ rq[r].pc = "waitDone" /\ cs[attempt(r)].donec /\ rq' = [rq EXCEPT ![r].pc = "ok"]
     \/ /\ rq[r].pc = "waitDone" /\ rq[r].cancelled
        /\ rq' = [rq EXCEPT ![r].pc = "failed", ![r].err = "cancel"]
  /\ UNCHANGED <<cc, cs, pool, calls, left, rl, desc, may>>

cancel(r) ==
  /\ "cancel" \in may /\ r \in DOMAIN desc /\ ~rq[r].cancelled
  /\ rq' = [rq EXCEPT ![r].cancelled = TRUE]
  /\ UNCHANGED <<cc, cs, pool, calls, left, rl, desc, may>>

\* transportResponseBody.Read: what is read goes back to the windows, except
\* what exceeds the declared length.
Read(r) ==
  LET a == attempt(r)
      b == cs[a]
      c == b.cc
  IN /\ rq[r].pc = "reading"
     /\ \/ /\ b.resp = "body" /\ b.buf > 0
           /\ \E n \in {1, b.buf} :
                IF b.remain # -1 /\ n > b.remain
                THEN /\ cs' = abortStream([cs EXCEPT ![a].buf = @ - n, ![a].remain = 0], a, "tooMuch")
                     /\ cc' = [cc EXCEPT ![c].lost = @ + n]
                     /\ rq' = [rq EXCEPT ![r].pc = "readErr", ![r].got = @ + b.remain]
                ELSE /\ cs' = [cs EXCEPT ![a] = refresh([b EXCEPT !.buf = @ - n,
                                                           !.remain = IF @ = -1 THEN @ ELSE @ - n], n)]
                     /\ cc' = wrote([cc EXCEPT ![c] = refresh(@, n)], c)
                     /\ rq' = [rq EXCEPT ![r].got = @ + n]
        \/ /\ b.resp = "missing" \/ (b.resp = "body" /\ b.buf = 0 /\ b.pipeErr # "")
           /\ rq' = [rq EXCEPT ![r].pc = IF b.resp = "body" /\ b.pipeErr = "EOF" /\ b.remain <= 0
                                         THEN "eof" ELSE "readErr"]
           /\ UNCHANGED <<cc, cs>>
     /\ UNCHANGED <<pool, calls, left, rl, desc, may>>

\* transportResponseBody.Close: the unread bytes go back to the connection's
\* window, and the stream must end before Close returns.
Close(r) ==
  LET a == attempt(r)
      c == cs[a].cc
  IN /\ rq[r].pc \in {"reading", "eof", "readErr"}
     /\ IF cs[a].resp = "missing"
        THEN rq' = [rq EXCEPT ![r].pc = "closed"] /\ UNCHANGED <<cc, cs>>
        ELSE /\ cs' = abortStream([cs EXCEPT ![a].broken = TRUE, ![a].buf = 0], a, "bodyClosed")
             /\ cc' = IF cs[a].buf = 0 THEN cc ELSE wrote([cc EXCEPT ![c] = refresh(@, cs[a].buf)], c)
             /\ rq' = [rq EXCEPT ![r].pc = "bodyClose"]
     /\ UNCHANGED <<pool, calls, left, rl, desc, may>>

bodyClose(r) ==
  /\ rq[r].pc = "bodyClose" /\ (cs[attempt(r)].donec \/ rq[r].cancelled)
  /\ rq' = [rq EXCEPT ![r].pc = "closed"]
  /\ UNCHANGED <<cc, cs, pool, calls, left, rl, desc, may>>

------------------------------------------------------------------------------
(* doRequest: sending one attempt *)

done(f, a, e) == [f EXCEPT ![a].pc = "cleanup", ![a].err = e]

\* awaitOpenSlotForStreamLocked and addStreamLocked, with reqHeaderMu held.
awaitOpenSlot(f, g, a) ==
  LET c == g[a].cc
  IN IF ~canTakeNewRequest(f, g, c)
     THEN /\ cs' = done(g, a, "unusable")
          /\ cc' = [f EXCEPT ![c].hdrMu = None]
     ELSE IF Cardinality(streams(g, c)) < f[c].max
     THEN /\ cs' = [g EXCEPT ![a].pc = "headers", ![a].id = f[c].next, ![a].in = TRUE,
                             ![a].flow = f[c].initWin, ![a].avail = StreamFlow]
          /\ cc' = [f EXCEPT ![c].next = @ + 2, ![c].idle = "no", ![c].hdrMu = a,
                             ![c].noReuse = @ \/ desc[a[1]].close]
     ELSE /\ cs' = [g EXCEPT ![a].pc = "pending", ![a].woken = FALSE]
          /\ cc' = [f EXCEPT ![c].idle = "no", ![c].hdrMu = a]

\* What is wrong with the request's header fields is seen before it has a
\* stream (checkConnHeaders) or when they are encoded, after that; trailers
\* are encoded at the end of the body.
checkConnHeaders(a) == desc[a[1]].bad = "conn"
encodeHeadersFails(a) == desc[a[1]].bad = "encode"
encodeTrailersFails(a) == desc[a[1]].trailer /\ desc[a[1]].bad = "trailer"

decrStreamReservations(f, c) == [f EXCEPT ![c].reserved = IF @ > 0 THEN @ - 1 ELSE @]

MutantLock(a) ==
  LET c == cs[a].cc
  IN /\ cs[a].pc = "lock" /\ ~checkConnHeaders(a)
     /\ awaitOpenSlot([decrStreamReservations(cc, c) EXCEPT ![c].timer = FALSE], cs, a)
     /\ UNCHANGED <<rq, pool, calls, left, rl, desc, may>>
\* writeRequest up to the request's slot.
lock(a) ==
  LET c == cs[a].cc
  IN /\ cs[a].pc = "lock"
     /\ \/ checkConnHeaders(a) /\ cs' = done(cs, a, "badHeader") /\ UNCHANGED cc
        \/ ~checkConnHeaders(a) /\ cancelled(a) /\ cs' = done(cs, a, "cancel") /\ UNCHANGED cc
        \/ /\ ~checkConnHeaders(a) /\ cc[c].hdrMu = None
           /\ awaitOpenSlot([decrStreamReservations(cc, c) EXCEPT ![c].timer = FALSE], cs, a)
     /\ UNCHANGED <<rq, pool, calls, left, rl, desc, may>>

slotWoken(a) ==
  LET c == cs[a].cc
      g == [cs EXCEPT ![a].pc = "lock"]
  IN /\ cs[a].pc = "pending" /\ cs[a].woken
     /\ IF cs[a].abort # "" THEN cs' = done(cs, a, cs[a].abort) /\ cc' = [cc EXCEPT ![c].hdrMu = None]
        ELSE awaitOpenSlot(cc, g, a)
     /\ UNCHANGED <<rq, pool, calls, left, rl, desc, may>>

stopped(a) == cs[a].abort # "" \/ cancelled(a)
stopErrs(a) == ({cs[a].abort} \ {""}) \cup (IF cancelled(a) THEN {"cancel"} ELSE {})

encodeAndWriteHeaders(a) ==
  LET c == cs[a].cc
      d == desc[a[1]]
      on == [cs EXCEPT ![a].sentHeaders = TRUE]
  IN /\ cs[a].pc = "headers"
     /\ IF stopped(a) THEN (\E e \in stopErrs(a) : cs' = done(cs, a, e)) /\ cc' = [cc EXCEPT ![c].hdrMu = None]
        ELSE IF encodeHeadersFails(a)
        THEN cs' = done(cs, a, "badHeader") /\ cc' = [cc EXCEPT ![c].hdrMu = None]
        ELSE IF cc[c].gone
        THEN cs' = done(on, a, "write") /\ cc' = wrote([cc EXCEPT ![c].hdrMu = None], c)
        ELSE /\ cs' = [on EXCEPT ![a].sent = IF cs[a].id < cc[c].lastHdr THEN "illegal"
                                             ELSE IF d.body = 0 /\ ~d.trailer THEN "ended" ELSE "open",
                                 ![a].sentEnd = d.body = 0,
                                 ![a].pc = IF d.body = 0 THEN "await"
                                           ELSE IF d.expect THEN "expect" ELSE "body"]
             /\ cc' = [cc EXCEPT ![c].hdrMu = None, ![c].lastHdr = cs[a].id]
     /\ UNCHANGED <<rq, pool, calls, left, rl, desc, may>>

\* The wait for 100 Continue, which a timer ends too.
await100(a) ==
  /\ cs[a].pc = "expect"
  /\ \/ cs' = [cs EXCEPT ![a].pc = "body"]
     \/ \E e \in stopErrs(a) : cs' = done(cs, a, e)
  /\ UNCHANGED <<cc, rq, pool, calls, left, rl, desc, may>>

\* One Read of the request body in writeRequestBody.  A body of declared
\* length is read on to see its end; a closed body fails to read.
readBody(a) ==
  LET d == desc[a[1]]
      n == IF cs[a].toSend < FrameSize THEN cs[a].toSend ELSE FrameSize
      rest == cs[a].toSend - n
      over == d.decl # -1 /\ d.body - rest >= d.decl /\ (rest > 0 \/ d.body > d.decl)
  IN /\ cs[a].pc = "body"
     /\ \/ /\ cs[a].stale \/ cs[a].reqClosed # "no" \/ "bodyFails" \in may
           /\ cs' = IF cs[a].reqClosed # "no" THEN [cs EXCEPT ![a].pc = "await"] ELSE done(cs, a, "bodyRead")
        \/ /\ ~cs[a].stale /\ cs[a].reqClosed # "closed"
           /\ \E eof \in {rest = 0} \cup (IF d.decl = -1 /\ n > 0 THEN {FALSE} ELSE {}) :
                cs' = IF over THEN done(cs, a, "tooLong")
                      ELSE [cs EXCEPT ![a].toSend = rest, ![a].chunk = n, ![a].eof = eof, ![a].woken = TRUE,
                                      ![a].pc = IF n > 0 THEN "flow" ELSE "end"]
     /\ UNCHANGED <<cc, rq, pool, calls, left, rl, desc, may>>

available(c, a) == least({cs[a].flow, cc[c].flow})

\* awaitFlowControl and the write of the DATA frame it allows.
awaitFlowControl(a) ==
  LET c == cs[a].cc
      n == least({available(c, a), cs[a].chunk, FrameSize})
      last == cs[a].eof /\ n = cs[a].chunk
      end == last /\ ~desc[a[1]].trailer
  IN /\ cs[a].pc = "flow" /\ cs[a].woken
     /\ IF cc[c].closed THEN cs' = done(cs, a, "connClosed") /\ UNCHANGED cc
        ELSE IF cs[a].reqClosed # "no" THEN cs' = [cs EXCEPT ![a].pc = "await"] /\ UNCHANGED cc
        ELSE IF stopped(a) THEN (\E e \in stopErrs(a) : cs' = done(cs, a, e)) /\ UNCHANGED cc
        ELSE IF available(c, a) <= 0 THEN cs' = [cs EXCEPT ![a].woken = FALSE] /\ UNCHANGED cc
        ELSE /\ cc' = wrote([cc EXCEPT ![c].flow = @ - n], c)
             /\ cs' = IF cc[c].gone THEN done(cs, a, "write")
                      ELSE [cs EXCEPT ![a].flow = @ - n, ![a].chunk = @ - n, ![a].sentEnd = end,
                                      ![a].sent = IF @ # "open" THEN "illegal" ELSE IF end THEN "ended" ELSE @,
                                      ![a].pc = IF end THEN "await" ELSE IF last THEN "end"
                                                ELSE IF n = cs[a].chunk THEN "body" ELSE "flow"]
     /\ UNCHANGED <<rq, pool, calls, left, rl, desc, may>>

\* END_STREAM on its own, or with the trailers.
endRequest(a) ==
  LET c == cs[a].cc
  IN /\ cs[a].pc = "end"
     /\ IF cs[a].abort # "" THEN cs' = done(cs, a, cs[a].abort) /\ UNCHANGED cc
        ELSE IF encodeTrailersFails(a) THEN cs' = done(cs, a, "badHeader") /\ UNCHANGED cc
        ELSE IF cc[c].gone THEN cs' = done(cs, a, "write") /\ cc' = wrote(cc, c)
        ELSE /\ cs' = [cs EXCEPT ![a].sentEnd = TRUE, ![a].pc = "await",
                                 ![a].sent = IF @ # "open" THEN "illegal" ELSE "ended"]
             /\ UNCHANGED cc
     /\ UNCHANGED <<rq, pool, calls, left, rl, desc, may>>

\* The last wait of writeRequest.  Until it has taken respHeaderRecv, the timer
\* may win although the response is there.
awaitPeer(a) ==
  LET timed == "headerTimeout" \in may /\ ~cs[a].respHeaderRecv
  IN /\ cs[a].pc = "await"
     /\ \/ cs[a].peerClosed /\ cs' = done(cs, a, "")
        \/ timed /\ cs' = done(cs, a, "timeout")
        \/ timed /\ cs[a].resp # "none" /\ cs' = [cs EXCEPT ![a].respHeaderRecv = TRUE]
        \/ cs[a].abort # "" /\ cs' = done(cs, a, cs[a].abort)
        \/ cancelled(a) /\ cs' = done(cs, a, "cancel")
     /\ UNCHANGED <<cc, rq, pool, calls, left, rl, desc, may>>

------------------------------------------------------------------------------
(* cleanupWriteRequest *)

\* The reservation of a request without a stream goes back, and the body is
\* closed.
cleanupWriteRequest(a) ==
  LET c == cs[a].cc
  IN /\ cs[a].pc = "cleanup"
     /\ cc' = IF cs[a].id = 0 THEN decrStreamReservations(cc, c) ELSE cc
     /\ cs' = [cs EXCEPT ![a].pc = "settle", ![a].reqClosed = IF @ = "no" /\ hasBody(a) THEN "closing" ELSE @]
     /\ UNCHANGED <<rq, pool, calls, left, rl, desc, may>>

MutantPipeClosed(f, a, e) == [f EXCEPT ![a].pipeErr = e]
pipeClosed(f, a, e) == [f EXCEPT ![a].pipeErr = IF @ = "" THEN e ELSE @]

\* Once the body is closed: no error after both sides ended the stream.
settleError(a) ==
  LET e == IF cs[a].sentEnd /\ cs[a].peerClosed THEN "" ELSE cs[a].err
  IN /\ cs[a].pc = "settle" /\ cs[a].reqClosed # "closing"
     /\ cs' = [cs EXCEPT ![a].pc = IF e = "" THEN "rst" ELSE "abort", ![a].err = e]
     /\ UNCHANGED <<cc, rq, pool, calls, left, rl, desc, may>>

abortOwnStream(a) ==
  /\ cs[a].pc = "abort"
  /\ cs' = abortStream([cs EXCEPT ![a].pc = "rst"], a, cs[a].err)
  /\ UNCHANGED <<cc, rq, pool, calls, left, rl, desc, may>>

\* A stream that has not ended both ways is reset, unless the peer did.
writeStreamReset(a) ==
  LET e == cs[a].err
      reset == cs[a].sentHeaders /\ IF e = "" THEN ~cs[a].sentEnd ELSE e \notin fromPeer
  IN /\ cs[a].pc = "rst"
     /\ cs' = [cs EXCEPT ![a].pc = "pipe", ![a].sent = IF reset /\ @ # "illegal" THEN "reset" ELSE @]
     /\ cc' = IF reset THEN wrote(cc, cs[a].cc) ELSE cc
     /\ UNCHANGED <<rq, pool, calls, left, rl, desc, may>>

closeBufPipe(a) ==
  /\ cs[a].pc = "pipe"
  /\ cs' = pipeClosed([cs EXCEPT ![a].pc = "forget"], a, IF cs[a].err = "" THEN "canceled" ELSE cs[a].err)
  /\ UNCHANGED <<cc, rq, pool, calls, left, rl, desc, may>>

\* forgetStreamID: the last stream arms the idle timer, or closes a
\* connection that is not to be reused.
forgetStreamID(a) ==
  LET c == cs[a].cc
      g == [cs EXCEPT ![a].in = FALSE, ![a].pc = "finish"]
      last == streams(g, c) = {}
      closes == /\ last /\ cc[c].reserved = 0
                /\ cc[c].single \/ cc[c].noReuse \/ "noKeepAlives" \in may \/ cc[c].goAway # -1
  IN /\ cs[a].pc = "forget"
     /\ IF cs[a].id = 0 THEN cs' = g /\ UNCHANGED cc
        ELSE /\ cs' = Broadcast(g, c)
             /\ cc' = [cc EXCEPT ![c].closed = @ \/ closes, ![c].gone = @ \/ closes,
                                 ![c].timer = IF last THEN "idleTimeout" \in may ELSE @,
                                 ![c].idle = IF last /\ "idleTimeout" \in may THEN "idle" ELSE @]
     /\ UNCHANGED <<rq, pool, calls, left, rl, desc, may>>

\* A connection that failed to write is closed; then donec.
finish(a) ==
  LET c == cs[a].cc
      g == [cs EXCEPT ![a].pc = "done", ![a].donec = TRUE]
  IN /\ cs[a].pc = "finish"
     /\ IF cc[c].werr THEN closeForError(g, c) ELSE cs' = g /\ UNCHANGED cc
     /\ UNCHANGED <<rq, pool, calls, left, rl, desc, may>>

------------------------------------------------------------------------------
(* The read loop *)

\* What needs no SETTINGS before it: a frame that the framer rejects for its
\* stream is not looked at.
unordered == {"settings", "bad"}

\* The next frame of the server; on a stream, once its HEADERS are there.
reads(c, kind) ==
  /\ cc[c].up /\ ~cc[c].readerDone /\ rl[c] = None /\ left[c] # <<>>
  /\ LET f == Head(left[c]) IN f.kind = kind /\ (f.early \/ f.id <= cc[c].lastHdr)
  /\ kind \in unordered \/ cc[c].gotSettings
frame(c) == Head(left[c])
consumed(c) == left' = [left EXCEPT ![c] = Tail(@)]

MutantEndOfLoop(c) ==
  /\ MarkDead(c)
  /\ cc' = [cc EXCEPT ![c].closed = TRUE, ![c].gone = TRUE, ![c].readerDone = TRUE, ![c].timer = FALSE]
  /\ cs' = abortAll(cs, c, {a \in streams(cs, c) : cs[a].resp = "none"}, "conn")
  /\ left' = [left EXCEPT ![c] = <<>>]
  /\ UNCHANGED <<rq, calls, rl, desc, may>>
\* The end of the read loop and its cleanup: streams the server has not ended
\* fail.
endOfLoop(c) ==
  /\ MarkDead(c)
  /\ cc' = [cc EXCEPT ![c].closed = TRUE, ![c].gone = TRUE, ![c].readerDone = TRUE, ![c].timer = FALSE]
  /\ cs' = abortAll(cs, c, {a \in streams(cs, c) : ~cs[a].peerClosed}, "conn")
  /\ left' = [left EXCEPT ![c] = <<>>]
  /\ UNCHANGED <<rq, calls, rl, desc, may>>

readFails(c) ==
  /\ cc[c].up /\ ~cc[c].readerDone /\ rl[c] = None
  /\ \/ cc[c].gone
     \/ left[c] # <<>> /\ frame(c).kind = "eof"
     \/ left[c] # <<>> /\ ~cc[c].gotSettings /\ frame(c).kind \notin unordered
  /\ endOfLoop(c)

\* endStreamError.
streamError(c, a, e) ==
  /\ cs' = abortStream([cs EXCEPT ![a].readAborted = TRUE], a, e)
  /\ consumed(c)
  /\ UNCHANGED <<cc, rq, pool, calls, rl, desc, may>>
ignored(c) == consumed(c) /\ UNCHANGED <<cc, cs, rq, pool, calls, rl, desc, may>>

\* A frame of unknown type, and one that the framer rejects for its stream.
unknownFrame(c) == reads(c, "unknown") /\ ignored(c)
badFrame(c) ==
  /\ reads(c, "bad")
  /\ LET a == streamByID(c, frame(c).id)
     IN IF a = None THEN ignored(c) ELSE streamError(c, a, "proto")

processTrailers(c, a) ==
  IF cs[a].pastTrailers \/ ~frame(c).end THEN endOfLoop(c)
  ELSE /\ cs' = [cs EXCEPT ![a].pastTrailers = TRUE]
       /\ rl' = [rl EXCEPT ![c] = a]
       /\ consumed(c)
       /\ UNCHANGED <<cc, rq, pool, calls, desc, may>>

\* handleResponse for a final status: the kind of body the caller gets.
handleResponse(c, a) ==
  LET f == frame(c)
      resp == IF desc[a[1]].head THEN "noBody"
              ELSE IF ~f.end THEN "body" ELSE IF f.decl > 0 THEN "missing" ELSE "noBody"
  IN /\ cs' = [cs EXCEPT ![a].pastHeaders = TRUE, ![a].resp = resp, ![a].remain = f.decl,
                         ![a].redirect = f.status = "redirect", ![a].early = cs[a].abort = ""]
     /\ rl' = [rl EXCEPT ![c] = IF f.end THEN a ELSE None]
     /\ consumed(c)
     /\ UNCHANGED <<cc, rq, pool, calls, desc, may>>

unexpected(a, f) ==
  \/ cs[a].readClosed
  \/ ~cs[a].pastHeaders /\ f.status = "malformed"
  \/ ~cs[a].pastHeaders /\ f.status = "info" /\ (f.end \/ cs[a].num1xx + 1 > Max1xx)

processHeaders(c) ==
  /\ reads(c, "headers")
  /\ LET f == frame(c)
         a == streamByID(c, f.id)
     IN \/ a = None /\ ignored(c)
        \/ /\ a # None /\ unexpected(a, f)
           /\ streamError(c, a, "proto")
        \/ /\ a # None /\ ~cs[a].readClosed /\ cs[a].pastHeaders
           /\ processTrailers(c, a)
        \/ /\ a # None /\ ~cs[a].readClosed /\ ~cs[a].pastHeaders
           /\ f.status = "info" /\ ~f.end /\ cs[a].num1xx < Max1xx
           /\ cs' = [cs EXCEPT ![a].num1xx = @ + 1]
           /\ consumed(c) /\ UNCHANGED <<cc, rq, pool, calls, rl, desc, may>>
        \/ /\ a # None /\ ~cs[a].readClosed /\ ~cs[a].pastHeaders
           /\ f.status \in {"ok", "redirect"} /\ handleResponse(c, a)

\* inflow.take on the connection's window: n bytes arrive, and k of them go
\* back at once.
takeAndReturn(c, n, k) ==
  LET taken == [cc EXCEPT ![c].avail = cc[c].avail - n]
  IN wrote([taken EXCEPT ![c] = refresh(taken[c], k)], c)

MutantUnknownData(c) ==
  LET f == frame(c)
      n == f.n + f.pad
  IN IF f.id >= cc[c].next \/ n > cc[c].avail THEN endOfLoop(c)
     ELSE /\ cc' = [cc EXCEPT ![c].avail = @ - n]
          /\ consumed(c)
          /\ UNCHANGED <<cs, rq, pool, calls, rl, desc, may>>
\* DATA for a stream we have let go of only goes back to the window.
unknownData(c) ==
  LET f == frame(c)
      n == f.n + f.pad
  IN IF f.id >= cc[c].next \/ n > cc[c].avail THEN endOfLoop(c)
     ELSE /\ cc' = takeAndReturn(c, n, n)
          /\ consumed(c)
          /\ UNCHANGED <<cs, rq, pool, calls, rl, desc, may>>

processData(c) ==
  /\ reads(c, "data")
  /\ LET f == frame(c)
         a == streamByID(c, f.id)
         n == f.n + f.pad
         refused == cs[a].pipeErr # "" \/ cs[a].broken
     IN \/ a = None /\ unknownData(c)
        \/ /\ a # None /\ (cs[a].readClosed \/ ~cs[a].pastHeaders \/ (desc[a[1]].head /\ f.n > 0))
           /\ streamError(c, a, "proto")
        \/ /\ a # None /\ ~cs[a].readClosed /\ cs[a].pastHeaders /\ ~(desc[a[1]].head /\ f.n > 0)
           /\ IF n > cc[c].avail \/ n > cs[a].avail THEN endOfLoop(c)
              ELSE /\ cc' = takeAndReturn(c, n, IF refused THEN n ELSE f.pad)
                   /\ cs' = IF refused /\ f.n > 0
                            THEN abortStream([cs EXCEPT ![a].avail = @ - n, ![a].readAborted = TRUE], a, "pipe")
                            ELSE [cs EXCEPT ![a] = refresh([cs[a] EXCEPT !.avail = @ - n, !.buf = @ + f.n,
                                                                         !.fed = @ + f.n], f.pad)]
                   /\ rl' = [rl EXCEPT ![c] = IF f.end /\ ~(refused /\ f.n > 0) THEN a ELSE None]
                   /\ consumed(c)
                   /\ UNCHANGED <<rq, pool, calls, desc, may>>

\* endStream, which processHeaders and processData call last.
endStream(c) ==
  /\ rl[c] # None
  /\ cs' = [pipeClosed(cs, rl[c], "EOF") EXCEPT ![rl[c]].readClosed = TRUE, ![rl[c]].peerClosed = TRUE,
                                             ![rl[c]].whole = cs[rl[c]].pipeErr = ""]
  /\ rl' = [rl EXCEPT ![c] = None]
  /\ UNCHANGED <<cc, rq, pool, calls, left, desc, may>>

\* setGoAway: the streams that the server will not answer fail.
setGoAway(c, last) ==
  LET S == {a \in streams(cs, c) : cs[a].id > last}
  IN /\ cc' = [cc EXCEPT ![c].goAway = last]
     /\ cs' = IF S = {} THEN cs ELSE abortAll(cs, c, S, "goaway")

processGoAway(c) ==
  /\ reads(c, "goaway")
  /\ MarkDead(c)
  /\ setGoAway(c, frame(c).last)
  /\ consumed(c)
  /\ UNCHANGED <<rq, calls, rl, desc, may>>

\* processSettings: -1 is a setting that is not there.  A new initial window
\* changes the open streams', and only that wakes the waiting requests.
processSettings(c) ==
  /\ reads(c, "settings")
  /\ LET f == frame(c)
         delta == f.win - cc[c].initWin
         grown == [a \in Attempts |-> IF a \in streams(cs, c) /\ cs[a].flow + delta <= MaxWindow
                                      THEN [cs[a] EXCEPT !.flow = @ + delta] ELSE cs[a]]
     IN IF (f.ack /\ ~cc[c].wantAck) \/ f.win > MaxWindow THEN endOfLoop(c)
        ELSE /\ cc' = [cc EXCEPT ![c] =
                  IF f.ack THEN [cc[c] EXCEPT !.wantAck = FALSE, !.gotSettings = TRUE]
                  ELSE [cc[c] EXCEPT !.gotSettings = TRUE, !.seen = TRUE, !.werr = @ \/ cc[c].gone,
                                     !.max = IF f.max # -1 THEN f.max
                                             ELSE IF cc[c].seen THEN @ ELSE DefaultStreams,
                                     !.initWin = IF f.win # -1 THEN f.win ELSE @]]
             /\ cs' = IF f.ack \/ f.win = -1 THEN cs ELSE Broadcast(grown, c)
             /\ consumed(c)
             /\ UNCHANGED <<rq, pool, calls, rl, desc, may>>

processWindowUpdate(c) ==
  /\ reads(c, "window")
  /\ LET f == frame(c)
         a == streamByID(c, f.id)
         had == IF f.id = 0 THEN cc[c].flow ELSE cs[a].flow
     IN IF f.id # 0 /\ a = None THEN ignored(c)
        ELSE IF had + f.n > MaxWindow THEN endOfLoop(c)
        ELSE /\ cc' = IF f.id = 0 THEN [cc EXCEPT ![c].flow = @ + f.n] ELSE cc
             /\ cs' = Broadcast(IF f.id = 0 THEN cs ELSE [cs EXCEPT ![a].flow = @ + f.n], c)
             /\ consumed(c)
             /\ UNCHANGED <<rq, pool, calls, rl, desc, may>>

\* PROTOCOL_ERROR from the peer also ends the reuse of the connection.
processResetStream(c) ==
  /\ reads(c, "rst")
  /\ LET a == streamByID(c, frame(c).id)
     IN IF a = None THEN ignored(c)
        ELSE /\ cs' = abortStream(pipeClosed(cs, a, frame(c).code), a, frame(c).code)
             /\ cc' = [cc EXCEPT ![c].noReuse = @ \/ frame(c).code = "protoPeer"]
             /\ consumed(c)
             /\ UNCHANGED <<rq, pool, calls, rl, desc, may>>

\* PING is answered; its answer ends our health check.  PUSH_PROMISE was
\* refused in our settings.
processPing(c) ==
  /\ reads(c, "ping")
  /\ IF frame(c).ack THEN cc' = [cc EXCEPT ![c].ping = FALSE] ELSE ~cc[c].gone /\ UNCHANGED cc
  /\ consumed(c)
  /\ UNCHANGED <<cs, rq, pool, calls, rl, desc, may>>

processPushPromise(c) == reads(c, "push") /\ endOfLoop(c)

------------------------------------------------------------------------------
(* Timers, health checks and closing *)

idle(c) == streams(cs, c) = {} /\ cc[c].reserved = 0
closedIfIdle(S) ==
  [c \in Conns |-> IF c \in S /\ idle(c) THEN [cc[c] EXCEPT !.closed = TRUE, !.gone = TRUE] ELSE cc[c]]

onIdleTimeout(c) ==
  /\ cc[c].timer
  /\ cc' = [closedIfIdle({c}) EXCEPT ![c].timer = FALSE]
  /\ UNCHANGED <<cs, rq, pool, calls, left, rl, desc, may>>

\* tooIdleLocked: the wall clock has moved on while timers stood still.
suspend(c) ==
  /\ "suspend" \in may /\ cc[c].idle = "idle"
  /\ cc' = [cc EXCEPT ![c].idle = "tooIdle"]
  /\ UNCHANGED <<cs, rq, pool, calls, left, rl, desc, may>>

closeIdleConnections ==
  /\ "closeIdle" \in may /\ pool # <<>>
  /\ cc' = closedIfIdle(ToSet(pool))
  /\ may' = may \ {"closeIdle"}
  /\ UNCHANGED <<cs, rq, pool, calls, left, rl, desc>>

\* The network fails: reads and writes do from here on.
netDown(c) ==
  /\ "netDown" \in may /\ cc[c].up
  /\ cc' = [cc EXCEPT ![c].gone = TRUE]
  /\ may' = may \ {"netDown"}
  /\ UNCHANGED <<cs, rq, pool, calls, left, rl, desc>>

\* healthCheck: the answer races the timeout.
healthCheck(c) ==
  /\ "ping" \in may /\ cc[c].up /\ ~cc[c].readerDone
  /\ cc' = [cc EXCEPT ![c].ping = TRUE]
  /\ may' = may \ {"ping"}
  /\ UNCHANGED <<cs, rq, pool, calls, left, rl, desc>>

closeForLostPing(c) ==
  /\ cc[c].ping /\ ~cc[c].closed
  /\ closeForError(cs, c)
  /\ UNCHANGED <<rq, pool, calls, left, rl, desc, may>>

CloseConn(c) ==
  /\ "close" \in may /\ cc[c].up
  /\ closeForError(cs, c)
  /\ may' = may \ {"close"}
  /\ UNCHANGED <<rq, pool, calls, left, rl, desc>>

\* Shutdown: GOAWAY, then the wait for the streams, whose changes broadcast.
Shutdown(c) ==
  /\ "shutdown" \in may /\ cc[c].up
  /\ cc' = wrote([cc EXCEPT ![c].closing = TRUE, ![c].shut = IF cc[c].gone THEN "failed" ELSE "wait"], c)
  /\ may' = may \ {"shutdown"}
  /\ UNCHANGED <<cs, rq, pool, calls, left, rl, desc>>

shutdownDone(c) ==
  /\ cc[c].shut = "wait" /\ (streams(cs, c) = {} \/ cc[c].closed)
  /\ cc' = [cc EXCEPT ![c].closed = TRUE, ![c].gone = TRUE, ![c].shut = "done"]
  /\ UNCHANGED <<cs, rq, pool, calls, left, rl, desc, may>>

------------------------------------------------------------------------------
Caller(r) ==
  \/ getClientConn(r) \/ gotDial(r) \/ backoff(r) \/ handleResponseHeaders(r) \/ roundTripAborted(r)
  \/ roundTripCanceled(r) \/ cancelRequest(r) \/ waitDone(r) \/ bodyClose(r)

Sender(a) ==
  \/ lock(a) \/ slotWoken(a) \/ encodeAndWriteHeaders(a) \/ await100(a) \/ readBody(a)
  \/ awaitFlowControl(a) \/ endRequest(a) \/ awaitPeer(a) \/ cleanupWriteRequest(a)
  \/ settleError(a) \/ abortOwnStream(a) \/ writeStreamReset(a) \/ closeBufPipe(a)
  \/ forgetStreamID(a) \/ finish(a)

Reader(c) ==
  \/ unknownFrame(c) \/ badFrame(c) \/ processHeaders(c) \/ processData(c) \/ processGoAway(c) \/ processSettings(c)
  \/ processWindowUpdate(c) \/ processResetStream(c) \/ processPing(c) \/ processPushPromise(c)

Next ==
  \/ \E r \in Reqs : Caller(r) \/ cancel(r) \/ Read(r) \/ Close(r)
  \/ \E a \in Attempts : Sender(a) \/ closeReqBody(a)
  \/ \E c \in Conns :
       \/ Reader(c) \/ readFails(c) \/ endStream(c) \/ dialed(c) \/ addConnIfNeeded(c)
       \/ onIdleTimeout(c) \/ suspend(c) \/ healthCheck(c) \/ closeForLostPing(c)
       \/ netDown(c) \/ CloseConn(c) \/ Shutdown(c) \/ shutdownDone(c)
  \/ closeIdleConnections

Spec == Init /\ [][Next]_vars

\* Goroutines run: a step that stays possible is taken.  What the server
\* sends, what the caller does with a response and timers are free.
FairSpec ==
  /\ Spec
  /\ \A r \in Reqs : WF_vars(Caller(r))
  /\ \A a \in Attempts : WF_vars(Sender(a)) /\ WF_vars(closeReqBody(a))
  /\ \A c \in Conns : WF_vars(readFails(c)) /\ WF_vars(endStream(c)) /\ WF_vars(dialed(c))

------------------------------------------------------------------------------
(* Properties *)

\* Streams are opened on the wire in the order of their identifiers, and
\* nothing but RST_STREAM follows END_STREAM or RST_STREAM: reqHeaderMu covers
\* the choice of the identifier and the write of the HEADERS.
WireLegal == \A a \in Attempts : cs[a].sent # "illegal"

\* A request is sent again only if its HEADERS were not sent, the server refused
\* the stream, or its GOAWAY names no stream so high, however abort, response,
\* GOAWAY and loss of the connection were ordered.  The code also retries after
\* RST_STREAM with PROTOCOL_ERROR (canRetryError), which says nothing of whether
\* the request was processed; "protoPeer" allows it.
RetrySafe ==
  \A a \in Attempts :
    LET p == <<a[1], a[2] - 1>>
    IN a[2] > 1 /\ cs[a].pc # "none" =>
         /\ cs[p].resp = "none" \/ ~cs[p].early
         /\ \/ ~cs[p].sentHeaders
            \/ cs[p].abort \in {"refused", "protoPeer"}
            \/ cs[p].abort = "goaway" /\ cs[p].id > cc[cs[p].cc].goAway

\* Every byte of the connection's receive window is free, waits to be granted
\* again or lies in a body that is not closed yet: streams that end, reset or
\* close with data in flight do not shrink it.
CreditKept ==
  \A c \in Conns :
    cc[c].avail + cc[c].unsent + cc[c].lost
      + MapThenSumSet(LAMBDA a : cs[a].buf, {a \in Attempts : cs[a].cc = c}) = ConnFlow

\* The caller that reads EOF has the whole body, and a body that the server
\* ended before anything failed is never turned into an error by what follows
\* (the connection's end, the cleanup of the stream).
BodyWhole ==
  \A r \in Reqs : rq[r].k > 0 =>
    LET b == cs[attempt(r)]
    IN /\ rq[r].pc = "eof" => b.peerClosed /\ rq[r].got = b.fed /\ b.remain \in {-1, 0}
       /\ b.whole => b.pipeErr = "EOF"
       /\ rq[r].pc = "readErr" /\ b.whole => b.remain > 0 \/ b.abort # ""

\* A response that arrived before the stream failed is returned, unless the
\* context ended: RoundTrip prefers it to the abort.
ResponseKept ==
  \A r \in Reqs : rq[r].k > 0 /\ rq[r].pc = "failed" /\ cs[attempt(r)].early => rq[r].cancelled

\* What the server sent in full before anything failed reaches the caller.
ResponsesWhole == BodyWhole /\ ResponseKept

\* A closed connection lets go of its streams and of the requests that wait
\* for one, whatever they were doing.
ClosedDrains ==
  \A c \in Conns : cc[c].closed ~> streams(cs, c) = {} /\ pending(cs, c) = {}

\* RoundTrip returns once the request's context has ended, wherever it waits.
CancelReturns ==
  \A r \in Reqs : rq[r].cancelled ~> rq[r].pc \in Ended \cup {"reading", "eof", "readErr"}

\* Requests are let go when their connection is closed or their context ends.
RequestsLetGo == ClosedDrains /\ CancelReturns

\* The context controls the entire lifetime of a request: once it has ended,
\* the stream's goroutine finishes and with it the reads of the body.
CancelEndsStream ==
  \A a \in Attempts : cancelled(a) ~> cs[a].pc \in {"none", "done"}

\* The body of a request that is sent again without GetBody has not been used.
BodyUnused == \A a \in Attempts : cs[a].pc = "body" => ~cs[a].stale
==============================================================================
