-------------------------- MODULE H2ClientConnInv --------------------------
(***************************************************************************)
(* The inductive invariant of H2ClientConn, and the first half of its      *)
(* proof.  A stream has 35 fields and a connection 26, of which an action  *)
(* touches a few.  Step says, field by field, what the kinds of steps do   *)
(* to those the invariant is about; here every kind of step is shown to    *)
(* keep every part of the invariant, without opening an action.            *)
(* H2ClientConnProofs shows that every action is of one of the kinds.      *)
(***************************************************************************)
EXTENDS H2ClientConn, SeqLemmas

\* The fields of a stream, a connection and a call.
CsFields ==
  {"pc", "err", "cc", "id", "in", "abort", "sentHeaders", "sentEnd", "sent", "peerClosed", "resp",
   "redirect", "reqClosed", "stale", "toSend", "chunk", "eof", "woken", "flow", "avail", "unsent",
   "buf", "pipeErr", "broken", "fed", "readClosed", "readAborted", "pastHeaders", "pastTrailers",
   "num1xx", "remain", "donec", "respHeaderRecv", "whole", "early"}
CcFields ==
  {"up", "single", "next", "max", "gotSettings", "seen", "wantAck", "goAway", "closing", "closed",
   "noReuse", "reserved", "initWin", "flow", "avail", "unsent", "lost", "gone", "werr", "readerDone",
   "hdrMu", "timer", "idle", "ping", "shut", "lastHdr"}
RqFields == {"pc", "k", "call", "err", "got", "cancelled"}

\* f is a table of records: a function on D whose values have the fields F.
Table(f, D, F) == f = [a \in D |-> f[a]] /\ \A a \in D : f[a] = [x \in F |-> f[a][x]]

\* The state has the shape of Init.
Shapes ==
  /\ Table(cs, Attempts, CsFields) /\ Table(cc, Conns, CcFields) /\ Table(rq, Reqs, RqFields)
  /\ pool \in Seq(Conns)
  /\ left \in [Conns -> Seq(Frame)] /\ rl \in [Conns -> Attempts \cup {None}]

\* Numbers.
RowNumbers(a) == /\ cs[a].id \in Nat /\ cs[a].buf \in Nat /\ cs[a].fed \in Nat
                 /\ cs[a].remain \in Nat \cup {-1}
ConnNumbers(c) == /\ cc[c].next \in Nat /\ cc[c].lastHdr \in Nat /\ cc[c].goAway \in Nat \cup {-1}
                  /\ cc[c].avail \in Int /\ cc[c].unsent \in Int /\ cc[c].lost \in Int
                  /\ cc[c].lastHdr < cc[c].next
CallNumbers(r) == rq[r].k \in 0 .. MaxRetry + 2 /\ rq[r].got \in Int
Numbers ==
  /\ \A a \in Attempts : RowNumbers(a)
  /\ \A c \in Conns : ConnNumbers(c)
  /\ \A r \in Reqs : CallNumbers(r)

Waiting == {"none", "lock", "pending"}        \* no stream yet
Sending == {"expect", "body", "flow", "end"}  \* DATA may follow
Over == {"cleanup", "settle", "abort", "rst", "pipe", "forget", "finish", "done"}

\* reqHeaderMu: who holds it chooses the next identifier and writes it next.
SlotOf(a) ==
  /\ cs[a].pc # "none" => cs[a].cc \in Conns
  /\ cs[a].pc \in {"pending", "headers"} => cc[cs[a].cc].hdrMu = a
  /\ cs[a].pc = "headers" => cc[cs[a].cc].lastHdr < cs[a].id /\ cs[a].id < cc[cs[a].cc].next
  /\ cs[a].in => cs[a].pc \notin Waiting
  /\ cs[a].pc \in Sending => cs[a].sent = "open"
  /\ cs[a].sent # "illegal"
Slots == \A a \in Attempts : SlotOf(a)

OwnErrors == {"", "badHeader", "cancel", "write", "bodyRead", "tooLong", "connClosed", "timeout", "unusable"}
Aborts == OwnErrors \cup fromPeer \cup {"conn", "cancel", "tooMuch", "bodyClosed", "proto", "pipe", "goaway"}

\* Why a stream failed: what the errors that allow a retry say of it.
ErrorOf(a) ==
  /\ cs[a].abort \in Aborts /\ (cs[a].err \in OwnErrors \/ cs[a].err = cs[a].abort)
  /\ cs[a].pc \in Waiting \cup {"headers"} => ~cs[a].sentHeaders
  /\ cs[a].err = "unusable" \/ cs[a].abort = "unusable" => cs[a].pc \in Over /\ ~cs[a].sentHeaders
  /\ cs[a].abort = "goaway" => /\ cs[a].pc \notin Waiting
                               /\ cc[cs[a].cc].goAway # -1 /\ cs[a].id > cc[cs[a].cc].goAway
Errors == \A a \in Attempts : ErrorOf(a)

\* GOAWAY frames still to come do not raise the last stream.
GoAways ==
  \A c \in Conns : \A i \in DOMAIN left[c] :
    left[c][i].kind = "goaway" =>
      /\ cc[c].goAway # -1 => left[c][i].last <= cc[c].goAway
      /\ \A j \in DOMAIN left[c] : i < j /\ left[c][j].kind = "goaway" => left[c][j].last <= left[c][i].last

\* What the read loop has made of a stream.
StreamOf(a) ==
  /\ cs[a].early => cs[a].resp # "none"
  /\ cs[a].resp # "none" => cs[a].pastHeaders
  /\ cs[a].resp = "missing" => cs[a].remain > 0
  /\ cs[a].whole => cs[a].pipeErr = "EOF"
  /\ cs[a].pipeErr = "EOF" => cs[a].peerClosed
  /\ cs[a].pc = "none" => cs[a].buf = 0
Streams == \A a \in Attempts : StreamOf(a)

Between == {"get", "dialing", "backoff"}
Unread == {"ok", "failed", "get", "dialing", "backoff", "wait", "waitAbort", "waitDone", "cancelRequest"}

\* The attempt failed before its response came, and may be repeated.
GivenUp(a) ==
  /\ cs[a].abort # "" /\ ~cs[a].early
  /\ ~cs[a].sentHeaders \/ cs[a].abort \in {"refused", "protoPeer", "goaway"}

\* A request's attempts one after the other.
TryOf(a) ==
  /\ cs[a].pc # "none" <=> a[2] <= rq[a[1]].k
  /\ a[2] < rq[a[1]].k => GivenUp(a)
CallerOf(r) ==
  /\ rq[r].pc = "dialing" => rq[r].call \in Conns
  /\ rq[r].pc \in Between => rq[r].k <= MaxRetry + 1
  /\ rq[r].pc \in Between /\ rq[r].k > 0 => GivenUp(attempt(r))
  /\ rq[r].pc \notin Between \cup {"ok", "failed"} => rq[r].k > 0
  /\ rq[r].pc = "waitAbort" => cs[attempt(r)].abort # "" /\ ~cs[attempt(r)].early
  /\ rq[r].pc = "cancelRequest" => rq[r].cancelled
  /\ rq[r].pc = "failed" /\ rq[r].k > 0 =>
       rq[r].cancelled \/ (cs[attempt(r)].abort # "" /\ ~cs[attempt(r)].early)
Tries == (\A a \in Attempts : TryOf(a)) /\ \A r \in Reqs : CallerOf(r)

\* What the caller has read of the body.
ReadOf(r) ==
  LET b == cs[attempt(r)]
  IN /\ rq[r].pc \in Unread => rq[r].got = 0
     /\ rq[r].k > 0 /\ rq[r].pc \in Unread \cup {"reading", "eof"} => rq[r].got + b.buf = b.fed
     /\ rq[r].pc \in {"reading", "eof", "readErr"} => b.resp # "none"
     /\ rq[r].pc = "eof" => b.buf = 0 /\ b.pipeErr = "EOF" /\ b.remain \in {-1, 0}
     /\ rq[r].pc = "readErr" => b.remain > 0 \/ b.abort # "" \/ (b.pipeErr # "" /\ ~b.whole)
ReadSoFar == \A r \in Reqs : ReadOf(r)

Inv == Shapes /\ Numbers /\ Slots /\ Errors /\ GoAways /\ Streams /\ Tries /\ ReadSoFar

----------------------------------------------------------------------------
(* Tables of records *)

\* The names of the fields.
LEMMA CsHas ==
  /\ "pc" \in CsFields /\ "err" \in CsFields /\ "cc" \in CsFields /\ "id" \in CsFields
  /\ "in" \in CsFields /\ "abort" \in CsFields /\ "sentHeaders" \in CsFields
  /\ "sentEnd" \in CsFields /\ "sent" \in CsFields /\ "peerClosed" \in CsFields
  /\ "resp" \in CsFields /\ "redirect" \in CsFields /\ "reqClosed" \in CsFields
  /\ "stale" \in CsFields /\ "toSend" \in CsFields /\ "chunk" \in CsFields
  /\ "eof" \in CsFields /\ "woken" \in CsFields /\ "flow" \in CsFields /\ "avail" \in CsFields
  /\ "unsent" \in CsFields /\ "buf" \in CsFields /\ "pipeErr" \in CsFields
  /\ "broken" \in CsFields /\ "fed" \in CsFields /\ "readClosed" \in CsFields
  /\ "readAborted" \in CsFields /\ "pastHeaders" \in CsFields /\ "pastTrailers" \in CsFields
  /\ "num1xx" \in CsFields /\ "remain" \in CsFields /\ "donec" \in CsFields
  /\ "respHeaderRecv" \in CsFields /\ "whole" \in CsFields /\ "early" \in CsFields
BY DEF CsFields

\* The fields of a connection's record.
LEMMA CcHas ==
  /\ "up" \in CcFields /\ "single" \in CcFields /\ "next" \in CcFields /\ "max" \in CcFields
  /\ "gotSettings" \in CcFields /\ "seen" \in CcFields /\ "wantAck" \in CcFields
  /\ "goAway" \in CcFields /\ "closing" \in CcFields /\ "closed" \in CcFields
  /\ "noReuse" \in CcFields /\ "reserved" \in CcFields /\ "initWin" \in CcFields
  /\ "flow" \in CcFields /\ "avail" \in CcFields /\ "unsent" \in CcFields
  /\ "lost" \in CcFields /\ "gone" \in CcFields /\ "werr" \in CcFields
  /\ "readerDone" \in CcFields /\ "hdrMu" \in CcFields /\ "timer" \in CcFields
  /\ "idle" \in CcFields /\ "ping" \in CcFields /\ "shut" \in CcFields
  /\ "lastHdr" \in CcFields
BY DEF CcFields

\* The fields of a call's record.
LEMMA RqHas ==
  /\ "pc" \in RqFields /\ "k" \in RqFields /\ "call" \in RqFields /\ "err" \in RqFields
  /\ "got" \in RqFields /\ "cancelled" \in RqFields
BY DEF RqFields


\* Row b of g has what row b of f says of the sender, or of the response.
SendSame(f, g, b) ==
  /\ g[b].pc = f[b].pc /\ g[b].err = f[b].err /\ g[b].cc = f[b].cc /\ g[b].id = f[b].id
  /\ g[b].in = f[b].in /\ g[b].sentHeaders = f[b].sentHeaders /\ g[b].sent = f[b].sent
ReadSame(f, g, b) ==
  /\ g[b].peerClosed = f[b].peerClosed /\ g[b].resp = f[b].resp /\ g[b].buf = f[b].buf
  /\ g[b].pipeErr = f[b].pipeErr /\ g[b].fed = f[b].fed /\ g[b].pastHeaders = f[b].pastHeaders
  /\ g[b].remain = f[b].remain /\ g[b].whole = f[b].whole /\ g[b].early = f[b].early
Same(f, g, b) == SendSame(f, g, b) /\ ReadSame(f, g, b) /\ g[b].abort = f[b].abort

IsCs(f) == Table(f, Attempts, CsFields)

\* Broadcast only wakes.
LEMMA BroadcastWakes ==
  ASSUME NEW f, IsCs(f), NEW c, NEW g, g = Broadcast(f, c)
  PROVE  IsCs(g) /\ \A b \in Attempts : Same(f, g, b)
BY CsHas DEF IsCs, Table, Broadcast, Same, SendSame, ReadSame

\* g is f after some of its rows, those of S, failed with e.
Failed(f, g, S, e) ==
  /\ IsCs(g) /\ \A b \in Attempts : SendSame(f, g, b) /\ ReadSame(f, g, b)
  /\ \A b \in Attempts : g[b].abort = f[b].abort \/ (b \in S /\ f[b].abort = "" /\ g[b].abort = e)
  /\ \A b \in S : f[b].abort = "" => g[b].abort = e

\* aborted sets the error of one stream, unless it has one.
LEMMA AbortedRow ==
  ASSUME NEW f, IsCs(f), NEW a \in Attempts, NEW e, NEW g, g = aborted(f, a, e)
  PROVE  Failed(f, g, {a}, e)
<1>1. PICK u, v : /\ u = IF f[a].abort = "" THEN e ELSE f[a].abort
                  /\ g = [f EXCEPT ![a].abort = u, ![a].reqClosed = v]
  <2>1. g = [f EXCEPT ![a].abort = IF f[a].abort = "" THEN e ELSE f[a].abort,
                      ![a].reqClosed = IF f[a].reqClosed = "no" /\ hasBody(a) THEN "closing" ELSE f[a].reqClosed]
    BY CsHas DEF aborted, IsCs, Table
  <2>. QED  BY <2>1, Zenon
<1>2. g = [f EXCEPT ![a].abort = u, ![a].reqClosed = v]
  BY <1>1
<1>3. /\ IsCs(g) /\ \A b \in Attempts : SendSame(f, g, b) /\ ReadSame(f, g, b)
      /\ g[a].abort = u /\ \A b \in Attempts : b # a => g[b].abort = f[b].abort
  BY <1>2, CsHas DEF IsCs, Table, SendSame, ReadSame
<1>. QED  BY <1>1, <1>3 DEF Failed

\* A broadcast after failures leaves the failures.
LEMMA FailedBroadcast ==
  ASSUME NEW f, NEW h, NEW g, NEW S, NEW e, Failed(f, h, S, e), S \subseteq Attempts,
         IsCs(g), \A b \in Attempts : Same(h, g, b)
  PROVE  Failed(f, g, S, e)
<1>1. ASSUME NEW b \in Attempts PROVE SendSame(f, g, b)
  BY <1>1 DEF Failed, Same, SendSame
<1>3. ASSUME NEW b \in Attempts PROVE ReadSame(f, g, b)
  BY <1>3 DEF Failed, Same, ReadSame
<1>2. ASSUME NEW b \in Attempts
      PROVE  /\ g[b].abort = f[b].abort \/ (b \in S /\ f[b].abort = "" /\ g[b].abort = e)
             /\ b \in S /\ f[b].abort = "" => g[b].abort = e
  BY <1>2 DEF Failed, Same
<1>. QED  BY <1>1, <1>2, <1>3 DEF Failed

\* abortStream fails its stream, and wakes who waits on the connection.
LEMMA AbortStreamRow ==
  ASSUME NEW f, IsCs(f), NEW a \in Attempts, NEW e, NEW g, g = abortStream(f, a, e)
  PROVE  Failed(f, g, {a}, e)
<1>1. PICK h : h = aborted(f, a, e)
  BY Zenon
<1>2. Failed(f, h, {a}, e)
  BY <1>1, AbortedRow
<1>3. g = Broadcast(h, f[a].cc)
  BY <1>1, Zenon DEF abortStream
<1>4. IsCs(g) /\ \A b \in Attempts : Same(h, g, b)
  BY <1>2, <1>3, BroadcastWakes DEF Failed
<1>. QED  BY <1>2, <1>4, FailedBroadcast

\* abortAll fails the streams it is given.
LEMMA AbortAllRow ==
  ASSUME NEW f, IsCs(f), NEW c, NEW S, S \subseteq Attempts, NEW e, NEW g,
         g = abortAll(f, c, S, e)
  PROVE  Failed(f, g, S, e)
<1>. DEFINE h == [a \in Attempts |-> IF a \in S THEN aborted(f, a, e)[a] ELSE f[a]]
<1>1. \A a \in Attempts : h[a] = IF a \in S THEN aborted(f, a, e)[a] ELSE f[a]
  BY Zenon
<1>2. h = [a \in Attempts |-> h[a]]
  BY Zenon
<1>3. g = Broadcast(h, c)
  BY Zenon DEF abortAll
<1>. HIDE DEF h
<1>4. ASSUME NEW a \in Attempts
      PROVE  /\ h[a] = [x \in CsFields |-> h[a][x]]
             /\ SendSame(f, h, a) /\ ReadSame(f, h, a)
             /\ h[a].abort = f[a].abort \/ (a \in S /\ f[a].abort = "" /\ h[a].abort = e)
             /\ a \in S /\ f[a].abort = "" => h[a].abort = e
  <2>1. CASE a \in S
    <3>1. PICK k : k = aborted(f, a, e)
      BY Zenon
    <3>2. h[a] = k[a]
      BY <1>1, <2>1, <3>1
    <3>3. Failed(f, k, {a}, e)
      BY <3>1, AbortedRow
    <3>4. h[a] = [x \in CsFields |-> h[a][x]]
      BY <3>2, <3>3 DEF Failed, IsCs, Table
    <3>5. SendSame(f, h, a)
      BY <3>2, <3>3 DEF Failed, SendSame
    <3>6. ReadSame(f, h, a)
      BY <3>2, <3>3 DEF Failed, ReadSame
    <3>. QED  BY <2>1, <3>2, <3>3, <3>4, <3>5, <3>6 DEF Failed
  <2>2. CASE a \notin S
    <3>1. h[a] = f[a]
      BY <1>1, <2>2
    <3>. QED  BY <2>2, <3>1 DEF IsCs, Table, SendSame, ReadSame
  <2>. QED  BY <2>1, <2>2
<1>5. Failed(f, h, S, e)
  BY <1>2, <1>4 DEF Failed, IsCs, Table
<1>6. IsCs(g) /\ \A b \in Attempts : Same(h, g, b)
  BY <1>3, <1>5, BroadcastWakes DEF Failed
<1>. QED  BY <1>5, <1>6, FailedBroadcast

\* g is f after the body's pipe of row a is closed, which keeps its first end.
PipeEnded(f, g, a, e) ==
  /\ IsCs(g) /\ \A b \in Attempts : SendSame(f, g, b) /\ g[b].abort = f[b].abort
  /\ \A b \in Attempts : b # a => Same(f, g, b)
  /\ g[a].pipeErr = IF f[a].pipeErr = "" THEN e ELSE f[a].pipeErr
  /\ g[a].peerClosed = f[a].peerClosed /\ g[a].resp = f[a].resp
  /\ g[a].buf = f[a].buf /\ g[a].fed = f[a].fed /\ g[a].pastHeaders = f[a].pastHeaders
  /\ g[a].remain = f[a].remain /\ g[a].whole = f[a].whole /\ g[a].early = f[a].early

\* The pipe of a body keeps its first error.
LEMMA PipeClosedRow ==
  ASSUME NEW f, IsCs(f), NEW a \in Attempts, NEW e, NEW g, g = pipeClosed(f, a, e)
  PROVE  PipeEnded(f, g, a, e)
<1>1. PICK u : u = (IF f[a].pipeErr = "" THEN e ELSE f[a].pipeErr) /\ g = [f EXCEPT ![a].pipeErr = u]
  BY Zenon DEF pipeClosed
<1>2. g = [f EXCEPT ![a].pipeErr = u]
  BY <1>1
<1>3. IsCs(g)
  BY <1>2, CsHas DEF IsCs, Table
<1>5. \A b \in Attempts : b # a => g[b] = f[b]
  BY <1>2, CsHas DEF IsCs, Table
<1>9. /\ g[a].pc = f[a].pc /\ g[a].err = f[a].err /\ g[a].cc = f[a].cc /\ g[a].id = f[a].id
      /\ g[a].in = f[a].in /\ g[a].sentHeaders = f[a].sentHeaders /\ g[a].sent = f[a].sent
  BY <1>2, CsHas DEF IsCs, Table
<1>7. \A b \in Attempts : SendSame(f, g, b)
  BY <1>5, <1>9 DEF SendSame
<1>10. g[a].abort = f[a].abort
  BY <1>2, CsHas DEF IsCs, Table
<1>8. \A b \in Attempts : g[b].abort = f[b].abort
  BY <1>5, <1>10
<1>6. \A b \in Attempts : b # a => Same(f, g, b)
  BY <1>5 DEF Same, SendSame, ReadSame
<1>4. /\ g[a].pipeErr = u /\ g[a].peerClosed = f[a].peerClosed /\ g[a].resp = f[a].resp
      /\ g[a].buf = f[a].buf /\ g[a].fed = f[a].fed /\ g[a].pastHeaders = f[a].pastHeaders
      /\ g[a].remain = f[a].remain /\ g[a].whole = f[a].whole /\ g[a].early = f[a].early
  BY <1>2, CsHas DEF IsCs, Table
<1>. QED  BY <1>1, <1>3, <1>4, <1>6, <1>7, <1>8 DEF PipeEnded

----------------------------------------------------------------------------
(* What the steps do to the fields that the invariant is about *)

IsCc(f) == Table(f, Conns, CcFields)
IsRq(f) == Table(f, Reqs, RqFields)

\* Connection c of g has the streams, or the receive window, of that of f.
MuxSame(f, g, c) ==
  /\ g[c].next = f[c].next /\ g[c].lastHdr = f[c].lastHdr /\ g[c].hdrMu = f[c].hdrMu
  /\ g[c].goAway = f[c].goAway
WinSame(f, g, c) == g[c].avail = f[c].avail /\ g[c].unsent = f[c].unsent /\ g[c].lost = f[c].lost
CcSame(f, g, c) == MuxSame(f, g, c) /\ WinSame(f, g, c)

\* What a connection has of its window, outside of the bodies' buffers.
Credit(f, c) == f[c].avail + f[c].unsent + f[c].lost
Windows(f) == \A c \in Conns : f[c].avail \in Int /\ f[c].unsent \in Int /\ f[c].lost \in Int
Even == Windows(cc') /\ \A c \in Conns : Credit(cc', c) = Credit(cc, c)

CcStill == IsCc(cc') /\ \A c \in Conns : MuxSame(cc, cc', c)
CsStill == IsCs(cs') /\ \A b \in Attempts : Same(cs, cs', b)
RowsBut(a) == IsCs(cs') /\ \A b \in Attempts : b # a => Same(cs, cs', b)
RqBut(r) == IsRq(rq') /\ \A q \in Reqs : q # r => rq'[q] = rq[q]
Around == /\ pool' \in Seq(Conns) /\ rl' \in [Conns -> Attempts \cup {None}]
          /\ left' \in [Conns -> Seq(Frame)] /\ \A c \in Conns : left'[c] \in {left[c], Tail(left[c]), <<>>}

\* Nothing that matters here.
Rests == CsStill /\ CcStill /\ Even /\ rq' = rq

\* The goroutine of a caller goes on.
CallerMoves(r) ==
  LET b == cs[attempt(r)]
      pc == rq[r].pc
      next == rq'[r].pc
  IN /\ CsStill /\ CcStill /\ Even /\ RqBut(r)
     /\ rq'[r].k = rq[r].k /\ rq'[r].got = rq[r].got
     /\ rq'[r].cancelled = rq[r].cancelled \/ (rq'[r].cancelled = TRUE /\ next = pc)
     /\ rq'[r].call = rq[r].call \/ (rq'[r].call \in Conns /\ next = "dialing")
     /\ \/ next = pc
        \/ pc \in Between /\ next \in {"get", "failed"}
        \/ pc = "get" /\ next = "dialing" /\ rq'[r].call \in Conns
        \/ pc = "wait" /\ next = "reading" /\ b.resp # "none"
        \/ pc = "wait" /\ next \in {"ok", "waitDone"}
        \/ pc = "wait" /\ next = "waitAbort" /\ b.abort # "" /\ b.resp = "none"
        \/ pc = "cancelRequest" /\ next = "failed"
        \/ pc = "waitDone" /\ (next = "ok" \/ (next = "failed" /\ rq[r].cancelled))
        \/ /\ pc = "waitAbort"
           /\ \/ next = "failed"
              \/ /\ next \in {"get", "backoff"} /\ rq[r].k <= MaxRetry + 1
                 /\ b.abort \in {"unusable", "goaway", "refused", "protoPeer"}
        \/ pc = "reading" /\ next = "eof" /\ b.resp = "body" /\ b.buf = 0 /\ b.pipeErr = "EOF" /\ b.remain <= 0
        \/ pc = "reading" /\ next = "readErr" /\ (b.resp = "missing" \/ b.pipeErr # "")
             /\ (b.resp = "missing" \/ b.pipeErr # "EOF" \/ ~(b.remain <= 0))
        \/ pc \in {"reading", "eof", "readErr", "bodyClose"} /\ next = "closed"

\* A request begins its next attempt.
Starts(r, c) ==
  LET a == <<r, rq[r].k + 1>>
  IN /\ rq[r].pc \in {"get", "dialing"} /\ RowsBut(a) /\ CcStill /\ Even /\ RqBut(r)
     /\ rq'[r].k = rq[r].k + 1 /\ rq'[r].pc = "wait" /\ rq'[r].got = rq[r].got
     /\ rq'[r].cancelled = rq[r].cancelled
     /\ cs'[a].pc = "lock" /\ cs'[a].err = "" /\ cs'[a].cc = c /\ cs'[a].id = 0 /\ cs'[a].in = FALSE
     /\ cs'[a].abort = "" /\ cs'[a].sentHeaders = FALSE /\ cs'[a].sent = "none"
     /\ cs'[a].peerClosed = FALSE /\ cs'[a].resp = "none" /\ cs'[a].buf = 0 /\ cs'[a].pipeErr = ""
     /\ cs'[a].fed = 0 /\ cs'[a].pastHeaders = FALSE /\ cs'[a].remain = -1
     /\ cs'[a].whole = FALSE /\ cs'[a].early = FALSE

\* The goroutine of a sender goes on: its own fields change, and its connection's slots.
Sends(a) ==
  /\ RowsBut(a) /\ ReadSame(cs, cs', a) /\ cs'[a].abort = cs[a].abort /\ cs'[a].cc = cs[a].cc
  /\ IsCc(cc') /\ Even /\ rq' = rq
  /\ \A c \in Conns : cc'[c].goAway = cc[c].goAway /\ (c # cs[a].cc => MuxSame(cc, cc', c))
\* It gives up; reqHeaderMu is free if it had it.
Stops(a) ==
  LET c == cs[a].cc
  IN /\ Sends(a) /\ cs[a].pc \notin Over \cup {"none"} /\ cs'[a].pc = "cleanup"
     /\ \/ cs'[a].err \in OwnErrors \ {"unusable"} \/ cs'[a].err = cs[a].abort
        \/ cs'[a].err = "unusable" /\ cs[a].pc \in {"lock", "pending"}
     /\ cs'[a].id = cs[a].id /\ cs'[a].in = cs[a].in /\ cs'[a].sent = cs[a].sent
     /\ cs'[a].sentHeaders = cs[a].sentHeaders \/ (cs[a].pc = "headers" /\ cs[a].abort = "")
     /\ cc'[c].next = cc[c].next /\ cc'[c].lastHdr = cc[c].lastHdr
     /\ cc'[c].hdrMu = cc[c].hdrMu \/ (cc'[c].hdrMu = None /\ cc[c].hdrMu \in {None, a})
\* It takes the connection's next stream, or waits for one.
Opens(a) ==
  LET c == cs[a].cc
  IN /\ Sends(a) /\ cs[a].pc \in {"lock", "pending"} /\ cc[c].hdrMu \in {None, a} /\ cc'[c].hdrMu = a
     /\ cs'[a].err = cs[a].err /\ cs'[a].sent = cs[a].sent /\ cs'[a].sentHeaders = cs[a].sentHeaders
     /\ cc'[c].lastHdr = cc[c].lastHdr
     /\ \/ /\ cs'[a].pc = "headers" /\ cs'[a].id = cc[c].next /\ cs'[a].in = TRUE
           /\ cc'[c].next = cc[c].next + 2
        \/ /\ cs'[a].pc = "pending" /\ cs'[a].id = cs[a].id /\ cs'[a].in = cs[a].in
           /\ cc'[c].next = cc[c].next
\* It writes its HEADERS.
Writes(a) ==
  LET c == cs[a].cc
  IN /\ Sends(a) /\ cs[a].pc = "headers" /\ cs[a].abort = "" /\ cs'[a].pc \in {"await", "expect", "body"}
     /\ cs'[a].err = cs[a].err /\ cs'[a].id = cs[a].id /\ cs'[a].in = cs[a].in
     /\ cs'[a].sentHeaders = TRUE
     /\ cs[a].id < cc[c].lastHdr \/ cs'[a].sent = "open" \/ (cs'[a].sent = "ended" /\ cs'[a].pc = "await")
     /\ cc'[c].next = cc[c].next /\ cc'[c].lastHdr = cs[a].id /\ cc'[c].hdrMu = None
\* It sends the request body.
GoesOn(a) ==
  LET c == cs[a].cc
  IN /\ Sends(a) /\ MuxSame(cc, cc', c)
     /\ cs[a].pc \in Sending /\ cs'[a].pc \in Sending \cup {"await"}
     /\ cs'[a].err = cs[a].err /\ cs'[a].id = cs[a].id /\ cs'[a].in = cs[a].in
     /\ cs'[a].sentHeaders = cs[a].sentHeaders
     /\ \/ cs'[a].sent = cs[a].sent
        \/ cs[a].sent # "open"
        \/ cs'[a].sent = "ended" /\ cs'[a].pc = "await"
\* A stream's first failure is kept: one without gets one of E.
AbortStep(b, E) == cs'[b].abort = cs[b].abort \/ (cs[b].abort = "" /\ cs'[b].abort \in E)
\* Failures that say nothing about a retry.
Plain == {"conn", "cancel", "tooMuch", "bodyClosed", "proto", "pipe"}

\* It is done; the connection's streams fail with it if it cannot write.
Leaves(a) ==
  /\ IsCs(cs') /\ CcStill /\ Even /\ rq' = rq
  /\ \A b \in Attempts : ReadSame(cs, cs', b) /\ AbortStep(b, Plain) /\ (b # a => SendSame(cs, cs', b))
  /\ cs[a].pc \in Over /\ cs'[a].pc \in Over /\ cs'[a].cc = cs[a].cc
  /\ cs'[a].err = cs[a].err /\ cs'[a].id = cs[a].id /\ cs'[a].in \in {cs[a].in, FALSE}
  /\ cs'[a].sentHeaders = cs[a].sentHeaders /\ cs'[a].sent = cs[a].sent
\* Its error becomes that of the stream, unless both sides ended it.
Resets(a) ==
  /\ RowsBut(a) /\ CcStill /\ Even /\ rq' = rq
  /\ cs[a].pc \in Over /\ cs'[a].pc \in Over /\ cs'[a].cc = cs[a].cc /\ cs'[a].err \in {"", cs[a].err}
  /\ cs'[a].id = cs[a].id /\ cs'[a].in = cs[a].in /\ cs'[a].sentHeaders = cs[a].sentHeaders
  /\ cs'[a].sent \in {cs[a].sent, "reset"}
  /\ AbortStep(a, {cs'[a].err})
  /\ \/ cs'[a].pipeErr = cs[a].pipeErr
     \/ cs[a].pipeErr = "" /\ cs'[a].pipeErr \in {"canceled", cs'[a].err} /\ cs'[a].pipeErr # ""
  /\ cs'[a].peerClosed = cs[a].peerClosed /\ cs'[a].resp = cs[a].resp /\ cs'[a].buf = cs[a].buf
  /\ cs'[a].fed = cs[a].fed /\ cs'[a].pastHeaders = cs[a].pastHeaders /\ cs'[a].remain = cs[a].remain
  /\ cs'[a].whole = cs[a].whole /\ cs'[a].early = cs[a].early

\* Streams fail.
RowsFail == IsCs(cs') /\ \A b \in Attempts : SendSame(cs, cs', b) /\ ReadSame(cs, cs', b) /\ AbortStep(b, Plain)
Fails == RowsFail /\ CcStill /\ Even /\ rq' = rq
Cancels(r) ==
  /\ RowsFail /\ CcStill /\ Even /\ RqBut(r)
  /\ rq[r].pc = "wait" /\ rq[r].cancelled /\ rq'[r].pc = "cancelRequest"
  /\ rq'[r].k = rq[r].k /\ rq'[r].got = rq[r].got /\ rq'[r].cancelled = rq[r].cancelled
\* A GOAWAY frame.
GoesAway(c) ==
  LET last == Head(left[c]).last
  IN /\ left[c] # <<>> /\ Head(left[c]).kind = "goaway" /\ left' = [left EXCEPT ![c] = Tail(left[c])]
     /\ IsCs(cs') /\ IsCc(cc') /\ Even /\ rq' = rq
     /\ \A b \in Attempts :
          /\ SendSame(cs, cs', b) /\ ReadSame(cs, cs', b) /\ AbortStep(b, {"goaway"})
          /\ cs'[b].abort # cs[b].abort => cs[b].in /\ cs[b].cc = c /\ cs[b].id > last
     /\ \A d \in Conns : d # c => MuxSame(cc, cc', d)
     /\ cc'[c].next = cc[c].next /\ cc'[c].lastHdr = cc[c].lastHdr /\ cc'[c].hdrMu = cc[c].hdrMu
     /\ cc'[c].goAway = last

\* The read loop on one stream: the response,
Responds(a) ==
  /\ RowsBut(a) /\ SendSame(cs, cs', a) /\ cs'[a].abort = cs[a].abort /\ CcStill /\ Even /\ rq' = rq
  /\ ~cs[a].pastHeaders /\ cs'[a].pastHeaders = TRUE /\ cs'[a].resp # "none"
  /\ cs'[a].remain \in Nat \cup {-1} /\ (cs'[a].resp = "missing" => cs'[a].remain > 0)
  /\ cs'[a].early = (cs[a].abort = "")
  /\ cs'[a].peerClosed = cs[a].peerClosed /\ cs'[a].buf = cs[a].buf /\ cs'[a].pipeErr = cs[a].pipeErr
  /\ cs'[a].fed = cs[a].fed /\ cs'[a].whole = cs[a].whole
\* n bytes of its body,
Feeds(a, n) ==
  /\ RowsBut(a) /\ SendSame(cs, cs', a) /\ cs'[a].abort = cs[a].abort /\ CcStill /\ rq' = rq
  /\ cs[a].in /\ cs'[a].buf = cs[a].buf + n /\ cs'[a].fed = cs[a].fed + n /\ (n = 0 \/ cs[a].pipeErr = "")
  /\ cs'[a].peerClosed = cs[a].peerClosed /\ cs'[a].resp = cs[a].resp /\ cs'[a].pipeErr = cs[a].pipeErr
  /\ cs'[a].pastHeaders = cs[a].pastHeaders /\ cs'[a].remain = cs[a].remain
  /\ cs'[a].whole = cs[a].whole /\ cs'[a].early = cs[a].early
  /\ Windows(cc')
  /\ \A c \in Conns : Credit(cc', c) = IF c = cs[a].cc THEN Credit(cc, c) - n ELSE Credit(cc, c)
\* its end,
Ends(a) ==
  /\ RowsBut(a) /\ SendSame(cs, cs', a) /\ cs'[a].abort = cs[a].abort /\ CcStill /\ Even /\ rq' = rq
  /\ cs'[a].pipeErr = (IF cs[a].pipeErr = "" THEN "EOF" ELSE cs[a].pipeErr)
  /\ cs'[a].peerClosed = TRUE /\ cs'[a].whole = (cs[a].pipeErr = "")
  /\ cs'[a].resp = cs[a].resp /\ cs'[a].buf = cs[a].buf /\ cs'[a].fed = cs[a].fed
  /\ cs'[a].pastHeaders = cs[a].pastHeaders /\ cs'[a].remain = cs[a].remain /\ cs'[a].early = cs[a].early
\* or its reset.
PeerResets(a) ==
  /\ RowsBut(a) /\ SendSame(cs, cs', a) /\ AbortStep(a, fromPeer) /\ CcStill /\ Even /\ rq' = rq
  /\ cs'[a].pipeErr = cs[a].pipeErr \/ (cs[a].pipeErr = "" /\ cs'[a].pipeErr \in fromPeer)
  /\ cs'[a].peerClosed = cs[a].peerClosed /\ cs'[a].resp = cs[a].resp /\ cs'[a].buf = cs[a].buf
  /\ cs'[a].fed = cs[a].fed /\ cs'[a].pastHeaders = cs[a].pastHeaders /\ cs'[a].remain = cs[a].remain
  /\ cs'[a].whole = cs[a].whole /\ cs'[a].early = cs[a].early

\* The caller takes n bytes from the body, or closes it.
Takes(r, n) ==
  LET a == attempt(r)
  IN /\ RowsBut(a) /\ SendSame(cs, cs', a) /\ CcStill /\ RqBut(r)
     /\ cs'[a].buf = cs[a].buf - n /\ cs'[a].fed = cs[a].fed
     /\ cs'[a].peerClosed = cs[a].peerClosed /\ cs'[a].resp = cs[a].resp /\ cs'[a].pipeErr = cs[a].pipeErr
     /\ cs'[a].pastHeaders = cs[a].pastHeaders /\ cs'[a].whole = cs[a].whole /\ cs'[a].early = cs[a].early
     /\ rq'[r].k = rq[r].k /\ rq'[r].cancelled = rq[r].cancelled
     /\ Windows(cc')
     /\ \A c \in Conns : Credit(cc', c) = IF c = cs[a].cc THEN Credit(cc, c) + n ELSE Credit(cc, c)
Reads(r, n) ==
  LET a == attempt(r)
  IN /\ Takes(r, n) /\ rq[r].pc = "reading" /\ cs[a].resp = "body" /\ n <= cs[a].buf
     /\ \/ /\ cs[a].remain # -1 /\ cs'[a].remain = 0 /\ AbortStep(a, Plain) /\ cs'[a].abort # ""
           /\ rq'[r].pc = "readErr" /\ rq'[r].got = rq[r].got + cs[a].remain
        \/ /\ \/ cs[a].remain = -1 /\ cs'[a].remain = -1
              \/ cs[a].remain # -1 /\ n <= cs[a].remain /\ cs'[a].remain = cs[a].remain - n
           /\ cs'[a].abort = cs[a].abort
           /\ rq'[r].pc = "reading" /\ rq'[r].got = rq[r].got + n
Closes(r) ==
  LET a == attempt(r)
  IN /\ Takes(r, cs[a].buf) /\ rq[r].pc \in {"reading", "eof", "readErr"} /\ rq'[r].pc = "bodyClose"
     /\ cs'[a].remain = cs[a].remain /\ AbortStep(a, Plain) /\ rq'[r].got = rq[r].got

Step ==
  \/ Rests
  \/ \E q \in Reqs : CallerMoves(q)
  \/ \E q \in Reqs, c \in Conns : Starts(q, c)
  \/ \E a \in Attempts : Stops(a)
  \/ \E a \in Attempts : Opens(a)
  \/ \E a \in Attempts : Writes(a)
  \/ \E a \in Attempts : GoesOn(a)
  \/ \E a \in Attempts : Leaves(a)
  \/ \E a \in Attempts : Resets(a)
  \/ Fails
  \/ \E q \in Reqs : Cancels(q)
  \/ \E c \in Conns : GoesAway(c)
  \/ \E a \in Attempts : Responds(a)
  \/ \E a \in Attempts, n \in Nat : Feeds(a, n)
  \/ \E a \in Attempts : Ends(a)
  \/ \E a \in Attempts : PeerResets(a)
  \/ \E q \in Reqs, n \in Nat : Reads(q, n)
  \/ \E q \in Reqs : Closes(q)

\* An attempt is a request and which of its tries it is.
LEMMA AttemptPairs ==
  /\ \A a \in Attempts : a[1] \in Reqs /\ a[2] \in 1 .. MaxRetry + 2 /\ a = <<a[1], a[2]>>
  /\ \A r \in Reqs : \A k \in 1 .. MaxRetry + 2 : <<r, k>> \in Attempts /\ <<r, k>>[1] = r /\ <<r, k>>[2] = k
BY DEF Attempts

\* None is no attempt: a free reqHeaderMu has no holder.
LEMMA NotAttempt == None \notin Attempts
BY DEF None, Attempts

\* A request has a number of tries.
LEMMA MaxRetryNat == MaxRetry \in Nat
BY SizeAssumption

\* A request that has an attempt is at one of its attempts.
LEMMA AttemptOf ==
  ASSUME NEW r \in Reqs, CallNumbers(r), rq[r].k > 0
  PROVE  attempt(r) \in Attempts /\ attempt(r)[1] = r /\ attempt(r)[2] = rq[r].k
<1>1. rq[r].k \in 1 .. MaxRetry + 2
  BY MaxRetryNat DEF CallNumbers
<1>. QED  BY <1>1, AttemptPairs DEF attempt

----------------------------------------------------------------------------
(* The slots *)

\* Only the senders' own steps change what a stream says of its sender.
SendersStill == CcStill /\ \A b \in Attempts : SendSame(cs, cs', b)

\* A step that leaves the sender and the slots of its connection alone.
LEMMA SlotFrame ==
  ASSUME NEW b \in Attempts, SlotOf(b), SendSame(cs, cs', b),
         \A c \in Conns : /\ cc'[c].next = cc[c].next /\ cc'[c].lastHdr = cc[c].lastHdr
                          /\ cc'[c].hdrMu = cc[c].hdrMu
  PROVE  SlotOf(b)'
BY DEF SlotOf, SendSame, Waiting, Sending

\* Neither the callers nor the read loops touch what belongs to a sender.
LEMMA SendersRest ==
  ASSUME \/ Rests \/ \E q \in Reqs : CallerMoves(q) \/ Cancels(q) \/ Closes(q) \/ \E n \in Nat : Reads(q, n)
         \/ Fails
         \/ \E a \in Attempts : Responds(a) \/ Ends(a) \/ PeerResets(a) \/ \E n \in Nat : Feeds(a, n)
  PROVE  SendersStill
<1>1. CASE Rests
  BY <1>1 DEF SendersStill, Rests, CsStill, Same
<1>2. ASSUME NEW q \in Reqs, CallerMoves(q) PROVE SendersStill
  <2>1. CsStill /\ CcStill
    BY <1>2 DEF CallerMoves
  <2>. QED  BY <2>1 DEF SendersStill, CsStill, Same
<1>3. ASSUME NEW q \in Reqs, Cancels(q) PROVE SendersStill
  BY <1>3 DEF SendersStill, Cancels, RowsFail
<1>4. ASSUME NEW q \in Reqs, NEW n, Takes(q, n) PROVE SendersStill
  BY <1>4 DEF SendersStill, Takes, RowsBut, Same
<1>5. CASE Fails
  BY <1>5 DEF SendersStill, Fails, RowsFail
<1>6. ASSUME NEW a \in Attempts, Responds(a) PROVE SendersStill
  BY <1>6 DEF SendersStill, Responds, RowsBut, Same
<1>7. ASSUME NEW a \in Attempts, Ends(a) PROVE SendersStill
  BY <1>7 DEF SendersStill, Ends, RowsBut, Same
<1>8. ASSUME NEW a \in Attempts, PeerResets(a) PROVE SendersStill
  BY <1>8 DEF SendersStill, PeerResets, RowsBut, Same
<1>9. ASSUME NEW a \in Attempts, NEW n \in Nat, Feeds(a, n) PROVE SendersStill
  BY <1>9 DEF SendersStill, Feeds, RowsBut, Same
<1>. QED  BY <1>1, <1>2, <1>3, <1>4, <1>5, <1>6, <1>7, <1>8, <1>9 DEF Closes, Reads

\* A step of a sender: nobody else holds the reqHeaderMu it uses.
LEMMA SlotsOfSender ==
  ASSUME Inv, NEW a \in Attempts, Stops(a) \/ Opens(a) \/ Writes(a) \/ GoesOn(a), NEW b \in Attempts
  PROVE  SlotOf(b)'
<1>1. SlotOf(a) /\ SlotOf(b) /\ RowNumbers(a) /\ \A c \in Conns : ConnNumbers(c)
  BY DEF Inv, Slots, Numbers
<1>2. Sends(a) /\ cs[a].pc # "none"
  BY DEF Stops, Opens, Writes, GoesOn, Sending
<1>3. cs[a].cc \in Conns /\ cs'[a].cc = cs[a].cc
  BY <1>1, <1>2 DEF SlotOf, Sends
<1>4. CASE b # a
  <2>1. SendSame(cs, cs', b)
    BY <1>2, <1>4 DEF Sends, RowsBut, Same
  <2>2. CASE cs[b].cc = cs[a].cc /\ cs[b].pc \in {"pending", "headers"}
    <3>1. cc[cs[a].cc].hdrMu = b
      BY <1>1, <2>2 DEF SlotOf
    <3>2. cc[cs[a].cc].hdrMu # None
      BY <3>1, NotAttempt
    <3>3. ~Opens(a)
      BY <1>4, <3>1, <3>2 DEF Opens
    <3>4. ~Writes(a)
      BY <1>1, <1>4, <3>1 DEF Writes, SlotOf
    <3>5. MuxSame(cc, cc', cs[a].cc)
      <4>1. CASE Stops(a)
        BY <1>2, <1>3, <1>4, <3>1, <3>2, <4>1 DEF Stops, MuxSame, Sends
      <4>2. CASE GoesOn(a)
        BY <4>2 DEF GoesOn
      <4>. QED  BY <3>3, <3>4, <4>1, <4>2
    <3>6. \A c \in Conns : MuxSame(cc, cc', c)
      BY <1>2, <3>5 DEF Sends
    <3>. QED  BY <1>1, <2>1, <3>6, SlotFrame DEF MuxSame
  <2>3. CASE cs[b].cc # cs[a].cc /\ cs[b].pc # "none"
    <3>1. MuxSame(cc, cc', cs[b].cc)
      BY <1>1, <1>2, <2>3 DEF Sends, SlotOf
    <3>. QED  BY <1>1, <2>1, <3>1 DEF SlotOf, SendSame, MuxSame, Waiting, Sending
  <2>4. CASE cs[b].pc \notin {"pending", "headers"}
    BY <1>1, <2>1, <2>4 DEF SlotOf, SendSame, Waiting, Sending
  <2>. QED  BY <2>2, <2>3, <2>4
<1>5. CASE b = a
  <2>. DEFINE c == cs[a].cc
  <2>1. CASE Stops(a)
    BY <1>1, <1>3, <2>1, <1>5 DEF Stops, SlotOf, Waiting, Sending
  <2>2. CASE Opens(a)
    BY <1>1, <1>3, <2>2, <1>5 DEF Opens, SlotOf, ConnNumbers, Waiting, Sending
  <2>3. CASE Writes(a)
    <3>1. cc[c].lastHdr < cs[a].id
      BY <1>1, <2>3 DEF Writes, SlotOf
    <3>2. ~(cs[a].id < cc[c].lastHdr)
      BY <1>1, <1>3, <3>1 DEF RowNumbers, ConnNumbers
    <3>3. cs'[a].sent = "open" \/ (cs'[a].sent = "ended" /\ cs'[a].pc = "await")
      BY <2>3, <3>2 DEF Writes
    <3>4. cs'[a].pc \in {"await", "expect", "body"}
      BY <2>3 DEF Writes
    <3>. QED  BY <1>3, <1>5, <3>3, <3>4 DEF SlotOf, Waiting, Sending
  <2>4. CASE GoesOn(a)
    BY <1>1, <1>3, <2>4, <1>5 DEF GoesOn, SlotOf, Waiting, Sending
  <2>. QED  BY <2>1, <2>2, <2>3, <2>4
<1>. QED  BY <1>4, <1>5

\* Every step keeps the order of the identifiers.
LEMMA SlotsKept ==
  ASSUME Inv, Step PROVE Slots'
<1>. SUFFICES ASSUME NEW b \in Attempts PROVE SlotOf(b)'
  BY DEF Slots
<1>1. SlotOf(b) /\ \A a \in Attempts : SlotOf(a)
  BY DEF Inv, Slots
<1>2. CASE SendersStill
  BY <1>1, <1>2, SlotFrame DEF SendersStill, CcStill, MuxSame
<1>3. ASSUME NEW q \in Reqs, NEW c \in Conns, Starts(q, c) PROVE SlotOf(b)'
  <2>1. CASE b # <<q, rq[q].k + 1>>
    <3>1. SendSame(cs, cs', b) /\ CcStill
      BY <1>3, <2>1 DEF Starts, RowsBut, Same
    <3>. QED  BY <1>1, <3>1, SlotFrame DEF CcStill, MuxSame
  <2>2. CASE b = <<q, rq[q].k + 1>>
    BY <1>3, <2>2 DEF Starts, SlotOf, Waiting, Sending
  <2>. QED  BY <2>1, <2>2
<1>4. ASSUME NEW a \in Attempts, Leaves(a) \/ Resets(a) PROVE SlotOf(b)'
  <2>1. CcStill /\ (b # a => SendSame(cs, cs', b))
    BY <1>4 DEF Leaves, Resets, RowsBut, Same
  <2>2. CASE b # a
    BY <1>1, <2>1, <2>2, SlotFrame DEF CcStill, MuxSame
  <2>3. CASE b = a
    BY <1>1, <1>4, <2>3 DEF Leaves, Resets, SlotOf, Waiting, Sending, Over
  <2>. QED  BY <2>2, <2>3
<1>5. ASSUME NEW c \in Conns, GoesAway(c) PROVE SlotOf(b)'
  <2>1. SendSame(cs, cs', b)
    BY <1>5 DEF GoesAway
  <2>2. \A d \in Conns : /\ cc'[d].next = cc[d].next /\ cc'[d].lastHdr = cc[d].lastHdr
                         /\ cc'[d].hdrMu = cc[d].hdrMu
    BY <1>5 DEF GoesAway, MuxSame
  <2>. QED  BY <1>1, <2>1, <2>2, SlotFrame
<1>. QED  BY <1>2, <1>3, <1>4, <1>5, SlotsOfSender, SendersRest DEF Step

----------------------------------------------------------------------------
(* The errors *)

\* What happens to a stream's error in a step that is not its sender's.
LEMMA AbortsRest ==
  ASSUME \/ Rests \/ \E q \in Reqs : CallerMoves(q) \/ Cancels(q) \/ Closes(q) \/ \E n \in Nat : Reads(q, n)
         \/ Fails
         \/ \E a \in Attempts : Responds(a) \/ Ends(a) \/ PeerResets(a) \/ \E n \in Nat : Feeds(a, n)
  PROVE  \A b \in Attempts : AbortStep(b, Plain \cup fromPeer)
<1>. DEFINE Good == \A b \in Attempts : AbortStep(b, Plain \cup fromPeer)
<1>1. CASE Rests
  BY <1>1 DEF Rests, CsStill, Same, AbortStep
<1>2. ASSUME NEW q \in Reqs, CallerMoves(q) PROVE Good
  <2>1. CsStill
    BY <1>2 DEF CallerMoves
  <2>. QED  BY <2>1 DEF CsStill, Same, AbortStep
<1>3. ASSUME NEW q \in Reqs, Cancels(q) PROVE Good
  BY <1>3 DEF Cancels, RowsFail, AbortStep
<1>4. ASSUME NEW q \in Reqs, NEW n, Takes(q, n), cs'[attempt(q)].abort = cs[attempt(q)].abort \/ AbortStep(attempt(q), Plain) PROVE Good
  BY <1>4 DEF Takes, RowsBut, Same, AbortStep
<1>5. CASE Fails
  BY <1>5 DEF Fails, RowsFail, AbortStep
<1>6. ASSUME NEW a \in Attempts, Responds(a) PROVE Good
  BY <1>6 DEF Responds, RowsBut, Same, AbortStep
<1>7. ASSUME NEW a \in Attempts, Ends(a) PROVE Good
  BY <1>7 DEF Ends, RowsBut, Same, AbortStep
<1>8. ASSUME NEW a \in Attempts, PeerResets(a) PROVE Good
  BY <1>8 DEF PeerResets, RowsBut, Same, AbortStep
<1>9. ASSUME NEW a \in Attempts, NEW n \in Nat, Feeds(a, n) PROVE Good
  BY <1>9 DEF Feeds, RowsBut, Same, AbortStep
<1>10. ASSUME NEW q \in Reqs, Closes(q) PROVE Good
  BY <1>4, <1>10 DEF Closes
<1>11. ASSUME NEW q \in Reqs, NEW n \in Nat, Reads(q, n) PROVE Good
  BY <1>4, <1>11 DEF Reads
<1>. QED  BY <1>1, <1>2, <1>3, <1>5, <1>6, <1>7, <1>8, <1>9, <1>10, <1>11

\* A stream may fail for a reason that says nothing about a retry, or as its peer says.
LEMMA ErrorFrame ==
  ASSUME NEW b \in Attempts, ErrorOf(b), SlotOf(b), SendSame(cs, cs', b), AbortStep(b, Plain \cup fromPeer),
         \A c \in Conns : cc'[c].goAway = cc[c].goAway
  PROVE  ErrorOf(b)'
<1>1. cs'[b].abort \in Aborts /\ (cs'[b].err \in OwnErrors \/ cs'[b].err = cs'[b].abort)
  BY DEF ErrorOf, SendSame, AbortStep, Plain, fromPeer, Aborts, OwnErrors
<1>2. cs'[b].abort = "goaway" => cs[b].abort = "goaway"
  BY DEF AbortStep, Plain, fromPeer
<1>3. cs'[b].abort = "unusable" => cs[b].abort = "unusable"
  BY DEF AbortStep, Plain, fromPeer
<1>4. cs'[b].abort = "goaway" => cc'[cs'[b].cc].goAway = cc[cs[b].cc].goAway
  BY <1>2 DEF ErrorOf, SlotOf, SendSame, Waiting
<1>. QED  BY <1>1, <1>2, <1>3, <1>4 DEF ErrorOf, SendSame

\* A step of a sender gives its stream an error of its own, or the one it has.
LEMMA ErrorsOfSender ==
  ASSUME Inv, NEW a \in Attempts, Stops(a) \/ Opens(a) \/ Writes(a) \/ GoesOn(a), NEW b \in Attempts
  PROVE  ErrorOf(b)'
<1>1. SlotOf(a) /\ SlotOf(b) /\ ErrorOf(a) /\ ErrorOf(b) /\ RowNumbers(a) /\ \A c \in Conns : ConnNumbers(c)
  BY DEF Inv, Slots, Errors, Numbers
<1>2. Sends(a) /\ cs[a].pc # "none"
  BY DEF Stops, Opens, Writes, GoesOn, Sending
<1>3. cs[a].cc \in Conns /\ cs'[a].cc = cs[a].cc /\ cc'[cs[a].cc].goAway = cc[cs[a].cc].goAway
  BY <1>1, <1>2 DEF SlotOf, Sends
<1>4. CASE b # a
  <2>1. SendSame(cs, cs', b) /\ AbortStep(b, Plain \cup fromPeer)
    BY <1>2, <1>4 DEF Sends, RowsBut, Same, AbortStep
  <2>. QED  BY <1>1, <1>2, <2>1, ErrorFrame DEF Sends
<1>5. CASE b = a
  <2>1. cs'[a].abort = cs[a].abort
    BY <1>2 DEF Sends
  <2>2. CASE Stops(a)
    <3>1. cs'[a].err \in OwnErrors \/ cs'[a].err = cs'[a].abort
      BY <2>1, <2>2 DEF Stops, OwnErrors
    <3>2. cs[a].abort # "unusable"
      BY <1>1, <2>2 DEF Stops, ErrorOf
    <3>3. cs'[a].err = "unusable" => ~cs'[a].sentHeaders
      BY <1>1, <2>2, <3>2 DEF Stops, ErrorOf, Waiting
    <3>4. cs[a].abort = "goaway" => cs[a].pc \notin Waiting /\ cc[cs[a].cc].goAway # -1 /\ cs[a].id > cc[cs[a].cc].goAway
      BY <1>1 DEF ErrorOf
    <3>5. cs'[a].pc = "cleanup" /\ cs'[a].id = cs[a].id
      BY <2>2 DEF Stops
    <3>. QED  BY <1>1, <1>3, <1>5, <2>1, <3>1, <3>2, <3>3, <3>4, <3>5 DEF ErrorOf, Waiting, Over
  <2>3. CASE Opens(a)
    <3>1. cs[a].abort # "unusable" /\ cs[a].abort # "goaway" /\ cs[a].err # "unusable" /\ ~cs[a].sentHeaders
      BY <1>1, <2>3 DEF Opens, ErrorOf, Waiting, Over
    <3>. QED  BY <1>1, <1>5, <2>1, <2>3, <3>1 DEF Opens, ErrorOf
  <2>4. CASE Writes(a)
    <3>1. cs[a].abort = "" /\ cs[a].err # "unusable" /\ cs'[a].err = cs[a].err
      BY <1>1, <2>4 DEF Writes, ErrorOf, Over
    <3>2. cs'[a].pc \in {"await", "expect", "body"}
      BY <2>4 DEF Writes
    <3>. QED  BY <1>1, <1>5, <2>1, <3>1, <3>2 DEF ErrorOf, Waiting
  <2>5. CASE GoesOn(a)
    <3>1. cs[a].abort # "unusable" /\ cs[a].err # "unusable" /\ cs'[a].err = cs[a].err
      BY <1>1, <2>5 DEF GoesOn, ErrorOf, Over, Sending
    <3>2. cs'[a].pc \in Sending \cup {"await"} /\ cs'[a].id = cs[a].id
      BY <2>5 DEF GoesOn
    <3>. QED  BY <1>1, <1>3, <1>5, <2>1, <3>1, <3>2 DEF ErrorOf, Waiting, Sending
  <2>. QED  BY <2>2, <2>3, <2>4, <2>5
<1>. QED  BY <1>4, <1>5

\* Every step keeps what an error says about what was sent.
LEMMA ErrorsKept ==
  ASSUME Inv, Step PROVE Errors'
<1>. SUFFICES ASSUME NEW b \in Attempts PROVE ErrorOf(b)'
  BY DEF Errors
<1>1. SlotOf(b) /\ ErrorOf(b) /\ RowNumbers(b) /\ \A c \in Conns : ConnNumbers(c)
  BY DEF Inv, Slots, Errors, Numbers
<1>2. CASE SendersStill /\ AbortStep(b, Plain \cup fromPeer)
  BY <1>1, <1>2, ErrorFrame DEF SendersStill, CcStill, MuxSame
<1>3. ASSUME NEW q \in Reqs, NEW c \in Conns, Starts(q, c) PROVE ErrorOf(b)'
  <2>1. CASE b # <<q, rq[q].k + 1>>
    <3>1. SendSame(cs, cs', b) /\ CcStill /\ AbortStep(b, Plain \cup fromPeer)
      BY <1>3, <2>1 DEF Starts, RowsBut, Same, AbortStep
    <3>. QED  BY <1>1, <3>1, ErrorFrame DEF CcStill, MuxSame
  <2>2. CASE b = <<q, rq[q].k + 1>>
    BY <1>3, <2>2 DEF Starts, ErrorOf, OwnErrors, Aborts
  <2>. QED  BY <2>1, <2>2
<1>4. ASSUME NEW a \in Attempts, Leaves(a) PROVE ErrorOf(b)'
  <2>1. CcStill /\ (b # a => SendSame(cs, cs', b)) /\ AbortStep(b, Plain \cup fromPeer)
    BY <1>4 DEF Leaves, AbortStep
  <2>2. CASE b # a
    BY <1>1, <2>1, <2>2, ErrorFrame DEF CcStill, MuxSame
  <2>3. CASE b = a
    <3>1. cs'[b].abort \in Aborts /\ (cs'[b].err \in OwnErrors \/ cs'[b].err = cs'[b].abort)
      BY <1>1, <1>4, <2>1, <2>3 DEF Leaves, ErrorOf, AbortStep, Plain, fromPeer, Aborts, OwnErrors
    <3>2. cs'[b].pc \in Over /\ cs[b].pc \in Over /\ cs'[b].sentHeaders = cs[b].sentHeaders /\ cs'[b].err = cs[b].err
          /\ cs'[b].id = cs[b].id /\ cs'[b].cc = cs[b].cc
      BY <1>4, <2>3 DEF Leaves
    <3>3. /\ cs'[b].abort = "goaway" => cs[b].abort = "goaway"
          /\ cs'[b].abort = "unusable" => cs[b].abort = "unusable"
      BY <2>1 DEF AbortStep, Plain, fromPeer
    <3>4. cc'[cs[b].cc].goAway = cc[cs[b].cc].goAway
      BY <1>1, <2>1, <3>2 DEF CcStill, MuxSame, SlotOf, Over
    <3>. QED  BY <1>1, <3>1, <3>2, <3>3, <3>4 DEF ErrorOf, Waiting, Over
  <2>. QED  BY <2>2, <2>3
<1>5. ASSUME NEW a \in Attempts, Resets(a) PROVE ErrorOf(b)'
  <2>1. CASE b # a
    <3>1. SendSame(cs, cs', b) /\ CcStill /\ AbortStep(b, Plain \cup fromPeer)
      BY <1>5, <2>1 DEF Resets, RowsBut, Same, AbortStep
    <3>. QED  BY <1>1, <3>1, ErrorFrame DEF CcStill, MuxSame
  <2>2. CASE b = a
    <3>1. cs'[b].pc \in Over /\ cs[b].pc \in Over /\ cs'[b].sentHeaders = cs[b].sentHeaders /\ cs'[b].err \in {"", cs[b].err}
          /\ cs'[b].id = cs[b].id /\ cs'[b].cc = cs[b].cc
      BY <1>5, <2>2 DEF Resets
    <3>2. cs'[b].abort = cs[b].abort \/ (cs[b].abort = "" /\ cs'[b].abort = cs'[b].err)
      BY <1>5, <2>2 DEF Resets, AbortStep
    <3>3. cs[b].abort \in Aborts /\ (cs[b].err \in OwnErrors \/ cs[b].err = cs[b].abort)
      BY <1>1 DEF ErrorOf
    <3>4. cs'[b].abort \in Aborts /\ (cs'[b].err \in OwnErrors \/ cs'[b].err = cs'[b].abort)
      BY <3>1, <3>2, <3>3 DEF Aborts, OwnErrors
    <3>5. cs'[b].abort = "goaway" => cs[b].abort = "goaway"
      BY <3>1, <3>2, <3>3 DEF OwnErrors
    <3>6. cs'[b].err = "unusable" \/ cs'[b].abort = "unusable" => cs[b].err = "unusable" \/ cs[b].abort = "unusable"
      BY <3>1, <3>2
    <3>7. cc'[cs[b].cc].goAway = cc[cs[b].cc].goAway
      BY <1>1, <1>5, <3>1 DEF Resets, CcStill, MuxSame, SlotOf, Over
    <3>. QED  BY <1>1, <3>1, <3>4, <3>5, <3>6, <3>7 DEF ErrorOf, Waiting, Over
  <2>. QED  BY <2>1, <2>2
<1>6. ASSUME NEW c \in Conns, GoesAway(c) PROVE ErrorOf(b)'
  <2>. DEFINE last == Head(left[c]).last
  <2>1. SendSame(cs, cs', b) /\ AbortStep(b, {"goaway"})
        /\ (cs'[b].abort # cs[b].abort => cs[b].in /\ cs[b].cc = c /\ cs[b].id > last)
    BY <1>6 DEF GoesAway
  <2>2. cc'[c].goAway = last /\ \A d \in Conns : d # c => cc'[d].goAway = cc[d].goAway
    BY <1>6 DEF GoesAway, MuxSame
  <2>3. last \in Nat /\ (cc[c].goAway # -1 => last <= cc[c].goAway)
    <3>1. left[c] \in Seq(Frame) /\ left[c] # <<>> /\ left[c][1].kind = "goaway" /\ last = left[c][1].last
      BY <1>6 DEF GoesAway, Inv, Shapes
    <3>2. 1 \in DOMAIN left[c] /\ left[c][1] \in Frame
      BY <3>1
    <3>. QED  BY <3>1, <3>2 DEF Inv, GoAways, Frame
  <2>. HIDE DEF last
  <2>4. cs'[b].abort \in Aborts /\ (cs'[b].err \in OwnErrors \/ cs'[b].err = cs'[b].abort)
    BY <1>1, <2>1 DEF ErrorOf, SendSame, AbortStep, Aborts, OwnErrors
  <2>5. cs'[b].abort = "unusable" => cs[b].abort = "unusable"
    BY <2>1 DEF AbortStep
  <2>6. cs'[b].abort = "goaway" => cs[b].pc \notin Waiting /\ cs[b].cc \in Conns
    BY <1>1, <2>1 DEF ErrorOf, SlotOf, AbortStep, Waiting
  <2>7. cs'[b].abort = "goaway" => cc'[cs[b].cc].goAway # -1 /\ cs[b].id > cc'[cs[b].cc].goAway
    <3>. SUFFICES ASSUME cs'[b].abort = "goaway"
                  PROVE  cc'[cs[b].cc].goAway # -1 /\ cs[b].id > cc'[cs[b].cc].goAway
      OBVIOUS
    <3>1. cs[b].id \in Nat /\ cs[b].cc \in Conns /\ cc[c].goAway \in Nat \cup {-1}
      BY <1>1, <2>6 DEF RowNumbers, ConnNumbers
    <3>2. CASE cs[b].abort = "goaway" /\ cs[b].cc = c
      BY <1>1, <2>2, <2>3, <3>1, <3>2 DEF ErrorOf
    <3>3. CASE cs[b].abort = "goaway" /\ cs[b].cc # c
      BY <1>1, <2>2, <3>1, <3>3 DEF ErrorOf
    <3>4. CASE cs[b].abort # "goaway"
      BY <2>1, <2>2, <2>3, <3>4
    <3>. QED  BY <3>2, <3>3, <3>4
  <2>. QED  BY <1>1, <2>1, <2>4, <2>5, <2>6, <2>7 DEF ErrorOf, SendSame
<1>. QED  BY <1>2, <1>3, <1>4, <1>5, <1>6, ErrorsOfSender, SendersRest, AbortsRest DEF Step

----------------------------------------------------------------------------
(* GOAWAY, the responses and the numbers *)

\* A kind of step that is not the receipt of a GOAWAY leaves the last stream.
LEMMA GoAwayStays ==
  ASSUME Step
  PROVE  (\E c \in Conns : GoesAway(c)) \/ \A c \in Conns : cc'[c].goAway = cc[c].goAway
<1>1. CASE CcStill
  BY <1>1 DEF CcStill, MuxSame
<1>2. ASSUME NEW a \in Attempts, Sends(a) PROVE \A c \in Conns : cc'[c].goAway = cc[c].goAway
  BY <1>2 DEF Sends
<1>3. CASE \E a \in Attempts : Stops(a) \/ Opens(a) \/ Writes(a) \/ GoesOn(a)
  BY <1>2, <1>3 DEF Stops, Opens, Writes, GoesOn
<1>4. CASE \E a \in Attempts : Leaves(a) \/ Resets(a)
  BY <1>1, <1>4 DEF Leaves, Resets
<1>5. CASE \E q \in Reqs, c \in Conns : Starts(q, c)
  BY <1>1, <1>5 DEF Starts
<1>. QED  BY <1>1, <1>3, <1>4, <1>5, SendersRest DEF Step, SendersStill

\* Frames are handled in their order, so that the last stream of a GOAWAY only falls.
LEMMA GoAwaysKept ==
  ASSUME Inv, Step, Around PROVE GoAways'
<1>1. SUFFICES ASSUME NEW c \in Conns, NEW i \in DOMAIN left'[c], left'[c][i].kind = "goaway"
               PROVE  /\ cc'[c].goAway # -1 => left'[c][i].last <= cc'[c].goAway
                      /\ \A j \in DOMAIN left'[c] :
                           i < j /\ left'[c][j].kind = "goaway" => left'[c][j].last <= left'[c][i].last
  BY DEF GoAways
<1>2. left[c] \in Seq(Frame) /\ left'[c] \in {left[c], Tail(left[c]), <<>>}
  BY DEF Inv, Shapes, Around
<1>3. PICK o \in {0, 1} : \A j \in DOMAIN left'[c] : /\ j \in Nat /\ j + o \in DOMAIN left[c]
                                                     /\ left'[c][j] = left[c][j + o]
  <2>1. CASE left'[c] = left[c]
    BY <1>2, <2>1
  <2>2. CASE left'[c] = Tail(left[c]) /\ left[c] # <<>>
    BY <1>2, <2>2
  <2>3. CASE left'[c] = <<>>
    BY <2>3
  <2>4. CASE left[c] = <<>> /\ left'[c] = Tail(left[c])
    BY <1>1, <2>4
  <2>. QED  BY <1>2, <2>1, <2>2, <2>3, <2>4
<1>4. /\ cc[c].goAway # -1 => left[c][i + o].last <= cc[c].goAway
      /\ \A j \in DOMAIN left[c] : i + o < j /\ left[c][j].kind = "goaway" => left[c][j].last <= left[c][i + o].last
  BY <1>1, <1>3 DEF Inv, GoAways
<1>5. \A j \in DOMAIN left'[c] : i < j /\ left'[c][j].kind = "goaway" => left'[c][j].last <= left'[c][i].last
  BY <1>1, <1>3, <1>4
<1>6. CASE \A d \in Conns : cc'[d].goAway = cc[d].goAway
  BY <1>1, <1>3, <1>4, <1>5, <1>6
<1>7. ASSUME NEW d \in Conns, GoesAway(d)
      PROVE  cc'[c].goAway # -1 => left'[c][i].last <= cc'[c].goAway
  <2>1. CASE d # c
    <3>1. cc'[c].goAway = cc[c].goAway
      BY <1>7, <2>1 DEF GoesAway, MuxSame
    <3>. QED  BY <1>1, <1>3, <1>4, <3>1
  <2>2. CASE d = c
    <3>1. /\ left[c] # <<>> /\ left'[c] = Tail(left[c]) /\ cc'[c].goAway = left[c][1].last
          /\ left[c][1].kind = "goaway"
      BY <1>2, <1>7, <2>2 DEF GoesAway, Inv, Shapes
    <3>2. i \in Nat \ {0} /\ 1 \in DOMAIN left[c] /\ i + 1 \in DOMAIN left[c] /\ left'[c][i] = left[c][i + 1]
      BY <1>1, <1>2, <3>1
    <3>. QED  BY <1>1, <3>1, <3>2 DEF Inv, GoAways
  <2>. QED  BY <2>1, <2>2
<1>. QED  BY <1>5, <1>6, <1>7, GoAwayStays

\* The steps of senders and of callers leave the responses alone.
LEMMA StreamFrame ==
  ASSUME NEW b \in Attempts, StreamOf(b), ReadSame(cs, cs', b), cs'[b].pc = "none" => cs[b].pc = "none"
  PROVE  StreamOf(b)'
BY DEF StreamOf, ReadSame

\* Every step keeps what the read loop has made of a stream.
LEMMA StreamsKept ==
  ASSUME Inv, Step PROVE Streams'
<1>. SUFFICES ASSUME NEW b \in Attempts PROVE StreamOf(b)'
  BY DEF Streams
<1>1. StreamOf(b) /\ SlotOf(b) /\ ErrorOf(b) /\ RowNumbers(b)
  BY DEF Inv, Streams, Slots, Errors, Numbers
<1>2. ASSUME Same(cs, cs', b) PROVE StreamOf(b)'
  BY <1>1, <1>2, StreamFrame DEF Same, SendSame
<1>3. ASSUME SendSame(cs, cs', b), ReadSame(cs, cs', b) PROVE StreamOf(b)'
  BY <1>1, <1>3, StreamFrame DEF SendSame
<1>4. CASE Rests
  BY <1>2, <1>4 DEF Rests, CsStill
<1>5. ASSUME NEW q \in Reqs, CallerMoves(q) PROVE StreamOf(b)'
  BY <1>2, <1>5 DEF CallerMoves, CsStill
<1>6. ASSUME NEW q \in Reqs, NEW c \in Conns, Starts(q, c) PROVE StreamOf(b)'
  <2>1. CASE b # <<q, rq[q].k + 1>>
    BY <1>2, <1>6, <2>1 DEF Starts, RowsBut
  <2>2. CASE b = <<q, rq[q].k + 1>>
    BY <1>6, <2>2 DEF Starts, StreamOf
  <2>. QED  BY <2>1, <2>2
<1>7. ASSUME NEW a \in Attempts, Sends(a), cs'[a].pc # "none" PROVE StreamOf(b)'
  <2>1. CASE b # a
    BY <1>2, <1>7, <2>1 DEF Sends, RowsBut
  <2>2. CASE b = a
    BY <1>1, <1>7, <2>2, StreamFrame DEF Sends
  <2>. QED  BY <2>1, <2>2
<1>8. ASSUME NEW a \in Attempts, Stops(a) \/ Opens(a) \/ Writes(a) \/ GoesOn(a) PROVE StreamOf(b)'
  <2>1. Sends(a) /\ cs'[a].pc # "none"
    BY <1>8 DEF Stops, Opens, Writes, GoesOn, Sending
  <2>. QED  BY <1>7, <2>1
<1>9. ASSUME NEW a \in Attempts, Leaves(a) PROVE StreamOf(b)'
  <2>1. ReadSame(cs, cs', b) /\ (cs'[b].pc = "none" => cs[b].pc = "none")
    BY <1>9 DEF Leaves, SendSame, Over
  <2>. QED  BY <1>1, <2>1, StreamFrame
<1>10. ASSUME NEW a \in Attempts, Resets(a) PROVE StreamOf(b)'
  <2>1. CASE b # a
    BY <1>2, <1>10, <2>1 DEF Resets, RowsBut
  <2>2. CASE b = a
    <3>1. cs[b].err # "EOF"
      BY <1>1 DEF ErrorOf, OwnErrors, Aborts, fromPeer
    <3>2. /\ cs'[b].pipeErr = "EOF" => cs[b].pipeErr = "EOF"
          /\ cs[b].pipeErr = "EOF" => cs'[b].pipeErr = "EOF"
      BY <1>10, <2>2, <3>1 DEF Resets
    <3>. QED  BY <1>1, <1>10, <2>2, <3>2 DEF Resets, StreamOf, Over
  <2>. QED  BY <2>1, <2>2
<1>11. CASE RowsFail
  BY <1>3, <1>11 DEF RowsFail
<1>12. ASSUME NEW c \in Conns, GoesAway(c) PROVE StreamOf(b)'
  BY <1>3, <1>12 DEF GoesAway
<1>13. ASSUME NEW a \in Attempts, Responds(a) PROVE StreamOf(b)'
  <2>1. CASE b # a
    BY <1>2, <1>13, <2>1 DEF Responds, RowsBut
  <2>2. CASE b = a
    BY <1>1, <1>13, <2>2 DEF Responds, StreamOf, SendSame
  <2>. QED  BY <2>1, <2>2
<1>14. ASSUME NEW a \in Attempts, NEW n \in Nat, Feeds(a, n) PROVE StreamOf(b)'
  <2>1. CASE b # a
    BY <1>2, <1>14, <2>1 DEF Feeds, RowsBut
  <2>2. CASE b = a
    <3>1. cs'[b].pc # "none"
      BY <1>1, <1>14, <2>2 DEF Feeds, SlotOf, Waiting, SendSame
    <3>. QED  BY <1>1, <1>14, <2>2, <3>1 DEF Feeds, StreamOf
  <2>. QED  BY <2>1, <2>2
<1>15. ASSUME NEW a \in Attempts, Ends(a) PROVE StreamOf(b)'
  <2>1. CASE b # a
    BY <1>2, <1>15, <2>1 DEF Ends, RowsBut
  <2>2. CASE b = a
    BY <1>1, <1>15, <2>2 DEF Ends, StreamOf, SendSame
  <2>. QED  BY <2>1, <2>2
<1>16. ASSUME NEW a \in Attempts, PeerResets(a) PROVE StreamOf(b)'
  <2>1. CASE b # a
    BY <1>2, <1>16, <2>1 DEF PeerResets, RowsBut
  <2>2. CASE b = a
    BY <1>1, <1>16, <2>2 DEF PeerResets, StreamOf, SendSame, fromPeer
  <2>. QED  BY <2>1, <2>2
<1>17. ASSUME NEW q \in Reqs, NEW n \in Nat, Reads(q, n) PROVE StreamOf(b)'
  <2>1. Takes(q, n)
    BY <1>17 DEF Reads
  <2>2. CASE b # attempt(q)
    BY <1>2, <2>1, <2>2 DEF Takes, RowsBut
  <2>3. CASE b = attempt(q)
    <3>1. cs[b].resp = "body" /\ n <= cs[b].buf
      BY <1>17, <2>3 DEF Reads
    <3>. QED  BY <1>1, <2>1, <2>3, <3>1 DEF Takes, StreamOf, SendSame, RowNumbers
  <2>. QED  BY <2>2, <2>3
<1>18. ASSUME NEW q \in Reqs, Closes(q) PROVE StreamOf(b)'
  <2>1. CASE b # attempt(q)
    BY <1>2, <1>18, <2>1 DEF Closes, Takes, RowsBut
  <2>2. CASE b = attempt(q)
    BY <1>1, <1>18, <2>2 DEF Closes, Takes, StreamOf, SendSame, RowNumbers
  <2>. QED  BY <2>1, <2>2
<1>. QED
  BY <1>4, <1>5, <1>6, <1>8, <1>9, <1>10, <1>11, <1>12, <1>13, <1>14, <1>15, <1>16, <1>17, <1>18
  DEF Step, Fails, Cancels

\* The numbers of a stream stay in their sets.
LEMMA RowNumbersKept ==
  ASSUME Inv, Step, NEW b \in Attempts PROVE RowNumbers(b)'
<1>1. RowNumbers(b) /\ \A c \in Conns : ConnNumbers(c)
  BY DEF Inv, Numbers
<1>2. ASSUME Same(cs, cs', b) PROVE RowNumbers(b)'
  BY <1>1, <1>2 DEF Same, SendSame, ReadSame, RowNumbers
<1>3. ASSUME cs'[b].id \in Nat, ReadSame(cs, cs', b) PROVE RowNumbers(b)'
  BY <1>1, <1>3 DEF ReadSame, RowNumbers
<1>4. CASE Rests
  BY <1>2, <1>4 DEF Rests, CsStill
<1>5. ASSUME NEW q \in Reqs, CallerMoves(q) PROVE RowNumbers(b)'
  BY <1>2, <1>5 DEF CallerMoves, CsStill
<1>6. ASSUME NEW q \in Reqs, NEW c \in Conns, Starts(q, c) PROVE RowNumbers(b)'
  <2>1. CASE b # <<q, rq[q].k + 1>>
    BY <1>2, <1>6, <2>1 DEF Starts, RowsBut
  <2>2. CASE b = <<q, rq[q].k + 1>>
    <3>1. cs'[b].id = 0 /\ cs'[b].buf = 0 /\ cs'[b].fed = 0 /\ cs'[b].remain = -1
      BY <1>6, <2>2 DEF Starts
    <3>. QED  BY <3>1 DEF RowNumbers
  <2>. QED  BY <2>1, <2>2
<1>7. ASSUME NEW a \in Attempts, Sends(a), cs'[a].id \in Nat PROVE RowNumbers(b)'
  <2>1. CASE b # a
    BY <1>2, <1>7, <2>1 DEF Sends, RowsBut
  <2>2. CASE b = a
    BY <1>3, <1>7, <2>2 DEF Sends
  <2>. QED  BY <2>1, <2>2
<1>8. ASSUME NEW a \in Attempts, Stops(a) \/ Opens(a) \/ Writes(a) \/ GoesOn(a) PROVE RowNumbers(b)'
  <2>1. Sends(a) /\ cs[a].pc # "none"
    BY <1>8 DEF Stops, Opens, Writes, GoesOn, Sending
  <2>2. cs[a].cc \in Conns /\ cs[a].id \in Nat
    BY <2>1 DEF Inv, Slots, SlotOf, Numbers, RowNumbers
  <2>3. cs'[a].id \in {cs[a].id, cc[cs[a].cc].next}
    BY <1>8 DEF Stops, Opens, Writes, GoesOn
  <2>. QED  BY <1>1, <1>7, <2>1, <2>2, <2>3 DEF ConnNumbers
<1>9. ASSUME NEW a \in Attempts, Leaves(a) PROVE RowNumbers(b)'
  BY <1>1, <1>3, <1>9 DEF Leaves, SendSame, RowNumbers
<1>10. ASSUME NEW a \in Attempts, Resets(a) PROVE RowNumbers(b)'
  <2>1. CASE b # a
    BY <1>2, <1>10, <2>1 DEF Resets, RowsBut
  <2>2. CASE b = a
    BY <1>1, <1>10, <2>2 DEF Resets, RowNumbers
  <2>. QED  BY <2>1, <2>2
<1>11. CASE RowsFail
  BY <1>1, <1>3, <1>11 DEF RowsFail, SendSame, RowNumbers
<1>12. ASSUME NEW c \in Conns, GoesAway(c) PROVE RowNumbers(b)'
  BY <1>1, <1>3, <1>12 DEF GoesAway, SendSame, RowNumbers
<1>13. ASSUME NEW a \in Attempts, Responds(a) PROVE RowNumbers(b)'
  <2>1. CASE b # a
    BY <1>2, <1>13, <2>1 DEF Responds, RowsBut
  <2>2. CASE b = a
    BY <1>1, <1>13, <2>2 DEF Responds, RowNumbers, SendSame
  <2>. QED  BY <2>1, <2>2
<1>14. ASSUME NEW a \in Attempts, NEW n \in Nat, Feeds(a, n) PROVE RowNumbers(b)'
  <2>1. CASE b # a
    BY <1>2, <1>14, <2>1 DEF Feeds, RowsBut
  <2>2. CASE b = a
    <3>1. /\ cs'[b].id = cs[b].id /\ cs'[b].buf = cs[b].buf + n /\ cs'[b].fed = cs[b].fed + n
          /\ cs'[b].remain = cs[b].remain
      BY <1>14, <2>2 DEF Feeds, SendSame
    <3>. QED  BY <1>1, <3>1 DEF RowNumbers
  <2>. QED  BY <2>1, <2>2
<1>15. ASSUME NEW a \in Attempts, Ends(a) PROVE RowNumbers(b)'
  <2>1. CASE b # a
    BY <1>2, <1>15, <2>1 DEF Ends, RowsBut
  <2>2. CASE b = a
    BY <1>1, <1>15, <2>2 DEF Ends, RowNumbers, SendSame
  <2>. QED  BY <2>1, <2>2
<1>16. ASSUME NEW a \in Attempts, PeerResets(a) PROVE RowNumbers(b)'
  <2>1. CASE b # a
    BY <1>2, <1>16, <2>1 DEF PeerResets, RowsBut
  <2>2. CASE b = a
    BY <1>1, <1>16, <2>2 DEF PeerResets, RowNumbers, SendSame
  <2>. QED  BY <2>1, <2>2
<1>17. ASSUME NEW q \in Reqs, NEW n \in Nat, Takes(q, n), n <= cs[attempt(q)].buf,
              cs'[attempt(q)].remain \in Nat \cup {-1}
       PROVE  RowNumbers(b)'
  <2>1. CASE b # attempt(q)
    BY <1>2, <1>17, <2>1 DEF Takes, RowsBut
  <2>2. CASE b = attempt(q)
    BY <1>1, <1>17, <2>2 DEF Takes, RowNumbers, SendSame
  <2>. QED  BY <2>1, <2>2
<1>19. ASSUME NEW q \in Reqs, rq[q].pc \in {"reading", "eof", "readErr"} PROVE RowNumbers(attempt(q))
  <2>1. rq[q].k > 0 /\ CallNumbers(q)
    BY <1>19 DEF Inv, Tries, CallerOf, Between, Numbers
  <2>. QED  BY <2>1, AttemptOf DEF Inv, Numbers
<1>20. ASSUME NEW q \in Reqs, NEW n \in Nat, Reads(q, n) PROVE RowNumbers(b)'
  <2>1. Takes(q, n) /\ n <= cs[attempt(q)].buf /\ rq[q].pc = "reading"
    BY <1>20 DEF Reads
  <2>2. RowNumbers(attempt(q))
    BY <1>19, <2>1
  <2>3. cs'[attempt(q)].remain \in Nat \cup {-1}
    <3>1. \/ cs'[attempt(q)].remain \in {0, -1}
          \/ /\ cs[attempt(q)].remain # -1 /\ n <= cs[attempt(q)].remain
             /\ cs'[attempt(q)].remain = cs[attempt(q)].remain - n
      BY <1>20 DEF Reads
    <3>. QED  BY <2>2, <3>1 DEF RowNumbers
  <2>. QED  BY <1>17, <2>1, <2>3
<1>21. ASSUME NEW q \in Reqs, Closes(q) PROVE RowNumbers(b)'
  <2>1. /\ Takes(q, cs[attempt(q)].buf) /\ cs'[attempt(q)].remain = cs[attempt(q)].remain
        /\ rq[q].pc \in {"reading", "eof", "readErr"}
    BY <1>21 DEF Closes
  <2>2. RowNumbers(attempt(q))
    BY <1>19, <2>1
  <2>. QED  BY <1>17, <2>1, <2>2 DEF RowNumbers
<1>. QED
  BY <1>4, <1>5, <1>6, <1>8, <1>9, <1>10, <1>11, <1>12, <1>13, <1>14, <1>15, <1>16, <1>20, <1>21
  DEF Step, Fails, Cancels

\* The numbers of a connection stay in their sets.
LEMMA ConnNumbersKept ==
  ASSUME Inv, Step, NEW c \in Conns PROVE ConnNumbers(c)'
<1>1. ConnNumbers(c)
  BY DEF Inv, Numbers
<1>2. Windows(cc')
  <2>1. ASSUME NEW q \in Reqs, CallerMoves(q) PROVE Even
    BY <2>1 DEF CallerMoves
  <2>2. ASSUME NEW q \in Reqs, NEW d \in Conns, Starts(q, d) PROVE Even
    BY <2>2 DEF Starts
  <2>3. ASSUME NEW a \in Attempts, Stops(a) \/ Opens(a) \/ Writes(a) \/ GoesOn(a) PROVE Even
    BY <2>3 DEF Stops, Opens, Writes, GoesOn, Sends
  <2>4. ASSUME NEW a \in Attempts, Leaves(a) \/ Resets(a) \/ Responds(a) \/ Ends(a) \/ PeerResets(a) PROVE Even
    BY <2>4 DEF Leaves, Resets, Responds, Ends, PeerResets
  <2>5. ASSUME NEW q \in Reqs, Cancels(q) PROVE Even
    BY <2>5 DEF Cancels
  <2>6. ASSUME NEW d \in Conns, GoesAway(d) PROVE Even
    BY <2>6 DEF GoesAway
  <2>7. CASE Rests \/ Fails
    BY <2>7 DEF Rests, Fails, Even
  <2>8. ASSUME NEW a \in Attempts, NEW n \in Nat, Feeds(a, n) PROVE Windows(cc')
    BY <2>8 DEF Feeds
  <2>9. ASSUME NEW q \in Reqs, NEW n, Takes(q, n) PROVE Windows(cc')
    BY <2>9 DEF Takes
  <2>10. ASSUME NEW q \in Reqs, Closes(q) \/ \E n \in Nat : Reads(q, n) PROVE Windows(cc')
    BY <2>9, <2>10 DEF Closes, Reads
  <2>. QED  BY <2>1, <2>2, <2>3, <2>4, <2>5, <2>6, <2>7, <2>8, <2>10 DEF Step, Even
<1>3. ASSUME MuxSame(cc, cc', c) PROVE ConnNumbers(c)'
  BY <1>1, <1>2, <1>3 DEF ConnNumbers, Windows, MuxSame
<1>4. CASE CcStill
  BY <1>3, <1>4 DEF CcStill
<1>5. ASSUME NEW a \in Attempts, Stops(a) \/ Opens(a) \/ Writes(a) \/ GoesOn(a) PROVE ConnNumbers(c)'
  <2>1. Sends(a) /\ cs[a].pc # "none" /\ SlotOf(a) /\ RowNumbers(a)
    BY <1>5 DEF Stops, Opens, Writes, GoesOn, Sending, Inv, Slots, Numbers
  <2>2. CASE c # cs[a].cc
    BY <1>3, <2>1, <2>2 DEF Sends
  <2>3. CASE c = cs[a].cc
    <3>1. /\ cc'[c].next \in {cc[c].next, cc[c].next + 2} /\ cc'[c].goAway = cc[c].goAway
          /\ cc'[c].lastHdr = cc[c].lastHdr \/ (cs[a].pc = "headers" /\ cc'[c].lastHdr = cs[a].id /\ cc'[c].next = cc[c].next)
      BY <1>5, <2>1, <2>3 DEF Stops, Opens, Writes, GoesOn, MuxSame, Sends
    <3>. QED  BY <1>1, <1>2, <2>1, <2>3, <3>1 DEF ConnNumbers, Windows, SlotOf, RowNumbers
  <2>. QED  BY <2>2, <2>3
<1>6. ASSUME NEW d \in Conns, GoesAway(d) PROVE ConnNumbers(c)'
  <2>1. CASE c # d
    BY <1>3, <1>6, <2>1 DEF GoesAway
  <2>2. CASE c = d
    <3>1. left[c] \in Seq(Frame) /\ left[c] # <<>>
      BY <1>6, <2>2 DEF GoesAway, Inv, Shapes
    <3>2. Head(left[c]).last \in Nat
      <4>1. Head(left[c]) \in Frame
        BY <3>1
      <4>. QED  BY <4>1 DEF Frame
    <3>. QED  BY <1>1, <1>2, <1>6, <2>2, <3>2 DEF ConnNumbers, Windows, GoesAway
  <2>. QED  BY <2>1, <2>2
<1>7. CASE \E a \in Attempts : Leaves(a) \/ Resets(a)
  BY <1>4, <1>7 DEF Leaves, Resets
<1>8. CASE \E q \in Reqs, d \in Conns : Starts(q, d)
  BY <1>4, <1>8 DEF Starts
<1>. QED  BY <1>4, <1>5, <1>6, <1>7, <1>8, SendersRest DEF Step, SendersStill

\* What the steps do to the callers.
LEMMA CallersStep ==
  ASSUME Step
  PROVE  \/ rq' = rq
         \/ \E q \in Reqs : CallerMoves(q) \/ Cancels(q) \/ Closes(q) \/ (\E n \in Nat : Reads(q, n))
                            \/ \E c \in Conns : Starts(q, c)
<1>1. ASSUME NEW a \in Attempts, Stops(a) \/ Opens(a) \/ Writes(a) \/ GoesOn(a) PROVE rq' = rq
  BY <1>1 DEF Stops, Opens, Writes, GoesOn, Sends
<1>2. ASSUME NEW a \in Attempts, Leaves(a) \/ Resets(a) \/ Responds(a) \/ Ends(a) \/ PeerResets(a) PROVE rq' = rq
  BY <1>2 DEF Leaves, Resets, Responds, Ends, PeerResets
<1>3. ASSUME NEW a \in Attempts, NEW n \in Nat, Feeds(a, n) PROVE rq' = rq
  BY <1>3 DEF Feeds
<1>4. ASSUME NEW c \in Conns, GoesAway(c) PROVE rq' = rq
  BY <1>4 DEF GoesAway
<1>5. CASE Rests \/ Fails
  BY <1>5 DEF Rests, Fails
<1>. QED  BY <1>1, <1>2, <1>3, <1>4, <1>5 DEF Step

\* The numbers of a call stay in their sets.
LEMMA CallNumbersKept ==
  ASSUME Inv, Step, NEW r \in Reqs PROVE CallNumbers(r)'
<1>1. CallNumbers(r) /\ CallerOf(r)
  BY DEF Inv, Numbers, Tries
<1>2. CASE rq' = rq
  BY <1>1, <1>2 DEF CallNumbers
<1>3. ASSUME NEW q \in Reqs, q # r, RqBut(q) PROVE CallNumbers(r)'
  BY <1>1, <1>3 DEF RqBut, CallNumbers
<1>4. ASSUME NEW q \in Reqs, CallerMoves(q) \/ Cancels(q) PROVE CallNumbers(r)'
  <2>1. RqBut(q) /\ rq'[q].k = rq[q].k /\ rq'[q].got = rq[q].got
    BY <1>4 DEF CallerMoves, Cancels
  <2>. QED  BY <1>1, <1>3, <2>1 DEF CallNumbers
<1>5. ASSUME NEW q \in Reqs, NEW c \in Conns, Starts(q, c) PROVE CallNumbers(r)'
  <2>1. RqBut(q) /\ rq'[q].k = rq[q].k + 1 /\ rq'[q].got = rq[q].got /\ rq[q].pc \in Between
    BY <1>5 DEF Starts, Between
  <2>2. CASE q = r
    <3>1. rq[r].k <= MaxRetry + 1 /\ rq[r].k \in 0 .. MaxRetry + 2 /\ rq[r].got \in Int
      BY <1>1, <2>1, <2>2 DEF CallNumbers, CallerOf
    <3>. QED  BY <2>1, <2>2, <3>1, MaxRetryNat DEF CallNumbers
  <2>. QED  BY <1>3, <2>1, <2>2
<1>6. ASSUME NEW q \in Reqs, Closes(q) PROVE CallNumbers(r)'
  BY <1>1, <1>3, <1>6 DEF Closes, Takes, CallNumbers
<1>7. ASSUME NEW q \in Reqs, NEW n \in Nat, Reads(q, n) PROVE CallNumbers(r)'
  <2>1. RqBut(q) /\ rq'[q].k = rq[q].k
    BY <1>7 DEF Reads, Takes
  <2>2. CASE q = r
    <3>1. rq[r].pc = "reading"
      BY <1>7, <2>2 DEF Reads
    <3>2. rq[r].k > 0
      BY <1>1, <3>1 DEF CallerOf, Between
    <3>3. RowNumbers(attempt(r))
      BY <1>1, <3>2, AttemptOf DEF Inv, Numbers
    <3>4. \/ rq'[r].got = rq[r].got + n
          \/ cs[attempt(r)].remain # -1 /\ rq'[r].got = rq[r].got + cs[attempt(r)].remain
      BY <1>7, <2>2 DEF Reads
    <3>. QED  BY <1>1, <2>1, <2>2, <3>3, <3>4 DEF CallNumbers, RowNumbers
  <2>. QED  BY <1>3, <2>1, <2>2
<1>. QED  BY <1>2, <1>4, <1>5, <1>6, <1>7, CallersStep

\* All of them.
LEMMA NumbersKept ==
  ASSUME Inv, Step PROVE Numbers'
BY RowNumbersKept, ConnNumbersKept, CallNumbersKept DEF Numbers

----------------------------------------------------------------------------
(* Attempts and callers *)

\* What is decided about an attempt stays so.
Decided(b) ==
  /\ cs'[b].pc = "none" <=> cs[b].pc = "none"
  /\ cs[b].abort # "" => /\ cs'[b].abort = cs[b].abort
                         /\ cs'[b].early => cs[b].early
                         /\ cs'[b].sentHeaders => cs[b].sentHeaders
\* What the server sent stays there to be read.
Readable(b) ==
  /\ cs'[b].fed - cs'[b].buf = cs[b].fed - cs[b].buf
  /\ cs[b].resp # "none" => cs'[b].resp # "none" /\ cs'[b].remain = cs[b].remain
  /\ cs[b].pipeErr = "EOF" => cs'[b].pipeErr = "EOF" /\ cs'[b].buf = cs[b].buf
  /\ cs[b].abort # "" => cs'[b].abort # ""
  /\ cs[b].pipeErr # "" => cs'[b].pipeErr # "" /\ (cs'[b].whole => cs[b].whole)

\* A stream that is left alone stays as decided, and as readable, as it is.
LEMMA DecidedSame ==
  ASSUME NEW b, Same(cs, cs', b) PROVE Decided(b) /\ Readable(b)
BY DEF Same, SendSame, ReadSame, Decided, Readable

\* Once an attempt has failed or has its response, it stays so until another begins.
LEMMA DecidedStays ==
  ASSUME Inv, Step, NEW b \in Attempts, ~\E q \in Reqs, c \in Conns : Starts(q, c) /\ b = <<q, rq[q].k + 1>>
  PROVE  Decided(b)
<1>1. StreamOf(b) /\ SlotOf(b) /\ ErrorOf(b)
  BY DEF Inv, Streams, Slots, Errors
<1>2. ASSUME SendSame(cs, cs', b), ReadSame(cs, cs', b), NEW E, AbortStep(b, E) PROVE Decided(b)
  BY <1>2 DEF SendSame, ReadSame, AbortStep, Decided
<1>3. CASE Rests
  BY <1>3, DecidedSame DEF Rests, CsStill
<1>4. ASSUME NEW q \in Reqs, CallerMoves(q) PROVE Decided(b)
  BY <1>4, DecidedSame DEF CallerMoves, CsStill
<1>5. ASSUME NEW q \in Reqs, NEW c \in Conns, Starts(q, c) PROVE Decided(b)
  BY <1>5, DecidedSame DEF Starts, RowsBut
<1>6. ASSUME NEW a \in Attempts, Stops(a) \/ Opens(a) \/ Writes(a) \/ GoesOn(a) PROVE Decided(b)
  <2>1. Sends(a) /\ cs[a].pc # "none" /\ cs'[a].pc # "none"
    BY <1>6 DEF Stops, Opens, Writes, GoesOn, Sending
  <2>2. CASE b # a
    BY <2>1, <2>2, DecidedSame DEF Sends, RowsBut
  <2>3. CASE b = a
    <3>1. cs[a].abort # "" => cs'[a].sentHeaders = cs[a].sentHeaders
      BY <1>6 DEF Stops, Opens, Writes, GoesOn
    <3>2. cs'[a].abort = cs[a].abort /\ cs'[a].early = cs[a].early
      BY <2>1 DEF Sends, ReadSame
    <3>. QED  BY <2>1, <2>3, <3>1, <3>2 DEF Decided
  <2>. QED  BY <2>2, <2>3
<1>7. ASSUME NEW a \in Attempts, Leaves(a) PROVE Decided(b)
  <2>1. ReadSame(cs, cs', b) /\ AbortStep(b, Plain)
    BY <1>7 DEF Leaves
  <2>2. CASE b # a
    BY <1>2, <1>7, <2>1, <2>2 DEF Leaves
  <2>3. CASE b = a
    BY <1>7, <2>1, <2>3 DEF Leaves, Decided, ReadSame, AbortStep, Over
  <2>. QED  BY <2>2, <2>3
<1>8. ASSUME NEW a \in Attempts, Resets(a) PROVE Decided(b)
  <2>1. CASE b # a
    BY <1>8, <2>1, DecidedSame DEF Resets, RowsBut
  <2>2. CASE b = a
    BY <1>8, <2>2 DEF Resets, Decided, AbortStep, Over
  <2>. QED  BY <2>1, <2>2
<1>9. CASE RowsFail
  BY <1>2, <1>9 DEF RowsFail
<1>10. ASSUME NEW c \in Conns, GoesAway(c) PROVE Decided(b)
  BY <1>2, <1>10 DEF GoesAway
<1>11. ASSUME NEW a \in Attempts, Responds(a) PROVE Decided(b)
  <2>1. CASE b # a
    BY <1>11, <2>1, DecidedSame DEF Responds, RowsBut
  <2>2. CASE b = a
    BY <1>11, <2>2 DEF Responds, Decided, SendSame
  <2>. QED  BY <2>1, <2>2
<1>12. ASSUME NEW a \in Attempts, NEW n \in Nat, Feeds(a, n) PROVE Decided(b)
  <2>1. CASE b # a
    BY <1>12, <2>1, DecidedSame DEF Feeds, RowsBut
  <2>2. CASE b = a
    BY <1>12, <2>2 DEF Feeds, Decided, SendSame
  <2>. QED  BY <2>1, <2>2
<1>13. ASSUME NEW a \in Attempts, Ends(a) PROVE Decided(b)
  <2>1. CASE b # a
    BY <1>13, <2>1, DecidedSame DEF Ends, RowsBut
  <2>2. CASE b = a
    BY <1>13, <2>2 DEF Ends, Decided, SendSame
  <2>. QED  BY <2>1, <2>2
<1>14. ASSUME NEW a \in Attempts, PeerResets(a) PROVE Decided(b)
  <2>1. CASE b # a
    BY <1>14, <2>1, DecidedSame DEF PeerResets, RowsBut
  <2>2. CASE b = a
    BY <1>14, <2>2 DEF PeerResets, Decided, SendSame, AbortStep
  <2>. QED  BY <2>1, <2>2
<1>15. ASSUME NEW q \in Reqs, NEW n, Takes(q, n), AbortStep(attempt(q), Plain) PROVE Decided(b)
  <2>1. CASE b # attempt(q)
    BY <1>15, <2>1, DecidedSame DEF Takes, RowsBut
  <2>2. CASE b = attempt(q)
    BY <1>15, <2>2 DEF Takes, Decided, SendSame, AbortStep
  <2>. QED  BY <2>1, <2>2
<1>16. ASSUME NEW q \in Reqs, Closes(q) \/ \E n \in Nat : Reads(q, n) PROVE Decided(b)
  BY <1>15, <1>16 DEF Closes, Reads, AbortStep
<1>. QED
  BY <1>3, <1>4, <1>5, <1>6, <1>7, <1>8, <1>9, <1>10, <1>11, <1>12, <1>13, <1>14, <1>16
  DEF Step, Fails, Cancels

\* Only its caller takes from what there is to read of a body.
LEMMA ReadableStays ==
  ASSUME Inv, Step, NEW b \in Attempts,
         ~\E q \in Reqs, c \in Conns : Starts(q, c) /\ b = <<q, rq[q].k + 1>>,
         ~\E q \in Reqs : b = attempt(q) /\ (Closes(q) \/ \E n \in Nat : Reads(q, n))
  PROVE  Readable(b)
<1>1. StreamOf(b) /\ RowNumbers(b)
  BY DEF Inv, Streams, Numbers
<1>2. ASSUME ReadSame(cs, cs', b), NEW E, AbortStep(b, E) PROVE Readable(b)
  BY <1>2 DEF ReadSame, AbortStep, Readable
<1>3. CASE Rests
  BY <1>3, DecidedSame DEF Rests, CsStill
<1>4. ASSUME NEW q \in Reqs, CallerMoves(q) PROVE Readable(b)
  BY <1>4, DecidedSame DEF CallerMoves, CsStill
<1>5. ASSUME NEW q \in Reqs, NEW c \in Conns, Starts(q, c) PROVE Readable(b)
  BY <1>5, DecidedSame DEF Starts, RowsBut
<1>6. ASSUME NEW a \in Attempts, Stops(a) \/ Opens(a) \/ Writes(a) \/ GoesOn(a) PROVE Readable(b)
  <2>1. Sends(a)
    BY <1>6 DEF Stops, Opens, Writes, GoesOn
  <2>2. CASE b # a
    BY <2>1, <2>2, DecidedSame DEF Sends, RowsBut
  <2>3. CASE b = a
    BY <1>2, <2>1, <2>3 DEF Sends, AbortStep
  <2>. QED  BY <2>2, <2>3
<1>7. ASSUME NEW a \in Attempts, Leaves(a) PROVE Readable(b)
  BY <1>2, <1>7 DEF Leaves
<1>8. ASSUME NEW a \in Attempts, Resets(a) PROVE Readable(b)
  <2>1. CASE b # a
    BY <1>8, <2>1, DecidedSame DEF Resets, RowsBut
  <2>2. CASE b = a
    BY <1>8, <2>2 DEF Resets, Readable, AbortStep
  <2>. QED  BY <2>1, <2>2
<1>9. CASE RowsFail
  BY <1>2, <1>9 DEF RowsFail
<1>10. ASSUME NEW c \in Conns, GoesAway(c) PROVE Readable(b)
  BY <1>2, <1>10 DEF GoesAway
<1>11. ASSUME NEW a \in Attempts, Responds(a) PROVE Readable(b)
  <2>1. CASE b # a
    BY <1>11, <2>1, DecidedSame DEF Responds, RowsBut
  <2>2. CASE b = a
    BY <1>1, <1>11, <2>2 DEF Responds, Readable, StreamOf
  <2>. QED  BY <2>1, <2>2
<1>12. ASSUME NEW a \in Attempts, NEW n \in Nat, Feeds(a, n) PROVE Readable(b)
  <2>1. CASE b # a
    BY <1>12, <2>1, DecidedSame DEF Feeds, RowsBut
  <2>2. CASE b = a
    <3>1. /\ cs'[b].buf = cs[b].buf + n /\ cs'[b].fed = cs[b].fed + n /\ (n = 0 \/ cs[b].pipeErr = "")
          /\ cs'[b].resp = cs[b].resp /\ cs'[b].remain = cs[b].remain /\ cs'[b].pipeErr = cs[b].pipeErr
          /\ cs'[b].whole = cs[b].whole /\ cs'[b].abort = cs[b].abort
      BY <1>12, <2>2 DEF Feeds
    <3>2. cs'[b].fed - cs'[b].buf = cs[b].fed - cs[b].buf
      <4>1. \A x, y \in Nat : (x + n) - (y + n) = x - y
        OBVIOUS
      <4>2. cs[b].fed \in Nat /\ cs[b].buf \in Nat
        BY <1>1 DEF RowNumbers
      <4>. QED  BY <3>1, <4>1, <4>2
    <3>3. cs[b].pipeErr = "EOF" => cs'[b].buf = cs[b].buf
      BY <1>1, <3>1 DEF RowNumbers
    <3>. QED  BY <3>1, <3>2, <3>3 DEF Readable
  <2>. QED  BY <2>1, <2>2
<1>13. ASSUME NEW a \in Attempts, Ends(a) PROVE Readable(b)
  <2>1. CASE b # a
    BY <1>13, <2>1, DecidedSame DEF Ends, RowsBut
  <2>2. CASE b = a
    BY <1>13, <2>2 DEF Ends, Readable
  <2>. QED  BY <2>1, <2>2
<1>14. ASSUME NEW a \in Attempts, PeerResets(a) PROVE Readable(b)
  <2>1. CASE b # a
    BY <1>14, <2>1, DecidedSame DEF PeerResets, RowsBut
  <2>2. CASE b = a
    BY <1>14, <2>2 DEF PeerResets, Readable, AbortStep, fromPeer
  <2>. QED  BY <2>1, <2>2
<1>15. ASSUME NEW q \in Reqs, Closes(q) \/ \E n \in Nat : Reads(q, n) PROVE Readable(b)
  BY <1>15, DecidedSame DEF Closes, Reads, Takes, RowsBut
<1>. QED
  BY <1>3, <1>4, <1>5, <1>6, <1>7, <1>8, <1>9, <1>10, <1>11, <1>12, <1>13, <1>14, <1>15
  DEF Step, Fails, Cancels

\* An attempt that was given up stays given up.
LEMMA GivenUpStays ==
  ASSUME NEW b, Decided(b), GivenUp(b) PROVE GivenUp(b)'
BY DEF Decided, GivenUp

\* A request begins an attempt when the one before it is given up.
LEMMA TryKept ==
  ASSUME Inv, Step, NEW b \in Attempts PROVE TryOf(b)'
<1>. DEFINE r == b[1]
<1>1. TryOf(b) /\ r \in Reqs /\ CallNumbers(r) /\ CallerOf(r) /\ b[2] \in 1 .. MaxRetry + 2 /\ b = <<r, b[2]>>
  BY AttemptPairs DEF Inv, Tries, Numbers
<1>2. CASE rq'[r].k = rq[r].k /\ Decided(b)
  BY <1>1, <1>2, GivenUpStays DEF TryOf, Decided
<1>3. ASSUME NEW q \in Reqs, q # r, RqBut(q), Decided(b) PROVE TryOf(b)'
  BY <1>1, <1>2, <1>3 DEF RqBut
<1>4. ASSUME NEW q \in Reqs, NEW c \in Conns, Starts(q, c) PROVE TryOf(b)'
  <2>1. RqBut(q) /\ rq'[q].k = rq[q].k + 1 /\ rq[q].pc \in Between /\ cs'[<<q, rq[q].k + 1>>].pc = "lock"
    BY <1>4 DEF Starts, Between
  <2>2. CASE b = <<q, rq[q].k + 1>>
    <3>1. q = r /\ b[2] = rq[r].k + 1
      BY <1>1, <2>2
    <3>. QED  BY <1>1, <2>1, <2>2, <3>1 DEF TryOf, CallNumbers
  <2>3. CASE b # <<q, rq[q].k + 1>>
    <3>1. Decided(b)
      BY <1>4, <2>3, DecidedSame DEF Starts, RowsBut
    <3>2. CASE q = r
      <4>1. b[2] # rq[r].k + 1
        BY <1>1, <2>3, <3>2
      <4>2. rq[r].k \in Nat /\ b[2] \in Nat
        BY <1>1, MaxRetryNat DEF CallNumbers
      <4>3. b[2] <= rq'[r].k <=> b[2] <= rq[r].k
        BY <2>1, <3>2, <4>1, <4>2
      <4>4. b[2] < rq'[r].k => b[2] < rq[r].k \/ b[2] = rq[r].k
        BY <2>1, <3>2, <4>2
      <4>5. b[2] = rq[r].k => GivenUp(b)
        <5>1. SUFFICES ASSUME b[2] = rq[r].k PROVE GivenUp(b)
          OBVIOUS
        <5>2. b = attempt(r) /\ rq[r].k > 0
          BY <1>1, <4>2, <5>1 DEF attempt
        <5>. QED  BY <1>1, <2>1, <3>2, <5>2 DEF CallerOf
      <4>. QED  BY <1>1, <3>1, <4>3, <4>4, <4>5, GivenUpStays DEF TryOf, Decided
    <3>. QED  BY <1>3, <2>1, <3>1, <3>2
  <2>. QED  BY <2>2, <2>3
<1>5. CASE \A q \in Reqs, c \in Conns : ~Starts(q, c)
  <2>1. Decided(b)
    BY <1>5, DecidedStays
  <2>2. rq'[r].k = rq[r].k
    <3>1. ASSUME NEW q \in Reqs, RqBut(q), rq'[q].k = rq[q].k PROVE rq'[r].k = rq[r].k
      BY <1>1, <3>1 DEF RqBut
    <3>2. ASSUME NEW q \in Reqs, CallerMoves(q) PROVE RqBut(q) /\ rq'[q].k = rq[q].k
      BY <3>2 DEF CallerMoves
    <3>3. ASSUME NEW q \in Reqs, Cancels(q) \/ Closes(q) \/ \E n \in Nat : Reads(q, n)
          PROVE  RqBut(q) /\ rq'[q].k = rq[q].k
      BY <3>3 DEF Cancels, Closes, Reads, Takes
    <3>. QED  BY <1>5, <3>1, <3>2, <3>3, CallersStep
  <2>. QED  BY <1>2, <2>1, <2>2
<1>. QED  BY <1>4, <1>5

\* What an attempt's record says of it.
LEMMA CallerFrame ==
  ASSUME NEW r \in Reqs, CallerOf(r), rq'[r].pc = rq[r].pc, rq'[r].k = rq[r].k,
         rq'[r].call = rq[r].call \/ rq'[r].call \in Conns,
         rq[r].cancelled => rq'[r].cancelled,
         rq[r].k > 0 => Decided(attempt(r))
  PROVE  CallerOf(r)'
<1>. DEFINE b == attempt(r)
<1>1. attempt(r)' = attempt(r)
  BY DEF attempt
<1>2. rq[r].k > 0 /\ cs[b].abort # "" /\ ~cs[b].early => cs'[b].abort # "" /\ ~cs'[b].early
  BY DEF Decided
<1>3. GivenUp(attempt(r)) /\ rq[r].k > 0 => GivenUp(attempt(r))'
  <2>. SUFFICES ASSUME GivenUp(attempt(r)), rq[r].k > 0 PROVE GivenUp(attempt(r))'
    OBVIOUS
  <2>. QED  BY <1>1 DEF Decided, GivenUp
<1>4. /\ rq'[r].pc = "dialing" => rq'[r].call \in Conns
      /\ rq'[r].pc \in Between => rq'[r].k <= MaxRetry + 1
      /\ rq'[r].pc \notin Between \cup {"ok", "failed"} => rq'[r].k > 0
      /\ rq'[r].pc = "cancelRequest" => rq'[r].cancelled
  BY DEF CallerOf
<1>5. rq'[r].pc \in Between /\ rq'[r].k > 0 => GivenUp(attempt(r))'
  BY <1>3 DEF CallerOf
<1>6. rq'[r].pc = "waitAbort" => cs'[b].abort # "" /\ ~cs'[b].early
  <2>1. rq'[r].pc = "waitAbort" => rq[r].k > 0 /\ cs[b].abort # "" /\ ~cs[b].early
    BY DEF CallerOf, Between
  <2>. QED  BY <1>2, <2>1
<1>7. rq'[r].pc = "failed" /\ rq'[r].k > 0 => rq'[r].cancelled \/ (cs'[b].abort # "" /\ ~cs'[b].early)
  BY <1>2 DEF CallerOf
<1>. QED  BY <1>1, <1>4, <1>5, <1>6, <1>7 DEF CallerOf

\* Every step keeps what the place of a caller says of its attempt.
LEMMA CallerKept ==
  ASSUME Inv, Step, NEW r \in Reqs PROVE CallerOf(r)'
<1>1. CallerOf(r) /\ CallNumbers(r)
  BY DEF Inv, Tries, Numbers
<1>2. rq[r].k > 0 => /\ attempt(r) \in Attempts /\ Decided(attempt(r))
                     /\ ErrorOf(attempt(r)) /\ StreamOf(attempt(r))
  <2>. SUFFICES ASSUME rq[r].k > 0
                PROVE  /\ attempt(r) \in Attempts /\ Decided(attempt(r))
                       /\ ErrorOf(attempt(r)) /\ StreamOf(attempt(r))
    OBVIOUS
  <2>1. attempt(r) \in Attempts
    BY <1>1, AttemptOf
  <2>2. ASSUME NEW q \in Reqs PROVE attempt(r) # <<q, rq[q].k + 1>>
    BY <1>1 DEF attempt, CallNumbers
  <2>. QED  BY <2>1, <2>2, DecidedStays DEF Inv, Errors, Streams
<1>3. ASSUME rq'[r] = rq[r] PROVE CallerOf(r)'
  BY <1>1, <1>2, <1>3, CallerFrame
<1>4. ASSUME NEW q \in Reqs, q # r, RqBut(q) PROVE CallerOf(r)'
  BY <1>3, <1>4 DEF RqBut
<1>. DEFINE b == attempt(r)
<1>5. ASSUME CallerMoves(r) PROVE CallerOf(r)'
  <2>1. /\ rq'[r].k = rq[r].k /\ CsStill
        /\ rq'[r].cancelled = rq[r].cancelled \/ (rq'[r].cancelled = TRUE /\ rq'[r].pc = rq[r].pc)
        /\ rq'[r].call = rq[r].call \/ (rq'[r].call \in Conns /\ rq'[r].pc = "dialing")
    BY <1>5 DEF CallerMoves
  <2>2. attempt(r)' = attempt(r)
    BY <2>1 DEF attempt
  <2>3. rq[r].k > 0 => /\ cs'[b].abort = cs[b].abort /\ cs'[b].early = cs[b].early
                       /\ cs'[b].sentHeaders = cs[b].sentHeaders
    BY <1>2, <2>1 DEF CsStill, Same, SendSame, ReadSame
  <2>4. rq[r].k > 0 => (GivenUp(attempt(r))' <=> GivenUp(attempt(r)))
    BY <2>2, <2>3 DEF GivenUp
  <2>5. rq[r].pc = "cancelRequest" => rq[r].cancelled
    BY <1>1 DEF CallerOf
  <2>6. CASE rq'[r].pc = rq[r].pc
    BY <1>1, <1>2, <2>1, <2>6, CallerFrame
  <2>7. CASE rq[r].pc \in Between /\ rq'[r].pc \in {"get", "failed"}
    <3>1. rq[r].k <= MaxRetry + 1 /\ (rq[r].k > 0 => GivenUp(attempt(r)))
      BY <1>1, <2>7 DEF CallerOf
    <3>. QED  BY <2>1, <2>2, <2>3, <2>4, <2>7, <3>1 DEF CallerOf, Between, GivenUp
  <2>8. CASE rq[r].pc = "get" /\ rq'[r].pc = "dialing" /\ rq'[r].call \in Conns
    <3>1. rq[r].k <= MaxRetry + 1 /\ (rq[r].k > 0 => GivenUp(attempt(r)))
      BY <1>1, <2>8 DEF CallerOf, Between
    <3>. QED  BY <2>1, <2>2, <2>3, <2>4, <2>8, <3>1 DEF CallerOf, Between
  <2>9. CASE rq[r].pc = "wait" /\ rq'[r].pc \in {"reading", "ok", "waitDone"}
    <3>1. rq[r].k > 0
      BY <1>1, <2>9 DEF CallerOf, Between
    <3>. QED  BY <2>1, <2>9, <3>1 DEF CallerOf, Between
  <2>10. CASE rq[r].pc = "wait" /\ rq'[r].pc = "waitAbort" /\ cs[b].abort # "" /\ cs[b].resp = "none"
    <3>1. rq[r].k > 0
      BY <1>1, <2>10 DEF CallerOf, Between
    <3>2. ~cs[b].early
      BY <1>2, <2>10, <3>1 DEF StreamOf
    <3>. QED  BY <2>1, <2>2, <2>3, <2>10, <3>1, <3>2 DEF CallerOf, Between
  <2>11. CASE rq'[r].pc \in {"ok", "failed"} /\ (rq'[r].pc = "failed" => rq[r].cancelled) /\ rq[r].pc \in {"cancelRequest", "waitDone"}
    BY <2>1, <2>2, <2>3, <2>11 DEF CallerOf, Between
  <2>12. CASE rq[r].pc = "waitAbort" /\ rq'[r].pc = "failed"
    <3>1. rq[r].k > 0 /\ cs[b].abort # "" /\ ~cs[b].early
      BY <1>1, <2>12 DEF CallerOf, Between
    <3>. QED  BY <2>1, <2>2, <2>3, <2>12, <3>1 DEF CallerOf, Between
  <2>13. CASE /\ rq[r].pc = "waitAbort" /\ rq'[r].pc \in {"get", "backoff"} /\ rq[r].k <= MaxRetry + 1
              /\ cs[b].abort \in {"unusable", "goaway", "refused", "protoPeer"}
    <3>1. rq[r].k > 0 /\ cs[b].abort # "" /\ ~cs[b].early
      BY <1>1, <2>13 DEF CallerOf, Between
    <3>2. GivenUp(attempt(r))
      BY <1>2, <2>13, <3>1 DEF GivenUp, ErrorOf
    <3>. QED  BY <2>1, <2>2, <2>3, <2>4, <2>13, <3>1, <3>2 DEF CallerOf, Between
  <2>14. CASE rq[r].pc \in {"reading", "eof", "readErr", "bodyClose"} /\ rq'[r].pc \in {"eof", "readErr", "closed"}
    <3>1. rq[r].k > 0
      BY <1>1, <2>14 DEF CallerOf, Between
    <3>. QED  BY <2>1, <2>14, <3>1 DEF CallerOf, Between
  <2>. QED  BY <1>5, <2>5, <2>6, <2>7, <2>8, <2>9, <2>10, <2>11, <2>12, <2>13, <2>14 DEF CallerMoves
<1>6. ASSUME Cancels(r) PROVE CallerOf(r)'
  <2>1. rq'[r].k = rq[r].k /\ rq'[r].pc = "cancelRequest" /\ rq'[r].cancelled = rq[r].cancelled /\ rq[r].cancelled
        /\ rq[r].pc = "wait"
    BY <1>6 DEF Cancels
  <2>2. rq[r].k > 0
    BY <1>1, <2>1 DEF CallerOf, Between
  <2>. QED  BY <2>1, <2>2 DEF CallerOf, Between
<1>7. ASSUME Closes(r) \/ \E n \in Nat : Reads(r, n) PROVE CallerOf(r)'
  <2>1. rq'[r].k = rq[r].k /\ rq'[r].pc \in {"reading", "readErr", "bodyClose"} /\ rq[r].pc \in {"reading", "eof", "readErr"}
    BY <1>7 DEF Closes, Reads, Takes
  <2>2. rq[r].k > 0
    BY <1>1, <2>1 DEF CallerOf, Between
  <2>. QED  BY <2>1, <2>2 DEF CallerOf, Between
<1>8. ASSUME NEW c \in Conns, Starts(r, c) PROVE CallerOf(r)'
  <2>1. rq'[r].k = rq[r].k + 1 /\ rq'[r].pc = "wait"
    BY <1>8 DEF Starts
  <2>2. rq'[r].k > 0
    BY <1>1, <2>1 DEF CallNumbers
  <2>. QED  BY <2>1, <2>2 DEF CallerOf, Between
<1>9. ASSUME NEW q \in Reqs, CallerMoves(q) \/ Cancels(q) \/ Closes(q) \/ (\E n \in Nat : Reads(q, n))
                             \/ \E c \in Conns : Starts(q, c)
      PROVE  RqBut(q)
  BY <1>9 DEF CallerMoves, Cancels, Closes, Reads, Takes, Starts
<1>. QED  BY <1>3, <1>4, <1>5, <1>6, <1>7, <1>8, <1>9, CallersStep

\* Both.
LEMMA TriesKept ==
  ASSUME Inv, Step PROVE Tries'
BY TryKept, CallerKept DEF Tries

----------------------------------------------------------------------------
(* What the caller reads *)

\* A step that is not of the caller only adds to what there is to read.
LEMMA ReadFrame ==
  ASSUME NEW r \in Reqs, ReadOf(r), CallerOf(r), rq'[r].pc = rq[r].pc, rq'[r].k = rq[r].k, rq'[r].got = rq[r].got,
         rq[r].got \in Int,
         rq[r].k > 0 => /\ Readable(attempt(r)) /\ RowNumbers(attempt(r)) /\ RowNumbers(attempt(r))'
  PROVE  ReadOf(r)'
<1>. DEFINE b == attempt(r)
<1>1. attempt(r)' = attempt(r)
  BY DEF attempt
<1>2. rq'[r].k > 0 /\ rq'[r].pc \in Unread \cup {"reading", "eof"} => rq'[r].got + cs'[b].buf = cs'[b].fed
  <2>. SUFFICES ASSUME rq'[r].k > 0, rq'[r].pc \in Unread \cup {"reading", "eof"}
                PROVE  rq'[r].got + cs'[b].buf = cs'[b].fed
    OBVIOUS
  <2>1. rq[r].got + cs[b].buf = cs[b].fed
    BY DEF ReadOf
  <2>2. cs'[b].fed - cs'[b].buf = cs[b].fed - cs[b].buf
    BY DEF Readable
  <2>3. cs[b].buf \in Int /\ cs[b].fed \in Int /\ cs'[b].buf \in Int /\ cs'[b].fed \in Int
    BY <1>1 DEF RowNumbers
  <2>. QED  BY <2>1, <2>2, <2>3
<1>3. rq[r].pc \in {"reading", "eof", "readErr"} => rq[r].k > 0 /\ cs[b].resp # "none"
  BY DEF CallerOf, ReadOf, Between
<1>4. rq'[r].pc \in {"reading", "eof", "readErr"} => cs'[b].resp # "none"
  BY <1>3 DEF Readable
<1>5. rq'[r].pc = "eof" => cs'[b].buf = 0 /\ cs'[b].pipeErr = "EOF" /\ cs'[b].remain \in {-1, 0}
  <2>. SUFFICES ASSUME rq[r].pc = "eof" PROVE cs'[b].buf = 0 /\ cs'[b].pipeErr = "EOF" /\ cs'[b].remain \in {-1, 0}
    OBVIOUS
  <2>1. cs[b].buf = 0 /\ cs[b].pipeErr = "EOF" /\ cs[b].remain \in {-1, 0}
    BY DEF ReadOf
  <2>. QED  BY <1>3, <2>1 DEF Readable
<1>6. rq'[r].pc = "readErr" => cs'[b].remain > 0 \/ cs'[b].abort # "" \/ (cs'[b].pipeErr # "" /\ ~cs'[b].whole)
  <2>. SUFFICES ASSUME rq[r].pc = "readErr"
                PROVE  cs'[b].remain > 0 \/ cs'[b].abort # "" \/ (cs'[b].pipeErr # "" /\ ~cs'[b].whole)
    OBVIOUS
  <2>1. cs[b].remain > 0 \/ cs[b].abort # "" \/ (cs[b].pipeErr # "" /\ ~cs[b].whole)
    BY DEF ReadOf
  <2>. QED  BY <1>3, <2>1 DEF Readable
<1>7. rq'[r].pc \in Unread => rq'[r].got = 0
  BY DEF ReadOf
<1>. QED  BY <1>1, <1>2, <1>4, <1>5, <1>6, <1>7 DEF ReadOf

\* The steps of a caller that leave its attempt's record alone.
LEMMA ReadCaller ==
  ASSUME Inv, Step, NEW r \in Reqs, CallerMoves(r) PROVE ReadOf(r)'
<1>. DEFINE b == attempt(r)
<1>1. ReadOf(r) /\ CallerOf(r) /\ CallNumbers(r)
  BY DEF Inv, ReadSoFar, Tries, Numbers
<1>2. rq'[r].k = rq[r].k /\ rq'[r].got = rq[r].got /\ CsStill
  BY DEF CallerMoves
<1>3. attempt(r)' = attempt(r)
  BY <1>2 DEF attempt
<1>4. rq[r].k > 0 => /\ b \in Attempts /\ RowNumbers(b) /\ StreamOf(b) /\ ReadSame(cs, cs', b)
                     /\ cs'[b].abort = cs[b].abort
  BY <1>1, <1>2, AttemptOf DEF Inv, Numbers, Streams, CsStill, Same
<1>5. CASE rq'[r].pc = rq[r].pc
  <2>1. rq[r].k > 0 => Readable(b) /\ RowNumbers(b) /\ RowNumbers(b)'
    BY <1>2, <1>3, <1>4, DecidedSame, RowNumbersKept DEF CsStill
  <2>. QED  BY <1>1, <1>2, <1>5, <2>1, ReadFrame DEF CallNumbers
<1>6. CASE rq[r].pc \in Unread /\ rq'[r].pc \in Unread
  <2>1. rq'[r].got = 0
    BY <1>1, <1>2, <1>6 DEF ReadOf
  <2>2. rq[r].k > 0 => rq'[r].got + cs'[b].buf = cs'[b].fed
    BY <1>1, <1>2, <1>4, <1>6 DEF ReadOf, ReadSame
  <2>. QED  BY <1>2, <1>3, <1>6, <2>1, <2>2 DEF ReadOf, Unread
<1>7. CASE rq[r].pc = "wait" /\ rq'[r].pc = "reading" /\ cs[b].resp # "none"
  <2>1. rq[r].k > 0
    BY <1>1, <1>7 DEF CallerOf, Between
  <2>2. rq'[r].got + cs'[b].buf = cs'[b].fed
    BY <1>1, <1>2, <1>4, <1>7, <2>1 DEF ReadOf, ReadSame, Unread
  <2>3. cs'[b].resp # "none"
    BY <1>4, <1>7, <2>1 DEF ReadSame
  <2>. QED  BY <1>3, <1>7, <2>2, <2>3 DEF ReadOf, Unread
<1>8. CASE /\ rq[r].pc = "reading" /\ rq'[r].pc = "eof" /\ cs[b].resp = "body" /\ cs[b].buf = 0
           /\ cs[b].pipeErr = "EOF" /\ cs[b].remain <= 0
  <2>1. rq[r].k > 0
    BY <1>1, <1>8 DEF CallerOf, Between
  <2>2. rq'[r].got + cs'[b].buf = cs'[b].fed
    BY <1>1, <1>2, <1>4, <1>8, <2>1 DEF ReadOf, ReadSame
  <2>3. /\ cs'[b].resp = "body" /\ cs'[b].buf = 0 /\ cs'[b].pipeErr = "EOF"
        /\ cs'[b].remain = cs[b].remain
    BY <1>4, <1>8, <2>1 DEF ReadSame
  <2>4. cs[b].remain \in {-1, 0}
    BY <1>4, <1>8, <2>1 DEF RowNumbers
  <2>. QED  BY <1>3, <1>8, <2>2, <2>3, <2>4 DEF ReadOf, Unread
<1>9. CASE /\ rq[r].pc = "reading" /\ rq'[r].pc = "readErr" /\ (cs[b].resp = "missing" \/ cs[b].pipeErr # "")
           /\ (cs[b].resp = "missing" \/ cs[b].pipeErr # "EOF" \/ ~(cs[b].remain <= 0))
  <2>1. rq[r].k > 0
    BY <1>1, <1>9 DEF CallerOf, Between
  <2>2. cs[b].remain > 0 \/ (cs[b].pipeErr # "" /\ ~cs[b].whole)
    <3>1. CASE cs[b].resp = "missing"
      BY <1>4, <2>1, <3>1 DEF StreamOf
    <3>2. CASE cs[b].pipeErr # "" /\ cs[b].pipeErr # "EOF"
      BY <1>4, <2>1, <3>2 DEF StreamOf
    <3>3. CASE ~(cs[b].remain <= 0)
      <4>1. cs[b].remain \in Nat \cup {-1}
        BY <1>4, <2>1 DEF RowNumbers
      <4>2. cs[b].remain > 0
        BY <3>3, <4>1
      <4>. QED  BY <4>2
    <3>. QED  BY <1>9, <3>1, <3>2, <3>3
  <2>3. cs'[b].remain = cs[b].remain /\ cs'[b].pipeErr = cs[b].pipeErr /\ cs'[b].whole = cs[b].whole /\ cs'[b].resp = cs[b].resp
    BY <1>4, <2>1 DEF ReadSame
  <2>4. cs[b].resp # "none"
    BY <1>1, <1>9 DEF ReadOf
  <2>. QED  BY <1>3, <1>9, <2>2, <2>3, <2>4 DEF ReadOf, Unread
<1>10. CASE rq'[r].pc = "closed"
  BY <1>10 DEF ReadOf, Unread
<1>. QED  BY <1>5, <1>6, <1>7, <1>8, <1>9, <1>10 DEF CallerMoves, Unread, Between

\* Every step keeps the account of what was fed and what was read.
LEMMA ReadsKept ==
  ASSUME Inv, Step PROVE ReadSoFar'
<1>. SUFFICES ASSUME NEW r \in Reqs PROVE ReadOf(r)'
  BY DEF ReadSoFar
<1>. DEFINE b == attempt(r)
<1>1. ReadOf(r) /\ CallerOf(r) /\ CallNumbers(r) /\ CallNumbers(r)'
  BY CallNumbersKept DEF Inv, ReadSoFar, Tries, Numbers
<1>2. rq[r].k > 0 => b \in Attempts /\ b[1] = r /\ RowNumbers(b)
  BY <1>1, AttemptOf DEF Inv, Numbers
<1>3. ASSUME rq'[r].pc = rq[r].pc \/ (rq[r].pc = "wait" /\ rq'[r].pc = "cancelRequest"),
             rq'[r].k = rq[r].k, rq'[r].got = rq[r].got,
             ~Closes(r), \A n \in Nat : ~Reads(r, n), \A c \in Conns : ~Starts(r, c)
      PROVE  ReadOf(r)'
  <2>1. attempt(r)' = attempt(r)
    BY <1>3 DEF attempt
  <2>2. ASSUME rq[r].k > 0 PROVE Readable(b) /\ RowNumbers(b) /\ RowNumbers(b)'
    <3>1. ASSUME NEW q \in Reqs, NEW k, b = <<q, k>> PROVE q = r
      BY <3>1 DEF attempt
    <3>2. ASSUME NEW q \in Reqs, b = attempt(q) PROVE q = r
      BY <3>2 DEF attempt
    <3>. QED  BY <1>2, <1>3, <2>1, <2>2, <3>1, <3>2, ReadableStays, RowNumbersKept
  <2>3. CASE rq'[r].pc = rq[r].pc
    BY <1>1, <1>3, <2>2, <2>3, ReadFrame DEF CallNumbers
  <2>4. CASE rq[r].pc = "wait" /\ rq'[r].pc = "cancelRequest"
    <3>1. rq[r].k > 0 /\ rq[r].got = 0 /\ rq[r].got + cs[b].buf = cs[b].fed
      BY <1>1, <2>4 DEF ReadOf, CallerOf, Between, Unread
    <3>2. cs[b].buf \in Int /\ cs[b].fed \in Int /\ cs'[b].buf \in Int /\ cs'[b].fed \in Int
      BY <2>1, <2>2, <3>1 DEF RowNumbers
    <3>3. cs'[b].fed - cs'[b].buf = cs[b].fed - cs[b].buf
      BY <2>2, <3>1 DEF Readable
    <3>4. rq'[r].got = 0 /\ rq'[r].got + cs'[b].buf = cs'[b].fed
      BY <1>3, <3>1, <3>2, <3>3
    <3>. QED  BY <2>1, <2>4, <3>4 DEF ReadOf, Unread
  <2>. QED  BY <1>3, <2>3, <2>4
<1>4. ASSUME NEW c \in Conns, Starts(r, c) PROVE ReadOf(r)'
  <2>1. rq[r].pc \in Unread
    BY <1>4 DEF Starts, Unread
  <2>2. rq[r].got = 0
    BY <1>1, <2>1 DEF ReadOf
  <2>3. rq'[r].pc = "wait" /\ rq'[r].got = rq[r].got /\ attempt(r)' = <<r, rq[r].k + 1>>
    BY <1>4 DEF Starts, attempt
  <2>4. cs'[<<r, rq[r].k + 1>>].buf = 0 /\ cs'[<<r, rq[r].k + 1>>].fed = 0
    BY <1>4 DEF Starts
  <2>. QED  BY <2>2, <2>3, <2>4 DEF ReadOf, Unread
<1>5. ASSUME Closes(r) PROVE ReadOf(r)'
  <2>1. rq'[r].pc = "bodyClose"
    BY <1>5 DEF Closes
  <2>. QED  BY <2>1 DEF ReadOf, Unread
<1>6. ASSUME NEW n \in Nat, Reads(r, n) PROVE ReadOf(r)'
  <2>1. Takes(r, n) /\ rq[r].pc = "reading" /\ cs[b].resp = "body" /\ n <= cs[b].buf
    BY <1>6 DEF Reads
  <2>2. cs'[b].buf = cs[b].buf - n /\ cs'[b].fed = cs[b].fed /\ cs'[b].resp = cs[b].resp /\ rq'[r].k = rq[r].k
    BY <2>1 DEF Takes
  <2>3. attempt(r)' = attempt(r)
    BY <2>2 DEF attempt
  <2>4. rq[r].k > 0 /\ rq[r].got + cs[b].buf = cs[b].fed
    BY <1>1, <2>1 DEF ReadOf, CallerOf, Between
  <2>5. CASE rq'[r].pc = "readErr" /\ cs'[b].abort # ""
    BY <2>1, <2>2, <2>3, <2>5 DEF ReadOf, Unread
  <2>6. CASE rq'[r].pc = "reading" /\ rq'[r].got = rq[r].got + n
    <3>1. rq'[r].got + cs'[b].buf = cs'[b].fed
      BY <1>1, <1>2, <2>2, <2>4, <2>6 DEF RowNumbers, CallNumbers
    <3>. QED  BY <2>1, <2>2, <2>3, <2>6, <3>1 DEF ReadOf, Unread
  <2>. QED  BY <1>6, <2>5, <2>6 DEF Reads
<1>7. ASSUME NEW q \in Reqs, CallerMoves(q) \/ Cancels(q) \/ Closes(q) \/ (\E n \in Nat : Reads(q, n))
                             \/ \E c \in Conns : Starts(q, c)
      PROVE  RqBut(q)
  BY <1>7 DEF CallerMoves, Cancels, Closes, Reads, Takes, Starts
<1>8. ASSUME NEW q \in Reqs, q # r, RqBut(q) PROVE rq'[r] = rq[r]
  BY <1>8 DEF RqBut
<1>9. CASE Cancels(r)
  BY <1>3, <1>4, <1>5, <1>6, <1>9 DEF Cancels
<1>10. CASE rq'[r] = rq[r]
  BY <1>3, <1>4, <1>5, <1>6, <1>10
<1>. QED  BY <1>4, <1>5, <1>6, <1>7, <1>8, <1>9, <1>10, ReadCaller, CallersStep

\* Every step keeps the shape of the state.
LEMMA ShapesKept ==
  ASSUME Inv, Step, Around PROVE Shapes'
<1>1. IsCs(cs') /\ IsCc(cc')
  <2>1. ASSUME NEW q \in Reqs, CallerMoves(q) PROVE IsCs(cs') /\ IsCc(cc')
    BY <2>1 DEF CallerMoves, CsStill, CcStill
  <2>2. ASSUME NEW q \in Reqs, NEW c \in Conns, Starts(q, c) PROVE IsCs(cs') /\ IsCc(cc')
    BY <2>2 DEF Starts, RowsBut, CcStill
  <2>3. ASSUME NEW a \in Attempts, Stops(a) \/ Opens(a) \/ Writes(a) \/ GoesOn(a) PROVE IsCs(cs') /\ IsCc(cc')
    BY <2>3 DEF Stops, Opens, Writes, GoesOn, Sends, RowsBut
  <2>4. ASSUME NEW a \in Attempts, Leaves(a) \/ Resets(a) \/ Responds(a) \/ Ends(a) \/ PeerResets(a)
        PROVE  IsCs(cs') /\ IsCc(cc')
    BY <2>4 DEF Leaves, Resets, Responds, Ends, PeerResets, RowsBut, CcStill
  <2>5. ASSUME NEW a \in Attempts, NEW n \in Nat, Feeds(a, n) PROVE IsCs(cs') /\ IsCc(cc')
    BY <2>5 DEF Feeds, RowsBut, CcStill
  <2>6. ASSUME NEW q \in Reqs, Cancels(q) PROVE IsCs(cs') /\ IsCc(cc')
    BY <2>6 DEF Cancels, RowsFail, CcStill
  <2>7. ASSUME NEW q \in Reqs, NEW n, Takes(q, n) PROVE IsCs(cs') /\ IsCc(cc')
    BY <2>7 DEF Takes, RowsBut, CcStill
  <2>8. ASSUME NEW q \in Reqs, Closes(q) \/ \E n \in Nat : Reads(q, n) PROVE IsCs(cs') /\ IsCc(cc')
    BY <2>7, <2>8 DEF Closes, Reads
  <2>9. ASSUME NEW c \in Conns, GoesAway(c) PROVE IsCs(cs') /\ IsCc(cc')
    BY <2>9 DEF GoesAway
  <2>10. CASE Rests \/ Fails
    BY <2>10 DEF Rests, Fails, RowsFail, CsStill, CcStill
  <2>. QED  BY <2>1, <2>2, <2>3, <2>4, <2>5, <2>6, <2>8, <2>9, <2>10 DEF Step
<1>2. IsRq(rq')
  <2>1. ASSUME NEW q \in Reqs, CallerMoves(q) \/ Cancels(q) \/ Closes(q) \/ (\E n \in Nat : Reads(q, n))
                               \/ \E c \in Conns : Starts(q, c)
        PROVE  RqBut(q)
    BY <2>1 DEF CallerMoves, Cancels, Closes, Reads, Takes, Starts
  <2>2. CASE rq' = rq
    BY <2>2 DEF Inv, Shapes, IsRq
  <2>. QED  BY <2>1, <2>2, CallersStep DEF RqBut
<1>. QED  BY <1>1, <1>2 DEF Shapes, IsCs, IsCc, IsRq, Around

\* Every kind of step keeps the invariant.
LEMMA StepKeepsInv ==
  ASSUME Inv, Step, Around PROVE Inv'
BY ShapesKept, NumbersKept, SlotsKept, ErrorsKept, GoAwaysKept, StreamsKept, TriesKept, ReadsKept DEF Inv
=============================================================================
