------------------------- MODULE H2ClientConnProofs -------------------------
(***************************************************************************)
(* The theorems about H2ClientConn.  Every action is shown to be of one of *)
(* the kinds of steps of H2ClientConnInv, action by action; with what that *)
(* module proves of the kinds, the invariant holds in every reachable      *)
(* state, and WireLegal, RetrySafe and ResponsesWhole follow from it.      *)
(* CreditKept is about a sum over all streams of a connection and has an   *)
(* induction of its own, over the same kinds of steps.                     *)
(***************************************************************************)
EXTENDS H2ClientConnInv

----------------------------------------------------------------------------
(* The steps of the program: the caller *)

\* The tables of a state of the invariant.
LEMMA Shaped ==
  ASSUME Inv
  PROVE  /\ IsCs(cs) /\ IsCc(cc) /\ IsRq(rq) /\ Windows(cc)
BY DEF Inv, Shapes, IsCs, IsCc, IsRq, Numbers, ConnNumbers, Windows

\* A step that leaves the pool and the frames to come alone.
LEMMA AroundStill ==
  ASSUME Inv, UNCHANGED <<pool, left, rl>> PROVE Around
BY DEF Inv, Shapes, Around

\* A step that leaves the streams alone.
LEMMA CsUnchanged ==
  ASSUME Inv, cs' = cs PROVE CsStill
BY Shaped DEF CsStill, Same, SendSame, ReadSame

\* A step that leaves the connections alone.
LEMMA CcUnchanged ==
  ASSUME Inv, cc' = cc PROVE CcStill /\ Even
BY Shaped DEF CcStill, Even, MuxSame, Credit

\* A connection table with the same streams and windows.
CcKept(f, g) == IsCc(g) /\ \A c \in Conns : CcSame(f, g, c)

\* A step that changes nothing of the connections that matters here.
LEMMA CcKeptStill ==
  ASSUME Inv, CcKept(cc, cc') PROVE CcStill /\ Even
<1>1. CcStill
  BY DEF CcKept, CcStill, CcSame
<1>2. Windows(cc') /\ \A c \in Conns : Credit(cc', c) = Credit(cc, c)
  BY Shaped DEF CcKept, CcSame, WinSame, Windows, Credit
<1>. QED  BY <1>1, <1>2 DEF Even

\* The caller's record: a new place, and the error it has returned.
LEMMA RqPlace ==
  ASSUME Inv, NEW r \in Reqs, NEW p, NEW e,
         rq' = [rq EXCEPT ![r].pc = p] \/ rq' = [rq EXCEPT ![r].pc = p, ![r].err = e]
  PROVE  /\ RqBut(r) /\ rq'[r].pc = p /\ rq'[r].k = rq[r].k /\ rq'[r].got = rq[r].got
         /\ rq'[r].cancelled = rq[r].cancelled /\ rq'[r].call = rq[r].call
<1>1. CASE rq' = [rq EXCEPT ![r].pc = p]
  BY <1>1, Shaped, RqHas DEF IsRq, Table, RqBut
<1>2. CASE rq' = [rq EXCEPT ![r].pc = p, ![r].err = e]
  BY <1>2, Shaped, RqHas DEF IsRq, Table, RqBut
<1>. QED  BY <1>1, <1>2

\* A caller waits for a dial.
LEMMA RqDials ==
  ASSUME Inv, NEW r \in Reqs, NEW c, rq' = [rq EXCEPT ![r].pc = "dialing", ![r].call = c]
  PROVE  /\ RqBut(r) /\ rq'[r].pc = "dialing" /\ rq'[r].k = rq[r].k /\ rq'[r].got = rq[r].got
         /\ rq'[r].cancelled = rq[r].cancelled /\ rq'[r].call = c
BY Shaped, RqHas DEF IsRq, Table, RqBut

\* The least of some numbers is one of them.
LEMMA LeastIn ==
  ASSUME NEW S, S \subseteq Nat, S # {} PROVE least(S) \in S
<1>1. \E x \in S : \A y \in S : x <= y
  BY MinOfNats
<1>. QED  BY <1>1 DEF least

\* The caller's wait before a retry ends, or its context does.
LEMMA BackoffDoes ==
  ASSUME Inv, NEW r \in Reqs, backoff(r) PROVE CallerMoves(r)
<1>1. cs' = cs /\ cc' = cc /\ rq[r].pc = "backoff"
  BY DEF backoff
<1>2. rq' = [rq EXCEPT ![r].pc = "get"] \/ rq' = [rq EXCEPT ![r].pc = "failed", ![r].err = "cancel"]
  BY Zenon DEF backoff
<1>3. /\ RqBut(r) /\ rq'[r].pc \in {"get", "failed"} /\ rq'[r].k = rq[r].k /\ rq'[r].got = rq[r].got
      /\ rq'[r].cancelled = rq[r].cancelled /\ rq'[r].call = rq[r].call
  <2>1. CASE rq' = [rq EXCEPT ![r].pc = "get"]
    BY <2>1, Shaped, RqHas DEF IsRq, Table, RqBut
  <2>2. CASE rq' = [rq EXCEPT ![r].pc = "failed", ![r].err = "cancel"]
    BY <2>2, Shaped, RqHas DEF IsRq, Table, RqBut
  <2>. QED  BY <1>2, <2>1, <2>2
<1>. QED  BY <1>1, <1>3, CsUnchanged, CcUnchanged DEF CallerMoves, Between

\* roundTrip begins an attempt with a new stream.
LEMMA StartDoes ==
  ASSUME Inv, NEW r \in Reqs, NEW c \in Conns, startRoundTrip(r, c), CcStill, Even, rq[r].pc \in {"get", "dialing"}
  PROVE  Starts(r, c)
<1>. DEFINE a == <<r, rq[r].k + 1>>
<1>1. rq[r].k \in 0 .. MaxRetry + 2 /\ rq[r].k <= MaxRetry + 1
  BY DEF Inv, Numbers, CallNumbers, Tries, CallerOf, Between
<1>2. a \in Attempts
  BY <1>1, MaxRetryNat DEF Attempts
<1>3. PICK t, s : cs' = [cs EXCEPT ![a] = [newStream EXCEPT !.pc = "lock", !.cc = c, !.toSend = t, !.stale = s]]
  BY Zenon DEF startRoundTrip
<1>4. PICK x : x = [newStream EXCEPT !.pc = "lock", !.cc = c, !.toSend = t, !.stale = s]
  BY Zenon
<1>5. cs' = [cs EXCEPT ![a] = x]
  BY <1>3, <1>4, Zenon
<1>6. /\ x = [y \in CsFields |-> x[y]]
      /\ x.pc = "lock" /\ x.err = "" /\ x.cc = c /\ x.id = 0 /\ x.in = FALSE
      /\ x.abort = "" /\ x.sentHeaders = FALSE /\ x.sent = "none"
      /\ x.peerClosed = FALSE /\ x.resp = "none" /\ x.buf = 0 /\ x.pipeErr = ""
      /\ x.fed = 0 /\ x.pastHeaders = FALSE /\ x.remain = -1 /\ x.whole = FALSE /\ x.early = FALSE
  <2>1. newStream = [y \in CsFields |-> newStream[y]]
    BY DEF newStream, CsFields
  <2>2. x = [y \in CsFields |-> x[y]]
    BY <1>4, <2>1
  <2>3. \A y \in CsFields \ {"pc", "cc", "toSend", "stale"} : x[y] = newStream[y]
    BY <1>4, <2>1
  <2>4. x.pc = "lock" /\ x.cc = c
    BY <1>4, <2>1, CsHas
  <2>5. /\ x.err = newStream.err /\ x.id = newStream.id /\ x.in = newStream.in
        /\ x.abort = newStream.abort /\ x.sentHeaders = newStream.sentHeaders /\ x.sent = newStream.sent
        /\ x.peerClosed = newStream.peerClosed /\ x.resp = newStream.resp /\ x.buf = newStream.buf
    BY <2>3, CsHas
  <2>6. /\ x.pipeErr = newStream.pipeErr /\ x.fed = newStream.fed /\ x.pastHeaders = newStream.pastHeaders
        /\ x.remain = newStream.remain /\ x.whole = newStream.whole /\ x.early = newStream.early
    BY <2>3, CsHas
  <2>7. /\ newStream.err = "" /\ newStream.id = 0 /\ newStream.in = FALSE /\ newStream.abort = ""
        /\ newStream.sentHeaders = FALSE /\ newStream.sent = "none" /\ newStream.peerClosed = FALSE
        /\ newStream.resp = "none" /\ newStream.buf = 0 /\ newStream.pipeErr = "" /\ newStream.fed = 0
        /\ newStream.pastHeaders = FALSE /\ newStream.remain = -1 /\ newStream.whole = FALSE /\ newStream.early = FALSE
    BY DEF newStream
  <2>. QED  BY <2>2, <2>4, <2>5, <2>6, <2>7
<1>7. cs'[a] = x /\ cs' = [b \in Attempts |-> cs'[b]] /\ \A b \in Attempts : b # a => cs'[b] = cs[b]
  <2>1. cs = [b \in Attempts |-> cs[b]]
    BY Shaped DEF IsCs, Table
  <2>. HIDE DEF a
  <2>. QED  BY <1>2, <1>5, <2>1
<1>8. RowsBut(a)
  <2>1. x = [y \in CsFields |-> x[y]]
    BY <1>6
  <2>2. \A b \in Attempts : cs[b] = [y \in CsFields |-> cs[b][y]]
    BY Shaped DEF IsCs, Table
  <2>. HIDE DEF a
  <2>3. \A b \in Attempts : cs'[b] = [y \in CsFields |-> cs'[b][y]]
    BY <1>7, <2>1, <2>2
  <2>. QED  BY <1>7, <2>3 DEF RowsBut, IsCs, Table, Same, SendSame, ReadSame
<1>9. RqBut(r) /\ rq'[r].k = rq[r].k + 1 /\ rq'[r].pc = "wait" /\ rq'[r].got = rq[r].got
      /\ rq'[r].cancelled = rq[r].cancelled
  <2>1. PICK k : k = rq[r].k + 1 /\ rq' = [rq EXCEPT ![r].k = k, ![r].pc = "wait"]
    <3>1. rq' = [rq EXCEPT ![r].k = rq[r].k + 1, ![r].pc = "wait"]
      BY Shaped, RqHas DEF startRoundTrip, IsRq, Table
    <3>. QED  BY <3>1, Zenon
  <2>2. rq' = [rq EXCEPT ![r].k = k, ![r].pc = "wait"]
    BY <2>1
  <2>3. RqBut(r) /\ rq'[r].k = k /\ rq'[r].pc = "wait" /\ rq'[r].got = rq[r].got /\ rq'[r].cancelled = rq[r].cancelled
    BY <2>2, Shaped, RqHas DEF IsRq, Table, RqBut
  <2>. QED  BY <2>1, <2>3
<1>10. cs'[a].pc = "lock" /\ cs'[a].err = "" /\ cs'[a].cc = c /\ cs'[a].id = 0 /\ cs'[a].in = FALSE
       /\ cs'[a].abort = "" /\ cs'[a].sentHeaders = FALSE /\ cs'[a].sent = "none"
       /\ cs'[a].peerClosed = FALSE /\ cs'[a].resp = "none" /\ cs'[a].buf = 0 /\ cs'[a].pipeErr = ""
       /\ cs'[a].fed = 0 /\ cs'[a].pastHeaders = FALSE /\ cs'[a].remain = -1
       /\ cs'[a].whole = FALSE /\ cs'[a].early = FALSE
  <2>. HIDE DEF a
  <2>. QED  BY <1>6, <1>7, Zenon
<1>. QED  BY <1>8, <1>9, <1>10, Zenon DEF Starts

\* A connection of the pool is reserved, and the attempt begins on it.
LEMMA ReserveDoes ==
  ASSUME Inv, NEW r \in Reqs, NEW c \in Conns, reserveNewRequest(r, c), rq[r].pc \in {"get", "dialing"}
  PROVE  Starts(r, c)
<1>1. PICK v : cc' = [cc EXCEPT ![c].reserved = v]
  BY Zenon DEF reserveNewRequest
<1>2. CcKept(cc, cc')
  BY <1>1, Shaped, CcHas DEF IsCc, Table, CcKept, CcSame, MuxSame, WinSame
<1>. QED  BY <1>2, CcKeptStill, StartDoes DEF reserveNewRequest

\* The caller begins a dial, or joins one.
LEMMA StartDialDoes ==
  ASSUME Inv, NEW r \in Reqs, NEW s, startDial(r, s), rq[r].pc = "get", cs' = cs PROVE CallerMoves(r)
<1>1. CASE unmade = {}
  <2>1. cc' = cc /\ rq' = [rq EXCEPT ![r].pc = "failed", ![r].err = "dial"]
    BY <1>1 DEF startDial
  <2>2. /\ RqBut(r) /\ rq'[r].pc = "failed" /\ rq'[r].k = rq[r].k /\ rq'[r].got = rq[r].got
        /\ rq'[r].cancelled = rq[r].cancelled /\ rq'[r].call = rq[r].call
    BY <2>1, RqPlace
  <2>. QED  BY <2>1, <2>2, CsUnchanged, CcUnchanged DEF CallerMoves, Between
<1>2. CASE unmade # {}
  <2>1. PICK c : c = least(unmade) /\ cc' = [cc EXCEPT ![c].single = s]
                 /\ rq' = [rq EXCEPT ![r].pc = "dialing", ![r].call = c]
    BY <1>2, Zenon DEF startDial
  <2>2. c \in Conns
    BY <1>2, <2>1, LeastIn, SizeAssumption DEF unmade
  <2>3. cc' = [cc EXCEPT ![c].single = s]
    BY <2>1
  <2>4. CcKept(cc, cc')
    BY <2>2, <2>3, Shaped, CcHas DEF IsCc, Table, CcKept, CcSame, MuxSame, WinSame
  <2>5. /\ RqBut(r) /\ rq'[r].pc = "dialing" /\ rq'[r].k = rq[r].k /\ rq'[r].got = rq[r].got
        /\ rq'[r].cancelled = rq[r].cancelled /\ rq'[r].call = c
    BY <2>1, RqDials
  <2>. QED  BY <2>2, <2>4, <2>5, CsUnchanged, CcKeptStill DEF CallerMoves
<1>. QED  BY <1>1, <1>2

\* The pool gives a connection, or a dial is needed.
LEMMA GetClientConnDoes ==
  ASSUME Inv, NEW r \in Reqs, getClientConn(r)
  PROVE  CallerMoves(r) \/ \E c \in Conns : Starts(r, c)
<1>1. rq[r].pc = "get"
  BY DEF getClientConn
<1>2. ASSUME NEW s, startDial(r, s), cs' = cs PROVE CallerMoves(r)
  BY <1>1, <1>2, StartDialDoes
<1>3. ASSUME usable # {}, reserveNewRequest(r, pool[least(usable)]) PROVE \E c \in Conns : Starts(r, c)
  <2>1. pool \in Seq(Conns) /\ usable \subseteq DOMAIN pool /\ DOMAIN pool \subseteq Nat
    BY DEF Inv, Shapes, usable
  <2>2. least(usable) \in DOMAIN pool
    BY <1>3, <2>1, LeastIn
  <2>3. pool[least(usable)] \in Conns
    BY <2>1, <2>2
  <2>. QED  BY <1>1, <1>3, <2>3, ReserveDoes
<1>4. ASSUME rq' = [rq EXCEPT ![r].pc = "failed", ![r].err = "noCachedConn"], cc' = cc, cs' = cs PROVE CallerMoves(r)
  <2>1. /\ RqBut(r) /\ rq'[r].pc = "failed" /\ rq'[r].k = rq[r].k /\ rq'[r].got = rq[r].got
        /\ rq'[r].cancelled = rq[r].cancelled /\ rq'[r].call = rq[r].call
    BY <1>4, RqPlace
  <2>. QED  BY <1>1, <1>4, <2>1, CsUnchanged, CcUnchanged DEF CallerMoves, Between
<1>5. ASSUME NEW c \in dialing, rq' = [rq EXCEPT ![r].pc = "dialing", ![r].call = c], cc' = cc, cs' = cs PROVE CallerMoves(r)
  <2>1. c \in Conns
    BY <1>5 DEF dialing
  <2>2. /\ RqBut(r) /\ rq'[r].pc = "dialing" /\ rq'[r].k = rq[r].k /\ rq'[r].got = rq[r].got
        /\ rq'[r].cancelled = rq[r].cancelled /\ rq'[r].call = c
    BY <1>5, RqDials
  <2>. QED  BY <1>1, <1>5, <2>1, <2>2, CsUnchanged, CcUnchanged DEF CallerMoves
<1>6. dialing # {} => (CHOOSE c \in dialing : TRUE) \in dialing
  OBVIOUS
<1>. QED  BY <1>2, <1>3, <1>4, <1>5, <1>6, Zenon DEF getClientConn

\* The caller of a request that is under way is at one of its attempts.
LEMMA AttemptAt ==
  ASSUME Inv, NEW r \in Reqs, rq[r].pc \notin Between \cup {"ok", "failed"}
  PROVE  /\ attempt(r) \in Attempts /\ attempt(r)[1] = r
         /\ cs[attempt(r)].pc # "none" /\ cs[attempt(r)].cc \in Conns
<1>1. CallNumbers(r) /\ CallerOf(r)
  BY DEF Inv, Numbers, Tries
<1>2. rq[r].k > 0
  BY <1>1 DEF CallerOf
<1>3. attempt(r) \in Attempts /\ attempt(r)[1] = r /\ attempt(r)[2] = rq[r].k
  BY <1>1, <1>2, AttemptOf
<1>4. TryOf(attempt(r)) /\ SlotOf(attempt(r))
  BY <1>3 DEF Inv, Tries, Slots
<1>5. cs[attempt(r)].pc # "none"
  <2>1. rq[r].k \in Nat
    BY <1>1, MaxRetryNat DEF CallNumbers
  <2>. QED  BY <1>3, <1>4, <2>1 DEF TryOf
<1>. QED  BY <1>3, <1>4, <1>5 DEF SlotOf

\* The dial the caller waits for has ended.
LEMMA GotDialDoes ==
  ASSUME Inv, NEW r \in Reqs, gotDial(r)
  PROVE  CallerMoves(r) \/ \E c \in Conns : Starts(r, c)
<1>. DEFINE c == rq[r].call
<1>1. rq[r].pc = "dialing" /\ c \in Conns
  BY DEF gotDial, Inv, Tries, CallerOf
<1>2. ASSUME startRoundTrip(r, c), cc' = cc PROVE \E d \in Conns : Starts(r, d)
  BY <1>1, <1>2, CcUnchanged, StartDoes
<1>3. ASSUME reserveNewRequest(r, c) PROVE \E d \in Conns : Starts(r, d)
  BY <1>1, <1>3, ReserveDoes
<1>4. ASSUME rq' = [rq EXCEPT ![r].pc = "get"], cc' = cc, cs' = cs PROVE CallerMoves(r)
  <2>1. /\ RqBut(r) /\ rq'[r].pc = "get" /\ rq'[r].k = rq[r].k /\ rq'[r].got = rq[r].got
        /\ rq'[r].cancelled = rq[r].cancelled /\ rq'[r].call = rq[r].call
    BY <1>4, RqPlace
  <2>. QED  BY <1>1, <1>4, <2>1, CsUnchanged, CcUnchanged DEF CallerMoves, Between
<1>5. ASSUME rq' = [rq EXCEPT ![r].pc = "failed", ![r].err = "dial"], cc' = cc, cs' = cs PROVE CallerMoves(r)
  <2>1. /\ RqBut(r) /\ rq'[r].pc = "failed" /\ rq'[r].k = rq[r].k /\ rq'[r].got = rq[r].got
        /\ rq'[r].cancelled = rq[r].cancelled /\ rq'[r].call = rq[r].call
    BY <1>5, RqPlace
  <2>. QED  BY <1>1, <1>5, <2>1, CsUnchanged, CcUnchanged DEF CallerMoves, Between
<1>. QED  BY <1>2, <1>3, <1>4, <1>5, Zenon DEF gotDial

\* RoundTrip returns with the response.
LEMMA HandleResponseHeadersDoes ==
  ASSUME Inv, NEW r \in Reqs, handleResponseHeaders(r) PROVE CallerMoves(r)
<1>. DEFINE a == attempt(r)
<1>1. rq[r].pc = "wait" /\ cs[a].resp # "none" /\ cc' = cc
  BY DEF handleResponseHeaders
<1>2. a \in Attempts
  BY <1>1, AttemptAt DEF Between
<1>3. PICK p \in {"reading", "ok", "waitDone"} : rq' = [rq EXCEPT ![r].pc = p]
  BY Zenon DEF handleResponseHeaders
<1>4. /\ RqBut(r) /\ rq'[r].pc = p /\ rq'[r].k = rq[r].k /\ rq'[r].got = rq[r].got
      /\ rq'[r].cancelled = rq[r].cancelled /\ rq'[r].call = rq[r].call
  BY <1>3, RqPlace
<1>5. CsStill
  <2>1. CASE cs' = cs
    BY <2>1, CsUnchanged
  <2>2. CASE cs' # cs
    <3>1. PICK h : h = [cs EXCEPT ![a].reqClosed = "closing"] /\ cs' = Broadcast(h, cs[a].cc)
      BY <2>2, Zenon DEF handleResponseHeaders
    <3>2. IsCs(h) /\ \A b \in Attempts : Same(cs, h, b)
      <4>. HIDE DEF a
      <4>1. h = [cs EXCEPT ![a].reqClosed = "closing"]
        BY <3>1
      <4>2. IsCs(h)
        BY <1>2, <4>1, Shaped, CsHas DEF IsCs, Table
      <4>3. \A b \in Attempts : SendSame(cs, h, b)
        BY <1>2, <4>1, Shaped, CsHas DEF IsCs, Table, SendSame
      <4>4. \A b \in Attempts : ReadSame(cs, h, b) /\ h[b].abort = cs[b].abort
        BY <1>2, <4>1, Shaped, CsHas DEF IsCs, Table, ReadSame
      <4>. QED  BY <4>2, <4>3, <4>4 DEF Same
    <3>3. IsCs(cs') /\ \A b \in Attempts : Same(h, cs', b)
      <4>1. cs' = Broadcast(h, cs[a].cc)
        BY <3>1
      <4>. QED  BY <3>2, <4>1, BroadcastWakes
    <3>. QED  BY <3>2, <3>3 DEF CsStill, Same, SendSame, ReadSame
  <2>. QED  BY <2>1, <2>2
<1>. QED  BY <1>1, <1>4, <1>5, CcUnchanged DEF CallerMoves

\* RoundTrip sees the stream fail, and shouldRetryRequest decides.
LEMMA RoundTripAbortedDoes ==
  ASSUME Inv, NEW r \in Reqs, roundTripAborted(r) PROVE CallerMoves(r)
<1>1. /\ rq[r].pc = "wait" /\ cs[attempt(r)].abort # "" /\ cs[attempt(r)].resp = "none" /\ cc' = cc /\ cs' = cs
      /\ rq' = [rq EXCEPT ![r].pc = "waitAbort"]
  BY DEF roundTripAborted
<1>2. /\ RqBut(r) /\ rq'[r].pc = "waitAbort" /\ rq'[r].k = rq[r].k /\ rq'[r].got = rq[r].got
      /\ rq'[r].cancelled = rq[r].cancelled /\ rq'[r].call = rq[r].call
  BY <1>1, RqPlace
<1>. QED  BY <1>1, <1>2, CsUnchanged, CcUnchanged DEF CallerMoves

\* Streams that fail with an error that says nothing about a retry.
LEMMA FailedRows ==
  ASSUME NEW S, NEW e \in Plain, Failed(cs, cs', S, e) PROVE RowsFail
BY DEF Failed, RowsFail, AbortStep

\* RoundTrip sees its context end, and fails the stream.
LEMMA RoundTripCanceledDoes ==
  ASSUME Inv, NEW r \in Reqs, roundTripCanceled(r) PROVE Cancels(r)
<1>. DEFINE a == attempt(r)
<1>1. /\ rq[r].pc = "wait" /\ rq[r].cancelled /\ cc' = cc
      /\ rq' = [rq EXCEPT ![r].pc = "cancelRequest"] /\ cs' = abortStream(cs, a, "cancel")
  BY DEF roundTripCanceled
<1>2. a \in Attempts
  BY <1>1, AttemptAt DEF Between
<1>3. /\ RqBut(r) /\ rq'[r].pc = "cancelRequest" /\ rq'[r].k = rq[r].k /\ rq'[r].got = rq[r].got
      /\ rq'[r].cancelled = rq[r].cancelled /\ rq'[r].call = rq[r].call
  BY <1>1, RqPlace
<1>4. Failed(cs, cs', {a}, "cancel")
  BY <1>1, <1>2, Shaped, AbortStreamRow
<1>5. RowsFail
  BY <1>4, FailedRows DEF Plain
<1>. QED  BY <1>1, <1>3, <1>5, CcUnchanged DEF Cancels

\* cancelRequest waits for the sender.
LEMMA CancelRequestDoes ==
  ASSUME Inv, NEW r \in Reqs, cancelRequest(r) PROVE CallerMoves(r)
<1>1. cs' = cs /\ cc' = cc /\ rq[r].pc = "cancelRequest" /\ rq' = [rq EXCEPT ![r].pc = "failed", ![r].err = "cancel"]
  BY DEF cancelRequest
<1>3. /\ RqBut(r) /\ rq'[r].pc = "failed" /\ rq'[r].k = rq[r].k /\ rq'[r].got = rq[r].got
      /\ rq'[r].cancelled = rq[r].cancelled /\ rq'[r].call = rq[r].call
  BY <1>1, RqPlace
<1>. QED  BY <1>1, <1>3, CsUnchanged, CcUnchanged DEF CallerMoves

\* Close waits for the sender.
LEMMA BodyCloseDoes ==
  ASSUME Inv, NEW r \in Reqs, bodyClose(r) PROVE CallerMoves(r)
<1>1. cs' = cs /\ cc' = cc /\ rq[r].pc = "bodyClose" /\ rq' = [rq EXCEPT ![r].pc = "closed"]
  BY DEF bodyClose
<1>3. /\ RqBut(r) /\ rq'[r].pc = "closed" /\ rq'[r].k = rq[r].k /\ rq'[r].got = rq[r].got
      /\ rq'[r].cancelled = rq[r].cancelled /\ rq'[r].call = rq[r].call
  BY <1>1, RqPlace
<1>. QED  BY <1>1, <1>3, CsUnchanged, CcUnchanged DEF CallerMoves

\* RoundTrip waits for a sender that is past its response.
LEMMA WaitDoneDoes ==
  ASSUME Inv, NEW r \in Reqs, waitDone(r) PROVE CallerMoves(r)
<1>1. cs' = cs /\ cc' = cc /\ rq[r].pc \in {"waitDone", "waitAbort"}
  BY DEF waitDone
<1>2. CASE rq[r].pc = "waitDone"
  <2>1. PICK p, e : /\ rq' = [rq EXCEPT ![r].pc = p] \/ rq' = [rq EXCEPT ![r].pc = p, ![r].err = e]
                    /\ p = "ok" \/ (p = "failed" /\ rq[r].cancelled)
    BY <1>2 DEF waitDone
  <2>2. /\ RqBut(r) /\ rq'[r].pc = p /\ rq'[r].k = rq[r].k /\ rq'[r].got = rq[r].got
        /\ rq'[r].cancelled = rq[r].cancelled /\ rq'[r].call = rq[r].call
    BY <2>1, RqPlace
  <2>. QED  BY <1>1, <1>2, <2>1, <2>2, CsUnchanged, CcUnchanged DEF CallerMoves
<1>3. CASE rq[r].pc = "waitAbort"
  <2>. DEFINE e == cs[attempt(r)].abort
              p == IF rq[r].k - 1 <= MaxRetry /\ shouldRetryRequest(r, e)
                   THEN IF rq[r].k = 1 THEN "get" ELSE "backoff" ELSE "failed"
  <2>1. rq' = [rq EXCEPT ![r].err = e, ![r].pc = p]
    BY <1>3 DEF waitDone, roundTripErr
  <2>2. \/ p = "failed"
        \/ p \in {"get", "backoff"} /\ rq[r].k - 1 <= MaxRetry /\ shouldRetryRequest(r, e)
    BY Zenon
  <2>3. p = "failed" \/ (p \in {"get", "backoff"} /\ rq[r].k <= MaxRetry + 1 /\ e \in {"unusable", "goaway", "refused", "protoPeer"})
    <3>1. rq[r].k \in Int /\ MaxRetry \in Int
      BY MaxRetryNat DEF Inv, Numbers, CallNumbers
    <3>. HIDE DEF p, e
    <3>. QED  BY <2>2, <3>1 DEF shouldRetryRequest, canRetryError
  <2>. HIDE DEF p
  <2>4. /\ RqBut(r) /\ rq'[r].pc = p /\ rq'[r].k = rq[r].k /\ rq'[r].got = rq[r].got
        /\ rq'[r].cancelled = rq[r].cancelled /\ rq'[r].call = rq[r].call
    <3>. HIDE DEF e
    <3>. QED  BY <2>1, Shaped, RqHas DEF IsRq, Table, RqBut
  <2>. QED  BY <1>1, <1>3, <2>3, <2>4, CsUnchanged, CcUnchanged DEF CallerMoves
<1>. QED  BY <1>1, <1>2, <1>3

\* The caller's context ends.
LEMMA CancelDoes ==
  ASSUME Inv, NEW r \in Reqs, cancel(r) PROVE CallerMoves(r)
<1>1. cs' = cs /\ cc' = cc /\ rq' = [rq EXCEPT ![r].cancelled = TRUE]
  BY DEF cancel
<1>2. /\ RqBut(r) /\ rq'[r].pc = rq[r].pc /\ rq'[r].k = rq[r].k /\ rq'[r].got = rq[r].got
      /\ rq'[r].cancelled = TRUE /\ rq'[r].call = rq[r].call
  BY <1>1, Shaped, RqHas DEF IsRq, Table, RqBut
<1>. QED  BY <1>1, <1>2, CsUnchanged, CcUnchanged DEF CallerMoves

----------------------------------------------------------------------------
(* The connection's receive window *)

\* Writing a frame may fail, and changes nothing else.
LEMMA WroteKept ==
  ASSUME NEW f, IsCc(f), NEW c \in Conns, NEW g, g = wrote(f, c) PROVE CcKept(f, g)
<1>1. PICK v : g = [f EXCEPT ![c].werr = v]
  BY Zenon DEF wrote
<1>2. IsCc(g)
  BY <1>1, CcHas DEF IsCc, Table
<1>3. \A d \in Conns : MuxSame(f, g, d)
  <2>1. \A d \in Conns : d # c => g[d] = f[d]
    BY <1>1 DEF IsCc, Table
  <2>2. g[c].next = f[c].next /\ g[c].lastHdr = f[c].lastHdr /\ g[c].hdrMu = f[c].hdrMu /\ g[c].goAway = f[c].goAway
    BY <1>1, CcHas DEF IsCc, Table
  <2>. QED  BY <2>1, <2>2 DEF MuxSame
<1>4. \A d \in Conns : WinSame(f, g, d)
  <2>1. \A d \in Conns : d # c => g[d] = f[d]
    BY <1>1 DEF IsCc, Table
  <2>2. g[c].avail = f[c].avail /\ g[c].unsent = f[c].unsent /\ g[c].lost = f[c].lost
    BY <1>1, CcHas DEF IsCc, Table
  <2>. QED  BY <2>1, <2>2 DEF WinSame
<1>. QED  BY <1>2, <1>3, <1>4 DEF CcKept, CcSame

\* g is f with n more bytes in the window of connection c.
Granted(f, g, c, n) ==
  /\ IsCc(g) /\ Windows(g) /\ \A d \in Conns : MuxSame(f, g, d)
  /\ \A d \in Conns : Credit(g, d) = IF d = c THEN Credit(f, d) + n ELSE Credit(f, d)

\* Credit stays granted by what comes after it.
LEMMA GrantedKept ==
  ASSUME NEW f, NEW h, NEW g, NEW c, NEW n, Granted(f, h, c, n), CcKept(h, g)
  PROVE  Granted(f, g, c, n)
<1>1. \A d \in Conns : MuxSame(f, g, d)
  BY DEF Granted, CcKept, CcSame, MuxSame
<1>2. Windows(g)
  BY DEF Granted, CcKept, CcSame, WinSame, Windows
<1>3. \A d \in Conns : Credit(g, d) = Credit(h, d)
  BY DEF CcKept, CcSame, WinSame, Credit
<1>. QED  BY <1>1, <1>2, <1>3 DEF Granted, CcKept

\* refresh moves bytes between what is granted and what waits to be.
LEMMA RefreshRow ==
  ASSUME NEW F, NEW x, x = [y \in F |-> x[y]], "unsent" \in F, "avail" \in F, NEW n, NEW z, z = refresh(x, n)
  PROVE  /\ z = [y \in F |-> z[y]] /\ \A y \in F : y \notin {"unsent", "avail"} => z[y] = x[y]
         /\ n \in Int /\ x.unsent \in Int /\ x.avail \in Int =>
              z.unsent \in Int /\ z.avail \in Int /\ z.avail + z.unsent = x.avail + x.unsent + n
<1>1. CASE z = [x EXCEPT !.unsent = x.unsent + n]
  <2>1. PICK u : u = x.unsent + n /\ z = [x EXCEPT !.unsent = u]
    BY <1>1, Zenon
  <2>2. z = [x EXCEPT !.unsent = u]
    BY <2>1
  <2>3. z = [y \in F |-> z[y]] /\ (\A y \in F : y # "unsent" => z[y] = x[y]) /\ z.unsent = u
    BY <2>2
  <2>4. z.avail = x.avail
    BY <2>3
  <2>. QED  BY <2>1, <2>3, <2>4
<1>2. CASE z = [x EXCEPT !.unsent = 0, !.avail = x.avail + (x.unsent + n)]
  <2>1. PICK u : u = x.avail + (x.unsent + n) /\ z = [x EXCEPT !.unsent = 0, !.avail = u]
    BY <1>2, Zenon
  <2>2. z = [x EXCEPT !.unsent = 0, !.avail = u]
    BY <2>1
  <2>3. z = [y \in F |-> z[y]] /\ (\A y \in F : y \notin {"unsent", "avail"} => z[y] = x[y]) /\ z.unsent = 0 /\ z.avail = u
    BY <2>2
  <2>4. n \in Int /\ x.unsent \in Int /\ x.avail \in Int => z.unsent \in Int /\ z.avail \in Int /\ z.avail + z.unsent = x.avail + x.unsent + n
    BY <2>1, <2>3
  <2>. QED  BY <2>3, <2>4
<1>3. z = [x EXCEPT !.unsent = x.unsent + n] \/ z = [x EXCEPT !.unsent = 0, !.avail = x.avail + (x.unsent + n)]
  <2>1. \/ z = [x EXCEPT !.unsent = x.unsent + n]
        \/ z = [x EXCEPT !.unsent = 0, !.avail = @ + (x.unsent + n)]
    BY Zenon DEF refresh
  <2>2. [x EXCEPT !.unsent = 0, !.avail = @ + (x.unsent + n)] = [x EXCEPT !.unsent = 0, !.avail = x.avail + (x.unsent + n)]
    OBVIOUS
  <2>. QED  BY <2>1, <2>2
<1>. QED  BY <1>1, <1>2, <1>3

\* A connection whose record changes in its window only.
LEMMA RowGranted ==
  ASSUME NEW f, IsCc(f), Windows(f), NEW c \in Conns, NEW z, NEW n \in Int, NEW g, g = [f EXCEPT ![c] = z],
         z = [y \in CcFields |-> z[y]], \A y \in CcFields : y \notin {"unsent", "avail"} => z[y] = f[c][y],
         z.unsent \in Int, z.avail \in Int, z.avail + z.unsent = f[c].avail + f[c].unsent + n
  PROVE  Granted(f, g, c, n)
<1>1. IsCc(g) /\ g[c] = z /\ \A d \in Conns : d # c => g[d] = f[d]
  BY DEF IsCc, Table
<1>2. z.next = f[c].next /\ z.lastHdr = f[c].lastHdr /\ z.hdrMu = f[c].hdrMu /\ z.goAway = f[c].goAway /\ z.lost = f[c].lost
  BY CcHas
<1>3. \A d \in Conns : MuxSame(f, g, d)
  BY <1>1, <1>2 DEF MuxSame
<1>4. Windows(g)
  BY <1>1, <1>2 DEF Windows
<1>5. Credit(g, c) = Credit(f, c) + n
  <2>1. f[c].avail \in Int /\ f[c].unsent \in Int /\ f[c].lost \in Int
    BY DEF Windows
  <2>2. Credit(g, c) = z.avail + z.unsent + f[c].lost
    BY <1>1, <1>2 DEF Credit
  <2>. QED  BY <2>1, <2>2 DEF Credit
<1>6. \A d \in Conns : d # c => Credit(g, d) = Credit(f, d)
  BY <1>1 DEF Credit
<1>. QED  BY <1>1, <1>3, <1>4, <1>5, <1>6 DEF Granted

\* inflow.add grants what it is given, now or later.
LEMMA RefreshGranted ==
  ASSUME NEW f, IsCc(f), Windows(f), NEW c \in Conns, NEW n \in Int, NEW g,
         g = wrote([f EXCEPT ![c] = refresh(f[c], n)], c)
  PROVE  Granted(f, g, c, n)
<1>1. PICK z : z = refresh(f[c], n)
  BY Zenon
<1>2. /\ z = [y \in CcFields |-> z[y]] /\ (\A y \in CcFields : y \notin {"unsent", "avail"} => z[y] = f[c][y])
      /\ z.unsent \in Int /\ z.avail \in Int /\ z.avail + z.unsent = f[c].avail + f[c].unsent + n
  <2>1. f[c] = [y \in CcFields |-> f[c][y]] /\ f[c].unsent \in Int /\ f[c].avail \in Int
    BY DEF IsCc, Table, Windows
  <2>2. "unsent" \in CcFields /\ "avail" \in CcFields
    BY CcHas
  <2>. QED  BY <1>1, <2>1, <2>2, RefreshRow
<1>3. PICK h : h = [f EXCEPT ![c] = z]
  BY Zenon
<1>4. Granted(f, h, c, n)
  BY <1>2, <1>3, RowGranted
<1>5. g = wrote(h, c)
  BY <1>1, <1>3
<1>6. CcKept(h, g)
  BY <1>4, <1>5, WroteKept DEF Granted
<1>. QED  BY <1>4, <1>6, GrantedKept

\* What a frame takes of the window, and what it gives back at once.
LEMMA TakenGranted ==
  ASSUME NEW f, IsCc(f), Windows(f), NEW c \in Conns, NEW m \in Int, NEW n \in Int, NEW h, h = [f EXCEPT ![c].avail = f[c].avail - m],
         NEW g, g = wrote([h EXCEPT ![c] = refresh(h[c], n)], c)
  PROVE  Granted(f, g, c, n - m)
<1>1. PICK v : v = f[c].avail - m /\ h = [f EXCEPT ![c].avail = v]
  BY Zenon
<1>2. h = [f EXCEPT ![c].avail = v]
  BY <1>1
<1>3. IsCc(h) /\ \A d \in Conns : MuxSame(f, h, d)
  <2>1. IsCc(h)
    BY <1>2, CcHas, SMTT(30) DEF IsCc, Table
  <2>2. \A d \in Conns : d # c => h[d] = f[d]
    BY <1>2 DEF IsCc, Table
  <2>3. h[c].next = f[c].next /\ h[c].lastHdr = f[c].lastHdr /\ h[c].hdrMu = f[c].hdrMu /\ h[c].goAway = f[c].goAway
    BY <1>2, CcHas DEF IsCc, Table
  <2>4. \A d \in Conns : MuxSame(f, h, d)
    BY <2>2, <2>3 DEF MuxSame
  <2>. QED  BY <2>1, <2>4
<1>4. h[c].avail = v /\ h[c].unsent = f[c].unsent /\ h[c].lost = f[c].lost /\ \A d \in Conns : d # c => h[d] = f[d]
  BY <1>2, CcHas DEF IsCc, Table
<1>5. Windows(h)
  BY <1>1, <1>4 DEF Windows
<1>6. Granted(h, g, c, n)
  BY <1>3, <1>5, RefreshGranted
<1>7. \A d \in Conns : MuxSame(f, g, d)
  <2>. SUFFICES ASSUME NEW d \in Conns PROVE MuxSame(f, g, d)
    OBVIOUS
  <2>1. MuxSame(f, h, d) /\ MuxSame(h, g, d)
    BY <1>3, <1>6 DEF Granted
  <2>. QED  BY <2>1 DEF MuxSame
<1>8. Credit(h, c) = Credit(f, c) - m /\ Credit(f, c) \in Int
  BY <1>1, <1>4 DEF Credit, Windows
<1>9. \A d \in Conns : d # c => Credit(h, d) = Credit(f, d)
  BY <1>4 DEF Credit
<1>10. Credit(g, c) = Credit(h, c) + n /\ \A d \in Conns : d # c => Credit(g, d) = Credit(h, d)
  BY <1>6 DEF Granted
<1>11. Credit(g, c) = Credit(f, c) + (n - m)
  BY <1>8, <1>10
<1>. QED  BY <1>6, <1>7, <1>9, <1>10, <1>11 DEF Granted

----------------------------------------------------------------------------
(* The steps of the program: the reader of a response's body *)

\* h is f with u bytes left in the body of row a, of which m are declared.
Drained(f, h, a, u, m) ==
  /\ IsCs(h) /\ \A b \in Attempts : b # a => Same(f, h, b)
  /\ SendSame(f, h, a) /\ h[a].abort = f[a].abort /\ h[a].buf = u /\ h[a].remain = m
  /\ h[a].fed = f[a].fed /\ h[a].peerClosed = f[a].peerClosed /\ h[a].resp = f[a].resp
  /\ h[a].pipeErr = f[a].pipeErr /\ h[a].pastHeaders = f[a].pastHeaders /\ h[a].whole = f[a].whole
  /\ h[a].early = f[a].early

\* Bytes out of a body's buffer go back to its connection.
LEMMA DrainedTakes ==
  ASSUME NEW r \in Reqs, attempt(r) \in Attempts, NEW h, NEW n, NEW m, NEW S, NEW e,
         Drained(cs, h, attempt(r), cs[attempt(r)].buf - n, m),
         Failed(h, cs', S, e), S \subseteq {attempt(r)},
         Granted(cc, cc', cs[attempt(r)].cc, n), RqBut(r), rq'[r].k = rq[r].k, rq'[r].cancelled = rq[r].cancelled
  PROVE  Takes(r, n) /\ cs'[attempt(r)].remain = m
<1>. DEFINE a == attempt(r)
<1>1. RowsBut(a)
  <2>1. ASSUME NEW b \in Attempts, b # a PROVE Same(cs, cs', b)
    <3>1. Same(cs, h, b) /\ SendSame(h, cs', b) /\ ReadSame(h, cs', b) /\ cs'[b].abort = h[b].abort
      BY <2>1 DEF Drained, Failed
    <3>. QED  BY <3>1 DEF Same, SendSame, ReadSame
  <2>. QED  BY <2>1 DEF RowsBut, Failed
<1>2. SendSame(cs, h, a) /\ SendSame(h, cs', a) /\ ReadSame(h, cs', a)
  BY DEF Drained, Failed
<1>3. SendSame(cs, cs', a)
  BY <1>2 DEF SendSame
<1>4. /\ cs'[a].buf = cs[a].buf - n /\ cs'[a].fed = cs[a].fed /\ cs'[a].remain = m
      /\ cs'[a].peerClosed = cs[a].peerClosed /\ cs'[a].resp = cs[a].resp /\ cs'[a].pipeErr = cs[a].pipeErr
      /\ cs'[a].pastHeaders = cs[a].pastHeaders /\ cs'[a].whole = cs[a].whole /\ cs'[a].early = cs[a].early
  BY <1>2 DEF Drained, ReadSame
<1>5. CcStill /\ Windows(cc') /\ \A d \in Conns : Credit(cc', d) = IF d = cs[a].cc THEN Credit(cc, d) + n ELSE Credit(cc, d)
  BY DEF Granted, CcStill
<1>. QED  BY <1>1, <1>3, <1>4, <1>5 DEF Takes

\* A Read of the response's body.
LEMMA ReadDoes ==
  ASSUME Inv, NEW r \in Reqs, Read(r) PROVE CallerMoves(r) \/ \E n \in Nat : Reads(r, n)
<1>. DEFINE a == attempt(r)
            c == cs[a].cc
<1>1. rq[r].pc = "reading"
  BY DEF Read
<1>2. a \in Attempts /\ c \in Conns
  BY <1>1, AttemptAt DEF Between
<1>3. cs[a].buf \in Nat /\ cs[a].remain \in Nat \cup {-1}
  BY <1>2 DEF Inv, Numbers, RowNumbers
<1>. HIDE DEF a
<1>4. ASSUME cs[a].resp = "missing" \/ (cs[a].resp = "body" /\ cs[a].buf = 0 /\ cs[a].pipeErr # ""),
             rq' = [rq EXCEPT ![r].pc = IF cs[a].resp = "body" /\ cs[a].pipeErr = "EOF" /\ cs[a].remain <= 0
                                        THEN "eof" ELSE "readErr"],
             cc' = cc, cs' = cs
      PROVE  CallerMoves(r)
  <2>1. PICK p : /\ p = IF cs[a].resp = "body" /\ cs[a].pipeErr = "EOF" /\ cs[a].remain <= 0 THEN "eof" ELSE "readErr"
                 /\ rq' = [rq EXCEPT ![r].pc = p]
    BY <1>4, Zenon
  <2>2. /\ RqBut(r) /\ rq'[r].pc = p /\ rq'[r].k = rq[r].k /\ rq'[r].got = rq[r].got
        /\ rq'[r].cancelled = rq[r].cancelled /\ rq'[r].call = rq[r].call
    <3>1. rq' = [rq EXCEPT ![r].pc = p]
      BY <2>1
    <3>. QED  BY <3>1, RqPlace
  <2>3. \/ p = "eof" /\ cs[a].resp = "body" /\ cs[a].buf = 0 /\ cs[a].pipeErr = "EOF" /\ cs[a].remain <= 0
        \/ p = "readErr" /\ (cs[a].resp = "missing" \/ cs[a].pipeErr # "")
             /\ (cs[a].resp = "missing" \/ cs[a].pipeErr # "EOF" \/ ~(cs[a].remain <= 0))
    BY <1>4, <2>1
  <2>. QED  BY <1>1, <1>4, <2>2, <2>3, CsUnchanged, CcUnchanged DEF CallerMoves, a
<1>5. ASSUME NEW n \in Nat, n <= cs[a].buf, cs[a].resp = "body", cs[a].remain # -1,
             cs' = abortStream([cs EXCEPT ![a].buf = @ - n, ![a].remain = 0], a, "tooMuch"),
             cc' = [cc EXCEPT ![c].lost = @ + n],
             rq' = [rq EXCEPT ![r].pc = "readErr", ![r].got = @ + cs[a].remain]
      PROVE  Reads(r, n)
  <2>1. PICK h : h = [cs EXCEPT ![a].buf = @ - n, ![a].remain = 0]
    BY Zenon
  <2>2. PICK u : u = cs[a].buf - n /\ h = [cs EXCEPT ![a].buf = u, ![a].remain = 0]
    <3>1. h = [cs EXCEPT ![a].buf = cs[a].buf - n, ![a].remain = 0]
      BY <1>2, <2>1, Shaped, CsHas DEF IsCs, Table
    <3>. QED  BY <3>1, Zenon
  <2>3. h = [cs EXCEPT ![a].buf = u, ![a].remain = 0]
    BY <2>2
  <2>4. IsCs(h) /\ h[a].buf = u /\ h[a].remain = 0 /\ h[a].abort = cs[a].abort
    BY <1>2, <2>3, Shaped, CsHas DEF IsCs, Table
  <2>5. \A b \in Attempts : b # a => h[b] = cs[b]
    BY <1>2, <2>3, Shaped, CsHas DEF IsCs, Table
  <2>6. SendSame(cs, h, a)
    BY <1>2, <2>3, Shaped, CsHas DEF IsCs, Table, SendSame
  <2>7. /\ h[a].fed = cs[a].fed /\ h[a].peerClosed = cs[a].peerClosed /\ h[a].resp = cs[a].resp
        /\ h[a].pipeErr = cs[a].pipeErr /\ h[a].pastHeaders = cs[a].pastHeaders /\ h[a].whole = cs[a].whole
        /\ h[a].early = cs[a].early
    BY <1>2, <2>3, Shaped, CsHas DEF IsCs, Table
  <2>8. \A b \in Attempts : b # a => Same(cs, h, b)
    BY <2>5 DEF Same, SendSame, ReadSame
  <2>9. Drained(cs, h, a, cs[a].buf - n, 0)
    BY <2>2, <2>4, <2>6, <2>7, <2>8 DEF Drained
  <2>10. Failed(h, cs', {a}, "tooMuch")
    BY <1>2, <1>5, <2>1, <2>4, AbortStreamRow
  <2>11. PICK v : v = cc[c].lost + n /\ cc' = [cc EXCEPT ![c].lost = v]
    <3>1. cc' = [cc EXCEPT ![c].lost = cc[c].lost + n]
      BY <1>2, <1>5, Shaped, CcHas DEF IsCc, Table
    <3>. QED  BY <3>1, Zenon
  <2>12. cc' = [cc EXCEPT ![c].lost = v]
    BY <2>11
  <2>. HIDE DEF c
  <2>13. IsCc(cc') /\ \A d \in Conns : MuxSame(cc, cc', d)
    BY <1>2, <2>12, Shaped, CcHas DEF IsCc, Table, MuxSame
  <2>14. cc'[c].lost = v /\ cc'[c].avail = cc[c].avail /\ cc'[c].unsent = cc[c].unsent
         /\ \A d \in Conns : d # c => cc'[d] = cc[d]
    BY <1>2, <2>12, Shaped, CcHas DEF IsCc, Table
  <2>15. Windows(cc)
    BY Shaped
  <2>16. Granted(cc, cc', c, n)
    <3>1. Windows(cc')
      BY <1>2, <2>11, <2>14, <2>15 DEF Windows
    <3>2. cc[c].avail \in Int /\ cc[c].unsent \in Int /\ cc[c].lost \in Int
      BY <1>2, <2>15 DEF Windows
    <3>3. Credit(cc', c) = Credit(cc, c) + n
      BY <2>11, <2>14, <3>2 DEF Credit
    <3>4. \A d \in Conns : d # c => Credit(cc', d) = Credit(cc, d)
      BY <2>14 DEF Credit
    <3>. QED  BY <2>13, <3>1, <3>3, <3>4 DEF Granted
  <2>17. PICK q : q = rq[r].got + cs[a].remain /\ rq' = [rq EXCEPT ![r].pc = "readErr", ![r].got = q]
    <3>1. rq' = [rq EXCEPT ![r].pc = "readErr", ![r].got = rq[r].got + cs[a].remain]
      BY <1>5, Shaped, RqHas DEF IsRq, Table
    <3>. QED  BY <3>1, Zenon
  <2>18. rq' = [rq EXCEPT ![r].pc = "readErr", ![r].got = q]
    BY <2>17
  <2>19. RqBut(r) /\ rq'[r].pc = "readErr" /\ rq'[r].got = q /\ rq'[r].k = rq[r].k /\ rq'[r].cancelled = rq[r].cancelled
    BY <2>18, Shaped, RqHas DEF IsRq, Table, RqBut
  <2>20. Takes(r, n) /\ cs'[a].remain = 0
    BY <1>2, <2>9, <2>10, <2>16, <2>19, DrainedTakes DEF a, c
  <2>21. AbortStep(a, Plain) /\ cs'[a].abort # ""
    BY <1>2, <2>4, <2>10 DEF Failed, AbortStep, Plain
  <2>. QED  BY <1>1, <1>5, <2>17, <2>19, <2>20, <2>21 DEF Reads, a
<1>6. ASSUME NEW n \in Nat, n <= cs[a].buf, cs[a].resp = "body", ~(cs[a].remain # -1 /\ n > cs[a].remain),
             cs' = [cs EXCEPT ![a] = refresh([cs[a] EXCEPT !.buf = @ - n, !.remain = IF @ = -1 THEN @ ELSE @ - n], n)],
             cc' = wrote([cc EXCEPT ![c] = refresh(@, n)], c),
             rq' = [rq EXCEPT ![r].got = @ + n]
      PROVE  Reads(r, n)
  <2>1. PICK x : x = [cs[a] EXCEPT !.buf = @ - n, !.remain = IF @ = -1 THEN @ ELSE @ - n]
    BY Zenon
  <2>2. PICK z : z = refresh(x, n) /\ cs' = [cs EXCEPT ![a] = z]
    BY <1>6, <2>1, Zenon
  <2>3. cs[a] = [y \in CsFields |-> cs[a][y]]
    BY <1>2, Shaped DEF IsCs, Table
  <2>4. PICK u, m : /\ u = cs[a].buf - n /\ m = (IF cs[a].remain = -1 THEN cs[a].remain ELSE cs[a].remain - n)
                    /\ x = [cs[a] EXCEPT !.buf = u, !.remain = m]
    <3>1. x = [cs[a] EXCEPT !.buf = cs[a].buf - n, !.remain = IF cs[a].remain = -1 THEN cs[a].remain ELSE cs[a].remain - n]
      BY <2>1, <2>3, CsHas
    <3>. QED  BY <3>1, Zenon
  <2>5. x = [cs[a] EXCEPT !.buf = u, !.remain = m]
    BY <2>4
  <2>6. /\ x = [y \in CsFields |-> x[y]] /\ x.buf = u /\ x.remain = m
        /\ \A y \in CsFields : y \notin {"buf", "remain"} => x[y] = cs[a][y]
    BY <2>3, <2>5, CsHas
  <2>7. z = [y \in CsFields |-> z[y]] /\ \A y \in CsFields : y \notin {"unsent", "avail"} => z[y] = x[y]
    BY <2>2, <2>6, RefreshRow, CsHas
  <2>8. z.buf = u /\ z.remain = m /\ \A y \in CsFields : y \notin {"buf", "remain", "unsent", "avail"} => z[y] = cs[a][y]
    BY <2>6, <2>7, CsHas
  <2>9. cs' = [cs EXCEPT ![a] = z]
    BY <2>2
  <2>10. IsCs(cs') /\ cs'[a] = z /\ \A b \in Attempts : b # a => cs'[b] = cs[b]
    BY <1>2, <2>7, <2>9, Shaped DEF IsCs, Table
  <2>11. SendSame(cs, cs', a)
    BY <2>8, <2>10, CsHas DEF SendSame
  <2>12. /\ z.fed = cs[a].fed /\ z.peerClosed = cs[a].peerClosed /\ z.resp = cs[a].resp
         /\ z.pipeErr = cs[a].pipeErr /\ z.pastHeaders = cs[a].pastHeaders /\ z.whole = cs[a].whole
         /\ z.early = cs[a].early /\ z.abort = cs[a].abort
    BY <2>8, CsHas
  <2>13. \A b \in Attempts : b # a => Same(cs, cs', b)
    BY <2>10 DEF Same, SendSame, ReadSame
  <2>14. Drained(cs, cs', a, cs[a].buf - n, m)
    BY <2>4, <2>8, <2>10, <2>11, <2>12, <2>13 DEF Drained
  <2>15. Failed(cs', cs', {}, "")
    BY <2>10 DEF Failed, SendSame, ReadSame
  <2>16. Granted(cc, cc', c, n)
    <3>. HIDE DEF c
    <3>1. cc' = wrote([cc EXCEPT ![c] = refresh(cc[c], n)], c)
      BY <1>6
    <3>. QED  BY <1>2, <3>1, Shaped, RefreshGranted
  <2>17. PICK q : q = rq[r].got + n /\ rq' = [rq EXCEPT ![r].got = q]
    <3>1. rq' = [rq EXCEPT ![r].got = rq[r].got + n]
      BY <1>6, Shaped, RqHas DEF IsRq, Table
    <3>. QED  BY <3>1, Zenon
  <2>18. rq' = [rq EXCEPT ![r].got = q]
    BY <2>17
  <2>19. RqBut(r) /\ rq'[r].pc = rq[r].pc /\ rq'[r].got = q /\ rq'[r].k = rq[r].k /\ rq'[r].cancelled = rq[r].cancelled
    BY <2>18, Shaped, RqHas DEF IsRq, Table, RqBut
  <2>20. Takes(r, n) /\ cs'[a].remain = m
    <3>1. PICK h, S : h = cs' /\ S = {}
      BY Zenon
    <3>2. Drained(cs, h, a, cs[a].buf - n, m) /\ Failed(h, cs', S, "") /\ S \subseteq {a}
      BY <2>14, <2>15, <3>1
    <3>. QED  BY <1>2, <2>16, <2>19, <3>2, DrainedTakes DEF a, c
  <2>21. \/ cs[a].remain = -1 /\ m = -1
         \/ cs[a].remain # -1 /\ n <= cs[a].remain /\ m = cs[a].remain - n
    BY <1>3, <1>6, <2>4
  <2>. QED  BY <1>1, <1>6, <2>10, <2>12, <2>17, <2>19, <2>20, <2>21 DEF Reads, a
<1>7. ASSUME cs[a].buf > 0, NEW n \in {1, cs[a].buf} PROVE n \in Nat /\ n <= cs[a].buf
  BY <1>3, <1>7
<1>. QED  BY <1>4, <1>5, <1>6, <1>7, Zenon DEF Read, a

\* A Close of the response's body.
LEMMA CloseDoes ==
  ASSUME Inv, NEW r \in Reqs, Close(r) PROVE CallerMoves(r) \/ Closes(r)
<1>. DEFINE a == attempt(r)
            c == cs[a].cc
<1>1. rq[r].pc \in {"reading", "eof", "readErr"}
  BY DEF Close
<1>2. a \in Attempts /\ c \in Conns
  BY <1>1, AttemptAt DEF Between
<1>3. cs[a].buf \in Nat
  BY <1>2 DEF Inv, Numbers, RowNumbers
<1>. HIDE DEF a, c
<1>4. ASSUME rq' = [rq EXCEPT ![r].pc = "closed"], cc' = cc, cs' = cs PROVE CallerMoves(r)
  <2>2. /\ RqBut(r) /\ rq'[r].pc = "closed" /\ rq'[r].k = rq[r].k /\ rq'[r].got = rq[r].got
        /\ rq'[r].cancelled = rq[r].cancelled /\ rq'[r].call = rq[r].call
    BY <1>4, RqPlace
  <2>. QED  BY <1>1, <1>4, <2>2, CsUnchanged, CcUnchanged DEF CallerMoves
<1>5. ASSUME cs' = abortStream([cs EXCEPT ![a].broken = TRUE, ![a].buf = 0], a, "bodyClosed"),
             cc' = (IF cs[a].buf = 0 THEN cc ELSE wrote([cc EXCEPT ![c] = refresh(@, cs[a].buf)], c)),
             rq' = [rq EXCEPT ![r].pc = "bodyClose"]
      PROVE  Closes(r)
  <2>1. PICK h : h = [cs EXCEPT ![a].broken = TRUE, ![a].buf = 0]
    BY Zenon
  <2>4. IsCs(h) /\ h[a].buf = 0 /\ h[a].remain = cs[a].remain /\ h[a].abort = cs[a].abort
    BY <1>2, <2>1, Shaped, CsHas DEF IsCs, Table
  <2>5. \A b \in Attempts : b # a => h[b] = cs[b]
    BY <1>2, <2>1, Shaped, CsHas DEF IsCs, Table
  <2>6. SendSame(cs, h, a)
    BY <1>2, <2>1, Shaped, CsHas DEF IsCs, Table, SendSame
  <2>7. /\ h[a].fed = cs[a].fed /\ h[a].peerClosed = cs[a].peerClosed /\ h[a].resp = cs[a].resp
        /\ h[a].pipeErr = cs[a].pipeErr /\ h[a].pastHeaders = cs[a].pastHeaders /\ h[a].whole = cs[a].whole
        /\ h[a].early = cs[a].early
    BY <1>2, <2>1, Shaped, CsHas DEF IsCs, Table
  <2>8. \A b \in Attempts : b # a => Same(cs, h, b)
    BY <2>5 DEF Same, SendSame, ReadSame
  <2>9. Drained(cs, h, a, cs[a].buf - cs[a].buf, cs[a].remain)
    <3>1. h[a].buf = cs[a].buf - cs[a].buf
      BY <1>3, <2>4
    <3>. QED  BY <2>4, <2>6, <2>7, <2>8, <3>1 DEF Drained
  <2>10. Failed(h, cs', {a}, "bodyClosed")
    BY <1>2, <1>5, <2>1, <2>4, AbortStreamRow
  <2>16. Granted(cc, cc', c, cs[a].buf)
    <3>1. CASE cs[a].buf = 0
      <4>1. cc' = cc
        BY <1>5, <3>1
      <4>2. \A d \in Conns : MuxSame(cc, cc', d) /\ Credit(cc', d) = Credit(cc, d)
        BY <4>1 DEF MuxSame, Credit
      <4>3. \A d \in Conns : Credit(cc, d) \in Int
        BY Shaped DEF Windows, Credit
      <4>. QED  BY <3>1, <4>1, <4>2, <4>3, Shaped DEF Granted
    <3>2. CASE cs[a].buf # 0
      <4>1. cc' = wrote([cc EXCEPT ![c] = refresh(cc[c], cs[a].buf)], c)
        BY <1>5, <3>2
      <4>. QED  BY <1>2, <1>3, <4>1, Shaped, RefreshGranted
    <3>. QED  BY <3>1, <3>2
  <2>19. /\ RqBut(r) /\ rq'[r].pc = "bodyClose" /\ rq'[r].k = rq[r].k /\ rq'[r].got = rq[r].got
         /\ rq'[r].cancelled = rq[r].cancelled /\ rq'[r].call = rq[r].call
    BY <1>5, RqPlace
  <2>20. Takes(r, cs[a].buf) /\ cs'[a].remain = cs[a].remain
    BY <1>2, <2>9, <2>10, <2>16, <2>19, DrainedTakes DEF a, c
  <2>21. AbortStep(a, Plain)
    BY <1>2, <2>4, <2>10 DEF Failed, AbortStep, Plain
  <2>. QED  BY <1>1, <2>19, <2>20, <2>21 DEF Closes, a
<1>. QED  BY <1>4, <1>5, Zenon DEF Close, a, c

----------------------------------------------------------------------------
(* The steps of the program: the sender of an attempt *)

\* A goroutine of a sender has a connection.
LEMMA SenderAt ==
  ASSUME Inv, NEW a \in Attempts, cs[a].pc # "none" PROVE cs[a].cc \in Conns /\ SlotOf(a)
BY DEF Inv, Slots, SlotOf

\* f has what the other rows have, and of row a all but where its sender is.
Ready(f, a) ==
  /\ IsCs(f) /\ \A b \in Attempts : b # a => Same(cs, f, b)
  /\ ReadSame(cs, f, a) /\ f[a].abort = cs[a].abort /\ f[a].cc = cs[a].cc /\ f[a].id = cs[a].id
  /\ f[a].in = cs[a].in /\ f[a].sent = cs[a].sent /\ f[a].err = cs[a].err
  /\ f[a].sentHeaders = cs[a].sentHeaders \/ (cs[a].pc = "headers" /\ cs[a].abort = "")

\* g has the connections of cc; a's may have let go of reqHeaderMu.
Freed(g, a) ==
  LET c == cs[a].cc
  IN /\ IsCc(g) /\ \A d \in Conns : WinSame(cc, g, d) /\ g[d].goAway = cc[d].goAway
     /\ \A d \in Conns : d # c => MuxSame(cc, g, d)
     /\ g[c].next = cc[c].next /\ g[c].lastHdr = cc[c].lastHdr
     /\ g[c].hdrMu = cc[c].hdrMu \/ (g[c].hdrMu = None /\ cc[c].hdrMu \in {None, a})

\* A sender that has done nothing yet.
LEMMA ReadyNow ==
  ASSUME Inv, NEW a \in Attempts PROVE Ready(cs, a)
<1>1. \A b \in Attempts : Same(cs, cs, b)
  BY DEF Same, SendSame, ReadSame
<1>. QED  BY <1>1, Shaped DEF Ready, Same, SendSame

\* A connection whose slots are left alone.
LEMMA KeptFreed ==
  ASSUME NEW a \in Attempts, cs[a].cc \in Conns, NEW g, CcKept(cc, g) PROVE Freed(g, a)
<1>1. IsCc(g) /\ \A d \in Conns : MuxSame(cc, g, d) /\ WinSame(cc, g, d)
  BY DEF CcKept, CcSame
<1>. QED  BY <1>1 DEF Freed, MuxSame

\* Nothing has changed yet.
LEMMA KeptNow ==
  ASSUME Inv PROVE CcKept(cc, cc)
BY Shaped DEF CcKept, CcSame, MuxSame, WinSame

\* g is f after reqHeaderMu of connection c is unlocked.
Unlocked(f, g, c) ==
  /\ IsCc(g) /\ \A d \in Conns : d # c => g[d] = f[d]
  /\ g[c].hdrMu = None /\ g[c].next = f[c].next /\ g[c].lastHdr = f[c].lastHdr /\ g[c].goAway = f[c].goAway
  /\ g[c].avail = f[c].avail /\ g[c].unsent = f[c].unsent /\ g[c].lost = f[c].lost

\* Row c of a table of connections after its reqHeaderMu is unlocked.
LEMMA UnlockRow ==
  ASSUME NEW f, IsCc(f), NEW c \in Conns, NEW g, g = [f EXCEPT ![c].hdrMu = None]
  PROVE  Unlocked(f, g, c)
<1>1. IsCc(g)
  BY CcHas DEF IsCc, Table
<1>2. \A d \in Conns : d # c => g[d] = f[d]
  BY DEF IsCc, Table
<1>3. g[c].hdrMu = None /\ g[c].next = f[c].next /\ g[c].lastHdr = f[c].lastHdr /\ g[c].goAway = f[c].goAway
  BY CcHas DEF IsCc, Table
<1>4. g[c].avail = f[c].avail /\ g[c].unsent = f[c].unsent /\ g[c].lost = f[c].lost
  BY CcHas DEF IsCc, Table
<1>. QED  BY <1>1, <1>2, <1>3, <1>4 DEF Unlocked

\* reqHeaderMu is unlocked.
LEMMA UnlockFreesAt ==
  ASSUME NEW a \in Attempts, NEW c \in Conns, c = cs[a].cc, NEW f, CcKept(cc, f), NEW g,
         g = [f EXCEPT ![c].hdrMu = None], cc[c].hdrMu \in {None, a}
  PROVE  Freed(g, a)
<1>1. IsCc(f) /\ \A d \in Conns : MuxSame(cc, f, d) /\ WinSame(cc, f, d)
  BY DEF CcKept, CcSame
<1>2. Unlocked(f, g, c)
  BY <1>1, UnlockRow
<1>3. IsCc(g)
  BY <1>2 DEF Unlocked
<1>4. \A d \in Conns : d # c => g[d] = f[d]
  BY <1>2 DEF Unlocked
<1>5. g[c].hdrMu = None /\ g[c].next = f[c].next /\ g[c].lastHdr = f[c].lastHdr /\ g[c].goAway = f[c].goAway
  BY <1>2 DEF Unlocked
<1>6. g[c].avail = f[c].avail /\ g[c].unsent = f[c].unsent /\ g[c].lost = f[c].lost
  BY <1>2 DEF Unlocked
<1>7. \A d \in Conns : d # c => MuxSame(cc, g, d)
  BY <1>1, <1>4 DEF MuxSame
<1>8. \A d \in Conns : WinSame(cc, g, d) /\ g[d].goAway = cc[d].goAway
  BY <1>1, <1>4, <1>5, <1>6 DEF WinSame, MuxSame
<1>9. g[c].next = cc[c].next /\ g[c].lastHdr = cc[c].lastHdr
  BY <1>1, <1>5 DEF MuxSame
<1>. QED  BY <1>3, <1>5, <1>7, <1>8, <1>9 DEF Freed

\* The same, of the sender's connection.
LEMMA UnlockFrees ==
  ASSUME NEW a \in Attempts, cs[a].cc \in Conns, NEW f, CcKept(cc, f), NEW g,
         g = [f EXCEPT ![cs[a].cc].hdrMu = None], cc[cs[a].cc].hdrMu \in {None, a}
  PROVE  Freed(g, a)
<1>1. PICK c \in Conns : c = cs[a].cc
  BY Zenon
<1>2. g = [f EXCEPT ![c].hdrMu = None] /\ cc[c].hdrMu \in {None, a}
  BY <1>1, Zenon
<1>. QED  BY <1>1, <1>2, UnlockFreesAt

\* A write after the unlock.
LEMMA WroteFreed ==
  ASSUME NEW a \in Attempts, cs[a].cc \in Conns, NEW f, Freed(f, a), NEW g, g = wrote(f, cs[a].cc)
  PROVE  Freed(g, a)
<1>1. CcKept(f, g)
  BY WroteKept DEF Freed
<1>2. IsCc(g) /\ \A d \in Conns : MuxSame(f, g, d) /\ WinSame(f, g, d)
  BY <1>1 DEF CcKept, CcSame
<1>3. \A d \in Conns : WinSame(cc, g, d) /\ g[d].goAway = cc[d].goAway
  BY <1>2 DEF Freed, WinSame, MuxSame
<1>4. \A d \in Conns : d # cs[a].cc => MuxSame(cc, g, d)
  BY <1>2 DEF Freed, MuxSame
<1>5. /\ g[cs[a].cc].next = f[cs[a].cc].next /\ g[cs[a].cc].lastHdr = f[cs[a].cc].lastHdr
      /\ g[cs[a].cc].hdrMu = f[cs[a].cc].hdrMu
  BY <1>2 DEF MuxSame
<1>. QED  BY <1>2, <1>3, <1>4, <1>5 DEF Freed

\* The windows of the connections are as they were.
LEMMA WindowsEven ==
  ASSUME Inv, \A d \in Conns : WinSame(cc, cc', d) PROVE Even
<1>1. Windows(cc)
  BY Shaped
<1>. QED  BY <1>1 DEF Even, WinSame, Windows, Credit

\* A sender that is done goes to its cleanup with its error.
LEMMA DoneRow ==
  ASSUME NEW f, IsCs(f), NEW a \in Attempts, NEW e, NEW g, g = done(f, a, e)
  PROVE  /\ IsCs(g) /\ \A b \in Attempts : b # a => g[b] = f[b]
         /\ ReadSame(f, g, a)
         /\ g[a].pc = "cleanup" /\ g[a].err = e /\ g[a].abort = f[a].abort /\ g[a].cc = f[a].cc
         /\ g[a].id = f[a].id /\ g[a].in = f[a].in /\ g[a].sent = f[a].sent /\ g[a].sentHeaders = f[a].sentHeaders
<1>1. g = [f EXCEPT ![a].pc = "cleanup", ![a].err = e]
  BY DEF done
<1>2. IsCs(g)
  <2>1. PICK h : h = [f EXCEPT ![a].pc = "cleanup"]
    BY Zenon
  <2>2. IsCs(h)
    BY <2>1, CsHas DEF IsCs, Table
  <2>3. g = [h EXCEPT ![a].err = e]
    BY <1>1, <2>1, Zenon
  <2>4. g = [b \in Attempts |-> g[b]] /\ \A b \in Attempts : b # a => g[b] = h[b]
    BY <2>2, <2>3 DEF IsCs, Table
  <2>5. PICK y : y = h[a]
    BY Zenon
  <2>6. g[a] = [y EXCEPT !.err = e] /\ y = [x \in CsFields |-> y[x]]
    BY <2>2, <2>3, <2>5 DEF IsCs, Table
  <2>7. g[a] = [x \in CsFields |-> g[a][x]]
    BY <2>6, CsHas
  <2>. QED  BY <2>2, <2>4, <2>7 DEF IsCs, Table
<1>3. \A b \in Attempts : b # a => g[b] = f[b]
  BY <1>1, CsHas DEF IsCs, Table
<1>4. ReadSame(f, g, a)
  BY <1>1, CsHas DEF IsCs, Table, ReadSame
<1>5. g[a].pc = "cleanup"
  BY <1>1, CsHas DEF IsCs, Table
<1>6. g[a].err = e
  BY <1>1, CsHas DEF IsCs, Table
<1>7. g[a].abort = f[a].abort /\ g[a].cc = f[a].cc
  BY <1>1, CsHas DEF IsCs, Table
<1>8. g[a].id = f[a].id /\ g[a].in = f[a].in /\ g[a].sent = f[a].sent /\ g[a].sentHeaders = f[a].sentHeaders
  BY <1>1, CsHas DEF IsCs, Table
<1>. QED  BY <1>2, <1>3, <1>4, <1>5, <1>6, <1>7, <1>8

\* The sender of row a gives up.
LEMMA DoneStops ==
  ASSUME Inv, NEW a \in Attempts, NEW f, Ready(f, a), NEW e, cs' = done(f, a, e), Freed(cc', a), rq' = rq,
         cs[a].pc \notin Over \cup {"none"},
         e \in OwnErrors \ {"unusable"} \/ e = cs[a].abort \/ (e = "unusable" /\ cs[a].pc \in {"lock", "pending"})
  PROVE  Stops(a)
<1>1. IsCs(f)
  BY DEF Ready
<1>2. IsCs(cs')
  BY <1>1, DoneRow
<1>3. \A b \in Attempts : b # a => cs'[b] = f[b]
  BY <1>1, DoneRow
<1>4. ReadSame(f, cs', a)
  BY <1>1, DoneRow
<1>5. /\ cs'[a].pc = "cleanup" /\ cs'[a].err = e /\ cs'[a].abort = f[a].abort /\ cs'[a].cc = f[a].cc
      /\ cs'[a].id = f[a].id /\ cs'[a].in = f[a].in /\ cs'[a].sent = f[a].sent /\ cs'[a].sentHeaders = f[a].sentHeaders
  BY <1>1, DoneRow
<1>6. \A b \in Attempts : b # a => Same(cs, cs', b)
  <2>1. \A b \in Attempts : b # a => Same(cs, f, b)
    BY DEF Ready
  <2>. QED  BY <1>3, <2>1 DEF Same, SendSame, ReadSame
<1>7. ReadSame(cs, cs', a)
  BY <1>4 DEF Ready, ReadSame
<1>8. Even
  BY WindowsEven DEF Freed
<1>9. Sends(a)
  BY <1>2, <1>5, <1>6, <1>7, <1>8 DEF Sends, RowsBut, Ready, Freed
<1>. QED  BY <1>5, <1>9 DEF Stops, Ready, Freed

\* Where a sender's goroutine waits, it does not give up its stream for good
\* but with an error of its own or that of the stream.
LEMMA StopErrors ==
  ASSUME NEW a, NEW e \in stopErrs(a) PROVE e \in OwnErrors \ {"unusable"} \/ e = cs[a].abort
BY DEF stopErrs, OwnErrors

\* A slot is taken, waited for, or not to be had.
LEMMA AwaitOpenSlotDoes ==
  ASSUME Inv, NEW a \in Attempts, cs[a].pc \in {"lock", "pending"}, NEW f, CcKept(cc, f), NEW g, Ready(g, a),
         cc[cs[a].cc].hdrMu \in {None, a}, awaitOpenSlot(f, g, a), rq' = rq
  PROVE  Stops(a) \/ Opens(a)
<1>. DEFINE c == cs[a].cc
<1>1. c \in Conns /\ g[a].cc = c
  BY SenderAt DEF Ready
<1>2. CASE cs' = done(g, a, "unusable") /\ cc' = [f EXCEPT ![c].hdrMu = None]
  <2>1. Freed(cc', a)
    BY <1>1, <1>2, UnlockFrees
  <2>2. cs[a].pc \notin Over \cup {"none"}
    BY DEF Over
  <2>. QED  BY <1>2, <2>1, <2>2, DoneStops
<1>3. IsCc(f) /\ \A d \in Conns : MuxSame(cc, f, d) /\ WinSame(cc, f, d)
  BY DEF CcKept, CcSame
<1>4. IsCs(g)
  BY DEF Ready
<1>5. \A b \in Attempts : b # a => Same(cs, g, b)
  BY DEF Ready
<1>6. /\ ReadSame(cs, g, a) /\ g[a].abort = cs[a].abort /\ g[a].cc = cs[a].cc /\ g[a].id = cs[a].id
      /\ g[a].in = cs[a].in /\ g[a].sent = cs[a].sent /\ g[a].err = cs[a].err /\ g[a].sentHeaders = cs[a].sentHeaders
  BY DEF Ready
<1>7. ASSUME NEW w, NEW i, cs' = [g EXCEPT ![a].pc = "headers", ![a].id = f[c].next, ![a].in = TRUE, ![a].flow = w, ![a].avail = i],
             NEW n, NEW v, cc' = [f EXCEPT ![c].next = n, ![c].idle = "no", ![c].hdrMu = a, ![c].noReuse = v], n = f[c].next + 2
      PROVE  Opens(a)
  <2>. HIDE DEF c
  <2>0. PICK m : m = f[c].next /\ cs' = [g EXCEPT ![a].pc = "headers", ![a].id = m, ![a].in = TRUE, ![a].flow = w, ![a].avail = i]
    BY <1>7, Zenon
  <2>1. cs' = [g EXCEPT ![a].pc = "headers", ![a].id = m, ![a].in = TRUE, ![a].flow = w, ![a].avail = i]
    BY <2>0
  <2>2. IsCs(cs')
    BY <1>4, <2>1, CsHas DEF IsCs, Table
  <2>3. \A b \in Attempts : b # a => cs'[b] = g[b]
    BY <1>4, <2>1, CsHas DEF IsCs, Table
  <2>4. ReadSame(g, cs', a)
    BY <1>4, <2>1, CsHas DEF IsCs, Table, ReadSame
  <2>5. cs'[a].pc = "headers" /\ cs'[a].id = m /\ cs'[a].in = TRUE /\ cs'[a].abort = g[a].abort
    BY <1>4, <2>1, CsHas DEF IsCs, Table
  <2>6. cs'[a].cc = g[a].cc /\ cs'[a].err = g[a].err /\ cs'[a].sent = g[a].sent /\ cs'[a].sentHeaders = g[a].sentHeaders
    BY <1>4, <2>1, CsHas DEF IsCs, Table
  <2>7. \A b \in Attempts : b # a => Same(cs, cs', b)
    BY <1>5, <2>3 DEF Same, SendSame, ReadSame
  <2>8. ReadSame(cs, cs', a)
    BY <1>6, <2>4 DEF ReadSame
  <2>9. cc' = [f EXCEPT ![c].next = n, ![c].idle = "no", ![c].hdrMu = a, ![c].noReuse = v]
    BY <1>7
  <2>10. IsCc(cc')
    BY <1>1, <1>3, <2>9, CcHas DEF IsCc, Table
  <2>11. \A d \in Conns : d # c => cc'[d] = f[d]
    BY <1>1, <1>3, <2>9, CcHas DEF IsCc, Table
  <2>12. cc'[c].next = n /\ cc'[c].hdrMu = a /\ cc'[c].lastHdr = f[c].lastHdr /\ cc'[c].goAway = f[c].goAway
    BY <1>1, <1>3, <2>9, CcHas DEF IsCc, Table
  <2>13. cc'[c].avail = f[c].avail /\ cc'[c].unsent = f[c].unsent /\ cc'[c].lost = f[c].lost
    BY <1>1, <1>3, <2>9, CcHas DEF IsCc, Table
  <2>14. \A d \in Conns : d # c => MuxSame(cc, cc', d)
    BY <1>3, <2>11 DEF MuxSame
  <2>15. \A d \in Conns : WinSame(cc, cc', d) /\ cc'[d].goAway = cc[d].goAway
    BY <1>3, <2>11, <2>12, <2>13 DEF WinSame, MuxSame
  <2>16. f[c].next = cc[c].next /\ f[c].lastHdr = cc[c].lastHdr
    BY <1>1, <1>3 DEF MuxSame
  <2>17. Even
    BY <2>15, WindowsEven
  <2>18. Sends(a)
    BY <1>6, <2>2, <2>5, <2>6, <2>7, <2>8, <2>10, <2>14, <2>15, <2>17 DEF Sends, RowsBut, c
  <2>. QED  BY <1>6, <1>7, <2>0, <2>5, <2>6, <2>12, <2>16, <2>18 DEF Opens, c
<1>8. ASSUME cs' = [g EXCEPT ![a].pc = "pending", ![a].woken = FALSE], cc' = [f EXCEPT ![c].idle = "no", ![c].hdrMu = a]
      PROVE  Opens(a)
  <2>. HIDE DEF c
  <2>2. IsCs(cs')
    BY <1>4, <1>8, CsHas DEF IsCs, Table
  <2>3. \A b \in Attempts : b # a => cs'[b] = g[b]
    BY <1>4, <1>8, CsHas DEF IsCs, Table
  <2>4. ReadSame(g, cs', a)
    BY <1>4, <1>8, CsHas DEF IsCs, Table, ReadSame
  <2>5. cs'[a].pc = "pending" /\ cs'[a].id = g[a].id /\ cs'[a].in = g[a].in /\ cs'[a].abort = g[a].abort
    BY <1>4, <1>8, CsHas DEF IsCs, Table
  <2>6. cs'[a].cc = g[a].cc /\ cs'[a].err = g[a].err /\ cs'[a].sent = g[a].sent /\ cs'[a].sentHeaders = g[a].sentHeaders
    BY <1>4, <1>8, CsHas DEF IsCs, Table
  <2>7. \A b \in Attempts : b # a => Same(cs, cs', b)
    BY <1>5, <2>3 DEF Same, SendSame, ReadSame
  <2>8. ReadSame(cs, cs', a)
    BY <1>6, <2>4 DEF ReadSame
  <2>10. IsCc(cc')
    BY <1>1, <1>3, <1>8, CcHas DEF IsCc, Table
  <2>11. \A d \in Conns : d # c => cc'[d] = f[d]
    BY <1>1, <1>3, <1>8, CcHas DEF IsCc, Table
  <2>12. cc'[c].next = f[c].next /\ cc'[c].hdrMu = a /\ cc'[c].lastHdr = f[c].lastHdr /\ cc'[c].goAway = f[c].goAway
    BY <1>1, <1>3, <1>8, CcHas DEF IsCc, Table
  <2>13. cc'[c].avail = f[c].avail /\ cc'[c].unsent = f[c].unsent /\ cc'[c].lost = f[c].lost
    BY <1>1, <1>3, <1>8, CcHas DEF IsCc, Table
  <2>14. \A d \in Conns : d # c => MuxSame(cc, cc', d)
    BY <1>3, <2>11 DEF MuxSame
  <2>15. \A d \in Conns : WinSame(cc, cc', d) /\ cc'[d].goAway = cc[d].goAway
    BY <1>3, <2>11, <2>12, <2>13 DEF WinSame, MuxSame
  <2>16. f[c].next = cc[c].next /\ f[c].lastHdr = cc[c].lastHdr
    BY <1>1, <1>3 DEF MuxSame
  <2>17. Even
    BY <2>15, WindowsEven
  <2>18. Sends(a)
    BY <1>6, <2>2, <2>5, <2>6, <2>7, <2>8, <2>10, <2>14, <2>15, <2>17 DEF Sends, RowsBut, c
  <2>. QED  BY <1>6, <2>5, <2>6, <2>12, <2>16, <2>18 DEF Opens, c
<1>9. \/ cs' = done(g, a, "unusable") /\ cc' = [f EXCEPT ![c].hdrMu = None]
      \/ \E w, i, v, n :
           /\ cs' = [g EXCEPT ![a].pc = "headers", ![a].id = f[c].next, ![a].in = TRUE, ![a].flow = w, ![a].avail = i]
           /\ cc' = [f EXCEPT ![c].next = n, ![c].idle = "no", ![c].hdrMu = a, ![c].noReuse = v] /\ n = f[c].next + 2
      \/ cs' = [g EXCEPT ![a].pc = "pending", ![a].woken = FALSE] /\ cc' = [f EXCEPT ![c].idle = "no", ![c].hdrMu = a]
  <2>1. \A v : [f EXCEPT ![c].next = @ + 2, ![c].idle = "no", ![c].hdrMu = a, ![c].noReuse = v]
               = [f EXCEPT ![c].next = f[c].next + 2, ![c].idle = "no", ![c].hdrMu = a, ![c].noReuse = v]
    BY <1>1, <1>3, CcHas DEF IsCc, Table
  <2>2. \/ cs' = done(g, a, "unusable") /\ cc' = [f EXCEPT ![c].hdrMu = None]
        \/ /\ cs' = [g EXCEPT ![a].pc = "headers", ![a].id = f[c].next, ![a].in = TRUE, ![a].flow = f[c].initWin, ![a].avail = StreamFlow]
           /\ \E v : cc' = [f EXCEPT ![c].next = @ + 2, ![c].idle = "no", ![c].hdrMu = a, ![c].noReuse = v]
        \/ cs' = [g EXCEPT ![a].pc = "pending", ![a].woken = FALSE] /\ cc' = [f EXCEPT ![c].idle = "no", ![c].hdrMu = a]
    <3>1. \/ cs' = done(g, a, "unusable") /\ cc' = [f EXCEPT ![g[a].cc].hdrMu = None]
          \/ /\ cs' = [g EXCEPT ![a].pc = "headers", ![a].id = f[g[a].cc].next, ![a].in = TRUE, ![a].flow = f[g[a].cc].initWin, ![a].avail = StreamFlow]
             /\ \E v : cc' = [f EXCEPT ![g[a].cc].next = @ + 2, ![g[a].cc].idle = "no", ![g[a].cc].hdrMu = a, ![g[a].cc].noReuse = v]
          \/ cs' = [g EXCEPT ![a].pc = "pending", ![a].woken = FALSE] /\ cc' = [f EXCEPT ![g[a].cc].idle = "no", ![g[a].cc].hdrMu = a]
      BY Zenon DEF awaitOpenSlot
    <3>. QED  BY <1>1, <3>1
  <2>. HIDE DEF c
  <2>3. ASSUME NEW v, cc' = [f EXCEPT ![c].next = @ + 2, ![c].idle = "no", ![c].hdrMu = a, ![c].noReuse = v]
        PROVE  \E n : cc' = [f EXCEPT ![c].next = n, ![c].idle = "no", ![c].hdrMu = a, ![c].noReuse = v] /\ n = f[c].next + 2
    <3>1. cc' = [f EXCEPT ![c].next = f[c].next + 2, ![c].idle = "no", ![c].hdrMu = a, ![c].noReuse = v]
      BY <2>1, <2>3
    <3>. QED  BY <3>1, Zenon
  <2>4. ASSUME cs' = [g EXCEPT ![a].pc = "headers", ![a].id = f[c].next, ![a].in = TRUE, ![a].flow = f[c].initWin, ![a].avail = StreamFlow],
               NEW v, cc' = [f EXCEPT ![c].next = @ + 2, ![c].idle = "no", ![c].hdrMu = a, ![c].noReuse = v]
        PROVE  \E w, i, u, n :
                 /\ cs' = [g EXCEPT ![a].pc = "headers", ![a].id = f[c].next, ![a].in = TRUE, ![a].flow = w, ![a].avail = i]
                 /\ cc' = [f EXCEPT ![c].next = n, ![c].idle = "no", ![c].hdrMu = a, ![c].noReuse = u] /\ n = f[c].next + 2
    <3>1. PICK n : cc' = [f EXCEPT ![c].next = n, ![c].idle = "no", ![c].hdrMu = a, ![c].noReuse = v] /\ n = f[c].next + 2
      BY <2>3, <2>4, Zenon
    <3>. QED  BY <2>4, <3>1, Zenon
  <2>. QED  BY <2>2, <2>4, Zenon
<1>. QED  BY <1>2, <1>7, <1>8, <1>9, Zenon

\* lock and slotWoken leave the fields of the connections that count.
LEMMA DecrKept ==
  ASSUME NEW f, IsCc(f), NEW c \in Conns, NEW g, g = decrStreamReservations(f, c) PROVE CcKept(f, g)
<1>1. PICK v : g = [f EXCEPT ![c].reserved = v]
  BY Zenon DEF decrStreamReservations
<1>2. IsCc(g)
  BY <1>1, CcHas DEF IsCc, Table
<1>3. \A d \in Conns : d # c => g[d] = f[d]
  BY <1>1, CcHas DEF IsCc, Table
<1>4. g[c].next = f[c].next /\ g[c].lastHdr = f[c].lastHdr /\ g[c].hdrMu = f[c].hdrMu /\ g[c].goAway = f[c].goAway
  BY <1>1, CcHas DEF IsCc, Table
<1>5. g[c].avail = f[c].avail /\ g[c].unsent = f[c].unsent /\ g[c].lost = f[c].lost
  BY <1>1, CcHas DEF IsCc, Table
<1>. QED  BY <1>2, <1>3, <1>4, <1>5 DEF CcKept, CcSame, MuxSame, WinSame

\* Two changes in a row.
LEMMA KeptThrough ==
  ASSUME NEW f, NEW h, NEW g, CcKept(f, h), CcKept(h, g) PROVE CcKept(f, g)
<1>1. \A d \in Conns : MuxSame(f, h, d) /\ MuxSame(h, g, d) /\ WinSame(f, h, d) /\ WinSame(h, g, d)
  BY DEF CcKept, CcSame
<1>2. \A d \in Conns : MuxSame(f, g, d)
  BY <1>1 DEF MuxSame
<1>3. \A d \in Conns : WinSame(f, g, d)
  BY <1>1 DEF WinSame
<1>. QED  BY <1>2, <1>3 DEF CcKept, CcSame

\* A field of a connection that no part of the invariant is about.
LEMMA OtherKept ==
  ASSUME NEW f, IsCc(f), NEW c \in Conns, NEW v, NEW w, NEW g,
         \/ g = [f EXCEPT ![c].timer = v] \/ g = [f EXCEPT ![c].flow = v] \/ g = [f EXCEPT ![c].idle = v]
         \/ g = [f EXCEPT ![c].ping = v] \/ g = [f EXCEPT ![c].gone = v] \/ g = [f EXCEPT ![c].noReuse = v]
         \/ g = [f EXCEPT ![c].up = v, ![c].timer = w] \/ g = [f EXCEPT ![c].closed = v, ![c].gone = w]
         \/ g = [f EXCEPT ![c].closing = v, ![c].shut = w]
  PROVE  CcKept(f, g)
<1>2. IsCc(g)
  <2>1. CASE g = [f EXCEPT ![c].timer = v]
    BY <2>1, CcHas DEF IsCc, Table
  <2>2. CASE g = [f EXCEPT ![c].flow = v]
    BY <2>2, CcHas DEF IsCc, Table
  <2>3. CASE g = [f EXCEPT ![c].idle = v]
    BY <2>3, CcHas DEF IsCc, Table
  <2>4. CASE g = [f EXCEPT ![c].ping = v]
    BY <2>4, CcHas DEF IsCc, Table
  <2>5. CASE g = [f EXCEPT ![c].gone = v]
    BY <2>5, CcHas DEF IsCc, Table
  <2>6. CASE g = [f EXCEPT ![c].noReuse = v]
    BY <2>6, CcHas DEF IsCc, Table
  <2>7. CASE g = [f EXCEPT ![c].up = v, ![c].timer = w]
    BY <2>7, CcHas DEF IsCc, Table
  <2>8. CASE g = [f EXCEPT ![c].closed = v, ![c].gone = w]
    BY <2>8, CcHas DEF IsCc, Table
  <2>9. CASE g = [f EXCEPT ![c].closing = v, ![c].shut = w]
    BY <2>9, CcHas DEF IsCc, Table
  <2>. QED  BY <2>1, <2>2, <2>3, <2>4, <2>5, <2>6, <2>7, <2>8, <2>9
<1>3. \A d \in Conns : d # c => g[d] = f[d]
  BY CcHas DEF IsCc, Table
<1>4. g[c].next = f[c].next /\ g[c].lastHdr = f[c].lastHdr /\ g[c].hdrMu = f[c].hdrMu /\ g[c].goAway = f[c].goAway
  BY CcHas DEF IsCc, Table
<1>5. g[c].avail = f[c].avail /\ g[c].unsent = f[c].unsent /\ g[c].lost = f[c].lost
  BY CcHas DEF IsCc, Table
<1>. QED  BY <1>2, <1>3, <1>4, <1>5 DEF CcKept, CcSame, MuxSame, WinSame

\* The sender gets reqHeaderMu.
LEMMA LockDoes ==
  ASSUME Inv, NEW a \in Attempts, lock(a) PROVE Stops(a) \/ Opens(a)
<1>. DEFINE c == cs[a].cc
<1>1. cs[a].pc = "lock" /\ rq' = rq
  BY DEF lock
<1>2. c \in Conns
  BY <1>1, SenderAt
<1>3. cs[a].pc \notin Over \cup {"none"}
  BY <1>1 DEF Over
<1>4. ASSUME NEW e \in {"badHeader", "cancel"}, cs' = done(cs, a, e), cc' = cc PROVE Stops(a)
  <2>1. Freed(cc', a)
    BY <1>2, <1>4, KeptFreed, KeptNow
  <2>. QED  BY <1>1, <1>3, <1>4, <2>1, ReadyNow, DoneStops DEF OwnErrors
<1>5. ASSUME cc[c].hdrMu = None, awaitOpenSlot([decrStreamReservations(cc, c) EXCEPT ![c].timer = FALSE], cs, a)
      PROVE  Stops(a) \/ Opens(a)
  <2>1. PICK h : h = decrStreamReservations(cc, c)
    BY Zenon
  <2>2. PICK f : f = [h EXCEPT ![c].timer = FALSE]
    BY Zenon
  <2>3. CcKept(cc, h)
    BY <1>2, <2>1, Shaped, DecrKept
  <2>4. CcKept(h, f)
    <3>1. IsCc(h)
      BY <2>3 DEF CcKept
    <3>. QED  BY <1>2, <2>2, <3>1, OtherKept
  <2>5. CcKept(cc, f)
    BY <2>3, <2>4, KeptThrough
  <2>6. awaitOpenSlot(f, cs, a)
    BY <1>5, <2>1, <2>2
  <2>7. Ready(cs, a) /\ cc[c].hdrMu \in {None, a}
    BY <1>5, ReadyNow
  <2>. QED  BY <1>1, <2>5, <2>6, <2>7, AwaitOpenSlotDoes
<1>. QED  BY <1>4, <1>5, Zenon DEF lock

\* The sender that waits for a slot is woken.
LEMMA SlotWokenDoes ==
  ASSUME Inv, NEW a \in Attempts, slotWoken(a) PROVE Stops(a) \/ Opens(a)
<1>. DEFINE c == cs[a].cc
<1>1. cs[a].pc = "pending" /\ rq' = rq
  BY DEF slotWoken
<1>2. c \in Conns /\ cc[c].hdrMu = a
  BY <1>1, SenderAt DEF SlotOf
<1>3. cs[a].pc \notin Over \cup {"none"}
  BY <1>1 DEF Over
<1>4. ASSUME cs' = done(cs, a, cs[a].abort), cc' = [cc EXCEPT ![c].hdrMu = None] PROVE Stops(a)
  <2>1. Freed(cc', a)
    BY <1>2, <1>4, UnlockFrees, KeptNow
  <2>. QED  BY <1>1, <1>3, <1>4, <2>1, ReadyNow, DoneStops
<1>5. ASSUME awaitOpenSlot(cc, [cs EXCEPT ![a].pc = "lock"], a) PROVE Stops(a) \/ Opens(a)
  <2>1. PICK g : g = [cs EXCEPT ![a].pc = "lock"]
    BY Zenon
  <2>2. Ready(g, a)
    <3>1. IsCs(g)
      BY <2>1, Shaped, CsHas DEF IsCs, Table
    <3>2. \A b \in Attempts : b # a => g[b] = cs[b]
      BY <2>1, Shaped, CsHas DEF IsCs, Table
    <3>3. ReadSame(cs, g, a)
      BY <2>1, Shaped, CsHas DEF IsCs, Table, ReadSame
    <3>4. g[a].abort = cs[a].abort /\ g[a].cc = cs[a].cc /\ g[a].id = cs[a].id /\ g[a].in = cs[a].in
      BY <2>1, Shaped, CsHas DEF IsCs, Table
    <3>5. g[a].sent = cs[a].sent /\ g[a].err = cs[a].err /\ g[a].sentHeaders = cs[a].sentHeaders
      BY <2>1, Shaped, CsHas DEF IsCs, Table
    <3>6. \A b \in Attempts : b # a => Same(cs, g, b)
      BY <3>2 DEF Same, SendSame, ReadSame
    <3>. QED  BY <3>1, <3>3, <3>4, <3>5, <3>6 DEF Ready
  <2>3. awaitOpenSlot(cc, g, a) /\ cc[c].hdrMu \in {None, a}
    BY <1>2, <1>5, <2>1
  <2>. QED  BY <1>1, <2>2, <2>3, KeptNow, AwaitOpenSlotDoes
<1>. QED  BY <1>4, <1>5, Zenon DEF slotWoken

\* g is cs with the sender of row a at p, after it sent s.
Onward(g, a, p, s) ==
  /\ IsCs(g) /\ \A b \in Attempts : b # a => Same(cs, g, b)
  /\ ReadSame(cs, g, a) /\ g[a].abort = cs[a].abort /\ g[a].cc = cs[a].cc /\ g[a].err = cs[a].err
  /\ g[a].id = cs[a].id /\ g[a].in = cs[a].in /\ g[a].sentHeaders = cs[a].sentHeaders
  /\ g[a].pc = p /\ g[a].sent = s

\* A sender that is onward with the request's body.
LEMMA OnwardGoes ==
  ASSUME Inv, NEW a \in Attempts, NEW p \in Sending \cup {"await"}, NEW s, Onward(cs', a, p, s),
         cs[a].pc \in Sending, CcKept(cc, cc'), rq' = rq,
         s = cs[a].sent \/ cs[a].sent # "open" \/ (s = "ended" /\ p = "await")
  PROVE  GoesOn(a)
<1>1. cs[a].cc \in Conns
  BY SenderAt DEF Sending
<1>2. IsCc(cc') /\ \A d \in Conns : MuxSame(cc, cc', d)
  BY DEF CcKept, CcSame
<1>3. Even
  BY CcKeptStill
<1>4. Sends(a)
  BY <1>2, <1>3 DEF Sends, Onward, RowsBut, MuxSame
<1>. QED  BY <1>1, <1>2, <1>4 DEF GoesOn, Onward

\* It goes from one place to the next,
LEMMA OnwardTo ==
  ASSUME Inv, NEW a \in Attempts, NEW p, NEW g, g = [cs EXCEPT ![a].pc = p] PROVE Onward(g, a, p, cs[a].sent)
<1>1. IsCs(g)
  BY Shaped, CsHas DEF IsCs, Table
<1>2. \A b \in Attempts : b # a => g[b] = cs[b]
  BY Shaped, CsHas DEF IsCs, Table
<1>3. ReadSame(cs, g, a)
  BY Shaped, CsHas DEF IsCs, Table, ReadSame
<1>4. g[a].abort = cs[a].abort /\ g[a].cc = cs[a].cc /\ g[a].err = cs[a].err /\ g[a].id = cs[a].id
  BY Shaped, CsHas DEF IsCs, Table
<1>5. g[a].in = cs[a].in /\ g[a].sentHeaders = cs[a].sentHeaders
  BY Shaped, CsHas DEF IsCs, Table
<1>6. g[a].pc = p /\ g[a].sent = cs[a].sent
  BY Shaped, CsHas DEF IsCs, Table
<1>7. \A b \in Attempts : b # a => Same(cs, g, b)
  BY <1>2 DEF Same, SendSame, ReadSame
<1>. QED  BY <1>1, <1>3, <1>4, <1>5, <1>6, <1>7 DEF Onward

\* reads the body,
LEMMA OnwardChunk ==
  ASSUME Inv, NEW a \in Attempts, NEW p, NEW t, NEW n, NEW e, NEW w, NEW g, g = [cs EXCEPT ![a].toSend = t, ![a].chunk = n, ![a].eof = e, ![a].woken = w, ![a].pc = p] PROVE Onward(g, a, p, cs[a].sent)
<1>1. IsCs(g)
  BY Shaped, CsHas DEF IsCs, Table
<1>2. \A b \in Attempts : b # a => g[b] = cs[b]
  BY Shaped, CsHas DEF IsCs, Table
<1>3. ReadSame(cs, g, a)
  BY Shaped, CsHas DEF IsCs, Table, ReadSame
<1>4. g[a].abort = cs[a].abort /\ g[a].cc = cs[a].cc /\ g[a].err = cs[a].err /\ g[a].id = cs[a].id
  BY Shaped, CsHas DEF IsCs, Table
<1>5. g[a].in = cs[a].in /\ g[a].sentHeaders = cs[a].sentHeaders
  BY Shaped, CsHas DEF IsCs, Table
<1>6. g[a].pc = p /\ g[a].sent = cs[a].sent
  BY Shaped, CsHas DEF IsCs, Table
<1>7. \A b \in Attempts : b # a => Same(cs, g, b)
  BY <1>2 DEF Same, SendSame, ReadSame
<1>. QED  BY <1>1, <1>3, <1>4, <1>5, <1>6, <1>7 DEF Onward

\* writes DATA,
LEMMA OnwardData ==
  ASSUME Inv, NEW a \in Attempts, NEW p, NEW t, NEW n, NEW e, NEW s, NEW g, g = [cs EXCEPT ![a].flow = t, ![a].chunk = n, ![a].sentEnd = e, ![a].sent = s, ![a].pc = p] PROVE Onward(g, a, p, s)
<1>1. IsCs(g)
  BY Shaped, CsHas DEF IsCs, Table
<1>2. \A b \in Attempts : b # a => g[b] = cs[b]
  BY Shaped, CsHas DEF IsCs, Table
<1>3. ReadSame(cs, g, a)
  BY Shaped, CsHas DEF IsCs, Table, ReadSame
<1>4. g[a].abort = cs[a].abort /\ g[a].cc = cs[a].cc /\ g[a].err = cs[a].err /\ g[a].id = cs[a].id
  BY Shaped, CsHas DEF IsCs, Table
<1>5. g[a].in = cs[a].in /\ g[a].sentHeaders = cs[a].sentHeaders
  BY Shaped, CsHas DEF IsCs, Table
<1>6. g[a].pc = p /\ g[a].sent = s
  BY Shaped, CsHas DEF IsCs, Table
<1>7. \A b \in Attempts : b # a => Same(cs, g, b)
  BY <1>2 DEF Same, SendSame, ReadSame
<1>. QED  BY <1>1, <1>3, <1>4, <1>5, <1>6, <1>7 DEF Onward

\* or ends the stream.
LEMMA OnwardEnd ==
  ASSUME Inv, NEW a \in Attempts, NEW p, NEW e, NEW s, NEW g, g = [cs EXCEPT ![a].sentEnd = e, ![a].pc = p, ![a].sent = s] PROVE Onward(g, a, p, s)
<1>1. IsCs(g)
  BY Shaped, CsHas DEF IsCs, Table
<1>2. \A b \in Attempts : b # a => g[b] = cs[b]
  BY Shaped, CsHas DEF IsCs, Table
<1>3. ReadSame(cs, g, a)
  BY Shaped, CsHas DEF IsCs, Table, ReadSame
<1>4. g[a].abort = cs[a].abort /\ g[a].cc = cs[a].cc /\ g[a].err = cs[a].err /\ g[a].id = cs[a].id
  BY Shaped, CsHas DEF IsCs, Table
<1>5. g[a].in = cs[a].in /\ g[a].sentHeaders = cs[a].sentHeaders
  BY Shaped, CsHas DEF IsCs, Table
<1>6. g[a].pc = p /\ g[a].sent = s
  BY Shaped, CsHas DEF IsCs, Table
<1>7. \A b \in Attempts : b # a => Same(cs, g, b)
  BY <1>2 DEF Same, SendSame, ReadSame
<1>. QED  BY <1>1, <1>3, <1>4, <1>5, <1>6, <1>7 DEF Onward

\* HEADERS are written with reqHeaderMu held, which is then unlocked.
LEMMA EncodeAndWriteHeadersDoes ==
  ASSUME Inv, NEW a \in Attempts, encodeAndWriteHeaders(a) PROVE Stops(a) \/ Writes(a)
<1>. DEFINE c == cs[a].cc
            on == [cs EXCEPT ![a].sentHeaders = TRUE]
<1>1. cs[a].pc = "headers" /\ rq' = rq
  BY DEF encodeAndWriteHeaders
<1>2. c \in Conns /\ cc[c].hdrMu = a
  BY <1>1, SenderAt DEF SlotOf
<1>3. cs[a].pc \notin Over \cup {"none"}
  BY <1>1 DEF Over
<1>4. ASSUME NEW e \in stopErrs(a) \cup {"badHeader"}, cs' = done(cs, a, e), cc' = [cc EXCEPT ![c].hdrMu = None] PROVE Stops(a)
  <2>1. Freed(cc', a)
    BY <1>2, <1>4, UnlockFrees, KeptNow
  <2>2. e \in OwnErrors \ {"unusable"} \/ e = cs[a].abort
    BY <1>4, StopErrors DEF OwnErrors
  <2>. QED  BY <1>1, <1>3, <1>4, <2>1, <2>2, ReadyNow, DoneStops
<1>5. PICK g : g = on
  BY Zenon
<1>6. IsCs(g)
  BY <1>5, Shaped, CsHas DEF IsCs, Table
<1>7. \A b \in Attempts : b # a => g[b] = cs[b]
  BY <1>5, Shaped, CsHas DEF IsCs, Table
<1>8. ReadSame(cs, g, a)
  BY <1>5, Shaped, CsHas DEF IsCs, Table, ReadSame
<1>9. g[a].abort = cs[a].abort /\ g[a].cc = cs[a].cc /\ g[a].id = cs[a].id /\ g[a].in = cs[a].in
  BY <1>5, Shaped, CsHas DEF IsCs, Table
<1>10. g[a].sent = cs[a].sent /\ g[a].err = cs[a].err /\ g[a].sentHeaders = TRUE
  BY <1>5, Shaped, CsHas DEF IsCs, Table
<1>11. \A b \in Attempts : b # a => Same(cs, g, b)
  BY <1>7 DEF Same, SendSame, ReadSame
<1>12. ASSUME ~stopped(a), cs' = done(on, a, "write"), cc' = wrote([cc EXCEPT ![c].hdrMu = None], c) PROVE Stops(a)
  <2>1. Ready(g, a)
    BY <1>1, <1>6, <1>8, <1>9, <1>10, <1>11, <1>12 DEF Ready, stopped
  <2>2. PICK f : f = [cc EXCEPT ![c].hdrMu = None]
    BY Zenon
  <2>3. Freed(f, a)
    BY <1>2, <2>2, UnlockFrees, KeptNow
  <2>4. Freed(cc', a)
    BY <1>2, <1>12, <2>2, <2>3, WroteFreed
  <2>. QED  BY <1>1, <1>3, <1>5, <1>12, <2>1, <2>4, DoneStops DEF OwnErrors
<1>13. ASSUME ~stopped(a),
              NEW s, NEW e, NEW p \in {"await", "expect", "body"}, cs' = [on EXCEPT ![a].sent = s, ![a].sentEnd = e, ![a].pc = p],
              cs[a].id < cc[c].lastHdr \/ s = "open" \/ (s = "ended" /\ p = "await"),
              cc' = [cc EXCEPT ![c].hdrMu = None, ![c].lastHdr = cs[a].id]
       PROVE  Writes(a)
  <2>. HIDE DEF c
  <2>1. cs' = [g EXCEPT ![a].sent = s, ![a].sentEnd = e, ![a].pc = p]
    BY <1>5, <1>13
  <2>. HIDE DEF on
  <2>2. IsCs(cs')
    BY <1>6, <2>1, CsHas DEF IsCs, Table
  <2>3. \A b \in Attempts : b # a => cs'[b] = g[b]
    BY <1>6, <2>1, CsHas DEF IsCs, Table
  <2>4. ReadSame(g, cs', a)
    BY <1>6, <2>1, CsHas DEF IsCs, Table, ReadSame
  <2>5. cs'[a].abort = g[a].abort /\ cs'[a].cc = g[a].cc /\ cs'[a].id = g[a].id /\ cs'[a].in = g[a].in
    BY <1>6, <2>1, CsHas DEF IsCs, Table
  <2>6. cs'[a].sent = s /\ cs'[a].err = g[a].err /\ cs'[a].sentHeaders = g[a].sentHeaders /\ cs'[a].pc = p
    BY <1>6, <2>1, CsHas DEF IsCs, Table
  <2>7. \A b \in Attempts : b # a => Same(cs, cs', b)
    BY <1>11, <2>3 DEF Same, SendSame, ReadSame
  <2>8. ReadSame(cs, cs', a)
    BY <1>8, <2>4 DEF ReadSame
  <2>9. PICK m : m = cs[a].id /\ cc' = [cc EXCEPT ![c].hdrMu = None, ![c].lastHdr = m]
    BY <1>13, Zenon
  <2>10. cc' = [cc EXCEPT ![c].hdrMu = None, ![c].lastHdr = m]
    BY <2>9
  <2>11. IsCc(cc')
    BY <1>2, <2>10, Shaped, CcHas DEF IsCc, Table
  <2>12. \A d \in Conns : d # c => cc'[d] = cc[d]
    BY <1>2, <2>10, Shaped, CcHas DEF IsCc, Table
  <2>13. cc'[c].next = cc[c].next /\ cc'[c].lastHdr = m /\ cc'[c].hdrMu = None /\ cc'[c].goAway = cc[c].goAway
    BY <1>2, <2>10, Shaped, CcHas DEF IsCc, Table
  <2>14. cc'[c].avail = cc[c].avail /\ cc'[c].unsent = cc[c].unsent /\ cc'[c].lost = cc[c].lost
    BY <1>2, <2>10, Shaped, CcHas DEF IsCc, Table
  <2>15. \A d \in Conns : d # c => MuxSame(cc, cc', d)
    BY <2>12 DEF MuxSame
  <2>16. \A d \in Conns : WinSame(cc, cc', d) /\ cc'[d].goAway = cc[d].goAway
    BY <2>12, <2>13, <2>14 DEF WinSame
  <2>17. Even
    BY <2>16, WindowsEven
  <2>18. Sends(a)
    BY <1>1, <1>9, <2>2, <2>5, <2>7, <2>8, <2>11, <2>15, <2>16, <2>17 DEF Sends, RowsBut, c
  <2>19. cs[a].abort = ""
    BY <1>13 DEF stopped
  <2>. QED  BY <1>1, <1>9, <1>10, <1>13, <2>5, <2>6, <2>9, <2>13, <2>18, <2>19 DEF Writes, c
<1>14. ASSUME ~stopped(a), ~cc[c].gone, ~encodeHeadersFails(a) PROVE Writes(a)
  <2>. DEFINE d == desc[a[1]]
              s == IF cs[a].id < cc[c].lastHdr THEN "illegal" ELSE IF d.body = 0 /\ ~d.trailer THEN "ended" ELSE "open"
              p == IF d.body = 0 THEN "await" ELSE IF d.expect THEN "expect" ELSE "body"
  <2>1. /\ cs' = [on EXCEPT ![a].sent = s, ![a].sentEnd = d.body = 0, ![a].pc = p]
        /\ cc' = [cc EXCEPT ![c].hdrMu = None, ![c].lastHdr = cs[a].id]
    BY <1>14, Zenon DEF encodeAndWriteHeaders
  <2>2. p \in {"await", "expect", "body"} /\ (cs[a].id < cc[c].lastHdr \/ s = "open" \/ (s = "ended" /\ p = "await"))
    BY Zenon
  <2>. HIDE DEF p, s, d, on, c
  <2>. QED  BY <1>13, <1>14, <2>1, <2>2
<1>15. \/ \E e \in stopErrs(a) \cup {"badHeader"} : cs' = done(cs, a, e) /\ cc' = [cc EXCEPT ![c].hdrMu = None]
       \/ ~stopped(a) /\ cs' = done(on, a, "write") /\ cc' = wrote([cc EXCEPT ![c].hdrMu = None], c)
       \/ ~stopped(a) /\ ~cc[c].gone /\ ~encodeHeadersFails(a)
  BY Zenon DEF encodeAndWriteHeaders
<1>. QED  BY <1>4, <1>12, <1>14, <1>15, Zenon

\* The wait for 100 (Continue) is over.
LEMMA Await100Does ==
  ASSUME Inv, NEW a \in Attempts, await100(a) PROVE Stops(a) \/ GoesOn(a)
<1>1. cs[a].pc = "expect" /\ rq' = rq /\ cc' = cc
  BY DEF await100
<1>2. cs[a].cc \in Conns /\ cs[a].pc \notin Over \cup {"none"} /\ cs[a].pc \in Sending
  BY <1>1, SenderAt DEF Over, Sending
<1>3. ASSUME cs' = [cs EXCEPT ![a].pc = "body"] PROVE GoesOn(a)
  <2>1. Onward(cs', a, "body", cs[a].sent)
    BY <1>3, OnwardTo
  <2>. QED  BY <1>1, <1>2, <2>1, KeptNow, OnwardGoes DEF Sending
<1>4. ASSUME NEW e \in stopErrs(a), cs' = done(cs, a, e) PROVE Stops(a)
  <2>1. Freed(cc', a)
    BY <1>1, <1>2, KeptFreed, KeptNow
  <2>. QED  BY <1>1, <1>2, <1>4, <2>1, StopErrors, ReadyNow, DoneStops
<1>. QED  BY <1>3, <1>4 DEF await100

\* A chunk of the request's body is read.
LEMMA ReadBodyDoes ==
  ASSUME Inv, NEW a \in Attempts, readBody(a) PROVE Stops(a) \/ GoesOn(a)
<1>1. cs[a].pc = "body" /\ rq' = rq /\ cc' = cc
  BY DEF readBody
<1>2. cs[a].cc \in Conns /\ cs[a].pc \notin Over \cup {"none"} /\ cs[a].pc \in Sending
  BY <1>1, SenderAt DEF Over, Sending
<1>3. ASSUME cs' = [cs EXCEPT ![a].pc = "await"] PROVE GoesOn(a)
  <2>1. Onward(cs', a, "await", cs[a].sent)
    BY <1>3, OnwardTo
  <2>. QED  BY <1>1, <1>2, <2>1, KeptNow, OnwardGoes DEF Sending
<1>4. ASSUME NEW e \in {"bodyRead", "tooLong"}, cs' = done(cs, a, e) PROVE Stops(a)
  <2>1. Freed(cc', a)
    BY <1>1, <1>2, KeptFreed, KeptNow
  <2>. QED  BY <1>1, <1>2, <1>4, <2>1, ReadyNow, DoneStops DEF OwnErrors
<1>5. ASSUME NEW t, NEW n, NEW e, NEW p \in {"flow", "end"},
             cs' = [cs EXCEPT ![a].toSend = t, ![a].chunk = n, ![a].eof = e, ![a].woken = TRUE, ![a].pc = p]
      PROVE  GoesOn(a)
  <2>1. Onward(cs', a, p, cs[a].sent)
    BY <1>5, OnwardChunk
  <2>. QED  BY <1>1, <1>2, <2>1, KeptNow, OnwardGoes DEF Sending
<1>6. CASE cs' = IF cs[a].reqClosed # "no" THEN [cs EXCEPT ![a].pc = "await"] ELSE done(cs, a, "bodyRead")
  BY <1>3, <1>4, <1>6
<1>. DEFINE d == desc[a[1]]
            n == IF cs[a].toSend < FrameSize THEN cs[a].toSend ELSE FrameSize
            rest == cs[a].toSend - n
            over == d.decl # -1 /\ d.body - rest >= d.decl /\ (rest > 0 \/ d.body > d.decl)
<1>7. ASSUME NEW e,
             cs' = IF over THEN done(cs, a, "tooLong")
                   ELSE [cs EXCEPT ![a].toSend = rest, ![a].chunk = n, ![a].eof = e, ![a].woken = TRUE,
                                   ![a].pc = IF n > 0 THEN "flow" ELSE "end"]
      PROVE  Stops(a) \/ GoesOn(a)
  <2>. HIDE DEF over, rest, n
  <2>1. CASE over
    <3>1. cs' = done(cs, a, "tooLong")
      BY <1>7, <2>1, Zenon
    <3>. QED  BY <1>4, <3>1
  <2>2. CASE ~over
    <3>1. PICK p \in {"flow", "end"} :
            cs' = [cs EXCEPT ![a].toSend = rest, ![a].chunk = n, ![a].eof = e, ![a].woken = TRUE, ![a].pc = p]
      <4>1. cs' = [cs EXCEPT ![a].toSend = rest, ![a].chunk = n, ![a].eof = e, ![a].woken = TRUE,
                             ![a].pc = IF n > 0 THEN "flow" ELSE "end"]
        BY <1>7, <2>2, Zenon
      <4>2. (IF n > 0 THEN "flow" ELSE "end") \in {"flow", "end"}
        BY Zenon
      <4>. QED  BY <4>1, <4>2, Zenon
    <3>. QED  BY <1>5, <3>1, Zenon
  <2>. QED  BY <2>1, <2>2, Zenon
<1>8. \/ cs' = IF cs[a].reqClosed # "no" THEN [cs EXCEPT ![a].pc = "await"] ELSE done(cs, a, "bodyRead")
      \/ \E e : cs' = IF over THEN done(cs, a, "tooLong")
                      ELSE [cs EXCEPT ![a].toSend = rest, ![a].chunk = n, ![a].eof = e, ![a].woken = TRUE,
                                      ![a].pc = IF n > 0 THEN "flow" ELSE "end"]
  BY Zenon DEF readBody
<1>. HIDE DEF d, n, rest, over
<1>. QED  BY <1>6, <1>7, <1>8, Zenon

\* The request's body has ended.
LEMMA EndRequestDoes ==
  ASSUME Inv, NEW a \in Attempts, endRequest(a) PROVE Stops(a) \/ GoesOn(a)
<1>1. cs[a].pc = "end" /\ rq' = rq
  BY DEF endRequest
<1>2. cs[a].cc \in Conns /\ cs[a].pc \notin Over \cup {"none"} /\ cs[a].pc \in Sending
  BY <1>1, SenderAt DEF Over, Sending
<1>3. ASSUME NEW e, e \in {cs[a].abort, "badHeader", "write"}, cs' = done(cs, a, e), cc' = cc \/ cc' = wrote(cc, cs[a].cc)
      PROVE  Stops(a)
  <2>1. CcKept(cc, cc')
    BY <1>2, <1>3, KeptNow, WroteKept, Shaped
  <2>2. Freed(cc', a)
    BY <1>2, <2>1, KeptFreed
  <2>. QED  BY <1>1, <1>2, <1>3, <2>2, ReadyNow, DoneStops DEF OwnErrors
<1>4. ASSUME NEW s, cs' = [cs EXCEPT ![a].sentEnd = TRUE, ![a].pc = "await", ![a].sent = s], s = "ended" \/ cs[a].sent # "open", cc' = cc
      PROVE  GoesOn(a)
  <2>1. Onward(cs', a, "await", s)
    BY <1>4, OnwardEnd
  <2>. QED  BY <1>1, <1>2, <1>4, <2>1, KeptNow, OnwardGoes DEF Sending
<1>5. CASE cs[a].abort # "" \/ encodeTrailersFails(a) \/ cc[cs[a].cc].gone
  <2>1. \E e : e \in {cs[a].abort, "badHeader", "write"} /\ cs' = done(cs, a, e) /\ (cc' = cc \/ cc' = wrote(cc, cs[a].cc))
    BY <1>5, Zenon DEF endRequest
  <2>. QED  BY <1>3, <2>1, Zenon
<1>6. CASE ~(cs[a].abort # "" \/ encodeTrailersFails(a) \/ cc[cs[a].cc].gone)
  <2>1. cs' = [cs EXCEPT ![a].sentEnd = TRUE, ![a].pc = "await", ![a].sent = IF @ # "open" THEN "illegal" ELSE "ended"] /\ cc' = cc
    BY <1>6, Zenon DEF endRequest
  <2>2. cs' = [cs EXCEPT ![a].sentEnd = TRUE, ![a].pc = "await", ![a].sent = IF cs[a].sent # "open" THEN "illegal" ELSE "ended"]
    BY <2>1, Shaped, CsHas DEF IsCs, Table
  <2>3. \E s : (s = "ended" \/ cs[a].sent # "open") /\ cs' = [cs EXCEPT ![a].sentEnd = TRUE, ![a].pc = "await", ![a].sent = s]
    BY <2>2, Zenon
  <2>. QED  BY <1>4, <2>1, <2>3, Zenon
<1>. QED  BY <1>5, <1>6

\* The sender has no more to send, and waits for the peer.
LEMMA AwaitPeerDoes ==
  ASSUME Inv, NEW a \in Attempts, awaitPeer(a) PROVE Stops(a) \/ Rests
<1>1. cs[a].pc = "await" /\ rq' = rq /\ cc' = cc
  BY DEF awaitPeer
<1>2. cs[a].cc \in Conns /\ cs[a].pc \notin Over \cup {"none"}
  BY <1>1, SenderAt DEF Over
<1>3. CASE \E e \in {"", "timeout", "cancel", cs[a].abort} : cs' = done(cs, a, e)
  <2>1. Freed(cc', a)
    BY <1>1, <1>2, KeptFreed, KeptNow
  <2>. QED  BY <1>1, <1>2, <1>3, <2>1, ReadyNow, DoneStops DEF OwnErrors
<1>4. CASE cs' = [cs EXCEPT ![a].respHeaderRecv = TRUE]
  <2>1. IsCs(cs')
    BY <1>4, Shaped, CsHas DEF IsCs, Table
  <2>2. \A b \in Attempts : SendSame(cs, cs', b)
    BY <1>4, Shaped, CsHas DEF IsCs, Table, SendSame
  <2>3. \A b \in Attempts : ReadSame(cs, cs', b)
    BY <1>4, Shaped, CsHas DEF IsCs, Table, ReadSame
  <2>4. \A b \in Attempts : cs'[b].abort = cs[b].abort
    BY <1>4, Shaped, CsHas DEF IsCs, Table
  <2>. QED  BY <1>1, <2>1, <2>2, <2>3, <2>4, CcUnchanged DEF Rests, CsStill, Same
<1>5. \/ \E e \in {"", "timeout", "cancel", cs[a].abort} : cs' = done(cs, a, e)
      \/ cs' = [cs EXCEPT ![a].respHeaderRecv = TRUE]
  BY Zenon DEF awaitPeer
<1>. QED  BY <1>3, <1>4, <1>5

\* The sender waits for the window, and writes what it allows.
LEMMA AwaitFlowControlDoes ==
  ASSUME Inv, NEW a \in Attempts, awaitFlowControl(a) PROVE Stops(a) \/ GoesOn(a)
<1>. DEFINE c == cs[a].cc
            n == least({available(c, a), cs[a].chunk, FrameSize})
            last == cs[a].eof /\ n = cs[a].chunk
            end == last /\ ~desc[a[1]].trailer
<1>1. cs[a].pc = "flow" /\ rq' = rq
  BY DEF awaitFlowControl
<1>2. c \in Conns /\ cs[a].pc \notin Over \cup {"none"} /\ cs[a].pc \in Sending
  BY <1>1, SenderAt DEF Over, Sending
<1>3. ASSUME cs' = [cs EXCEPT ![a].pc = "await"], cc' = cc PROVE GoesOn(a)
  <2>1. Onward(cs', a, "await", cs[a].sent)
    BY <1>3, OnwardTo
  <2>. QED  BY <1>1, <1>2, <1>3, <2>1, KeptNow, OnwardGoes DEF Sending
<1>4. ASSUME NEW e \in {"connClosed", "write"} \cup stopErrs(a), cs' = done(cs, a, e), CcKept(cc, cc') PROVE Stops(a)
  <2>1. Freed(cc', a)
    BY <1>2, <1>4, KeptFreed
  <2>2. e \in OwnErrors \ {"unusable"} \/ e = cs[a].abort
    BY <1>4, StopErrors DEF OwnErrors
  <2>. QED  BY <1>1, <1>2, <1>4, <2>1, <2>2, ReadyNow, DoneStops
<1>5. ASSUME cs' = [cs EXCEPT ![a].woken = FALSE], cc' = cc PROVE GoesOn(a)
  <2>1. Onward(cs', a, "flow", cs[a].sent)
    <3>1. IsCs(cs')
      BY <1>5, Shaped, CsHas DEF IsCs, Table
    <3>2. \A b \in Attempts : b # a => cs'[b] = cs[b]
      BY <1>5, Shaped, CsHas DEF IsCs, Table
    <3>3. ReadSame(cs, cs', a)
      BY <1>5, Shaped, CsHas DEF IsCs, Table, ReadSame
    <3>4. SendSame(cs, cs', a) /\ cs'[a].abort = cs[a].abort
      BY <1>5, Shaped, CsHas DEF IsCs, Table, SendSame
    <3>5. \A b \in Attempts : b # a => Same(cs, cs', b)
      BY <3>2 DEF Same, SendSame, ReadSame
    <3>. QED  BY <1>1, <3>1, <3>3, <3>4, <3>5 DEF Onward, SendSame
  <2>. QED  BY <1>1, <1>2, <1>5, <2>1, KeptNow, OnwardGoes DEF Sending
<1>6. ASSUME cc' = wrote([cc EXCEPT ![c].flow = @ - n], c) PROVE CcKept(cc, cc')
  <2>1. PICK v, h : h = [cc EXCEPT ![c].flow = v] /\ cc' = wrote(h, c)
    BY <1>6, Zenon
  <2>2. h = [cc EXCEPT ![c].flow = v]
    BY <2>1
  <2>3. CcKept(cc, h)
    BY <1>2, <2>2, Shaped, OtherKept
  <2>4. CcKept(h, cc')
    BY <1>2, <2>1, <2>3, WroteKept DEF CcKept
  <2>. QED  BY <2>3, <2>4, KeptThrough
<1>8. ASSUME cs' = [cs EXCEPT ![a].flow = @ - n, ![a].chunk = @ - n, ![a].sentEnd = end,
                              ![a].sent = IF @ # "open" THEN "illegal" ELSE IF end THEN "ended" ELSE @,
                              ![a].pc = IF end THEN "await" ELSE IF last THEN "end"
                                        ELSE IF n = cs[a].chunk THEN "body" ELSE "flow"],
             CcKept(cc, cc')
      PROVE  GoesOn(a)
  <2>. HIDE DEF n
  <2>. DEFINE s == IF cs[a].sent # "open" THEN "illegal" ELSE IF end THEN "ended" ELSE cs[a].sent
              p == IF end THEN "await" ELSE IF last THEN "end" ELSE IF n = cs[a].chunk THEN "body" ELSE "flow"
  <2>1. s = cs[a].sent \/ cs[a].sent # "open" \/ (s = "ended" /\ p = "await")
    BY Zenon
  <2>2. p \in Sending \cup {"await"}
    BY Zenon DEF Sending
  <2>. HIDE DEF end, last
  <2>3. cs' = [cs EXCEPT ![a].flow = cs[a].flow - n, ![a].chunk = cs[a].chunk - n, ![a].sentEnd = end, ![a].sent = s, ![a].pc = p]
    BY <1>8, Shaped, CsHas DEF IsCs, Table
  <2>4. PICK t, k, e : cs' = [cs EXCEPT ![a].flow = t, ![a].chunk = k, ![a].sentEnd = e, ![a].sent = s, ![a].pc = p]
    BY <2>3, Zenon
  <2>. HIDE DEF s, p
  <2>5. Onward(cs', a, p, s)
    BY <2>4, OnwardData
  <2>. QED  BY <1>1, <1>2, <1>8, <2>1, <2>2, <2>5, OnwardGoes
<1>9. CcKept(cc, cc') \/ cc' # cc
  BY KeptNow
<1>10. \/ cs' = [cs EXCEPT ![a].pc = "await"] /\ cc' = cc
       \/ cs' = [cs EXCEPT ![a].woken = FALSE] /\ cc' = cc
       \/ \E e \in {"connClosed", "write"} \cup stopErrs(a) : cs' = done(cs, a, e) /\ cc' = cc
       \/ cs' = done(cs, a, "write") /\ cc' = wrote([cc EXCEPT ![c].flow = @ - n], c)
       \/ /\ cc' = wrote([cc EXCEPT ![c].flow = @ - n], c)
          /\ cs' = [cs EXCEPT ![a].flow = @ - n, ![a].chunk = @ - n, ![a].sentEnd = end,
                              ![a].sent = IF @ # "open" THEN "illegal" ELSE IF end THEN "ended" ELSE @,
                              ![a].pc = IF end THEN "await" ELSE IF last THEN "end"
                                        ELSE IF n = cs[a].chunk THEN "body" ELSE "flow"]
  BY Zenon DEF awaitFlowControl
<1>. HIDE DEF n, end, last, c
<1>11. \A e : e = "write" => e \in {"connClosed", "write"} \cup stopErrs(a)
  OBVIOUS
<1>. QED  BY <1>3, <1>4, <1>5, <1>6, <1>8, <1>9, <1>10, <1>11, Zenon

\* The request's body is closed.
LEMMA CloseReqBodyDoes ==
  ASSUME Inv, NEW a \in Attempts, closeReqBody(a) PROVE Rests
<1>1. cs' = [cs EXCEPT ![a].reqClosed = "closed"] /\ cc' = cc /\ rq' = rq
  BY DEF closeReqBody
<1>2. IsCs(cs')
  BY <1>1, Shaped, CsHas DEF IsCs, Table
<1>3. \A b \in Attempts : SendSame(cs, cs', b)
  BY <1>1, Shaped, CsHas DEF IsCs, Table, SendSame
<1>4. \A b \in Attempts : ReadSame(cs, cs', b) /\ cs'[b].abort = cs[b].abort
  BY <1>1, Shaped, CsHas DEF IsCs, Table, ReadSame
<1>. QED  BY <1>1, <1>2, <1>3, <1>4, CcUnchanged DEF Rests, CsStill, Same

\* g is cs with the sender of row a at another place of its cleanup.
Left(g, a) ==
  /\ IsCs(g) /\ \A b \in Attempts : ReadSame(cs, g, b) /\ g[b].abort = cs[b].abort /\ (b # a => SendSame(cs, g, b))
  /\ g[a].pc \in Over /\ g[a].cc = cs[a].cc /\ g[a].err = cs[a].err /\ g[a].id = cs[a].id /\ g[a].in \in {cs[a].in, FALSE}
  /\ g[a].sentHeaders = cs[a].sentHeaders /\ g[a].sent = cs[a].sent

\* A sender on its way out.
LEMMA LeftLeaves ==
  ASSUME Inv, NEW a \in Attempts, cs[a].pc \in Over, Left(cs', a), CcKept(cc, cc'), rq' = rq PROVE Leaves(a)
BY CcKeptStill DEF Left, Leaves, AbortStep

\* cleanupWriteRequest begins.
LEMMA CleanupWriteRequestDoes ==
  ASSUME Inv, NEW a \in Attempts, cleanupWriteRequest(a) PROVE Leaves(a)
<1>1. cs[a].pc = "cleanup" /\ rq' = rq /\ (cc' = cc \/ cc' = decrStreamReservations(cc, cs[a].cc))
  BY DEF cleanupWriteRequest
<1>2. cs[a].cc \in Conns /\ cs[a].pc \in Over
  BY <1>1, SenderAt DEF Over
<1>3. PICK v : cs' = [cs EXCEPT ![a].pc = "settle", ![a].reqClosed = v]
  BY Zenon DEF cleanupWriteRequest
<1>4. IsCs(cs')
  BY <1>3, Shaped, CsHas DEF IsCs, Table
<1>5. \A b \in Attempts : b # a => cs'[b] = cs[b]
  BY <1>3, Shaped, CsHas DEF IsCs, Table
<1>6. ReadSame(cs, cs', a) /\ cs'[a].abort = cs[a].abort
  BY <1>3, Shaped, CsHas DEF IsCs, Table, ReadSame
<1>7. cs'[a].pc = "settle" /\ cs'[a].cc = cs[a].cc /\ cs'[a].err = cs[a].err /\ cs'[a].id = cs[a].id
  BY <1>3, Shaped, CsHas DEF IsCs, Table
<1>8. cs'[a].in = cs[a].in /\ cs'[a].sentHeaders = cs[a].sentHeaders /\ cs'[a].sent = cs[a].sent
  BY <1>3, Shaped, CsHas DEF IsCs, Table
<1>9. \A b \in Attempts : ReadSame(cs, cs', b) /\ cs'[b].abort = cs[b].abort /\ (b # a => SendSame(cs, cs', b))
  BY <1>5, <1>6 DEF ReadSame, SendSame
<1>10. Left(cs', a)
  BY <1>4, <1>7, <1>8, <1>9 DEF Left, Over
<1>11. CcKept(cc, cc')
  BY <1>1, <1>2, KeptNow, Shaped, DecrKept
<1>. QED  BY <1>1, <1>2, <1>10, <1>11, LeftLeaves

\* The stream leaves the connection's map.
LEMMA ForgetStreamIDDoes ==
  ASSUME Inv, NEW a \in Attempts, forgetStreamID(a) PROVE Leaves(a)
<1>1. cs[a].pc = "forget" /\ rq' = rq
  BY DEF forgetStreamID
<1>2. cs[a].cc \in Conns /\ cs[a].pc \in Over
  BY <1>1, SenderAt DEF Over
<1>3. PICK g : /\ g = [cs EXCEPT ![a].in = FALSE, ![a].pc = "finish"]
               /\ cs' = g \/ cs' = Broadcast(g, cs[a].cc)
  BY Zenon DEF forgetStreamID
<1>0. g = [cs EXCEPT ![a].in = FALSE, ![a].pc = "finish"]
  BY <1>3
<1>4. IsCs(g)
  BY <1>0, Shaped, CsHas DEF IsCs, Table
<1>5. \A b \in Attempts : b # a => g[b] = cs[b]
  BY <1>0, Shaped, CsHas DEF IsCs, Table
<1>6. ReadSame(cs, g, a) /\ g[a].abort = cs[a].abort
  BY <1>0, Shaped, CsHas DEF IsCs, Table, ReadSame
<1>7. g[a].pc = "finish" /\ g[a].cc = cs[a].cc /\ g[a].err = cs[a].err /\ g[a].id = cs[a].id
  BY <1>0, Shaped, CsHas DEF IsCs, Table
<1>8. g[a].in = FALSE /\ g[a].sentHeaders = cs[a].sentHeaders /\ g[a].sent = cs[a].sent
  BY <1>0, Shaped, CsHas DEF IsCs, Table
<1>9. \A b \in Attempts : ReadSame(cs, g, b) /\ g[b].abort = cs[b].abort /\ (b # a => SendSame(cs, g, b))
  BY <1>5, <1>6 DEF ReadSame, SendSame
<1>10. IsCs(cs') /\ \A b \in Attempts : Same(g, cs', b)
  <2>1. CASE cs' = g
    BY <1>4, <2>1 DEF Same, SendSame, ReadSame
  <2>2. CASE cs' = Broadcast(g, cs[a].cc)
    BY <1>4, <2>2, BroadcastWakes
  <2>. QED  BY <1>3, <2>1, <2>2
<1>11. \A b \in Attempts : SendSame(g, cs', b) /\ ReadSame(g, cs', b) /\ cs'[b].abort = g[b].abort
  BY <1>10 DEF Same
<1>12. \A b \in Attempts : ReadSame(cs, cs', b) /\ cs'[b].abort = cs[b].abort
  BY <1>9, <1>11 DEF ReadSame
<1>13. \A b \in Attempts : b # a => SendSame(cs, cs', b)
  BY <1>9, <1>11 DEF SendSame
<1>14. SendSame(g, cs', a)
  BY <1>11
<1>15. Left(cs', a)
  BY <1>7, <1>8, <1>10, <1>12, <1>13, <1>14 DEF Left, Over, SendSame
<1>16. CcKept(cc, cc')
  <2>1. CASE cs[a].id = 0
    BY <2>1, KeptNow DEF forgetStreamID
  <2>2. CASE cs[a].id # 0
    <3>. DEFINE c == cs[a].cc
                last == streams([cs EXCEPT ![a].in = FALSE, ![a].pc = "finish"], c) = {}
                closes == /\ last /\ cc[c].reserved = 0
                          /\ cc[c].single \/ cc[c].noReuse \/ "noKeepAlives" \in may \/ cc[c].goAway # -1
    <3>0. cc' = [cc EXCEPT ![c].closed = @ \/ closes, ![c].gone = @ \/ closes,
                           ![c].timer = IF last THEN "idleTimeout" \in may ELSE @,
                           ![c].idle = IF last /\ "idleTimeout" \in may THEN "idle" ELSE @]
      BY <2>2, Zenon DEF forgetStreamID
    <3>. HIDE DEF last, closes
    <3>1. PICK u, v, w, x : cc' = [cc EXCEPT ![c].closed = u, ![c].gone = v, ![c].timer = w, ![c].idle = x]
      BY <3>0, Zenon
    <3>. HIDE DEF c
    <3>2. c \in Conns
      BY <1>2 DEF c
    <3>3. IsCc(cc')
      BY <3>1, <3>2, Shaped, CcHas DEF IsCc, Table
    <3>4. \A d \in Conns : d # c => cc'[d] = cc[d]
      BY <3>1, <3>2, Shaped, CcHas DEF IsCc, Table
    <3>5. cc'[c].next = cc[c].next /\ cc'[c].lastHdr = cc[c].lastHdr /\ cc'[c].hdrMu = cc[c].hdrMu /\ cc'[c].goAway = cc[c].goAway
      BY <3>1, <3>2, Shaped, CcHas DEF IsCc, Table
    <3>6. cc'[c].avail = cc[c].avail /\ cc'[c].unsent = cc[c].unsent /\ cc'[c].lost = cc[c].lost
      BY <3>1, <3>2, Shaped, CcHas DEF IsCc, Table
    <3>. QED  BY <3>3, <3>4, <3>5, <3>6 DEF CcKept, CcSame, MuxSame, WinSame
  <2>. QED  BY <2>1, <2>2
<1>. QED  BY <1>1, <1>2, <1>15, <1>16, LeftLeaves

\* closeForError: the connection is closed and its streams fail.
LEMMA CloseForErrorDoes ==
  ASSUME Inv, NEW g, IsCs(g), NEW c \in Conns, closeForError(g, c)
  PROVE  CcKept(cc, cc') /\ Failed(g, cs', streams(g, c), "conn")
<1>1. cc' = [cc EXCEPT ![c].closed = TRUE, ![c].gone = TRUE] /\ cs' = abortAll(g, c, streams(g, c), "conn")
  BY DEF closeForError
<1>2. streams(g, c) \subseteq Attempts
  BY DEF streams
<1>3. CcKept(cc, cc')
  BY <1>1, Shaped, OtherKept
<1>. QED  BY <1>1, <1>2, <1>3, AbortAllRow

\* The sender is done, and its connection may be closed.
LEMMA FinishDoes ==
  ASSUME Inv, NEW a \in Attempts, finish(a) PROVE Leaves(a)
<1>1. cs[a].pc = "finish" /\ rq' = rq
  BY DEF finish
<1>2. cs[a].cc \in Conns /\ cs[a].pc \in Over
  BY <1>1, SenderAt DEF Over
<1>3. PICK g : g = [cs EXCEPT ![a].pc = "done", ![a].donec = TRUE] /\ (closeForError(g, cs[a].cc) \/ (cs' = g /\ cc' = cc))
  BY Zenon DEF finish
<1>0. g = [cs EXCEPT ![a].pc = "done", ![a].donec = TRUE]
  BY <1>3
<1>4. IsCs(g)
  BY <1>0, Shaped, CsHas DEF IsCs, Table
<1>5. \A b \in Attempts : b # a => g[b] = cs[b]
  BY <1>0, Shaped, CsHas DEF IsCs, Table
<1>6. ReadSame(cs, g, a) /\ g[a].abort = cs[a].abort
  BY <1>0, Shaped, CsHas DEF IsCs, Table, ReadSame
<1>7. g[a].pc = "done" /\ g[a].cc = cs[a].cc /\ g[a].err = cs[a].err /\ g[a].id = cs[a].id
  BY <1>0, Shaped, CsHas DEF IsCs, Table
<1>8. g[a].in = cs[a].in /\ g[a].sentHeaders = cs[a].sentHeaders /\ g[a].sent = cs[a].sent
  BY <1>0, Shaped, CsHas DEF IsCs, Table
<1>9. \A b \in Attempts : ReadSame(cs, g, b) /\ g[b].abort = cs[b].abort /\ (b # a => SendSame(cs, g, b))
  BY <1>5, <1>6 DEF ReadSame, SendSame
<1>10. CASE cs' = g /\ cc' = cc
  <2>1. Left(cs', a)
    BY <1>4, <1>7, <1>8, <1>9, <1>10 DEF Left, Over
  <2>. QED  BY <1>1, <1>2, <1>10, <2>1, KeptNow, LeftLeaves
<1>11. CASE closeForError(g, cs[a].cc)
  <2>1. CcKept(cc, cc') /\ Failed(g, cs', streams(g, cs[a].cc), "conn")
    BY <1>2, <1>4, <1>11, CloseForErrorDoes
  <2>2. /\ IsCs(cs') /\ \A b \in Attempts : SendSame(g, cs', b) /\ ReadSame(g, cs', b)
        /\ \A b \in Attempts : cs'[b].abort = g[b].abort \/ (g[b].abort = "" /\ cs'[b].abort = "conn")
    BY <2>1 DEF Failed
  <2>3. ASSUME NEW b \in Attempts PROVE ReadSame(cs, cs', b)
    <3>1. ReadSame(cs, g, b) /\ ReadSame(g, cs', b)
      BY <1>9, <2>2
    <3>. QED  BY <3>1 DEF ReadSame
  <2>4. ASSUME NEW b \in Attempts, b # a PROVE SendSame(cs, cs', b)
    <3>1. SendSame(cs, g, b) /\ SendSame(g, cs', b)
      BY <1>9, <2>2, <2>4
    <3>. QED  BY <3>1 DEF SendSame
  <2>5. \A b \in Attempts : AbortStep(b, Plain)
    BY <1>9, <2>2 DEF AbortStep, Plain
  <2>6. SendSame(g, cs', a)
    BY <2>2
  <2>7. CcStill /\ Even
    BY <2>1, CcKeptStill
  <2>8. /\ cs'[a].pc = "done" /\ cs'[a].cc = cs[a].cc /\ cs'[a].err = cs[a].err /\ cs'[a].id = cs[a].id
        /\ cs'[a].in = cs[a].in /\ cs'[a].sentHeaders = cs[a].sentHeaders /\ cs'[a].sent = cs[a].sent
    BY <1>7, <1>8, <2>6 DEF SendSame
  <2>. QED  BY <1>1, <1>2, <2>2, <2>3, <2>4, <2>5, <2>7, <2>8 DEF Leaves, Over
<1>. QED  BY <1>3, <1>10, <1>11

\* A step of the cleanup that leaves the pipe and the failure of the stream.
LEMMA SettledResets ==
  ASSUME Inv, NEW a \in Attempts, cs[a].pc \in Over, NEW p \in Over,
         NEW e \in {"", cs[a].err}, NEW s \in {cs[a].sent, "reset"},
         cs' = [cs EXCEPT ![a].pc = p, ![a].err = e, ![a].sent = s], CcKept(cc, cc'), rq' = rq
  PROVE  Resets(a)
<1>1. IsCs(cs')
  BY Shaped, CsHas DEF IsCs, Table
<1>2. \A b \in Attempts : b # a => cs'[b] = cs[b]
  BY Shaped, CsHas DEF IsCs, Table
<1>3. RowsBut(a)
  BY <1>1, <1>2 DEF RowsBut, Same, SendSame, ReadSame
<1>4. ReadSame(cs, cs', a) /\ cs'[a].abort = cs[a].abort
  BY Shaped, CsHas DEF IsCs, Table, ReadSame
<1>5. cs'[a].pc = p /\ cs'[a].err = e /\ cs'[a].sent = s /\ cs'[a].cc = cs[a].cc
  BY Shaped, CsHas DEF IsCs, Table
<1>6. cs'[a].id = cs[a].id /\ cs'[a].in = cs[a].in /\ cs'[a].sentHeaders = cs[a].sentHeaders
  BY Shaped, CsHas DEF IsCs, Table
<1>7. CcStill /\ Even
  BY CcKeptStill
<1>. QED  BY <1>3, <1>4, <1>5, <1>6, <1>7 DEF Resets, ReadSame, AbortStep

\* The cleanup looks whether both sides ended the stream.
LEMMA SettleErrorDoes ==
  ASSUME Inv, NEW a \in Attempts, settleError(a) PROVE Resets(a)
<1>1. cs[a].pc = "settle" /\ rq' = rq /\ cc' = cc
  BY DEF settleError
<1>2. CcKept(cc, cc')
  BY <1>1, KeptNow
<1>3. PICK p \in {"rst", "abort"}, e \in {"", cs[a].err} : cs' = [cs EXCEPT ![a].pc = p, ![a].err = e]
  BY Zenon DEF settleError
<1>4. cs' = [cs EXCEPT ![a].pc = p, ![a].err = e, ![a].sent = cs[a].sent]
  BY <1>3, Shaped, CsHas DEF IsCs, Table
<1>5. cs[a].pc \in Over /\ p \in Over
  BY <1>1 DEF Over
<1>. QED  BY <1>1, <1>2, <1>4, <1>5, SettledResets

\* It resets a stream that has not ended both ways.
LEMMA WriteStreamResetDoes ==
  ASSUME Inv, NEW a \in Attempts, writeStreamReset(a) PROVE Resets(a)
<1>1. cs[a].pc = "rst" /\ rq' = rq /\ (cc' = cc \/ cc' = wrote(cc, cs[a].cc))
  BY Zenon DEF writeStreamReset
<1>2. cs[a].cc \in Conns /\ cs[a].pc \in Over /\ "pipe" \in Over
  BY <1>1, SenderAt DEF Over
<1>3. CcKept(cc, cc')
  BY <1>1, <1>2, KeptNow, Shaped, WroteKept
<1>4. PICK s : /\ s \in {cs[a].sent, "reset"}
               /\ cs' = [cs EXCEPT ![a].pc = "pipe", ![a].sent = s]
  <2>1. PICK reset : cs' = [cs EXCEPT ![a].pc = "pipe", ![a].sent = IF reset /\ @ # "illegal" THEN "reset" ELSE @]
    BY Zenon DEF writeStreamReset
  <2>2. cs' = [cs EXCEPT ![a].pc = "pipe", ![a].sent = IF reset /\ cs[a].sent # "illegal" THEN "reset" ELSE cs[a].sent]
    BY <2>1, Shaped, CsHas DEF IsCs, Table
  <2>. QED  BY <2>2, Zenon
<1>5. cs' = [cs EXCEPT ![a].pc = "pipe", ![a].err = cs[a].err, ![a].sent = s]
  BY <1>4, Shaped, CsHas DEF IsCs, Table
<1>. QED  BY <1>1, <1>2, <1>3, <1>4, <1>5, SettledResets

\* What the two other steps of the cleanup begin with.
Moved(g, a, p) ==
  /\ IsCs(g) /\ \A b \in Attempts : b # a => g[b] = cs[b]
  /\ ReadSame(cs, g, a) /\ g[a].abort = cs[a].abort /\ g[a].pc = p
  /\ g[a].err = cs[a].err /\ g[a].sent = cs[a].sent /\ g[a].cc = cs[a].cc
  /\ g[a].id = cs[a].id /\ g[a].in = cs[a].in /\ g[a].sentHeaders = cs[a].sentHeaders

\* Only the place of the sender changes.
LEMMA PcMoved ==
  ASSUME Inv, NEW a \in Attempts, NEW p, NEW g, g = [cs EXCEPT ![a].pc = p]
  PROVE  Moved(g, a, p)
<1>1. IsCs(g)
  BY Shaped, CsHas DEF IsCs, Table
<1>2. \A b \in Attempts : b # a => g[b] = cs[b]
  BY Shaped, CsHas DEF IsCs, Table
<1>3. ReadSame(cs, g, a) /\ g[a].abort = cs[a].abort
  BY Shaped, CsHas DEF IsCs, Table, ReadSame
<1>4. g[a].pc = p /\ g[a].err = cs[a].err /\ g[a].sent = cs[a].sent /\ g[a].cc = cs[a].cc
  BY Shaped, CsHas DEF IsCs, Table
<1>5. g[a].id = cs[a].id /\ g[a].in = cs[a].in /\ g[a].sentHeaders = cs[a].sentHeaders
  BY Shaped, CsHas DEF IsCs, Table
<1>. QED  BY <1>1, <1>2, <1>3, <1>4, <1>5, Zenon DEF Moved

\* It fails its own stream, which may have failed already.
LEMMA AbortOwnStreamDoes ==
  ASSUME Inv, NEW a \in Attempts, abortOwnStream(a) PROVE Resets(a)
<1>1. cs[a].pc = "abort" /\ rq' = rq /\ cc' = cc
  BY DEF abortOwnStream
<1>2. cs[a].pc \in Over /\ "rst" \in Over
  BY <1>1 DEF Over
<1>3. PICK g : g = [cs EXCEPT ![a].pc = "rst"] /\ cs' = abortStream(g, a, cs[a].err)
  BY Zenon DEF abortOwnStream
<1>4. /\ IsCs(g) /\ \A b \in Attempts : b # a => g[b] = cs[b]
      /\ ReadSame(cs, g, a) /\ g[a].abort = cs[a].abort /\ g[a].pc = "rst"
      /\ g[a].err = cs[a].err /\ g[a].sent = cs[a].sent /\ g[a].cc = cs[a].cc
      /\ g[a].id = cs[a].id /\ g[a].in = cs[a].in /\ g[a].sentHeaders = cs[a].sentHeaders
  <2>1. Moved(g, a, "rst")
    BY <1>3, PcMoved, Zenon
  <2>. QED  BY <2>1, Zenon DEF Moved
<1>5. Failed(g, cs', {a}, cs[a].err)
  BY <1>3, <1>4, AbortStreamRow
<1>6. RowsBut(a)
  <2>1. ASSUME NEW b \in Attempts, b # a PROVE Same(cs, cs', b)
    <3>1. Same(g, cs', b)
      BY <1>5, <2>1 DEF Failed, Same
    <3>2. g[b] = cs[b]
      BY <1>4, <2>1
    <3>. QED  BY <3>1, <3>2 DEF Same, SendSame, ReadSame
  <2>. QED  BY <1>5, <2>1 DEF Failed, RowsBut
<1>7. AbortStep(a, {cs'[a].err})
  BY <1>4, <1>5 DEF Failed, SendSame, AbortStep
<1>8. ReadSame(cs, cs', a)
  BY <1>4, <1>5 DEF Failed, ReadSame
<1>9. /\ cs'[a].pc = "rst" /\ cs'[a].err = cs[a].err /\ cs'[a].sent = cs[a].sent /\ cs'[a].cc = cs[a].cc
      /\ cs'[a].id = cs[a].id /\ cs'[a].in = cs[a].in /\ cs'[a].sentHeaders = cs[a].sentHeaders
  BY <1>4, <1>5 DEF Failed, SendSame
<1>10. CcStill /\ Even
  BY <1>1, KeptNow, CcKeptStill
<1>. QED  BY <1>1, <1>2, <1>6, <1>7, <1>8, <1>9, <1>10 DEF Resets, ReadSame

\* It ends the pipe of the response's body.
LEMMA CloseBufPipeDoes ==
  ASSUME Inv, NEW a \in Attempts, closeBufPipe(a) PROVE Resets(a)
<1>1. cs[a].pc = "pipe" /\ rq' = rq /\ cc' = cc
  BY DEF closeBufPipe
<1>2. cs[a].pc \in Over /\ "forget" \in Over
  BY <1>1 DEF Over
<1>3. PICK g, d : /\ g = [cs EXCEPT ![a].pc = "forget"] /\ cs' = pipeClosed(g, a, d)
                  /\ d # "" /\ d \in {"canceled", cs[a].err}
  BY Zenon DEF closeBufPipe
<1>4. /\ IsCs(g) /\ \A b \in Attempts : b # a => g[b] = cs[b]
      /\ ReadSame(cs, g, a) /\ g[a].abort = cs[a].abort /\ g[a].pc = "forget"
      /\ g[a].err = cs[a].err /\ g[a].sent = cs[a].sent /\ g[a].cc = cs[a].cc
      /\ g[a].id = cs[a].id /\ g[a].in = cs[a].in /\ g[a].sentHeaders = cs[a].sentHeaders
  <2>1. Moved(g, a, "forget")
    BY <1>3, PcMoved, Zenon
  <2>. QED  BY <2>1, Zenon DEF Moved
<1>5. PipeEnded(g, cs', a, d)
  BY <1>3, <1>4, PipeClosedRow
<1>6. RowsBut(a)
  <2>1. ASSUME NEW b \in Attempts, b # a PROVE Same(cs, cs', b)
    <3>1. Same(g, cs', b)
      BY <1>5, <2>1 DEF PipeEnded
    <3>2. g[b] = cs[b]
      BY <1>4, <2>1
    <3>. QED  BY <3>1, <3>2 DEF Same, SendSame, ReadSame
  <2>. QED  BY <1>5, <2>1 DEF PipeEnded, RowsBut
<1>7. /\ cs'[a].pc = "forget" /\ cs'[a].err = cs[a].err /\ cs'[a].sent = cs[a].sent /\ cs'[a].cc = cs[a].cc
      /\ cs'[a].id = cs[a].id /\ cs'[a].in = cs[a].in /\ cs'[a].sentHeaders = cs[a].sentHeaders
  BY <1>4, <1>5 DEF PipeEnded, SendSame
<1>8. AbortStep(a, {cs'[a].err})
  BY <1>4, <1>5 DEF PipeEnded, AbortStep
<1>9. cs'[a].pipeErr = IF cs[a].pipeErr = "" THEN d ELSE cs[a].pipeErr
  BY <1>4, <1>5 DEF PipeEnded, ReadSame
<1>10. /\ cs'[a].peerClosed = cs[a].peerClosed /\ cs'[a].resp = cs[a].resp /\ cs'[a].buf = cs[a].buf
       /\ cs'[a].fed = cs[a].fed /\ cs'[a].pastHeaders = cs[a].pastHeaders /\ cs'[a].remain = cs[a].remain
       /\ cs'[a].whole = cs[a].whole /\ cs'[a].early = cs[a].early
  BY <1>4, <1>5 DEF PipeEnded, ReadSame
<1>11. \/ cs'[a].pipeErr = cs[a].pipeErr
       \/ cs[a].pipeErr = "" /\ cs'[a].pipeErr \in {"canceled", cs'[a].err} /\ cs'[a].pipeErr # ""
  BY <1>3, <1>7, <1>9
<1>12. CcStill /\ Even
  BY <1>1, KeptNow, CcKeptStill
<1>. QED  BY <1>1, <1>2, <1>6, <1>7, <1>8, <1>10, <1>11, <1>12 DEF Resets

----------------------------------------------------------------------------
(* The steps of the program: the read loop of a connection *)

\* The next frame of a server.
LEMMA NextFrame ==
  ASSUME Inv, NEW c \in Conns, left[c] # <<>> PROVE frame(c) \in Frame /\ Tail(left[c]) \in Seq(Frame)
<1>1. left[c] \in Seq(Frame)
  BY DEF Inv, Shapes
<1>. QED  BY <1>1 DEF frame

\* A stream that frames name is one of the connection's.
LEMMA StreamFound ==
  ASSUME NEW c, NEW id, NEW a, a = streamByID(c, id), a # None
  PROVE  a \in Attempts /\ cs[a].cc = c /\ cs[a].in /\ cs[a].id = id
<1>. DEFINE found == {b \in streams(cs, c) : cs[b].id = id /\ ~cs[b].readAborted}
<1>1. found # {} /\ a = CHOOSE b \in found : TRUE
  BY Zenon DEF streamByID
<1>2. a \in found
  <2>. HIDE DEF found
  <2>. QED  BY <1>1
<1>. QED  BY <1>2 DEF streams

\* A frame is taken from those to come.
LEMMA ConsumedAround ==
  ASSUME Inv, NEW c \in Conns, left[c] # <<>>, consumed(c),
         pool' \in Seq(Conns), rl' \in [Conns -> Attempts \cup {None}]
  PROVE  Around
<1>1. left' = [left EXCEPT ![c] = Tail(left[c])]
  BY DEF consumed
<1>2. left \in [Conns -> Seq(Frame)] /\ Tail(left[c]) \in Seq(Frame)
  BY NextFrame DEF Inv, Shapes
<1>3. left' \in [Conns -> Seq(Frame)]
  BY <1>1, <1>2
<1>4. \A d \in Conns : left'[d] \in {left[d], Tail(left[d]), <<>>}
  BY <1>1, <1>2
<1>. QED  BY <1>3, <1>4 DEF Around

\* rl names one stream, or none.
LEMMA LoopType ==
  ASSUME Inv, NEW c \in Conns, NEW v \in Attempts \cup {None},
         rl' = rl \/ rl' = [rl EXCEPT ![c] = v]
  PROVE  rl' \in [Conns -> Attempts \cup {None}]
<1>1. rl \in [Conns -> Attempts \cup {None}]
  BY DEF Inv, Shapes
<1>. QED  BY <1>1

\* The pool has connections in it.
LEMMA PoolType ==
  ASSUME Inv, NEW c \in Conns, pool' = pool \/ MarkDead(c) \/ pool' = Append(pool, c)
  PROVE  pool' \in Seq(Conns)
<1>1. pool \in Seq(Conns)
  BY DEF Inv, Shapes
<1>2. RemoveFirst(pool, c) \in Seq(Conns)
  BY <1>1, RemoveFirstType
<1>. QED  BY <1>1, <1>2 DEF MarkDead

\* endOfLoop: streams that the server has not ended fail.
LEMMA EndOfLoopDoes ==
  ASSUME Inv, NEW c \in Conns, endOfLoop(c) PROVE Fails /\ Around
<1>1. /\ MarkDead(c) /\ cc' = [cc EXCEPT ![c].closed = TRUE, ![c].gone = TRUE, ![c].readerDone = TRUE, ![c].timer = FALSE]
      /\ cs' = abortAll(cs, c, {a \in streams(cs, c) : ~cs[a].peerClosed}, "conn")
      /\ left' = [left EXCEPT ![c] = <<>>] /\ rl' = rl /\ rq' = rq
  BY DEF endOfLoop
<1>2. CcKept(cc, cc')
  <2>3. IsCc(cc')
    BY <1>1, Shaped, CcHas DEF IsCc, Table
  <2>4. \A d \in Conns : d # c => cc'[d] = cc[d]
    BY <1>1, Shaped, CcHas DEF IsCc, Table
  <2>5. cc'[c].next = cc[c].next /\ cc'[c].lastHdr = cc[c].lastHdr /\ cc'[c].hdrMu = cc[c].hdrMu /\ cc'[c].goAway = cc[c].goAway
    BY <1>1, Shaped, CcHas DEF IsCc, Table
  <2>6. cc'[c].avail = cc[c].avail /\ cc'[c].unsent = cc[c].unsent /\ cc'[c].lost = cc[c].lost
    BY <1>1, Shaped, CcHas DEF IsCc, Table
  <2>. QED  BY <2>3, <2>4, <2>5, <2>6 DEF CcKept, CcSame, MuxSame, WinSame
<1>3. PICK S : S = {a \in streams(cs, c) : ~cs[a].peerClosed}
  BY Zenon
<1>4. S \subseteq Attempts
  BY <1>3 DEF streams
<1>5. Failed(cs, cs', S, "conn")
  BY <1>1, <1>3, <1>4, Shaped, AbortAllRow
<1>6. RowsFail
  BY <1>5, FailedRows DEF Plain
<1>7. left \in [Conns -> Seq(Frame)]
  BY DEF Inv, Shapes
<1>8. left' \in [Conns -> Seq(Frame)] /\ \A d \in Conns : left'[d] \in {left[d], Tail(left[d]), <<>>}
  BY <1>1, <1>7
<1>9. pool' \in Seq(Conns)
  BY <1>1, PoolType
<1>10. rl' \in [Conns -> Attempts \cup {None}]
  BY <1>1 DEF Inv, Shapes
<1>. QED  BY <1>1, <1>2, <1>6, <1>8, <1>9, <1>10, CcKeptStill DEF Fails, Around

\* The read loop of a connection ends.
LEMMA ReadFailsDoes ==
  ASSUME Inv, NEW c \in Conns, readFails(c) PROVE Fails /\ Around
BY EndOfLoopDoes DEF readFails

\* A frame without effect.
LEMMA IgnoredDoes ==
  ASSUME Inv, NEW c \in Conns, left[c] # <<>>, ignored(c) PROVE Rests /\ Around
<1>1. consumed(c) /\ cc' = cc /\ cs' = cs /\ rq' = rq /\ pool' = pool /\ rl' = rl
  BY DEF ignored
<1>2. pool' \in Seq(Conns) /\ rl' \in [Conns -> Attempts \cup {None}]
  BY <1>1 DEF Inv, Shapes
<1>. QED  BY <1>1, <1>2, CsUnchanged, CcUnchanged, ConsumedAround DEF Rests

\* A stream that fails after a change of its row that does not count.
LEMMA StreamErrorDoes ==
  ASSUME Inv, NEW c \in Conns, left[c] # <<>>, NEW a \in Attempts, NEW e \in Plain, streamError(c, a, e)
  PROVE  Fails /\ Around
<1>1. consumed(c) /\ cc' = cc /\ rq' = rq /\ pool' = pool /\ rl' = rl
  BY DEF streamError
<1>2. PICK h : h = [cs EXCEPT ![a].readAborted = TRUE] /\ cs' = abortStream(h, a, e)
  BY Zenon DEF streamError
<1>3. h = [cs EXCEPT ![a].readAborted = TRUE]
  BY <1>2
<1>4. IsCs(h)
  BY <1>3, Shaped, CsHas DEF IsCs, Table
<1>5. \A b \in Attempts : SendSame(cs, h, b)
  BY <1>3, Shaped, CsHas DEF IsCs, Table, SendSame
<1>6. \A b \in Attempts : ReadSame(cs, h, b) /\ h[b].abort = cs[b].abort
  BY <1>3, Shaped, CsHas DEF IsCs, Table, ReadSame
<1>7. Failed(h, cs', {a}, e)
  BY <1>2, <1>4, AbortStreamRow
<1>8. ASSUME NEW b \in Attempts PROVE SendSame(cs, cs', b) /\ ReadSame(cs, cs', b)
  <2>1. SendSame(cs, h, b) /\ ReadSame(cs, h, b) /\ SendSame(h, cs', b) /\ ReadSame(h, cs', b)
    BY <1>5, <1>6, <1>7 DEF Failed
  <2>2. SendSame(cs, cs', b)
    BY <2>1 DEF SendSame
  <2>3. ReadSame(cs, cs', b)
    BY <2>1 DEF ReadSame
  <2>. QED  BY <2>2, <2>3
<1>9. \A b \in Attempts : AbortStep(b, Plain)
  BY <1>6, <1>7 DEF Failed, AbortStep
<1>10. RowsFail
  BY <1>7, <1>8, <1>9 DEF RowsFail, Failed
<1>11. pool' \in Seq(Conns) /\ rl' \in [Conns -> Attempts \cup {None}]
  BY <1>1 DEF Inv, Shapes
<1>. QED  BY <1>1, <1>10, <1>11, CcUnchanged, ConsumedAround DEF Fails

\* A frame of unknown type.
LEMMA UnknownFrameDoes ==
  ASSUME Inv, NEW c \in Conns, unknownFrame(c) PROVE Rests /\ Around
<1>1. left[c] # <<>> /\ ignored(c)
  BY DEF unknownFrame, reads
<1>. QED  BY <1>1, IgnoredDoes

\* A frame the framer refuses.
LEMMA BadFrameDoes ==
  ASSUME Inv, NEW c \in Conns, badFrame(c) PROVE (Rests \/ Fails) /\ Around
<1>. DEFINE a == streamByID(c, frame(c).id)
<1>1. left[c] # <<>> /\ IF a = None THEN ignored(c) ELSE streamError(c, a, "proto")
  BY DEF badFrame, reads
<1>2. CASE a = None
  BY <1>1, <1>2, IgnoredDoes
<1>3. CASE a # None
  <2>1. a \in Attempts
    BY <1>3, StreamFound
  <2>2. streamError(c, a, "proto")
    BY <1>1, <1>3
  <2>. HIDE DEF a
  <2>. QED  BY <1>1, <2>1, <2>2, StreamErrorDoes DEF Plain
<1>. QED  BY <1>2, <1>3

\* Trailers, and what an informational response changes.
LEMMA RowRests ==
  ASSUME Inv, NEW a \in Attempts, NEW v, cs' = [cs EXCEPT ![a].pastTrailers = v] \/ cs' = [cs EXCEPT ![a].num1xx = v]
  PROVE  CsStill
<1>1. IsCs(cs')
  BY Shaped, CsHas DEF IsCs, Table
<1>2. \A b \in Attempts : b # a => cs'[b] = cs[b]
  BY Shaped, CsHas DEF IsCs, Table
<1>3. SendSame(cs, cs', a)
  BY Shaped, CsHas DEF IsCs, Table, SendSame
<1>4. ReadSame(cs, cs', a) /\ cs'[a].abort = cs[a].abort
  BY Shaped, CsHas DEF IsCs, Table, ReadSame
<1>. QED  BY <1>1, <1>2, <1>3, <1>4 DEF CsStill, Same, SendSame, ReadSame

\* HEADERS after the response's.
LEMMA ProcessTrailersDoes ==
  ASSUME Inv, NEW c \in Conns, left[c] # <<>>, NEW a \in Attempts, processTrailers(c, a) PROVE (Rests \/ Fails) /\ Around
<1>1. CASE endOfLoop(c)
  BY <1>1, EndOfLoopDoes
<1>2. CASE ~endOfLoop(c)
  <2>1. /\ cs' = [cs EXCEPT ![a].pastTrailers = TRUE] /\ rl' = [rl EXCEPT ![c] = a] /\ consumed(c)
        /\ cc' = cc /\ rq' = rq /\ pool' = pool
    BY <1>2 DEF processTrailers
  <2>2. CsStill
    BY <2>1, RowRests
  <2>3. rl' \in [Conns -> Attempts \cup {None}]
    BY <2>1, LoopType
  <2>4. pool' \in Seq(Conns)
    BY <2>1, PoolType
  <2>. QED  BY <2>1, <2>2, <2>3, <2>4, CcUnchanged, ConsumedAround DEF Rests
<1>. QED  BY <1>1, <1>2

\* HEADERS of the response, final or 1xx.
LEMMA HandleResponseDoes ==
  ASSUME Inv, NEW c \in Conns, left[c] # <<>>, NEW a \in Attempts, cs[a].in, ~cs[a].pastHeaders, handleResponse(c, a)
  PROVE  Responds(a) /\ Around
<1>. DEFINE f == frame(c)
            resp == IF desc[a[1]].head THEN "noBody"
                    ELSE IF ~f.end THEN "body" ELSE IF f.decl > 0 THEN "missing" ELSE "noBody"
<1>1. /\ cs' = [cs EXCEPT ![a].pastHeaders = TRUE, ![a].resp = resp, ![a].remain = f.decl,
                          ![a].redirect = f.status = "redirect", ![a].early = cs[a].abort = ""]
      /\ rl' = [rl EXCEPT ![c] = IF f.end THEN a ELSE None]
      /\ consumed(c) /\ cc' = cc /\ rq' = rq /\ pool' = pool
  BY Zenon DEF handleResponse
<1>2. f.decl \in Nat \cup {-1}
  BY NextFrame DEF Frame
<1>3. resp # "none" /\ (resp = "missing" => f.decl > 0)
  BY Zenon
<1>. HIDE DEF resp
<1>4. PICK t, s, m, x : /\ t = resp /\ m = f.decl /\ x = (cs[a].abort = "")
                        /\ cs' = [cs EXCEPT ![a].pastHeaders = TRUE, ![a].resp = t, ![a].remain = m, ![a].redirect = s, ![a].early = x]
  BY <1>1, Zenon
<1>5. cs' = [cs EXCEPT ![a].pastHeaders = TRUE, ![a].resp = t, ![a].remain = m, ![a].redirect = s, ![a].early = x]
  BY <1>4
<1>6. IsCs(cs')
  BY <1>5, Shaped, CsHas DEF IsCs, Table
<1>7. \A b \in Attempts : b # a => cs'[b] = cs[b]
  BY <1>5, Shaped, CsHas DEF IsCs, Table
<1>8. SendSame(cs, cs', a)
  BY <1>5, Shaped, CsHas DEF IsCs, Table, SendSame
<1>9. cs'[a].pastHeaders = TRUE /\ cs'[a].resp = t /\ cs'[a].remain = m
  BY <1>5, Shaped, CsHas DEF IsCs, Table
<1>10. cs'[a].early = x /\ cs'[a].abort = cs[a].abort /\ cs'[a].peerClosed = cs[a].peerClosed
  BY <1>5, Shaped, CsHas DEF IsCs, Table
<1>11. cs'[a].buf = cs[a].buf /\ cs'[a].pipeErr = cs[a].pipeErr /\ cs'[a].fed = cs[a].fed /\ cs'[a].whole = cs[a].whole
  BY <1>5, Shaped, CsHas DEF IsCs, Table
<1>12. RowsBut(a)
  BY <1>6, <1>7 DEF RowsBut, Same, SendSame, ReadSame
<1>13. rl' \in [Conns -> Attempts \cup {None}]
  <2>1. PICK v \in Attempts \cup {None} : rl' = [rl EXCEPT ![c] = v]
    BY <1>1
  <2>. QED  BY <2>1, LoopType
<1>14. pool' \in Seq(Conns)
  BY <1>1, PoolType
<1>15. Around
  BY <1>1, <1>13, <1>14, ConsumedAround
<1>. HIDE DEF f
<1>16. CcStill /\ Even /\ rq' = rq
  BY <1>1, CcUnchanged
<1>17. cs'[a].resp # "none" /\ cs'[a].remain \in Nat \cup {-1} /\ (cs'[a].resp = "missing" => cs'[a].remain > 0)
  BY <1>2, <1>3, <1>4, <1>9
<1>18. cs'[a].early = (cs[a].abort = "") /\ cs'[a].pastHeaders = TRUE
  BY <1>4, <1>9, <1>10, Zenon
<1>19. Responds(a)
  BY <1>8, <1>10, <1>11, <1>12, <1>16, <1>17, <1>18, Zenon DEF Responds
<1>. QED  BY <1>15, <1>19

\* HEADERS, whatever they are.
LEMMA ProcessHeadersDoes ==
  ASSUME Inv, NEW c \in Conns, processHeaders(c)
  PROVE  (Rests \/ Fails \/ \E a \in Attempts : Responds(a)) /\ Around
<1>. DEFINE f == frame(c)
            a == streamByID(c, f.id)
<1>1. left[c] # <<>>
  BY DEF processHeaders, reads
<1>2. CASE ignored(c)
  BY <1>1, <1>2, IgnoredDoes
<1>3. ASSUME a # None PROVE a \in Attempts /\ cs[a].in
  BY <1>3, StreamFound
<1>4. ASSUME a # None, streamError(c, a, "proto") PROVE Fails /\ Around
  <2>1. a \in Attempts
    BY <1>3, <1>4
  <2>. HIDE DEF a
  <2>. QED  BY <1>1, <1>4, <2>1, StreamErrorDoes DEF Plain
<1>5. ASSUME a # None, processTrailers(c, a) PROVE (Rests \/ Fails) /\ Around
  <2>1. a \in Attempts
    BY <1>3, <1>5
  <2>. HIDE DEF a
  <2>. QED  BY <1>1, <1>5, <2>1, ProcessTrailersDoes
<1>6. ASSUME a # None, cs' = [cs EXCEPT ![a].num1xx = @ + 1], consumed(c), UNCHANGED <<cc, rq, pool, calls, rl, desc, may>>
      PROVE  Rests /\ Around
  <2>1. a \in Attempts
    BY <1>3, <1>6
  <2>. HIDE DEF a
  <2>2. PICK v : cs' = [cs EXCEPT ![a].num1xx = v]
    BY <1>6, Zenon
  <2>3. CsStill
    BY <2>1, <2>2, RowRests
  <2>4. pool' \in Seq(Conns) /\ rl' \in [Conns -> Attempts \cup {None}]
    BY <1>6 DEF Inv, Shapes
  <2>. QED  BY <1>1, <1>6, <2>3, <2>4, CcUnchanged, ConsumedAround DEF Rests
<1>7. ASSUME a # None, ~cs[a].pastHeaders, handleResponse(c, a) PROVE (\E b \in Attempts : Responds(b)) /\ Around
  <2>1. a \in Attempts /\ cs[a].in
    BY <1>3, <1>7
  <2>. HIDE DEF a
  <2>. QED  BY <1>1, <1>7, <2>1, HandleResponseDoes
<1>. QED  BY <1>2, <1>4, <1>5, <1>6, <1>7, Zenon DEF processHeaders

\* What arrives takes of the connection's window, and part of it goes back at once.
LEMMA TakeAndReturnDoes ==
  ASSUME Inv, NEW c \in Conns, NEW m \in Int, NEW k \in Int, cc' = takeAndReturn(c, m, k)
  PROVE  Granted(cc, cc', c, k - m)
<1>1. PICK h : h = [cc EXCEPT ![c].avail = cc[c].avail - m] /\ cc' = wrote([h EXCEPT ![c] = refresh(h[c], k)], c)
  BY Zenon DEF takeAndReturn
<1>2. PICK g : g = cc' /\ g = wrote([h EXCEPT ![c] = refresh(h[c], k)], c)
  BY <1>1, Zenon
<1>3. h = [cc EXCEPT ![c].avail = cc[c].avail - m]
  BY <1>1
<1>4. g = wrote([h EXCEPT ![c] = refresh(h[c], k)], c)
  BY <1>2
<1>5. Granted(cc, g, c, k - m)
  BY <1>3, <1>4, Shaped, TakenGranted
<1>. QED  BY <1>2, <1>5, Zenon

\* The credit of a connection is a number.
LEMMA CreditInt ==
  ASSUME Inv PROVE \A d \in Conns : Credit(cc, d) \in Int
BY Shaped DEF Windows, Credit

\* What was taken from the window is all returned.
LEMMA GrantedEven ==
  ASSUME Inv, NEW c \in Conns, NEW n \in Int, Granted(cc, cc', c, n - n) PROVE CcStill /\ Even
<1>1. \A d \in Conns : Credit(cc', d) = Credit(cc, d)
  BY CreditInt DEF Granted
<1>. QED  BY <1>1 DEF Granted, CcStill, Even

\* What arrives for a stream that is not there only goes back to the window.
LEMMA UnknownDataDoes ==
  ASSUME Inv, NEW c \in Conns, left[c] # <<>>, unknownData(c) PROVE (Rests \/ Fails) /\ Around
<1>. DEFINE n == frame(c).n + frame(c).pad
<1>1. CASE endOfLoop(c)
  BY <1>1, EndOfLoopDoes
<1>2. CASE ~endOfLoop(c)
  <2>1. /\ cc' = takeAndReturn(c, n, n)
        /\ consumed(c) /\ cs' = cs /\ rq' = rq /\ pool' = pool /\ rl' = rl
    BY <1>2, Zenon DEF unknownData
  <2>2. n \in Int
    BY NextFrame DEF Frame
  <2>. HIDE DEF n
  <2>8. CcStill /\ Even
    BY <2>1, <2>2, TakeAndReturnDoes, GrantedEven
  <2>9. pool' \in Seq(Conns) /\ rl' \in [Conns -> Attempts \cup {None}]
    BY <2>1 DEF Inv, Shapes
  <2>. QED  BY <2>1, <2>8, <2>9, CsUnchanged, ConsumedAround DEF Rests
<1>. QED  BY <1>1, <1>2

\* The body does not take m bytes any more,
DataRefused(a, m) ==
  cs' = abortStream([cs EXCEPT ![a].avail = @ - m, ![a].readAborted = TRUE], a, "pipe")

\* DATA that the stream may not get fails it.
LEMMA DataRefusedDoes ==
  ASSUME Inv, NEW a \in Attempts, NEW m, DataRefused(a, m)
  PROVE  RowsFail
<1>6. PICK g, v : g = [cs EXCEPT ![a].avail = v, ![a].readAborted = TRUE] /\ cs' = abortStream(g, a, "pipe")
  <2>1. PICK g : g = [cs EXCEPT ![a].avail = @ - m, ![a].readAborted = TRUE] /\ cs' = abortStream(g, a, "pipe")
    BY Zenon DEF DataRefused
  <2>. QED  BY <2>1, Zenon
<1>7. g = [cs EXCEPT ![a].avail = v, ![a].readAborted = TRUE]
  BY <1>6
<1>8. IsCs(g)
  BY <1>7, Shaped, CsHas DEF IsCs, Table
<1>9. \A b \in Attempts : SendSame(cs, g, b)
  BY <1>7, Shaped, CsHas DEF IsCs, Table, SendSame
<1>10. \A b \in Attempts : ReadSame(cs, g, b) /\ g[b].abort = cs[b].abort
  BY <1>7, Shaped, CsHas DEF IsCs, Table, ReadSame
<1>11. Failed(g, cs', {a}, "pipe")
  BY <1>6, <1>8, AbortStreamRow
<1>12. ASSUME NEW b \in Attempts PROVE SendSame(cs, cs', b) /\ ReadSame(cs, cs', b)
  <2>1. SendSame(cs, g, b) /\ ReadSame(cs, g, b) /\ SendSame(g, cs', b) /\ ReadSame(g, cs', b)
    BY <1>9, <1>10, <1>11 DEF Failed
  <2>2. SendSame(cs, cs', b)
    BY <2>1 DEF SendSame
  <2>3. ReadSame(cs, cs', b)
    BY <2>1 DEF ReadSame
  <2>. QED  BY <2>2, <2>3
<1>13. \A b \in Attempts : AbortStep(b, Plain)
  BY <1>10, <1>11 DEF Failed, AbortStep, Plain
<1>. QED  BY <1>11, <1>12, <1>13 DEF RowsFail, Failed

\* or n bytes and pad bytes of padding go to its buffer and back.
DataFed(a, m, n, pad) ==
  cs' = [cs EXCEPT ![a] = refresh([cs[a] EXCEPT !.avail = @ - m, !.buf = @ + n, !.fed = @ + n], pad)]

\* DATA for the body's buffer.
LEMMA DataFedDoes ==
  ASSUME Inv, NEW a \in Attempts, NEW m, NEW n, NEW pad, DataFed(a, m, n, pad)
  PROVE  /\ RowsBut(a) /\ SendSame(cs, cs', a) /\ cs'[a].abort = cs[a].abort
         /\ cs'[a].buf = cs[a].buf + n /\ cs'[a].fed = cs[a].fed + n
         /\ cs'[a].peerClosed = cs[a].peerClosed /\ cs'[a].resp = cs[a].resp /\ cs'[a].pipeErr = cs[a].pipeErr
         /\ cs'[a].pastHeaders = cs[a].pastHeaders /\ cs'[a].remain = cs[a].remain
         /\ cs'[a].whole = cs[a].whole /\ cs'[a].early = cs[a].early
<1>9. cs[a] = [y \in CsFields |-> cs[a][y]]
  BY Shaped DEF IsCs, Table
<1>10. PICK x : /\ x = [cs[a] EXCEPT !.avail = cs[a].avail - m, !.buf = cs[a].buf + n, !.fed = cs[a].fed + n]
               /\ cs' = [cs EXCEPT ![a] = refresh(x, pad)]
  <2>2. PICK x : x = [cs[a] EXCEPT !.avail = @ - m, !.buf = @ + n, !.fed = @ + n] /\ cs' = [cs EXCEPT ![a] = refresh(x, pad)]
    BY Zenon DEF DataFed
  <2>3. x = [cs[a] EXCEPT !.avail = cs[a].avail - m, !.buf = cs[a].buf + n, !.fed = cs[a].fed + n]
    BY <1>9, <2>2, CsHas
  <2>. QED  BY <2>2, <2>3, Zenon
<1>11. PICK v, u, w : u = cs[a].buf + n /\ w = cs[a].fed + n /\ x = [cs[a] EXCEPT !.avail = v, !.buf = u, !.fed = w]
  BY <1>10, Zenon
<1>12. x = [cs[a] EXCEPT !.avail = v, !.buf = u, !.fed = w]
  BY <1>11
<1>13. /\ x = [y \in CsFields |-> x[y]] /\ x.buf = u /\ x.fed = w
      /\ \A y \in CsFields : y \notin {"avail", "buf", "fed"} => x[y] = cs[a][y]
  BY <1>9, <1>12, CsHas
<1>14. PICK z : z = refresh(x, pad) /\ cs' = [cs EXCEPT ![a] = z]
  BY <1>10, Zenon
<1>15. z = [y \in CsFields |-> z[y]] /\ \A y \in CsFields : y \notin {"unsent", "avail"} => z[y] = x[y]
  <2>1. x = [y \in CsFields |-> x[y]]
    BY <1>13
  <2>2. "unsent" \in CsFields /\ "avail" \in CsFields
    BY CsHas
  <2>3. z = refresh(x, pad)
    BY <1>14
  <2>. QED  BY <2>1, <2>2, <2>3, RefreshRow
<1>16. z.buf = u /\ z.fed = w /\ \A y \in CsFields : y \notin {"buf", "fed", "unsent", "avail"} => z[y] = cs[a][y]
  BY <1>13, <1>15, CsHas
<1>17. cs' = [cs EXCEPT ![a] = z]
  BY <1>14
<1>18. IsCs(cs') /\ cs'[a] = z /\ \A b \in Attempts : b # a => cs'[b] = cs[b]
  BY <1>15, <1>17, Shaped DEF IsCs, Table
<1>19. SendSame(cs, cs', a)
  BY <1>16, <1>18, CsHas DEF SendSame
<1>20. /\ z.peerClosed = cs[a].peerClosed /\ z.resp = cs[a].resp /\ z.pipeErr = cs[a].pipeErr
       /\ z.pastHeaders = cs[a].pastHeaders /\ z.remain = cs[a].remain /\ z.whole = cs[a].whole
       /\ z.early = cs[a].early /\ z.abort = cs[a].abort
  BY <1>16, CsHas
<1>21. RowsBut(a)
  BY <1>18 DEF RowsBut, Same, SendSame, ReadSame
<1>. QED  BY <1>11, <1>16, <1>18, <1>19, <1>20, <1>21

\* The connection's window pays for what the buffer gets, and not for the padding.
LEMMA TakesFewer ==
  ASSUME Inv, NEW c \in Conns, NEW n \in Nat, NEW p \in Nat, Granted(cc, cc', c, p - (n + p))
  PROVE  \A d \in Conns : Credit(cc', d) = IF d = c THEN Credit(cc, d) - n ELSE Credit(cc, d)
<1>1. p - (n + p) = -n
  OBVIOUS
<1>2. \A d \in Conns : Credit(cc', d) = IF d = c THEN Credit(cc, d) + (-n) ELSE Credit(cc, d)
  BY <1>1 DEF Granted
<1>. QED  BY <1>2, CreditInt

\* Whether the body takes n bytes.
Refused(a) == cs[a].pipeErr # "" \/ cs[a].broken

\* DATA, whatever becomes of it.
LEMMA ProcessDataDoes ==
  ASSUME Inv, NEW c \in Conns, processData(c)
  PROVE  (Rests \/ Fails \/ \E a \in Attempts, n \in Nat : Feeds(a, n)) /\ Around
<1>. DEFINE f == frame(c)
            a == streamByID(c, f.id)
            n == f.n + f.pad
<1>1. left[c] # <<>>
  BY DEF processData, reads
<1>2. CASE unknownData(c)
  BY <1>1, <1>2, UnknownDataDoes
<1>3. ASSUME a # None PROVE a \in Attempts /\ cs[a].in /\ cs[a].cc = c
  BY <1>3, StreamFound
<1>4. ASSUME a # None, streamError(c, a, "proto") PROVE Fails /\ Around
  <2>1. a \in Attempts
    BY <1>3, <1>4
  <2>. HIDE DEF a
  <2>. QED  BY <1>1, <1>4, <2>1, StreamErrorDoes DEF Plain
<1>5. CASE endOfLoop(c)
  BY <1>5, EndOfLoopDoes
<1>6. ASSUME a # None,
             cc' = takeAndReturn(c, n, IF Refused(a) THEN n ELSE f.pad),
             cs' = IF Refused(a) /\ f.n > 0
                   THEN abortStream([cs EXCEPT ![a].avail = @ - n, ![a].readAborted = TRUE], a, "pipe")
                   ELSE [cs EXCEPT ![a] = refresh([cs[a] EXCEPT !.avail = @ - n, !.buf = @ + f.n, !.fed = @ + f.n], f.pad)],
             rl' = [rl EXCEPT ![c] = IF f.end /\ ~(Refused(a) /\ f.n > 0) THEN a ELSE None],
             consumed(c), UNCHANGED <<rq, pool, calls, desc, may>>
      PROVE  (Fails \/ \E b \in Attempts, m \in Nat : Feeds(b, m)) /\ Around
  <2>1. a \in Attempts /\ cs[a].in /\ cs[a].cc = c
    BY <1>3, <1>6
  <2>2. f.n \in Nat /\ f.pad \in Nat
    BY <1>1, NextFrame DEF Frame
  <2>3. rl' \in [Conns -> Attempts \cup {None}]
    <3>1. PICK v \in Attempts \cup {None} : rl' = [rl EXCEPT ![c] = v]
      <4>. HIDE DEF a, f
      <4>. QED  BY <1>6, <2>1
    <3>. QED  BY <3>1, LoopType
  <2>4. pool' \in Seq(Conns)
    BY <1>6, PoolType
  <2>5. Around
    BY <1>1, <1>6, <2>3, <2>4, ConsumedAround
  <2>8. n \in Int /\ (f.n = 0 => n = f.pad)
    BY <2>2
  <2>9. rq' = rq
    BY <1>6
  <2>. HIDE DEF a, f
  <2>6. CASE Refused(a) /\ f.n > 0
    <3>1. DataRefused(a, n)
      BY <1>6, <2>6, Zenon DEF DataRefused
    <3>2. cc' = takeAndReturn(c, n, n)
      BY <1>6, <2>6, Zenon
    <3>3. CcStill /\ Even
      <4>. HIDE DEF n
      <4>. QED  BY <2>8, <3>2, TakeAndReturnDoes, GrantedEven
    <3>4. RowsFail
      <4>. HIDE DEF n
      <4>. QED  BY <2>1, <3>1, DataRefusedDoes
    <3>. QED  BY <2>5, <2>9, <3>3, <3>4 DEF Fails
  <2>7. CASE ~(Refused(a) /\ f.n > 0)
    <3>1. DataFed(a, n, f.n, f.pad)
      BY <1>6, <2>7, Zenon DEF DataFed
    <3>2. f.n = 0 \/ ~Refused(a)
      <4>1. ~Refused(a) \/ ~(f.n > 0)
        BY <2>7, Zenon
      <4>2. ~(f.n > 0) => f.n = 0
        BY <2>2
      <4>. QED  BY <4>1, <4>2, Zenon
    <3>3. cc' = takeAndReturn(c, n, f.pad)
      <4>1. CASE ~Refused(a)
        BY <1>6, <4>1, Zenon
      <4>2. CASE Refused(a)
        <5>1. cc' = takeAndReturn(c, n, n)
          BY <1>6, <4>2, Zenon
        <5>2. n = f.pad
          BY <2>8, <3>2, <4>2
        <5>. QED  BY <5>1, <5>2, Zenon
      <4>. QED  BY <4>1, <4>2, Zenon
    <3>4. Granted(cc, cc', c, f.pad - n)
      <4>. HIDE DEF n
      <4>1. f.pad \in Int
        BY <2>2
      <4>. QED  BY <2>8, <3>3, <4>1, TakeAndReturnDoes
    <3>5. \A d \in Conns : Credit(cc', d) = IF d = c THEN Credit(cc, d) - f.n ELSE Credit(cc, d)
      BY <2>2, <3>4, TakesFewer
    <3>6. CcStill /\ Windows(cc')
      BY <3>4 DEF Granted, CcStill
    <3>7. f.n = 0 \/ cs[a].pipeErr = ""
      BY <3>2, Zenon DEF Refused
    <3>8. /\ RowsBut(a) /\ SendSame(cs, cs', a) /\ cs'[a].abort = cs[a].abort
          /\ cs'[a].buf = cs[a].buf + f.n /\ cs'[a].fed = cs[a].fed + f.n
          /\ cs'[a].peerClosed = cs[a].peerClosed /\ cs'[a].resp = cs[a].resp /\ cs'[a].pipeErr = cs[a].pipeErr
          /\ cs'[a].pastHeaders = cs[a].pastHeaders /\ cs'[a].remain = cs[a].remain
          /\ cs'[a].whole = cs[a].whole /\ cs'[a].early = cs[a].early
      <4>. HIDE DEF n
      <4>. QED  BY <2>1, <3>1, DataFedDoes
    <3>9. \A d \in Conns : Credit(cc', d) = IF d = cs[a].cc THEN Credit(cc, d) - f.n ELSE Credit(cc, d)
      BY <2>1, <3>5, Zenon
    <3>10. Feeds(a, f.n)
      BY <2>1, <2>9, <3>6, <3>7, <3>8, <3>9, Zenon DEF Feeds
    <3>. QED  BY <2>1, <2>2, <2>5, <3>10, Zenon
  <2>. QED  BY <2>6, <2>7, Zenon
<1>. QED  BY <1>2, <1>4, <1>5, <1>6, Zenon DEF processData, Refused

\* endStream.
LEMMA EndStreamDoes ==
  ASSUME Inv, NEW c \in Conns, endStream(c) PROVE (\E a \in Attempts : Ends(a)) /\ Around
<1>. DEFINE a == rl[c]
<1>1. /\ a # None /\ rl' = [rl EXCEPT ![c] = None] /\ cc' = cc /\ rq' = rq /\ pool' = pool /\ left' = left
  BY DEF endStream
<1>2. a \in Attempts
  BY <1>1 DEF Inv, Shapes
<1>3. PICK g, w : /\ g = pipeClosed(cs, a, "EOF") /\ w = (cs[a].pipeErr = "")
                  /\ cs' = [g EXCEPT ![a].readClosed = TRUE, ![a].peerClosed = TRUE, ![a].whole = w]
  BY Zenon DEF endStream
<1>. HIDE DEF a
<1>4. cs' = [g EXCEPT ![a].readClosed = TRUE, ![a].peerClosed = TRUE, ![a].whole = w]
  BY <1>3
<1>5. PipeEnded(cs, g, a, "EOF")
  BY <1>2, <1>3, Shaped, PipeClosedRow
<1>6. IsCs(g)
  BY <1>5 DEF PipeEnded
<1>7. IsCs(cs')
  BY <1>2, <1>4, <1>6, CsHas DEF IsCs, Table
<1>8. \A b \in Attempts : b # a => cs'[b] = g[b]
  BY <1>2, <1>4, <1>6, CsHas DEF IsCs, Table
<1>9. SendSame(g, cs', a)
  BY <1>2, <1>4, <1>6, CsHas DEF IsCs, Table, SendSame
<1>10. cs'[a].peerClosed = TRUE /\ cs'[a].whole = w /\ cs'[a].pipeErr = g[a].pipeErr /\ cs'[a].abort = g[a].abort
  BY <1>2, <1>4, <1>6, CsHas DEF IsCs, Table
<1>11. cs'[a].resp = g[a].resp /\ cs'[a].buf = g[a].buf /\ cs'[a].fed = g[a].fed
  BY <1>2, <1>4, <1>6, CsHas DEF IsCs, Table
<1>12. cs'[a].pastHeaders = g[a].pastHeaders /\ cs'[a].remain = g[a].remain /\ cs'[a].early = g[a].early
  BY <1>2, <1>4, <1>6, CsHas DEF IsCs, Table
<1>13. /\ g[a].resp = cs[a].resp /\ g[a].buf = cs[a].buf /\ g[a].fed = cs[a].fed /\ g[a].abort = cs[a].abort
       /\ g[a].pastHeaders = cs[a].pastHeaders /\ g[a].remain = cs[a].remain /\ g[a].early = cs[a].early
       /\ SendSame(cs, g, a) /\ \A b \in Attempts : b # a => Same(cs, g, b)
  BY <1>2, <1>5 DEF PipeEnded
<1>14. g[a].pipeErr = IF cs[a].pipeErr = "" THEN "EOF" ELSE cs[a].pipeErr
  BY <1>5, Zenon DEF PipeEnded
<1>15. RowsBut(a)
  <2>1. ASSUME NEW b \in Attempts, b # a PROVE Same(cs, cs', b)
    BY <1>8, <1>13, <2>1 DEF Same, SendSame, ReadSame
  <2>. QED  BY <1>7, <2>1 DEF RowsBut
<1>16. SendSame(cs, cs', a)
  BY <1>9, <1>13 DEF SendSame
<1>17. CcStill /\ Even
  BY <1>1, CcUnchanged
<1>18. Ends(a)
  BY <1>1, <1>3, <1>10, <1>11, <1>12, <1>13, <1>14, <1>15, <1>16, <1>17, Zenon DEF Ends
<1>19. Around
  <2>1. rl' \in [Conns -> Attempts \cup {None}]
    BY <1>1, LoopType
  <2>. QED  BY <1>1, <2>1 DEF Inv, Shapes, Around
<1>. QED  BY <1>2, <1>18, <1>19

\* processGoAway: streams above the last one fail.
LEMMA ProcessGoAwayDoes ==
  ASSUME Inv, NEW c \in Conns, processGoAway(c) PROVE GoesAway(c) /\ Around
<1>. DEFINE last == frame(c).last
<1>1. /\ left[c] # <<>> /\ Head(left[c]).kind = "goaway" /\ MarkDead(c) /\ setGoAway(c, last) /\ consumed(c)
      /\ rq' = rq /\ rl' = rl
  BY DEF processGoAway, reads
<1>2. left' = [left EXCEPT ![c] = Tail(left[c])]
  BY <1>1 DEF consumed
<1>3. last = Head(left[c]).last
  BY DEF frame
<1>. HIDE DEF last
<1>4. PICK S : S = {a \in streams(cs, c) : cs[a].id > last}
  BY Zenon
<1>5. cc' = [cc EXCEPT ![c].goAway = last] /\ cs' = IF S = {} THEN cs ELSE abortAll(cs, c, S, "goaway")
  BY <1>1, <1>4, Zenon DEF setGoAway
<1>6. S \subseteq Attempts /\ \A a \in S : cs[a].in /\ cs[a].cc = c /\ cs[a].id > last
  BY <1>4 DEF streams
<1>7. Failed(cs, cs', S, "goaway")
  <2>1. CASE S = {}
    <3>1. cs' = cs
      BY <1>5, <2>1, Zenon
    <3>. QED  BY <2>1, <3>1, Shaped DEF Failed, SendSame, ReadSame
  <2>2. CASE S # {}
    <3>1. cs' = abortAll(cs, c, S, "goaway")
      BY <1>5, <2>2, Zenon
    <3>. QED  BY <1>6, <3>1, Shaped, AbortAllRow
  <2>. QED  BY <2>1, <2>2
<1>8. IsCs(cs') /\ \A b \in Attempts : SendSame(cs, cs', b) /\ ReadSame(cs, cs', b) /\ AbortStep(b, {"goaway"})
  BY <1>7 DEF Failed, AbortStep
<1>9. \A b \in Attempts : cs'[b].abort # cs[b].abort => cs[b].in /\ cs[b].cc = c /\ cs[b].id > last
  BY <1>6, <1>7 DEF Failed
<1>10. cc' = [cc EXCEPT ![c].goAway = last]
  BY <1>5
<1>11. IsCc(cc')
  BY <1>10, Shaped, CcHas DEF IsCc, Table
<1>12. \A d \in Conns : d # c => cc'[d] = cc[d]
  BY <1>10, Shaped, CcHas DEF IsCc, Table
<1>13. cc'[c].next = cc[c].next /\ cc'[c].lastHdr = cc[c].lastHdr /\ cc'[c].hdrMu = cc[c].hdrMu /\ cc'[c].goAway = last
  BY <1>10, Shaped, CcHas DEF IsCc, Table
<1>14. cc'[c].avail = cc[c].avail /\ cc'[c].unsent = cc[c].unsent /\ cc'[c].lost = cc[c].lost
  BY <1>10, Shaped, CcHas DEF IsCc, Table
<1>15. \A d \in Conns : WinSame(cc, cc', d)
  BY <1>12, <1>14 DEF WinSame
<1>16. Even
  BY <1>15, Shaped DEF Even, WinSame, Windows, Credit
<1>17. \A d \in Conns : d # c => MuxSame(cc, cc', d)
  BY <1>12 DEF MuxSame
<1>18. GoesAway(c)
  BY <1>1, <1>2, <1>3, <1>8, <1>9, <1>11, <1>13, <1>16, <1>17, Zenon DEF GoesAway
<1>19. pool' \in Seq(Conns)
  BY <1>1, PoolType
<1>20. rl' \in [Conns -> Attempts \cup {None}]
  BY <1>1 DEF Inv, Shapes
<1>. QED  BY <1>1, <1>18, <1>19, <1>20, ConsumedAround

\* A change of the row that no part of the invariant is about.
LEMMA FlowRow ==
  ASSUME Inv, NEW g, NEW a \in Attempts, NEW v, g = [cs EXCEPT ![a].flow = v]
  PROVE  IsCs(g) /\ \A b \in Attempts : Same(cs, g, b)
<1>1. IsCs(g)
  BY Shaped, CsHas DEF IsCs, Table
<1>2. \A b \in Attempts : b # a => g[b] = cs[b]
  BY Shaped, CsHas DEF IsCs, Table
<1>3. SendSame(cs, g, a)
  BY Shaped, CsHas DEF IsCs, Table, SendSame
<1>4. ReadSame(cs, g, a) /\ g[a].abort = cs[a].abort
  BY Shaped, CsHas DEF IsCs, Table, ReadSame
<1>. QED  BY <1>1, <1>2, <1>3, <1>4 DEF Same, SendSame, ReadSame

\* Who waits on the connection is woken.
LEMMA WokenStill ==
  ASSUME Inv, NEW g, IsCs(g), \A b \in Attempts : Same(cs, g, b), NEW c, cs' = Broadcast(g, c) PROVE CsStill
<1>1. IsCs(cs') /\ \A b \in Attempts : Same(g, cs', b)
  BY BroadcastWakes
<1>2. ASSUME NEW b \in Attempts PROVE Same(cs, cs', b)
  <2>1. Same(cs, g, b) /\ Same(g, cs', b)
    BY <1>1
  <2>2. SendSame(cs, cs', b)
    BY <2>1 DEF Same, SendSame
  <2>3. ReadSame(cs, cs', b) /\ cs'[b].abort = cs[b].abort
    BY <2>1 DEF Same, ReadSame
  <2>. QED  BY <2>2, <2>3 DEF Same
<1>. QED  BY <1>1, <1>2 DEF CsStill

\* A connection gets the peer's settings.
LEMMA SettingsKept ==
  ASSUME Inv, NEW c \in Conns, NEW z, NEW u, NEW v, NEW w, cc' = [cc EXCEPT ![c] = z],
         \/ z = [cc[c] EXCEPT !.wantAck = FALSE, !.gotSettings = TRUE]
         \/ z = [cc[c] EXCEPT !.gotSettings = TRUE, !.seen = TRUE, !.werr = u, !.max = v, !.initWin = w]
  PROVE  CcKept(cc, cc')
<1>1. cc[c] = [y \in CcFields |-> cc[c][y]]
  BY Shaped DEF IsCc, Table
<1>2. /\ z = [y \in CcFields |-> z[y]]
      /\ z.next = cc[c].next /\ z.lastHdr = cc[c].lastHdr /\ z.hdrMu = cc[c].hdrMu /\ z.goAway = cc[c].goAway
      /\ z.avail = cc[c].avail /\ z.unsent = cc[c].unsent /\ z.lost = cc[c].lost
  <2>1. CASE z = [cc[c] EXCEPT !.wantAck = FALSE, !.gotSettings = TRUE]
    BY <1>1, <2>1, CcHas
  <2>2. CASE z = [cc[c] EXCEPT !.gotSettings = TRUE, !.seen = TRUE, !.werr = u, !.max = v, !.initWin = w]
    BY <1>1, <2>2, CcHas
  <2>. QED  BY <2>1, <2>2
<1>3. IsCc(cc') /\ cc'[c] = z /\ \A d \in Conns : d # c => cc'[d] = cc[d]
  BY <1>2, Shaped DEF IsCc, Table
<1>. QED  BY <1>2, <1>3 DEF CcKept, CcSame, MuxSame, WinSame

\* SETTINGS, and what they change in the windows of the streams.
LEMMA ProcessSettingsDoes ==
  ASSUME Inv, NEW c \in Conns, processSettings(c) PROVE (Rests \/ Fails) /\ Around
<1>. DEFINE f == frame(c)
            delta == f.win - cc[c].initWin
            grown == [a \in Attempts |-> IF a \in streams(cs, c) /\ cs[a].flow + delta <= MaxWindow
                                         THEN [cs[a] EXCEPT !.flow = @ + delta] ELSE cs[a]]
<1>1. left[c] # <<>>
  BY DEF processSettings, reads
<1>2. CASE endOfLoop(c)
  BY <1>2, EndOfLoopDoes
<1>3. ASSUME cc' = [cc EXCEPT ![c] =
                  IF f.ack THEN [cc[c] EXCEPT !.wantAck = FALSE, !.gotSettings = TRUE]
                  ELSE [cc[c] EXCEPT !.gotSettings = TRUE, !.seen = TRUE, !.werr = @ \/ cc[c].gone,
                                     !.max = IF f.max # -1 THEN f.max
                                             ELSE IF cc[c].seen THEN @ ELSE DefaultStreams,
                                     !.initWin = IF f.win # -1 THEN f.win ELSE @]],
             cs' = IF f.ack \/ f.win = -1 THEN cs ELSE Broadcast(grown, c),
             consumed(c), UNCHANGED <<rq, pool, calls, rl, desc, may>>
      PROVE  Rests /\ Around
  <2>1. PICK z : \E u, v, w : /\ cc' = [cc EXCEPT ![c] = z]
                     /\ \/ z = [cc[c] EXCEPT !.wantAck = FALSE, !.gotSettings = TRUE]
                        \/ z = [cc[c] EXCEPT !.gotSettings = TRUE, !.seen = TRUE, !.werr = u, !.max = v, !.initWin = w]
    <3>1. PICK z : /\ cc' = [cc EXCEPT ![c] = z]
                   /\ z = IF f.ack THEN [cc[c] EXCEPT !.wantAck = FALSE, !.gotSettings = TRUE]
                          ELSE [cc[c] EXCEPT !.gotSettings = TRUE, !.seen = TRUE, !.werr = @ \/ cc[c].gone,
                                     !.max = IF f.max # -1 THEN f.max
                                             ELSE IF cc[c].seen THEN @ ELSE DefaultStreams,
                                     !.initWin = IF f.win # -1 THEN f.win ELSE @]
      BY <1>3, Zenon
    <3>2. \/ z = [cc[c] EXCEPT !.wantAck = FALSE, !.gotSettings = TRUE]
          \/ z = [cc[c] EXCEPT !.gotSettings = TRUE, !.seen = TRUE, !.werr = @ \/ cc[c].gone,
                                     !.max = IF f.max # -1 THEN f.max
                                             ELSE IF cc[c].seen THEN @ ELSE DefaultStreams,
                                     !.initWin = IF f.win # -1 THEN f.win ELSE @]
      BY <3>1, Zenon
    <3>3. \E u, v, w : \/ z = [cc[c] EXCEPT !.wantAck = FALSE, !.gotSettings = TRUE]
                       \/ z = [cc[c] EXCEPT !.gotSettings = TRUE, !.seen = TRUE, !.werr = u, !.max = v, !.initWin = w]
      <4>1. CASE z = [cc[c] EXCEPT !.wantAck = FALSE, !.gotSettings = TRUE]
        BY <4>1, Zenon
      <4>2. CASE z # [cc[c] EXCEPT !.wantAck = FALSE, !.gotSettings = TRUE]
        <5>1. \E u, v, w : z = [cc[c] EXCEPT !.gotSettings = TRUE, !.seen = TRUE, !.werr = u, !.max = v, !.initWin = w]
          <6>1. z = [cc[c] EXCEPT !.gotSettings = TRUE, !.seen = TRUE, !.werr = @ \/ cc[c].gone,
                                     !.max = IF f.max # -1 THEN f.max
                                             ELSE IF cc[c].seen THEN @ ELSE DefaultStreams,
                                     !.initWin = IF f.win # -1 THEN f.win ELSE @]
            BY <3>2, <4>2, Zenon
          <6>2. \E u : z = [cc[c] EXCEPT !.gotSettings = TRUE, !.seen = TRUE, !.werr = u,
                                     !.max = IF f.max # -1 THEN f.max
                                             ELSE IF cc[c].seen THEN @ ELSE DefaultStreams,
                                     !.initWin = IF f.win # -1 THEN f.win ELSE @]
            BY <6>1, Zenon
          <6>3. \E u, v : z = [cc[c] EXCEPT !.gotSettings = TRUE, !.seen = TRUE, !.werr = u, !.max = v,
                                     !.initWin = IF f.win # -1 THEN f.win ELSE @]
            BY <6>2, Zenon
          <6>. QED  BY <6>3, Zenon
        <5>. QED  BY <5>1, Zenon
      <4>. QED  BY <4>1, <4>2, Zenon
    <3>4. cc' = [cc EXCEPT ![c] = z]
      BY <3>1
    <3>. QED  BY <3>3, <3>4, Zenon
  <2>2. CcKept(cc, cc')
    BY <2>1, SettingsKept
  <2>3. CsStill
    <3>1. CASE cs' = cs
      BY <3>1, CsUnchanged
    <3>2. CASE cs' = Broadcast(grown, c)
      <4>1. IsCs(grown) /\ \A b \in Attempts : Same(cs, grown, b)
        <5>1. \A a \in Attempts : grown[a] = cs[a] \/ \E v : grown[a] = [cs[a] EXCEPT !.flow = v]
          BY Zenon
        <5>2. grown = [a \in Attempts |-> grown[a]]
          BY Zenon
        <5>. HIDE DEF grown
        <5>3. ASSUME NEW a \in Attempts PROVE grown[a] = [x \in CsFields |-> grown[a][x]] /\ Same(cs, grown, a)
          <6>1. cs[a] = [x \in CsFields |-> cs[a][x]]
            BY Shaped DEF IsCs, Table
          <6>2. CASE grown[a] = cs[a]
            BY <6>1, <6>2 DEF Same, SendSame, ReadSame
          <6>3. ASSUME NEW v, grown[a] = [cs[a] EXCEPT !.flow = v]
                PROVE  grown[a] = [x \in CsFields |-> grown[a][x]] /\ Same(cs, grown, a)
            <7>1. grown[a] = [x \in CsFields |-> grown[a][x]]
              BY <6>1, <6>3, CsHas
            <7>2. SendSame(cs, grown, a)
              BY <6>1, <6>3, CsHas DEF SendSame
            <7>3. ReadSame(cs, grown, a) /\ grown[a].abort = cs[a].abort
              BY <6>1, <6>3, CsHas DEF ReadSame
            <7>. QED  BY <7>1, <7>2, <7>3 DEF Same
          <6>. QED  BY <5>1, <6>2, <6>3
        <5>. QED  BY <5>2, <5>3 DEF IsCs, Table
      <4>. HIDE DEF grown
      <4>. QED  BY <3>2, <4>1, WokenStill
    <3>. QED  BY <1>3, <3>1, <3>2, Zenon
  <2>4. pool' \in Seq(Conns) /\ rl' \in [Conns -> Attempts \cup {None}]
    BY <1>3 DEF Inv, Shapes
  <2>. QED  BY <1>1, <1>3, <2>2, <2>3, <2>4, CcKeptStill, ConsumedAround DEF Rests
<1>. QED  BY <1>2, <1>3, Zenon DEF processSettings

\* WINDOW_UPDATE for the connection or a stream.
LEMMA ProcessWindowUpdateDoes ==
  ASSUME Inv, NEW c \in Conns, processWindowUpdate(c) PROVE (Rests \/ Fails) /\ Around
<1>. DEFINE f == frame(c)
            a == streamByID(c, f.id)
<1>1. left[c] # <<>>
  BY DEF processWindowUpdate, reads
<1>2. CASE ignored(c)
  BY <1>1, <1>2, IgnoredDoes
<1>3. CASE endOfLoop(c)
  BY <1>3, EndOfLoopDoes
<1>4. ASSUME f.id = 0 \/ a # None,
             cc' = IF f.id = 0 THEN [cc EXCEPT ![c].flow = @ + f.n] ELSE cc,
             cs' = Broadcast(IF f.id = 0 THEN cs ELSE [cs EXCEPT ![a].flow = @ + f.n], c),
             consumed(c), UNCHANGED <<rq, pool, calls, rl, desc, may>>
      PROVE  Rests /\ Around
  <2>1. CASE f.id = 0
    <3>1. cs' = Broadcast(cs, c)
      BY <1>4, <2>1, Zenon
    <3>2. CsStill
      BY <3>1, Shaped, WokenStill DEF Same, SendSame, ReadSame
    <3>3. PICK v : cc' = [cc EXCEPT ![c].flow = v]
      BY <1>4, <2>1, Zenon
    <3>4. CcKept(cc, cc')
      BY <3>3, Shaped, OtherKept
    <3>. QED  BY <1>1, <1>4, <3>2, <3>4, CcKeptStill, ConsumedAround DEF Rests, Inv, Shapes
  <2>2. CASE f.id # 0
    <3>1. a \in Attempts
      BY <1>4, <2>2, StreamFound
    <3>. HIDE DEF a
    <3>2. PICK g : \E v : g = [cs EXCEPT ![a].flow = v] /\ cs' = Broadcast(g, c)
      <4>1. cs' = Broadcast([cs EXCEPT ![a].flow = @ + f.n], c)
        BY <1>4, <2>2, Zenon
      <4>2. PICK g : g = [cs EXCEPT ![a].flow = @ + f.n] /\ cs' = Broadcast(g, c)
        BY <4>1, Zenon
      <4>. QED  BY <4>2, Zenon
    <3>3. IsCs(g) /\ \A b \in Attempts : Same(cs, g, b)
      BY <3>1, <3>2, FlowRow
    <3>4. CsStill
      BY <3>2, <3>3, WokenStill
    <3>5. cc' = cc
      BY <1>4, <2>2, Zenon
    <3>. QED  BY <1>1, <1>4, <3>4, <3>5, CcUnchanged, ConsumedAround DEF Rests, Inv, Shapes
  <2>. QED  BY <2>1, <2>2
<1>. QED  BY <1>2, <1>3, <1>4, Zenon DEF processWindowUpdate

\* RST_STREAM.
LEMMA ProcessResetStreamDoes ==
  ASSUME Inv, NEW c \in Conns, processResetStream(c) PROVE (Rests \/ \E a \in Attempts : PeerResets(a)) /\ Around
<1>. DEFINE a == streamByID(c, frame(c).id)
            e == frame(c).code
<1>1. left[c] # <<>>
  BY DEF processResetStream, reads
<1>2. CASE ignored(c)
  BY <1>1, <1>2, IgnoredDoes
<1>3. e \in fromPeer
  BY <1>1, NextFrame DEF Frame
<1>4. ASSUME a # None, cs' = abortStream(pipeClosed(cs, a, e), a, e),
             cc' = [cc EXCEPT ![c].noReuse = @ \/ e = "protoPeer"],
             consumed(c), UNCHANGED <<rq, pool, calls, rl, desc, may>>
      PROVE  (\E b \in Attempts : PeerResets(b)) /\ Around
  <2>1. a \in Attempts
    BY <1>4, StreamFound
  <2>. HIDE DEF a, e
  <2>2. PICK v : cc' = [cc EXCEPT ![c].noReuse = v]
    BY <1>4, Zenon
  <2>3. CcStill /\ Even
    BY <2>2, Shaped, OtherKept, CcKeptStill
  <2>4. PICK g : g = pipeClosed(cs, a, e) /\ cs' = abortStream(g, a, e)
    BY <1>4, Zenon
  <2>5. PipeEnded(cs, g, a, e)
    BY <2>1, <2>4, Shaped, PipeClosedRow
  <2>6. Failed(g, cs', {a}, e)
    BY <2>1, <2>4, <2>5, AbortStreamRow DEF PipeEnded
  <2>7. /\ g[a].peerClosed = cs[a].peerClosed /\ g[a].resp = cs[a].resp /\ g[a].buf = cs[a].buf /\ g[a].fed = cs[a].fed
        /\ g[a].pastHeaders = cs[a].pastHeaders /\ g[a].remain = cs[a].remain /\ g[a].early = cs[a].early
        /\ g[a].whole = cs[a].whole /\ g[a].abort = cs[a].abort
        /\ SendSame(cs, g, a) /\ \A b \in Attempts : b # a => Same(cs, g, b)
    BY <2>1, <2>5 DEF PipeEnded
  <2>8. g[a].pipeErr = cs[a].pipeErr \/ (cs[a].pipeErr = "" /\ g[a].pipeErr \in fromPeer)
    BY <1>3, <2>5, Zenon DEF PipeEnded
  <2>9. ReadSame(g, cs', a) /\ SendSame(g, cs', a) /\ IsCs(cs')
    BY <2>1, <2>6 DEF Failed
  <2>10. AbortStep(a, fromPeer)
    <3>1. cs'[a].abort = g[a].abort \/ (g[a].abort = "" /\ cs'[a].abort = e)
      BY <2>1, <2>6, Zenon DEF Failed
    <3>. QED  BY <1>3, <2>7, <3>1, Zenon DEF AbortStep
  <2>11. SendSame(cs, cs', a)
    BY <2>7, <2>9 DEF SendSame
  <2>12. /\ cs'[a].peerClosed = g[a].peerClosed /\ cs'[a].resp = g[a].resp /\ cs'[a].buf = g[a].buf /\ cs'[a].fed = g[a].fed
         /\ cs'[a].pastHeaders = g[a].pastHeaders /\ cs'[a].remain = g[a].remain /\ cs'[a].early = g[a].early
         /\ cs'[a].whole = g[a].whole /\ cs'[a].pipeErr = g[a].pipeErr
    BY <2>9 DEF ReadSame
  <2>13. RowsBut(a)
    <3>1. ASSUME NEW b \in Attempts, b # a PROVE Same(cs, cs', b)
      <4>1. Same(cs, g, b)
        BY <2>7, <3>1
      <4>2. SendSame(g, cs', b) /\ ReadSame(g, cs', b) /\ cs'[b].abort = g[b].abort
        BY <2>6, <3>1 DEF Failed
      <4>3. SendSame(cs, cs', b)
        BY <4>1, <4>2 DEF Same, SendSame
      <4>4. ReadSame(cs, cs', b) /\ cs'[b].abort = cs[b].abort
        BY <4>1, <4>2 DEF Same, ReadSame
      <4>. QED  BY <4>3, <4>4 DEF Same
    <3>. QED  BY <2>9, <3>1 DEF RowsBut
  <2>14. rq' = rq
    BY <1>4
  <2>15. PeerResets(a)
    BY <2>3, <2>7, <2>8, <2>10, <2>11, <2>12, <2>13, <2>14, Zenon DEF PeerResets
  <2>16. pool' \in Seq(Conns) /\ rl' \in [Conns -> Attempts \cup {None}]
    BY <1>4 DEF Inv, Shapes
  <2>. QED  BY <1>1, <1>4, <2>1, <2>15, <2>16, ConsumedAround
<1>. QED  BY <1>2, <1>4, Zenon DEF processResetStream

\* PING.
LEMMA ProcessPingDoes ==
  ASSUME Inv, NEW c \in Conns, processPing(c) PROVE Rests /\ Around
<1>1. left[c] # <<>> /\ consumed(c) /\ cs' = cs /\ rq' = rq /\ pool' = pool /\ rl' = rl
  BY DEF processPing, reads
<1>2. cc' = cc \/ cc' = [cc EXCEPT ![c].ping = FALSE]
  BY Zenon DEF processPing
<1>3. CcStill /\ Even
  BY <1>2, Shaped, CcUnchanged, OtherKept, CcKeptStill
<1>4. pool' \in Seq(Conns) /\ rl' \in [Conns -> Attempts \cup {None}]
  BY <1>1 DEF Inv, Shapes
<1>. QED  BY <1>1, <1>3, <1>4, CsUnchanged, ConsumedAround DEF Rests

\* PUSH_PROMISE ends the connection.
LEMMA ProcessPushPromiseDoes ==
  ASSUME Inv, NEW c \in Conns, processPushPromise(c) PROVE Fails /\ Around
BY EndOfLoopDoes DEF processPushPromise

----------------------------------------------------------------------------
(* The steps of the program: dials, timers and closing *)

\* Steps that change only the tables of connections and of their pool.
LEMMA ConnsRest ==
  ASSUME Inv, CcKept(cc, cc'), pool' \in Seq(Conns), cs' = cs, rq' = rq, left' = left, rl' = rl PROVE Rests /\ Around
<1>1. Around
  BY DEF Inv, Shapes, Around
<1>. QED  BY <1>1, CsUnchanged, CcKeptStill DEF Rests

\* The connections are left alone.
LEMMA CcSelf ==
  ASSUME Inv, cc' = cc PROVE CcKept(cc, cc')
BY Shaped DEF CcKept, CcSame, MuxSame, WinSame

\* The pool is left alone.
LEMMA PoolSelf ==
  ASSUME Inv, pool' = pool PROVE pool' \in Seq(Conns)
BY DEF Inv, Shapes

\* A connection is up.
LEMMA DialedDoes ==
  ASSUME Inv, NEW c \in Conns, dialed(c) PROVE Rests /\ Around
<1>1. cs' = cs /\ rq' = rq /\ left' = left /\ rl' = rl
  BY DEF dialed
<1>2. cc' = cc \/ \E v : cc' = [cc EXCEPT ![c].up = TRUE, ![c].timer = v]
  BY Zenon DEF dialed
<1>3. pool' = pool \/ pool' = Append(pool, c)
  BY Zenon DEF dialed
<1>4. CcKept(cc, cc')
  <2>1. CASE cc' = cc
    BY <2>1, CcSelf
  <2>2. ASSUME NEW v, cc' = [cc EXCEPT ![c].up = TRUE, ![c].timer = v] PROVE CcKept(cc, cc')
    BY <2>2, Shaped, OtherKept
  <2>. QED  BY <1>2, <2>1, <2>2
<1>5. pool' \in Seq(Conns)
  BY <1>3, PoolType
<1>. QED  BY <1>1, <1>4, <1>5, ConnsRest

\* A connection that is up goes to the pool.
LEMMA AddConnIfNeededDoes ==
  ASSUME Inv, NEW c \in Conns, addConnIfNeeded(c) PROVE Rests /\ Around
<1>1. cs' = cs /\ rq' = rq /\ left' = left /\ rl' = rl
  BY DEF addConnIfNeeded
<1>2. cc' = cc \/ \E v : cc' = [cc EXCEPT ![c].up = TRUE, ![c].timer = v]
  BY Zenon DEF addConnIfNeeded
<1>3. pool' = pool \/ pool' = Append(pool, c)
  BY Zenon DEF addConnIfNeeded
<1>4. CcKept(cc, cc')
  <2>1. CASE cc' = cc
    BY <2>1, CcSelf
  <2>2. ASSUME NEW v, cc' = [cc EXCEPT ![c].up = TRUE, ![c].timer = v] PROVE CcKept(cc, cc')
    BY <2>2, Shaped, OtherKept
  <2>. QED  BY <1>2, <2>1, <2>2
<1>5. pool' \in Seq(Conns)
  BY <1>3, PoolType
<1>. QED  BY <1>1, <1>4, <1>5, ConnsRest

\* Idle connections are closed.
LEMMA ClosedIfIdleKept ==
  ASSUME Inv, NEW S, NEW g, g = closedIfIdle(S) PROVE CcKept(cc, g)
<1>1. g = [c \in Conns |-> g[c]] /\ \A c \in Conns : g[c] = cc[c] \/ g[c] = [cc[c] EXCEPT !.closed = TRUE, !.gone = TRUE]
  BY Zenon DEF closedIfIdle
<1>2. ASSUME NEW c \in Conns
      PROVE  /\ g[c] = [x \in CcFields |-> g[c][x]]
             /\ g[c].next = cc[c].next /\ g[c].lastHdr = cc[c].lastHdr /\ g[c].hdrMu = cc[c].hdrMu /\ g[c].goAway = cc[c].goAway
             /\ g[c].avail = cc[c].avail /\ g[c].unsent = cc[c].unsent /\ g[c].lost = cc[c].lost
  <2>1. cc[c] = [x \in CcFields |-> cc[c][x]]
    BY Shaped DEF IsCc, Table
  <2>2. CASE g[c] = cc[c]
    BY <2>1, <2>2
  <2>3. CASE g[c] = [cc[c] EXCEPT !.closed = TRUE, !.gone = TRUE]
    BY <2>1, <2>3, CcHas
  <2>. QED  BY <1>1, <2>2, <2>3
<1>. QED  BY <1>1, <1>2 DEF CcKept, IsCc, Table, CcSame, MuxSame, WinSame

\* The idle timer of a connection fires.
LEMMA OnIdleTimeoutDoes ==
  ASSUME Inv, NEW c \in Conns, onIdleTimeout(c) PROVE Rests /\ Around
<1>1. cs' = cs /\ rq' = rq /\ left' = left /\ rl' = rl /\ pool' = pool
  BY DEF onIdleTimeout
<1>2. PICK g : g = closedIfIdle({c}) /\ cc' = [g EXCEPT ![c].timer = FALSE]
  BY Zenon DEF onIdleTimeout
<1>3. CcKept(cc, g)
  BY <1>2, ClosedIfIdleKept
<1>4. CcKept(g, cc')
  BY <1>2, <1>3, OtherKept DEF CcKept
<1>. QED  BY <1>1, <1>3, <1>4, KeptThrough, PoolSelf, ConnsRest

\* CloseIdleConnections.
LEMMA CloseIdleConnectionsDoes ==
  ASSUME Inv, closeIdleConnections PROVE Rests /\ Around
<1>1. cs' = cs /\ rq' = rq /\ left' = left /\ rl' = rl /\ pool' = pool /\ cc' = closedIfIdle(ToSet(pool))
  BY DEF closeIdleConnections
<1>. QED  BY <1>1, ClosedIfIdleKept, PoolSelf, ConnsRest

\* The steps that set one field of a connection.
LEMMA OneFieldDoes ==
  ASSUME Inv, NEW c \in Conns, suspend(c) \/ netDown(c) \/ healthCheck(c) PROVE Rests /\ Around
<1>1. cs' = cs /\ rq' = rq /\ left' = left /\ rl' = rl /\ pool' = pool
  BY DEF suspend, netDown, healthCheck
<1>2. \/ cc' = [cc EXCEPT ![c].idle = "tooIdle"] \/ cc' = [cc EXCEPT ![c].gone = TRUE]
      \/ cc' = [cc EXCEPT ![c].ping = TRUE]
  BY Zenon DEF suspend, netDown, healthCheck
<1>3. CcKept(cc, cc')
  <2>1. CASE cc' = [cc EXCEPT ![c].idle = "tooIdle"]
    BY <2>1, Shaped, OtherKept
  <2>2. CASE cc' = [cc EXCEPT ![c].gone = TRUE]
    BY <2>2, Shaped, OtherKept
  <2>3. CASE cc' = [cc EXCEPT ![c].ping = TRUE]
    BY <2>3, Shaped, OtherKept
  <2>. QED  BY <1>2, <2>1, <2>2, <2>3
<1>. QED  BY <1>1, <1>3, PoolSelf, ConnsRest

\* Shutdown begins.
LEMMA ShutdownDoes ==
  ASSUME Inv, NEW c \in Conns, Shutdown(c) PROVE Rests /\ Around
<1>1. cs' = cs /\ rq' = rq /\ left' = left /\ rl' = rl /\ pool' = pool
  BY DEF Shutdown
<1>2. PICK g, v : g = [cc EXCEPT ![c].closing = TRUE, ![c].shut = v] /\ cc' = wrote(g, c)
  BY Zenon DEF Shutdown
<1>3. CcKept(cc, g)
  <2>1. PICK t : t = TRUE
    OBVIOUS
  <2>2. g = [cc EXCEPT ![c].closing = t, ![c].shut = v]
    BY <1>2, <2>1
  <2>. QED  BY <2>2, Shaped, OtherKept
<1>4. CcKept(g, cc')
  BY <1>2, <1>3, WroteKept DEF CcKept
<1>. QED  BY <1>1, <1>3, <1>4, KeptThrough, PoolSelf, ConnsRest

\* Shutdown ends.
LEMMA ShutdownDoneDoes ==
  ASSUME Inv, NEW c \in Conns, shutdownDone(c) PROVE Rests /\ Around
<1>1. /\ cs' = cs /\ rq' = rq /\ left' = left /\ rl' = rl /\ pool' = pool
      /\ cc' = [cc EXCEPT ![c].closed = TRUE, ![c].gone = TRUE, ![c].shut = "done"]
  BY DEF shutdownDone
<1>2. IsCc(cc')
  BY <1>1, Shaped, CcHas DEF IsCc, Table
<1>3. \A d \in Conns : d # c => cc'[d] = cc[d]
  BY <1>1, Shaped, CcHas DEF IsCc, Table
<1>4. cc'[c].next = cc[c].next /\ cc'[c].lastHdr = cc[c].lastHdr /\ cc'[c].hdrMu = cc[c].hdrMu /\ cc'[c].goAway = cc[c].goAway
  BY <1>1, Shaped, CcHas DEF IsCc, Table
<1>5. cc'[c].avail = cc[c].avail /\ cc'[c].unsent = cc[c].unsent /\ cc'[c].lost = cc[c].lost
  BY <1>1, Shaped, CcHas DEF IsCc, Table
<1>6. CcKept(cc, cc')
  BY <1>2, <1>3, <1>4, <1>5 DEF CcKept, CcSame, MuxSame, WinSame
<1>. QED  BY <1>1, <1>6, PoolSelf, ConnsRest

\* A connection is closed with the streams it has.
LEMMA CloseDownDoes ==
  ASSUME Inv, NEW c \in Conns, closeForLostPing(c) \/ CloseConn(c) PROVE Fails /\ Around
<1>1. closeForError(cs, c) /\ rq' = rq /\ UNCHANGED <<pool, left, rl>>
  BY DEF closeForLostPing, CloseConn
<1>2. CcKept(cc, cc') /\ Failed(cs, cs', streams(cs, c), "conn")
  BY <1>1, Shaped, CloseForErrorDoes
<1>3. RowsFail
  <2>1. PICK S : S = streams(cs, c)
    BY Zenon
  <2>2. Failed(cs, cs', S, "conn")
    BY <1>2, <2>1
  <2>3. "conn" \in Plain
    BY DEF Plain
  <2>. QED  BY <2>2, <2>3, FailedRows
<1>. QED  BY <1>1, <1>2, <1>3, CcKeptStill, AroundStill DEF Fails

----------------------------------------------------------------------------
(* The steps together *)

\* Every step of a caller is of one of the kinds.
LEMMA CallerDoes ==
  ASSUME Inv, NEW r \in Reqs, Caller(r) \/ cancel(r) \/ Read(r) \/ Close(r)
  PROVE  Step /\ Around
<1>1. /\ pool' = pool /\ left' = left /\ rl' = rl
  BY DEF Caller, cancel, Read, Close, getClientConn, gotDial, backoff, handleResponseHeaders, roundTripAborted,
         roundTripCanceled, cancelRequest, waitDone, bodyClose
<1>2. \/ CallerMoves(r) \/ (\E c \in Conns : Starts(r, c)) \/ Cancels(r) \/ (\E n \in Nat : Reads(r, n)) \/ Closes(r)
  BY GetClientConnDoes, GotDialDoes, BackoffDoes, HandleResponseHeadersDoes, RoundTripAbortedDoes,
     RoundTripCanceledDoes, CancelRequestDoes, WaitDoneDoes, BodyCloseDoes, CancelDoes, ReadDoes, CloseDoes, Zenon
     DEF Caller
<1>3. Around
  BY <1>1, AroundStill
<1>4. Step
  BY <1>2, Zenon DEF Step
<1>. QED  BY <1>3, <1>4

\* Every step of a sender is.
LEMMA SenderDoes ==
  ASSUME Inv, NEW a \in Attempts, Sender(a) \/ closeReqBody(a) PROVE Step /\ Around
<1>1. /\ pool' = pool /\ left' = left /\ rl' = rl
  BY DEF Sender, closeReqBody, lock, slotWoken, encodeAndWriteHeaders, await100, readBody, awaitFlowControl, endRequest,
         awaitPeer, cleanupWriteRequest, settleError, abortOwnStream, writeStreamReset, closeBufPipe,
         forgetStreamID, finish
<1>2. Stops(a) \/ Opens(a) \/ Writes(a) \/ GoesOn(a) \/ Leaves(a) \/ Resets(a) \/ Rests
  BY LockDoes, SlotWokenDoes, EncodeAndWriteHeadersDoes, Await100Does, ReadBodyDoes, AwaitFlowControlDoes, EndRequestDoes,
     AwaitPeerDoes, CleanupWriteRequestDoes, SettleErrorDoes, AbortOwnStreamDoes, WriteStreamResetDoes, CloseBufPipeDoes, ForgetStreamIDDoes, FinishDoes, CloseReqBodyDoes, Zenon
     DEF Sender
<1>3. Around
  BY <1>1, AroundStill
<1>4. Step
  BY <1>2, Zenon DEF Step
<1>. QED  BY <1>3, <1>4

\* Every step of a read loop is.
LEMMA ReaderDoes ==
  ASSUME Inv, NEW c \in Conns, Reader(c) \/ readFails(c) \/ endStream(c) PROVE Step /\ Around
<1>1. /\ Around
      /\ \/ Rests \/ Fails \/ (\E a \in Attempts : Responds(a)) \/ (\E a \in Attempts, n \in Nat : Feeds(a, n))
         \/ GoesAway(c) \/ (\E a \in Attempts : PeerResets(a)) \/ (\E a \in Attempts : Ends(a))
  BY UnknownFrameDoes, BadFrameDoes, ProcessHeadersDoes, ProcessDataDoes, ProcessGoAwayDoes, ProcessSettingsDoes, ProcessWindowUpdateDoes,
     ProcessResetStreamDoes, ProcessPingDoes, ProcessPushPromiseDoes, ReadFailsDoes, EndStreamDoes, Zenon DEF Reader
<1>. QED  BY <1>1, Zenon DEF Step

\* Every step of a connection is.
LEMMA ConnDoes ==
  ASSUME Inv, NEW c \in Conns,
         \/ dialed(c) \/ addConnIfNeeded(c) \/ onIdleTimeout(c) \/ suspend(c) \/ healthCheck(c) \/ closeForLostPing(c)
         \/ netDown(c) \/ CloseConn(c) \/ Shutdown(c) \/ shutdownDone(c)
  PROVE  Step /\ Around
<1>1. (Rests \/ Fails) /\ Around
  BY DialedDoes, AddConnIfNeededDoes, OnIdleTimeoutDoes, OneFieldDoes, CloseDownDoes, ShutdownDoes, ShutdownDoneDoes, Zenon
<1>. QED  BY <1>1, Zenon DEF Step

\* Every step of the program is one of those that the invariant was shown for.
LEMMA NextDoes ==
  ASSUME Inv, [Next]_vars PROVE Step /\ Around
<1>1. CASE Next
  BY <1>1, CallerDoes, SenderDoes, ReaderDoes, ConnDoes, CloseIdleConnectionsDoes, Zenon DEF Next, Step
<1>2. CASE UNCHANGED vars
  <2>1. cs' = cs /\ cc' = cc /\ rq' = rq /\ UNCHANGED <<pool, left, rl>>
    BY <1>2 DEF vars
  <2>2. Rests
    BY <2>1, CsUnchanged, CcUnchanged DEF Rests
  <2>. QED  BY <2>1, <2>2, AroundStill, Zenon DEF Step
<1>. QED  BY <1>1, <1>2

----------------------------------------------------------------------------
(* The invariant *)

\* A new stream and a new connection have their fields.
LEMMA NewRecords ==
  /\ newStream = [x \in CsFields |-> newStream[x]]
  /\ newClientConn = [x \in CcFields |-> newClientConn[x]]
<1>1. newStream = [x \in CsFields |-> newStream[x]]
  BY DEF newStream, CsFields
<1>2. newClientConn = [x \in CcFields |-> newClientConn[x]]
  BY DEF newClientConn, CcFields
<1>. QED  BY <1>1, <1>2

\* What the invariant needs of the first values.
LEMMA NewStreamHas ==
  /\ newStream.pc = "none" /\ newStream.err = "" /\ newStream.cc = 0 /\ newStream.id = 0 /\ newStream.in = FALSE
  /\ newStream.abort = "" /\ newStream.sentHeaders = FALSE /\ newStream.sent = "none"
  /\ newStream.resp = "none" /\ newStream.buf = 0 /\ newStream.pipeErr = "" /\ newStream.fed = 0
  /\ newStream.remain = -1 /\ newStream.whole = FALSE /\ newStream.early = FALSE
BY DEF newStream

\* What a new connection says of its streams and its window.
LEMMA NewConnHas ==
  /\ newClientConn.next = 1 /\ newClientConn.lastHdr = 0 /\ newClientConn.goAway = -1
  /\ newClientConn.avail = ConnFlow /\ newClientConn.unsent = 0 /\ newClientConn.lost = 0
BY DEF newClientConn

\* The tables at the start.
Begun ==
  /\ cs = [a \in Attempts |-> newStream] /\ cc = [c \in Conns |-> newClientConn] /\ pool = <<>>
  /\ rl = [c \in Conns |-> None]
BegunCalls ==
  /\ rq = [r \in Reqs |-> rq[r]]
  /\ \A r \in Reqs : \E p \in {"get", "ok"} :
       rq[r] = [pc |-> p, k |-> 0, call |-> 0, err |-> "", got |-> 0, cancelled |-> FALSE]

\* The program begins without streams or frames read.
LEMMA InitBegun ==
  ASSUME Init PROVE Begun /\ BegunCalls
<1>1. Begun
  BY Zenon DEF Init, Begun
<1>2. rq = [r \in Reqs |-> [pc |-> IF r \in DOMAIN desc THEN "get" ELSE "ok", k |-> 0, call |-> 0, err |-> "", got |-> 0, cancelled |-> FALSE]]
  BY Zenon DEF Init
<1>3. rq = [r \in Reqs |-> rq[r]]
  BY <1>2, Zenon
<1>4. ASSUME NEW r \in Reqs
      PROVE  \E p \in {"get", "ok"} : rq[r] = [pc |-> p, k |-> 0, call |-> 0, err |-> "", got |-> 0, cancelled |-> FALSE]
  <2>1. PICK p : p = (IF r \in DOMAIN desc THEN "get" ELSE "ok") /\ rq[r] = [pc |-> p, k |-> 0, call |-> 0, err |-> "", got |-> 0, cancelled |-> FALSE]
    BY <1>2, Zenon
  <2>2. p \in {"get", "ok"}
    BY <2>1, Zenon
  <2>. QED  BY <2>1, <2>2
<1>. QED  BY <1>1, <1>3, <1>4 DEF BegunCalls

\* No attempt was begun.
LEMMA BegunRow ==
  ASSUME Begun, NEW a \in Attempts PROVE cs[a] = newStream
BY DEF Begun

\* No connection was used.
LEMMA BegunConn ==
  ASSUME Begun, NEW c \in Conns PROVE cc[c] = newClientConn
BY DEF Begun

\* No call was made.
LEMMA BegunCall ==
  ASSUME BegunCalls, NEW r \in Reqs
  PROVE  /\ rq[r] = [x \in RqFields |-> rq[r][x]] /\ rq[r].pc \in {"get", "ok"} /\ rq[r].k = 0 /\ rq[r].got = 0
<1>1. PICK p \in {"get", "ok"} : rq[r] = [pc |-> p, k |-> 0, call |-> 0, err |-> "", got |-> 0, cancelled |-> FALSE]
  BY DEF BegunCalls
<1>2. PICK q : q = rq[r] /\ q = [pc |-> p, k |-> 0, call |-> 0, err |-> "", got |-> 0, cancelled |-> FALSE]
  BY <1>1, Zenon
<1>3. q = [pc |-> p, k |-> 0, call |-> 0, err |-> "", got |-> 0, cancelled |-> FALSE]
  BY <1>2
<1>4. q = [x \in RqFields |-> q[x]]
  BY <1>3 DEF RqFields
<1>5. q.pc = p /\ q.k = 0 /\ q.got = 0
  BY <1>3
<1>. QED  BY <1>1, <1>2, <1>4, <1>5, Zenon

\* The invariant holds at the start.
LEMMA InitInv ==
  ASSUME Init PROVE Inv
<1>. Begun /\ BegunCalls
  BY InitBegun
<1>1. PICK s \in Scenarios : left = s.scripts
  BY DEF Init
<1>2. Shapes
  <2>1. Table(cs, Attempts, CsFields)
    BY BegunRow, NewRecords DEF Table, Begun
  <2>2. Table(cc, Conns, CcFields)
    BY BegunConn, NewRecords DEF Table, Begun
  <2>3. Table(rq, Reqs, RqFields)
    BY BegunCall DEF Table, BegunCalls
  <2>4. pool \in Seq(Conns) /\ rl \in [Conns -> Attempts \cup {None}]
    BY DEF Begun
  <2>5. left \in [Conns -> Seq(Frame)]
    BY <1>1, ScenarioAssumption
  <2>. QED  BY <2>1, <2>2, <2>3, <2>4, <2>5 DEF Shapes
<1>3. Numbers
  <2>1. ASSUME NEW a \in Attempts PROVE RowNumbers(a)
    <3>1. cs[a].id = 0 /\ cs[a].buf = 0 /\ cs[a].fed = 0 /\ cs[a].remain = -1
      BY BegunRow, NewStreamHas
    <3>. QED  BY <3>1 DEF RowNumbers
  <2>2. ASSUME NEW c \in Conns PROVE ConnNumbers(c)
    BY BegunConn, NewConnHas, WindowAssumption DEF ConnNumbers
  <2>3. ASSUME NEW r \in Reqs PROVE CallNumbers(r)
    <3>1. rq[r].k = 0 /\ rq[r].got = 0
      BY BegunCall
    <3>. QED  BY <3>1, MaxRetryNat DEF CallNumbers
  <2>. QED  BY <2>1, <2>2, <2>3 DEF Numbers
<1>4. Slots
  BY BegunRow, NewStreamHas DEF Slots, SlotOf, Sending
<1>5. Errors
  BY BegunRow, NewStreamHas DEF Errors, ErrorOf, Aborts, OwnErrors
<1>6. GoAways
  <2>1. \A c \in Conns : cc[c].goAway = -1
    BY BegunConn, NewConnHas
  <2>. QED  BY <1>1, <2>1, ScenarioAssumption DEF GoAways
<1>7. Streams
  BY BegunRow, NewStreamHas DEF Streams, StreamOf
<1>8. Tries
  <2>1. ASSUME NEW a \in Attempts PROVE TryOf(a)
    <3>1. rq[a[1]].k = 0 /\ a[2] \in 1 .. MaxRetry + 2
      BY AttemptPairs, BegunCall
    <3>2. a[2] \in Nat /\ a[2] > 0
      BY <3>1, MaxRetryNat
    <3>3. cs[a].pc = "none"
      BY BegunRow, NewStreamHas
    <3>. QED  BY <3>1, <3>2, <3>3 DEF TryOf
  <2>2. ASSUME NEW r \in Reqs PROVE CallerOf(r)
    <3>1. rq[r].k = 0 /\ rq[r].pc \in {"get", "ok"}
      BY BegunCall
    <3>2. ~(rq[r].k > 0) /\ rq[r].k <= MaxRetry + 1
      BY <3>1, MaxRetryNat
    <3>3. /\ rq[r].pc \in Between \cup {"ok", "failed"}
          /\ rq[r].pc \notin {"dialing", "waitAbort", "cancelRequest"}
      BY <3>1 DEF Between
    <3>. QED  BY <3>2, <3>3, Zenon DEF CallerOf
  <2>. QED  BY <2>1, <2>2 DEF Tries
<1>9. ReadSoFar
  <2>1. ASSUME NEW r \in Reqs PROVE ReadOf(r)
    <3>1. rq[r].k = 0 /\ rq[r].pc \in {"get", "ok"} /\ rq[r].got = 0
      BY BegunCall
    <3>2. ~(rq[r].k > 0)
      BY <3>1
    <3>3. rq[r].pc \notin {"reading", "eof", "readErr"}
      BY <3>1
    <3>. QED  BY <3>1, <3>2, <3>3, Zenon DEF ReadOf
  <2>. QED  BY <2>1 DEF ReadSoFar
<1>. QED  BY <1>2, <1>3, <1>4, <1>5, <1>6, <1>7, <1>8, <1>9 DEF Inv

\* Inv, which the other theorems rest on, holds in every reachable state: the mutex of the
\* headers and the identifiers (writeRequest), what an error says of what was sent (abortStream,
\* processGoAway), the attempts of RoundTripOpt, and the account of what a body was fed and read.
THEOREM Invariance == Spec => []Inv
<1>1. Init => Inv
  BY InitInv
<1>2. Inv /\ [Next]_vars => Inv'
  BY NextDoes, StepKeepsInv
<1>. QED  BY <1>1, <1>2, PTL DEF Spec

\* No frame of a request is illegal where it is written.  writeRequest takes reqHeaderMu before
\* addStreamLocked gives the stream its identifier and keeps it until HEADERS are written, so
\* that identifiers reach the wire in their order; and DATA is only written by a sender that has
\* written HEADERS and has not ended the stream.
THEOREM WireLegality == Spec => []WireLegal
<1>1. Inv => WireLegal
  BY DEF Inv, Slots, SlotOf, WireLegal
<1>. QED  BY <1>1, Invariance, PTL

\* What the invariant says of the attempts is RetrySafe.
LEMMA InvRetrySafe ==
  ASSUME Inv PROVE RetrySafe
<1>1. ASSUME NEW a \in Attempts, a[2] > 1, cs[a].pc # "none", NEW p, p = <<a[1], a[2] - 1>>
      PROVE  /\ cs[p].resp = "none" \/ ~cs[p].early
             /\ \/ ~cs[p].sentHeaders
                \/ cs[p].abort \in {"refused", "protoPeer"}
                \/ cs[p].abort = "goaway" /\ cs[p].id > cc[cs[p].cc].goAway
  <2>1. a[1] \in Reqs /\ a[2] \in 1 .. MaxRetry + 2
    BY AttemptPairs
  <2>2. a[2] - 1 \in 1 .. MaxRetry + 2
    BY <1>1, <2>1, MaxRetryNat
  <2>3. p \in Attempts /\ p[1] = a[1] /\ p[2] = a[2] - 1
    BY <1>1, <2>1, <2>2, AttemptPairs
  <2>4. a[2] <= rq[a[1]].k
    BY <1>1 DEF Inv, Tries, TryOf
  <2>5. p[2] < rq[p[1]].k
    <3>1. rq[a[1]].k \in Int
      BY <2>1, MaxRetryNat DEF Inv, Numbers, CallNumbers
    <3>. QED  BY <2>1, <2>3, <2>4, <3>1, MaxRetryNat
  <2>6. GivenUp(p)
    BY <2>3, <2>5 DEF Inv, Tries, TryOf
  <2>7. cs[p].abort = "goaway" => cs[p].id > cc[cs[p].cc].goAway
    BY <2>3, Zenon DEF Inv, Errors, ErrorOf
  <2>8. ~cs[p].early /\ (~cs[p].sentHeaders \/ cs[p].abort \in {"refused", "protoPeer", "goaway"})
    BY <2>6, Zenon DEF GivenUp
  <2>. QED  BY <2>7, <2>8, Zenon
<1>. QED  BY <1>1, Zenon DEF RetrySafe

\* RoundTripOpt repeats a request only when the attempt before failed without a response and the
\* server cannot have acted on it: nothing was sent, or the peer refused the stream or said in
\* its GOAWAY that it would not look at it (canRetryError, processGoAway, processResetStream).
THEOREM RetrySafety == Spec => []RetrySafe
BY Invariance, InvRetrySafe, PTL

\* What it says of the reads is ResponsesWhole.
LEMMA InvResponsesWhole ==
  ASSUME Inv PROVE ResponsesWhole
<1>1. ASSUME NEW r \in Reqs, rq[r].k > 0, NEW a, a = attempt(r)
      PROVE  /\ rq[r].pc = "eof" => cs[a].peerClosed /\ rq[r].got = cs[a].fed /\ cs[a].remain \in {-1, 0}
             /\ cs[a].whole => cs[a].pipeErr = "EOF"
             /\ rq[r].pc = "readErr" /\ cs[a].whole => cs[a].remain > 0 \/ cs[a].abort # ""
             /\ rq[r].pc = "failed" /\ cs[a].early => rq[r].cancelled
  <2>1. a \in Attempts /\ CallNumbers(r)
    BY <1>1, AttemptOf DEF Inv, Numbers
  <2>2. StreamOf(a) /\ CallerOf(r) /\ ReadOf(r) /\ RowNumbers(a)
    BY <2>1 DEF Inv, Streams, Tries, ReadSoFar, Numbers
  <2>3. rq[r].pc = "eof" => cs[a].buf = 0 /\ cs[a].pipeErr = "EOF" /\ cs[a].remain \in {-1, 0} /\ rq[r].got + cs[a].buf = cs[a].fed
    BY <1>1, <2>2, Zenon DEF ReadOf
  <2>4. rq[r].got \in Int /\ cs[a].buf \in Nat /\ cs[a].fed \in Nat
    BY <2>1, <2>2 DEF CallNumbers, RowNumbers
  <2>5. rq[r].pc = "eof" => rq[r].got = cs[a].fed
    BY <2>3, <2>4
  <2>6. (cs[a].pipeErr = "EOF" => cs[a].peerClosed) /\ (cs[a].whole => cs[a].pipeErr = "EOF")
    BY <2>2, Zenon DEF StreamOf
  <2>7. rq[r].pc = "readErr" => cs[a].remain > 0 \/ cs[a].abort # "" \/ (cs[a].pipeErr # "" /\ ~cs[a].whole)
    BY <1>1, <2>2, Zenon DEF ReadOf
  <2>8. rq[r].pc = "failed" => rq[r].cancelled \/ (cs[a].abort # "" /\ ~cs[a].early)
    BY <1>1, <2>2, Zenon DEF CallerOf
  <2>. QED  BY <2>3, <2>5, <2>6, <2>7, <2>8, Zenon
<1>2. BodyWhole
  BY <1>1, Zenon DEF BodyWhole
<1>3. ResponseKept
  BY <1>1, Zenon DEF ResponseKept
<1>. QED  BY <1>2, <1>3 DEF ResponsesWhole

\* RoundTrip prefers a response that came before the stream failed, and the caller sees the end
\* of a body only when the peer ended the stream, every byte was read and the declared length
\* was met: the pipe of a body keeps its first error (closeWithErrorAndCode, endStream).
THEOREM WholeResponses == Spec => []ResponsesWhole
BY Invariance, InvResponsesWhole, PTL

----------------------------------------------------------------------------
(* The receive window of a connection *)

\* The streams of a connection, and the bytes in their bodies' buffers.
Of(f, c) == {a \in Attempts : f[a].cc = c}
Bufs(f) == [a \in Attempts |-> f[a].buf]
Held(f, c) == Total(Bufs(f), Of(f, c))
\* The same without stream a.
Rest(f, c, a) == Total(Bufs(f), Of(f, c) \ {a})
HasBufs(f) == \A a \in Attempts : f[a].buf \in Int

\* There are finitely many attempts: requests are, and tries.
LEMMA AttemptsFinite == IsFiniteSet(Attempts)
<1>1. IsFiniteSet(1 .. MaxRetry + 2)
  <2>1. MaxRetry + 2 \in Int /\ 1 \in Int
    BY MaxRetryNat
  <2>. QED  BY <2>1, FS_Interval
<1>2. IsFiniteSet(Reqs)
  BY SizeAssumption
<1>. QED  BY <1>1, <1>2, FS_Product DEF Attempts

\* The attempts on a connection are some of them.
LEMMA OfFinite ==
  ASSUME NEW f, NEW c, NEW R, R \subseteq Of(f, c) PROVE IsFiniteSet(R) /\ R \subseteq Attempts
<1>1. R \subseteq Attempts
  BY DEF Of
<1>. QED  BY <1>1, AttemptsFinite, FS_Subset

\* What the body of an attempt has buffered.
LEMMA BufsAt ==
  ASSUME NEW f, NEW a \in Attempts PROVE Bufs(f)[a] = f[a].buf
BY DEF Bufs

\* What a connection's bodies hold, with one of them apart.
LEMMA HeldSplit ==
  ASSUME NEW f, HasBufs(f), NEW c, NEW a \in Attempts
  PROVE  /\ Rest(f, c, a) \in Int
         /\ f[a].cc = c => Held(f, c) = f[a].buf + Rest(f, c, a)
         /\ f[a].cc # c => Held(f, c) = Rest(f, c, a)
<1>. DEFINE S == Of(f, c)
<1>1. IsFiniteSet(S) /\ S \subseteq Attempts
  BY OfFinite
<1>2. IsFiniteSet(S \ {a}) /\ S \ {a} \subseteq Attempts
  BY OfFinite
<1>3. a \in S <=> f[a].cc = c
  BY DEF Of
<1>. HIDE DEF S
<1>4. \A x \in Attempts : Bufs(f)[x] = f[x].buf /\ Bufs(f)[x] \in Int
  BY BufsAt DEF HasBufs
<1>5. \A x \in S : Bufs(f)[x] \in Int
  BY <1>1, <1>4
<1>6. \A x \in S \ {a} : Bufs(f)[x] \in Int
  BY <1>2, <1>4
<1>7. Total(Bufs(f), S \ {a}) \in Int
  BY <1>2, <1>6, TotalSplit
<1>8. \A x \in S : Total(Bufs(f), S) = Bufs(f)[x] + Total(Bufs(f), S \ {x})
  BY <1>1, <1>5, TotalSplit
<1>9. f[a].cc = c => Total(Bufs(f), S) = f[a].buf + Total(Bufs(f), S \ {a})
  BY <1>3, <1>4, <1>8, Zenon
<1>10. f[a].cc # c => Total(Bufs(f), S) = Total(Bufs(f), S \ {a})
  <2>1. f[a].cc # c => S \ {a} = S
    BY <1>3
  <2>. QED  BY <2>1, Zenon
<1>. QED  BY <1>7, <1>9, <1>10, Zenon DEF Held, Rest, S

\* The others hold what they held.
LEMMA RestSame ==
  ASSUME NEW f, NEW g, NEW c, NEW a, \A b \in Attempts : b # a => g[b].cc = f[b].cc /\ g[b].buf = f[b].buf
  PROVE  Rest(g, c, a) = Rest(f, c, a)
<1>1. PICK R : R = Of(f, c) \ {a}
  BY Zenon
<1>2. Of(g, c) \ {a} = R
  BY <1>1 DEF Of
<1>3. IsFiniteSet(R) /\ R \subseteq Attempts /\ a \notin R
  BY <1>1, OfFinite
<1>4. \A x \in R : Bufs(f)[x] = Bufs(g)[x]
  BY <1>3 DEF Bufs
<1>5. Total(Bufs(f), R) = Total(Bufs(g), R)
  BY <1>3, <1>4, TotalSame
<1>. QED  BY <1>1, <1>2, <1>5, Zenon DEF Rest

\* A step that leaves every buffer alone.
LEMMA HeldSame ==
  ASSUME NEW f, NEW g, NEW c, \A b \in Attempts : g[b].cc = f[b].cc /\ g[b].buf = f[b].buf
  PROVE  Held(g, c) = Held(f, c)
<1>1. PICK R : R = Of(f, c)
  BY Zenon
<1>2. Of(g, c) = R
  BY <1>1 DEF Of
<1>3. IsFiniteSet(R) /\ R \subseteq Attempts
  BY <1>1, OfFinite
<1>4. \A x \in R : Bufs(f)[x] = Bufs(g)[x]
  BY <1>3 DEF Bufs
<1>5. Total(Bufs(f), R) = Total(Bufs(g), R)
  BY <1>3, <1>4, TotalSame
<1>. QED  BY <1>1, <1>2, <1>5, Zenon DEF Held

\* CreditKept, as the steps keep it.
Kept(f, g) == \A c \in Conns : Credit(f, c) + Held(g, c) = ConnFlow

\* Nothing enters or leaves a buffer.
LEMMA EvenKeeps ==
  ASSUME Kept(cc, cs), Even, \A b \in Attempts : cs'[b].cc = cs[b].cc /\ cs'[b].buf = cs[b].buf
  PROVE  Kept(cc', cs')
<1>1. \A c \in Conns : Credit(cc', c) = Credit(cc, c)
  BY DEF Even
<1>2. \A c \in Conns : Held(cs', c) = Held(cs, c)
  BY HeldSame
<1>. QED  BY <1>1, <1>2 DEF Kept

\* Bytes move between the window and the buffer of one stream.
LEMMA MovedKeeps ==
  ASSUME Inv, Kept(cc, cs), HasBufs(cs'), NEW a \in Attempts, NEW n \in Int, RowsBut(a), cs'[a].cc = cs[a].cc,
         cs'[a].buf = cs[a].buf + n,
         \A c \in Conns : c = cs[a].cc => Credit(cc', c) = Credit(cc, c) - n,
         \A c \in Conns : c # cs[a].cc => Credit(cc', c) = Credit(cc, c)
  PROVE  Kept(cc', cs')
<1>1. HasBufs(cs)
  BY DEF Inv, Numbers, RowNumbers, HasBufs
<1>2. \A b \in Attempts : b # a => cs'[b].cc = cs[b].cc /\ cs'[b].buf = cs[b].buf
  BY DEF RowsBut, Same, SendSame, ReadSame
<1>3. ASSUME NEW c \in Conns PROVE Credit(cc', c) + Held(cs', c) = ConnFlow
  <2>1. Credit(cc, c) + Held(cs, c) = ConnFlow /\ Credit(cc, c) \in Int
    BY CreditInt DEF Kept
  <2>2. Rest(cs', c, a) = Rest(cs, c, a)
    BY <1>2, RestSame
  <2>3. /\ Rest(cs, c, a) \in Int
        /\ cs[a].cc = c => Held(cs, c) = cs[a].buf + Rest(cs, c, a)
        /\ cs[a].cc # c => Held(cs, c) = Rest(cs, c, a)
    BY <1>1, HeldSplit
  <2>4. /\ cs'[a].cc = c => Held(cs', c) = cs'[a].buf + Rest(cs', c, a)
        /\ cs'[a].cc # c => Held(cs', c) = Rest(cs', c, a)
    BY HeldSplit
  <2>5. cs[a].buf \in Int
    BY <1>1 DEF HasBufs
  <2>6. CASE c = cs[a].cc
    <3>1. Held(cs', c) = cs'[a].buf + Rest(cs, c, a)
      BY <2>2, <2>4, <2>6, Zenon
    <3>2. Held(cs, c) = cs[a].buf + Rest(cs, c, a) /\ Credit(cc', c) = Credit(cc, c) - n
      BY <2>3, <2>6
    <3>. QED  BY <2>1, <2>3, <2>5, <3>1, <3>2
  <2>7. CASE c # cs[a].cc
    <3>1. Held(cs', c) = Rest(cs, c, a)
      BY <2>2, <2>4, <2>7, Zenon
    <3>2. Held(cs, c) = Rest(cs, c, a) /\ Credit(cc', c) = Credit(cc, c)
      BY <2>3, <2>7
    <3>. QED  BY <2>1, <3>1, <3>2
  <2>. QED  BY <2>6, <2>7
<1>. QED  BY <1>3 DEF Kept

\* An empty buffer may belong to any connection.
LEMMA EmptyKeeps ==
  ASSUME Inv, Kept(cc, cs), HasBufs(cs'), Even, NEW a \in Attempts, RowsBut(a), cs[a].buf = 0, cs'[a].buf = 0
  PROVE  Kept(cc', cs')
<1>1. HasBufs(cs)
  BY DEF Inv, Numbers, RowNumbers, HasBufs
<1>2. \A b \in Attempts : b # a => cs'[b].cc = cs[b].cc /\ cs'[b].buf = cs[b].buf
  BY DEF RowsBut, Same, SendSame, ReadSame
<1>3. ASSUME NEW c \in Conns PROVE Held(cs', c) = Held(cs, c)
  <2>1. Rest(cs', c, a) = Rest(cs, c, a)
    BY <1>2, RestSame
  <2>2. /\ Rest(cs, c, a) \in Int
        /\ cs[a].cc = c => Held(cs, c) = cs[a].buf + Rest(cs, c, a)
        /\ cs[a].cc # c => Held(cs, c) = Rest(cs, c, a)
    BY <1>1, HeldSplit
  <2>3. /\ cs'[a].cc = c => Held(cs', c) = cs'[a].buf + Rest(cs', c, a)
        /\ cs'[a].cc # c => Held(cs', c) = Rest(cs', c, a)
    BY HeldSplit
  <2>4. cs[a].buf + Rest(cs, c, a) = Rest(cs, c, a) /\ cs'[a].buf + Rest(cs, c, a) = Rest(cs, c, a)
    BY <2>2
  <2>5. Held(cs, c) = Rest(cs, c, a)
    BY <2>2, <2>4, Zenon
  <2>6. Held(cs', c) = Rest(cs, c, a)
    BY <2>1, <2>3, <2>4, Zenon
  <2>. QED  BY <2>5, <2>6
<1>. QED  BY <1>3 DEF Kept, Even

\* An attempt that begins has nothing in its buffer.
LEMMA StartsEmpty ==
  ASSUME Inv, NEW r \in Reqs, NEW c \in Conns, Starts(r, c), NEW a, a = <<r, rq[r].k + 1>>
  PROVE  a \in Attempts /\ cs[a].buf = 0
<1>1. rq[r].k \in 0 .. MaxRetry + 2 /\ rq[r].pc \in Between
  BY DEF Inv, Numbers, CallNumbers, Starts, Between
<1>2. rq[r].k <= MaxRetry + 1
  BY <1>1, Zenon DEF Inv, Tries, CallerOf
<1>3. rq[r].k + 1 \in 1 .. MaxRetry + 2
  BY <1>1, <1>2, MaxRetryNat
<1>4. a \in Attempts /\ a[1] = r /\ a[2] = rq[r].k + 1
  BY <1>3, AttemptPairs
<1>5. ~(a[2] <= rq[a[1]].k)
  BY <1>1, <1>4, MaxRetryNat
<1>6. cs[a].pc = "none"
  BY <1>4, <1>5, Zenon DEF Inv, Tries, TryOf
<1>. QED  BY <1>4, <1>6, Zenon DEF Inv, Streams, StreamOf

\* The kinds of steps that fill and empty no buffer.
LEMMA BuffersStill ==
  ASSUME Step
  PROVE  \/ Even /\ \A b \in Attempts : cs'[b].cc = cs[b].cc /\ cs'[b].buf = cs[b].buf
         \/ \E q \in Reqs, c \in Conns : Starts(q, c)
         \/ \E a \in Attempts, n \in Nat : Feeds(a, n)
         \/ \E q \in Reqs, n \in Nat : Reads(q, n)
         \/ \E q \in Reqs : Closes(q)
<1>. DEFINE Still == Even /\ \A b \in Attempts : cs'[b].cc = cs[b].cc /\ cs'[b].buf = cs[b].buf
<1>1. ASSUME \A b \in Attempts : SendSame(cs, cs', b) /\ ReadSame(cs, cs', b), Even PROVE Still
  BY <1>1 DEF SendSame, ReadSame
<1>2. ASSUME NEW a \in Attempts, RowsBut(a), cs'[a].cc = cs[a].cc, cs'[a].buf = cs[a].buf, Even PROVE Still
  BY <1>2 DEF RowsBut, Same, SendSame, ReadSame
<1>3. ASSUME Rests \/ Fails \/ (\E q \in Reqs : CallerMoves(q)) \/ (\E q \in Reqs : Cancels(q)) \/ (\E c \in Conns : GoesAway(c))
      PROVE  Still
  <2>1. (\A b \in Attempts : SendSame(cs, cs', b) /\ ReadSame(cs, cs', b)) /\ Even
    BY <1>3 DEF Rests, Fails, CallerMoves, Cancels, GoesAway, CsStill, Same, RowsFail
  <2>. QED  BY <1>1, <2>1
<1>4. ASSUME NEW a \in Attempts, Stops(a) \/ Opens(a) \/ Writes(a) \/ GoesOn(a) PROVE Still
  <2>1. Sends(a)
    BY <1>4 DEF Stops, Opens, Writes, GoesOn
  <2>2. RowsBut(a) /\ cs'[a].cc = cs[a].cc /\ cs'[a].buf = cs[a].buf /\ Even
    BY <2>1 DEF Sends, ReadSame
  <2>. QED  BY <1>2, <2>2
<1>5. ASSUME NEW a \in Attempts, Resets(a) PROVE Still
  <2>1. RowsBut(a) /\ cs'[a].cc = cs[a].cc /\ cs'[a].buf = cs[a].buf /\ Even
    BY <1>5 DEF Resets
  <2>. QED  BY <1>2, <2>1
<1>6. ASSUME NEW a \in Attempts, Leaves(a) PROVE Still
  <2>1. Even /\ cs'[a].cc = cs[a].cc /\ \A b \in Attempts : ReadSame(cs, cs', b) /\ (b # a => SendSame(cs, cs', b))
    BY <1>6 DEF Leaves
  <2>. QED  BY <2>1 DEF ReadSame, SendSame
<1>7. ASSUME NEW a \in Attempts, Responds(a) \/ Ends(a) \/ PeerResets(a) PROVE Still
  <2>1. RowsBut(a) /\ SendSame(cs, cs', a) /\ cs'[a].buf = cs[a].buf /\ Even
    BY <1>7 DEF Responds, Ends, PeerResets
  <2>2. cs'[a].cc = cs[a].cc
    BY <2>1 DEF SendSame
  <2>. QED  BY <1>2, <2>1, <2>2
<1>. HIDE DEF Still
<1>8. \/ Still \/ (\E q \in Reqs, c \in Conns : Starts(q, c)) \/ (\E a \in Attempts, n \in Nat : Feeds(a, n))
      \/ (\E q \in Reqs, n \in Nat : Reads(q, n)) \/ (\E q \in Reqs : Closes(q))
  BY <1>3, <1>4, <1>5, <1>6, <1>7, Zenon DEF Step
<1>. QED  BY <1>8, Zenon DEF Still

\* What the caller takes from a buffer is returned to the window.
LEMMA TakesKeeps ==
  ASSUME Inv, Kept(cc, cs), HasBufs(cs'), NEW r \in Reqs, rq[r].k > 0, NEW n \in Int, Takes(r, n)
  PROVE  Kept(cc', cs')
<1>1. PICK a : a = attempt(r)
  BY Zenon
<1>2. a \in Attempts
  BY <1>1, AttemptOf DEF Inv, Numbers
<1>3. /\ RowsBut(a) /\ SendSame(cs, cs', a) /\ cs'[a].buf = cs[a].buf - n
      /\ \A c \in Conns : Credit(cc', c) = IF c = cs[a].cc THEN Credit(cc, c) + n ELSE Credit(cc, c)
  BY <1>1, Zenon DEF Takes
<1>4. PICK m : m = 0 - n
  BY Zenon
<1>5. m \in Int
  BY <1>4
<1>6. cs'[a].buf = cs[a].buf + m
  <2>1. cs[a].buf \in Int
    BY <1>2 DEF Inv, Numbers, RowNumbers
  <2>2. cs'[a].buf = cs[a].buf - n
    BY <1>3
  <2>. QED  BY <1>4, <2>1, <2>2
<1>7. ASSUME NEW c \in Conns
      PROVE  /\ c = cs[a].cc => Credit(cc', c) = Credit(cc, c) - m
             /\ c # cs[a].cc => Credit(cc', c) = Credit(cc, c)
  <2>1. /\ c = cs[a].cc => Credit(cc', c) = Credit(cc, c) + n
        /\ c # cs[a].cc => Credit(cc', c) = Credit(cc, c)
    BY <1>3, Zenon
  <2>2. Credit(cc, c) \in Int
    BY CreditInt
  <2>. QED  BY <1>4, <2>1, <2>2
<1>8. cs'[a].cc = cs[a].cc
  BY <1>3 DEF SendSame
<1>9. RowsBut(a)
  BY <1>3
<1>. QED  BY <1>2, <1>5, <1>6, <1>7, <1>8, <1>9, MovedKeeps

\* Every kind of step keeps the account.
LEMMA CreditStep ==
  ASSUME Inv, Kept(cc, cs), HasBufs(cs'), Step PROVE Kept(cc', cs')
<1>1. CASE Even /\ \A b \in Attempts : cs'[b].cc = cs[b].cc /\ cs'[b].buf = cs[b].buf
  BY <1>1, EvenKeeps
<1>2. ASSUME NEW r \in Reqs, NEW c \in Conns, Starts(r, c) PROVE Kept(cc', cs')
  <2>1. PICK a : a = <<r, rq[r].k + 1>>
    BY Zenon
  <2>2. a \in Attempts /\ cs[a].buf = 0
    BY <1>2, <2>1, StartsEmpty
  <2>3. RowsBut(a) /\ cs'[a].buf = 0 /\ Even
    BY <1>2, <2>1, Zenon DEF Starts
  <2>. QED  BY <2>2, <2>3, EmptyKeeps
<1>3. ASSUME NEW a \in Attempts, NEW n \in Nat, Feeds(a, n) PROVE Kept(cc', cs')
  <2>1. /\ RowsBut(a) /\ SendSame(cs, cs', a) /\ cs'[a].buf = cs[a].buf + n
        /\ \A c \in Conns : Credit(cc', c) = IF c = cs[a].cc THEN Credit(cc, c) - n ELSE Credit(cc, c)
    BY <1>3, Zenon DEF Feeds
  <2>2. \A c \in Conns : /\ c = cs[a].cc => Credit(cc', c) = Credit(cc, c) - n
                         /\ c # cs[a].cc => Credit(cc', c) = Credit(cc, c)
    BY <2>1, Zenon
  <2>3. cs'[a].cc = cs[a].cc
    BY <2>1 DEF SendSame
  <2>4. n \in Int /\ RowsBut(a) /\ cs'[a].buf = cs[a].buf + n
    BY <2>1
  <2>. QED  BY <2>2, <2>3, <2>4, MovedKeeps
<1>4. ASSUME NEW r \in Reqs, NEW n \in Nat, Reads(r, n) PROVE Kept(cc', cs')
  <2>1. rq[r].pc = "reading" /\ Takes(r, n)
    BY <1>4, Zenon DEF Reads
  <2>2. rq[r].k > 0
    BY <2>1 DEF Inv, Tries, CallerOf, Between
  <2>. QED  BY <2>1, <2>2, TakesKeeps
<1>5. ASSUME NEW r \in Reqs, Closes(r) PROVE Kept(cc', cs')
  <2>1. rq[r].pc \in {"reading", "eof", "readErr"} /\ Takes(r, cs[attempt(r)].buf)
    BY <1>5, Zenon DEF Closes
  <2>2. rq[r].k > 0
    BY <2>1 DEF Inv, Tries, CallerOf, Between
  <2>3. PICK n : n = cs[attempt(r)].buf
    BY Zenon
  <2>4. n \in Int
    BY <2>2, <2>3, AttemptOf DEF Inv, Numbers, RowNumbers
  <2>5. Takes(r, n)
    BY <2>1, <2>3
  <2>. QED  BY <2>2, <2>4, <2>5, TakesKeeps
<1>. QED  BY <1>1, <1>2, <1>3, <1>4, <1>5, BuffersStill, Zenon

\* The account is right at the start.
LEMMA InitCredit ==
  ASSUME Init PROVE Kept(cc, cs)
<1>. Begun
  BY InitBegun
<1>1. ASSUME NEW c \in Conns PROVE Credit(cc, c) + Held(cs, c) = ConnFlow
  <2>1. Of(cs, c) = {}
    <3>1. c # 0
      BY SizeAssumption
    <3>2. \A a \in Attempts : cs[a].cc = 0
      BY BegunRow, NewStreamHas
    <3>. QED  BY <3>1, <3>2 DEF Of
  <2>2. Held(cs, c) = 0
    BY <2>1, TotalEmpty DEF Held
  <2>3. cc[c].avail = ConnFlow /\ cc[c].unsent = 0 /\ cc[c].lost = 0
    BY BegunConn, NewConnHas
  <2>4. ConnFlow \in Int
    BY WindowAssumption
  <2>. QED  BY <2>2, <2>3, <2>4 DEF Credit
<1>. QED  BY <1>1 DEF Kept

\* CreditKept sums over the records.
LEMMA BufferedHeld ==
  ASSUME NEW c PROVE MapThenSumSet(LAMBDA a : cs[a].buf, {a \in Attempts : cs[a].cc = c}) = Held(cs, c)
<1>. DEFINE S == {a \in Attempts : cs[a].cc = c}
            Rec(it) == it = [s \in SUBSET S |-> IF s = {} THEN 0 ELSE cs[Pick(s)].buf + it[s \ {Pick(s)}]]
            jt == CHOOSE it : Rec(it)
<1>1. MapThenSumSet(LAMBDA a : cs[a].buf, S) = jt[S]
  BY Zenon DEF MapThenSumSet, MapThenFoldSet, Pick
<1>2. S = Of(cs, c) /\ IsFiniteSet(S) /\ S \subseteq Attempts
  BY OfFinite DEF Of
<1>3. \A s \in SUBSET S : s # {} => cs[Pick(s)].buf = Bufs(cs)[Pick(s)]
  <2>1. \A s : s # {} => Pick(s) \in s
    BY Zenon DEF Pick
  <2>2. \A s \in SUBSET S : s # {} => Pick(s) \in Attempts
    BY <1>2, <2>1
  <2>. QED  BY <2>2, BufsAt
<1>. HIDE DEF S
<1>4. \A it : Rec(it) <=> IsSum(it, Bufs(cs), S)
  <2>1. ASSUME NEW it PROVE \A s \in SUBSET S : (IF s = {} THEN 0 ELSE cs[Pick(s)].buf + it[s \ {Pick(s)}])
                              = IF s = {} THEN 0 ELSE Bufs(cs)[Pick(s)] + it[s \ {Pick(s)}]
    BY <1>3, Zenon
  <2>2. ASSUME NEW it PROVE [s \in SUBSET S |-> IF s = {} THEN 0 ELSE cs[Pick(s)].buf + it[s \ {Pick(s)}]]
                              = [s \in SUBSET S |-> IF s = {} THEN 0 ELSE Bufs(cs)[Pick(s)] + it[s \ {Pick(s)}]]
    BY <2>1, Zenon
  <2>. QED  BY <2>2, Zenon DEF IsSum
<1>5. \E it : Rec(it)
  <2>. HIDE DEF Rec
  <2>. QED  BY <1>2, <1>4, SumExists
<1>6. Rec(jt)
  <2>. HIDE DEF Rec
  <2>. QED  BY <1>5, Zenon
<1>7. IsSum(jt, Bufs(cs), S)
  <2>. HIDE DEF Rec, jt
  <2>. QED  BY <1>4, <1>6
<1>8. PICK it : IsSum(it, Bufs(cs), S) /\ Total(Bufs(cs), S) = it[S]
  BY <1>2, TotalIsSum, Zenon
<1>9. jt[S] = it[S]
  <2>. HIDE DEF jt
  <2>1. S \subseteq S
    OBVIOUS
  <2>. QED  BY <1>2, <1>7, <1>8, <2>1, SumRestricts
<1>10. Held(cs, c) = Total(Bufs(cs), S)
  BY <1>2, Zenon DEF Held
<1>. QED  BY <1>1, <1>8, <1>9, <1>10, Zenon DEF S

\* The account of the proof is that of CreditKept.
LEMMA KeptIsCredit == ASSUME Kept(cc, cs) PROVE CreditKept
BY BufferedHeld, Zenon DEF Kept, Credit, CreditKept

\* No credit of a connection's window is lost: what the peer may send, what inflow still owes it,
\* and what lies in the buffers of the bodies add up to the window the connection began with,
\* whichever of Read, Close, processData and the streams' ends come in which order.
THEOREM KeptCredit == Spec => []CreditKept
<1>. DEFINE K == Kept(cc, cs)
<1>1. Init => K
  BY InitCredit
<1>2. Inv /\ Inv' /\ K /\ [Next]_vars => K'
  <2>1. ASSUME Inv, Inv', Kept(cc, cs), [Next]_vars PROVE Kept(cc', cs')
    <3>1. HasBufs(cs')
      BY <2>1 DEF Inv, Numbers, RowNumbers, HasBufs
    <3>2. Step
      BY <2>1, NextDoes
    <3>. QED  BY <2>1, <3>1, <3>2, CreditStep
  <2>. QED  BY <2>1
<1>3. K => CreditKept
  BY KeptIsCredit
<1>. QED  BY <1>1, <1>2, <1>3, Invariance, PTL DEF Spec
=============================================================================
