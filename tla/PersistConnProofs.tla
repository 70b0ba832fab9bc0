------------------------- MODULE PersistConnProofs -------------------------
(***************************************************************************)
(* Proofs about module PersistConn, for every set of requests.  The        *)
(* inductive invariant follows the one request that holds the connection   *)
(* through the two loops: until readLoop has put the connection back, the  *)
(* channels, writeLoop and the wire know of no other request, and by then  *)
(* nothing of it is left in any of them.                                   *)
(***************************************************************************)
EXTENDS PersistConn, SequenceTheorems, TLAPS

Msg == [kind : {"100", "408", "empty", "close", "body", "switch", "end"}, req : Reqs \cup {NoReq}]

\* TypeOK with the whole records, without the bounds of the channels.
ConnShape ==
  /\ closed \in Errors /\ canceledErr \in BOOLEAN /\ expected \in Nat /\ nwrite \in Nat
  /\ reused \in BOOLEAN /\ pooled \in BOOLEAN /\ holder \in Reqs \cup {NoReq}
  /\ reqErrCh \in [Reqs -> Errors \cup {"empty"}]
  /\ continueCh \in [Reqs -> {"nil", "open", "sent", "closed"}]
  /\ canceler \subseteq Reqs /\ ctxDone \subseteq Reqs /\ cancelFired \subseteq Reqs
RtState == [at : InFlight \cup {"new", "response", "error", "retry"}, err : Errors,
            startBytesWritten : Nat, got : Reqs \cup {NoReq}, timer : BOOLEAN,
            pcClosed : BOOLEAN, canceled : BOOLEAN, cancelChan : BOOLEAN, ctxDoneChan : BOOLEAN]
RtShape == rt \in [Reqs -> RtState]
RlShape ==
  rl \in [at : {"peek", "peeked", "reqch", "read", "sendErr", "replace", "wrote", "put", "send",
                "waitBody", "eofc", "exit", "done"},
          req : Reqs \cup {NoReq}, err : {"nil", "EOF", "other", "readFromServer"},
          alive : BOOLEAN, closeErr : {"other", "readFromServer", "owned"},
          resp : Msg \cup {[kind |-> "none", req |-> NoReq]}, bodyEOF : BOOLEAN,
          replaced : BOOLEAN]
WlShape ==
  wl \in [at : {"select", "head", "continue", "body", "flush", "writeErrCh", "reqErrCh", "close",
                "done"},
          req : Reqs \cup {NoReq}, start : Nat, err : Errors]
NetShape ==
  /\ body \in [Reqs -> {"none", "open", "eof", "failed", "close", "done"}]
  /\ reqErr \subseteq Reqs /\ bodyClosed \subseteq bodyUsed /\ bodyUsed \subseteq HasBody
  /\ full \subseteq sent /\ sent \subseteq Reqs /\ srvClosed \in BOOLEAN
  /\ wire \in Seq(Msg) /\ srv \in [Reqs -> {"none", "100", "head", "end"}]
Shapes == ConnShape /\ RtShape /\ RlShape /\ WlShape /\ NetShape

Writing == {"head", "continue", "body", "flush"}
Unsent == {"new", "start", "writech"}

\* roundTrip has given the request to writeLoop.
Given(r) == writech = <<r>> \/ (writech = <<>> /\ wl.req = r)

\* readLoop is at the response of the request that holds the conn.
Serving ==
  \/ rl.at \in {"read", "sendErr", "replace", "wrote", "put", "waitBody"}
  \/ rl.at = "send" /\ HadBody

\* ... or roundTrip is about to hand it the request.
Handed == Serving \/ reqch # <<>> \/ (holder \in Reqs /\ rt[holder].at = "reqch")

\* The request that holds the conn has not reached writeLoop, or is done with it.
Before == pooled \/ (holder \in Reqs /\ rt[holder].at \in {"start", "writech"})

\* Only the holder is on its way through roundTrip's first steps and can be
\* canceled; a response in hand goes to the request it is for.
Holding ==
  /\ \A q \in Reqs : rt[q].at = "new" => holder # q
  /\ \A q \in Reqs : rt[q].at \in {"start", "writech", "reqch"} => holder = q /\ ~pooled
  /\ CancelHitsOwnConn
  /\ rl.at \in {"wrote", "put"} => rl.req \notin canceler

\* What writeLoop is at, and what is in its channels.
Writer ==
  /\ writech = <<>> \/ (writech = <<holder>> /\ holder \in Reqs /\ ~pooled)
  /\ writeErrCh = <<>> \/ (writeErrCh = <<wl.err>> /\ wl.at \in {"reqErrCh", "select", "close", "done"})
  /\ Before \/ writech # <<>> \/ rl.at = "put" =>
       writeErrCh = <<>> /\ wl.err = "nil" /\ wl.at \in {"select", "reqErrCh", "done"}
  /\ pooled \/ (holder \in Reqs /\ rt[holder].at = "start") \/ rl.at = "put" => writech = <<>>
  /\ wl.at \in Writing \cup {"writeErrCh"} => /\ wl.req = holder /\ writeErrCh = <<>>
  /\ wl.at \in Writing => wl.err = "nil"
  /\ wl.at = "close" => wl.err # "nil"
  /\ wl.at = "select" => wl.err = "nil"
  /\ wl.at \notin {"select", "done"} => wl.req \in Reqs
  /\ wl.at = "done" => closed # "nil"
  /\ wl.at = "continue" => wl.req \in Expects
  /\ wl.at = "body" => wl.req \in HasBody
  /\ Handed => Given(holder)
  /\ \A q \in Reqs : rt[q].at \in Unsent => wl.req # q /\ writech # <<q>>
  /\ writech # <<wl.req>>

\* What has been written of a request when it is given up, and before.
Bytes ==
  /\ \A q \in Reqs : rt[q].startBytesWritten <= nwrite
  /\ \A q \in Reqs : q \in sent => rt[q].startBytesWritten < nwrite /\ rt[q].at \notin Unsent
  /\ \A q \in Reqs : rt[q].at = "failed" /\ rt[q].err = "nothingWritten" => q \notin sent
  /\ RetrySafe

\* writeLoop is done with a request whose write has been reported, and with
\* one that has failed.
Quiet ==
  /\ \A q \in Reqs : rt[q].timer \/ reqErrCh[q] # "empty" =>
       /\ rt[q].at \notin Unsent /\ writech # <<q>>
       /\ wl.req # q \/ wl.at \in {"select", "close", "done"}
  /\ \A q \in Reqs : Gone(q) => writech # <<q>> \/ wl.at = "done"
  /\ WriterQuiet

\* A write without an error has written everything, except after a final
\* response to Expect: 100-continue.
Whole ==
  /\ wl.err = "nil" /\ wl.at \notin Writing /\ wl.req \in Reqs \ Expects => wl.req \in full
  /\ \A q \in Reqs \ Expects : q \in sent /\ (q # holder \/ pooled) => q \in full

\* readLoop serves the holder.
Reader ==
  /\ reqch = <<>> \/ (/\ reqch = <<holder>> /\ holder \in Reqs /\ ~pooled /\ ~Serving
                      /\ rt[holder].at \notin Unsent \cup {"reqch", "response"})
  /\ Serving => rl.req = holder /\ ~pooled
  /\ rl.at \in {"read", "sendErr", "replace", "wrote", "put", "send", "waitBody", "eofc"} =>
       rl.req \in Reqs
  /\ rl.req \in Reqs => rt[rl.req].at \notin Unsent \cup {"reqch"}
  /\ rl.at \in {"wrote", "put"} => rl.alive
  /\ reqch # <<rl.req>>

Awaited ==
  rl.at = "read" \/ reqch # <<>> \/ (holder \in Reqs /\ rt[holder].at \in {"writech", "reqch"})
Arrived ==
  \/ pooled \/ (holder \in Reqs /\ rt[holder].at = "start")
  \/ rl.at \in {"replace", "wrote", "put", "waitBody"} \/ (rl.at = "send" /\ HadBody)

\* The holder's response is counted from roundTrip's start until it is read.
Counting ==
  /\ Awaited => expected = 1
  /\ Arrived => expected = 0

\* A response in hand is the one to the request that readLoop serves; if that
\* request has been given up, the conn is closed.
Answering ==
  /\ \A q \in Reqs : Gone(q) /\ (rl.req = q \/ reqch = <<q>>) => closed # "nil"
  /\ rl.at \in {"replace", "wrote", "put", "send", "waitBody"} => rl.resp.req \in {rl.req, NoReq}
  /\ RightResponse

\* Nothing is left of the holder's response.
Drained == \A i \in DOMAIN wire : wire[i].kind = "408"

\* The wire carries messages of the holder only, in the order of one response.
Talk ==
  /\ \A i \in DOMAIN wire : IF wire[i].kind = "408" THEN srvClosed /\ wire[i].req = NoReq
                            ELSE wire[i].req = holder /\ holder \in sent
  /\ \A i \in DOMAIN wire :
       /\ wire[i].kind \in {"empty", "close", "switch", "end"} => srv[wire[i].req] = "end"
       /\ wire[i].kind = "body" => srv[wire[i].req] \in {"head", "end"}
       /\ wire[i].kind = "100" => srv[wire[i].req] # "none"
  /\ \A i, j \in DOMAIN wire : i < j => \/ wire[i].kind = "100" \/ wire[j].kind = "408"
                                        \/ wire[i].kind = "body" /\ wire[j].kind = "end"
  /\ \A q \in Reqs : IF q \in sent THEN q # holder \/ pooled => srv[q] = "end"
                     ELSE srv[q] = "none"
  /\ pooled => Drained

\* How much of the holder's response is left at each position of readLoop.
Progress ==
  /\ rl.at \in {"replace", "wrote", "put"} /\ rl.alive =>
       /\ Drained /\ srv[rl.req] = "end"
       /\ HadBody => rl.bodyEOF
  /\ rl.at = "waitBody" \/ (rl.at = "send" /\ HadBody) =>
       /\ srv[rl.req] \in {"head", "end"}
       /\ \A i \in DOMAIN wire : wire[i].kind \in {"end", "408"}
  /\ rl.at = "waitBody" => HadBody
  /\ rl.at = "waitBody" /\ waitForBodyRead # <<>> /\ Head(waitForBodyRead) =>
       Drained /\ srv[rl.req] = "end"

\* Who reads the body of the holder's response.  A Read that has failed and
\* the Close after it both tell readLoop that this was not the end.
Reading == {"open", "failed", "close"}
ToldTwice == Append(<<FALSE>>, FALSE)
Told == {<<>>, <<TRUE>>, <<FALSE>>, ToldTwice}

\* Where readLoop is once it has been told so, or no longer listens.
GivenUp ==
  \/ rl.at = "waitBody" /\ waitForBodyRead \in {<<FALSE>>, ToldTwice}
  \/ rl.at = "replace" /\ ~rl.alive /\ ~rl.bodyEOF /\ HadBody
  \/ rl.at \in {"exit", "done"}
Bodies ==
  /\ waitForBodyRead \in Told
  /\ \A q \in Reqs : body[q] = "open" =>
       rl.req = q /\ waitForBodyRead = <<>> /\ rl.at \in {"waitBody", "exit", "done"}
  /\ \A q \in Reqs : body[q] = "failed" => waitForBodyRead \in {<<>>, <<FALSE>>}
  /\ \A q \in Reqs : body[q] \in {"failed", "close"} => rl.req = q /\ GivenUp
  /\ \A q \in Reqs : body[q] \in Reading => q = holder /\ ~pooled

\* A conn is left to its caller only by a 101 that reaches it.
Owned ==
  /\ rl.closeErr = "owned" =>
       /\ rl.resp.kind = "switch" /\ ~rl.alive /\ rl.req \in Reqs
       /\ rl.at \in {"replace", "send", "exit", "done"}
       /\ rl.at \in {"exit", "done"} => rt[rl.req].at = "response" \/ closed \notin {"nil", "owned"}
  /\ closed = "owned" => rl.at = "done" /\ rl.closeErr = "owned" /\ rt[rl.req].at = "response"

Inv ==
  /\ Shapes /\ Holding /\ Writer /\ Bytes /\ Quiet /\ BodyClosedOnError /\ Whole
  /\ Reader /\ Counting /\ Answering /\ Talk /\ Progress /\ Bodies /\ Owned
----------------------------------------------------------------------------
(* What the steps with alternatives do to the records.                     *)

\* roundTrip learns the outcome of the write.
LEMMA WriteErrTaken ==
  ASSUME Shapes, NEW r \in Reqs, selectWriteErr(r)
  PROVE  /\ rt[r].at = "select" /\ reqErrCh[r] # "empty"
         /\ \A q \in Reqs : q # r => rt'[q] = rt[q] /\ reqErrCh'[q] = reqErrCh[q]
         /\ reqErrCh'[r] = "empty" /\ rt'[r].got = rt[r].got
         /\ rt'[r].startBytesWritten = rt[r].startBytesWritten
         /\ \/ rt'[r].at = "select" /\ closed' = closed
            \/ rt'[r].at = "map" /\ rt'[r].timer = rt[r].timer /\ closed' # "nil"
               /\ closed' \in {closed, "other"}
BY DEF Shapes, ConnShape, RtShape, RtState, selectWriteErr, closeLocked

\* roundTrip learns that the conn is closed.
LEMMA CloseSeen ==
  ASSUME Shapes, NEW r \in Reqs, selectClosed(r)
  PROVE  /\ rt[r].at = "select" /\ closed # "nil" /\ canceler' \subseteq canceler
         /\ \A q \in Reqs : q # r => rt'[q] = rt[q]
         /\ rt'[r].at \in {"select", "map"} /\ rt'[r].got = rt[r].got
         /\ rt'[r].startBytesWritten = rt[r].startBytesWritten /\ rt'[r].timer = rt[r].timer
<1>1. CASE rt' = [rt EXCEPT ![r].at = "map", ![r].err = closed, ![r].pcClosed = FALSE]
           /\ canceler' = canceler \ {r}
  BY <1>1 DEF Shapes, RtShape, RtState, selectClosed
<1>2. CASE rt' = [rt EXCEPT ![r].pcClosed = FALSE] /\ canceler' = canceler
  BY <1>2 DEF Shapes, RtShape, RtState, selectClosed
<1>. QED  BY <1>1, <1>2, Zenon DEF selectClosed

\* roundTrip maps its error, once writeLoop has ended.
LEMMA ErrorMapped ==
  ASSUME Inv, NEW r \in Reqs, mapRoundTripError(r)
  PROVE  /\ rt[r].at = "map" /\ wl.at = "done" /\ closed # "nil" /\ canceler' \subseteq canceler
         /\ \A q \in Reqs : q # r => rt'[q] = rt[q]
         /\ rt'[r].at = "failed" /\ rt'[r].got = rt[r].got /\ rt'[r].timer = rt[r].timer
         /\ rt'[r].startBytesWritten = rt[r].startBytesWritten
         /\ rt'[r].err = "nothingWritten" => nwrite = rt[r].startBytesWritten
<1>. Shapes /\ closed # "nil"
  BY DEF Inv, Writer, mapRoundTripError
<1>1. rt'[r].err = mapped(r)
  BY DEF Shapes, RtShape, RtState, mapRoundTripError
<1>2. mapped(r) = "nothingWritten" => nwrite = rt[r].startBytesWritten
  BY DEF mapped
<1>. QED  BY <1>1, <1>2 DEF Shapes, RtShape, RtState, mapRoundTripError

\* readLoop hands an error to the roundTrip that waits for it.
LEMMA ErrSent ==
  ASSUME Inv, sendErr
  PROVE  /\ rl.req \in Reqs
         /\ rl.at = "sendErr" /\ rl' = [rl EXCEPT !.at = "exit"]
         /\ \A q \in Reqs : /\ rt'[q].startBytesWritten = rt[q].startBytesWritten
                            /\ rt'[q].got = rt[q].got /\ rt'[q].timer = rt[q].timer
                            /\ \/ rt'[q] = rt[q]
                               \/ q = rl.req /\ rt[q].at = "select" /\ rt'[q].at = "map"
<1>. rl.req \in Reqs /\ Shapes
  BY DEF Inv, Reader, sendErr
<1>1. CASE rt' = [rt EXCEPT ![rl.req].at = "map", ![rl.req].err = rl.err] /\ rt[rl.req].at = "select"
  BY <1>1 DEF Shapes, RtShape, RtState, sendErr, RL
<1>2. CASE rt' = rt
  BY <1>2 DEF sendErr, RL
<1>. QED  BY <1>1, <1>2, Zenon DEF sendErr

\* readLoop hands the response to the roundTrip that waits for it.
LEMMA ResponseSent ==
  ASSUME Inv, sendResponse
  PROVE  /\ rl.req \in Reqs
         /\ rl.at = "send"
         /\ rl'.req = rl.req /\ rl'.resp = rl.resp /\ rl'.closeErr = rl.closeErr
         /\ rl'.alive = rl.alive /\ rl'.bodyEOF = rl.bodyEOF
         /\ \A q \in Reqs : /\ rt'[q].startBytesWritten = rt[q].startBytesWritten
                            /\ rt'[q].timer = rt[q].timer /\ rt'[q].err = rt[q].err
                            /\ q # rl.req => rt'[q] = rt[q] /\ body'[q] = body[q]
         /\ \/ /\ rt[rl.req].at = "select" /\ rt'[rl.req].at = "response"
               /\ rt'[rl.req].got = rl.resp.req
               /\ IF HadBody THEN rl'.at = "waitBody" /\ body'[rl.req] = "open" /\ waitForBodyRead' = <<>>
                  ELSE /\ rl'.at = IF rl.alive THEN "peek" ELSE "exit"
                       /\ UNCHANGED <<body, waitForBodyRead>>
            \/ Gone(rl.req) /\ rl'.at = "exit" /\ UNCHANGED <<rt, body, waitForBodyRead>>
<1>. rl.req \in Reqs /\ Shapes
  BY DEF Inv, Reader, sendResponse
<1>1. CASE /\ rt[rl.req].at = "select"
           /\ rt' = [rt EXCEPT ![rl.req].at = "response", ![rl.req].got = rl.resp.req]
           /\ body' = IF HadBody THEN [body EXCEPT ![rl.req] = "open"] ELSE body
           /\ waitForBodyRead' = IF HadBody THEN <<>> ELSE waitForBodyRead
           /\ RL(IF HadBody THEN "waitBody" ELSE IF rl.alive THEN "peek" ELSE "exit")
  <2>1. CASE HadBody
    BY <1>1, <2>1 DEF Shapes, RtShape, RtState, RlShape, NetShape, sendResponse, RL
  <2>2. CASE ~HadBody
    BY <1>1, <2>2 DEF Shapes, RtShape, RtState, RlShape, NetShape, sendResponse, RL
  <2>. QED  BY <2>1, <2>2, Zenon
<1>2. CASE Gone(rl.req) /\ RL("exit") /\ UNCHANGED <<rt, body, waitForBodyRead>>
  BY <1>2 DEF Shapes, RlShape, sendResponse, RL
<1>. QED  BY <1>1, <1>2, Zenon DEF sendResponse

\* Where readLoop goes when it does not keep the conn, or has put it back.
Onward(a) ==
  /\ rl'.alive = a
  /\ ~HadBody => rl'.at = "send"
  /\ HadBody /\ rl.bodyEOF => rl'.at = "eofc"
  /\ HadBody /\ ~rl.bodyEOF => rl'.at = IF a THEN "peek" ELSE "exit"

\* What stays in readLoop's hands meanwhile.
SameResponse ==
  /\ rl'.req = rl.req /\ rl'.resp = rl.resp /\ rl'.closeErr = rl.closeErr
  /\ rl'.bodyEOF = rl.bodyEOF

\* Recycled does what Onward says, and keeps the response.
LEMMA RecycledOnward ==
  ASSUME RlShape, NEW a \in BOOLEAN, Recycled(a)
  PROVE  Onward(a) /\ SameResponse
BY DEF RlShape, Recycled, Onward, SameResponse, HadBody

\* readLoop takes the request's canceler away.
LEMMA CancelerReplaced ==
  ASSUME Shapes, replaceCanceler
  PROVE  /\ rl.at = "replace" /\ canceler' = canceler \ {rl.req} /\ SameResponse
         /\ \/ rl.alive /\ rl'.alive /\ rl'.at = "wrote"
            \/ Onward(FALSE)
<1>1. CASE rl.alive /\ rl' = [rl EXCEPT !.at = "wrote", !.replaced = rl.req \in canceler]
  BY <1>1 DEF Shapes, RlShape, replaceCanceler, SameResponse
<1>2. CASE Recycled(FALSE)
  BY <1>2, RecycledOnward, FALSE \in BOOLEAN, Zenon DEF Shapes, replaceCanceler
<1>. QED  BY <1>1, <1>2, Zenon DEF replaceCanceler

\* readLoop learns whether the request has been written.
LEMMA WriteLearnt ==
  ASSUME Shapes, wroteRequest
  PROVE  /\ rl.at = "wrote" /\ SameResponse /\ writeErrCh' = <<>>
         /\ \/ /\ rl'.at = "put" /\ rl'.alive = rl.alive
               /\ writeErrCh # <<>> /\ Head(writeErrCh) = "nil"
            \/ Onward(FALSE)
<1>1. CASE /\ RL("put") /\ writeErrCh # <<>> /\ Head(writeErrCh) = "nil" /\ writeErrCh' = <<>>
  BY <1>1 DEF Shapes, RlShape, wroteRequest, SameResponse, RL
<1>2. CASE Recycled(FALSE) /\ writeErrCh' = <<>>
  BY <1>2, RecycledOnward, FALSE \in BOOLEAN, Zenon DEF Shapes, wroteRequest
<1>. QED  BY <1>1, <1>2, Zenon DEF wroteRequest

\* readLoop puts the conn back, or the pool refuses it.  Nothing of the
\* request is left by then.
LEMMA PutBack ==
  ASSUME Inv, readLoopPuts
  PROVE  /\ rl.at = "put" /\ SameResponse /\ rl.alive
         /\ \/ closed = "nil" /\ pooled' = TRUE /\ Onward(TRUE)
            \/ pooled' = pooled /\ Onward(FALSE)
         /\ rl.req = holder /\ holder \in Reqs /\ ~pooled /\ canceler = {}
         /\ rt[holder].at \notin Unsent \cup {"reqch"}
         /\ writech = <<>> /\ writeErrCh = <<>> /\ reqch = <<>> /\ wl.req = holder
         /\ wl.err = "nil" /\ wl.at \in {"select", "reqErrCh", "done"}
         /\ Drained /\ srv[holder] = "end" /\ (HadBody => rl.bodyEOF)
         /\ expected = 0
<1>0. rl.at = "put" /\ Shapes
  BY DEF Inv, readLoopPuts
<1>1. /\ SameResponse
      /\ \/ closed = "nil" /\ pooled' = TRUE /\ Onward(TRUE)
         \/ pooled' = pooled /\ Onward(FALSE)
  <2>1. CASE putAccepted /\ Recycled(TRUE)
    BY <1>0, <2>1, RecycledOnward, TRUE \in BOOLEAN, Zenon DEF Shapes, putAccepted
  <2>2. CASE putRefused /\ Recycled(FALSE)
    BY <1>0, <2>2, RecycledOnward, FALSE \in BOOLEAN, Zenon DEF Shapes, putRefused
  <2>. QED  BY <2>1, <2>2, Zenon DEF readLoopPuts
<1>2. /\ rl.req = holder /\ holder \in Reqs /\ ~pooled /\ reqch = <<>> /\ rl.alive
      /\ rt[holder].at \notin Unsent \cup {"reqch"}
  BY <1>0 DEF Inv, Reader, Serving
<1>3. canceler = {}
  BY <1>0, <1>2, Zenon DEF Inv, Holding, CancelHitsOwnConn
<1>4. /\ writeErrCh = <<>> /\ wl.err = "nil" /\ wl.at \in {"select", "reqErrCh", "done"}
      /\ Given(holder) /\ writech = <<>>
  BY <1>0, Zenon DEF Inv, Writer, Handed, Serving
<1>5. wl.req = holder
  BY <1>4 DEF Given
<1>6. Drained /\ srv[holder] = "end" /\ (HadBody => rl.bodyEOF)
  BY <1>0, <1>2 DEF Inv, Progress
<1>7. expected = 0
  BY <1>0 DEF Inv, Counting, Arrived
<1>. QED  BY <1>0, <1>1, <1>2, <1>3, <1>4, <1>5, <1>6, <1>7, Zenon

\* writeLoop writes, or fails to; the request is the holder's.
LEMMA Writes ==
  ASSUME Inv, writeHead \/ writeFlush \/ writeFails \/ writeBody
  PROVE  /\ wl.at \in Writing /\ wl'.at \in (Writing \ {"head"}) \cup {"writeErrCh"}
         /\ wl'.req = wl.req /\ wl.req = holder /\ holder \in Reqs /\ ~pooled
         /\ wl.err = "nil" /\ writech = <<>> /\ writeErrCh = <<>> /\ rl.at # "put"
         /\ rt[holder].at \notin Unsent /\ ~Gone(holder)
         /\ wl'.at \in Writing => wl'.err = "nil"
         /\ wl'.at = "continue" => holder \in Expects
         /\ wl'.at = "body" => holder \in HasBody
         /\ full' \in {full, full \cup {holder}}
         /\ wl'.at = "writeErrCh" /\ wl'.err = "nil" => holder \in full'
         /\ \/ nwrite' = nwrite /\ sent' = sent
            \/ /\ sent' = sent \cup {holder}
               /\ nwrite' = IF holder \in sent THEN nwrite ELSE nwrite + 1
<1>1. wl.at \in Writing /\ Shapes
  BY DEF Inv, Writing, writeHead, writeFlush, writeFails, writeBody
<1>2. /\ wl.req = holder /\ wl.req \in Reqs /\ wl.err = "nil" /\ writeErrCh = <<>>
      /\ ~Before /\ writech = <<>> /\ rl.at # "put"
  BY <1>1 DEF Inv, Writer, Writing
<1>3. ~pooled /\ rt[holder].at \notin Unsent
  BY <1>2 DEF Inv, Holding, Before, Unsent
<1>4. ~Gone(holder)
  BY <1>1, <1>2, Zenon DEF Inv, Quiet, WriterQuiet, Gone, Writing
<1>. HIDE DEF Inv
<1>5. CASE writeHead
  BY <1>1, <1>2, <1>3, <1>4, <1>5 DEF Shapes, WlShape, writeHead, flushed, WL, Writing
<1>6. CASE writeFlush
  BY <1>1, <1>2, <1>3, <1>4, <1>6 DEF Shapes, WlShape, writeFlush, flushed, wrote, Writing
<1>7. CASE writeFails
  BY <1>1, <1>2, <1>3, <1>4, <1>7 DEF Shapes, WlShape, writeFails, flushed, wrote, Writing
<1>8. CASE writeBody
  BY <1>1, <1>2, <1>3, <1>4, <1>8 DEF Shapes, WlShape, writeBody, flushed, wrote, WL, Writing
<1>. QED  BY <1>5, <1>6, <1>7, <1>8, Zenon

\* The channel on which the reader of a body reports its end, of capacity 2.
LEMMA BoolChannel ==
  /\ <<>> \in Seq(BOOLEAN) /\ Len(<<>>) = 0
  /\ \A b \in BOOLEAN : <<b>> \in Seq(BOOLEAN) /\ Len(<<b>>) = 1 /\ Head(<<b>>) = b /\ <<b>> # <<>>
  /\ \A w \in Seq(BOOLEAN) : w # <<>> =>
       Tail(w) \in Seq(BOOLEAN) /\ Len(Tail(w)) = Len(w) - 1 /\ Head(w) \in BOOLEAN
<1>1. \A b \in BOOLEAN : <<b>> \in Seq(BOOLEAN) /\ Len(<<b>>) = 1 /\ <<b>> # <<>>
  OBVIOUS
<1>2. \A b \in BOOLEAN : Head(<<b>>) = b
  OBVIOUS
<1>3. \A w \in Seq(BOOLEAN) : w # <<>> =>
        Tail(w) \in Seq(BOOLEAN) /\ Len(Tail(w)) = Len(w) - 1 /\ Head(w) \in BOOLEAN
  BY HeadTailProperties
<1>. QED  BY <1>1, <1>2, <1>3

\* What can have been said to readLoop, and what is left when it has heard it.
LEMMA TellingsRead ==
  /\ Append(<<>>, TRUE) = <<TRUE>> /\ Append(<<>>, FALSE) = <<FALSE>>
  /\ Head(<<TRUE>>) = TRUE /\ Tail(<<TRUE>>) = <<>> /\ <<TRUE>> # <<>>
  /\ Head(<<FALSE>>) = FALSE /\ Tail(<<FALSE>>) = <<>> /\ <<FALSE>> # <<>>
  /\ Head(ToldTwice) = FALSE /\ Tail(ToldTwice) = <<FALSE>> /\ ToldTwice # <<>>
  /\ \A w \in Told : w \in Seq(BOOLEAN) /\ Len(w) <= 2
<1>1. /\ \A b \in BOOLEAN : <<b>> \in Seq(BOOLEAN) /\ Len(<<b>>) = 1 /\ <<b>> # <<>>
      /\ TRUE \in BOOLEAN /\ FALSE \in BOOLEAN /\ <<>> \in Seq(BOOLEAN) /\ Len(<<>>) = 0
  BY BoolChannel
<1>2. \A b \in BOOLEAN : Append(<<>>, b) = <<b>>
  OBVIOUS
<1>3. \A b \in BOOLEAN : Head(<<b>>) = b /\ Tail(<<b>>) = <<>>
  <2>1. \A b \in BOOLEAN : Tail(<<b>>) = <<>>
    <3>1. \A b \in BOOLEAN : Tail(<<b>>) \in Seq(BOOLEAN) /\ Len(Tail(<<b>>)) = 0
      BY BoolChannel
    <3>2. \A w \in Seq(BOOLEAN) : Len(w) = 0 => w = <<>>
      BY EmptySeq
    <3>. QED  BY <3>1, <3>2, Zenon
  <2>. QED  BY <2>1, BoolChannel, Zenon
<1>4. /\ ToldTwice \in Seq(BOOLEAN) /\ Len(ToldTwice) = 2 /\ ToldTwice # <<>>
  <2>1. /\ Append(<<FALSE>>, FALSE) \in Seq(BOOLEAN) /\ Append(<<FALSE>>, FALSE) # <<>>
        /\ Len(Append(<<FALSE>>, FALSE)) = Len(<<FALSE>>) + 1
    BY <1>1, AppendProperties, Zenon
  <2>2. Len(<<FALSE>>) = 1
    BY <1>1, Zenon
  <2>3. Len(Append(<<FALSE>>, FALSE)) = 2
    <3>1. 1 + 1 = 2
      OBVIOUS
    <3>. QED  BY <2>1, <2>2, <3>1, Zenon
  <2>. QED  BY <2>1, <2>3, Zenon DEF ToldTwice
<1>5. Head(ToldTwice) = FALSE /\ Tail(ToldTwice) = <<FALSE>>
  <2>1. /\ Head(ToldTwice) = Head(<<FALSE>>)
        /\ Tail(ToldTwice) = Append(Tail(<<FALSE>>), FALSE)
    BY <1>1, HeadTailAppend DEF ToldTwice
  <2>. QED  BY <1>1, <1>2, <1>3, <2>1, Zenon
<1>6. \A w \in Told : w \in Seq(BOOLEAN) /\ Len(w) <= 2
  <2>1. \A w \in Told : w \in {<<>>, <<TRUE>>, <<FALSE>>, ToldTwice}
    BY Zenon DEF Told
  <2>2. \A w \in Told : w \in Seq(BOOLEAN)
    BY <1>1, <1>4, <2>1, Zenon
  <2>3. \A w \in Told : Len(w) \in {0, 1, 2}
    BY <1>1, <1>4, <2>1, Zenon
  <2>4. \A n \in {0, 1, 2} : n <= 2
    OBVIOUS
  <2>. QED  BY <2>2, <2>3, <2>4, Zenon
<1>. QED  BY <1>1, <1>2, <1>3, <1>4, <1>5, <1>6, Zenon

\* The caller reads from the body, which is the holder's, or closes it.
LEMMA BodyStepped ==
  ASSUME Inv, NEW r \in Reqs, bodyStep(r)
  PROVE  /\ rl.req = r /\ r = holder /\ ~pooled
         /\ \A q \in Reqs : q # r => body'[q] = body[q]
         /\ \/ /\ wire # <<>> /\ Head(wire).kind = "end" /\ Head(wire).req = r
               /\ rl.at \in {"waitBody", "exit", "done"}
               /\ wire' = Tail(wire) /\ body'[r] = "eof" /\ waitForBodyRead' = <<TRUE>>
            \/ /\ wire' = wire /\ waitForBodyRead' = <<FALSE>>
               /\ rl.at \in {"waitBody", "exit", "done"}
               /\ body'[r] \in {"failed", "close"}
            \/ /\ wire' = wire /\ waitForBodyRead' \in {<<FALSE>>, ToldTwice}
               /\ body'[r] = "close" /\ GivenUp
<1>1. /\ rl.req = r /\ r = holder /\ ~pooled
      /\ body[r] = "open" => waitForBodyRead = <<>> /\ rl.at \in {"waitBody", "exit", "done"}
      /\ body[r] = "failed" => waitForBodyRead \in {<<>>, <<FALSE>>} /\ GivenUp
  <2>1. body[r] \in {"open", "failed"}
    BY Zenon DEF bodyStep
  <2>2. body[r] \in Reading
    BY <2>1 DEF Reading
  <2>3. /\ r = holder /\ ~pooled
        /\ body[r] = "open" => /\ rl.req = r /\ waitForBodyRead = <<>>
                               /\ rl.at \in {"waitBody", "exit", "done"}
    BY <2>2, Zenon DEF Inv, Bodies
  <2>4. /\ body[r] = "failed" => waitForBodyRead \in {<<>>, <<FALSE>>}
        /\ body[r] = "failed" => rl.req = r /\ GivenUp
    <3>1. body[r] = "failed" => body[r] \in {"failed", "close"}
      OBVIOUS
    <3>. QED  BY <3>1, Zenon DEF Inv, Bodies
  <2>. QED  BY <2>1, <2>3, <2>4, Zenon
<1>2. body \in [Reqs -> {"none", "open", "eof", "failed", "close", "done"}]
  BY Zenon DEF Inv, Shapes, NetShape
<1>3. /\ Append(<<>>, TRUE) = <<TRUE>> /\ Append(<<>>, FALSE) = <<FALSE>>
      /\ Append(<<FALSE>>, FALSE) = ToldTwice
  BY TellingsRead DEF ToldTwice
<1>4. CASE /\ body[r] = "open" /\ wire # <<>> /\ Head(wire) = [kind |-> "end", req |-> r]
           /\ wire' = Tail(wire) /\ body' = [body EXCEPT ![r] = "eof"]
           /\ waitForBodyRead' = Append(waitForBodyRead, TRUE)
  <2>1. waitForBodyRead' = <<TRUE>>
    BY <1>1, <1>3, <1>4, Zenon
  <2>2. Head(wire).kind = "end" /\ Head(wire).req = r
    BY <1>4
  <2>3. \A q \in Reqs : body'[q] = IF q = r THEN "eof" ELSE body[q]
    BY <1>2, <1>4
  <2>. QED  BY <1>1, <1>4, <2>1, <2>2, <2>3
<1>5. CASE /\ body[r] = "open" /\ body' = [body EXCEPT ![r] = "failed"]
           /\ waitForBodyRead' = Append(waitForBodyRead, FALSE) /\ UNCHANGED wire
  <2>1. waitForBodyRead' = <<FALSE>>
    BY <1>1, <1>3, <1>5, Zenon
  <2>. QED  BY <1>1, <1>2, <1>5, <2>1
<1>6. CASE /\ body[r] = "open" /\ body' = [body EXCEPT ![r] = "close"]
           /\ waitForBodyRead' = Append(waitForBodyRead, FALSE) /\ UNCHANGED wire
  <2>1. waitForBodyRead' = <<FALSE>>
    BY <1>1, <1>3, <1>6, Zenon
  <2>. QED  BY <1>1, <1>2, <1>6, <2>1
<1>7. CASE /\ body[r] = "failed" /\ body' = [body EXCEPT ![r] = "close"]
           /\ waitForBodyRead' = Append(waitForBodyRead, FALSE) /\ UNCHANGED wire
  <2>1. waitForBodyRead' \in {<<FALSE>>, ToldTwice}
    BY <1>1, <1>3, <1>7, Zenon
  <2>. QED  BY <1>1, <1>2, <1>7, <2>1
<1>. QED  BY <1>4, <1>5, <1>6, <1>7, Zenon DEF bodyStep

\* The first message on the wire is read.
LEMMA Popped ==
  ASSUME Inv, wire # <<>>, wire' = Tail(wire)
  PROVE  /\ wire' \in Seq(Msg) /\ 1 \in DOMAIN wire /\ Head(wire) = wire[1] /\ Head(wire) \in Msg
         /\ \A i \in DOMAIN wire' :
              /\ i \in Nat /\ i + 1 \in DOMAIN wire /\ 1 < i + 1 /\ wire'[i] = wire[i + 1]
<1>. wire \in Seq(Msg)
  BY DEF Inv, Shapes, NetShape
<1>. QED  OBVIOUS

\* A message is sent.
LEMMA Pushed ==
  ASSUME Inv, NEW m \in Msg, wire' = Append(wire, m)
  PROVE  /\ wire' \in Seq(Msg)
         /\ \A i \in DOMAIN wire' : \/ i \in DOMAIN wire /\ wire'[i] = wire[i]
                                    \/ i = Len(wire) + 1 /\ wire'[i] = m
         /\ \A i \in DOMAIN wire : i < Len(wire) + 1
<1>. wire \in Seq(Msg)
  BY DEF Inv, Shapes, NetShape
<1>. QED  OBVIOUS

\* What is left on the wire is in order when the first message has been read.
LEMMA TalkPopped ==
  ASSUME Inv, wire # <<>>, wire' = Tail(wire), UNCHANGED <<holder, pooled, srv, sent, srvClosed>>
  PROVE  Talk'
<1>1. \A i \in DOMAIN wire' :
        i \in Nat /\ i + 1 \in DOMAIN wire /\ 1 < i + 1 /\ wire'[i] = wire[i + 1]
  BY Popped, Zenon
<1>2. (\A i \in DOMAIN wire : IF wire[i].kind = "408" THEN srvClosed /\ wire[i].req = NoReq
                              ELSE wire[i].req = holder /\ holder \in sent)'
  BY <1>1 DEF Inv, Talk
<1>3. (\A i \in DOMAIN wire :
         /\ wire[i].kind \in {"empty", "close", "switch", "end"} => srv[wire[i].req] = "end"
         /\ wire[i].kind = "body" => srv[wire[i].req] \in {"head", "end"}
         /\ wire[i].kind = "100" => srv[wire[i].req] # "none")'
  BY <1>1 DEF Inv, Talk
<1>4. (\A i, j \in DOMAIN wire : i < j => \/ wire[i].kind = "100" \/ wire[j].kind = "408"
                                          \/ wire[i].kind = "body" /\ wire[j].kind = "end")'
  BY <1>1 DEF Inv, Talk
<1>5. (pooled => Drained)'
  BY <1>1 DEF Inv, Talk, Drained
<1>. QED  BY <1>2, <1>3, <1>4, <1>5 DEF Inv, Talk

\* What the server may say next.
MaySay(r, kind, state) ==
  \/ srv[r] = "none" /\ kind = "100" /\ state = "100"
  \/ srv[r] \in {"none", "100"} /\ kind = "body" /\ state = "head"
  \/ srv[r] \in {"none", "100"} /\ kind \in {"empty", "close", "switch"} /\ state = "end"
  \/ srv[r] = "head" /\ kind = "end" /\ state = "end"

\* The server answers the holder, and only it.
LEMMA Answered ==
  ASSUME Inv, NEW r \in Reqs, serverAnswers(r)
  PROVE  /\ r \in sent /\ r = holder /\ ~pooled /\ ~srvClosed
         /\ \E kind, state : MaySay(r, kind, state) /\ Says(r, kind, state)
         /\ UNCHANGED <<holder, pooled, sent, srvClosed>>
<1>1. \E kind, state : MaySay(r, kind, state) /\ Says(r, kind, state)
  <2>1. CASE srv[r] = "none" /\ Says(r, "100", "100")
    BY <2>1, Zenon DEF MaySay
  <2>2. ASSUME srv[r] \in {"none", "100"}, NEW kind \in Answers,
               Says(r, kind, IF kind = "body" THEN "head" ELSE "end")
        PROVE  \E k, state : MaySay(r, k, state) /\ Says(r, k, state)
    <3>1. kind \in {"empty", "close", "body", "switch"}
      BY ConnAssumption, Zenon
    <3>2. CASE kind = "body"
      BY <2>2, <3>2, Zenon DEF MaySay
    <3>3. CASE kind # "body"
      BY <2>2, <3>1, <3>3, Zenon DEF MaySay
    <3>. QED  BY <3>2, <3>3, Zenon
  <2>3. CASE srv[r] = "head" /\ Says(r, "end", "end")
    BY <2>3, Zenon DEF MaySay
  <2>. QED  BY <2>1, <2>2, <2>3, Zenon DEF serverAnswers
<1>2. srv[r] # "end"
  BY DEF serverAnswers
<1>3. r \in sent /\ ~srvClosed /\ UNCHANGED <<holder, pooled, sent, srvClosed>>
  BY DEF serverAnswers, pcVars
<1>4. r = holder /\ ~pooled
  BY <1>2, <1>3, Zenon DEF Inv, Talk
<1>. QED  BY <1>1, <1>3, <1>4, Zenon

\* A message of the server keeps the wire in order.
LEMMA TalkSaid ==
  ASSUME Inv, NEW r \in Reqs, r \in sent, r = holder, ~pooled, ~srvClosed,
         NEW kind, NEW state, MaySay(r, kind, state), Says(r, kind, state),
         UNCHANGED <<holder, pooled, sent, srvClosed>>
  PROVE  /\ Talk'
         /\ srv'[r] = state /\ \A q \in Reqs : q # r => srv'[q] = srv[q]
         /\ \A i \in DOMAIN wire' : \/ i \in DOMAIN wire /\ wire'[i] = wire[i]
                                    \/ wire'[i].kind = kind
<1>. DEFINE m == [kind |-> kind, req |-> r]
<1>1. m \in Msg
  BY DEF MaySay, Msg
<1>2. wire' = Append(wire, m)
  BY DEF Says
<1>3. \A i \in DOMAIN wire' : \/ i \in DOMAIN wire /\ wire'[i] = wire[i]
                              \/ i = Len(wire) + 1 /\ wire'[i].kind = kind /\ wire'[i].req = r
  BY <1>1, <1>2, Pushed
<1>4. \A i \in DOMAIN wire : i < Len(wire) + 1 /\ i \in Nat
  BY DEF Inv, Shapes, NetShape
<1>5. Len(wire) \in Nat
  BY DEF Inv, Shapes, NetShape
<1>. HIDE DEF m
<1>6. srv'[r] = state /\ \A q \in Reqs : q # r => srv'[q] = srv[q]
  BY DEF Inv, Shapes, NetShape, Says
<1>7. \A i \in DOMAIN wire : wire[i].kind # "408" /\ wire[i].req = r
  BY DEF Inv, Talk
<1>8. (\A i \in DOMAIN wire : IF wire[i].kind = "408" THEN srvClosed /\ wire[i].req = NoReq
                              ELSE wire[i].req = holder /\ holder \in sent)'
  BY <1>3, <1>7 DEF MaySay
<1>9. (\A i \in DOMAIN wire :
         /\ wire[i].kind \in {"empty", "close", "switch", "end"} => srv[wire[i].req] = "end"
         /\ wire[i].kind = "body" => srv[wire[i].req] \in {"head", "end"}
         /\ wire[i].kind = "100" => srv[wire[i].req] # "none")'
  BY <1>3, <1>6, <1>7 DEF Inv, Talk, MaySay
<1>10. (\A i, j \in DOMAIN wire : i < j => \/ wire[i].kind = "100" \/ wire[j].kind = "408"
                                           \/ wire[i].kind = "body" /\ wire[j].kind = "end")'
  <2>1. \A i \in DOMAIN wire : wire[i].kind = "100" \/ (wire[i].kind = "body" /\ kind = "end")
    <3>1. \A i \in DOMAIN wire : wire[i] \in Msg
      BY DEF Inv, Shapes, NetShape
    <3>. QED  BY <3>1, <1>7 DEF Inv, Talk, MaySay, Msg
  <2>. QED  BY <2>1, <1>3, <1>4, <1>5 DEF Inv, Talk
<1>11. (\A q \in Reqs : IF q \in sent THEN q # holder \/ pooled => srv[q] = "end"
                        ELSE srv[q] = "none")'
  BY <1>6 DEF Inv, Talk
<1>12. Talk'
  BY <1>8, <1>9, <1>10, <1>11, Zenon DEF Talk
<1>. QED  BY <1>3, <1>6, <1>12, Zenon

\* roundTrip moves on with a new record.
LEMMA RtUpdated ==
  ASSUME RtShape, NEW r \in Reqs, NEW s \in RtState, rt' = [rt EXCEPT ![r] = s]
  PROVE  RtShape'
BY DEF RtShape

\* ... with an error.
LEMMA RtErred ==
  ASSUME RtShape, NEW r \in Reqs, NEW pos \in InFlight, NEW e \in Errors,
         rt' = [rt EXCEPT ![r].at = pos, ![r].err = e]
  PROVE  RtShape'
<1>1. rt' = [rt EXCEPT ![r] = [rt[r] EXCEPT !.at = pos, !.err = e]]
  BY DEF RtShape
<1>2. [rt[r] EXCEPT !.at = pos, !.err = e] \in RtState
  BY DEF RtShape, RtState
<1>. QED  BY <1>1, <1>2, RtUpdated

\* Every step keeps Holding.
LEMMA HoldingStep ==
  ASSUME Inv, [Next]_vars
  PROVE  Holding'
<1>1. ASSUME NEW r \in Reqs,
              \/ userCancels(r) \/ bodyStep(r) \/ bodyReleased(r) \/ serverAnswers(r)
      PROVE  UNCHANGED <<rt, rl, holder, pooled, canceler>>
  BY <1>1 DEF bodyReleased, bodyStep, serverAnswers, userCancels, cancelVars, pcVars
<1>2. ASSUME 
              \/ writeLoopTakes \/ writeLoopQuits \/ waitForContinue \/ reportWriteErr
              \/ readContinue \/ serverCloses \/ writeHead \/ writeFlush \/ writeFails
              \/ writeBody
      PROVE  UNCHANGED <<rt, rl, holder, pooled, canceler>>
  BY <1>2 DEF readContinue, reportWriteErr, serverCloses, waitForContinue, writeBody, writeFails,
         writeFlush, writeHead, writeLoopQuits, writeLoopTakes, cancelVars, pcVars
<1>3. ASSUME UNCHANGED <<rt, rl, holder, pooled, canceler>> PROVE Holding'
  BY <1>3 DEF Inv, Shapes, RtShape, RtState, RlShape, Holding, Reader, CancelHitsOwnConn, Serving,
         HadBody, Unsent
<1>4. ASSUME NEW r \in Reqs, getConn(r) PROVE Holding'
  BY <1>4, ConnAssumption DEF Inv, Shapes, RtShape, RtState, RlShape, Holding, Reader,
     CancelHitsOwnConn, Serving, HadBody, Unsent, getConn, At
<1>5. ASSUME NEW r \in Reqs, roundTripCanceled(r) PROVE Holding'
  BY <1>5, ConnAssumption DEF Inv, Shapes, RtShape, RtState, RlShape, Holding, Reader,
     CancelHitsOwnConn, Serving, HadBody, Unsent, roundTripCanceled, putAccepted, putRefused,
     cancelVars
<1>6. ASSUME NEW r \in Reqs, roundTripBegins(r) PROVE Holding'
  BY <1>6, ConnAssumption DEF Inv, Shapes, RtShape, RtState, RlShape, Holding, Reader,
     CancelHitsOwnConn, Serving, HadBody, Unsent, roundTripBegins, At, cancelVars
<1>7. ASSUME NEW r \in Reqs, sendWritech(r) PROVE Holding'
  BY <1>7, ConnAssumption DEF Inv, Shapes, RtShape, RtState, RlShape, Holding, Reader,
     CancelHitsOwnConn, Serving, HadBody, Unsent, sendWritech, pcVars, cancelVars
<1>8. ASSUME NEW r \in Reqs, sendReqch(r) PROVE Holding'
  BY <1>8, ConnAssumption DEF Inv, Shapes, RtShape, RtState, RlShape, Holding, Reader,
     CancelHitsOwnConn, Serving, HadBody, Unsent, sendReqch, At, pcVars, cancelVars
<1>9. ASSUME NEW r \in Reqs, selectWriteErr(r) PROVE Holding'
  BY <1>9, ConnAssumption DEF Inv, Shapes, RtShape, RtState, RlShape, Holding, Reader,
     CancelHitsOwnConn, Serving, HadBody, Unsent, selectWriteErr, cancelVars
<1>10. ASSUME NEW r \in Reqs, selectClosed(r) PROVE Holding'
  BY <1>10, ConnAssumption DEF Inv, Shapes, RtShape, RtState, RlShape, Holding, Reader,
     CancelHitsOwnConn, Serving, HadBody, Unsent, selectClosed, pcVars
<1>11. ASSUME NEW r \in Reqs, selectTimeout(r) PROVE Holding'
  BY <1>11, ConnAssumption DEF Inv, Shapes, RtShape, RtState, RlShape, Holding, Reader,
     CancelHitsOwnConn, Serving, HadBody, Unsent, selectTimeout
<1>12. ASSUME NEW r \in Reqs, selectCancel(r) PROVE Holding'
  BY <1>12, ConnAssumption DEF Inv, Shapes, RtShape, RtState, RlShape, Holding, Reader,
     CancelHitsOwnConn, Serving, HadBody, Unsent, selectCancel, cancelRequest
<1>13. ASSUME NEW r \in Reqs, selectCtxDone(r) PROVE Holding'
  BY <1>13, ConnAssumption DEF Inv, Shapes, RtShape, RtState, RlShape, Holding, Reader,
     CancelHitsOwnConn, Serving, HadBody, Unsent, selectCtxDone, cancelRequest
<1>14. ASSUME NEW r \in Reqs, mapRoundTripError(r) PROVE Holding'
  BY <1>14, ConnAssumption DEF Inv, Shapes, RtShape, RtState, RlShape, Holding, Reader,
     CancelHitsOwnConn, Serving, HadBody, Unsent, mapRoundTripError, pcVars
<1>15. ASSUME NEW r \in Reqs, afterFailure(r) PROVE Holding'
  BY <1>15, ConnAssumption DEF Inv, Shapes, RtShape, RtState, RlShape, Holding, Reader,
     CancelHitsOwnConn, Serving, HadBody, Unsent, afterFailure, At, pcVars, cancelVars
<1>16. ASSUME NEW r \in Reqs, CancelRequest(r) PROVE Holding'
  BY <1>16, ConnAssumption DEF Inv, Shapes, RtShape, RtState, RlShape, Holding, Reader,
     CancelHitsOwnConn, Serving, HadBody, Unsent, CancelRequest, cancelRequest
<1>17. ASSUME readLoopPeek PROVE Holding'
  BY <1>17, ConnAssumption DEF Inv, Shapes, RtShape, RtState, RlShape, Holding, Reader,
     CancelHitsOwnConn, Serving, HadBody, Unsent, readLoopPeek, pcVars, cancelVars
<1>18. ASSUME readLoopExpects PROVE Holding'
  BY <1>18, ConnAssumption DEF Inv, Shapes, RtShape, RtState, RlShape, Holding, Reader,
     CancelHitsOwnConn, Serving, HadBody, Unsent, readLoopExpects, RL, cancelVars
<1>19. ASSUME readLoopTakes PROVE Holding'
  BY <1>19, ConnAssumption DEF Inv, Shapes, RtShape, RtState, RlShape, Holding, Reader,
     CancelHitsOwnConn, Serving, HadBody, Unsent, readLoopTakes, pcVars, cancelVars
<1>20. ASSUME readResponse PROVE Holding'
  BY <1>20, ConnAssumption DEF Inv, Shapes, RtShape, RtState, RlShape, Holding, Reader,
     CancelHitsOwnConn, Serving, HadBody, Unsent, readResponse, cancelVars
<1>21. ASSUME readResponseFails PROVE Holding'
  BY <1>21, ConnAssumption DEF Inv, Shapes, RtShape, RtState, RlShape, Holding, Reader,
     CancelHitsOwnConn, Serving, HadBody, Unsent, readResponseFails, pcVars, cancelVars
<1>22. ASSUME sendErr PROVE Holding'
  BY <1>22, ConnAssumption DEF Inv, Shapes, RtShape, RtState, RlShape, Holding, Reader,
     CancelHitsOwnConn, Serving, HadBody, Unsent, sendErr, RL, Gone, pcVars, cancelVars
<1>23. ASSUME sendResponse PROVE Holding'
  BY <1>23, ConnAssumption DEF Inv, Shapes, RtShape, RtState, RlShape, Holding, Reader,
     CancelHitsOwnConn, Serving, HadBody, Unsent, sendResponse, RL, Gone, pcVars, cancelVars
<1>24. ASSUME bodyRead PROVE Holding'
  BY <1>24, ConnAssumption DEF Inv, Shapes, RtShape, RtState, RlShape, Holding, Reader,
     CancelHitsOwnConn, Serving, HadBody, Unsent, bodyRead, pcVars, cancelVars
<1>25. ASSUME bodyAbandoned PROVE Holding'
  BY <1>25, ConnAssumption DEF Inv, Shapes, RtShape, RtState, RlShape, Holding, Reader,
     CancelHitsOwnConn, Serving, HadBody, Unsent, bodyAbandoned, cancelRequest
<1>26. ASSUME replaceCanceler PROVE Holding'
  BY <1>26, ConnAssumption DEF Inv, Shapes, RtShape, RtState, RlShape, Holding, Reader,
     CancelHitsOwnConn, Serving, HadBody, Unsent, replaceCanceler, Recycled, pcVars
<1>27. ASSUME wroteRequest PROVE Holding'
  BY <1>27, ConnAssumption DEF Inv, Shapes, RtShape, RtState, RlShape, Holding, Reader,
     CancelHitsOwnConn, Serving, HadBody, Unsent, wroteRequest, RL, Recycled, pcVars, cancelVars
<1>28. ASSUME readLoopPuts PROVE Holding'
  <2>1. UNCHANGED <<rt, holder, canceler>>
    BY <1>28 DEF readLoopPuts, cancelVars
  <2>. QED  BY <1>28, <2>1, PutBack, ConnAssumption DEF Inv, Shapes, RtState, Holding, Reader,
               CancelHitsOwnConn, Serving, HadBody, Unsent, Onward, SameResponse
<1>29. ASSUME sendEofc PROVE Holding'
  BY <1>29, ConnAssumption DEF Inv, Shapes, RtShape, RtState, RlShape, Holding, Reader,
     CancelHitsOwnConn, Serving, HadBody, Unsent, sendEofc, RL, pcVars, cancelVars
<1>30. ASSUME readLoopExits PROVE Holding'
  BY <1>30, ConnAssumption DEF Inv, Shapes, RtShape, RtState, RlShape, Holding, Reader,
     CancelHitsOwnConn, Serving, HadBody, Unsent, readLoopExits, RL, cancelVars
<1>31. ASSUME closeIdle PROVE Holding'
  BY <1>31, ConnAssumption DEF Inv, Shapes, RtShape, RtState, RlShape, Holding, Reader,
     CancelHitsOwnConn, Serving, HadBody, Unsent, closeIdle, cancelVars
<1>. QED
  BY <1>1, <1>2, <1>3, <1>4, <1>5, <1>6, <1>7, <1>8, <1>9, <1>10, <1>11, <1>12, <1>13, <1>14,
     <1>15, <1>16, <1>17, <1>18, <1>19, <1>20, <1>21, <1>22, <1>23, <1>24, <1>25, <1>26, <1>27,
     <1>28, <1>29, <1>30, <1>31, Zenon
  DEF Next, roundTrip, writeLoop, readLoop, vars, pcVars, chanVars, cancelVars, reqVars, netVars

\* Every step keeps Writer.
LEMMA WriterStep ==
  ASSUME Inv, [Next]_vars
  PROVE  Writer'
<1>1. ASSUME NEW r \in Reqs,
              \/ userCancels(r) \/ bodyStep(r) \/ bodyReleased(r) \/ serverAnswers(r)
      PROVE  UNCHANGED <<rt, rl, wl, holder, pooled, writech, writeErrCh, reqch, closed>>
  BY <1>1 DEF bodyReleased, bodyStep, serverAnswers, userCancels, chanVars, pcVars
<1>2. ASSUME 
              \/ readContinue \/ serverCloses
      PROVE  UNCHANGED <<rt, rl, wl, holder, pooled, writech, writeErrCh, reqch, closed>>
  BY <1>2 DEF readContinue, serverCloses, chanVars, pcVars
<1>3. ASSUME UNCHANGED <<rt, rl, wl, holder, pooled, writech, writeErrCh, reqch, closed>> PROVE Writer'
  BY <1>3 DEF Inv, Shapes, RtShape, RtState, RlShape, WlShape, Writer, Holding, Reader, Before,
     Given, Handed, Serving, HadBody, Writing, Unsent
<1>4. ASSUME NEW r \in Reqs, getConn(r) PROVE Writer'
  BY <1>4, ConnAssumption DEF Inv, Shapes, RtShape, RtState, RlShape, WlShape, Writer, Holding,
     Reader, Before, Given, Handed, Serving, HadBody, Writing, Unsent, getConn, At, chanVars
<1>5. ASSUME NEW r \in Reqs, roundTripCanceled(r) PROVE Writer'
  BY <1>5, ConnAssumption DEF Inv, Shapes, RtShape, RtState, RlShape, WlShape, Writer, Holding,
     Reader, Before, Given, Handed, Serving, HadBody, Writing, Unsent, roundTripCanceled,
     closeLocked, putAccepted, putRefused, chanVars
<1>6. ASSUME NEW r \in Reqs, roundTripBegins(r) PROVE Writer'
  BY <1>6, ConnAssumption DEF Inv, Shapes, RtShape, RtState, RlShape, WlShape, Writer, Holding,
     Reader, Before, Given, Handed, Serving, HadBody, Writing, Unsent, roundTripBegins, At
<1>7. ASSUME NEW r \in Reqs, sendWritech(r) PROVE Writer'
  BY <1>7, ConnAssumption DEF Inv, Shapes, RtShape, RtState, RlShape, WlShape, Writer, Holding,
     Reader, Before, Given, Handed, Serving, HadBody, Writing, Unsent, sendWritech, pcVars
<1>8. ASSUME NEW r \in Reqs, sendReqch(r) PROVE Writer'
  BY <1>8, ConnAssumption DEF Inv, Shapes, RtShape, RtState, RlShape, WlShape, Writer, Holding,
     Reader, Before, Given, Handed, Serving, HadBody, Writing, Unsent, sendReqch, At, pcVars
<1>9. ASSUME NEW r \in Reqs, selectWriteErr(r) PROVE Writer'
  BY <1>9, ConnAssumption DEF Inv, Shapes, RtShape, RtState, RlShape, WlShape, Writer, Holding,
     Reader, Before, Given, Handed, Serving, HadBody, Writing, Unsent, selectWriteErr,
     closeLocked
<1>10. ASSUME NEW r \in Reqs, selectClosed(r) PROVE Writer'
  BY <1>10, ConnAssumption DEF Inv, Shapes, RtShape, RtState, RlShape, WlShape, Writer, Holding,
     Reader, Before, Given, Handed, Serving, HadBody, Writing, Unsent, selectClosed, pcVars,
     chanVars
<1>11. ASSUME NEW r \in Reqs, selectTimeout(r) PROVE Writer'
  BY <1>11, ConnAssumption DEF Inv, Shapes, RtShape, RtState, RlShape, WlShape, Writer, Holding,
     Reader, Before, Given, Handed, Serving, HadBody, Writing, Unsent, selectTimeout,
     closeLocked, chanVars
<1>12. ASSUME NEW r \in Reqs, selectCancel(r) PROVE Writer'
  BY <1>12, ConnAssumption DEF Inv, Shapes, RtShape, RtState, RlShape, WlShape, Writer, Holding,
     Reader, Before, Given, Handed, Serving, HadBody, Writing, Unsent, selectCancel,
     cancelRequest, closeLocked, chanVars
<1>13. ASSUME NEW r \in Reqs, selectCtxDone(r) PROVE Writer'
  BY <1>13, ConnAssumption DEF Inv, Shapes, RtShape, RtState, RlShape, WlShape, Writer, Holding,
     Reader, Before, Given, Handed, Serving, HadBody, Writing, Unsent, selectCtxDone,
     cancelRequest, closeLocked, chanVars
<1>14. ASSUME NEW r \in Reqs, mapRoundTripError(r) PROVE Writer'
  BY <1>14, ConnAssumption DEF Inv, Shapes, RtShape, RtState, RlShape, WlShape, Writer, Holding,
     Reader, Before, Given, Handed, Serving, HadBody, Writing, Unsent, mapRoundTripError, pcVars,
     chanVars
<1>15. ASSUME NEW r \in Reqs, afterFailure(r) PROVE Writer'
  BY <1>15, ConnAssumption DEF Inv, Shapes, RtShape, RtState, RlShape, WlShape, Writer, Holding,
     Reader, Before, Given, Handed, Serving, HadBody, Writing, Unsent, afterFailure, At, pcVars,
     chanVars
<1>16. ASSUME NEW r \in Reqs, CancelRequest(r) PROVE Writer'
  BY <1>16, ConnAssumption DEF Inv, Shapes, RtShape, RtState, RlShape, WlShape, Writer, Holding,
     Reader, Before, Given, Handed, Serving, HadBody, Writing, Unsent, CancelRequest,
     cancelRequest, closeLocked, chanVars
<1>17. ASSUME writeLoopTakes PROVE Writer'
  <2>1. (writech = <<>> \/ (writech = <<holder>> /\ holder \in Reqs /\ ~pooled))'
    BY <1>17, ConnAssumption DEF Inv, Shapes, RtShape, RtState, RlShape, WlShape, Writer,
       Holding, Reader, Before, Given, Handed, Serving, HadBody, Writing, Unsent, writeLoopTakes,
       pcVars
  <2>2. (writeErrCh = <<>> \/ (writeErrCh = <<wl.err>> /\ wl.at \in {"reqErrCh", "select", "close", "done"}))'
    BY <1>17, ConnAssumption DEF Inv, Shapes, RtShape, RtState, RlShape, WlShape, Writer,
       Holding, Reader, Before, Given, Handed, Serving, HadBody, Writing, Unsent, writeLoopTakes,
       pcVars
  <2>3. (Before \/ writech # <<>> \/ rl.at = "put" =>
           writeErrCh = <<>> /\ wl.err = "nil" /\ wl.at \in {"select", "reqErrCh", "done"})'
    BY <1>17, ConnAssumption DEF Inv, Shapes, RtShape, RtState, RlShape, WlShape, Writer,
       Holding, Reader, Before, Given, Handed, Serving, HadBody, Writing, Unsent, writeLoopTakes,
       pcVars
  <2>4. (pooled \/ (holder \in Reqs /\ rt[holder].at = "start") \/ rl.at = "put" => writech = <<>>)'
    BY <1>17, ConnAssumption DEF Inv, Shapes, RtShape, RtState, RlShape, WlShape, Writer,
       Holding, Reader, Before, Given, Handed, Serving, HadBody, Writing, Unsent, writeLoopTakes,
       pcVars
  <2>5. (wl.at \in Writing \cup {"writeErrCh"} => /\ wl.req = holder /\ writeErrCh = <<>>)'
    BY <1>17, ConnAssumption DEF Inv, Shapes, RtShape, RtState, RlShape, WlShape, Writer,
       Holding, Reader, Before, Given, Handed, Serving, HadBody, Writing, Unsent, writeLoopTakes,
       pcVars
  <2>6. (wl.at \in Writing => wl.err = "nil")'
    BY <1>17, ConnAssumption DEF Inv, Shapes, RtShape, RtState, RlShape, WlShape, Writer,
       Holding, Reader, Before, Given, Handed, Serving, HadBody, Writing, Unsent, writeLoopTakes,
       pcVars
  <2>7. (wl.at = "close" => wl.err # "nil")'
    BY <1>17, ConnAssumption DEF Inv, Shapes, RtShape, RtState, RlShape, WlShape, Writer,
       Holding, Reader, Before, Given, Handed, Serving, HadBody, Writing, Unsent, writeLoopTakes,
       pcVars
  <2>8. (wl.at = "select" => wl.err = "nil")'
    BY <1>17, ConnAssumption DEF Inv, Shapes, RtShape, RtState, RlShape, WlShape, Writer,
       Holding, Reader, Before, Given, Handed, Serving, HadBody, Writing, Unsent, writeLoopTakes,
       pcVars
  <2>9. (wl.at \notin {"select", "done"} => wl.req \in Reqs)'
    BY <1>17, ConnAssumption DEF Inv, Shapes, RtShape, RtState, RlShape, WlShape, Writer,
       Holding, Reader, Before, Given, Handed, Serving, HadBody, Writing, Unsent, writeLoopTakes,
       pcVars
  <2>10. (wl.at = "done" => closed # "nil")'
    BY <1>17, ConnAssumption DEF Inv, Shapes, RtShape, RtState, RlShape, WlShape, Writer,
       Holding, Reader, Before, Given, Handed, Serving, HadBody, Writing, Unsent, writeLoopTakes,
       pcVars
  <2>11. (wl.at = "continue" => wl.req \in Expects)'
    BY <1>17, ConnAssumption DEF Inv, Shapes, RtShape, RtState, RlShape, WlShape, Writer,
       Holding, Reader, Before, Given, Handed, Serving, HadBody, Writing, Unsent, writeLoopTakes,
       pcVars
  <2>12. (wl.at = "body" => wl.req \in HasBody)'
    BY <1>17, ConnAssumption DEF Inv, Shapes, RtShape, RtState, RlShape, WlShape, Writer,
       Holding, Reader, Before, Given, Handed, Serving, HadBody, Writing, Unsent, writeLoopTakes,
       pcVars
  <2>13. (Handed => Given(holder))'
    BY <1>17, ConnAssumption DEF Inv, Shapes, RtShape, RtState, RlShape, WlShape, Writer,
       Holding, Reader, Before, Given, Handed, Serving, HadBody, Writing, Unsent, writeLoopTakes,
       pcVars
  <2>14. (\A q \in Reqs : rt[q].at \in Unsent => wl.req # q /\ writech # <<q>>)'
    BY <1>17, ConnAssumption DEF Inv, Shapes, RtShape, RtState, RlShape, WlShape, Writer,
       Holding, Reader, Before, Given, Handed, Serving, HadBody, Writing, Unsent, writeLoopTakes,
       pcVars
  <2>15. (writech # <<wl.req>>)'
    BY <1>17, ConnAssumption DEF Inv, Shapes, RtShape, RtState, RlShape, WlShape, Writer,
       Holding, Reader, Before, Given, Handed, Serving, HadBody, Writing, Unsent, writeLoopTakes,
       pcVars
  <2>. QED  BY <2>1, <2>2, <2>3, <2>4, <2>5, <2>6, <2>7, <2>8, <2>9, <2>10, <2>11, <2>12, <2>13,
            <2>14, <2>15 DEF Writer
<1>18. ASSUME writeLoopQuits PROVE Writer'
  BY <1>18, ConnAssumption DEF Inv, Shapes, RtShape, RtState, RlShape, WlShape, Writer, Holding,
     Reader, Before, Given, Handed, Serving, HadBody, Writing, Unsent, writeLoopQuits, WL,
     pcVars, chanVars
<1>19. ASSUME waitForContinue PROVE Writer'
  BY <1>19, ConnAssumption DEF Inv, Shapes, RtShape, RtState, RlShape, WlShape, Writer, Holding,
     Reader, Before, Given, Handed, Serving, HadBody, Writing, Unsent, waitForContinue, WL,
     pcVars
<1>20. ASSUME reportWriteErr PROVE Writer'
  BY <1>20, ConnAssumption DEF Inv, Shapes, RtShape, RtState, RlShape, WlShape, Writer, Holding,
     Reader, Before, Given, Handed, Serving, HadBody, Writing, Unsent, reportWriteErr,
     closeLocked, WL
<1>21. ASSUME readLoopPeek PROVE Writer'
  BY <1>21, ConnAssumption DEF Inv, Shapes, RtShape, RtState, RlShape, WlShape, Writer, Holding,
     Reader, Before, Given, Handed, Serving, HadBody, Writing, Unsent, readLoopPeek, ReadFails,
     pcVars, chanVars
<1>22. ASSUME readLoopExpects PROVE Writer'
  BY <1>22, ConnAssumption DEF Inv, Shapes, RtShape, RtState, RlShape, WlShape, Writer, Holding,
     Reader, Before, Given, Handed, Serving, HadBody, Writing, Unsent, readLoopExpects,
     closeLocked, RL, chanVars
<1>23. ASSUME readLoopTakes PROVE Writer'
  BY <1>23, ConnAssumption DEF Inv, Shapes, RtShape, RtState, RlShape, WlShape, Writer, Holding,
     Reader, Before, Given, Handed, Serving, HadBody, Writing, Unsent, readLoopTakes, pcVars
<1>24. ASSUME readResponse PROVE Writer'
  BY <1>24, ConnAssumption DEF Inv, Shapes, RtShape, RtState, RlShape, WlShape, Writer, Holding,
     Reader, Before, Given, Handed, Serving, HadBody, Writing, Unsent, readResponse
<1>25. ASSUME readResponseFails PROVE Writer'
  BY <1>25, ConnAssumption DEF Inv, Shapes, RtShape, RtState, RlShape, WlShape, Writer, Holding,
     Reader, Before, Given, Handed, Serving, HadBody, Writing, Unsent, readResponseFails,
     ReadFails, pcVars, chanVars
<1>26. ASSUME sendErr PROVE Writer'
  BY <1>26, ConnAssumption DEF Inv, Shapes, RtShape, RtState, RlShape, WlShape, Writer, Holding,
     Reader, Before, Given, Handed, Serving, HadBody, Writing, Unsent, sendErr, RL, Gone, pcVars,
     chanVars
<1>27. ASSUME sendResponse PROVE Writer'
  BY <1>27, ConnAssumption DEF Inv, Shapes, RtShape, RtState, RlShape, WlShape, Writer, Holding,
     Reader, Before, Given, Handed, Serving, HadBody, Writing, Unsent, sendResponse, RL, Gone,
     pcVars
<1>28. ASSUME bodyRead PROVE Writer'
  BY <1>28, ConnAssumption, ZenonT(60) DEF Inv, Shapes, RtShape, RtState, RlShape, WlShape,
     Writer, Holding, Reader, Before, Given, Handed, Serving, HadBody, Writing, Unsent, bodyRead,
     pcVars
<1>29. ASSUME bodyAbandoned PROVE Writer'
  BY <1>29, ConnAssumption DEF Inv, Shapes, RtShape, RtState, RlShape, WlShape, Writer, Holding,
     Reader, Before, Given, Handed, Serving, HadBody, Writing, Unsent, bodyAbandoned,
     cancelRequest, closeLocked, chanVars
<1>30. ASSUME replaceCanceler PROVE Writer'
  <2>1. UNCHANGED <<rt, wl, holder, pooled, writech, writeErrCh, reqch, closed>>
    BY <1>30 DEF replaceCanceler, pcVars, chanVars
  <2>. QED  BY <1>30, <2>1, CancelerReplaced, ConnAssumption, ZenonT(60) DEF Inv, Shapes,
               RtState, Writer, Holding, Reader, Before, Given, Handed, Serving, HadBody,
               Writing, Unsent, Onward, SameResponse
<1>31. ASSUME wroteRequest PROVE Writer'
  <2>1. UNCHANGED <<rt, wl, holder, pooled, writech, reqch, closed>>
    BY <1>31 DEF wroteRequest, pcVars
  <2>2. (writech = <<>> \/ (writech = <<holder>> /\ holder \in Reqs /\ ~pooled))'
    BY <1>31, <2>1, WriteLearnt, ConnAssumption DEF Inv, Shapes, RtState, Writer, Holding,
       Reader, Before, Given, Handed, Serving, HadBody, Writing, Unsent, Onward, SameResponse
  <2>3. (writeErrCh = <<>> \/ (writeErrCh = <<wl.err>> /\ wl.at \in {"reqErrCh", "select", "close", "done"}))'
    BY <1>31, <2>1, WriteLearnt, ConnAssumption DEF Inv, Shapes, RtState, Writer, Holding,
       Reader, Before, Given, Handed, Serving, HadBody, Writing, Unsent, Onward, SameResponse
  <2>4. (Before \/ writech # <<>> \/ rl.at = "put" =>
           writeErrCh = <<>> /\ wl.err = "nil" /\ wl.at \in {"select", "reqErrCh", "done"})'
    <3>1. CASE rl'.at = "put" /\ writeErrCh # <<>> /\ Head(writeErrCh) = "nil"
      BY <3>1, <2>1, <1>31, WriteLearnt DEF Inv, Writer
    <3>2. CASE Onward(FALSE)
      <4>1. rl'.at # "put"
        BY <3>2, <1>31, WriteLearnt DEF Inv, Onward
      <4>. QED  BY <4>1, <2>1, <1>31, WriteLearnt DEF Inv, Writer, Before
    <3>. QED  BY <3>1, <3>2, <1>31, WriteLearnt, Zenon DEF Inv
  <2>5. (pooled \/ (holder \in Reqs /\ rt[holder].at = "start") \/ rl.at = "put" => writech = <<>>)'
    BY <1>31, <2>1, WriteLearnt, ConnAssumption DEF Inv, Shapes, RtState, Writer, Holding,
       Reader, Before, Given, Handed, Serving, HadBody, Writing, Unsent, Onward, SameResponse
  <2>6. (wl.at \in Writing \cup {"writeErrCh"} => /\ wl.req = holder /\ writeErrCh = <<>>)'
    BY <1>31, <2>1, WriteLearnt, ConnAssumption DEF Inv, Shapes, RtState, Writer, Holding,
       Reader, Before, Given, Handed, Serving, HadBody, Writing, Unsent, Onward, SameResponse
  <2>7. (wl.at \in Writing => wl.err = "nil")'
    BY <1>31, <2>1, WriteLearnt, ConnAssumption DEF Inv, Shapes, RtState, Writer, Holding,
       Reader, Before, Given, Handed, Serving, HadBody, Writing, Unsent, Onward, SameResponse
  <2>8. (wl.at = "close" => wl.err # "nil")'
    BY <1>31, <2>1, WriteLearnt, ConnAssumption DEF Inv, Shapes, RtState, Writer, Holding,
       Reader, Before, Given, Handed, Serving, HadBody, Writing, Unsent, Onward, SameResponse
  <2>9. (wl.at = "select" => wl.err = "nil")'
    BY <1>31, <2>1, WriteLearnt, ConnAssumption DEF Inv, Shapes, RtState, Writer, Holding,
       Reader, Before, Given, Handed, Serving, HadBody, Writing, Unsent, Onward, SameResponse
  <2>10. (wl.at \notin {"select", "done"} => wl.req \in Reqs)'
    BY <1>31, <2>1, WriteLearnt, ConnAssumption DEF Inv, Shapes, RtState, Writer, Holding,
       Reader, Before, Given, Handed, Serving, HadBody, Writing, Unsent, Onward, SameResponse
  <2>11. (wl.at = "done" => closed # "nil")'
    BY <1>31, <2>1, WriteLearnt, ConnAssumption DEF Inv, Shapes, RtState, Writer, Holding,
       Reader, Before, Given, Handed, Serving, HadBody, Writing, Unsent, Onward, SameResponse
  <2>12. (wl.at = "continue" => wl.req \in Expects)'
    BY <1>31, <2>1, WriteLearnt, ConnAssumption DEF Inv, Shapes, RtState, Writer, Holding,
       Reader, Before, Given, Handed, Serving, HadBody, Writing, Unsent, Onward, SameResponse
  <2>13. (wl.at = "body" => wl.req \in HasBody)'
    BY <1>31, <2>1, WriteLearnt, ConnAssumption DEF Inv, Shapes, RtState, Writer, Holding,
       Reader, Before, Given, Handed, Serving, HadBody, Writing, Unsent, Onward, SameResponse
  <2>14. (Handed => Given(holder))'
    BY <1>31, <2>1, WriteLearnt, ConnAssumption DEF Inv, Shapes, RtState, Writer, Holding,
       Reader, Before, Given, Handed, Serving, HadBody, Writing, Unsent, Onward, SameResponse
  <2>15. (\A q \in Reqs : rt[q].at \in Unsent => wl.req # q /\ writech # <<q>>)'
    BY <1>31, <2>1, WriteLearnt, ConnAssumption DEF Inv, Shapes, RtState, Writer, Holding,
       Reader, Before, Given, Handed, Serving, HadBody, Writing, Unsent, Onward, SameResponse
  <2>16. (writech # <<wl.req>>)'
    BY <1>31, <2>1, WriteLearnt, ConnAssumption DEF Inv, Shapes, RtState, Writer, Holding,
       Reader, Before, Given, Handed, Serving, HadBody, Writing, Unsent, Onward, SameResponse
  <2>. QED  BY <2>2, <2>3, <2>4, <2>5, <2>6, <2>7, <2>8, <2>9, <2>10, <2>11, <2>12, <2>13, <2>14,
            <2>15, <2>16 DEF Writer
<1>32. ASSUME readLoopPuts PROVE Writer'
  <2>1. UNCHANGED <<rt, wl, holder, writech, writeErrCh, reqch, closed>>
    BY <1>32 DEF readLoopPuts, chanVars
  <2>. QED  BY <1>32, <2>1, PutBack, ConnAssumption DEF Inv, Shapes, RtState, Writer, Holding,
               Reader, Before, Given, Handed, Serving, HadBody, Writing, Unsent, Onward,
               SameResponse
<1>33. ASSUME sendEofc PROVE Writer'
  BY <1>33, ConnAssumption DEF Inv, Shapes, RtShape, RtState, RlShape, WlShape, Writer, Holding,
     Reader, Before, Given, Handed, Serving, HadBody, Writing, Unsent, sendEofc, RL, pcVars,
     chanVars
<1>34. ASSUME readLoopExits PROVE Writer'
  BY <1>34, ConnAssumption DEF Inv, Shapes, RtShape, RtState, RlShape, WlShape, Writer, Holding,
     Reader, Before, Given, Handed, Serving, HadBody, Writing, Unsent, readLoopExits,
     closeLocked, RL, chanVars
<1>35. ASSUME closeIdle PROVE Writer'
  BY <1>35, ConnAssumption DEF Inv, Shapes, RtShape, RtState, RlShape, WlShape, Writer, Holding,
     Reader, Before, Given, Handed, Serving, HadBody, Writing, Unsent, closeIdle, closeLocked,
     chanVars
<1>36. ASSUME writeHead \/ writeFlush \/ writeFails \/ writeBody PROVE Writer'
  <2>1. UNCHANGED <<rt, rl, holder, pooled, writech, writeErrCh, reqch, closed>>
    BY <1>36 DEF writeHead, chanVars, writeFlush, writeFails, writeBody
  <2>. QED  BY <1>36, <2>1, Writes, ConnAssumption DEF Inv, Shapes, RtState, Writer, Holding,
               Reader, Before, Given, Handed, Serving, HadBody, Writing, Unsent
<1>. QED
  BY <1>1, <1>2, <1>3, <1>4, <1>5, <1>6, <1>7, <1>8, <1>9, <1>10, <1>11, <1>12, <1>13, <1>14,
     <1>15, <1>16, <1>17, <1>18, <1>19, <1>20, <1>21, <1>22, <1>23, <1>24, <1>25, <1>26, <1>27,
     <1>28, <1>29, <1>30, <1>31, <1>32, <1>33, <1>34, <1>35, <1>36, Zenon
  DEF Next, roundTrip, writeLoop, readLoop, vars, pcVars, chanVars, cancelVars, reqVars, netVars

\* Every step keeps Bytes.
LEMMA BytesStep ==
  ASSUME Inv, [Next]_vars
  PROVE  Bytes'
<1>1. ASSUME NEW r \in Reqs,
              \/ CancelRequest(r) \/ userCancels(r) \/ bodyStep(r) \/ bodyReleased(r)
              \/ serverAnswers(r)
      PROVE  UNCHANGED <<rt, nwrite, sent>>
  BY <1>1 DEF CancelRequest, bodyReleased, bodyStep, serverAnswers, userCancels, netVars, pcVars
<1>2. ASSUME 
              \/ writeLoopTakes \/ writeLoopQuits \/ waitForContinue \/ reportWriteErr
              \/ readLoopPeek \/ readLoopExpects \/ readLoopTakes \/ readContinue \/ readResponse
              \/ readResponseFails \/ bodyRead \/ bodyAbandoned \/ replaceCanceler \/ wroteRequest
              \/ readLoopPuts \/ sendEofc \/ readLoopExits \/ closeIdle \/ serverCloses
      PROVE  UNCHANGED <<rt, nwrite, sent>>
  BY <1>2 DEF bodyAbandoned, bodyRead, closeIdle, readContinue, readLoopExits, readLoopExpects,
         readLoopPeek, readLoopPuts, readLoopTakes, readResponse, readResponseFails,
         replaceCanceler, reportWriteErr, sendEofc, serverCloses, waitForContinue,
         writeLoopQuits, writeLoopTakes, wroteRequest, netVars, pcVars
<1>3. ASSUME UNCHANGED <<rt, nwrite, sent>> PROVE Bytes'
  BY <1>3 DEF Inv, Shapes, RtShape, RtState, Bytes, RetrySafe, Unsent
<1>4. ASSUME NEW r \in Reqs, getConn(r) PROVE Bytes'
  BY <1>4 DEF Inv, Shapes, RtShape, RtState, Bytes, RetrySafe, Unsent, getConn, At, netVars
<1>5. ASSUME NEW r \in Reqs, roundTripCanceled(r) PROVE Bytes'
  BY <1>5 DEF Inv, Shapes, RtShape, RtState, Bytes, RetrySafe, Unsent, roundTripCanceled, netVars
<1>6. ASSUME NEW r \in Reqs, roundTripBegins(r) PROVE Bytes'
  BY <1>6 DEF Inv, Shapes, RtShape, RtState, Bytes, RetrySafe, Unsent, roundTripBegins, At, netVars
<1>7. ASSUME NEW r \in Reqs, sendWritech(r) PROVE Bytes'
  BY <1>7 DEF Inv, Shapes, RtShape, RtState, Bytes, RetrySafe, Unsent, sendWritech, pcVars, netVars
<1>8. ASSUME NEW r \in Reqs, sendReqch(r) PROVE Bytes'
  BY <1>8 DEF Inv, Shapes, RtShape, RtState, Bytes, RetrySafe, Unsent, sendReqch, At, pcVars,
     netVars
<1>9. ASSUME NEW r \in Reqs, selectWriteErr(r) PROVE Bytes'
  <2>1. UNCHANGED <<nwrite, sent, holder>>
    BY <1>9 DEF selectWriteErr, netVars
  <2>. QED  BY <1>9, <2>1, WriteErrTaken DEF Inv, Bytes, RetrySafe, Unsent, Gone
<1>10. ASSUME NEW r \in Reqs, selectClosed(r) PROVE Bytes'
  <2>1. UNCHANGED <<nwrite, sent, holder>>
    BY <1>10 DEF selectClosed, pcVars, netVars
  <2>. QED  BY <1>10, <2>1, CloseSeen DEF Inv, Bytes, RetrySafe, Unsent, Gone
<1>11. ASSUME NEW r \in Reqs, selectTimeout(r) PROVE Bytes'
  BY <1>11 DEF Inv, Shapes, RtShape, RtState, Bytes, RetrySafe, Unsent, selectTimeout, netVars
<1>12. ASSUME NEW r \in Reqs, selectCancel(r) PROVE Bytes'
  BY <1>12 DEF Inv, Shapes, RtShape, RtState, Bytes, RetrySafe, Unsent, selectCancel, netVars
<1>13. ASSUME NEW r \in Reqs, selectCtxDone(r) PROVE Bytes'
  BY <1>13 DEF Inv, Shapes, RtShape, RtState, Bytes, RetrySafe, Unsent, selectCtxDone, netVars
<1>14. ASSUME NEW r \in Reqs, mapRoundTripError(r) PROVE Bytes'
  <2>1. UNCHANGED <<nwrite, sent, holder>>
    BY <1>14 DEF mapRoundTripError, pcVars, netVars
  <2>2. (\A q \in Reqs : rt[q].startBytesWritten <= nwrite)'
    BY <1>14, <2>1, ErrorMapped DEF Inv, Shapes, RtShape, RtState, ConnShape, Bytes, RetrySafe,
       Unsent
  <2>3. (\A q \in Reqs : q \in sent => rt[q].startBytesWritten < nwrite /\ rt[q].at \notin Unsent)'
    BY <1>14, <2>1, ErrorMapped DEF Inv, Shapes, RtShape, RtState, ConnShape, Bytes, RetrySafe,
       Unsent
  <2>4. (\A q \in Reqs : rt[q].at = "failed" /\ rt[q].err = "nothingWritten" => q \notin sent)'
    BY <1>14, <2>1, ErrorMapped DEF Inv, Shapes, RtShape, RtState, ConnShape, Bytes, RetrySafe,
       Unsent
  <2>5. (RetrySafe)'
    BY <1>14, <2>1, ErrorMapped DEF Inv, Shapes, RtShape, RtState, ConnShape, Bytes, RetrySafe,
       Unsent
  <2>. QED  BY <2>2, <2>3, <2>4, <2>5 DEF Bytes
<1>15. ASSUME NEW r \in Reqs, afterFailure(r) PROVE Bytes'
  <2>1. (\A q \in Reqs : rt[q].startBytesWritten <= nwrite)'
    BY <1>15 DEF Inv, Shapes, RtShape, RtState, Bytes, RetrySafe, Unsent, afterFailure, At, pcVars,
           netVars, shouldRetryRequest, isReplayable
  <2>2. (\A q \in Reqs : q \in sent => rt[q].startBytesWritten < nwrite /\ rt[q].at \notin Unsent)'
    BY <1>15 DEF Inv, Shapes, RtShape, RtState, Bytes, RetrySafe, Unsent, afterFailure, At, pcVars,
           netVars, shouldRetryRequest, isReplayable
  <2>3. (\A q \in Reqs : rt[q].at = "failed" /\ rt[q].err = "nothingWritten" => q \notin sent)'
    BY <1>15 DEF Inv, Shapes, RtShape, RtState, Bytes, RetrySafe, Unsent, afterFailure, At, pcVars,
           netVars, shouldRetryRequest, isReplayable
  <2>4. (RetrySafe)'
    BY <1>15 DEF Inv, Shapes, RtShape, RtState, Bytes, RetrySafe, Unsent, afterFailure, At, pcVars,
           netVars, shouldRetryRequest, isReplayable
  <2>. QED  BY <2>1, <2>2, <2>3, <2>4 DEF Bytes
<1>16. ASSUME sendErr PROVE Bytes'
  <2>1. UNCHANGED <<nwrite, sent, holder>>
    BY <1>16 DEF sendErr, pcVars, netVars
  <2>. QED  BY <1>16, <2>1, ErrSent DEF Inv, Bytes, RetrySafe, Unsent, Gone
<1>17. ASSUME sendResponse PROVE Bytes'
  <2>1. UNCHANGED <<nwrite, sent, holder>>
    BY <1>17 DEF sendResponse, pcVars, netVars
  <2>. QED  BY <1>17, <2>1, ResponseSent DEF Inv, Bytes, RetrySafe, Unsent, Gone, HadBody
<1>18. ASSUME writeHead \/ writeFlush \/ writeFails \/ writeBody PROVE Bytes'
  <2>1. UNCHANGED <<rt, holder>>
    BY <1>18 DEF writeHead, writeFlush, writeFails, writeBody
  <2>2. (\A q \in Reqs : rt[q].startBytesWritten <= nwrite)'
    BY <1>18, <2>1, Writes DEF Inv, Shapes, RtShape, RtState, ConnShape, Bytes, RetrySafe,
       Unsent, Gone, Writing
  <2>3. (\A q \in Reqs : q \in sent => rt[q].startBytesWritten < nwrite /\ rt[q].at \notin Unsent)'
    BY <1>18, <2>1, Writes DEF Inv, Shapes, RtShape, RtState, ConnShape, Bytes, RetrySafe,
       Unsent, Gone, Writing
  <2>4. (\A q \in Reqs : rt[q].at = "failed" /\ rt[q].err = "nothingWritten" => q \notin sent)'
    BY <1>18, <2>1, Writes DEF Inv, Shapes, RtShape, RtState, ConnShape, Bytes, RetrySafe,
       Unsent, Gone, Writing
  <2>5. (RetrySafe)'
    BY <1>18, <2>1, Writes DEF Inv, Shapes, RtShape, RtState, ConnShape, Bytes, RetrySafe,
       Unsent, Gone, Writing
  <2>. QED  BY <2>2, <2>3, <2>4, <2>5 DEF Bytes
<1>. QED
  BY <1>1, <1>2, <1>3, <1>4, <1>5, <1>6, <1>7, <1>8, <1>9, <1>10, <1>11, <1>12, <1>13, <1>14,
     <1>15, <1>16, <1>17, <1>18, Zenon
  DEF Next, roundTrip, writeLoop, readLoop, vars, pcVars, chanVars, cancelVars, reqVars, netVars

\* Every step keeps Quiet.
LEMMA QuietStep ==
  ASSUME Inv, [Next]_vars
  PROVE  Quiet'
<1>1. ASSUME NEW r \in Reqs,
              \/ CancelRequest(r) \/ userCancels(r) \/ bodyStep(r) \/ bodyReleased(r)
              \/ serverAnswers(r)
      PROVE  UNCHANGED <<rt, wl, writech, reqErrCh>>
  BY <1>1 DEF CancelRequest, bodyReleased, bodyStep, serverAnswers, userCancels, chanVars
<1>2. ASSUME 
              \/ readLoopPeek \/ readLoopExpects \/ readLoopTakes \/ readContinue \/ readResponse
              \/ readResponseFails \/ bodyRead \/ bodyAbandoned \/ replaceCanceler \/ wroteRequest
              \/ readLoopPuts \/ sendEofc \/ readLoopExits \/ closeIdle \/ serverCloses
      PROVE  UNCHANGED <<rt, wl, writech, reqErrCh>>
  BY <1>2 DEF bodyAbandoned, bodyRead, closeIdle, readContinue, readLoopExits, readLoopExpects,
         readLoopPeek, readLoopPuts, readLoopTakes, readResponse, readResponseFails,
         replaceCanceler, sendEofc, serverCloses, wroteRequest, chanVars
<1>3. ASSUME UNCHANGED <<rt, wl, writech, reqErrCh>> PROVE Quiet'
  BY <1>3 DEF Inv, Shapes, RtShape, RtState, WlShape, ConnShape, Writer, Quiet, WriterQuiet, Gone,
         Writing, Unsent
<1>4. ASSUME NEW r \in Reqs, getConn(r) PROVE Quiet'
  BY <1>4 DEF Inv, Shapes, RtShape, RtState, WlShape, ConnShape, Writer, Quiet, WriterQuiet, Gone,
         Writing, Unsent, getConn, At, chanVars
<1>5. ASSUME NEW r \in Reqs, roundTripCanceled(r) PROVE Quiet'
  BY <1>5 DEF Inv, Shapes, RtShape, RtState, WlShape, ConnShape, Writer, Quiet, WriterQuiet, Gone,
         Writing, Unsent, roundTripCanceled, chanVars
<1>6. ASSUME NEW r \in Reqs, roundTripBegins(r) PROVE Quiet'
  BY <1>6 DEF Inv, Shapes, RtShape, RtState, WlShape, ConnShape, Writer, Quiet, WriterQuiet, Gone,
         Writing, Unsent, roundTripBegins, At
<1>7. ASSUME NEW r \in Reqs, sendWritech(r) PROVE Quiet'
  BY <1>7 DEF Inv, Shapes, RtShape, RtState, WlShape, ConnShape, Writer, Quiet, WriterQuiet, Gone,
         Writing, Unsent, sendWritech, pcVars
<1>8. ASSUME NEW r \in Reqs, sendReqch(r) PROVE Quiet'
  BY <1>8 DEF Inv, Shapes, RtShape, RtState, WlShape, ConnShape, Writer, Quiet, WriterQuiet, Gone,
         Writing, Unsent, sendReqch, At, pcVars
<1>9. ASSUME NEW r \in Reqs, selectWriteErr(r) PROVE Quiet'
  <2>1. UNCHANGED <<wl, writech, holder>>
    BY <1>9 DEF selectWriteErr
  <2>. QED  BY <1>9, <2>1, WriteErrTaken DEF Inv, Shapes, RtState, Writer, Quiet, WriterQuiet,
               Gone, Writing, Unsent
<1>10. ASSUME NEW r \in Reqs, selectClosed(r) PROVE Quiet'
  <2>1. UNCHANGED <<wl, writech, reqErrCh, holder>>
    BY <1>10 DEF selectClosed, pcVars, chanVars
  <2>. QED  BY <1>10, <2>1, CloseSeen DEF Inv, Shapes, RtState, Writer, Quiet, WriterQuiet, Gone,
               Writing, Unsent
<1>11. ASSUME NEW r \in Reqs, selectTimeout(r) PROVE Quiet'
  BY <1>11 DEF Inv, Shapes, RtShape, RtState, WlShape, ConnShape, Writer, Quiet, WriterQuiet, Gone,
         Writing, Unsent, selectTimeout, chanVars
<1>12. ASSUME NEW r \in Reqs, selectCancel(r) PROVE Quiet'
  BY <1>12 DEF Inv, Shapes, RtShape, RtState, WlShape, ConnShape, Writer, Quiet, WriterQuiet, Gone,
         Writing, Unsent, selectCancel, chanVars
<1>13. ASSUME NEW r \in Reqs, selectCtxDone(r) PROVE Quiet'
  BY <1>13 DEF Inv, Shapes, RtShape, RtState, WlShape, ConnShape, Writer, Quiet, WriterQuiet, Gone,
         Writing, Unsent, selectCtxDone, chanVars
<1>14. ASSUME NEW r \in Reqs, mapRoundTripError(r) PROVE Quiet'
  <2>1. UNCHANGED <<wl, writech, reqErrCh, holder>>
    BY <1>14 DEF mapRoundTripError, pcVars, chanVars
  <2>. QED  BY <1>14, <2>1, ErrorMapped DEF Inv, Shapes, RtState, Writer, Quiet, WriterQuiet,
               Gone, Writing, Unsent
<1>15. ASSUME NEW r \in Reqs, afterFailure(r) PROVE Quiet'
  BY <1>15 DEF Inv, Shapes, RtShape, RtState, WlShape, ConnShape, Writer, Quiet, WriterQuiet, Gone,
         Writing, Unsent, afterFailure, At, pcVars, chanVars
<1>16. ASSUME writeLoopTakes PROVE Quiet'
  BY <1>16 DEF Inv, Shapes, RtShape, RtState, WlShape, ConnShape, Writer, Quiet, WriterQuiet, Gone,
         Writing, Unsent, writeLoopTakes, pcVars
<1>17. ASSUME writeLoopQuits PROVE Quiet'
  BY <1>17 DEF Inv, Shapes, RtShape, RtState, WlShape, ConnShape, Writer, Quiet, WriterQuiet, Gone,
         Writing, Unsent, writeLoopQuits, WL, pcVars, chanVars
<1>18. ASSUME waitForContinue PROVE Quiet'
  BY <1>18 DEF Inv, Shapes, RtShape, RtState, WlShape, ConnShape, Writer, Quiet, WriterQuiet, Gone,
         Writing, Unsent, waitForContinue, WL, pcVars
<1>19. ASSUME reportWriteErr PROVE Quiet'
  <2>1. (\A q \in Reqs : rt[q].timer \/ reqErrCh[q] # "empty" =>
           /\ rt[q].at \notin Unsent /\ writech # <<q>>
           /\ wl.req # q \/ wl.at \in {"select", "close", "done"})'
    BY <1>19 DEF Inv, Shapes, RtShape, RtState, WlShape, ConnShape, Writer, Quiet, WriterQuiet,
       Gone, Writing, Unsent, reportWriteErr, WL
  <2>2. (\A q \in Reqs : Gone(q) => writech # <<q>> \/ wl.at = "done")'
    BY <1>19 DEF Inv, Shapes, RtShape, RtState, WlShape, ConnShape, Writer, Quiet, WriterQuiet,
       Gone, Writing, Unsent, reportWriteErr, WL
  <2>3. (WriterQuiet)'
    BY <1>19 DEF Inv, Shapes, RtShape, RtState, WlShape, ConnShape, Writer, Quiet, WriterQuiet,
       Gone, Writing, Unsent, reportWriteErr, WL
  <2>. QED  BY <2>1, <2>2, <2>3 DEF Quiet
<1>20. ASSUME sendErr PROVE Quiet'
  <2>1. UNCHANGED <<wl, writech, reqErrCh, holder>>
    BY <1>20 DEF sendErr, pcVars, chanVars
  <2>2. (\A q \in Reqs : rt[q].timer \/ reqErrCh[q] # "empty" =>
           /\ rt[q].at \notin Unsent /\ writech # <<q>>
           /\ wl.req # q \/ wl.at \in {"select", "close", "done"})'
    BY <1>20, <2>1, ErrSent DEF Inv, Shapes, RtState, Writer, Quiet, WriterQuiet, Gone, Writing,
       Unsent
  <2>3. (\A q \in Reqs : Gone(q) => writech # <<q>> \/ wl.at = "done")'
    BY <1>20, <2>1, ErrSent DEF Inv, Shapes, RtState, Writer, Quiet, WriterQuiet, Gone, Writing,
       Unsent
  <2>4. (WriterQuiet)'
    BY <1>20, <2>1, ErrSent DEF Inv, Shapes, RtState, Writer, Quiet, WriterQuiet, Gone, Writing,
       Unsent
  <2>. QED  BY <2>2, <2>3, <2>4 DEF Quiet
<1>21. ASSUME sendResponse PROVE Quiet'
  <2>1. UNCHANGED <<wl, writech, reqErrCh, holder>>
    BY <1>21 DEF sendResponse, pcVars
  <2>. QED  BY <1>21, <2>1, ResponseSent DEF Inv, Shapes, RtState, Writer, Quiet, WriterQuiet,
               Gone, Writing, Unsent, HadBody
<1>22. ASSUME writeHead \/ writeFlush \/ writeFails \/ writeBody PROVE Quiet'
  <2>1. UNCHANGED <<rt, writech, reqErrCh, holder>>
    BY <1>22 DEF writeHead, chanVars, writeFlush, writeFails, writeBody
  <2>. QED  BY <1>22, <2>1, Writes DEF Inv, Shapes, RtState, Writer, Quiet, WriterQuiet, Gone,
               Writing, Unsent
<1>. QED
  BY <1>1, <1>2, <1>3, <1>4, <1>5, <1>6, <1>7, <1>8, <1>9, <1>10, <1>11, <1>12, <1>13, <1>14,
     <1>15, <1>16, <1>17, <1>18, <1>19, <1>20, <1>21, <1>22, Zenon
  DEF Next, roundTrip, writeLoop, readLoop, vars, pcVars, chanVars, cancelVars, reqVars, netVars

\* Every step keeps BodyClosedOnError.
LEMMA BodyClosedOnErrorStep ==
  ASSUME Inv, [Next]_vars
  PROVE  BodyClosedOnError'
<1>1. ASSUME NEW r \in Reqs,
              \/ CancelRequest(r) \/ userCancels(r) \/ bodyStep(r) \/ bodyReleased(r)
              \/ serverAnswers(r)
      PROVE  UNCHANGED <<rt, bodyClosed>>
  BY <1>1 DEF CancelRequest, bodyReleased, bodyStep, serverAnswers, userCancels, reqVars
<1>2. ASSUME 
              \/ writeLoopTakes \/ writeLoopQuits \/ reportWriteErr \/ readLoopPeek
              \/ readLoopExpects \/ readLoopTakes \/ readContinue \/ readResponse
              \/ readResponseFails \/ bodyRead \/ bodyAbandoned \/ replaceCanceler \/ wroteRequest
              \/ readLoopPuts \/ sendEofc \/ readLoopExits \/ closeIdle \/ serverCloses
      PROVE  UNCHANGED <<rt, bodyClosed>>
  BY <1>2 DEF bodyAbandoned, bodyRead, closeIdle, readContinue, readLoopExits, readLoopExpects,
         readLoopPeek, readLoopPuts, readLoopTakes, readResponse, readResponseFails,
         replaceCanceler, reportWriteErr, sendEofc, serverCloses, writeLoopQuits,
         writeLoopTakes, wroteRequest, reqVars
<1>3. ASSUME UNCHANGED <<rt, bodyClosed>> PROVE BodyClosedOnError'
  BY <1>3 DEF Inv, Shapes, RtShape, RtState, NetShape, BodyClosedOnError
<1>4. ASSUME NEW r \in Reqs, getConn(r) PROVE BodyClosedOnError'
  BY <1>4 DEF Inv, Shapes, RtShape, RtState, NetShape, BodyClosedOnError, getConn, At, reqVars
<1>5. ASSUME NEW r \in Reqs, roundTripCanceled(r) PROVE BodyClosedOnError'
  BY <1>5 DEF Inv, Shapes, RtShape, RtState, NetShape, BodyClosedOnError, roundTripCanceled, reqVars
<1>6. ASSUME NEW r \in Reqs, roundTripBegins(r) PROVE BodyClosedOnError'
  BY <1>6 DEF Inv, Shapes, RtShape, RtState, NetShape, BodyClosedOnError, roundTripBegins, At,
         reqVars
<1>7. ASSUME NEW r \in Reqs, sendWritech(r) PROVE BodyClosedOnError'
  BY <1>7 DEF Inv, Shapes, RtShape, RtState, NetShape, BodyClosedOnError, sendWritech, reqVars
<1>8. ASSUME NEW r \in Reqs, sendReqch(r) PROVE BodyClosedOnError'
  BY <1>8 DEF Inv, Shapes, RtShape, RtState, NetShape, BodyClosedOnError, sendReqch, At, reqVars
<1>9. ASSUME NEW r \in Reqs, selectWriteErr(r) PROVE BodyClosedOnError'
  <2>1. UNCHANGED <<bodyClosed, bodyUsed>>
    BY <1>9 DEF selectWriteErr, reqVars
  <2>. QED  BY <1>9, <2>1, WriteErrTaken DEF Inv, BodyClosedOnError
<1>10. ASSUME NEW r \in Reqs, selectClosed(r) PROVE BodyClosedOnError'
  <2>1. UNCHANGED <<bodyClosed, bodyUsed>>
    BY <1>10 DEF selectClosed, reqVars
  <2>. QED  BY <1>10, <2>1, CloseSeen DEF Inv, BodyClosedOnError
<1>11. ASSUME NEW r \in Reqs, selectTimeout(r) PROVE BodyClosedOnError'
  BY <1>11 DEF Inv, Shapes, RtShape, RtState, NetShape, BodyClosedOnError, selectTimeout, reqVars
<1>12. ASSUME NEW r \in Reqs, selectCancel(r) PROVE BodyClosedOnError'
  BY <1>12 DEF Inv, Shapes, RtShape, RtState, NetShape, BodyClosedOnError, selectCancel, reqVars
<1>13. ASSUME NEW r \in Reqs, selectCtxDone(r) PROVE BodyClosedOnError'
  BY <1>13 DEF Inv, Shapes, RtShape, RtState, NetShape, BodyClosedOnError, selectCtxDone, reqVars
<1>14. ASSUME NEW r \in Reqs, mapRoundTripError(r) PROVE BodyClosedOnError'
  <2>1. UNCHANGED <<bodyClosed, bodyUsed>>
    BY <1>14 DEF mapRoundTripError, reqVars
  <2>. QED  BY <1>14, <2>1, ErrorMapped DEF Inv, BodyClosedOnError
<1>15. ASSUME NEW r \in Reqs, afterFailure(r) PROVE BodyClosedOnError'
  BY <1>15 DEF Inv, Shapes, RtShape, RtState, NetShape, BodyClosedOnError, afterFailure, At,
     canRewind
<1>16. ASSUME waitForContinue PROVE BodyClosedOnError'
  BY <1>16 DEF Inv, Shapes, RtShape, RtState, NetShape, BodyClosedOnError, waitForContinue
<1>17. ASSUME sendErr PROVE BodyClosedOnError'
  <2>1. UNCHANGED <<bodyClosed, bodyUsed>>
    BY <1>17 DEF sendErr, reqVars
  <2>. QED  BY <1>17, <2>1, ErrSent DEF Inv, BodyClosedOnError
<1>18. ASSUME sendResponse PROVE BodyClosedOnError'
  <2>1. UNCHANGED <<bodyClosed, bodyUsed>>
    BY <1>18 DEF sendResponse, reqVars
  <2>. QED  BY <1>18, <2>1, ResponseSent DEF Inv, BodyClosedOnError, HadBody
<1>19. ASSUME writeHead \/ writeFlush \/ writeFails \/ writeBody PROVE BodyClosedOnError'
  <2>1. UNCHANGED rt /\ bodyClosed \subseteq bodyClosed'
    BY <1>19 DEF writeHead, writeFlush, writeFails, writeBody, reqVars
  <2>. QED  BY <2>1, Zenon DEF Inv, BodyClosedOnError
<1>. QED
  BY <1>1, <1>2, <1>3, <1>4, <1>5, <1>6, <1>7, <1>8, <1>9, <1>10, <1>11, <1>12, <1>13, <1>14,
     <1>15, <1>16, <1>17, <1>18, <1>19, Zenon
  DEF Next, roundTrip, writeLoop, readLoop, vars, pcVars, chanVars, cancelVars, reqVars, netVars

\* Every step keeps Whole.
LEMMA WholeStep ==
  ASSUME Inv, [Next]_vars
  PROVE  Whole'
<1>1. ASSUME NEW r \in Reqs,
              \/ roundTripBegins(r) \/ sendWritech(r) \/ sendReqch(r) \/ selectWriteErr(r)
              \/ selectClosed(r) \/ selectTimeout(r) \/ selectCancel(r) \/ selectCtxDone(r)
              \/ mapRoundTripError(r) \/ afterFailure(r) \/ CancelRequest(r) \/ userCancels(r)
              \/ bodyStep(r) \/ bodyReleased(r) \/ serverAnswers(r)
      PROVE  UNCHANGED <<wl, holder, pooled, sent, full>>
  BY <1>1 DEF CancelRequest, afterFailure, bodyReleased, bodyStep, mapRoundTripError,
         roundTripBegins, selectCancel, selectClosed, selectCtxDone, selectTimeout,
         selectWriteErr, sendReqch, sendWritech, serverAnswers, userCancels, netVars, pcVars
<1>2. ASSUME 
              \/ readLoopPeek \/ readLoopExpects \/ readLoopTakes \/ readContinue \/ readResponse
              \/ readResponseFails \/ sendErr \/ sendResponse \/ bodyRead \/ bodyAbandoned
              \/ replaceCanceler \/ wroteRequest \/ sendEofc \/ serverCloses
      PROVE  UNCHANGED <<wl, holder, pooled, sent, full>>
  BY <1>2 DEF bodyAbandoned, bodyRead, readContinue, readLoopExpects, readLoopPeek, readLoopTakes,
         readResponse, readResponseFails, replaceCanceler, sendEofc, sendErr, sendResponse,
         serverCloses, wroteRequest, netVars, pcVars
<1>3. ASSUME UNCHANGED <<wl, holder, pooled, sent, full>> PROVE Whole'
  BY <1>3 DEF Inv, Shapes, WlShape, Whole, Writer, Before, Holding, Bytes, Writing, Unsent
<1>4. ASSUME NEW r \in Reqs, getConn(r) PROVE Whole'
  BY <1>4 DEF Inv, Shapes, WlShape, Whole, Writer, Before, Holding, Bytes, Writing, Unsent, getConn,
         At, netVars
<1>5. ASSUME NEW r \in Reqs, roundTripCanceled(r) PROVE Whole'
  BY <1>5 DEF Inv, Shapes, WlShape, Whole, Writer, Before, Holding, Bytes, Writing, Unsent,
         roundTripCanceled, putAccepted, putRefused, netVars
<1>6. ASSUME writeLoopTakes PROVE Whole'
  BY <1>6 DEF Inv, Shapes, WlShape, Whole, Writer, Before, Holding, Bytes, Writing, Unsent,
         writeLoopTakes, pcVars, netVars
<1>7. ASSUME writeLoopQuits PROVE Whole'
  BY <1>7 DEF Inv, Shapes, WlShape, Whole, Writer, Before, Holding, Bytes, Writing, Unsent,
         writeLoopQuits, WL, pcVars, netVars
<1>8. ASSUME waitForContinue PROVE Whole'
  BY <1>8 DEF Inv, Shapes, WlShape, Whole, Writer, Before, Holding, Bytes, Writing, Unsent,
         waitForContinue, WL, pcVars, netVars
<1>9. ASSUME reportWriteErr PROVE Whole'
  BY <1>9 DEF Inv, Shapes, WlShape, Whole, Writer, Before, Holding, Bytes, Writing, Unsent,
         reportWriteErr, WL, netVars
<1>10. ASSUME readLoopPuts PROVE Whole'
  <2>1. UNCHANGED <<wl, holder, sent, full, rt>>
    BY <1>10 DEF readLoopPuts, netVars
  <2>. QED  BY <1>10, <2>1, PutBack DEF Inv, Shapes, Whole, Writer, Before, Holding, Bytes,
               Writing, Unsent, Onward, SameResponse, HadBody
<1>11. ASSUME readLoopExits PROVE Whole'
  BY <1>11 DEF Inv, Shapes, WlShape, Whole, Writer, Before, Holding, Bytes, Writing, Unsent,
         readLoopExits, RL, netVars
<1>12. ASSUME closeIdle PROVE Whole'
  BY <1>12 DEF Inv, Shapes, WlShape, Whole, Writer, Before, Holding, Bytes, Writing, Unsent,
         closeIdle, netVars
<1>13. ASSUME writeHead \/ writeFlush \/ writeFails \/ writeBody PROVE Whole'
  <2>1. UNCHANGED <<holder, pooled, rt, rl>>
    BY <1>13 DEF writeHead, writeFlush, writeFails, writeBody
  <2>. QED  BY <1>13, <2>1, Writes DEF Inv, Shapes, Whole, Writer, Before, Holding, Bytes,
               Writing, Unsent
<1>. QED
  BY <1>1, <1>2, <1>3, <1>4, <1>5, <1>6, <1>7, <1>8, <1>9, <1>10, <1>11, <1>12, <1>13, Zenon
  DEF Next, roundTrip, writeLoop, readLoop, vars, pcVars, chanVars, cancelVars, reqVars, netVars

\* Every step keeps Reader.
LEMMA ReaderStep ==
  ASSUME Inv, [Next]_vars
  PROVE  Reader'
<1>1. ASSUME NEW r \in Reqs,
              \/ CancelRequest(r) \/ userCancels(r) \/ bodyStep(r) \/ bodyReleased(r)
              \/ serverAnswers(r)
      PROVE  UNCHANGED <<rt, rl, holder, pooled, reqch>>
  BY <1>1 DEF CancelRequest, bodyReleased, bodyStep, serverAnswers, userCancels, chanVars, pcVars
<1>2. ASSUME 
              \/ writeLoopTakes \/ writeLoopQuits \/ waitForContinue \/ reportWriteErr
              \/ readContinue \/ serverCloses \/ writeHead \/ writeFlush \/ writeFails
              \/ writeBody
      PROVE  UNCHANGED <<rt, rl, holder, pooled, reqch>>
  BY <1>2 DEF readContinue, reportWriteErr, serverCloses, waitForContinue, writeBody, writeFails,
         writeFlush, writeHead, writeLoopQuits, writeLoopTakes, chanVars, pcVars
<1>3. ASSUME UNCHANGED <<rt, rl, holder, pooled, reqch>> PROVE Reader'
  BY <1>3 DEF Inv, Shapes, RtShape, RtState, RlShape, Holding, Reader, Serving, HadBody, Unsent
<1>4. ASSUME NEW r \in Reqs, getConn(r) PROVE Reader'
  BY <1>4 DEF Inv, Shapes, RtShape, RtState, RlShape, Holding, Reader, Serving, HadBody, Unsent,
         getConn, At, chanVars
<1>5. ASSUME NEW r \in Reqs, roundTripCanceled(r) PROVE Reader'
  BY <1>5 DEF Inv, Shapes, RtShape, RtState, RlShape, Holding, Reader, Serving, HadBody, Unsent,
         roundTripCanceled, putAccepted, putRefused, chanVars
<1>6. ASSUME NEW r \in Reqs, roundTripBegins(r) PROVE Reader'
  BY <1>6 DEF Inv, Shapes, RtShape, RtState, RlShape, Holding, Reader, Serving, HadBody, Unsent,
         roundTripBegins, At
<1>7. ASSUME NEW r \in Reqs, sendWritech(r) PROVE Reader'
  BY <1>7 DEF Inv, Shapes, RtShape, RtState, RlShape, Holding, Reader, Serving, HadBody, Unsent,
         sendWritech, pcVars
<1>8. ASSUME NEW r \in Reqs, sendReqch(r) PROVE Reader'
  BY <1>8 DEF Inv, Shapes, RtShape, RtState, RlShape, Holding, Reader, Serving, HadBody, Unsent,
         sendReqch, At, pcVars
<1>9. ASSUME NEW r \in Reqs, selectWriteErr(r) PROVE Reader'
  BY <1>9 DEF Inv, Shapes, RtShape, RtState, RlShape, Holding, Reader, Serving, HadBody, Unsent,
         selectWriteErr
<1>10. ASSUME NEW r \in Reqs, selectClosed(r) PROVE Reader'
  BY <1>10 DEF Inv, Shapes, RtShape, RtState, RlShape, Holding, Reader, Serving, HadBody, Unsent,
         selectClosed, pcVars, chanVars
<1>11. ASSUME NEW r \in Reqs, selectTimeout(r) PROVE Reader'
  BY <1>11 DEF Inv, Shapes, RtShape, RtState, RlShape, Holding, Reader, Serving, HadBody, Unsent,
         selectTimeout, chanVars
<1>12. ASSUME NEW r \in Reqs, selectCancel(r) PROVE Reader'
  BY <1>12 DEF Inv, Shapes, RtShape, RtState, RlShape, Holding, Reader, Serving, HadBody, Unsent,
         selectCancel, chanVars
<1>13. ASSUME NEW r \in Reqs, selectCtxDone(r) PROVE Reader'
  BY <1>13 DEF Inv, Shapes, RtShape, RtState, RlShape, Holding, Reader, Serving, HadBody, Unsent,
         selectCtxDone, chanVars
<1>14. ASSUME NEW r \in Reqs, mapRoundTripError(r) PROVE Reader'
  BY <1>14 DEF Inv, Shapes, RtShape, RtState, RlShape, Holding, Reader, Serving, HadBody, Unsent,
         mapRoundTripError, pcVars, chanVars
<1>15. ASSUME NEW r \in Reqs, afterFailure(r) PROVE Reader'
  BY <1>15 DEF Inv, Shapes, RtShape, RtState, RlShape, Holding, Reader, Serving, HadBody, Unsent,
         afterFailure, At, pcVars, chanVars
<1>16. ASSUME readLoopPeek PROVE Reader'
  BY <1>16 DEF Inv, Shapes, RtShape, RtState, RlShape, Holding, Reader, Serving, HadBody, Unsent,
         readLoopPeek, pcVars, chanVars
<1>17. ASSUME readLoopExpects PROVE Reader'
  BY <1>17 DEF Inv, Shapes, RtShape, RtState, RlShape, Holding, Reader, Serving, HadBody, Unsent,
         readLoopExpects, RL, chanVars
<1>18. ASSUME readLoopTakes PROVE Reader'
  BY <1>18 DEF Inv, Shapes, RtShape, RtState, RlShape, Holding, Reader, Serving, HadBody, Unsent,
         readLoopTakes, pcVars
<1>19. ASSUME readResponse PROVE Reader'
  BY <1>19 DEF Inv, Shapes, RtShape, RtState, RlShape, Holding, Reader, Serving, HadBody, Unsent,
         readResponse
<1>20. ASSUME readResponseFails PROVE Reader'
  BY <1>20 DEF Inv, Shapes, RtShape, RtState, RlShape, Holding, Reader, Serving, HadBody, Unsent,
         readResponseFails, pcVars, chanVars
<1>21. ASSUME sendErr PROVE Reader'
  BY <1>21 DEF Inv, Shapes, RtShape, RtState, RlShape, Holding, Reader, Serving, HadBody, Unsent,
         sendErr, RL, Gone, pcVars, chanVars
<1>22. ASSUME sendResponse PROVE Reader'
  <2>1. UNCHANGED <<holder, pooled, reqch>>
    BY <1>22 DEF sendResponse, pcVars
  <2>2. (reqch = <<>> \/ (/\ reqch = <<holder>> /\ holder \in Reqs /\ ~pooled /\ ~Serving
                          /\ rt[holder].at \notin Unsent \cup {"reqch", "response"}))'
    BY <1>22, <2>1, ResponseSent DEF Inv, Shapes, RtState, Holding, Reader, Serving, HadBody, Unsent
  <2>3. (Serving => rl.req = holder /\ ~pooled)'
    BY <1>22, <2>1, ResponseSent DEF Inv, Shapes, RtState, Holding, Reader, Serving, HadBody, Unsent
  <2>4. (rl.at \in {"read", "sendErr", "replace", "wrote", "put", "send", "waitBody", "eofc"} =>
           rl.req \in Reqs)'
    BY <1>22, <2>1, ResponseSent DEF Inv, Shapes, RtState, Holding, Reader, Serving, HadBody, Unsent
  <2>5. (rl.req \in Reqs => rt[rl.req].at \notin Unsent \cup {"reqch"})'
    BY <1>22, <2>1, ResponseSent DEF Inv, Shapes, RtState, Holding, Reader, Serving, HadBody, Unsent
  <2>6. (rl.at \in {"wrote", "put"} => rl.alive)'
    BY <1>22, <2>1, ResponseSent DEF Inv, Shapes, RtState, Holding, Reader, Serving, HadBody, Unsent
  <2>7. (reqch # <<rl.req>>)'
    BY <1>22, <2>1, ResponseSent DEF Inv, Shapes, RtState, Holding, Reader, Serving, HadBody, Unsent
  <2>. QED  BY <2>2, <2>3, <2>4, <2>5, <2>6, <2>7 DEF Reader
<1>23. ASSUME bodyRead PROVE Reader'
  BY <1>23 DEF Inv, Shapes, RtShape, RtState, RlShape, Holding, Reader, Serving, HadBody, Unsent,
         bodyRead, pcVars
<1>24. ASSUME bodyAbandoned PROVE Reader'
  BY <1>24 DEF Inv, Shapes, RtShape, RtState, RlShape, Holding, Reader, Serving, HadBody, Unsent,
         bodyAbandoned, chanVars
<1>25. ASSUME replaceCanceler PROVE Reader'
  <2>1. UNCHANGED <<rt, holder, pooled, reqch>>
    BY <1>25 DEF replaceCanceler, pcVars, chanVars
  <2>. QED  BY <1>25, <2>1, CancelerReplaced DEF Inv, Shapes, RtState, Holding, Reader, Serving,
               HadBody, Unsent, Onward, SameResponse
<1>26. ASSUME wroteRequest PROVE Reader'
  <2>1. UNCHANGED <<rt, holder, pooled, reqch>>
    BY <1>26 DEF wroteRequest, pcVars
  <2>. QED  BY <1>26, <2>1, WriteLearnt DEF Inv, Shapes, RtState, Holding, Reader, Serving,
               HadBody, Unsent, Onward, SameResponse
<1>27. ASSUME readLoopPuts PROVE Reader'
  <2>1. UNCHANGED <<rt, holder, reqch>>
    BY <1>27 DEF readLoopPuts, chanVars
  <2>. QED  BY <1>27, <2>1, PutBack DEF Inv, Shapes, RtState, Holding, Reader, Serving, HadBody,
               Unsent, Onward, SameResponse
<1>28. ASSUME sendEofc PROVE Reader'
  BY <1>28 DEF Inv, Shapes, RtShape, RtState, RlShape, Holding, Reader, Serving, HadBody, Unsent,
         sendEofc, RL, pcVars, chanVars
<1>29. ASSUME readLoopExits PROVE Reader'
  BY <1>29 DEF Inv, Shapes, RtShape, RtState, RlShape, Holding, Reader, Serving, HadBody, Unsent,
         readLoopExits, RL, chanVars
<1>30. ASSUME closeIdle PROVE Reader'
  BY <1>30 DEF Inv, Shapes, RtShape, RtState, RlShape, Holding, Reader, Serving, HadBody, Unsent,
         closeIdle, chanVars
<1>. QED
  BY <1>1, <1>2, <1>3, <1>4, <1>5, <1>6, <1>7, <1>8, <1>9, <1>10, <1>11, <1>12, <1>13, <1>14,
     <1>15, <1>16, <1>17, <1>18, <1>19, <1>20, <1>21, <1>22, <1>23, <1>24, <1>25, <1>26, <1>27,
     <1>28, <1>29, <1>30, Zenon
  DEF Next, roundTrip, writeLoop, readLoop, vars, pcVars, chanVars, cancelVars, reqVars, netVars

\* Every step keeps Counting.
LEMMA CountingStep ==
  ASSUME Inv, [Next]_vars
  PROVE  Counting'
<1>1. ASSUME NEW r \in Reqs,
              \/ CancelRequest(r) \/ userCancels(r) \/ bodyStep(r) \/ bodyReleased(r)
              \/ serverAnswers(r)
      PROVE  UNCHANGED <<rt, rl, holder, pooled, reqch, expected>>
  BY <1>1 DEF CancelRequest, bodyReleased, bodyStep, serverAnswers, userCancels, chanVars, pcVars
<1>2. ASSUME 
              \/ writeLoopTakes \/ writeLoopQuits \/ waitForContinue \/ reportWriteErr
              \/ readContinue \/ serverCloses \/ writeHead \/ writeFlush \/ writeFails
              \/ writeBody
      PROVE  UNCHANGED <<rt, rl, holder, pooled, reqch, expected>>
  BY <1>2 DEF readContinue, reportWriteErr, serverCloses, waitForContinue, writeBody, writeFails,
         writeFlush, writeHead, writeLoopQuits, writeLoopTakes, chanVars, pcVars
<1>3. ASSUME UNCHANGED <<rt, rl, holder, pooled, reqch, expected>> PROVE Counting'
  BY <1>3 DEF Inv, Shapes, RtShape, RtState, RlShape, ConnShape, Holding, Reader, Counting, Awaited,
         Arrived, Serving, HadBody, Unsent
<1>4. ASSUME NEW r \in Reqs, getConn(r) PROVE Counting'
  BY <1>4 DEF Inv, Shapes, RtShape, RtState, RlShape, ConnShape, Holding, Reader, Counting, Awaited,
         Arrived, Serving, HadBody, Unsent, getConn, At, chanVars
<1>5. ASSUME NEW r \in Reqs, roundTripCanceled(r) PROVE Counting'
  BY <1>5 DEF Inv, Shapes, RtShape, RtState, RlShape, ConnShape, Holding, Reader, Counting, Awaited,
         Arrived, Serving, HadBody, Unsent, roundTripCanceled, putAccepted, putRefused, chanVars
<1>6. ASSUME NEW r \in Reqs, roundTripBegins(r) PROVE Counting'
  <2>1. (Awaited => expected = 1)'
    BY <1>6 DEF Inv, Shapes, RtShape, RtState, RlShape, ConnShape, Holding, Reader, Counting,
           Awaited, Arrived, Serving, HadBody, Unsent, roundTripBegins, At
  <2>2. (Arrived => expected = 0)'
    BY <1>6 DEF Inv, Shapes, RtShape, RtState, RlShape, ConnShape, Holding, Reader, Counting,
           Awaited, Arrived, Serving, HadBody, Unsent, roundTripBegins, At
  <2>. QED  BY <2>1, <2>2 DEF Counting
<1>7. ASSUME NEW r \in Reqs, sendWritech(r) PROVE Counting'
  BY <1>7 DEF Inv, Shapes, RtShape, RtState, RlShape, ConnShape, Holding, Reader, Counting, Awaited,
         Arrived, Serving, HadBody, Unsent, sendWritech, pcVars
<1>8. ASSUME NEW r \in Reqs, sendReqch(r) PROVE Counting'
  BY <1>8 DEF Inv, Shapes, RtShape, RtState, RlShape, ConnShape, Holding, Reader, Counting, Awaited,
         Arrived, Serving, HadBody, Unsent, sendReqch, At, pcVars
<1>9. ASSUME NEW r \in Reqs, selectWriteErr(r) PROVE Counting'
  BY <1>9 DEF Inv, Shapes, RtShape, RtState, RlShape, ConnShape, Holding, Reader, Counting, Awaited,
         Arrived, Serving, HadBody, Unsent, selectWriteErr
<1>10. ASSUME NEW r \in Reqs, selectClosed(r) PROVE Counting'
  BY <1>10, SMTT(30) DEF Inv, Shapes, RtShape, RtState, RlShape, ConnShape, Holding, Reader,
     Counting, Awaited, Arrived, Serving, HadBody, Unsent, selectClosed, pcVars, chanVars
<1>11. ASSUME NEW r \in Reqs, selectTimeout(r) PROVE Counting'
  BY <1>11 DEF Inv, Shapes, RtShape, RtState, RlShape, ConnShape, Holding, Reader, Counting,
     Awaited, Arrived, Serving, HadBody, Unsent, selectTimeout, chanVars
<1>12. ASSUME NEW r \in Reqs, selectCancel(r) PROVE Counting'
  BY <1>12 DEF Inv, Shapes, RtShape, RtState, RlShape, ConnShape, Holding, Reader, Counting,
     Awaited, Arrived, Serving, HadBody, Unsent, selectCancel, chanVars
<1>13. ASSUME NEW r \in Reqs, selectCtxDone(r) PROVE Counting'
  BY <1>13 DEF Inv, Shapes, RtShape, RtState, RlShape, ConnShape, Holding, Reader, Counting,
     Awaited, Arrived, Serving, HadBody, Unsent, selectCtxDone, chanVars
<1>14. ASSUME NEW r \in Reqs, mapRoundTripError(r) PROVE Counting'
  BY <1>14 DEF Inv, Shapes, RtShape, RtState, RlShape, ConnShape, Holding, Reader, Counting,
     Awaited, Arrived, Serving, HadBody, Unsent, mapRoundTripError, pcVars, chanVars
<1>15. ASSUME NEW r \in Reqs, afterFailure(r) PROVE Counting'
  BY <1>15 DEF Inv, Shapes, RtShape, RtState, RlShape, ConnShape, Holding, Reader, Counting,
     Awaited, Arrived, Serving, HadBody, Unsent, afterFailure, At, pcVars, chanVars
<1>16. ASSUME readLoopPeek PROVE Counting'
  BY <1>16 DEF Inv, Shapes, RtShape, RtState, RlShape, ConnShape, Holding, Reader, Counting,
     Awaited, Arrived, Serving, HadBody, Unsent, readLoopPeek, pcVars, chanVars
<1>17. ASSUME readLoopExpects PROVE Counting'
  BY <1>17 DEF Inv, Shapes, RtShape, RtState, RlShape, ConnShape, Holding, Reader, Counting,
     Awaited, Arrived, Serving, HadBody, Unsent, readLoopExpects, RL, chanVars
<1>18. ASSUME readLoopTakes PROVE Counting'
  BY <1>18 DEF Inv, Shapes, RtShape, RtState, RlShape, ConnShape, Holding, Reader, Counting,
     Awaited, Arrived, Serving, HadBody, Unsent, readLoopTakes, pcVars
<1>19. ASSUME readResponse PROVE Counting'
  <2>1. (Awaited => expected = 1)'
    BY <1>19 DEF Inv, Shapes, RtShape, RtState, RlShape, ConnShape, Holding, Reader, Counting,
           Awaited, Arrived, Serving, HadBody, Unsent, readResponse
  <2>2. (Arrived => expected = 0)'
    BY <1>19 DEF Inv, Shapes, RtShape, RtState, RlShape, ConnShape, Holding, Reader, Counting,
           Awaited, Arrived, Serving, HadBody, Unsent, readResponse
  <2>. QED  BY <2>1, <2>2 DEF Counting
<1>20. ASSUME readResponseFails PROVE Counting'
  BY <1>20 DEF Inv, Shapes, RtShape, RtState, RlShape, ConnShape, Holding, Reader, Counting,
     Awaited, Arrived, Serving, HadBody, Unsent, readResponseFails, pcVars, chanVars
<1>21. ASSUME sendErr PROVE Counting'
  BY <1>21 DEF Inv, Shapes, RtShape, RtState, RlShape, ConnShape, Holding, Reader, Counting,
     Awaited, Arrived, Serving, HadBody, Unsent, sendErr, RL, Gone, pcVars, chanVars
<1>22. ASSUME sendResponse PROVE Counting'
  BY <1>22 DEF Inv, Shapes, RtShape, RtState, RlShape, ConnShape, Holding, Reader, Counting,
     Awaited, Arrived, Serving, HadBody, Unsent, sendResponse, RL, Gone, pcVars
<1>23. ASSUME bodyRead PROVE Counting'
  BY <1>23 DEF Inv, Shapes, RtShape, RtState, RlShape, ConnShape, Holding, Reader, Counting,
     Awaited, Arrived, Serving, HadBody, Unsent, bodyRead, pcVars
<1>24. ASSUME bodyAbandoned PROVE Counting'
  BY <1>24 DEF Inv, Shapes, RtShape, RtState, RlShape, ConnShape, Holding, Reader, Counting,
     Awaited, Arrived, Serving, HadBody, Unsent, bodyAbandoned, chanVars
<1>25. ASSUME replaceCanceler PROVE Counting'
  BY <1>25, ZenonT(60) DEF Inv, Shapes, RtShape, RtState, RlShape, ConnShape, Holding, Reader,
     Counting, Awaited, Arrived, Serving, HadBody, Unsent, replaceCanceler, Recycled, pcVars,
     chanVars
<1>26. ASSUME wroteRequest PROVE Counting'
  BY <1>26, ZenonT(60) DEF Inv, Shapes, RtShape, RtState, RlShape, ConnShape, Holding, Reader,
     Counting, Awaited, Arrived, Serving, HadBody, Unsent, wroteRequest, RL, Recycled, pcVars
<1>27. ASSUME readLoopPuts PROVE Counting'
  BY <1>27, ZenonT(60) DEF Inv, Shapes, RtShape, RtState, RlShape, ConnShape, Holding, Reader,
     Counting, Awaited, Arrived, Serving, HadBody, Unsent, readLoopPuts, putAccepted, putRefused,
     Recycled, chanVars
<1>28. ASSUME sendEofc PROVE Counting'
  BY <1>28 DEF Inv, Shapes, RtShape, RtState, RlShape, ConnShape, Holding, Reader, Counting,
     Awaited, Arrived, Serving, HadBody, Unsent, sendEofc, RL, pcVars, chanVars
<1>29. ASSUME readLoopExits PROVE Counting'
  BY <1>29 DEF Inv, Shapes, RtShape, RtState, RlShape, ConnShape, Holding, Reader, Counting,
     Awaited, Arrived, Serving, HadBody, Unsent, readLoopExits, RL, chanVars
<1>30. ASSUME closeIdle PROVE Counting'
  BY <1>30 DEF Inv, Shapes, RtShape, RtState, RlShape, ConnShape, Holding, Reader, Counting,
     Awaited, Arrived, Serving, HadBody, Unsent, closeIdle, chanVars
<1>. QED
  BY <1>1, <1>2, <1>3, <1>4, <1>5, <1>6, <1>7, <1>8, <1>9, <1>10, <1>11, <1>12, <1>13, <1>14,
     <1>15, <1>16, <1>17, <1>18, <1>19, <1>20, <1>21, <1>22, <1>23, <1>24, <1>25, <1>26, <1>27,
     <1>28, <1>29, <1>30, Zenon
  DEF Next, roundTrip, writeLoop, readLoop, vars, pcVars, chanVars, cancelVars, reqVars, netVars

\* Every step keeps Answering.
LEMMA AnsweringStep ==
  ASSUME Inv, [Next]_vars
  PROVE  Answering'
<1>1. ASSUME NEW r \in Reqs,
              \/ userCancels(r) \/ bodyStep(r) \/ bodyReleased(r) \/ serverAnswers(r)
      PROVE  UNCHANGED <<rt, rl, reqch, closed>>
  BY <1>1 DEF bodyReleased, bodyStep, serverAnswers, userCancels, chanVars, pcVars
<1>2. ASSUME 
              \/ writeLoopTakes \/ writeLoopQuits \/ waitForContinue \/ readContinue
              \/ serverCloses \/ writeHead \/ writeFlush \/ writeFails \/ writeBody
      PROVE  UNCHANGED <<rt, rl, reqch, closed>>
  BY <1>2 DEF readContinue, serverCloses, waitForContinue, writeBody, writeFails, writeFlush,
         writeHead, writeLoopQuits, writeLoopTakes, chanVars, pcVars
<1>3. ASSUME UNCHANGED <<rt, rl, reqch, closed>> PROVE Answering'
  BY <1>3 DEF Inv, Shapes, RtShape, RtState, RlShape, Reader, Answering, Gone, RightResponse,
     Unsent, Serving, HadBody
<1>4. ASSUME NEW r \in Reqs, getConn(r) PROVE Answering'
  BY <1>4 DEF Inv, Shapes, RtShape, RtState, RlShape, Reader, Answering, Gone, RightResponse,
     Unsent, Serving, HadBody, getConn, At, chanVars, netVars
<1>5. ASSUME NEW r \in Reqs, roundTripCanceled(r) PROVE Answering'
  <2>1. (\A q \in Reqs : Gone(q) /\ (rl.req = q \/ reqch = <<q>>) => closed # "nil")'
    <3>1. rl.req # r /\ reqch # <<r>>
      BY <1>5 DEF Inv, Reader, Unsent, roundTripCanceled
    <3>. QED  BY <1>5, <3>1 DEF Inv, Shapes, RtShape, RtState, Answering, Gone,
                 roundTripCanceled, closeLocked, chanVars
  <2>2. (rl.at \in {"replace", "wrote", "put", "send", "waitBody"} => rl.resp.req \in {rl.req, NoReq})'
    BY <1>5 DEF Inv, Shapes, RtShape, RtState, RlShape, Reader, Answering, Gone, RightResponse,
           Unsent, Serving, HadBody, roundTripCanceled, closeLocked, putAccepted, chanVars,
           netVars
  <2>3. (RightResponse)'
    BY <1>5 DEF Inv, Shapes, RtShape, RtState, RlShape, Reader, Answering, Gone, RightResponse,
           Unsent, Serving, HadBody, roundTripCanceled, closeLocked, putAccepted, chanVars,
           netVars
  <2>. QED  BY <2>1, <2>2, <2>3 DEF Answering
<1>6. ASSUME NEW r \in Reqs, roundTripBegins(r) PROVE Answering'
  BY <1>6 DEF Inv, Shapes, RtShape, RtState, RlShape, Reader, Answering, Gone, RightResponse,
     Unsent, Serving, HadBody, roundTripBegins, At, netVars
<1>7. ASSUME NEW r \in Reqs, sendWritech(r) PROVE Answering'
  BY <1>7 DEF Inv, Shapes, RtShape, RtState, RlShape, Reader, Answering, Gone, RightResponse,
     Unsent, Serving, HadBody, sendWritech, pcVars, netVars
<1>8. ASSUME NEW r \in Reqs, sendReqch(r) PROVE Answering'
  BY <1>8 DEF Inv, Shapes, RtShape, RtState, RlShape, Reader, Answering, Gone, RightResponse,
     Unsent, Serving, HadBody, sendReqch, At, pcVars, netVars
<1>9. ASSUME NEW r \in Reqs, selectWriteErr(r) PROVE Answering'
  <2>1. UNCHANGED <<rl, reqch, holder, wire>>
    BY <1>9 DEF selectWriteErr, netVars
  <2>. QED  BY <1>9, <2>1, WriteErrTaken DEF Inv, Shapes, RtState, Reader, Answering, Gone,
               RightResponse, Unsent, Serving, HadBody
<1>10. ASSUME NEW r \in Reqs, selectClosed(r) PROVE Answering'
  <2>1. UNCHANGED <<rl, reqch, closed, holder, wire>>
    BY <1>10 DEF selectClosed, pcVars, chanVars, netVars
  <2>. QED  BY <1>10, <2>1, CloseSeen DEF Inv, Shapes, RtState, Reader, Answering, Gone,
               RightResponse, Unsent, Serving, HadBody
<1>11. ASSUME NEW r \in Reqs, selectTimeout(r) PROVE Answering'
  BY <1>11 DEF Inv, Shapes, RtShape, RtState, RlShape, Reader, Answering, Gone, RightResponse,
     Unsent, Serving, HadBody, selectTimeout, closeLocked, chanVars, netVars
<1>12. ASSUME NEW r \in Reqs, selectCancel(r) PROVE Answering'
  BY <1>12 DEF Inv, Shapes, RtShape, RtState, RlShape, Reader, Answering, Gone, RightResponse,
     Unsent, Serving, HadBody, selectCancel, cancelRequest, closeLocked, chanVars, netVars
<1>13. ASSUME NEW r \in Reqs, selectCtxDone(r) PROVE Answering'
  BY <1>13 DEF Inv, Shapes, RtShape, RtState, RlShape, Reader, Answering, Gone, RightResponse,
     Unsent, Serving, HadBody, selectCtxDone, cancelRequest, closeLocked, chanVars, netVars
<1>14. ASSUME NEW r \in Reqs, mapRoundTripError(r) PROVE Answering'
  <2>1. UNCHANGED <<rl, reqch, closed, holder, wire>>
    BY <1>14 DEF mapRoundTripError, pcVars, chanVars, netVars
  <2>2. (\A q \in Reqs : Gone(q) /\ (rl.req = q \/ reqch = <<q>>) => closed # "nil")'
    BY <1>14, <2>1, ErrorMapped DEF Inv, Shapes, RtState, Reader, Answering, Gone, RightResponse,
       Unsent, Serving, HadBody
  <2>3. (rl.at \in {"replace", "wrote", "put", "send", "waitBody"} => rl.resp.req \in {rl.req, NoReq})'
    BY <1>14, <2>1, ErrorMapped DEF Inv, Shapes, RtState, Reader, Answering, Gone, RightResponse,
       Unsent, Serving, HadBody
  <2>4. (RightResponse)'
    BY <1>14, <2>1, ErrorMapped DEF Inv, Shapes, RtState, Reader, Answering, Gone, RightResponse,
       Unsent, Serving, HadBody
  <2>. QED  BY <2>2, <2>3, <2>4 DEF Answering
<1>15. ASSUME NEW r \in Reqs, afterFailure(r) PROVE Answering'
  BY <1>15 DEF Inv, Shapes, RtShape, RtState, RlShape, Reader, Answering, Gone, RightResponse,
     Unsent, Serving, HadBody, afterFailure, At, pcVars, chanVars, netVars
<1>16. ASSUME NEW r \in Reqs, CancelRequest(r) PROVE Answering'
  BY <1>16 DEF Inv, Shapes, RtShape, RtState, RlShape, Reader, Answering, Gone, RightResponse,
     Unsent, Serving, HadBody, CancelRequest, cancelRequest, closeLocked, chanVars, netVars
<1>17. ASSUME reportWriteErr PROVE Answering'
  BY <1>17 DEF Inv, Shapes, RtShape, RtState, RlShape, Reader, Answering, Gone, RightResponse,
     Unsent, Serving, HadBody, reportWriteErr, closeLocked, netVars
<1>18. ASSUME readLoopPeek PROVE Answering'
  BY <1>18 DEF Inv, Shapes, RtShape, RtState, RlShape, Reader, Answering, Gone, RightResponse,
     Unsent, Serving, HadBody, readLoopPeek, ReadFails, pcVars, chanVars, netVars
<1>19. ASSUME readLoopExpects PROVE Answering'
  BY <1>19 DEF Inv, Shapes, RtShape, RtState, RlShape, Reader, Answering, Gone, RightResponse,
     Unsent, Serving, HadBody, readLoopExpects, closeLocked, RL, chanVars, netVars
<1>20. ASSUME readLoopTakes PROVE Answering'
  BY <1>20 DEF Inv, Shapes, RtShape, RtState, RlShape, Reader, Answering, Gone, RightResponse,
     Unsent, Serving, HadBody, readLoopTakes, pcVars, netVars
<1>21. ASSUME readResponse PROVE Answering'
  <2>1. (\A q \in Reqs : Gone(q) /\ (rl.req = q \/ reqch = <<q>>) => closed # "nil")'
    BY <1>21, Popped DEF Inv, Shapes, RtShape, RtState, RlShape, Reader, Answering, Gone,
       RightResponse, Unsent, Serving, HadBody, readResponse, Talk
  <2>2. (rl.at \in {"replace", "wrote", "put", "send", "waitBody"} => rl.resp.req \in {rl.req, NoReq})'
    BY <1>21, Popped DEF Inv, Shapes, RtShape, RtState, RlShape, Reader, Answering, Gone,
       RightResponse, Unsent, Serving, HadBody, readResponse, Talk
  <2>3. (RightResponse)'
    BY <1>21, Popped DEF Inv, Shapes, RtShape, RtState, RlShape, Reader, Answering, Gone,
       RightResponse, Unsent, Serving, HadBody, readResponse, Talk
  <2>. QED  BY <2>1, <2>2, <2>3 DEF Answering
<1>22. ASSUME readResponseFails PROVE Answering'
  BY <1>22 DEF Inv, Shapes, RtShape, RtState, RlShape, Reader, Answering, Gone, RightResponse,
     Unsent, Serving, HadBody, readResponseFails, ReadFails, pcVars, chanVars, netVars
<1>23. ASSUME sendErr PROVE Answering'
  <2>1. UNCHANGED <<reqch, closed, holder, wire>>
    BY <1>23 DEF sendErr, pcVars, chanVars, netVars
  <2>2. (\A q \in Reqs : Gone(q) /\ (rl.req = q \/ reqch = <<q>>) => closed # "nil")'
    BY <1>23, <2>1, ErrSent DEF Inv, Shapes, RtShape, RtState, RlShape, Reader, Answering, Gone,
       RightResponse, Unsent, Serving, HadBody
  <2>3. (rl.at \in {"replace", "wrote", "put", "send", "waitBody"} => rl.resp.req \in {rl.req, NoReq})'
    BY <1>23, <2>1, ErrSent DEF Inv, Shapes, RtShape, RtState, RlShape, Reader, Answering, Gone,
       RightResponse, Unsent, Serving, HadBody
  <2>4. (RightResponse)'
    BY <1>23, <2>1, ErrSent DEF Inv, Shapes, RtShape, RtState, RlShape, Reader, Answering, Gone,
       RightResponse, Unsent, Serving, HadBody
  <2>. QED  BY <2>2, <2>3, <2>4 DEF Answering
<1>24. ASSUME sendResponse PROVE Answering'
  <2>1. UNCHANGED <<reqch, closed, holder, wire>>
    BY <1>24 DEF sendResponse, pcVars, netVars
  <2>. QED  BY <1>24, <2>1, ResponseSent DEF Inv, Shapes, RtState, Reader, Answering, Gone,
               RightResponse, Unsent, Serving, HadBody
<1>25. ASSUME bodyRead PROVE Answering'
  BY <1>25 DEF Inv, Shapes, RtShape, RtState, RlShape, Reader, Answering, Gone, RightResponse,
     Unsent, Serving, HadBody, bodyRead, pcVars, netVars
<1>26. ASSUME bodyAbandoned PROVE Answering'
  BY <1>26 DEF Inv, Shapes, RtShape, RtState, RlShape, Reader, Answering, Gone, RightResponse,
     Unsent, Serving, HadBody, bodyAbandoned, cancelRequest, closeLocked, chanVars, netVars
<1>27. ASSUME replaceCanceler PROVE Answering'
  <2>1. UNCHANGED <<rt, reqch, closed, holder, wire>>
    BY <1>27 DEF replaceCanceler, pcVars, chanVars, netVars
  <2>. QED  BY <1>27, <2>1, CancelerReplaced DEF Inv, Shapes, RtState, Reader, Answering, Gone,
               RightResponse, Unsent, Serving, HadBody, Onward, SameResponse
<1>28. ASSUME wroteRequest PROVE Answering'
  <2>1. UNCHANGED <<rt, reqch, closed, holder, wire>>
    BY <1>28 DEF wroteRequest, pcVars, netVars
  <2>. QED  BY <1>28, <2>1, WriteLearnt DEF Inv, Shapes, RtState, Reader, Answering, Gone,
               RightResponse, Unsent, Serving, HadBody, Onward, SameResponse
<1>29. ASSUME readLoopPuts PROVE Answering'
  <2>1. UNCHANGED <<rt, reqch, closed, holder, wire>>
    BY <1>29 DEF readLoopPuts, chanVars, netVars
  <2>. QED  BY <1>29, <2>1, PutBack DEF Inv, Shapes, RtState, Reader, Answering, Gone,
               RightResponse, Unsent, Serving, HadBody, Onward, SameResponse
<1>30. ASSUME sendEofc PROVE Answering'
  BY <1>30 DEF Inv, Shapes, RtShape, RtState, RlShape, Reader, Answering, Gone, RightResponse,
     Unsent, Serving, HadBody, sendEofc, RL, pcVars, chanVars, netVars
<1>31. ASSUME readLoopExits PROVE Answering'
  BY <1>31 DEF Inv, Shapes, RtShape, RtState, RlShape, Reader, Answering, Gone, RightResponse,
     Unsent, Serving, HadBody, readLoopExits, closeLocked, RL, chanVars, netVars
<1>32. ASSUME closeIdle PROVE Answering'
  BY <1>32 DEF Inv, Shapes, RtShape, RtState, RlShape, Reader, Answering, Gone, RightResponse,
     Unsent, Serving, HadBody, closeIdle, closeLocked, chanVars, netVars
<1>. QED
  BY <1>1, <1>2, <1>3, <1>4, <1>5, <1>6, <1>7, <1>8, <1>9, <1>10, <1>11, <1>12, <1>13, <1>14,
     <1>15, <1>16, <1>17, <1>18, <1>19, <1>20, <1>21, <1>22, <1>23, <1>24, <1>25, <1>26, <1>27,
     <1>28, <1>29, <1>30, <1>31, <1>32, Zenon
  DEF Next, roundTrip, writeLoop, readLoop, vars, pcVars, chanVars, cancelVars, reqVars, netVars

\* Every step keeps Owned.
LEMMA OwnedStep ==
  ASSUME Inv, [Next]_vars
  PROVE  Owned'
<1>1. ASSUME NEW r \in Reqs,
              \/ userCancels(r) \/ bodyStep(r) \/ bodyReleased(r) \/ serverAnswers(r)
      PROVE  UNCHANGED <<rt, rl, closed>>
  BY <1>1 DEF bodyReleased, bodyStep, serverAnswers, userCancels, pcVars
<1>2. ASSUME 
              \/ writeLoopTakes \/ writeLoopQuits \/ waitForContinue \/ readContinue
              \/ serverCloses \/ writeHead \/ writeFlush \/ writeFails \/ writeBody
      PROVE  UNCHANGED <<rt, rl, closed>>
  BY <1>2 DEF readContinue, serverCloses, waitForContinue, writeBody, writeFails, writeFlush,
         writeHead, writeLoopQuits, writeLoopTakes, pcVars
<1>3. ASSUME UNCHANGED <<rt, rl, closed>> PROVE Owned'
  BY <1>3 DEF Inv, Shapes, RtShape, RtState, RlShape, Answering, Reader, Owned, Serving, HadBody,
     Gone, Unsent
<1>4. ASSUME NEW r \in Reqs, getConn(r) PROVE Owned'
  BY <1>4 DEF Inv, Shapes, RtShape, RtState, RlShape, Answering, Reader, Owned, Serving, HadBody,
         Gone, Unsent, getConn, At
<1>5. ASSUME NEW r \in Reqs, roundTripCanceled(r) PROVE Owned'
  BY <1>5 DEF Inv, Shapes, RtShape, RtState, RlShape, Answering, Reader, Owned, Serving, HadBody,
         Gone, Unsent, roundTripCanceled, closeLocked, putAccepted
<1>6. ASSUME NEW r \in Reqs, roundTripBegins(r) PROVE Owned'
  BY <1>6 DEF Inv, Shapes, RtShape, RtState, RlShape, Answering, Reader, Owned, Serving, HadBody,
         Gone, Unsent, roundTripBegins, At
<1>7. ASSUME NEW r \in Reqs, sendWritech(r) PROVE Owned'
  BY <1>7 DEF Inv, Shapes, RtShape, RtState, RlShape, Answering, Reader, Owned, Serving, HadBody,
         Gone, Unsent, sendWritech, pcVars
<1>8. ASSUME NEW r \in Reqs, sendReqch(r) PROVE Owned'
  BY <1>8 DEF Inv, Shapes, RtShape, RtState, RlShape, Answering, Reader, Owned, Serving, HadBody,
         Gone, Unsent, sendReqch, At, pcVars
<1>9. ASSUME NEW r \in Reqs, selectWriteErr(r) PROVE Owned'
  <2>1. UNCHANGED <<rl>>
    BY <1>9 DEF selectWriteErr
  <2>. QED  BY <1>9, <2>1, WriteErrTaken DEF Inv, Shapes, RtState, Answering, Reader, Owned,
               Serving, HadBody, Gone, Unsent
<1>10. ASSUME NEW r \in Reqs, selectClosed(r) PROVE Owned'
  <2>1. UNCHANGED <<rl, closed>>
    BY <1>10 DEF selectClosed, pcVars
  <2>. QED  BY <1>10, <2>1, CloseSeen DEF Inv, Shapes, RtState, Answering, Reader, Owned,
               Serving, HadBody, Gone, Unsent
<1>11. ASSUME NEW r \in Reqs, selectTimeout(r) PROVE Owned'
  BY <1>11 DEF Inv, Shapes, RtShape, RtState, RlShape, Answering, Reader, Owned, Serving, HadBody,
         Gone, Unsent, selectTimeout, closeLocked
<1>12. ASSUME NEW r \in Reqs, selectCancel(r) PROVE Owned'
  BY <1>12 DEF Inv, Shapes, RtShape, RtState, RlShape, Answering, Reader, Owned, Serving, HadBody,
         Gone, Unsent, selectCancel, cancelRequest, closeLocked
<1>13. ASSUME NEW r \in Reqs, selectCtxDone(r) PROVE Owned'
  BY <1>13 DEF Inv, Shapes, RtShape, RtState, RlShape, Answering, Reader, Owned, Serving, HadBody,
         Gone, Unsent, selectCtxDone, cancelRequest, closeLocked
<1>14. ASSUME NEW r \in Reqs, mapRoundTripError(r) PROVE Owned'
  <2>1. UNCHANGED <<rl, closed>>
    BY <1>14 DEF mapRoundTripError, pcVars
  <2>. QED  BY <1>14, <2>1, ErrorMapped DEF Inv, Shapes, RtState, Answering, Reader, Owned,
               Serving, HadBody, Gone, Unsent
<1>15. ASSUME NEW r \in Reqs, afterFailure(r) PROVE Owned'
  BY <1>15 DEF Inv, Shapes, RtShape, RtState, RlShape, Answering, Reader, Owned, Serving, HadBody,
         Gone, Unsent, afterFailure, At, pcVars
<1>16. ASSUME NEW r \in Reqs, CancelRequest(r) PROVE Owned'
  BY <1>16 DEF Inv, Shapes, RtShape, RtState, RlShape, Answering, Reader, Owned, Serving, HadBody,
         Gone, Unsent, CancelRequest, cancelRequest, closeLocked
<1>17. ASSUME reportWriteErr PROVE Owned'
  BY <1>17 DEF Inv, Shapes, RtShape, RtState, RlShape, Answering, Reader, Owned, Serving, HadBody,
         Gone, Unsent, reportWriteErr, closeLocked
<1>18. ASSUME readLoopPeek PROVE Owned'
  BY <1>18 DEF Inv, Shapes, RtShape, RtState, RlShape, Answering, Reader, Owned, Serving, HadBody,
         Gone, Unsent, readLoopPeek, ReadFails, pcVars
<1>19. ASSUME readLoopExpects PROVE Owned'
  BY <1>19 DEF Inv, Shapes, RtShape, RtState, RlShape, Answering, Reader, Owned, Serving, HadBody,
         Gone, Unsent, readLoopExpects, closeLocked, RL
<1>20. ASSUME readLoopTakes PROVE Owned'
  BY <1>20 DEF Inv, Shapes, RtShape, RtState, RlShape, Answering, Reader, Owned, Serving, HadBody,
         Gone, Unsent, readLoopTakes, pcVars
<1>21. ASSUME readResponse PROVE Owned'
  BY <1>21 DEF Inv, Shapes, RtShape, RtState, RlShape, Answering, Reader, Owned, Serving, HadBody,
         Gone, Unsent, readResponse
<1>22. ASSUME readResponseFails PROVE Owned'
  BY <1>22 DEF Inv, Shapes, RtShape, RtState, RlShape, Answering, Reader, Owned, Serving, HadBody,
         Gone, Unsent, readResponseFails, ReadFails, pcVars
<1>23. ASSUME sendErr PROVE Owned'
  <2>1. UNCHANGED <<closed>>
    BY <1>23 DEF sendErr, pcVars
  <2>. QED  BY <1>23, <2>1, ErrSent DEF Inv, Shapes, RtShape, RtState, RlShape, Answering,
               Reader, Owned, Serving, HadBody, Gone, Unsent
<1>24. ASSUME sendResponse PROVE Owned'
  <2>1. UNCHANGED <<closed>>
    BY <1>24 DEF sendResponse, pcVars
  <2>. QED  BY <1>24, <2>1, ResponseSent DEF Inv, Shapes, RtState, Answering, Reader, Owned,
               Serving, HadBody, Gone, Unsent
<1>25. ASSUME bodyRead PROVE Owned'
  BY <1>25 DEF Inv, Shapes, RtShape, RtState, RlShape, Answering, Reader, Owned, Serving, HadBody,
         Gone, Unsent, bodyRead, pcVars
<1>26. ASSUME bodyAbandoned PROVE Owned'
  BY <1>26 DEF Inv, Shapes, RtShape, RtState, RlShape, Answering, Reader, Owned, Serving, HadBody,
         Gone, Unsent, bodyAbandoned, cancelRequest, closeLocked
<1>27. ASSUME replaceCanceler PROVE Owned'
  <2>1. UNCHANGED <<rt, closed>>
    BY <1>27 DEF replaceCanceler, pcVars
  <2>. QED  BY <1>27, <2>1, CancelerReplaced DEF Inv, Shapes, RtState, Answering, Reader, Owned,
               Serving, HadBody, Gone, Unsent, Onward, SameResponse
<1>28. ASSUME wroteRequest PROVE Owned'
  <2>1. UNCHANGED <<rt, closed>>
    BY <1>28 DEF wroteRequest, pcVars
  <2>. QED  BY <1>28, <2>1, WriteLearnt DEF Inv, Shapes, RtState, Answering, Reader, Owned,
               Serving, HadBody, Gone, Unsent, Onward, SameResponse
<1>29. ASSUME readLoopPuts PROVE Owned'
  <2>1. UNCHANGED <<rt, closed>>
    BY <1>29 DEF readLoopPuts
  <2>. QED  BY <1>29, <2>1, PutBack DEF Inv, Shapes, RtState, Answering, Reader, Owned, Serving,
               HadBody, Gone, Unsent, Onward, SameResponse
<1>30. ASSUME sendEofc PROVE Owned'
  BY <1>30 DEF Inv, Shapes, RtShape, RtState, RlShape, Answering, Reader, Owned, Serving, HadBody,
         Gone, Unsent, sendEofc, RL, pcVars
<1>31. ASSUME readLoopExits PROVE Owned'
  BY <1>31 DEF Inv, Shapes, RtShape, RtState, RlShape, Answering, Reader, Owned, Serving, HadBody,
         Gone, Unsent, readLoopExits, closeLocked, RL
<1>32. ASSUME closeIdle PROVE Owned'
  BY <1>32 DEF Inv, Shapes, RtShape, RtState, RlShape, Answering, Reader, Owned, Serving, HadBody,
         Gone, Unsent, closeIdle, closeLocked
<1>. QED
  BY <1>1, <1>2, <1>3, <1>4, <1>5, <1>6, <1>7, <1>8, <1>9, <1>10, <1>11, <1>12, <1>13, <1>14,
     <1>15, <1>16, <1>17, <1>18, <1>19, <1>20, <1>21, <1>22, <1>23, <1>24, <1>25, <1>26, <1>27,
     <1>28, <1>29, <1>30, <1>31, <1>32, Zenon
  DEF Next, roundTrip, writeLoop, readLoop, vars, pcVars, chanVars, cancelVars, reqVars, netVars

\* Every step keeps Bodies.
LEMMA BodiesStep ==
  ASSUME Inv, [Next]_vars
  PROVE  Bodies'
<1>1. ASSUME NEW r \in Reqs,
              \/ roundTripBegins(r) \/ sendWritech(r) \/ sendReqch(r) \/ selectWriteErr(r)
              \/ selectClosed(r) \/ selectTimeout(r) \/ selectCancel(r) \/ selectCtxDone(r)
              \/ mapRoundTripError(r) \/ afterFailure(r) \/ CancelRequest(r) \/ userCancels(r)
              \/ serverAnswers(r)
      PROVE  UNCHANGED <<rl, holder, pooled, waitForBodyRead, body>>
  BY <1>1 DEF CancelRequest, afterFailure, mapRoundTripError, roundTripBegins, selectCancel,
         selectClosed, selectCtxDone, selectTimeout, selectWriteErr, sendReqch, sendWritech,
         serverAnswers, userCancels, chanVars, pcVars
<1>2. ASSUME 
              \/ writeLoopTakes \/ writeLoopQuits \/ waitForContinue \/ reportWriteErr
              \/ readContinue \/ serverCloses \/ writeHead \/ writeFlush \/ writeFails
              \/ writeBody
      PROVE  UNCHANGED <<rl, holder, pooled, waitForBodyRead, body>>
  BY <1>2 DEF readContinue, reportWriteErr, serverCloses, waitForContinue, writeBody, writeFails,
         writeFlush, writeHead, writeLoopQuits, writeLoopTakes, chanVars, pcVars
<1>3. ASSUME UNCHANGED <<rl, holder, pooled, waitForBodyRead, body>> PROVE Bodies'
  BY <1>3, ZenonT(60) DEF Inv, Shapes, RlShape, NetShape, Reader, Bodies, GivenUp, Reading, Told, Serving, HadBody, Unsent
<1>4. ASSUME NEW r \in Reqs, getConn(r) PROVE Bodies'
  BY <1>4 DEF Inv, Shapes, RlShape, NetShape, Reader, Bodies, GivenUp, Reading, Told, Serving, HadBody, Unsent, getConn, At,
         chanVars
<1>5. ASSUME NEW r \in Reqs, roundTripCanceled(r) PROVE Bodies'
  <2>1. rl.req # r /\ holder = r
    BY <1>5 DEF Inv, Reader, Holding, Unsent, roundTripCanceled
  <2>2. \A q \in Reqs : body[q] \notin Reading
    BY <2>1 DEF Inv, Bodies, Reading
  <2>3. UNCHANGED <<body, waitForBodyRead, rl>>
    BY <1>5 DEF roundTripCanceled, chanVars
  <2>4. waitForBodyRead \in Told
    BY Zenon DEF Inv, Bodies
  <2>. QED  BY <2>2, <2>3, <2>4 DEF Bodies, Reading
<1>6. ASSUME NEW r \in Reqs, bodyStep(r) PROVE Bodies'
  <2>1. UNCHANGED <<rl, holder, pooled, rt>>
    BY <1>6 DEF bodyStep, pcVars
  <2>2. \A q \in Reqs : body[q] \in Reading => q = r
    BY <1>6, BodyStepped, Zenon DEF Inv, Bodies
  <2>3. CASE body'[r] = "eof" /\ waitForBodyRead' = <<TRUE>>
    BY <1>6, <2>1, <2>2, <2>3, BodyStepped DEF Bodies, Told, Reading
  <2>4. CASE /\ body'[r] \in {"failed", "close"} /\ waitForBodyRead' = <<FALSE>>
             /\ rl.at \in {"waitBody", "exit", "done"}
    BY <1>6, <2>1, <2>2, <2>4, BodyStepped, TellingsRead DEF Bodies, Told, Reading, GivenUp
  <2>5. CASE /\ body'[r] = "close" /\ waitForBodyRead' \in {<<FALSE>>, ToldTwice} /\ GivenUp
    <3>1. GivenUp'
      BY <2>1, <2>5, Zenon DEF GivenUp, HadBody
    <3>. QED  BY <1>6, <2>1, <2>2, <2>5, <3>1, BodyStepped DEF Bodies, Told, Reading
  <2>. QED  BY <1>6, <2>3, <2>4, <2>5, BodyStepped, Zenon
<1>7. ASSUME NEW r \in Reqs, bodyReleased(r) PROVE Bodies'
  BY <1>7, ZenonT(60) DEF Inv, Shapes, RlShape, NetShape, Reader, Bodies, GivenUp, Reading, Told, Serving, HadBody,
     Unsent, bodyReleased, pcVars, chanVars
<1>8. ASSUME readLoopPeek PROVE Bodies'
  BY <1>8, ZenonT(60) DEF Inv, Shapes, RlShape, NetShape, Reader, Bodies, GivenUp, Reading, Told, Serving, HadBody,
     Unsent, readLoopPeek, pcVars, chanVars
<1>9. ASSUME readLoopExpects PROVE Bodies'
  BY <1>9 DEF Inv, Shapes, RlShape, NetShape, Reader, Bodies, GivenUp, Reading, Told, Serving, HadBody, Unsent,
         readLoopExpects, RL, chanVars
<1>10. ASSUME readLoopTakes PROVE Bodies'
  BY <1>10 DEF Inv, Shapes, RlShape, NetShape, Reader, Bodies, GivenUp, Reading, Told, Serving, HadBody, Unsent,
         readLoopTakes, pcVars
<1>11. ASSUME readResponse PROVE Bodies'
  BY <1>11 DEF Inv, Shapes, RlShape, NetShape, Reader, Bodies, GivenUp, Reading, Told, Serving, HadBody, Unsent,
     readResponse
<1>12. ASSUME readResponseFails PROVE Bodies'
  BY <1>12 DEF Inv, Shapes, RlShape, NetShape, Reader, Bodies, GivenUp, Reading, Told, Serving, HadBody, Unsent,
         readResponseFails, pcVars, chanVars
<1>13. ASSUME sendErr PROVE Bodies'
  <2>1. UNCHANGED <<holder, pooled, waitForBodyRead, body>>
    BY <1>13 DEF sendErr, pcVars, chanVars
  <2>. QED  BY <1>13, <2>1, ErrSent DEF Inv, Shapes, Reader, Bodies, GivenUp, Reading, Told, Serving, HadBody, Unsent
<1>14. ASSUME sendResponse PROVE Bodies'
  <2>1. UNCHANGED <<holder, pooled>>
    BY <1>14 DEF sendResponse, pcVars
  <2>2. \A q \in Reqs : body[q] \notin {"open", "failed", "close"}
    BY <1>14, ResponseSent DEF Inv, Bodies, GivenUp
  <2>3. \A q \in Reqs : body'[q] \in Reading => q = holder /\ ~pooled /\ body'[q] = "open"
    BY <1>14, <2>2, ResponseSent DEF Inv, Reader, Serving, HadBody, Reading
  <2>4. waitForBodyRead' \in Told
    BY <1>14, ResponseSent DEF Inv, Bodies, Told
  <2>5. \A q \in Reqs : body'[q] = "open" => rl'.req = q /\ waitForBodyRead' = <<>> /\ rl'.at = "waitBody"
    BY <1>14, <2>2, ResponseSent
  <2>. QED  BY <2>1, <2>3, <2>4, <2>5 DEF Bodies, Reading
<1>15. ASSUME bodyRead PROVE Bodies'
  <2>1. /\ rl.at = "waitBody" /\ waitForBodyRead # <<>> /\ waitForBodyRead \in Told
        /\ waitForBodyRead' = Tail(waitForBodyRead) /\ UNCHANGED <<holder, pooled, body>> /\ HadBody
    BY <1>15 DEF Inv, Bodies, Progress, bodyRead, pcVars
  <2>2. /\ rl'.at = "replace" /\ rl'.req = rl.req /\ rl'.resp = rl.resp
        /\ ~Head(waitForBodyRead) => ~rl'.alive /\ ~rl'.bodyEOF
    BY <1>15, <2>1 DEF Inv, Shapes, RlShape, bodyRead
  <2>3. waitForBodyRead' \in {<<>>, <<FALSE>>}
    BY <2>1, TellingsRead, Zenon DEF Told
  <2>4. \A q \in Reqs : body[q] # "open"
    BY <2>1, Zenon DEF Inv, Bodies
  <2>5. \A q \in Reqs : body[q] \in {"failed", "close"} => rl.req = q /\ ~Head(waitForBodyRead)
    <3>1. GivenUp => ~Head(waitForBodyRead)
      BY <2>1, TellingsRead DEF GivenUp
    <3>. QED  BY <3>1, Zenon DEF Inv, Bodies
  <2>6. HadBody'
    BY <2>1, <2>2 DEF HadBody
  <2>7. \A q \in Reqs : body[q] \in Reading => q = holder /\ ~pooled
    BY Zenon DEF Inv, Bodies
  <2>8. \A q \in Reqs : body[q] \in {"failed", "close"} => rl'.req = q /\ GivenUp'
    BY <2>2, <2>5, <2>6, Zenon DEF GivenUp
  <2>. QED  BY <2>1, <2>3, <2>4, <2>7, <2>8, Zenon DEF Bodies, Told
<1>16. ASSUME bodyAbandoned PROVE Bodies'
  BY <1>16 DEF Inv, Shapes, RlShape, NetShape, Reader, Bodies, GivenUp, Reading, Told, Serving, HadBody, Unsent,
         bodyAbandoned, chanVars
<1>17. ASSUME replaceCanceler PROVE Bodies'
  <2>1. UNCHANGED <<holder, pooled, waitForBodyRead, body, rt>>
    BY <1>17 DEF replaceCanceler, pcVars, chanVars
  <2>. QED  BY <1>17, <2>1, CancelerReplaced DEF Inv, Shapes, Reader, Bodies, GivenUp, Reading, Told, Serving, HadBody,
               Unsent, Onward, SameResponse
<1>18. ASSUME wroteRequest PROVE Bodies'
  <2>1. UNCHANGED <<holder, pooled, waitForBodyRead, body, rt>>
    BY <1>18 DEF wroteRequest, pcVars
  <2>. QED  BY <1>18, <2>1, WriteLearnt DEF Inv, Shapes, Reader, Bodies, GivenUp, Reading, Told, Serving, HadBody,
               Unsent, Onward, SameResponse
<1>19. ASSUME readLoopPuts PROVE Bodies'
  <2>1. UNCHANGED <<holder, waitForBodyRead, body, rt>>
    BY <1>19 DEF readLoopPuts, chanVars
  <2>. QED  BY <1>19, <2>1, PutBack DEF Inv, Shapes, Reader, Bodies, GivenUp, Reading, Told, Serving, HadBody, Unsent,
               Onward, SameResponse
<1>20. ASSUME sendEofc PROVE Bodies'
  BY <1>20, ZenonT(60) DEF Inv, Shapes, RlShape, NetShape, Reader, Bodies, GivenUp, Reading, Told, Serving, HadBody,
     Unsent, sendEofc, RL, pcVars, chanVars
<1>21. ASSUME readLoopExits PROVE Bodies'
  BY <1>21 DEF Inv, Shapes, RlShape, NetShape, Reader, Bodies, GivenUp, Reading, Told, Serving, HadBody, Unsent,
         readLoopExits, RL, chanVars
<1>22. ASSUME closeIdle PROVE Bodies'
  BY <1>22 DEF Inv, Shapes, RlShape, NetShape, Reader, Bodies, GivenUp, Reading, Told, Serving, HadBody, Unsent, closeIdle,
         chanVars
<1>. QED
  BY <1>1, <1>2, <1>3, <1>4, <1>5, <1>6, <1>7, <1>8, <1>9, <1>10, <1>11, <1>12, <1>13, <1>14,
     <1>15, <1>16, <1>17, <1>18, <1>19, <1>20, <1>21, <1>22, Zenon
  DEF Next, roundTrip, writeLoop, readLoop, vars, pcVars, chanVars, cancelVars, reqVars, netVars

\* Every step keeps Talk.
LEMMA TalkStep ==
  ASSUME Inv, [Next]_vars
  PROVE  Talk'
<1>1. ASSUME NEW r \in Reqs,
              \/ roundTripBegins(r) \/ sendWritech(r) \/ sendReqch(r) \/ selectWriteErr(r)
              \/ selectClosed(r) \/ selectTimeout(r) \/ selectCancel(r) \/ selectCtxDone(r)
              \/ mapRoundTripError(r) \/ afterFailure(r) \/ CancelRequest(r) \/ userCancels(r)
              \/ bodyReleased(r)
      PROVE  UNCHANGED <<holder, pooled, wire, srv, sent, srvClosed>>
  BY <1>1 DEF CancelRequest, afterFailure, bodyReleased, mapRoundTripError, roundTripBegins,
         selectCancel, selectClosed, selectCtxDone, selectTimeout, selectWriteErr, sendReqch,
         sendWritech, userCancels, netVars, pcVars
<1>2. ASSUME 
              \/ writeLoopTakes \/ writeLoopQuits \/ waitForContinue \/ reportWriteErr
              \/ readLoopPeek \/ readLoopExpects \/ readLoopTakes \/ readResponseFails \/ sendErr
              \/ sendResponse \/ bodyRead \/ bodyAbandoned \/ replaceCanceler \/ wroteRequest
              \/ sendEofc
      PROVE  UNCHANGED <<holder, pooled, wire, srv, sent, srvClosed>>
  BY <1>2 DEF bodyAbandoned, bodyRead, readLoopExpects, readLoopPeek, readLoopTakes,
         readResponseFails, replaceCanceler, reportWriteErr, sendEofc, sendErr, sendResponse,
         waitForContinue, writeLoopQuits, writeLoopTakes, wroteRequest, netVars, pcVars
<1>3. ASSUME UNCHANGED <<holder, pooled, wire, srv, sent, srvClosed>> PROVE Talk'
  BY <1>3 DEF Inv, Shapes, NetShape, Holding, Bytes, Talk, Drained, Unsent
<1>4. ASSUME NEW r \in Reqs, getConn(r) PROVE Talk'
  BY <1>4 DEF Inv, Shapes, NetShape, Holding, Bytes, Talk, Drained, Unsent, getConn, At, netVars
<1>5. ASSUME NEW r \in Reqs, roundTripCanceled(r) PROVE Talk'
  <2>1. holder = r /\ r \notin sent
    BY <1>5 DEF Inv, Holding, Bytes, Unsent, roundTripCanceled
  <2>2. UNCHANGED <<holder, wire, srv, sent, srvClosed>>
    BY <1>5 DEF roundTripCanceled, netVars
  <2>3. \A i \in DOMAIN wire : wire[i].kind = "408"
    BY <2>1 DEF Inv, Talk
  <2>4. \A q \in Reqs : IF q \in sent THEN srv[q] = "end" ELSE srv[q] = "none"
    BY <2>1 DEF Inv, Talk
  <2>. QED  BY <2>2, <2>3, <2>4 DEF Inv, Talk, Drained
<1>6. ASSUME NEW r \in Reqs, bodyStep(r) PROVE Talk'
  <2>1. UNCHANGED <<holder, pooled, srv, sent, srvClosed>>
    BY <1>6 DEF bodyStep, pcVars
  <2>2. (wire # <<>> /\ wire' = Tail(wire)) \/ wire' = wire
    BY <1>6, BodyStepped, Zenon
  <2>3. CASE wire' = wire
    BY <2>1, <2>3 DEF Inv, Talk, Drained
  <2>. QED  BY <2>1, <2>2, <2>3, TalkPopped, Zenon
<1>7. ASSUME NEW r \in Reqs, serverAnswers(r) PROVE Talk'
  BY <1>7, Answered, TalkSaid, Zenon
<1>8. ASSUME readContinue PROVE Talk'
  BY <1>8, TalkPopped DEF readContinue, pcVars
<1>9. ASSUME readResponse PROVE Talk'
  BY <1>9, TalkPopped DEF readResponse
<1>10. ASSUME readLoopPuts PROVE Talk'
  <2>1. UNCHANGED <<holder, wire, srv, sent, srvClosed, rt>>
    BY <1>10 DEF readLoopPuts, netVars
  <2>. QED  BY <1>10, <2>1, PutBack DEF Inv, Talk, Drained, Onward, SameResponse, HadBody
<1>11. ASSUME readLoopExits PROVE Talk'
  BY <1>11 DEF Inv, Shapes, NetShape, Holding, Bytes, Talk, Drained, Unsent, readLoopExits, netVars
<1>12. ASSUME closeIdle PROVE Talk'
  BY <1>12 DEF Inv, Shapes, NetShape, Holding, Bytes, Talk, Drained, Unsent, closeIdle, netVars
<1>13. ASSUME serverCloses PROVE Talk'
  <2>1. UNCHANGED <<holder, pooled, srv, sent>> /\ ~srvClosed /\ srvClosed' = TRUE
    BY <1>13 DEF serverCloses, pcVars
  <2>2. CASE UNCHANGED wire
    BY <2>1, <2>2 DEF Inv, Talk, Drained
  <2>3. CASE wire' = Append(wire, [kind |-> "408", req |-> NoReq])
    <3>1. [kind |-> "408", req |-> NoReq] \in Msg
      BY DEF Msg
    <3>2. \A i \in DOMAIN wire' : \/ i \in DOMAIN wire /\ wire'[i] = wire[i]
                                  \/ i = Len(wire) + 1 /\ wire'[i].kind = "408" /\ wire'[i].req = NoReq
      BY <2>3, <3>1, Pushed
    <3>3. Len(wire) \in Nat /\ \A i \in DOMAIN wire : i < Len(wire) + 1 /\ i \in Nat
      BY DEF Inv, Shapes, NetShape
    <3>4. (\A i, j \in DOMAIN wire : i < j => \/ wire[i].kind = "100" \/ wire[j].kind = "408"
                                              \/ wire[i].kind = "body" /\ wire[j].kind = "end")'
      BY <3>2, <3>3 DEF Inv, Talk
    <3>5. (\A i \in DOMAIN wire : IF wire[i].kind = "408" THEN srvClosed /\ wire[i].req = NoReq
                                  ELSE wire[i].req = holder /\ holder \in sent)'
      BY <2>1, <3>2 DEF Inv, Talk
    <3>6. (\A i \in DOMAIN wire :
             /\ wire[i].kind \in {"empty", "close", "switch", "end"} => srv[wire[i].req] = "end"
             /\ wire[i].kind = "body" => srv[wire[i].req] \in {"head", "end"}
             /\ wire[i].kind = "100" => srv[wire[i].req] # "none")'
      BY <2>1, <3>2 DEF Inv, Talk
    <3>. QED  BY <2>1, <3>2, <3>4, <3>5, <3>6 DEF Inv, Talk, Drained
  <2>. QED  BY <1>13, <2>2, <2>3, Zenon DEF serverCloses
<1>14. ASSUME writeHead \/ writeFlush \/ writeFails \/ writeBody PROVE Talk'
  <2>1. UNCHANGED <<holder, pooled, wire, srv, srvClosed, rt>>
    BY <1>14 DEF writeHead, writeFlush, writeFails, writeBody
  <2>. QED  BY <1>14, <2>1, Writes DEF Inv, Talk, Drained, Writing
<1>. QED
  BY <1>1, <1>2, <1>3, <1>4, <1>5, <1>6, <1>7, <1>8, <1>9, <1>10, <1>11, <1>12, <1>13, <1>14,
     Zenon
  DEF Next, roundTrip, writeLoop, readLoop, vars, pcVars, chanVars, cancelVars, reqVars, netVars

\* Every step keeps Progress.
LEMMA ProgressStep ==
  ASSUME Inv, [Next]_vars
  PROVE  Progress'
<1>1. ASSUME NEW r \in Reqs,
              \/ getConn(r) \/ roundTripCanceled(r) \/ roundTripBegins(r) \/ sendWritech(r)
              \/ sendReqch(r) \/ selectWriteErr(r) \/ selectClosed(r) \/ selectTimeout(r)
              \/ selectCancel(r) \/ selectCtxDone(r) \/ mapRoundTripError(r) \/ afterFailure(r)
              \/ CancelRequest(r) \/ userCancels(r) \/ bodyReleased(r)
      PROVE  UNCHANGED <<rl, wire, srv, waitForBodyRead>>
  BY <1>1 DEF CancelRequest, afterFailure, bodyReleased, getConn, mapRoundTripError,
     roundTripBegins, roundTripCanceled, selectCancel, selectClosed, selectCtxDone,
     selectTimeout, selectWriteErr, sendReqch, sendWritech, userCancels, chanVars, netVars
<1>2. ASSUME 
              \/ writeLoopTakes \/ writeLoopQuits \/ waitForContinue \/ reportWriteErr
              \/ closeIdle \/ writeHead \/ writeFlush \/ writeFails \/ writeBody
      PROVE  UNCHANGED <<rl, wire, srv, waitForBodyRead>>
  BY <1>2 DEF closeIdle, reportWriteErr, waitForContinue, writeBody, writeFails, writeFlush,
         writeHead, writeLoopQuits, writeLoopTakes, chanVars, netVars
<1>3. ASSUME UNCHANGED <<rl, wire, srv, waitForBodyRead>> PROVE Progress'
  BY <1>3 DEF Inv, Shapes, RlShape, Progress, Drained, HadBody
<1>4. ASSUME NEW r \in Reqs, bodyStep(r) PROVE Progress'
  <2>1. UNCHANGED <<rl, srv>>
    BY <1>4 DEF bodyStep
  <2>2. rl.at \in {"waitBody", "exit", "done"} \/ (wire' = wire /\ ~rl.alive /\ rl.at = "replace")
    BY <1>4, BodyStepped DEF GivenUp
  <2>3. CASE rl.at # "waitBody"
    BY <2>1, <2>2, <2>3 DEF Progress
  <2>4. ASSUME rl.at = "waitBody", wire # <<>>, Head(wire).kind = "end", Head(wire).req = r,
               wire' = Tail(wire)
        PROVE  Progress'
    <3>1. /\ 1 \in DOMAIN wire /\ Head(wire) = wire[1]
          /\ \A i \in DOMAIN wire' : i + 1 \in DOMAIN wire /\ 1 < i + 1 /\ wire'[i] = wire[i + 1]
      BY <2>4, Popped
    <3>2. Drained' /\ srv[r] = "end"
      BY <3>1, <2>4 DEF Inv, Talk, Drained
    <3>3. HadBody
      BY <2>4 DEF Inv, Progress
    <3>4. /\ rl' = rl /\ srv' = srv /\ HadBody' /\ rl.req = r
      BY <1>4, <2>1, <3>3, BodyStepped DEF HadBody
    <3>5. \A i \in DOMAIN wire' : wire'[i].kind \in {"end", "408"}
      BY <3>2 DEF Drained
    <3>. QED  BY <2>4, <3>2, <3>4, <3>5 DEF Progress
  <2>5. ASSUME rl.at = "waitBody", wire' = wire, waitForBodyRead' \in {<<FALSE>>, ToldTwice}
        PROVE  Progress'
    <3>2. ~Head(waitForBodyRead')
      BY <2>5, TellingsRead, Zenon
    <3>. QED  BY <2>1, <2>5, <3>2 DEF Inv, Progress, HadBody
  <2>. QED  BY <1>4, <2>3, <2>4, <2>5, BodyStepped, Zenon
<1>5. ASSUME NEW r \in Reqs, serverAnswers(r) PROVE Progress'
  <2>1. UNCHANGED <<rl, waitForBodyRead>>
    BY <1>5 DEF serverAnswers, chanVars
  <2>2. r = holder /\ r \in sent
    BY <1>5, Answered, Zenon
  <2>3. PICK kind, state : MaySay(r, kind, state) /\ Says(r, kind, state)
    BY <1>5, Answered, Zenon
  <2>4. /\ srv'[r] = state
        /\ \A i \in DOMAIN wire' : (i \in DOMAIN wire /\ wire'[i] = wire[i]) \/ wire'[i].kind = kind
    BY <1>5, <2>3, Answered, TalkSaid, Zenon
  <2>5. CASE ~Serving
    BY <2>1, <2>5 DEF Progress, Serving, HadBody
  <2>6. CASE Serving
    <3>1. rl.req = r
      BY <2>2, <2>6 DEF Inv, Reader
    <3>2. srv[r] # "end"
      BY <2>3 DEF MaySay
    <3>3. ~(rl.at \in {"replace", "wrote", "put"} /\ rl.alive)
      BY <3>1, <3>2 DEF Inv, Progress
    <3>4. ASSUME rl.at = "waitBody" \/ (rl.at = "send" /\ HadBody)
          PROVE  /\ state = "end" /\ \A i \in DOMAIN wire' : wire'[i].kind \in {"end", "408"}
                 /\ ~(rl.at = "waitBody" /\ waitForBodyRead # <<>> /\ Head(waitForBodyRead))
      <4>1. srv[r] = "head" /\ \A i \in DOMAIN wire : wire[i].kind \in {"end", "408"}
        BY <3>1, <3>2, <3>4 DEF Inv, Progress
      <4>2. kind = "end" /\ state = "end"
        BY <2>3, <4>1 DEF MaySay
      <4>3. ~(rl.at = "waitBody" /\ waitForBodyRead # <<>> /\ Head(waitForBodyRead))
        BY <3>1, <3>2, Zenon DEF Inv, Progress
      <4>. QED  BY <2>4, <4>1, <4>2, <4>3
    <3>5. rl.at = "waitBody" => HadBody
      BY Zenon DEF Inv, Progress
    <3>. QED  BY <2>1, <2>4, <3>1, <3>3, <3>4, <3>5 DEF Progress, HadBody
  <2>. QED  BY <2>5, <2>6, Zenon
<1>6. ASSUME readLoopPeek PROVE Progress'
  BY <1>6 DEF Inv, Shapes, RlShape, Progress, Drained, HadBody, readLoopPeek, ReadFails, chanVars,
         netVars
<1>7. ASSUME readLoopExpects PROVE Progress'
  BY <1>7 DEF Inv, Shapes, RlShape, Progress, Drained, HadBody, readLoopExpects, RL, chanVars,
         netVars
<1>8. ASSUME readLoopTakes PROVE Progress'
  BY <1>8 DEF Inv, Shapes, RlShape, Progress, Drained, HadBody, readLoopTakes, netVars
<1>9. ASSUME readContinue PROVE Progress'
  <2>1. rl.at = "read" /\ UNCHANGED rl
    BY <1>9 DEF readContinue
  <2>. QED  BY <2>1 DEF Progress
<1>10. ASSUME readResponse PROVE Progress'
  <2>1. /\ rl.at = "read" /\ wire # <<>> /\ wire' = Tail(wire) /\ UNCHANGED <<srv, waitForBodyRead>>
    BY <1>10 DEF readResponse
  <2>2. /\ 1 \in DOMAIN wire /\ Head(wire) = wire[1]
        /\ \A i \in DOMAIN wire' : i + 1 \in DOMAIN wire /\ 1 < i + 1 /\ wire'[i] = wire[i + 1]
    BY <2>1, Popped
  <2>3. /\ rl'.req = rl.req /\ rl'.resp = wire[1]
        /\ rl'.at = IF wire[1].kind = "body" THEN "send" ELSE "replace"
        /\ rl'.alive = (wire[1].kind \in {"empty", "body"})
    BY <1>10, <2>2 DEF Inv, Shapes, RlShape, readResponse
  <2>4. rl.req = holder
    BY <2>1 DEF Inv, Reader, Serving
  <2>5. wire[1].kind = "empty" => Drained' /\ srv[rl.req] = "end"
    BY <2>2, <2>4 DEF Inv, Talk, Drained
  <2>6. wire[1].kind = "body" =>
          srv[rl.req] \in {"head", "end"} /\ \A i \in DOMAIN wire' : wire'[i].kind \in {"end", "408"}
    BY <2>2, <2>4 DEF Inv, Talk
  <2>. QED  BY <2>1, <2>3, <2>5, <2>6 DEF Progress, HadBody
<1>11. ASSUME readResponseFails PROVE Progress'
  BY <1>11 DEF Inv, Shapes, RlShape, Progress, Drained, HadBody, readResponseFails, ReadFails,
         chanVars, netVars
<1>12. ASSUME sendErr PROVE Progress'
  BY <1>12 DEF Inv, Shapes, RlShape, Progress, Drained, HadBody, sendErr, RL, chanVars, netVars
<1>13. ASSUME sendResponse PROVE Progress'
  <2>1. UNCHANGED <<wire, srv>>
    BY <1>13 DEF sendResponse, netVars
  <2>. QED  BY <1>13, <2>1, ResponseSent DEF Inv, Progress, Drained, HadBody
<1>14. ASSUME bodyRead PROVE Progress'
  BY <1>14 DEF Inv, Shapes, RlShape, Progress, Drained, HadBody, bodyRead, netVars
<1>15. ASSUME bodyAbandoned PROVE Progress'
  BY <1>15 DEF Inv, Shapes, RlShape, Progress, Drained, HadBody, bodyAbandoned, chanVars, netVars
<1>16. ASSUME replaceCanceler PROVE Progress'
  <2>1. UNCHANGED <<wire, srv, waitForBodyRead>>
    BY <1>16 DEF replaceCanceler, chanVars, netVars
  <2>. QED  BY <1>16, <2>1, CancelerReplaced DEF Inv, Progress, Drained, HadBody, Onward,
               SameResponse
<1>17. ASSUME wroteRequest PROVE Progress'
  <2>1. UNCHANGED <<wire, srv, waitForBodyRead>>
    BY <1>17 DEF wroteRequest, netVars
  <2>. QED  BY <1>17, <2>1, WriteLearnt DEF Inv, Progress, Drained, HadBody, Onward, SameResponse
<1>18. ASSUME readLoopPuts PROVE Progress'
  <2>1. UNCHANGED <<wire, srv, waitForBodyRead>>
    BY <1>18 DEF readLoopPuts, chanVars, netVars
  <2>. QED  BY <1>18, <2>1, PutBack DEF Inv, Progress, Drained, HadBody, Onward, SameResponse
<1>19. ASSUME sendEofc PROVE Progress'
  BY <1>19 DEF Inv, Shapes, RlShape, Progress, Drained, HadBody, sendEofc, RL, chanVars, netVars
<1>20. ASSUME readLoopExits PROVE Progress'
  BY <1>20 DEF Inv, Shapes, RlShape, Progress, Drained, HadBody, readLoopExits, RL, chanVars,
     netVars
<1>21. ASSUME serverCloses PROVE Progress'
  <2>1. UNCHANGED <<rl, srv, waitForBodyRead>>
    BY <1>21 DEF serverCloses, chanVars
  <2>2. \A i \in DOMAIN wire' : (i \in DOMAIN wire /\ wire'[i] = wire[i]) \/ wire'[i].kind = "408"
    <3>1. [kind |-> "408", req |-> NoReq] \in Msg
      BY DEF Msg
    <3>. QED  BY <1>21, <3>1, Pushed DEF serverCloses
  <2>. QED  BY <2>1, <2>2 DEF Inv, Progress, Drained, HadBody
<1>. QED
  BY <1>1, <1>2, <1>3, <1>4, <1>5, <1>6, <1>7, <1>8, <1>9, <1>10, <1>11, <1>12, <1>13, <1>14,
     <1>15, <1>16, <1>17, <1>18, <1>19, <1>20, <1>21, Zenon
  DEF Next, roundTrip, writeLoop, readLoop, vars, pcVars, chanVars, cancelVars, reqVars, netVars

\* Every step keeps ConnShape.
LEMMA ConnShapeStep ==
  ASSUME Inv, [Next]_vars
  PROVE  ConnShape'
<1>1. ASSUME NEW r \in Reqs,
              \/ sendWritech(r) \/ sendReqch(r) \/ afterFailure(r) \/ bodyStep(r)
              \/ bodyReleased(r) \/ serverAnswers(r)
      PROVE  UNCHANGED <<closed, canceledErr, expected, nwrite, reused, pooled, holder, reqErrCh,
                        continueCh, canceler, ctxDone, cancelFired>>
  BY <1>1 DEF afterFailure, bodyReleased, bodyStep, sendReqch, sendWritech, serverAnswers,
         cancelVars, chanVars, pcVars
<1>2. ASSUME 
              \/ writeLoopTakes \/ writeLoopQuits \/ readLoopPeek \/ readLoopTakes
              \/ readResponseFails \/ sendErr \/ sendResponse \/ bodyRead \/ wroteRequest
              \/ sendEofc \/ serverCloses
      PROVE  UNCHANGED <<closed, canceledErr, expected, nwrite, reused, pooled, holder, reqErrCh,
                        continueCh, canceler, ctxDone, cancelFired>>
  BY <1>2 DEF bodyRead, readLoopPeek, readLoopTakes, readResponseFails, sendEofc, sendErr,
         sendResponse, serverCloses, writeLoopQuits, writeLoopTakes, wroteRequest, cancelVars,
         chanVars, pcVars
<1>3. ASSUME UNCHANGED <<closed, canceledErr, expected, nwrite, reused, pooled, holder, reqErrCh,
                        continueCh, canceler, ctxDone, cancelFired>> PROVE ConnShape'
  BY <1>3 DEF Inv, Shapes, ConnShape, Errors
<1>4. ASSUME NEW r \in Reqs, getConn(r) PROVE ConnShape'
  BY <1>4 DEF Inv, Shapes, ConnShape, Errors, getConn, At, chanVars
<1>5. ASSUME NEW r \in Reqs, roundTripCanceled(r) PROVE ConnShape'
  BY <1>5 DEF Inv, Shapes, ConnShape, Errors, roundTripCanceled, closeLocked, putAccepted,
         putRefused, chanVars, cancelVars
<1>6. ASSUME NEW r \in Reqs, roundTripBegins(r) PROVE ConnShape'
  BY <1>6 DEF Inv, Shapes, ConnShape, Errors, roundTripBegins, At, cancelVars
<1>7. ASSUME NEW r \in Reqs, selectWriteErr(r) PROVE ConnShape'
  BY <1>7 DEF Inv, Shapes, ConnShape, Errors, selectWriteErr, closeLocked, cancelVars
<1>8. ASSUME NEW r \in Reqs, selectClosed(r) PROVE ConnShape'
  BY <1>8 DEF Inv, Shapes, ConnShape, Errors, selectClosed, pcVars, chanVars
<1>9. ASSUME NEW r \in Reqs, selectTimeout(r) PROVE ConnShape'
  BY <1>9 DEF Inv, Shapes, ConnShape, Errors, selectTimeout, closeLocked, chanVars
<1>10. ASSUME NEW r \in Reqs, selectCancel(r) PROVE ConnShape'
  BY <1>10 DEF Inv, Shapes, ConnShape, Errors, selectCancel, cancelRequest, closeLocked, chanVars
<1>11. ASSUME NEW r \in Reqs, selectCtxDone(r) PROVE ConnShape'
  BY <1>11 DEF Inv, Shapes, ConnShape, Errors, selectCtxDone, cancelRequest, closeLocked, chanVars
<1>12. ASSUME NEW r \in Reqs, mapRoundTripError(r) PROVE ConnShape'
  BY <1>12 DEF Inv, Shapes, ConnShape, Errors, mapRoundTripError, pcVars, chanVars
<1>13. ASSUME NEW r \in Reqs, CancelRequest(r) PROVE ConnShape'
  BY <1>13 DEF Inv, Shapes, ConnShape, Errors, CancelRequest, cancelRequest, closeLocked, chanVars
<1>14. ASSUME NEW r \in Reqs, userCancels(r) PROVE ConnShape'
  BY <1>14 DEF Inv, Shapes, ConnShape, Errors, userCancels, pcVars, chanVars
<1>15. ASSUME waitForContinue PROVE ConnShape'
  BY <1>15 DEF Inv, Shapes, ConnShape, Errors, waitForContinue, WL, pcVars, cancelVars
<1>16. ASSUME reportWriteErr PROVE ConnShape'
  BY <1>16 DEF Inv, Shapes, ConnShape, Errors, reportWriteErr, closeLocked, WL, cancelVars, WlShape
<1>17. ASSUME readLoopExpects PROVE ConnShape'
  BY <1>17 DEF Inv, Shapes, ConnShape, Errors, readLoopExpects, closeLocked, RL, chanVars,
     cancelVars
<1>18. ASSUME readContinue PROVE ConnShape'
  BY <1>18 DEF Inv, Shapes, ConnShape, Errors, readContinue, pcVars, cancelVars
<1>19. ASSUME readResponse PROVE ConnShape'
  <2>1. expected = 1
    BY <1>19 DEF Inv, Counting, Awaited, readResponse
  <2>2. expected' = 0 /\ 0 \in Nat
    BY <1>19, <2>1 DEF readResponse
  <2>3. continueCh' \in [Reqs -> {"nil", "open", "sent", "closed"}]
    BY <1>19 DEF Inv, Shapes, ConnShape, readResponse
  <2>. QED  BY <1>19, <2>2, <2>3 DEF Inv, Shapes, ConnShape, readResponse, cancelVars
<1>20. ASSUME bodyAbandoned PROVE ConnShape'
  BY <1>20 DEF Inv, Shapes, ConnShape, Errors, bodyAbandoned, cancelRequest, closeLocked, chanVars
<1>21. ASSUME replaceCanceler PROVE ConnShape'
  BY <1>21 DEF Inv, Shapes, ConnShape, Errors, replaceCanceler, Recycled, HadBody, pcVars, chanVars
<1>22. ASSUME readLoopPuts PROVE ConnShape'
  BY <1>22 DEF Inv, Shapes, ConnShape, Errors, readLoopPuts, putAccepted, putRefused, Recycled,
         HadBody, chanVars, cancelVars
<1>23. ASSUME readLoopExits PROVE ConnShape'
  BY <1>23 DEF Inv, Shapes, ConnShape, Errors, readLoopExits, closeLocked, RL, chanVars, cancelVars,
         RlShape
<1>24. ASSUME closeIdle PROVE ConnShape'
  BY <1>24 DEF Inv, Shapes, ConnShape, Errors, closeIdle, closeLocked, chanVars, cancelVars
<1>25. ASSUME writeHead \/ writeFlush \/ writeFails \/ writeBody PROVE ConnShape'
  BY <1>25 DEF Inv, Shapes, ConnShape, Errors, writeHead, WL, flushed, chanVars, cancelVars,
         writeFlush, wrote, writeFails, WriteFails, writeBody
<1>. QED
  BY <1>1, <1>2, <1>3, <1>4, <1>5, <1>6, <1>7, <1>8, <1>9, <1>10, <1>11, <1>12, <1>13, <1>14,
     <1>15, <1>16, <1>17, <1>18, <1>19, <1>20, <1>21, <1>22, <1>23, <1>24, <1>25, Zenon
  DEF Next, roundTrip, writeLoop, readLoop, vars, pcVars, chanVars, cancelVars, reqVars, netVars

\* Every step keeps RtShape.
LEMMA RtShapeStep ==
  ASSUME Inv, [Next]_vars
  PROVE  RtShape'
<1>1. ASSUME NEW r \in Reqs,
              \/ CancelRequest(r) \/ userCancels(r) \/ bodyStep(r) \/ bodyReleased(r)
              \/ serverAnswers(r)
      PROVE  UNCHANGED <<rt>>
  BY <1>1 DEF CancelRequest, bodyReleased, bodyStep, serverAnswers, userCancels
<1>2. ASSUME 
              \/ writeLoopTakes \/ writeLoopQuits \/ waitForContinue \/ reportWriteErr
              \/ readLoopPeek \/ readLoopExpects \/ readLoopTakes \/ readContinue \/ readResponse
              \/ readResponseFails \/ bodyRead \/ bodyAbandoned \/ replaceCanceler \/ wroteRequest
              \/ readLoopPuts \/ sendEofc \/ readLoopExits \/ closeIdle \/ serverCloses
              \/ writeHead \/ writeFlush \/ writeFails \/ writeBody
      PROVE  UNCHANGED <<rt>>
  BY <1>2 DEF bodyAbandoned, bodyRead, closeIdle, readContinue, readLoopExits, readLoopExpects,
         readLoopPeek, readLoopPuts, readLoopTakes, readResponse, readResponseFails,
         replaceCanceler, reportWriteErr, sendEofc, serverCloses, waitForContinue, writeBody,
         writeFails, writeFlush, writeHead, writeLoopQuits, writeLoopTakes, wroteRequest
<1>3. ASSUME UNCHANGED <<rt>> PROVE RtShape'
  BY <1>3 DEF Inv, Shapes, RtShape, RtState, InFlight
<1>4. ASSUME NEW r \in Reqs, getConn(r) PROVE RtShape'
  BY <1>4 DEF Inv, Shapes, RtShape, RtState, InFlight, getConn, At
<1>5. ASSUME NEW r \in Reqs, roundTripCanceled(r) PROVE RtShape'
  <2>1. "failed" \in InFlight /\ "canceled" \in Errors
    BY DEF InFlight, Errors
  <2>. QED  BY <1>5, <2>1, RtErred DEF Inv, Shapes, roundTripCanceled
<1>6. ASSUME NEW r \in Reqs, roundTripBegins(r) PROVE RtShape'
  BY <1>6 DEF Inv, Shapes, RtShape, RtState, InFlight, roundTripBegins, At
<1>7. ASSUME NEW r \in Reqs, sendWritech(r) PROVE RtShape'
  <2>1. "reqch" \in InFlight /\ nwrite \in Nat
    BY DEF Inv, Shapes, ConnShape, InFlight
  <2>2. rt' = [rt EXCEPT ![r] = [rt[r] EXCEPT !.at = "reqch", !.startBytesWritten = nwrite]]
    BY <1>7 DEF Inv, Shapes, RtShape, sendWritech
  <2>3. [rt[r] EXCEPT !.at = "reqch", !.startBytesWritten = nwrite] \in RtState
    BY <2>1 DEF Inv, Shapes, RtShape, RtState
  <2>. QED  BY <2>2, <2>3, RtUpdated DEF Inv, Shapes
<1>8. ASSUME NEW r \in Reqs, sendReqch(r) PROVE RtShape'
  BY <1>8 DEF Inv, Shapes, RtShape, RtState, InFlight, sendReqch, At, pcVars
<1>9. ASSUME NEW r \in Reqs, selectWriteErr(r) PROVE RtShape'
  <2>1. CASE rt' = [rt EXCEPT ![r].timer = HeaderTimeout]
    BY <2>1, ConnAssumption DEF Inv, Shapes, RtShape, RtState
  <2>2. CASE /\ reqErrCh[r] # "empty"
             /\ rt' = [rt EXCEPT ![r].at = "map", ![r].err = reqErrCh[r]]
    <3>1. "map" \in InFlight /\ reqErrCh[r] \in Errors
      BY <2>2 DEF Inv, Shapes, ConnShape, InFlight
    <3>. QED  BY <2>2, <3>1, RtErred DEF Inv, Shapes
  <2>. QED  BY <1>9, <2>1, <2>2, Zenon DEF selectWriteErr
<1>10. ASSUME NEW r \in Reqs, selectClosed(r) PROVE RtShape'
  <2>1. CASE rt' = [rt EXCEPT ![r].pcClosed = FALSE]
    BY <2>1, ZenonT(60) DEF Inv, Shapes, RtShape, RtState
  <2>2. CASE rt' = [rt EXCEPT ![r].at = "map", ![r].err = closed, ![r].pcClosed = FALSE]
    <3>1. rt' = [rt EXCEPT ![r] = [rt[r] EXCEPT !.at = "map", !.err = closed, !.pcClosed = FALSE]]
      BY <2>2 DEF Inv, Shapes, RtShape
    <3>2. [rt[r] EXCEPT !.at = "map", !.err = closed, !.pcClosed = FALSE] \in RtState
      <4>1. "map" \in InFlight /\ closed \in Errors
        BY DEF Inv, Shapes, ConnShape, InFlight
      <4>. QED  BY <4>1 DEF Inv, Shapes, RtShape, RtState
    <3>. QED  BY <3>1, <3>2, RtUpdated DEF Inv, Shapes
  <2>. QED  BY <1>10, <2>1, <2>2, Zenon DEF selectClosed
<1>11. ASSUME NEW r \in Reqs, selectTimeout(r) PROVE RtShape'
  <2>1. "failed" \in InFlight /\ "timeout" \in Errors
    BY DEF InFlight, Errors
  <2>. QED  BY <1>11, <2>1, RtErred DEF Inv, Shapes, selectTimeout
<1>12. ASSUME NEW r \in Reqs, selectCancel(r) PROVE RtShape'
  BY <1>12 DEF Inv, Shapes, RtShape, RtState, InFlight, selectCancel, cancelRequest, closeLocked
<1>13. ASSUME NEW r \in Reqs, selectCtxDone(r) PROVE RtShape'
  BY <1>13 DEF Inv, Shapes, RtShape, RtState, InFlight, selectCtxDone, cancelRequest, closeLocked
<1>14. ASSUME NEW r \in Reqs, mapRoundTripError(r) PROVE RtShape'
  <2>1. mapped(r) \in Errors
    BY DEF Inv, Shapes, RtShape, RtState, mapped, Errors
  <2>2. "failed" \in InFlight
    BY DEF InFlight
  <2>. QED  BY <1>14, <2>1, <2>2, RtErred DEF Inv, Shapes, mapRoundTripError
<1>15. ASSUME NEW r \in Reqs, afterFailure(r) PROVE RtShape'
  BY <1>15 DEF Inv, Shapes, RtShape, RtState, InFlight, afterFailure, At, pcVars
<1>16. ASSUME sendErr PROVE RtShape'
  BY <1>16 DEF Inv, Shapes, RtShape, RtState, InFlight, sendErr, Gone, pcVars, RlShape, Reader,
     Errors
<1>17. ASSUME sendResponse PROVE RtShape'
  BY <1>17 DEF Inv, Shapes, RtShape, RtState, InFlight, sendResponse, Gone, pcVars, RlShape, Msg,
         Reader
<1>. QED
  BY <1>1, <1>2, <1>3, <1>4, <1>5, <1>6, <1>7, <1>8, <1>9, <1>10, <1>11, <1>12, <1>13, <1>14,
     <1>15, <1>16, <1>17, Zenon
  DEF Next, roundTrip, writeLoop, readLoop, vars, pcVars, chanVars, cancelVars, reqVars, netVars

\* Every step keeps RlShape.
LEMMA RlShapeStep ==
  ASSUME Inv, [Next]_vars
  PROVE  RlShape'
<1>1. ASSUME NEW r \in Reqs,
              \/ getConn(r) \/ roundTripCanceled(r) \/ roundTripBegins(r) \/ sendWritech(r)
              \/ sendReqch(r) \/ selectWriteErr(r) \/ selectClosed(r) \/ selectTimeout(r)
              \/ selectCancel(r) \/ selectCtxDone(r) \/ mapRoundTripError(r) \/ afterFailure(r)
              \/ CancelRequest(r) \/ userCancels(r) \/ bodyStep(r) \/ bodyReleased(r)
              \/ serverAnswers(r)
      PROVE  UNCHANGED <<rl>>
  BY <1>1 DEF CancelRequest, afterFailure, bodyReleased, bodyStep, getConn, mapRoundTripError,
         roundTripBegins, roundTripCanceled, selectCancel, selectClosed, selectCtxDone,
         selectTimeout, selectWriteErr, sendReqch, sendWritech, serverAnswers, userCancels
<1>2. ASSUME 
              \/ writeLoopTakes \/ writeLoopQuits \/ waitForContinue \/ reportWriteErr
              \/ readContinue \/ closeIdle \/ serverCloses \/ writeHead \/ writeFlush
              \/ writeFails \/ writeBody
      PROVE  UNCHANGED <<rl>>
  BY <1>2 DEF closeIdle, readContinue, reportWriteErr, serverCloses, waitForContinue, writeBody,
         writeFails, writeFlush, writeHead, writeLoopQuits, writeLoopTakes
<1>3. ASSUME UNCHANGED <<rl>> PROVE RlShape'
  BY <1>3 DEF Inv, Shapes, RlShape
<1>4. ASSUME readLoopPeek PROVE RlShape'
  BY <1>4 DEF Inv, Shapes, RlShape, readLoopPeek, ReadFails, chanVars, netVars
<1>5. ASSUME readLoopExpects PROVE RlShape'
  BY <1>5 DEF Inv, Shapes, RlShape, readLoopExpects, RL, chanVars, netVars
<1>6. ASSUME readLoopTakes PROVE RlShape'
  <2>1. reqch = <<holder>> /\ holder \in Reqs
    BY <1>6 DEF Inv, Reader, readLoopTakes
  <2>2. Head(reqch) \in Reqs
    BY <2>1
  <2>. QED  BY <1>6, <2>2 DEF Inv, Shapes, RlShape, readLoopTakes
<1>7. ASSUME readResponse PROVE RlShape'
  <2>1. Head(wire) \in Msg
    BY <1>7, Popped DEF readResponse
  <2>2. (Head(wire).kind \in {"empty", "body"}) \in BOOLEAN
    OBVIOUS
  <2>. QED  BY <1>7, <2>1, <2>2 DEF Inv, Shapes, RlShape, readResponse
<1>8. ASSUME readResponseFails PROVE RlShape'
  BY <1>8 DEF Inv, Shapes, RlShape, readResponseFails, ReadFails, chanVars, netVars
<1>9. ASSUME sendErr PROVE RlShape'
  BY <1>9 DEF Inv, Shapes, RlShape, sendErr, RL, chanVars, netVars
<1>10. ASSUME sendResponse PROVE RlShape'
  BY <1>10 DEF Inv, Shapes, RlShape, sendResponse, RL, HadBody, netVars
<1>11. ASSUME bodyRead PROVE RlShape'
  <2>1. Head(waitForBodyRead) \in BOOLEAN
    BY <1>11, TellingsRead DEF Inv, Bodies, Told, bodyRead
  <2>. QED  BY <1>11, <2>1 DEF Inv, Shapes, RlShape, bodyRead
<1>12. ASSUME bodyAbandoned PROVE RlShape'
  BY <1>12 DEF Inv, Shapes, RlShape, bodyAbandoned, chanVars, netVars
<1>13. ASSUME replaceCanceler PROVE RlShape'
  <2>1. (rl.req \in canceler) \in BOOLEAN
    OBVIOUS
  <2>2. CASE rl' = [rl EXCEPT !.at = "wrote", !.replaced = rl.req \in canceler]
    BY <2>1, <2>2 DEF Inv, Shapes, RlShape
  <2>3. CASE Recycled(FALSE)
    BY <2>3 DEF Inv, Shapes, RlShape, Recycled
  <2>. QED  BY <1>13, <2>2, <2>3, Zenon DEF replaceCanceler
<1>14. ASSUME wroteRequest PROVE RlShape'
  BY <1>14, ZenonT(60) DEF Inv, Shapes, RlShape, wroteRequest, RL, Recycled, HadBody, netVars
<1>15. ASSUME readLoopPuts PROVE RlShape'
  BY <1>15 DEF Inv, Shapes, RlShape, readLoopPuts, Recycled, HadBody, chanVars, netVars
<1>16. ASSUME sendEofc PROVE RlShape'
  BY <1>16 DEF Inv, Shapes, RlShape, sendEofc, RL, chanVars, netVars
<1>17. ASSUME readLoopExits PROVE RlShape'
  BY <1>17 DEF Inv, Shapes, RlShape, readLoopExits, RL, chanVars, netVars
<1>. QED
  BY <1>1, <1>2, <1>3, <1>4, <1>5, <1>6, <1>7, <1>8, <1>9, <1>10, <1>11, <1>12, <1>13, <1>14,
     <1>15, <1>16, <1>17, Zenon
  DEF Next, roundTrip, writeLoop, readLoop, vars, pcVars, chanVars, cancelVars, reqVars, netVars

\* Every step keeps WlShape.
LEMMA WlShapeStep ==
  ASSUME Inv, [Next]_vars
  PROVE  WlShape'
<1>1. ASSUME NEW r \in Reqs,
              \/ getConn(r) \/ roundTripCanceled(r) \/ roundTripBegins(r) \/ sendWritech(r)
              \/ sendReqch(r) \/ selectWriteErr(r) \/ selectClosed(r) \/ selectTimeout(r)
              \/ selectCancel(r) \/ selectCtxDone(r) \/ mapRoundTripError(r) \/ afterFailure(r)
              \/ CancelRequest(r) \/ userCancels(r) \/ bodyStep(r) \/ bodyReleased(r)
              \/ serverAnswers(r)
      PROVE  UNCHANGED <<wl>>
  BY <1>1 DEF CancelRequest, afterFailure, bodyReleased, bodyStep, getConn, mapRoundTripError,
         roundTripBegins, roundTripCanceled, selectCancel, selectClosed, selectCtxDone,
         selectTimeout, selectWriteErr, sendReqch, sendWritech, serverAnswers, userCancels
<1>2. ASSUME 
              \/ readLoopPeek \/ readLoopExpects \/ readLoopTakes \/ readContinue \/ readResponse
              \/ readResponseFails \/ sendErr \/ sendResponse \/ bodyRead \/ bodyAbandoned
              \/ replaceCanceler \/ wroteRequest \/ readLoopPuts \/ sendEofc \/ readLoopExits
              \/ closeIdle \/ serverCloses
      PROVE  UNCHANGED <<wl>>
  BY <1>2 DEF bodyAbandoned, bodyRead, closeIdle, readContinue, readLoopExits, readLoopExpects,
         readLoopPeek, readLoopPuts, readLoopTakes, readResponse, readResponseFails,
         replaceCanceler, sendEofc, sendErr, sendResponse, serverCloses, wroteRequest
<1>3. ASSUME UNCHANGED <<wl>> PROVE WlShape'
  BY <1>3 DEF Inv, Shapes, WlShape, Errors
<1>4. ASSUME writeLoopTakes PROVE WlShape'
  BY <1>4 DEF Inv, Shapes, WlShape, Errors, writeLoopTakes, pcVars, Writer, ConnShape
<1>5. ASSUME writeLoopQuits PROVE WlShape'
  BY <1>5 DEF Inv, Shapes, WlShape, Errors, writeLoopQuits, WL, pcVars
<1>6. ASSUME waitForContinue PROVE WlShape'
  BY <1>6 DEF Inv, Shapes, WlShape, Errors, waitForContinue, WL, pcVars
<1>7. ASSUME reportWriteErr PROVE WlShape'
  BY <1>7 DEF Inv, Shapes, WlShape, Errors, reportWriteErr, WL
<1>8. ASSUME writeHead \/ writeFlush \/ writeFails \/ writeBody PROVE WlShape'
  BY <1>8, ZenonT(60) DEF Inv, Shapes, WlShape, Errors, writeHead, WL, flushed, writeFlush,
     wrote, writeFails, WriteFails, writeBody, ConnShape
<1>. QED
  BY <1>1, <1>2, <1>3, <1>4, <1>5, <1>6, <1>7, <1>8, Zenon
  DEF Next, roundTrip, writeLoop, readLoop, vars, pcVars, chanVars, cancelVars, reqVars, netVars

\* Every step keeps NetShape.
LEMMA NetShapeStep ==
  ASSUME Inv, [Next]_vars
  PROVE  NetShape'
<1>1. ASSUME NEW r \in Reqs,
              \/ getConn(r) \/ roundTripCanceled(r) \/ roundTripBegins(r) \/ sendWritech(r)
              \/ sendReqch(r) \/ selectWriteErr(r) \/ selectClosed(r) \/ selectTimeout(r)
              \/ selectCancel(r) \/ selectCtxDone(r) \/ mapRoundTripError(r) \/ CancelRequest(r)
              \/ userCancels(r)
      PROVE  UNCHANGED <<body, reqErr, bodyClosed, bodyUsed, full, sent, srvClosed, wire, srv>>
  BY <1>1 DEF CancelRequest, getConn, mapRoundTripError, roundTripBegins, roundTripCanceled,
         selectCancel, selectClosed, selectCtxDone, selectTimeout, selectWriteErr, sendReqch,
         sendWritech, userCancels, netVars, reqVars
<1>2. ASSUME 
              \/ writeLoopTakes \/ writeLoopQuits \/ reportWriteErr \/ readLoopPeek
              \/ readLoopExpects \/ readLoopTakes \/ readResponseFails \/ sendErr \/ bodyRead
              \/ bodyAbandoned \/ replaceCanceler \/ wroteRequest \/ readLoopPuts \/ readLoopExits
              \/ closeIdle
      PROVE  UNCHANGED <<body, reqErr, bodyClosed, bodyUsed, full, sent, srvClosed, wire, srv>>
  BY <1>2 DEF bodyAbandoned, bodyRead, closeIdle, readLoopExits, readLoopExpects, readLoopPeek,
         readLoopPuts, readLoopTakes, readResponseFails, replaceCanceler, reportWriteErr,
         sendErr, writeLoopQuits, writeLoopTakes, wroteRequest, netVars, reqVars
<1>3. ASSUME UNCHANGED <<body, reqErr, bodyClosed, bodyUsed, full, sent, srvClosed, wire, srv>> PROVE NetShape'
  BY <1>3 DEF Inv, Shapes, NetShape
<1>4. ASSUME NEW r \in Reqs, afterFailure(r) PROVE NetShape'
  BY <1>4 DEF Inv, Shapes, NetShape, afterFailure, netVars
<1>5. ASSUME NEW r \in Reqs, bodyStep(r) PROVE NetShape'
  BY <1>5, Popped DEF Inv, Shapes, NetShape, bodyStep, ReadFails, reqVars
<1>6. ASSUME NEW r \in Reqs, bodyReleased(r) PROVE NetShape'
  BY <1>6 DEF Inv, Shapes, NetShape, bodyReleased, reqVars, netVars
<1>7. ASSUME NEW r \in Reqs, serverAnswers(r) PROVE NetShape'
  <2>1. PICK kind, state : MaySay(r, kind, state) /\ Says(r, kind, state)
    BY <1>7, Answered, Zenon
  <2>2. [kind |-> kind, req |-> r] \in Msg /\ state \in {"100", "head", "end"}
    BY <2>1 DEF MaySay, Msg
  <2>3. wire' \in Seq(Msg)
    BY <2>1, <2>2, Pushed DEF Says
  <2>4. srv' \in [Reqs -> {"none", "100", "head", "end"}]
    BY <2>1, <2>2 DEF Inv, Shapes, NetShape, Says
  <2>. QED  BY <1>7, <2>3, <2>4 DEF Inv, Shapes, NetShape, serverAnswers, reqVars
<1>8. ASSUME waitForContinue PROVE NetShape'
  BY <1>8, ConnAssumption DEF Inv, Shapes, NetShape, waitForContinue, WL, netVars, Writer
<1>9. ASSUME readContinue PROVE NetShape'
  BY <1>9, Popped DEF Inv, Shapes, NetShape, readContinue, reqVars
<1>10. ASSUME readResponse PROVE NetShape'
  BY <1>10, Popped DEF Inv, Shapes, NetShape, readResponse, reqVars
<1>11. ASSUME sendResponse PROVE NetShape'
  BY <1>11 DEF Inv, Shapes, NetShape, sendResponse, RL, HadBody, reqVars, netVars, Reader
<1>12. ASSUME sendEofc PROVE NetShape'
  BY <1>12 DEF Inv, Shapes, NetShape, sendEofc, RL, reqVars, netVars, Reader
<1>13. ASSUME serverCloses PROVE NetShape'
  <2>1. [kind |-> "408", req |-> NoReq] \in Msg
    BY DEF Msg
  <2>2. wire' \in Seq(Msg)
    BY <1>13, <2>1, Pushed DEF serverCloses, Inv, Shapes, NetShape
  <2>. QED  BY <1>13, <2>2 DEF Inv, Shapes, NetShape, serverCloses, reqVars
<1>14. ASSUME writeHead \/ writeFlush \/ writeFails \/ writeBody PROVE NetShape'
  BY <1>14, ConnAssumption DEF Inv, Shapes, NetShape, writeHead, WL, flushed, reqVars,
     writeFlush, wrote, writeFails, WriteFails, writeBody, Writer, Writing
<1>. QED
  BY <1>1, <1>2, <1>3, <1>4, <1>5, <1>6, <1>7, <1>8, <1>9, <1>10, <1>11, <1>12, <1>13, <1>14,
     Zenon
  DEF Next, roundTrip, writeLoop, readLoop, vars, pcVars, chanVars, cancelVars, reqVars, netVars

----------------------------------------------------------------------------
(* The invariant and what follows from it.                                 *)

\* A new conn satisfies the invariant.
LEMMA InvInit ==
  ASSUME Init
  PROVE  Inv
<1>1. ConnShape
  BY ConnAssumption DEF Init, ConnShape, Errors
<1>2. RtShape
  BY ConnAssumption DEF Init, RtShape, RtState, Errors, InFlight
<1>3. RlShape /\ WlShape
  BY DEF Init, RlShape, WlShape, Errors
<1>4. NetShape
  <2>1. <<>> \in Seq(Msg)
    OBVIOUS
  <2>. QED  BY <2>1 DEF Init, NetShape
<1>5. Holding /\ Reader /\ Counting
  BY ConnAssumption DEF Init, Holding, CancelHitsOwnConn, Reader, Serving, HadBody, Unsent,
     Counting, Awaited, Arrived
<1>6. Writer /\ Whole
  BY ConnAssumption DEF Init, Writer, Before, Handed, Serving, HadBody, Writing, Unsent, Whole
<1>7. Bytes /\ Quiet /\ BodyClosedOnError
  BY ConnAssumption DEF Init, Bytes, RetrySafe, Unsent, Quiet, WriterQuiet, Gone, BodyClosedOnError
<1>8. Answering /\ Owned
  BY ConnAssumption DEF Init, Answering, Gone, RightResponse, Owned
<1>9. Talk /\ Progress
  <2>1. wire = <<>> /\ DOMAIN wire = {}
    BY DEF Init
  <2>2. Drained
    BY <2>1 DEF Drained
  <2>3. sent = {} /\ \A q \in Reqs : srv[q] = "none"
    BY DEF Init
  <2>4. rl.at = "peek"
    BY DEF Init
  <2>. QED  BY <2>1, <2>2, <2>3, <2>4 DEF Talk, Progress
<1>10. Bodies
  <2>1. waitForBodyRead \in Told
    BY Zenon DEF Init, Told
  <2>2. \A q \in Reqs : body[q] = "none"
    BY DEF Init
  <2>. QED  BY <2>1, <2>2 DEF Bodies, Reading
<1>. QED  BY <1>1, <1>2, <1>3, <1>4, <1>5, <1>6, <1>7, <1>8, <1>9, <1>10 DEF Inv, Shapes

\* A channel of capacity n.
LEMMA ChannelBounded ==
  ASSUME NEW S, NEW n \in Nat, NEW s \in Seq(S), Len(s) <= n
  PROVE  s \in BoundedSeq(S, n)
<1>1. Len(s) \in 0 .. n /\ s \in [1 .. Len(s) -> S]
  OBVIOUS
<1>. QED  BY <1>1 DEF BoundedSeq, SeqOf

\* ... and one of capacity 1.
LEMMA ChannelOfOne ==
  ASSUME NEW S
  PROVE  /\ <<>> \in BoundedSeq(S, 1)
         /\ \A x \in S : <<x>> \in BoundedSeq(S, 1)
<1>1. <<>> \in Seq(S) /\ Len(<<>>) <= 1
  OBVIOUS
<1>2. \A x \in S : <<x>> \in Seq(S) /\ Len(<<x>>) <= 1
  OBVIOUS
<1>. QED  BY <1>1, <1>2, ChannelBounded

\* The types follow from the invariant.
LEMMA InvTypes ==
  ASSUME Inv
  PROVE  TypeOK
<1>1. writech \in BoundedSeq(Reqs, 1)
  BY ChannelOfOne DEF Inv, Writer
<1>2. reqch \in BoundedSeq(Reqs, 1)
  BY ChannelOfOne DEF Inv, Reader
<1>3. writeErrCh \in BoundedSeq(Errors, 1)
  <2>1. wl.err \in Errors
    BY DEF Inv, Shapes, WlShape
  <2>. QED  BY <2>1, ChannelOfOne DEF Inv, Writer
<1>4. waitForBodyRead \in BoundedSeq(BOOLEAN, 2)
  <2>1. \A w \in Told : w \in Seq(BOOLEAN) /\ Len(w) <= 2
    BY TellingsRead, Zenon
  <2>2. waitForBodyRead \in Told
    BY Zenon DEF Inv, Bodies
  <2>. QED  BY <2>1, <2>2, 2 \in Nat, ChannelBounded, Zenon
<1>5. \A r \in Reqs : /\ rt[r].at \in InFlight \cup {"new", "response", "error", "retry"}
                      /\ rt[r].err \in Errors /\ rt[r].got \in Reqs \cup {NoReq}
                      /\ rt[r].startBytesWritten \in 0 .. nwrite
  BY DEF Inv, Shapes, ConnShape, RtShape, RtState, Bytes
<1>6. {"other", "readFromServer", "owned"} \subseteq Errors
  BY DEF Errors
<1>. QED  BY <1>1, <1>2, <1>3, <1>4, <1>5, <1>6 DEF Inv, Shapes, ConnShape, RlShape, WlShape,
             NetShape, TypeOK

\* So does that a conn in the pool is clean.
LEMMA InvClean ==
  ASSUME Inv
  PROVE  CleanWhenPooled
<1>. SUFFICES ASSUME pooled, closed = "nil"
              PROVE  /\ expected = 0 /\ writech = <<>> /\ reqch = <<>> /\ writeErrCh = <<>>
                     /\ wl.at = "select" \/ (wl.at = "reqErrCh" /\ wl.err = "nil")
                     /\ \A i \in DOMAIN wire : wire[i].kind = "408"
                     /\ \A r \in Reqs : body[r] \in {"none", "eof", "done"}
  BY DEF CleanWhenPooled
<1>1. expected = 0 /\ reqch = <<>>
  BY DEF Inv, Counting, Arrived, Reader
<1>2. /\ writech = <<>> /\ writeErrCh = <<>>
      /\ wl.at = "select" \/ (wl.at = "reqErrCh" /\ wl.err = "nil")
  BY DEF Inv, Writer, Before
<1>3. \A i \in DOMAIN wire : wire[i].kind = "408"
  BY Zenon DEF Inv, Talk, Drained
<1>4. \A r \in Reqs : body[r] \in {"none", "eof", "done"}
  <2>1. \A r \in Reqs : body[r] \notin {"open", "failed", "close"}
    BY DEF Inv, Bodies, Reading
  <2>. QED  BY <2>1 DEF Inv, Shapes, NetShape
<1>. QED  BY <1>1, <1>2, <1>3, <1>4

\* Every reachable state satisfies the invariant.
THEOREM Invariance == Spec => []Inv
<1>1. Init => Inv
  BY InvInit
<1>2. Inv /\ [Next]_vars => Inv'
  <2>. SUFFICES ASSUME Inv, [Next]_vars PROVE Inv'
    OBVIOUS
  <2>1. Shapes'
    BY ConnShapeStep, RtShapeStep, RlShapeStep, WlShapeStep, NetShapeStep, Zenon DEF Shapes
  <2>2. Holding' /\ Writer' /\ Bytes' /\ Quiet' /\ BodyClosedOnError' /\ Whole'
    BY HoldingStep, WriterStep, BytesStep, QuietStep, BodyClosedOnErrorStep, WholeStep, Zenon
  <2>3. Reader' /\ Counting' /\ Answering' /\ Talk' /\ Progress' /\ Bodies' /\ Owned'
    BY ReaderStep, CountingStep, AnsweringStep, TalkStep, ProgressStep, BodiesStep, OwnedStep, Zenon
  <2>. QED  BY <2>1, <2>2, <2>3, Zenon DEF Inv
<1>. QED  BY <1>1, <1>2, PTL DEF Spec

\* Each response goes to the request it answers, and a conn that readLoop has
\* put back into the pool is as good as new: whatever the order in which
\* roundTrip, readLoop, writeLoop, the reader of the body, the server and
\* cancellation take their steps, and for any number of requests on the conn.
THEOREM ResponsesDelivered == Spec => []ResponsesMatch
<1>1. Inv => ResponsesMatch
  <2>1. Inv => RightResponse
    BY Zenon DEF Inv, Answering
  <2>. QED  BY <2>1, InvTypes, InvClean, Zenon DEF ResponsesMatch
<1>. QED  BY <1>1, Invariance, PTL

\* roundTrip retries a request of which bytes have left (pc.nwrite has moved
\* since startBytesWritten) only if it is replayable.
THEOREM RetriesAreSafe == Spec => []RetrySafe
<1>1. Inv => RetrySafe
  BY Zenon DEF Inv, Bytes
<1>. QED  BY <1>1, Invariance, PTL

\* RoundTrip never returns an error with the request's body left open, whether
\* writeLoop, roundTrip or the retry's rewindBody was to close it.
THEOREM ErrorsCloseBodies == Spec => []BodyClosedOnError
<1>1. Inv => BodyClosedOnError
  BY Zenon DEF Inv
<1>. QED  BY <1>1, Invariance, PTL

\* The entry in t.reqCanceler leaves before the conn changes hands, and a conn
\* that is left open after a 101 is the caller's.
THEOREM HandOver == Spec => []ConnHandedOver
<1>1. Inv => ConnHandedOver
  BY Zenon DEF Inv, Holding, Owned, ConnHandedOver, OwnedIsDelivered
<1>. QED  BY <1>1, Invariance, PTL

\* mapRoundTripError waits for writeLoop: a request that has failed is no
\* longer being written.
THEOREM FailedIsNotWritten == Spec => []WriterQuiet
<1>1. Inv => WriterQuiet
  BY Zenon DEF Inv, Quiet
<1>. QED  BY <1>1, Invariance, PTL

\* Without Expect: 100-continue a conn in the pool carries no unfinished
\* request: readLoop puts it back only after wroteRequest has seen the write
\* succeed.
THEOREM WholeBeforeReuse ==
  ASSUME Expects = {}
  PROVE  Spec => []SentWhole
<1>1. Inv => SentWhole
  BY DEF Inv, Shapes, NetShape, Whole, SentWhole
<1>. QED  BY <1>1, Invariance, PTL
=============================================================================
