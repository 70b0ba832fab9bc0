---------------------------- MODULE H2ServerConn ----------------------------
(***************************************************************************)
(* One HTTP/2 server connection: the serve loop (http2serverConn.serve),   *)
(* which owns all state, the frames the client sends, the goroutine that   *)
(* writes a frame that does not fit the buffer, and the handlers, which    *)
(* talk to the loop through channels.                                      *)
(*                                                                         *)
(* The serve loop takes one event at a time.  What an event calls is the   *)
(* sequence todo, the call stack of the loop: each step runs the call at   *)
(* its head and puts in front of the rest the calls that one makes, so     *)
(* that nested calls (a stream closed while a frame is being scheduled)    *)
(* run in the order of the code.  Handlers and timers share with the loop  *)
(* only channels and the body pipes; their steps commute with the calls of *)
(* one event and happen between events.                                    *)
(*                                                                         *)
(* The write scheduler is what H2WriteQueue promises of it, control frames *)
(* first.  Byte counts are small numbers; an error code is "No" or "err".  *)
(***************************************************************************)
EXTENDS Integers, Sequences, FiniteSets, SequencesExt

CONSTANTS
  ClientIds,        \* odd stream identifiers the client uses
  PushIds,          \* even identifiers left for pushed streams
  Scenarios,        \* [script, may, slow]: the frames a client sends, what handlers,
                    \* timers and configuration may do, and a bound on the frames
                    \* (GOAWAY and flushes aside) that are written asynchronously
  AdvMaxStreams,    \* SETTINGS_MAX_CONCURRENT_STREAMS we advertise
  ClientMaxStreams, \* the same setting of the client: limit on pushes
  MaxQueuedControlFrames,
  StreamSendWindow, ConnSendWindow,   \* what the client grants us at first
  StreamRecvWindow, ConnRecvWindow,   \* what we grant the client
  MinRefresh,       \* inflowMinRefresh
  ChunkSize,        \* bytes a handler writes
  MaxUnstarted,     \* 4 * advMaxStreams in the code
  MaxWindow         \* 2^31 - 1 in the code

Ids == ClientIds \cup PushIds
NoFrame == [kind |-> "none"]
Live == {"open", "halfClosedLocal", "halfClosedRemote"}

ASSUME IdsAssumption ==
  /\ ClientIds \cup PushIds \subseteq Nat \ {0} /\ ClientIds \cap PushIds = {}
  /\ IsFiniteSet(ClientIds \cup PushIds)

ASSUME LimitsAssumption == AdvMaxStreams \in Nat

\* The framer refuses frames of a stream that name none.
ASSUME ScenarioAssumption ==
  \A s \in Scenarios :
    /\ s.script \in Seq(ToSet(s.script))
    /\ \A f \in ToSet(s.script) :
         /\ f.id \in Ids \cup {0}
         /\ f.kind \in {"headers", "data", "rst", "priority"} => f.id \in Ids

VARIABLES
  sc,       \* the fields of http2serverConn owned by the serve loop
  st,       \* stream -> the fields of http2stream
  q,        \* the write scheduler: stream -> frames, 0 for control frames
  writing,  \* the frame being written, NoFrame when writingFrame is false
  todo,     \* calls the serve loop has yet to run for this event
  want,     \* wantWriteFrameCh
  msgs,     \* serveMsgCh
  h,        \* stream -> its handler goroutine
  may,      \* this connection's "may"
  left,     \* frames the client has still to send
  slow,     \* asynchronous writes left
  wire,     \* stream -> what we have sent on it
  fault     \* an assertion of the serve loop has failed

vars == <<sc, st, q, writing, todo, want, msgs, h, may, left, slow, wire, fault>>

newStream(win) ==
  [state |-> "idle", body |-> FALSE, buf |-> 0, closed |-> FALSE, broken |-> FALSE,
   decl |-> -1, bytes |-> 0, timer |-> TRUE, flow |-> win, avail |-> StreamRecvWindow, unsent |-> 0,
   resetQueued |-> FALSE, gotTrailer |-> FALSE, wroteHeaders |-> FALSE, cw |-> FALSE]

\* A handler goroutine and its responseWriter: position, frames of the
\* current Write still to send, bytes read and not yet reported, the done
\* channel it waits on (a number; each write has its own) and whether that
\* channel has the reply.
newHandler ==
  [pc |-> "none", out |-> <<>>, fin |-> FALSE, sentHeader |-> FALSE, wrote |-> FALSE,
   read |-> 0, ch |-> 0, reply |-> FALSE, pushed |-> FALSE, expect |-> FALSE]

Init ==
  /\ sc = [sawFrame |-> FALSE, sawSettings |-> FALSE, unacked |-> 1, qctl |-> 0, curClient |-> 0, curPushed |-> 0,
           curHandlers |-> 0, maxClient |-> 0, maxPush |-> 0, unstarted |-> <<>>,
           initWin |-> StreamSendWindow, flow |-> ConnSendWindow, avail |-> ConnRecvWindow,
           unsent |-> 0, pushEnabled |-> TRUE, needAck |-> FALSE, inGoAway |-> FALSE,
           needGoAway |-> FALSE, code |-> "No", async |-> FALSE, inLoop |-> FALSE,
           needFlush |-> FALSE, timer |-> FALSE, shutdownOnce |-> FALSE, idleFired |-> FALSE, done |-> FALSE]
  /\ st = [i \in Ids |-> newStream(StreamSendWindow)]
  /\ q = [i \in Ids \cup {0} |-> <<>>]
  /\ writing = NoFrame /\ todo = <<>> /\ want = <<>> /\ msgs = <<>>
  /\ h = [i \in Ids |-> newHandler]
  /\ \E s \in Scenarios :
       /\ left = s.script /\ may = s.may /\ slow = s.slow
  /\ wire = [i \in Ids |-> "none"]
  /\ fault = FALSE

------------------------------------------------------------------------------
(* The call stack *)

call(op) == [op |-> op]
callOn(op, i) == [op |-> op, id |-> i]
callWith(op, wr) == [op |-> op, wr |-> wr]
callWindow(i, n) == [op |-> "sendWindowUpdate", id |-> i, n |-> n]
callGoAway(code) == [op |-> "goAway", code |-> code]

At(op) == todo # <<>> /\ Head(todo).op = op
Now == Head(todo)
Then(calls) == todo' = calls \o Tail(todo)
Idle == todo = <<>> /\ ~sc.done /\ ~fault
Fail == fault' = TRUE /\ todo' = <<>>

\* FrameWriteRequest: frames without a stream are control frames.
frame(kind, i) == [kind |-> kind, id |-> i, n |-> 0, end |-> FALSE, done |-> 0]
resetStream(i) == <<callWith("writeFrame", frame("rst", i)), callOn("noteReset", i)>>
isControl(wr) == wr.kind = "rst" \/ wr.id = 0

\* sc.state: a lower identifier the client skipped is closed.
stateOf(i) ==
  IF st[i].state # "idle" THEN st[i].state
  ELSE IF i <= IF i \in ClientIds THEN sc.maxClient ELSE sc.maxPush
       THEN "closed" ELSE "idle"
open(i) == st[i].state \in Live
openStreams == {i \in Ids : open(i)}

------------------------------------------------------------------------------
(* Writing frames *)

\* scheduleFrameWrite does nothing while a frame is being written, nor inside
\* its own loop.
mayLoop == writing = NoFrame /\ ~sc.inLoop
tickle == IF mayLoop THEN <<call("scheduleLoop")>> ELSE <<>>

\* writeFrame: frames on a closed stream are dropped, RST_STREAM excepted, and
\* so is a 100 Continue after the headers.
writeFrame ==
  /\ At("writeFrame")
  /\ LET wr == Now.wr
         ignored == \/ wr.id # 0 /\ stateOf(wr.id) = "closed" /\ wr.kind # "rst"
                    \/ wr.kind = "continue" /\ st[wr.id].wroteHeaders
         to == IF isControl(wr) THEN 0 ELSE wr.id
     IN /\ st' = IF wr.kind = "headers" THEN [st EXCEPT ![wr.id].wroteHeaders = TRUE] ELSE st
        /\ q' = IF ignored THEN q ELSE [q EXCEPT ![to] = Append(@, wr)]
        /\ sc' = [sc EXCEPT !.qctl = IF ignored \/ to # 0 THEN @ ELSE @ + 1,
                            !.inLoop = @ \/ mayLoop]
  /\ Then(tickle)
  /\ UNCHANGED <<writing, want, msgs, h, may, left, slow, wire, fault>>

scheduleFrameWrite ==
  /\ At("scheduleFrameWrite")
  /\ sc' = [sc EXCEPT !.inLoop = @ \/ mayLoop]
  /\ Then(tickle)
  /\ UNCHANGED <<st, q, writing, want, msgs, h, may, left, slow, wire, fault>>

\* Consume: DATA goes out as the windows allow, split if need be.
least(a, b) == IF a <= b THEN a ELSE b
allowed(i) == least(st[i].flow, sc.flow)
sendable(i) == q[i] # <<>> /\ (Head(q[i]).n > 0 => allowed(i) > 0)
mayPop == (~sc.inGoAway \/ sc.code = "No") /\ \E i \in DOMAIN q : sendable(i)

Pop(i) ==
  LET f == Head(q[i])
      k == IF f.n = 0 THEN 0 ELSE least(f.n, allowed(i))
      part == [f EXCEPT !.n = k, !.end = @ /\ k = f.n, !.done = IF k = f.n THEN @ ELSE 0]
  IN /\ sendable(i) /\ (i # 0 => q[0] = <<>>)
     /\ q' = [q EXCEPT ![i] = IF k = f.n THEN Tail(@) ELSE [@ EXCEPT ![1].n = f.n - k]]
     /\ st' = IF k = 0 THEN st ELSE [st EXCEPT ![i].flow = @ - k]
     /\ sc' = [sc EXCEPT !.flow = @ - k, !.qctl = IF i = 0 THEN @ - 1 ELSE @]
     /\ Then(<<callWith("startFrameWrite", part), call("scheduleLoop")>>)

\* One turn of the loop of scheduleFrameWrite.
scheduleLoop ==
  /\ At("scheduleLoop")
  /\ \/ /\ sc.async
        /\ sc' = [sc EXCEPT !.inLoop = FALSE] /\ Then(<<>>) /\ UNCHANGED <<st, q>>
     \/ /\ ~sc.async /\ sc.needGoAway
        /\ sc' = [sc EXCEPT !.needGoAway = FALSE]
        /\ Then(<<callWith("startFrameWrite", frame("goaway", 0)), call("scheduleLoop")>>)
        /\ UNCHANGED <<st, q>>
     \/ /\ ~sc.async /\ ~sc.needGoAway /\ sc.needAck
        /\ sc' = [sc EXCEPT !.needAck = FALSE]
        /\ Then(<<callWith("startFrameWrite", frame("settingsAck", 0)), call("scheduleLoop")>>)
        /\ UNCHANGED <<st, q>>
     \/ /\ ~sc.async /\ ~sc.needGoAway /\ ~sc.needAck /\ mayPop
        /\ \E i \in DOMAIN q : Pop(i)
     \/ /\ ~sc.async /\ ~sc.needGoAway /\ ~sc.needAck /\ ~mayPop /\ sc.needFlush
        /\ Then(<<callWith("startFrameWrite", frame("flush", 0)), call("scheduleLoop")>>)
        /\ UNCHANGED <<sc, st, q>>
     \/ /\ ~sc.async /\ ~sc.needGoAway /\ ~sc.needAck /\ ~mayPop /\ ~sc.needFlush
        /\ sc' = [sc EXCEPT !.inLoop = FALSE] /\ Then(<<>>) /\ UNCHANGED <<st, q>>
  /\ UNCHANGED <<writing, want, msgs, h, may, left, slow, wire, fault>>

\* startFrameWrite: the two assertions on the stream's state, then the frame
\* is written here if it stays within the buffer, else by writeFrameAsync.
MutantIllegalNow(wr) == ~isControl(wr) /\ st[wr.id].state = "idle"
illegalNow(wr) ==
  /\ ~isControl(wr)
  /\ \/ st[wr.id].state = "closed"
     \/ st[wr.id].state = "halfClosedLocal" /\ wr.kind \notin {"panicRST", "windowUpdate"}

writesSlowly(async) ==
  /\ async => slow > 0
  /\ slow' = IF async THEN slow - 1 ELSE slow

startFrameWrite ==
  /\ At("startFrameWrite") /\ Now.wr.kind # "push"
  /\ LET wr == Now.wr
     IN IF illegalNow(wr) THEN Fail /\ UNCHANGED <<sc, writing, slow>>
        ELSE /\ writing' = wr
             /\ \E async \in BOOLEAN :
                  /\ IF wr.kind \in {"flush", "goaway"} THEN async /\ UNCHANGED slow
                     ELSE writesSlowly(async)
                  /\ sc' = [sc EXCEPT !.async = async, !.needFlush = wr.kind # "flush"]
                  /\ Then(IF async THEN <<>> ELSE <<call("wroteFrame")>>)
             /\ UNCHANGED fault
  /\ UNCHANGED <<st, q, want, msgs, h, may, left, wire>>

MutantReplied(wr) ==
  IF wr.done # 0 /\ h[wr.id].ch = wr.done /\ wr.kind = "data" THEN [h EXCEPT ![wr.id].reply = TRUE] ELSE h
\* replyToWriter: the handler may have stopped waiting on this channel.
replied(wr) ==
  IF wr.done # 0 /\ h[wr.id].ch = wr.done THEN [h EXCEPT ![wr.id].reply = TRUE] ELSE h

\* allocatePromisedID runs when PUSH_PROMISE is written: the promised stream
\* and its handler start here, whatever the limit on handlers.
startPushPromise ==
  /\ At("startFrameWrite") /\ Now.wr.kind = "push"
  /\ LET wr == Now.wr
         i == sc.maxPush + 2
         refused == ~sc.pushEnabled \/ sc.curPushed + 1 > ClientMaxStreams
     IN IF illegalNow(wr) THEN Fail /\ UNCHANGED <<sc, st, h, writing, slow>>
        ELSE IF refused \/ i \notin PushIds
        THEN /\ h' = replied(wr)
             /\ Then(IF refused THEN <<>> ELSE <<callGoAway("No")>>)
             /\ UNCHANGED <<sc, st, fault, writing, slow>>
        ELSE /\ st' = [st EXCEPT ![i] = [newStream(sc.initWin) EXCEPT !.state = "halfClosedRemote"]]
             /\ h' = [h EXCEPT ![i] = [newHandler EXCEPT !.pc = "run"]]
             /\ \E async \in BOOLEAN :
                  /\ writesSlowly(async)
                  /\ sc' = [sc EXCEPT !.maxPush = i, !.curPushed = @ + 1, !.curHandlers = @ + 1,
                                      !.async = async, !.needFlush = TRUE]
                  /\ Then(IF async THEN <<>> ELSE <<call("wroteFrame")>>)
             /\ writing' = wr
             /\ UNCHANGED fault
  /\ UNCHANGED <<q, want, msgs, may, left, wire>>

\* What the peer has seen of a stream: response frames out of place are
\* "illegal".
sentOn(wr) ==
  IF \/ wr.kind \in {"headers", "data", "push", "continue"} /\ wire[wr.id] \in {"ended", "reset"}
     \/ wr.kind = "data" /\ wire[wr.id] # "headers"
  THEN "illegal"
  ELSE IF wr.kind \in {"rst", "panicRST"} THEN "reset"
  ELSE IF wr.end THEN "ended"
  ELSE IF wr.kind = "headers" THEN "headers" ELSE wire[wr.id]

\* wroteFrame: END_STREAM on an open stream asks the client to stop with an
\* RST_STREAM; on a half-closed one it closes it.  The writer is told last.
wroteFrame ==
  /\ At("wroteFrame")
  /\ LET wr == writing
         onStream == wr.id # 0
         closes == \/ onStream /\ wr.end /\ st[wr.id].state = "halfClosedRemote"
                   \/ wr.kind = "rst" /\ open(wr.id)
                   \/ wr.kind = "panicRST"
         hangsUp == onStream /\ wr.end /\ st[wr.id].state = "open"
     IN /\ st' = IF hangsUp THEN [st EXCEPT ![wr.id].state = "halfClosedLocal"] ELSE st
        /\ wire' = IF onStream THEN [wire EXCEPT ![wr.id] = sentOn(wr)] ELSE wire
        /\ Then((IF hangsUp THEN resetStream(wr.id)
                 ELSE IF closes THEN <<callOn("closeStream", wr.id)>> ELSE <<>>)
                \o <<callWith("reply", wr)>>)
  /\ sc' = [sc EXCEPT !.async = FALSE]
  /\ writing' = NoFrame
  /\ UNCHANGED <<q, want, msgs, h, may, left, slow, fault>>

replyToWriter ==
  /\ At("reply")
  /\ h' = replied(Now.wr)
  /\ sc' = [sc EXCEPT !.inLoop = @ \/ mayLoop]
  /\ Then(tickle)
  /\ UNCHANGED <<st, q, writing, want, msgs, may, left, slow, wire, fault>>

------------------------------------------------------------------------------
(* Streams, windows and GOAWAY *)

noteReset ==
  /\ At("noteReset")
  /\ st' = IF open(Now.id) THEN [st EXCEPT ![Now.id].resetQueued = TRUE] ELSE st
  /\ Then(<<>>)
  /\ UNCHANGED <<sc, q, writing, want, msgs, h, may, left, slow, wire, fault>>

\* One stream less, pushed or not.
MutantUncounted(i) == [sc EXCEPT !.curClient = @ - 1]
uncounted(i) ==
  IF i \in PushIds THEN [sc EXCEPT !.curPushed = @ - 1] ELSE [sc EXCEPT !.curClient = @ - 1]

\* closeStream up to the return of the unread bytes to the connection's
\* window, which may write frames; the rest is closeStream2.
closeStream ==
  /\ At("closeStream")
  /\ LET i == Now.id
         last == openStreams = {i}
     IN IF ~open(i) THEN Fail /\ UNCHANGED <<sc, st>>
        ELSE /\ st' = [st EXCEPT ![i].state = "closed"]
             /\ sc' = uncounted(i)
             /\ Then((IF last /\ "noKeepAlives" \in may THEN <<callGoAway("No")>> ELSE <<>>)
                     \o (IF st[i].body THEN <<callWindow(0, st[i].buf)>> ELSE <<>>)
                     \o <<callOn("closeStream2", i)>>)
             /\ UNCHANGED fault
  /\ UNCHANGED <<q, writing, want, msgs, h, may, left, slow, wire>>

closeStream2 ==
  /\ At("closeStream2")
  /\ st' = [st EXCEPT ![Now.id].closed = TRUE, ![Now.id].cw = TRUE]
  /\ q' = [q EXCEPT ![Now.id] = <<>>]
  /\ Then(<<>>)
  /\ UNCHANGED <<sc, writing, want, msgs, h, may, left, slow, wire, fault>>

MutantRefresh(avail, unsent, n) ==
  LET u == unsent + n
  IN IF u < MinRefresh /\ u < avail THEN [avail |-> avail, unsent |-> unsent, send |-> 0]
     ELSE [avail |-> avail + u, unsent |-> 0, send |-> u]
\* sendWindowUpdate and inflow.add: small updates wait for bigger ones.
refresh(avail, unsent, n) ==
  LET u == unsent + n
  IN IF u < MinRefresh /\ u < avail THEN [avail |-> avail, unsent |-> u, send |-> 0]
     ELSE [avail |-> avail + u, unsent |-> 0, send |-> u]

sendWindowUpdate ==
  /\ At("sendWindowUpdate")
  /\ LET i == Now.id
         r == IF i = 0 THEN refresh(sc.avail, sc.unsent, Now.n)
                       ELSE refresh(st[i].avail, st[i].unsent, Now.n)
     IN /\ IF i = 0 THEN sc' = [sc EXCEPT !.avail = r.avail, !.unsent = r.unsent] /\ UNCHANGED st
           ELSE st' = [st EXCEPT ![i].avail = r.avail, ![i].unsent = r.unsent] /\ UNCHANGED sc
        /\ Then(IF r.send = 0 THEN <<>> ELSE <<callWith("writeFrame", frame("windowUpdate", i))>>)
  /\ UNCHANGED <<q, writing, want, msgs, h, may, left, slow, wire, fault>>

\* goAway: a second, more serious code replaces the graceful one and is not
\* sent.
goAway ==
  /\ At("goAway")
  /\ IF sc.inGoAway
     THEN /\ sc' = [sc EXCEPT !.code = IF @ = "No" THEN Now.code ELSE @]
          /\ Then(<<>>)
     ELSE /\ sc' = [sc EXCEPT !.inGoAway = TRUE, !.needGoAway = TRUE, !.code = Now.code]
          /\ Then(<<call("scheduleFrameWrite")>>)
  /\ UNCHANGED <<st, q, writing, want, msgs, h, may, left, slow, wire, fault>>

\* GOAWAY has been written, and an error or the last stream leaves nothing to
\* wait for.
sentGoAway == sc.inGoAway /\ ~sc.needGoAway /\ writing = NoFrame
MutantMayClose == sentGoAway /\ openStreams = {}
mayClose == sentGoAway /\ (sc.code # "No" \/ openStreams = {})

\* The end of an iteration of serve: too many control frames, or the timer
\* that closes the connection some time after GOAWAY.
endOfEvent ==
  /\ At("endOfEvent")
  /\ LET flood == sc.qctl > MaxQueuedControlFrames
     IN /\ sc' = [sc EXCEPT !.timer = @ \/ (~flood /\ mayClose)]
        /\ Then(IF flood THEN <<call("stop")>> ELSE <<>>)
  /\ UNCHANGED <<st, q, writing, want, msgs, h, may, left, slow, wire, fault>>

\* serve returns: its deferred calls unblock the handlers and close streams.
stop ==
  /\ At("stop")
  /\ sc' = [sc EXCEPT !.done = TRUE]
  /\ todo' \in SetToSeqs({callOn("closeStream", i) : i \in openStreams})
  /\ UNCHANGED <<st, q, writing, want, msgs, h, may, left, slow, wire, fault>>

------------------------------------------------------------------------------
(* Frames from the client: At("process") with the frame in Now.f *)

callFrame(f) == [op |-> "process", f |-> f]
\* processFrameFromReader: what an error does.
streamError(i) == resetStream(i)
ConnError(f) ==
  /\ sc' = [sc EXCEPT !.maxClient = IF f.id > @ THEN f.id ELSE @]
  /\ Then(<<callGoAway("err")>>)

\* readFrames and the case of serve that takes its frame: a frame whose
\* asynchronous write has ended is looked at first, if it is there.
readFrame ==
  /\ Idle /\ left # <<>>
  /\ left' = Tail(left)
  /\ \E first \in BOOLEAN :
       /\ first => sc.async
       /\ todo' = (IF first THEN <<call("wroteFrame")>> ELSE <<>>)
                  \o <<callFrame(Head(left)), call("endOfEvent")>>
  /\ sc' = [sc EXCEPT !.sawFrame = TRUE]
  /\ UNCHANGED <<st, q, writing, want, msgs, h, may, slow, wire, fault>>

\* The connection ends, or a frame is too large.
processReadError ==
  /\ At("process") /\ Now.f.kind \in {"eof", "tooLarge"}
  /\ IF Now.f.kind = "eof" THEN todo' = <<call("stop")>> ELSE Then(<<callGoAway("err")>>)
  /\ UNCHANGED <<sc, st, q, writing, want, msgs, h, may, left, slow, wire, fault>>

Processing == At("process") /\ Now.f.kind \notin {"eof", "tooLarge"}
notFirst(f) == ~sc.sawSettings /\ f.kind # "settings"
discarded(f) == sc.inGoAway /\ (sc.code # "No" \/ f.id > sc.maxClient)

\* The first two rules of processFrame: SETTINGS come first, and after GOAWAY
\* frames on later streams count for the connection's window only.
processDiscard ==
  /\ Processing /\ (notFirst(Now.f) \/ discarded(Now.f))
  /\ LET f == Now.f
     IN IF notFirst(f) THEN ConnError(f)
        ELSE IF f.kind = "data" /\ f.n > sc.avail
        THEN Then(streamError(f.id)) /\ sc' = sc
        ELSE IF f.kind = "data"
        THEN sc' = [sc EXCEPT !.avail = @ - f.n] /\ Then(<<callWindow(0, f.n)>>)
        ELSE sc' = [sc EXCEPT !.sawSettings = TRUE] /\ Then(<<>>)
  /\ UNCHANGED <<st, q, writing, want, msgs, h, may, left, slow, wire, fault>>

Handle(kind) ==
  Processing /\ Now.f.kind = kind /\ ~notFirst(Now.f) /\ ~discarded(Now.f)

\* processSettings; flow.add fails beyond MaxWindow, leaving the streams that
\* come later in the map as they were.
processSettings ==
  /\ Handle("settings")
  /\ LET f == Now.f
         saw == [sc EXCEPT !.sawSettings = TRUE]
         grow == f.win - sc.initWin
         over == {i \in openStreams : st[i].flow + grow > MaxWindow}
     IN IF f.ack
        THEN /\ sc' = [saw EXCEPT !.unacked = @ - 1]
             /\ Then(IF sc.unacked = 0 THEN <<callGoAway("err")>> ELSE <<>>)
             /\ UNCHANGED st
        ELSE /\ sc' = [saw EXCEPT !.initWin = f.win, !.pushEnabled = f.push,
                                  !.needAck = @ \/ over = {}]
             /\ \E done \in SUBSET (openStreams \ over) :
                  /\ over = {} => done = openStreams
                  /\ st' = [i \in Ids |-> IF i \in done THEN [st[i] EXCEPT !.flow = @ + grow]
                                          ELSE st[i]]
             /\ Then(IF over = {} THEN <<call("scheduleFrameWrite")>> ELSE <<callGoAway("err")>>)
  /\ UNCHANGED <<q, writing, want, msgs, h, may, left, slow, wire, fault>>

processPing ==
  /\ Handle("ping")
  /\ Then(<<callWith("writeFrame", frame("pingAck", 0))>>)
  /\ UNCHANGED <<sc, st, q, writing, want, msgs, h, may, left, slow, wire, fault>>

processWindowUpdate ==
  /\ Handle("windowUpdate")
  /\ LET f == Now.f
     IN \/ /\ f.id # 0 /\ stateOf(f.id) = "idle"
           /\ ConnError(f) /\ UNCHANGED st
        \/ /\ f.id # 0 /\ stateOf(f.id) # "idle" /\ ~open(f.id)
           /\ Then(<<>>) /\ UNCHANGED <<sc, st>>
        \/ /\ f.id # 0 /\ open(f.id)
           /\ IF st[f.id].flow + f.n > MaxWindow THEN Then(streamError(f.id)) /\ UNCHANGED st
              ELSE st' = [st EXCEPT ![f.id].flow = @ + f.n] /\ Then(<<call("scheduleFrameWrite")>>)
           /\ UNCHANGED sc
        \/ /\ f.id = 0
           /\ IF sc.flow + f.n > MaxWindow THEN Then(<<callGoAway("err")>>) /\ UNCHANGED sc
              ELSE sc' = [sc EXCEPT !.flow = @ + f.n] /\ Then(<<call("scheduleFrameWrite")>>)
           /\ UNCHANGED st
  /\ UNCHANGED <<q, writing, want, msgs, h, may, left, slow, wire, fault>>

processResetStream ==
  /\ Handle("rst")
  /\ LET i == Now.f.id
     IN IF stateOf(i) = "idle" THEN ConnError(Now.f)
        ELSE Then(IF open(i) THEN <<callOn("closeStream", i)>> ELSE <<>>) /\ UNCHANGED sc
  /\ UNCHANGED <<st, q, writing, want, msgs, h, may, left, slow, wire, fault>>

\* processPriority for a stream that depends on itself; other PRIORITY frames
\* only reorder the queues.
processPriority ==
  /\ Handle("priority")
  /\ Then(streamError(Now.f.id))
  /\ UNCHANGED <<sc, st, q, writing, want, msgs, h, may, left, slow, wire, fault>>

processGoAway ==
  /\ Handle("goaway")
  /\ sc' = [sc EXCEPT !.pushEnabled = FALSE]
  /\ Then(<<callGoAway("No")>>)
  /\ UNCHANGED <<st, q, writing, want, msgs, h, may, left, slow, wire, fault>>

processPushPromise ==
  /\ Handle("pushPromise")
  /\ ConnError(Now.f)
  /\ UNCHANGED <<st, q, writing, want, msgs, h, may, left, slow, wire, fault>>

\* processData, padding left out (f.n is the length and the data).  Bytes that
\* no handler will read go back to the connection's window at once.
processData ==
  /\ Handle("data")
  /\ LET f == Now.f
         i == f.id
         s == st[i]
         takes(n) == sc' = [sc EXCEPT !.avail = @ - n]
         unwanted == ~open(i) \/ s.state # "open" \/ s.gotTrailer \/ s.resetQueued
         tooMuch == s.decl # -1 /\ s.bytes + f.n > s.decl
         ended == IF f.end THEN [s EXCEPT !.closed = TRUE, !.state = "halfClosedRemote"] ELSE s
     IN \/ /\ stateOf(i) = "idle" \/ (~unwanted /\ ~s.body)
           /\ IF stateOf(i) = "idle" THEN ConnError(f) /\ UNCHANGED <<st, fault>>
              ELSE Fail /\ UNCHANGED <<sc, st>>
        \/ /\ stateOf(i) # "idle" /\ (unwanted \/ tooMuch) /\ f.n > sc.avail
           /\ Then(streamError(i)) /\ UNCHANGED <<sc, st, fault>>
        \/ /\ stateOf(i) # "idle" /\ unwanted /\ f.n <= sc.avail
           /\ takes(f.n)
           /\ Then(<<callWindow(0, f.n)>>
                   \o (IF open(i) /\ s.resetQueued THEN <<>> ELSE streamError(i)))
           /\ UNCHANGED <<st, fault>>
        \/ /\ ~unwanted /\ s.body /\ tooMuch /\ f.n <= sc.avail
           /\ takes(f.n)
           /\ st' = [st EXCEPT ![i].closed = TRUE]
           /\ Then(<<callWindow(0, f.n)>> \o streamError(i))
           /\ UNCHANGED fault
        \/ /\ ~unwanted /\ s.body /\ ~tooMuch /\ f.n = 0
           /\ st' = [st EXCEPT ![i] = ended]
           /\ Then(<<>>) /\ UNCHANGED <<sc, fault>>
        \/ /\ ~unwanted /\ s.body /\ ~tooMuch /\ f.n > 0 /\ (f.n > sc.avail \/ f.n > s.avail)
           /\ Then(streamError(i)) /\ UNCHANGED <<sc, st, fault>>
        \/ /\ ~unwanted /\ s.body /\ ~tooMuch /\ f.n \in 1..sc.avail /\ f.n <= s.avail
           /\ takes(f.n)
           /\ LET took == [ended EXCEPT !.avail = @ - f.n, !.bytes = @ + f.n]
              IN IF s.closed \/ s.broken
                 THEN /\ st' = [st EXCEPT ![i] = [took EXCEPT !.state = s.state, !.closed = s.closed]]
                      /\ Then(<<callWindow(0, f.n)>>)
                 ELSE /\ st' = [st EXCEPT ![i] = [took EXCEPT !.buf = @ + f.n]]
                      /\ Then(<<callWindow(0, 0), callWindow(i, 0)>>)
           /\ UNCHANGED fault
  /\ UNCHANGED <<q, writing, want, msgs, h, may, left, slow, wire>>

\* processTrailerHeaders: HEADERS on a stream that is open.
processTrailers ==
  /\ Handle("headers") /\ open(Now.f.id)
  /\ LET f == Now.f
         i == f.id
         s == st[i]
     IN \/ /\ s.resetQueued
           /\ Then(<<>>) /\ UNCHANGED <<sc, st>>
        \/ /\ ~s.resetQueued /\ s.state = "halfClosedRemote"
           /\ Then(streamError(i)) /\ UNCHANGED <<sc, st>>
        \/ /\ ~s.resetQueued /\ s.state # "halfClosedRemote"
           /\ LET ended == f.end /\ f.good
              IN IF s.gotTrailer THEN ConnError(f) /\ UNCHANGED st
                 ELSE /\ st' = [st EXCEPT ![i].gotTrailer = TRUE, ![i].closed = @ \/ ended,
                                          ![i].state = IF ended THEN "halfClosedRemote" ELSE @]
                      /\ Then(IF ended THEN <<>> ELSE streamError(i))
                      /\ UNCHANGED sc
  /\ UNCHANGED <<q, writing, want, msgs, h, may, left, slow, wire, fault>>

\* scheduleHandler: at most AdvMaxStreams handlers run; a client that resets
\* many requests before their handlers start is sent away.
scheduleHandler(i, sc1, handler) ==
  \/ /\ sc.curHandlers < AdvMaxStreams
     /\ sc' = [sc1 EXCEPT !.curHandlers = @ + 1]
     /\ h' = [h EXCEPT ![i] = [handler EXCEPT !.pc = "run"]]
     /\ Then(<<>>)
  \/ /\ sc.curHandlers >= AdvMaxStreams /\ Len(sc.unstarted) > MaxUnstarted
     /\ sc' = sc1 /\ Then(<<callGoAway("err")>>) /\ UNCHANGED h
  \/ /\ sc.curHandlers >= AdvMaxStreams /\ Len(sc.unstarted) <= MaxUnstarted
     /\ sc' = [sc1 EXCEPT !.unstarted = Append(@, i)]
     /\ h' = [h EXCEPT ![i] = handler]
     /\ Then(<<>>)

\* newWriterAndRequest for the stream just made; a request that is malformed
\* has no handler and no body.
opened(f) ==
  [newStream(sc.initWin) EXCEPT
    !.state = IF f.end THEN "halfClosedRemote" ELSE "open",
    !.body = f.good /\ ~f.end, !.decl = f.decl]

processHeaders ==
  /\ Handle("headers") /\ ~open(Now.f.id)
  /\ LET f == Now.f
         i == f.id
         sc1 == [sc EXCEPT !.maxClient = i]
         sc2 == [sc1 EXCEPT !.curClient = @ + 1]
         handler == [newHandler EXCEPT !.expect = f.expect]
     IN \/ /\ i \in PushIds \/ i <= sc.maxClient
           /\ ConnError(f) /\ UNCHANGED <<st, h>>
        \/ /\ i \in ClientIds /\ i > sc.maxClient /\ sc.curClient + 1 > AdvMaxStreams
           /\ sc' = sc1 /\ Then(streamError(i)) /\ UNCHANGED <<st, h>>
        \/ /\ i \in ClientIds /\ i > sc.maxClient /\ sc.curClient + 1 <= AdvMaxStreams
           /\ st' = [st EXCEPT ![i] = opened(f)]
           /\ IF f.good THEN scheduleHandler(i, sc2, handler)
              ELSE sc' = sc2 /\ Then(streamError(i)) /\ UNCHANGED h
  /\ UNCHANGED <<q, writing, want, msgs, may, left, slow, wire, fault>>

------------------------------------------------------------------------------
(* The other events of serve *)

\* A frame whose write ended in writeFrameAsync.
wroteFrameAsync ==
  /\ Idle /\ sc.async
  /\ todo' = <<call("wroteFrame"), call("endOfEvent")>>
  /\ UNCHANGED <<sc, st, q, writing, want, msgs, h, may, left, slow, wire, fault>>

\* wantWriteFrameCh: a handler's frame, or the RST_STREAM of a timer.
wantWriteFrame ==
  /\ Idle /\ want # <<>>
  /\ want' = Tail(want)
  /\ todo' = (IF Head(want).kind = "rst" THEN resetStream(Head(want).id)
              ELSE <<callWith("writeFrame", Head(want))>>) \o <<call("endOfEvent")>>
  /\ UNCHANGED <<sc, st, q, writing, msgs, h, may, left, slow, wire, fault>>

\* noteBodyRead for the handler of stream i, which waits in Body.Read.
noteBodyRead(i) ==
  /\ Idle /\ h[i].pc = "reading"
  /\ h' = [h EXCEPT ![i].pc = "run", ![i].read = 0]
  /\ todo' = <<callWindow(0, h[i].read)>>
             \o (IF st[i].state \in {"halfClosedRemote", "closed"} THEN <<>>
                 ELSE <<callWindow(i, h[i].read)>>)
             \o <<call("endOfEvent")>>
  /\ UNCHANGED <<sc, st, q, writing, want, msgs, may, left, slow, wire, fault>>

\* handlerDone: handlers that waited for a place start, as many as there are
\* places; those whose stream is gone are forgotten on the way.
handlerDone ==
  /\ Idle /\ msgs # <<>> /\ Head(msgs).kind = "handlerDone"
  /\ msgs' = Tail(msgs)
  /\ LET live == {k \in DOMAIN sc.unstarted : open(sc.unstarted[k])}
         room == AdvMaxStreams - (sc.curHandlers - 1)
         starts == {k \in live : Cardinality({j \in live : j < k}) < room}
         waits == live \ starts
         gone == IF waits = {} THEN Len(sc.unstarted) ELSE Min(waits) - 1
         started == {sc.unstarted[k] : k \in starts}
     IN /\ sc' = [sc EXCEPT !.curHandlers = @ - 1 + Cardinality(starts),
                            !.unstarted = SubSeq(@, gone + 1, Len(@))]
        /\ h' = [i \in Ids |-> IF i \in started THEN [h[i] EXCEPT !.pc = "run"] ELSE h[i]]
  /\ todo' = <<call("endOfEvent")>>
  /\ UNCHANGED <<st, q, writing, want, may, left, slow, wire, fault>>

\* startPush for the Push of a handler: the stream must still be open.
startPush ==
  /\ Idle /\ msgs # <<>> /\ Head(msgs).kind = "push"
  /\ msgs' = Tail(msgs)
  /\ LET wr == Head(msgs)
         refused == st[wr.id].state \notin {"open", "halfClosedRemote"} \/ ~sc.pushEnabled
     IN /\ h' = IF refused THEN replied(wr) ELSE h
        /\ todo' = (IF refused THEN <<>> ELSE <<callWith("writeFrame", wr)>>) \o <<call("endOfEvent")>>
  /\ UNCHANGED <<sc, st, q, writing, want, may, left, slow, wire, fault>>

\* The other messages: the timers, and the graceful shutdown.
serveMsg ==
  /\ Idle /\ msgs # <<>> /\ Head(msgs).kind \in {"idleTimer", "graceful", "settingsTimer", "shutdownTimer"}
  /\ msgs' = Tail(msgs)
  /\ todo' = IF Head(msgs).kind \in {"idleTimer", "graceful"}
             THEN <<callGoAway("No"), call("endOfEvent")>> ELSE <<call("stop")>>
  /\ UNCHANGED <<sc, st, q, writing, want, h, may, left, slow, wire, fault>>

------------------------------------------------------------------------------
(* Timers and handlers.  A step of theirs happens between two events. *)

Quiet == todo = <<>> /\ ~fault
send(kind) == msgs' = Append(msgs, frame(kind, 0))

\* http.Server.Shutdown, or a handler that sets "Connection: close".
startGracefulShutdown ==
  /\ Idle /\ "shutdown" \in may /\ ~sc.shutdownOnce
  /\ sc' = [sc EXCEPT !.shutdownOnce = TRUE]
  /\ send("graceful")
  /\ UNCHANGED <<st, q, writing, todo, want, h, may, left, slow, wire, fault>>

onSettingsTimer ==
  /\ Idle /\ "silence" \in may /\ ~sc.sawFrame
  /\ frame("settingsTimer", 0) \notin ToSet(msgs)
  /\ send("settingsTimer")
  /\ UNCHANGED <<sc, st, q, writing, todo, want, h, may, left, slow, wire, fault>>

\* The idle timer runs while no stream is open.
onIdleTimer ==
  /\ Idle /\ "idleTimeout" \in may /\ openStreams = {} /\ ~sc.idleFired
  /\ sc' = [sc EXCEPT !.idleFired = TRUE]
  /\ send("idleTimer")
  /\ UNCHANGED <<st, q, writing, todo, want, h, may, left, slow, wire, fault>>

onShutdownTimer ==
  /\ Idle /\ sc.timer /\ frame("shutdownTimer", 0) \notin ToSet(msgs)
  /\ send("shutdownTimer")
  /\ UNCHANGED <<sc, st, q, writing, todo, want, h, may, left, slow, wire, fault>>

onReadTimeout(i) ==
  /\ Idle /\ "readTimeout" \in may /\ open(i) /\ st[i].body /\ ~st[i].closed
  /\ st' = [st EXCEPT ![i].closed = TRUE]
  /\ UNCHANGED <<sc, q, writing, todo, want, msgs, h, may, left, slow, wire, fault>>

onWriteTimeout(i) ==
  /\ Idle /\ "writeTimeout" \in may /\ open(i) /\ st[i].timer
  /\ st' = [st EXCEPT ![i].timer = FALSE]
  /\ want' = Append(want, frame("rst", i))
  /\ UNCHANGED <<sc, q, writing, todo, msgs, h, may, left, slow, wire, fault>>

Running(i) == Quiet /\ h[i].pc = "run"

\* requestBody.Read: what the pipe holds, after a 100 Continue if the client
\* expects one; the serve loop is told of the bytes.
Read(i) ==
  /\ Running(i) /\ "read" \in may /\ ~sc.done /\ ~h[i].fin
  /\ \/ /\ h[i].expect
        /\ want' = Append(want, frame("continue", i))
        /\ h' = [h EXCEPT ![i].expect = FALSE]
        /\ UNCHANGED st
     \/ /\ ~h[i].expect /\ st[i].body /\ st[i].buf > 0 /\ ~st[i].broken
        /\ h' = [h EXCEPT ![i].read = st[i].buf, ![i].pc = "reading"]
        /\ st' = [st EXCEPT ![i].buf = 0]
        /\ UNCHANGED want
  /\ UNCHANGED <<sc, q, writing, todo, msgs, may, left, slow, wire, fault>>

\* requestBody.Close: the bytes in the pipe are left unread.
CloseBody(i) ==
  /\ Running(i) /\ "closeBody" \in may /\ ~h[i].fin /\ st[i].body /\ ~st[i].broken
  /\ st' = [st EXCEPT ![i].broken = TRUE]
  /\ UNCHANGED <<sc, q, writing, todo, want, msgs, h, may, left, slow, wire, fault>>

\* The frames of a Write that flushes, and of the end of the handler
\* (writeChunk): headers first; END_STREAM on the headers, on an empty DATA
\* frame or on trailers.
headers(i) == IF h[i].sentHeader THEN <<>> ELSE <<frame("headers", i)>>
chunk(i) == headers(i) \o <<[frame("data", i) EXCEPT !.n = ChunkSize]>>
finalFrames(i) ==
  LET last(kind) == <<[frame(kind, i) EXCEPT !.end = TRUE]>>
  IN {IF h[i].sentHeader THEN last("data") ELSE last("headers")}
     \cup IF "trailers" \in may THEN {headers(i) \o last("headers")} ELSE {}

\* writeFrameFromHandler and the wait for done that follows.
sendNext(i, hi) ==
  IF hi.out = <<>> \/ sc.done THEN h' = [h EXCEPT ![i] = [hi EXCEPT !.out = <<>>]] /\ UNCHANGED want
  ELSE /\ h' = [h EXCEPT ![i] = [hi EXCEPT !.pc = "wait", !.out = Tail(@), !.ch = @ + 1, !.reply = FALSE]]
       /\ want' = Append(want, [Head(hi.out) EXCEPT !.done = hi.ch + 1])

Write(i) ==
  /\ Running(i) /\ "write" \in may /\ ~h[i].wrote /\ ~h[i].fin
  /\ sendNext(i, [h[i] EXCEPT !.wrote = TRUE, !.out = chunk(i), !.sentHeader = TRUE])
  /\ UNCHANGED <<sc, st, q, writing, todo, msgs, may, left, slow, wire, fault>>

\* responseWriter.Push
Push(i) ==
  /\ Running(i) /\ "push" \in may /\ ~h[i].fin /\ ~h[i].pushed /\ i \in ClientIds /\ ~sc.done /\ ~st[i].cw
  /\ h' = [h EXCEPT ![i].pushed = TRUE, ![i].pc = "wait", ![i].ch = @ + 1, ![i].reply = FALSE]
  /\ msgs' = Append(msgs, [frame("push", i) EXCEPT !.done = h[i].ch + 1])
  /\ UNCHANGED <<sc, st, q, writing, todo, want, may, left, slow, wire, fault>>

\* The handler returns: responseWriter.handlerDone.
Return(i) ==
  /\ Running(i) /\ ~h[i].fin
  /\ \E fs \in finalFrames(i) :
       sendNext(i, [h[i] EXCEPT !.fin = TRUE, !.out = fs, !.sentHeader = TRUE])
  /\ UNCHANGED <<sc, st, q, writing, todo, msgs, may, left, slow, wire, fault>>

\* The handler panics: runHandler sends handlerPanicRST and waits for nothing.
Panic(i) ==
  /\ Running(i) /\ "panic" \in may /\ ~h[i].fin
  /\ h' = [h EXCEPT ![i].fin = TRUE]
  /\ want' = IF sc.done THEN want ELSE Append(want, frame("panicRST", i))
  /\ UNCHANGED <<sc, st, q, writing, todo, msgs, may, left, slow, wire, fault>>

\* A wait ends: with the reply the next frame follows; a stream or connection
\* that closed first fails the Write.
Resume(i) ==
  /\ Quiet /\ h[i].pc = "wait"
  /\ \/ /\ h[i].reply
        /\ sendNext(i, [h[i] EXCEPT !.pc = "run"])
     \/ /\ ~h[i].reply /\ (st[i].cw \/ sc.done)
        /\ h' = [h EXCEPT ![i].pc = "run", ![i].out = <<>>]
        /\ UNCHANGED want
  /\ UNCHANGED <<sc, st, q, writing, todo, msgs, may, left, slow, wire, fault>>

\* Body.Read gives up its report when the connection is done.
ReadAbandoned(i) ==
  /\ Quiet /\ h[i].pc = "reading" /\ sc.done
  /\ h' = [h EXCEPT ![i].pc = "run"]
  /\ UNCHANGED <<sc, st, q, writing, todo, want, msgs, may, left, slow, wire, fault>>

\* runHandler's last deferred call.
handlerExit(i) ==
  /\ Running(i) /\ h[i].fin
  /\ h' = [h EXCEPT ![i].pc = "done"]
  /\ msgs' = IF sc.done THEN msgs ELSE Append(msgs, frame("handlerDone", 0))
  /\ UNCHANGED <<sc, st, q, writing, todo, want, may, left, slow, wire, fault>>

------------------------------------------------------------------------------

Calls ==
  \/ writeFrame \/ scheduleFrameWrite \/ scheduleLoop \/ startFrameWrite \/ startPushPromise
  \/ wroteFrame \/ replyToWriter \/ noteReset \/ closeStream \/ closeStream2
  \/ sendWindowUpdate \/ goAway \/ endOfEvent \/ stop
  \/ processReadError \/ processDiscard \/ processSettings \/ processPing \/ processWindowUpdate
  \/ processResetStream \/ processPriority \/ processGoAway \/ processPushPromise
  \/ processData \/ processTrailers \/ processHeaders

Events ==
  \/ wroteFrameAsync \/ wantWriteFrame \/ handlerDone \/ startPush \/ serveMsg
  \/ \E i \in Ids : noteBodyRead(i)

HandlerSteps(i) ==
  \/ Write(i) \/ Push(i) \/ Return(i) \/ Resume(i) \/ ReadAbandoned(i) \/ handlerExit(i)

Next ==
  \/ Calls \/ Events \/ readFrame
  \/ startGracefulShutdown \/ onSettingsTimer \/ onIdleTimer \/ onShutdownTimer
  \/ \E i \in Ids :
       onReadTimeout(i) \/ onWriteTimeout(i) \/ Read(i) \/ CloseBody(i) \/ Panic(i) \/ HandlerSteps(i)

Spec == Init /\ [][Next]_vars

\* The serve loop runs, a blocked write ends, timers fire and handlers return;
\* nothing is asked of the client.
FairSpec ==
  /\ Spec
  /\ WF_vars(Calls) /\ WF_vars(Events) /\ WF_vars(onShutdownTimer)
  /\ \A i \in Ids :
       /\ WF_vars(onWriteTimeout(i))
       /\ WF_vars(Return(i) \/ Resume(i) \/ ReadAbandoned(i) \/ handlerExit(i))

------------------------------------------------------------------------------
(* Properties *)

Serving == Quiet /\ ~sc.done

\* The counters that every limit rests on are exact between two events:
\* streams of either side, control frames queued, handlers that run (one whose
\* handlerDone message is on its way included).  A handler that waits for a
\* place on a live stream waits only while all places are taken.
CountersExact ==
  Serving =>
    /\ sc.curClient = Cardinality(openStreams \cap ClientIds)
    /\ sc.curPushed = Cardinality(openStreams \cap PushIds)
    /\ sc.qctl = Len(q[0])
    /\ sc.curHandlers = Cardinality({i \in Ids : h[i].pc \in {"run", "reading", "wait"}})
                        + Cardinality({k \in DOMAIN msgs : msgs[k].kind = "handlerDone"})
    /\ (\E k \in DOMAIN sc.unstarted : open(sc.unstarted[k])) => sc.curHandlers >= AdvMaxStreams

\* A handler that waits for its frame is not forgotten: the frame is in a
\* channel, in the scheduler or being written, or the handler has been told
\* (by the reply, by the end of the stream or by the end of the connection).
NoWaiterStranded ==
  Quiet => \A i \in Ids :
    h[i].pc = "wait" =>
      \/ h[i].reply \/ st[i].cw \/ sc.done
      \/ \E f \in ToSet(want) \cup ToSet(msgs) \cup ToSet(q[i]) \cup ({writing} \ {NoFrame}) :
           f.id = i /\ f.done = h[i].ch

\* No flow-control credit is lost: what the client may still send on the
\* connection, what waits to be announced and what sits unread in the bodies
\* of open streams add up to at least the window we started with; on a stream
\* whose body is still read they add up to exactly its window.
CreditKept ==
  Serving =>
    /\ sc.avail + sc.unsent
       + MapThenSumSet(LAMBDA i : (IF open(i) THEN st[i].buf ELSE 0) + h[i].read, Ids)
         >= ConnRecvWindow
    /\ \A i \in Ids :
         st[i].state = "open" /\ st[i].body /\ ~st[i].broken /\ ~st[i].closed =>
           st[i].avail + st[i].unsent + st[i].buf + h[i].read = StreamRecvWindow

\* What the client sees of a stream is legal: HEADERS before DATA, and nothing
\* of a response after END_STREAM or RST_STREAM.
WireLegal == \A i \in Ids : wire[i] # "illegal"

\* With a write timeout a connection that has started to go away ends, even if
\* the client never reads what handlers write nor sends a frame again.
GoAwayDrains == ("writeTimeout" \in may /\ sc.inGoAway) ~> (sc.done \/ fault)

\* The assertions of the serve loop ("internal error: attempt to send frame
\* on a closed stream", "can't close stream in state ...") never fail.
NoAssertionFails == ~fault
=============================================================================
