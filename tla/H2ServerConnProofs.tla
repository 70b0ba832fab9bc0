------------------------- MODULE H2ServerConnProofs -------------------------
(***************************************************************************)
(* What the serve loop of an HTTP/2 server connection counts is right      *)
(* between two events, and no handler that waits for its frame is          *)
(* forgotten, for any client, any number of streams and any limits.        *)
(*                                                                         *)
(* An event is run call by call, and the counters are only exact once all  *)
(* the calls have run; so the invariant speaks of the calls still to run.  *)
(* It has four parts: the shape of the state (Shapes), the counters and    *)
(* the line of handlers that wait for a place (Tally), whose turn it is to *)
(* write (Turn), and for every handler that waits the frame it waits for,  *)
(* which may be in a channel, in the scheduler, being written or in the    *)
(* hands of a call, or else a reason why it need not wait (Kept).          *)
(*                                                                         *)
(* Most calls change no stream's state and no counter: SimpleSteps has     *)
(* them all.  Each of the others has a lemma of its own.                   *)
(***************************************************************************)
EXTENDS H2ServerConn, SeqLemmas

\* The fields of the records.
ScFields ==
  {"sawFrame", "sawSettings", "unacked", "qctl", "curClient", "curPushed", "curHandlers", "maxClient",
   "maxPush", "unstarted", "initWin", "flow", "avail", "unsent", "pushEnabled", "needAck", "inGoAway",
   "needGoAway", "code", "async", "inLoop", "needFlush", "timer", "shutdownOnce", "idleFired", "done"}
StFields ==
  {"state", "body", "buf", "closed", "broken", "decl", "bytes", "timer", "flow", "avail", "unsent",
   "resetQueued", "gotTrailer", "wroteHeaders", "cw"}
HFields == {"pc", "out", "fin", "sentHeader", "wrote", "read", "ch", "reply", "pushed", "expect"}
FrFields == {"kind", "id", "n", "end", "done"}

Rec(r, F) == r = [x \in F |-> r[x]]
Table(f, D, F) == f = [i \in D |-> f[i]] /\ \A i \in D : Rec(f[i], F)

\* Kinds of frames: those of a stream, and those a handler waits for.
OnStream == {"headers", "data", "push", "continue", "rst", "panicRST"}
Awaited == {"headers", "data", "push"}

IsFr(f) ==
  /\ Rec(f, FrFields) /\ f.kind # "none" /\ f.id \in Ids \cup {0} /\ f.done \in Nat
  /\ (f.kind \in OnStream => f.id \in Ids) /\ (f.done # 0 => f.kind \in Awaited)
  /\ (f.kind # "data" => f.n = 0)
Frames(s) == List(s) /\ \A f \in ToSet(s) : IsFr(f)

IsIn(f) ==
  /\ f.id \in Ids \cup {0}
  /\ f.kind \in {"headers", "data", "rst", "priority"} => f.id \in Ids

\* The calls of the serve loop: those that work on a stream, and those that
\* have a frame with them.  Two of them run only right after the step that
\* makes them.
OnIds == {"closeStream", "closeStream2", "noteReset"}
Carriers == {"writeFrame", "startFrameWrite", "reply"}
First == {"startFrameWrite", "wroteFrame"}
IsCall(x) ==
  /\ x.op \in OnIds => x.id \in Ids
  /\ x.op = "sendWindowUpdate" => x.id \in Ids \cup {0}
  /\ x.op \in Carriers => IsFr(x.wr)
  /\ x.op = "process" => IsIn(x.f)
Put(s) == List(s) /\ \A x \in ToSet(s) : IsCall(x) /\ x.op \notin First
IsTodo(t) == List(t) /\ (t # <<>> => IsCall(Head(t)) /\ Put(Tail(t)))

\* The state has the shape of Init.
IsSc(r) ==
  /\ Rec(r, ScFields) /\ r.curHandlers \in Int /\ r.qctl \in Int /\ r.curClient \in Int /\ r.curPushed \in Int
  /\ r.maxClient \in Nat /\ r.maxPush \in Nat /\ List(r.unstarted)
IsSt(f) == Table(f, Ids, StFields)
IsH(f) ==
  /\ Table(f, Ids, HFields)
  /\ \A i \in Ids : f[i].ch \in Nat /\ Frames(f[i].out) /\ \A x \in ToSet(f[i].out) : x.id = i /\ x.kind \in Awaited
IsQ(f) ==
  /\ f = [i \in Ids \cup {0} |-> f[i]] /\ \A i \in Ids \cup {0} : Frames(f[i])
  /\ \A x \in ToSet(f[0]) : isControl(x)
Inputs(s) == List(s) /\ \A f \in ToSet(s) : IsIn(f)
Shapes ==
  /\ IsSc(sc) /\ IsSt(st) /\ IsH(h) /\ IsQ(q) /\ Frames(want) /\ Frames(msgs) /\ IsTodo(todo)
  /\ (writing # NoFrame => IsFr(writing)) /\ Inputs(left)

\* Streams that are open, and handlers that run or are about to be forgotten.
Active == {"run", "reading", "wait"}
Runs(f) == {i \in Ids : f[i].pc \in Active}
Ending(s) == {k \in DOMAIN s : s[k].kind = "handlerDone"}
Opened(f) == {i \in Ids : f[i].state \in Live}

Counted ==
  /\ sc.curClient = Cardinality(Opened(st) \cap ClientIds)
  /\ sc.curPushed = Cardinality(Opened(st) \cap PushIds)
Queued == sc.qctl = Len(q[0])
Handled == ~sc.done => sc.curHandlers = Cardinality(Runs(h)) + Cardinality(Ending(msgs))
\* Handlers that wait for a place.
Lined ==
  LET u == sc.unstarted
  IN /\ \A k \in DOMAIN u : u[k] \in ClientIds /\ u[k] <= sc.maxClient /\ h[u[k]].pc = "none"
     /\ \A j, k \in DOMAIN u : u[j] = u[k] => j = k
     /\ (\E k \in DOMAIN u : st[u[k]].state \in Live) => sc.curHandlers >= AdvMaxStreams
\* Streams begin in the order of their identifiers, handlers with their stream.
Fresh ==
  /\ \A i \in ClientIds : i > sc.maxClient => st[i].state = "idle" /\ h[i].pc = "none"
  /\ \A i \in PushIds : i > sc.maxPush => st[i].state = "idle" /\ h[i].pc = "none"
Begun == \A i \in Ids : h[i].pc # "none" => st[i].state # "idle"
Tally == Counted /\ Queued /\ Handled /\ Lined /\ Fresh /\ Begun

\* A frame that is being written is that of writeFrameAsync, or the loop looks
\* at it next.
Turn ==
  /\ writing # NoFrame <=> (sc.async \/ At("wroteFrame"))
  /\ At("startFrameWrite") => ~sc.async

\* No handler waits on this stream any more, or none will after these calls.
Has(op) == \E x \in ToSet(todo) : x.op = op
HasOn(op, i) == \E x \in ToSet(todo) : x.op = op /\ x.id = i
Gone(i) == st[i].cw \/ sc.done \/ fault \/ Has("stop") \/ HasOn("closeStream2", i)
Somewhere(f) ==
  \/ f \in ToSet(want) \/ f \in ToSet(msgs) \/ f \in ToSet(q[f.id])
  \/ writing # NoFrame /\ f = writing
  \/ \E x \in ToSet(todo) : x.op \in Carriers /\ x.wr = f
Waits(i) ==
  h[i].pc = "wait" =>
    /\ h[i].ch # 0
    /\ \/ h[i].reply \/ Gone(i)
       \/ \E f : f.id = i /\ f.done = h[i].ch /\ Somewhere(f)
Kept == \A i \in Ids : (st[i].state = "closed" => Gone(i)) /\ Waits(i)

Inv == Shapes /\ Tally /\ Turn /\ Kept

----------------------------------------------------------------------------
(* Records, frames and calls *)

\* The names of the fields.
LEMMA ScHas ==
  /\ "sawFrame" \in ScFields /\ "sawSettings" \in ScFields /\ "unacked" \in ScFields
  /\ "qctl" \in ScFields /\ "curClient" \in ScFields /\ "curPushed" \in ScFields
  /\ "curHandlers" \in ScFields /\ "maxClient" \in ScFields /\ "maxPush" \in ScFields
  /\ "unstarted" \in ScFields /\ "initWin" \in ScFields /\ "flow" \in ScFields
  /\ "avail" \in ScFields /\ "unsent" \in ScFields /\ "pushEnabled" \in ScFields
  /\ "needAck" \in ScFields /\ "inGoAway" \in ScFields /\ "needGoAway" \in ScFields
  /\ "code" \in ScFields /\ "async" \in ScFields /\ "inLoop" \in ScFields
  /\ "needFlush" \in ScFields /\ "timer" \in ScFields /\ "shutdownOnce" \in ScFields
  /\ "idleFired" \in ScFields /\ "done" \in ScFields
BY DEF ScFields

\* The fields of a stream.
LEMMA StHas ==
  /\ "state" \in StFields /\ "body" \in StFields /\ "buf" \in StFields /\ "closed" \in StFields
  /\ "broken" \in StFields /\ "decl" \in StFields /\ "bytes" \in StFields /\ "timer" \in StFields
  /\ "flow" \in StFields /\ "avail" \in StFields /\ "unsent" \in StFields
  /\ "resetQueued" \in StFields /\ "gotTrailer" \in StFields /\ "wroteHeaders" \in StFields
  /\ "cw" \in StFields
BY DEF StFields

\* The fields of a handler.
LEMMA HHas ==
  /\ "pc" \in HFields /\ "out" \in HFields /\ "fin" \in HFields /\ "sentHeader" \in HFields
  /\ "wrote" \in HFields /\ "read" \in HFields /\ "ch" \in HFields /\ "reply" \in HFields
  /\ "pushed" \in HFields /\ "expect" \in HFields
BY DEF HFields

\* The fields of a frame.
LEMMA FrHas ==
  "kind" \in FrFields /\ "id" \in FrFields /\ "n" \in FrFields /\ "end" \in FrFields /\ "done" \in FrFields
BY DEF FrFields

\* Zero is no stream, and no client's stream is a pushed one.
LEMMA IdsFacts ==
  /\ Ids \subseteq Nat \ {0} /\ 0 \notin Ids /\ ClientIds \subseteq Ids /\ PushIds \subseteq Ids
  /\ ClientIds \cap PushIds = {} /\ IsFiniteSet(Ids) /\ Ids = ClientIds \cup PushIds
BY IdsAssumption DEF Ids

\* Frames that the connection makes itself.
LEMMA FrameIs ==
  ASSUME NEW k, k # "none", NEW i \in Ids \cup {0}, k \in OnStream => i \in Ids
  PROVE  IsFr(frame(k, i)) /\ frame(k, i).kind = k /\ frame(k, i).id = i /\ frame(k, i).done = 0
<1>1. Rec(frame(k, i), FrFields)
  BY DEF frame, Rec, FrFields
<1>. QED  BY <1>1 DEF frame, IsFr

\* Sequences of frames.
LEMMA FramesMade ==
  /\ Frames(<<>>) /\ \A f : IsFr(f) => Frames(<<f>>)
  /\ \A s, f : Frames(s) /\ IsFr(f) => Frames(Append(s, f))
  /\ \A s : Frames(s) /\ s # <<>> => Frames(Tail(s)) /\ IsFr(Head(s)) /\ ToSet(s) = {Head(s)} \cup ToSet(Tail(s))
  /\ \A s, t : Frames(s) /\ Frames(t) => Frames(s \o t)
<1>1. Frames(<<>>) /\ \A f : IsFr(f) => Frames(<<f>>)
  BY ListShort DEF Frames
<1>2. ASSUME NEW s, NEW f, Frames(s), IsFr(f) PROVE Frames(Append(s, f))
  BY <1>2, ListAppend DEF Frames
<1>3. ASSUME NEW s, Frames(s), s # <<>>
      PROVE  Frames(Tail(s)) /\ IsFr(Head(s)) /\ ToSet(s) = {Head(s)} \cup ToSet(Tail(s))
  BY <1>3, ListTail DEF Frames
<1>4. ASSUME NEW s, NEW t, Frames(s), Frames(t) PROVE Frames(s \o t)
  BY <1>4, ListConcat DEF Frames
<1>. QED  BY <1>1, <1>2, <1>3, <1>4

\* Lists of calls that may be put before any other.
LEMMA PutMade ==
  /\ Put(<<>>) /\ \A x : IsCall(x) /\ x.op \notin First => Put(<<x>>)
  /\ \A s, t : Put(s) /\ Put(t) => Put(s \o t)
  /\ \A x, y : IsCall(x) /\ x.op \notin First /\ IsCall(y) /\ y.op \notin First => Put(<<x, y>>)
<1>1. Put(<<>>) /\ \A x : IsCall(x) /\ x.op \notin First => Put(<<x>>)
  BY ListShort DEF Put
<1>2. ASSUME NEW s, NEW t, Put(s), Put(t) PROVE Put(s \o t)
  BY <1>2, ListConcat DEF Put
<1>3. ASSUME NEW x, NEW y, IsCall(x), x.op \notin First, IsCall(y), y.op \notin First PROVE Put(<<x, y>>)
  BY <1>3, ListShort DEF Put
<1>. QED  BY <1>1, <1>2, <1>3

\* The calls that are left when the first has run.
LEMMA TodoHas ==
  ASSUME NEW t, IsTodo(t), t # <<>>
  PROVE  /\ Put(Tail(t)) /\ IsCall(Head(t)) /\ ToSet(t) = {Head(t)} \cup ToSet(Tail(t))
         /\ \A x \in ToSet(t) : IsCall(x)
<1>1. Put(Tail(t)) /\ IsCall(Head(t)) /\ ToSet(t) = {Head(t)} \cup ToSet(Tail(t))
  BY ListTail DEF IsTodo
<1>. QED  BY <1>1 DEF Put

\* What becomes of a list of calls when others are put before it.
LEMMA PutBefore ==
  ASSUME NEW s, NEW t, Put(s), Put(t)
  PROVE  /\ IsTodo(s \o t) /\ ToSet(s \o t) = ToSet(s) \cup ToSet(t)
         /\ s \o t # <<>> => Head(s \o t).op \notin First
<1>1. Put(s \o t)
  BY PutMade
<1>2. ASSUME s \o t # <<>> PROVE Put(Tail(s \o t)) /\ IsCall(Head(s \o t)) /\ Head(s \o t).op \notin First
  BY <1>1, <1>2, ListTail DEF Put
<1>. QED  BY <1>1, <1>2, ListConcat DEF Put, IsTodo

\* The same with one call that comes first.
LEMMA PutAfter ==
  ASSUME NEW x, NEW s, IsCall(x), Put(s)
  PROVE  /\ IsTodo(<<x>> \o s) /\ ToSet(<<x>> \o s) = {x} \cup ToSet(s)
         /\ <<x>> \o s # <<>> /\ Head(<<x>> \o s) = x
<1>1. List(<<x>>) /\ ToSet(<<x>>) = {x} /\ <<x>> # <<>> /\ Head(<<x>>) = x
  BY ListShort
<1>2. List(s)
  BY DEF Put
<1>3. /\ List(<<x>> \o s) /\ ToSet(<<x>> \o s) = {x} \cup ToSet(s)
      /\ <<x>> \o s # <<>> /\ Head(<<x>> \o s) = x
  BY <1>1, <1>2, ListConcat
<1>4. Tail(<<x>> \o s) = s
  BY <1>2 DEF List
<1>. QED  BY <1>3, <1>4 DEF IsTodo

\* The calls the serve loop makes.
LEMMA CallIs ==
  /\ \A op : op \notin OnIds \cup Carriers \cup {"sendWindowUpdate", "process"} => IsCall(call(op)) /\ call(op).op = op
  /\ \A op : \A i \in Ids : op \notin Carriers \cup {"process"} => IsCall(callOn(op, i)) /\ callOn(op, i).op = op /\ callOn(op, i).id = i
  /\ \A op \in Carriers : \A f : IsFr(f) => IsCall(callWith(op, f)) /\ callWith(op, f).op = op /\ callWith(op, f).wr = f
  /\ \A n : \A i \in Ids \cup {0} : IsCall(callWindow(i, n)) /\ callWindow(i, n).op = "sendWindowUpdate"
  /\ \A c : IsCall(callGoAway(c)) /\ callGoAway(c).op = "goAway"
  /\ \A f : IsIn(f) => IsCall(callFrame(f)) /\ callFrame(f).op = "process"
<1>1. \A op : op \notin OnIds \cup Carriers \cup {"sendWindowUpdate", "process"} => IsCall(call(op)) /\ call(op).op = op
  BY DEF IsCall, call
<1>2. \A op : \A i \in Ids : op \notin Carriers \cup {"process"} => IsCall(callOn(op, i)) /\ callOn(op, i).op = op /\ callOn(op, i).id = i
  BY DEF IsCall, callOn
<1>3. \A op \in Carriers : \A f : IsFr(f) => IsCall(callWith(op, f)) /\ callWith(op, f).op = op /\ callWith(op, f).wr = f
  BY DEF IsCall, callWith, Carriers, OnIds
<1>4. \A n : \A i \in Ids \cup {0} : IsCall(callWindow(i, n)) /\ callWindow(i, n).op = "sendWindowUpdate"
  BY DEF IsCall, callWindow, Carriers, OnIds
<1>5. \A c : IsCall(callGoAway(c)) /\ callGoAway(c).op = "goAway"
  BY DEF IsCall, callGoAway, Carriers, OnIds
<1>6. \A f : IsIn(f) => IsCall(callFrame(f)) /\ callFrame(f).op = "process"
  BY DEF IsCall, callFrame, Carriers, OnIds
<1>. QED  BY <1>1, <1>2, <1>3, <1>4, <1>5, <1>6

\* A reset, and the writing of a frame.
LEMMA ResetPut ==
  /\ \A i \in Ids : Put(resetStream(i))
  /\ \A f : IsFr(f) => Put(<<callWith("writeFrame", f)>>)
  /\ \A k : \A i \in Ids \cup {0} : k # "none" /\ k \notin OnStream => Put(<<callWith("writeFrame", frame(k, i))>>)
  /\ \A n : \A i \in Ids \cup {0} : Put(<<callWindow(i, n)>>)
  /\ \A c : Put(<<callGoAway(c)>>)
  /\ \A i \in Ids : Put(<<callOn("closeStream", i)>>) /\ Put(<<callOn("closeStream2", i)>>)
  /\ Put(<<call("scheduleFrameWrite")>>) /\ Put(<<call("scheduleLoop")>>) /\ Put(<<call("stop")>>) /\ Put(<<call("endOfEvent")>>)
<1>1. \A f : IsFr(f) => IsCall(callWith("writeFrame", f)) /\ callWith("writeFrame", f).op = "writeFrame"
  BY CallIs DEF Carriers
<1>2. ASSUME NEW i \in Ids PROVE Put(resetStream(i))
  <2>1. IsFr(frame("rst", i))
    BY FrameIs
  <2>2. IsCall(callWith("writeFrame", frame("rst", i))) /\ callWith("writeFrame", frame("rst", i)).op = "writeFrame"
    BY <1>1, <2>1
  <2>3. IsCall(callOn("noteReset", i)) /\ callOn("noteReset", i).op = "noteReset"
    BY CallIs DEF Carriers
  <2>4. "writeFrame" \notin First /\ "noteReset" \notin First
    BY DEF First
  <2>. QED  BY <2>2, <2>3, <2>4, PutMade DEF resetStream
<1>3. \A f : IsFr(f) => Put(<<callWith("writeFrame", f)>>)
  BY <1>1, PutMade DEF First
<1>4. ASSUME NEW k, NEW i \in Ids \cup {0}, k # "none", k \notin OnStream PROVE Put(<<callWith("writeFrame", frame(k, i))>>)
  BY <1>3, <1>4, FrameIs
<1>5. \A n : \A i \in Ids \cup {0} : Put(<<callWindow(i, n)>>)
  BY CallIs, PutMade DEF First
<1>6. \A c : Put(<<callGoAway(c)>>)
  BY CallIs, PutMade DEF First
<1>7. \A i \in Ids : Put(<<callOn("closeStream", i)>>) /\ Put(<<callOn("closeStream2", i)>>)
  <2>1. "closeStream" \notin Carriers \cup {"process"} \cup First /\ "closeStream2" \notin Carriers \cup {"process"} \cup First
    BY DEF Carriers, First
  <2>. QED  BY <2>1, CallIs, PutMade
<1>8. ASSUME NEW op \in {"scheduleFrameWrite", "scheduleLoop", "stop", "endOfEvent"} PROVE Put(<<call(op)>>)
  <2>1. op \notin OnIds \cup Carriers \cup {"sendWindowUpdate", "process"} /\ op \notin First
    BY DEF Carriers, First, OnIds
  <2>. QED  BY <2>1, CallIs, PutMade
<1>. QED  BY <1>2, <1>3, <1>4, <1>5, <1>6, <1>7, <1>8

----------------------------------------------------------------------------
(* What the steps do to the fields that the invariant is about *)

\* A stream stays as it is, or opens on both sides stay open on one.
StateSame(s, r) == r.state = s.state \/ (s.state \in Live /\ r.state \in Live)
RowStill(s, r) == Rec(r, StFields) /\ StateSame(s, r) /\ (s.cw => r.cw)
StStill(f, g) == IsSt(g) /\ \A i \in Ids : RowStill(f[i], g[i])

\* The connection keeps its counters.
Counts(s, r) ==
  /\ r.curClient = s.curClient /\ r.curPushed = s.curPushed /\ r.curHandlers = s.curHandlers
  /\ r.unstarted = s.unstarted /\ r.maxPush = s.maxPush /\ r.maxClient >= s.maxClient
  /\ (s.done => r.done)
ScStill(s, r) == IsSc(r) /\ Counts(s, r) /\ r.qctl = s.qctl /\ r.async = s.async

\* So do the handlers.
PcSame(s, r) == r.pc = s.pc \/ (s.pc \in Active /\ r.pc \in Active)
Still ==
  /\ Counts(sc, sc') /\ \A i \in Ids : StateSame(st[i], st'[i]) /\ PcSame(h[i], h'[i])
  /\ Cardinality(Ending(msgs')) = Cardinality(Ending(msgs))

\* Streams that are open, and handlers that run, are the same ones.
LEMMA StillSets ==
  ASSUME Still
  PROVE  Opened(st') = Opened(st) /\ Runs(h') = Runs(h)
BY DEF Still, StateSame, PcSame, Opened, Runs

\* Steps that keep the counters keep what is said of them.
LEMMA TallyStill ==
  ASSUME Inv, Still, IsSc(sc')
  PROVE  (Counted /\ Handled /\ Lined /\ Fresh /\ Begun)'
<1>1. Counted /\ Handled /\ Lined /\ Fresh /\ Begun /\ IsSc(sc)
  BY DEF Inv, Tally, Shapes
<1>2. Opened(st') = Opened(st) /\ Runs(h') = Runs(h)
  BY StillSets
<1>3. Counts(sc, sc')
  BY DEF Still
<1>4. Counted'
  BY <1>1, <1>2, <1>3 DEF Counted, Counts
<1>5. Handled'
  BY <1>1, <1>2, <1>3 DEF Handled, Counts, Still
<1>6. Lined'
  <2>1. sc'.unstarted = sc.unstarted /\ sc'.maxClient >= sc.maxClient /\ sc'.curHandlers = sc.curHandlers
        /\ sc.maxClient \in Nat /\ sc'.maxClient \in Nat
    BY <1>1, <1>3 DEF Counts, IsSc
  <2>. DEFINE u == sc.unstarted
  <2>2. \A k \in DOMAIN u : u[k] \in ClientIds /\ u[k] <= sc.maxClient /\ h[u[k]].pc = "none"
    BY <1>1 DEF Lined
  <2>3. \A k \in DOMAIN u : u[k] \in ClientIds /\ u[k] <= sc'.maxClient
    <3>1. \A n \in Nat : n <= sc.maxClient => n <= sc'.maxClient
      BY <2>1
    <3>. QED  BY <2>2, <3>1, IdsFacts
  <2>4. \A k \in DOMAIN u : h'[u[k]].pc = "none" /\ StateSame(st[u[k]], st'[u[k]])
    BY <2>2, IdsFacts DEF Still, PcSame, Active
  <2>5. (\E k \in DOMAIN u : st'[u[k]].state \in Live) => sc'.curHandlers >= AdvMaxStreams
    BY <1>1, <2>1, <2>4 DEF Lined, StateSame
  <2>6. \A j, k \in DOMAIN u : u[j] = u[k] => j = k
    BY <1>1 DEF Lined
  <2>. QED  BY <2>1, <2>3, <2>4, <2>5, <2>6 DEF Lined
<1>7. Fresh'
  <2>1. sc'.maxPush = sc.maxPush /\ sc'.maxClient >= sc.maxClient
        /\ sc.maxClient \in Nat /\ sc'.maxClient \in Nat
    BY <1>1, <1>3 DEF Counts, IsSc
  <2>2. \A i \in Ids : /\ st[i].state = "idle" => st'[i].state = "idle"
                       /\ h[i].pc = "none" => h'[i].pc = "none"
    BY DEF Still, StateSame, PcSame, Live, Active
  <2>3. \A i \in ClientIds : i > sc'.maxClient => i > sc.maxClient
    BY <2>1, IdsFacts
  <2>. QED  BY <1>1, <2>1, <2>2, <2>3, IdsFacts DEF Fresh
<1>8. Begun'
  BY <1>1 DEF Begun, Still, StateSame, PcSame, Live, Active
<1>. QED  BY <1>4, <1>5, <1>6, <1>7, <1>8

\* The control frames in the scheduler.
LEMMA QueuedStill ==
  ASSUME Inv, sc'.qctl = sc.qctl, q'[0] = q[0]
  PROVE  Queued'
BY DEF Inv, Tally, Queued

\* A stream that is not idle has been counted: its identifier is no fresh one.
LEMMA Numbered ==
  ASSUME Inv, NEW i \in Ids, h[i].pc # "none"
  PROVE  st[i].state # "idle" /\ stateOf(i) = st[i].state
BY DEF Inv, Tally, Begun, stateOf

\* The handler of a stream that waited for a frame before a step is told by the
\* step, need not wait any more, or has a frame to wait for.
Follows(i, f) == h'[i].reply \/ Gone(i)' \/ \E g : g.id = i /\ g.done = f.done /\ Somewhere(g)'

\* Who waits is still accounted for after a step, if the wait is the same and
\* every excuse and every frame is followed.
LEMMA WaitStill ==
  ASSUME NEW i \in Ids, Waits(i),
         h'[i].pc = "wait" => h[i].pc = "wait" /\ h'[i].ch = h[i].ch /\ (h[i].reply => h'[i].reply),
         Gone(i) => Gone(i)',
         h[i].pc = "wait" => \A f : f.id = i /\ f.done = h[i].ch /\ f.done # 0 /\ Somewhere(f) => Follows(i, f)
  PROVE  Waits(i)'
<1>. SUFFICES ASSUME h'[i].pc = "wait" PROVE h'[i].ch # 0 /\ (h'[i].reply \/ Gone(i)' \/ \E g : g.id = i /\ g.done = h'[i].ch /\ Somewhere(g)')
  BY DEF Waits
<1>1. h[i].pc = "wait" /\ h'[i].ch = h[i].ch /\ (h[i].reply => h'[i].reply)
  OBVIOUS
<1>2. h[i].ch # 0 /\ (h[i].reply \/ Gone(i) \/ \E f : f.id = i /\ f.done = h[i].ch /\ Somewhere(f))
  BY <1>1 DEF Waits
<1>3. ASSUME NEW f, f.id = i, f.done = h[i].ch, Somewhere(f)
      PROVE  h'[i].reply \/ Gone(i)' \/ \E g : g.id = i /\ g.done = h'[i].ch /\ Somewhere(g)'
  BY <1>1, <1>2, <1>3 DEF Follows
<1>. QED  BY <1>1, <1>2, <1>3

\* The calls of a kind stay to be run.
Stays(op) == \A x \in ToSet(todo) : x.op = op => x \in ToSet(todo')

\* A handler that need not wait before a step need not after it, if what it
\* rests on stays.
LEMMA GoneStill ==
  ASSUME NEW i \in Ids, st[i].cw => st'[i].cw, sc.done => sc'.done, fault => fault',
         Stays("stop"), Stays("closeStream2"), Gone(i)
  PROVE  Gone(i)'
BY DEF Gone, Has, HasOn, Stays

\* So it is for every stream.
LEMMA KeptStill ==
  ASSUME Inv,
         \A i \in Ids : (Gone(i) => Gone(i)') /\ (st'[i].state = "closed" => st[i].state = "closed" \/ Gone(i)'),
         \A i \in Ids : h'[i].pc = "wait" => h[i].pc = "wait" /\ h'[i].ch = h[i].ch /\ (h[i].reply => h'[i].reply),
         \A i \in Ids : h[i].pc = "wait" =>
           \A f : f.id = i /\ f.done = h[i].ch /\ f.done # 0 /\ Somewhere(f) => Follows(i, f)
  PROVE  Kept'
<1>. SUFFICES ASSUME NEW i \in Ids PROVE (st'[i].state = "closed" => Gone(i)') /\ Waits(i)'
  BY DEF Kept
<1>1. (st[i].state = "closed" => Gone(i)) /\ Waits(i)
  BY DEF Inv, Kept
<1>2. Waits(i)'
  BY <1>1, WaitStill
<1>. QED  BY <1>1, <1>2

\* Whose turn it is does not change while nothing starts or ends.
LEMMA TurnStill ==
  ASSUME Inv, writing' = writing, sc'.async = sc.async, ~At("startFrameWrite"), ~At("wroteFrame"),
         ~At("startFrameWrite")', ~At("wroteFrame")'
  PROVE  Turn'
<1>1. writing # NoFrame <=> (sc.async \/ At("wroteFrame"))
  BY DEF Inv, Turn
<1>. QED  BY <1>1 DEF Turn

\* A frame a handler waits for is a frame of the handler's stream.
LEMMA AwaitedIs ==
  ASSUME Inv, NEW f, f.id \in Ids, f.done # 0, Somewhere(f)
  PROVE  IsFr(f) /\ f.kind \in Awaited
<1>1. /\ Frames(want) /\ Frames(msgs) /\ IsTodo(todo) /\ (writing # NoFrame => IsFr(writing))
      /\ Frames(q[f.id])
  BY DEF Inv, Shapes, IsQ
<1>2. CASE f \in ToSet(want) \/ f \in ToSet(msgs) \/ (writing # NoFrame /\ f = writing)
  BY <1>1, <1>2 DEF Frames, IsFr, OnStream, Awaited
<1>3. ASSUME NEW x \in ToSet(todo), x.op \in Carriers, x.wr = f PROVE IsFr(f)
  <2>1. todo # <<>>
    BY <1>3, ListShort
  <2>. QED  BY <1>1, <1>3, <2>1, TodoHas DEF IsCall
<1>. QED  BY <1>1, <1>2, <1>3 DEF Somewhere, Frames, IsFr, OnStream, Awaited
----------------------------------------------------------------------------
(* The calls of the serve loop *)

\* The call at the head has run; those it makes come first.
Makes(calls) == todo # <<>> /\ Put(calls) /\ todo' = calls \o Tail(todo)

\* What is still to be called.
LEMMA RanTodo ==
  ASSUME IsTodo(todo), NEW calls, Makes(calls)
  PROVE  /\ IsTodo(todo)' /\ ToSet(todo') = ToSet(calls) \cup ToSet(Tail(todo))
         /\ ~At("startFrameWrite")' /\ ~At("wroteFrame")'
         /\ \A op : Head(todo).op # op => Stays(op)
         /\ \A x \in ToSet(todo) : x \in ToSet(todo') \/ x = Head(todo)
<1>1. Put(Tail(todo)) /\ ToSet(todo) = {Head(todo)} \cup ToSet(Tail(todo))
  BY TodoHas DEF Makes
<1>2. PICK s, t : s = calls /\ t = Tail(todo) /\ Put(s) /\ Put(t) /\ todo' = s \o t
  BY <1>1 DEF Makes
<1>3. IsTodo(todo)' /\ ToSet(todo') = ToSet(s) \cup ToSet(t) /\ (todo' # <<>> => Head(todo').op \notin First)
  BY <1>2, PutBefore
<1>4. ~At("startFrameWrite")' /\ ~At("wroteFrame")'
  BY <1>3 DEF At, First
<1>. QED  BY <1>1, <1>2, <1>3, <1>4 DEF Stays

Around ==
  /\ h' = h /\ q' = q /\ writing' = writing /\ want' = want /\ msgs' = msgs /\ left' = left
  /\ fault' = fault

\* Most calls only change fields the invariant is not about.
Simple ==
  /\ Around /\ ScStill(sc, sc') /\ StStill(st, st')
  /\ todo # <<>> /\ Head(todo).op \notin First \cup Carriers \cup {"stop", "closeStream2"}
  /\ \E calls : Makes(calls)

\* Such a call keeps the invariant.
LEMMA SimpleSteps ==
  ASSUME Inv, Simple
  PROVE  Inv'
<1>1. PICK calls : Makes(calls)
  BY DEF Simple
<1>2. Around /\ ScStill(sc, sc') /\ StStill(st, st') /\ Shapes /\ Head(todo).op \notin First \cup Carriers \cup {"stop", "closeStream2"}
  BY DEF Simple, Inv
<1>3. /\ IsTodo(todo)' /\ ~At("startFrameWrite")' /\ ~At("wroteFrame")'
      /\ Stays("stop") /\ Stays("closeStream2")
      /\ \A x \in ToSet(todo) : x \in ToSet(todo') \/ x = Head(todo)
  <2>1. IsTodo(todo)
    BY <1>2 DEF Shapes
  <2>. QED  BY <1>1, <1>2, <2>1, RanTodo
<1>4. Shapes'
  BY <1>2, <1>3 DEF Shapes, Around, ScStill, StStill
<1>5. Still
  BY <1>2 DEF Still, Around, ScStill, StStill, RowStill, PcSame
<1>6. Tally'
  <2>1. Queued'
    BY <1>2, QueuedStill DEF ScStill, Around
  <2>2. IsSc(sc')
    BY <1>2 DEF ScStill
  <2>. QED  BY <1>5, <2>1, <2>2, TallyStill DEF Tally
<1>7. Turn'
  <2>1. ~At("startFrameWrite") /\ ~At("wroteFrame")
    BY <1>2 DEF At, First
  <2>2. writing' = writing /\ sc'.async = sc.async
    BY <1>2 DEF Around, ScStill
  <2>3. writing # NoFrame <=> (sc.async \/ At("wroteFrame"))
    BY DEF Inv, Turn
  <2>. QED  BY <1>3, <2>1, <2>2, <2>3 DEF Turn
<1>8. Kept'
  <2>. SUFFICES ASSUME NEW i \in Ids PROVE (st'[i].state = "closed" => Gone(i)') /\ Waits(i)'
    BY DEF Kept
  <2>1. (st[i].state = "closed" => Gone(i)) /\ Waits(i)
    BY DEF Inv, Kept
  <2>2. Gone(i) => Gone(i)'
    <3>1. (st[i].cw => st'[i].cw) /\ (sc.done => sc'.done) /\ (fault => fault')
      BY <1>2 DEF StStill, RowStill, ScStill, Counts, Around
    <3>. QED  BY <1>3, <3>1, GoneStill
  <2>3. st'[i].state = "closed" => st[i].state = "closed"
    BY <1>2 DEF StStill, RowStill, StateSame, Live
  <2>4. ASSUME NEW f, Somewhere(f) PROVE Somewhere(f)'
    <3>1. \A x \in ToSet(todo) : x.op \in Carriers => x \in ToSet(todo')
      BY <1>2, <1>3
    <3>. QED  BY <1>2, <2>4, <3>1 DEF Somewhere, Around
  <2>5. \A f : f.id = i /\ f.done = h[i].ch /\ f.done # 0 /\ Somewhere(f) => Follows(i, f)
    BY <2>4 DEF Follows
  <2>6. h' = h
    BY <1>2 DEF Around
  <2>7. h'[i].pc = "wait" => h[i].pc = "wait" /\ h'[i].ch = h[i].ch /\ (h[i].reply => h'[i].reply)
    BY <2>6
  <2>8. Waits(i)'
    BY <2>1, <2>2, <2>5, <2>7, WaitStill
  <2>. QED  BY <2>1, <2>2, <2>3, <2>8
<1>. QED  BY <1>4, <1>6, <1>7, <1>8 DEF Inv

\* Nothing happens to the connection, or to the streams.
LEMMA SameStill ==
  /\ IsSc(sc) => ScStill(sc, sc)
  /\ IsSt(st) => StStill(st, st)
<1>1. IsSc(sc) => ScStill(sc, sc)
  BY DEF ScStill, Counts, IsSc
<1>2. IsSt(st) => StStill(st, st)
  BY DEF StStill, RowStill, StateSame, IsSt, Table
<1>. QED  BY <1>1, <1>2

\* One row of the streams changes.
LEMMA StRow ==
  ASSUME NEW f, IsSt(f), NEW i \in Ids, NEW r, RowStill(f[i], r), NEW g, g = [f EXCEPT ![i] = r]
  PROVE  StStill(f, g)
<1>1. \A j \in Ids : g[j] = IF j = i THEN r ELSE f[j]
  BY DEF IsSt, Table
<1>2. g = [j \in Ids |-> g[j]]
  BY DEF IsSt, Table
<1>3. \A j \in Ids : Rec(f[j], StFields)
  BY DEF IsSt, Table
<1>. QED  BY <1>1, <1>2, <1>3 DEF StStill, RowStill, StateSame, IsSt, Table
----------------------------------------------------------------------------
(* The calls that are simple *)

\* What makes a call simple.
LEMMA SimpleIs ==
  ASSUME Around, ScStill(sc, sc'), StStill(st, st'), todo # <<>>,
         Head(todo).op \in {"scheduleFrameWrite", "noteReset", "sendWindowUpdate", "goAway", "endOfEvent", "process",
                           "scheduleLoop"},
         NEW calls, Put(calls), todo' = calls \o Tail(todo)
  PROVE  Simple
BY DEF Simple, Makes, First, Carriers

\* The frame that is being processed.
LEMMA Processed ==
  ASSUME Inv, At("process")
  PROVE  /\ todo # <<>> /\ Head(todo).op = "process" /\ IsIn(Now.f) /\ IsSc(sc) /\ IsSt(st)
         /\ ScStill(sc, sc) /\ StStill(st, st)
<1>1. IsTodo(todo) /\ IsSc(sc) /\ IsSt(st)
  BY DEF Inv, Shapes
<1>2. todo # <<>> /\ Head(todo).op = "process"
  BY DEF At
<1>3. IsCall(Head(todo))
  BY <1>1, <1>2, TodoHas
<1>. QED  BY <1>1, <1>2, <1>3, SameStill DEF IsCall, Now

\* An error of the connection counts the stream of the frame as seen.
LEMMA ConnErrorSays ==
  ASSUME IsSc(sc), NEW f, f.id \in Ids \cup {0}, ConnError(f)
  PROVE  ScStill(sc, sc') /\ Put(<<callGoAway("err")>>) /\ todo' = <<callGoAway("err")>> \o Tail(todo)
<1>1. PICK u : u = (IF f.id > sc.maxClient THEN f.id ELSE sc.maxClient) /\ sc' = [sc EXCEPT !.maxClient = u]
  BY Zenon DEF ConnError
<1>2. u \in Nat /\ u >= sc.maxClient
  BY <1>1, IdsFacts DEF IsSc
<1>3. sc' = [sc EXCEPT !.maxClient = u]
  BY <1>1
<1>4. ScStill(sc, sc')
  BY <1>2, <1>3, ScHas DEF ScStill, Counts, IsSc, Rec
<1>5. todo' = <<callGoAway("err")>> \o Tail(todo)
  BY DEF ConnError, Then
<1>. QED  BY <1>4, <1>5, ResetPut

\* scheduleFrameWrite.
LEMMA ScheduleStep == ASSUME Inv, scheduleFrameWrite PROVE Inv'
<1>1. IsSc(sc) /\ IsSt(st) /\ StStill(st, st)
  BY SameStill DEF Inv, Shapes
<1>2. PICK u : sc' = [sc EXCEPT !.inLoop = u]
  BY Zenon DEF scheduleFrameWrite
<1>3. ScStill(sc, sc')
  BY <1>1, <1>2, ScHas DEF ScStill, Counts, IsSc, Rec
<1>4. todo # <<>> /\ Head(todo).op = "scheduleFrameWrite" /\ todo' = tickle \o Tail(todo)
  BY DEF scheduleFrameWrite, At, Then
<1>5. Put(tickle)
  BY ResetPut, PutMade DEF tickle
<1>6. Around /\ st' = st
  BY DEF scheduleFrameWrite, Around
<1>. QED  BY <1>1, <1>3, <1>4, <1>5, <1>6, SimpleIs, SimpleSteps

\* noteReset.
LEMMA NoteResetStep == ASSUME Inv, noteReset PROVE Inv'
<1>1. IsSc(sc) /\ IsSt(st) /\ StStill(st, st) /\ ScStill(sc, sc) /\ IsTodo(todo)
  BY SameStill DEF Inv, Shapes
<1>2. todo # <<>> /\ Head(todo).op = "noteReset" /\ todo' = <<>> \o Tail(todo)
  BY DEF noteReset, At, Then
<1>3. PICK i \in Ids : i = Now.id
  BY <1>1, <1>2, TodoHas DEF IsCall, OnIds, Now
<1>4. StStill(st, st')
  <2>1. st' = st \/ st' = [st EXCEPT ![i].resetQueued = TRUE]
    BY <1>3 DEF noteReset
  <2>2. CASE st' = [st EXCEPT ![i].resetQueued = TRUE]
    BY <1>1, <2>2, StHas DEF StStill, RowStill, StateSame, IsSt, Table, Rec
  <2>. QED  BY <1>1, <2>1, <2>2
<1>5. Around /\ sc' = sc
  BY DEF noteReset, Around
<1>. QED  BY <1>1, <1>2, <1>4, <1>5, PutMade, SimpleIs, SimpleSteps

\* sendWindowUpdate.
LEMMA WindowStep == ASSUME Inv, sendWindowUpdate PROVE Inv'
<1>1. IsSc(sc) /\ IsSt(st) /\ StStill(st, st) /\ ScStill(sc, sc) /\ IsTodo(todo)
  BY SameStill DEF Inv, Shapes
<1>2. todo # <<>> /\ Head(todo).op = "sendWindowUpdate"
  BY DEF sendWindowUpdate, At
<1>3. PICK i \in Ids \cup {0} : i = Now.id
  BY <1>1, <1>2, TodoHas DEF IsCall, Now
<1>4. PICK r : /\ IF i = 0 THEN sc' = [sc EXCEPT !.avail = r.avail, !.unsent = r.unsent] /\ st' = st
                  ELSE st' = [st EXCEPT ![i].avail = r.avail, ![i].unsent = r.unsent] /\ sc' = sc
               /\ todo' = (IF r.send = 0 THEN <<>> ELSE <<callWith("writeFrame", frame("windowUpdate", i))>>) \o Tail(todo)
  BY <1>3, Zenon DEF sendWindowUpdate, Then
<1>5. ScStill(sc, sc') /\ StStill(st, st')
  <2>1. CASE i = 0
    <3>1. sc' = [sc EXCEPT !.avail = r.avail, !.unsent = r.unsent] /\ st' = st
      BY <1>4, <2>1
    <3>2. ScStill(sc, sc')
      BY <1>1, <3>1, ScHas DEF ScStill, Counts, IsSc, Rec
    <3>. QED  BY <1>1, <3>1, <3>2
  <2>2. CASE i # 0
    <3>1. st' = [st EXCEPT ![i].avail = r.avail, ![i].unsent = r.unsent] /\ sc' = sc /\ i \in Ids
      BY <1>4, <2>2
    <3>2. StStill(st, st')
      BY <1>1, <3>1, StHas DEF StStill, RowStill, StateSame, IsSt, Table, Rec
    <3>. QED  BY <1>1, <3>1, <3>2
  <2>. QED  BY <2>1, <2>2
<1>6. Around
  BY DEF sendWindowUpdate, Around
<1>7. PICK calls : Put(calls) /\ todo' = calls \o Tail(todo)
  <2>1. Put(<<>>) /\ Put(<<callWith("writeFrame", frame("windowUpdate", i))>>)
    BY PutMade, ResetPut DEF OnStream
  <2>. QED  BY <1>4, <2>1
<1>. QED  BY <1>2, <1>5, <1>6, <1>7, SimpleIs, SimpleSteps

\* goAway.
LEMMA GoAwayStep == ASSUME Inv, goAway PROVE Inv'
<1>1. IsSc(sc) /\ IsSt(st) /\ StStill(st, st) /\ ScStill(sc, sc)
  BY SameStill DEF Inv, Shapes
<1>2. todo # <<>> /\ Head(todo).op = "goAway" /\ Around /\ st' = st
  BY DEF goAway, At, Around
<1>3. PICK u, calls :
        /\ sc' = [sc EXCEPT !.code = u] \/ sc' = [sc EXCEPT !.inGoAway = TRUE, !.needGoAway = TRUE, !.code = u]
        /\ Put(calls) /\ todo' = calls \o Tail(todo)
  <2>1. Put(<<>>) /\ Put(<<call("scheduleFrameWrite")>>)
    BY PutMade, ResetPut
  <2>2. CASE sc.inGoAway
    BY <2>1, <2>2, Zenon DEF goAway, Then
  <2>3. CASE ~sc.inGoAway
    BY <2>1, <2>3, Zenon DEF goAway, Then
  <2>. QED  BY <2>2, <2>3
<1>4. ScStill(sc, sc')
  <2>1. CASE sc' = [sc EXCEPT !.code = u]
    BY <1>1, <2>1, ScHas DEF ScStill, Counts, IsSc, Rec
  <2>2. CASE sc' = [sc EXCEPT !.inGoAway = TRUE, !.needGoAway = TRUE, !.code = u]
    BY <1>1, <2>2, ScHas DEF ScStill, Counts, IsSc, Rec
  <2>. QED  BY <1>3, <2>1, <2>2
<1>. QED  BY <1>1, <1>2, <1>3, <1>4, SimpleIs, SimpleSteps

\* endOfEvent.
LEMMA EndOfEventStep == ASSUME Inv, endOfEvent PROVE Inv'
<1>1. IsSc(sc) /\ IsSt(st) /\ StStill(st, st) /\ ScStill(sc, sc)
  BY SameStill DEF Inv, Shapes
<1>2. todo # <<>> /\ Head(todo).op = "endOfEvent" /\ Around /\ st' = st
  BY DEF endOfEvent, At, Around
<1>3. PICK u, calls : sc' = [sc EXCEPT !.timer = u] /\ Put(calls) /\ todo' = calls \o Tail(todo)
  <2>1. Put(<<>>) /\ Put(<<call("stop")>>)
    BY PutMade, ResetPut
  <2>2. \E calls : Put(calls) /\ todo' = calls \o Tail(todo)
    BY <2>1 DEF endOfEvent, Then
  <2>3. \E u : sc' = [sc EXCEPT !.timer = u]
    BY Zenon DEF endOfEvent
  <2>. QED  BY <2>2, <2>3
<1>4. ScStill(sc, sc')
  BY <1>1, <1>3, ScHas DEF ScStill, Counts, IsSc, Rec
<1>. QED  BY <1>1, <1>2, <1>3, <1>4, SimpleIs, SimpleSteps
----------------------------------------------------------------------------
(* The frames that are simple *)

\* What a frame does that changes little.
LEMMA FrameSimple ==
  ASSUME Inv, At("process"), Around, ScStill(sc, sc'), StStill(st, st'),
         NEW calls, Put(calls), todo' = calls \o Tail(todo)
  PROVE  Inv'
BY Processed, SimpleIs, SimpleSteps

\* Fields of the connection that the invariant is not about.
LEMMA ScOther ==
  ASSUME IsSc(sc), NEW r
  PROVE  /\ \A u : r = [sc EXCEPT !.sawSettings = u] => ScStill(sc, r)
         /\ \A u : r = [sc EXCEPT !.avail = u] => ScStill(sc, r)
         /\ \A u : r = [sc EXCEPT !.flow = u] => ScStill(sc, r)
         /\ \A u : r = [sc EXCEPT !.pushEnabled = u] => ScStill(sc, r)
         /\ \A u : r = [sc EXCEPT !.needFlush = u] => ScStill(sc, r)
<1>1. \A u : r = [sc EXCEPT !.sawSettings = u] => ScStill(sc, r)
  BY ScHas DEF ScStill, Counts, IsSc, Rec
<1>2. \A u : r = [sc EXCEPT !.avail = u] => ScStill(sc, r)
  BY ScHas DEF ScStill, Counts, IsSc, Rec
<1>3. \A u : r = [sc EXCEPT !.flow = u] => ScStill(sc, r)
  BY ScHas DEF ScStill, Counts, IsSc, Rec
<1>4. \A u : r = [sc EXCEPT !.pushEnabled = u] => ScStill(sc, r)
  BY ScHas DEF ScStill, Counts, IsSc, Rec
<1>7. \A u : r = [sc EXCEPT !.needFlush = u] => ScStill(sc, r)
  BY ScHas DEF ScStill, Counts, IsSc, Rec
<1>. QED  BY <1>1, <1>2, <1>3, <1>4, <1>7

\* A frame that is too large.
LEMMA TooLargeStep == ASSUME Inv, processReadError, Now.f.kind # "eof" PROVE Inv'
<1>1. At("process") /\ Around /\ sc' = sc /\ st' = st /\ todo' = <<callGoAway("err")>> \o Tail(todo)
  BY DEF processReadError, Around, Then
<1>. QED  BY <1>1, Processed, ResetPut, FrameSimple

\* Frames before SETTINGS, and after GOAWAY.
LEMMA DiscardStep == ASSUME Inv, processDiscard PROVE Inv'
<1>1. At("process") /\ Around /\ st' = st
  BY DEF processDiscard, Processing, Around
<1>2. IsIn(Now.f) /\ IsSc(sc) /\ ScStill(sc, sc) /\ StStill(st, st)
  BY <1>1, Processed
<1>3. PICK f : f = Now.f
  OBVIOUS
<1>4. CASE ConnError(f)
  BY <1>1, <1>2, <1>3, <1>4, ConnErrorSays, FrameSimple DEF IsIn
<1>5. CASE f.kind = "data" /\ sc' = sc /\ Then(streamError(f.id))
  <2>1. f.id \in Ids /\ todo' = resetStream(f.id) \o Tail(todo)
    BY <1>2, <1>3, <1>5 DEF IsIn, Then, streamError
  <2>. QED  BY <1>1, <1>2, <1>5, <2>1, ResetPut, FrameSimple
<1>6. CASE sc' = [sc EXCEPT !.avail = @ - f.n] /\ Then(<<callWindow(0, f.n)>>)
  <2>1. ScStill(sc, sc')
    BY <1>2, <1>6, ScOther
  <2>2. todo' = <<callWindow(0, f.n)>> \o Tail(todo) /\ Put(<<callWindow(0, f.n)>>)
    BY <1>6, ResetPut DEF Then
  <2>. QED  BY <1>1, <1>2, <2>1, <2>2, FrameSimple
<1>7. CASE sc' = [sc EXCEPT !.sawSettings = TRUE] /\ Then(<<>>)
  <2>1. ScStill(sc, sc')
    BY <1>2, <1>7, ScOther
  <2>2. todo' = <<>> \o Tail(todo) /\ Put(<<>>)
    BY <1>7, PutMade DEF Then
  <2>. QED  BY <1>1, <1>2, <2>1, <2>2, FrameSimple
<1>. QED  BY <1>3, <1>4, <1>5, <1>6, <1>7, Zenon DEF processDiscard

\* SETTINGS.
LEMMA SettingsStep == ASSUME Inv, processSettings PROVE Inv'
<1>1. At("process") /\ Around
  BY DEF processSettings, Handle, Processing, Around
<1>2. IsIn(Now.f) /\ IsSc(sc) /\ IsSt(st) /\ ScStill(sc, sc) /\ StStill(st, st)
  BY <1>1, Processed
<1>. DEFINE Grown(grow, done) == st' = [i \in Ids |-> IF i \in done THEN [st[i] EXCEPT !.flow = @ + grow] ELSE st[i]]
<1>3. \/ /\ \E u, v : sc' = [sc EXCEPT !.sawSettings = u, !.unacked = v]
         /\ st' = st
      \/ /\ \E u, v, w, x : sc' = [sc EXCEPT !.sawSettings = u, !.initWin = v, !.pushEnabled = w, !.needAck = x]
         /\ \E grow, done : Grown(grow, done)
  <2>1. CASE Now.f.ack
    <3>1. sc' = [[sc EXCEPT !.sawSettings = TRUE] EXCEPT !.unacked = @ - 1] /\ st' = st
      BY <2>1, Zenon DEF processSettings
    <3>2. sc' = [sc EXCEPT !.sawSettings = TRUE, !.unacked = [sc EXCEPT !.sawSettings = TRUE].unacked - 1]
      BY <3>1, Zenon
    <3>. QED  BY <3>1, <3>2, Zenon
  <2>2. CASE ~Now.f.ack
    <3>1. PICK x : sc' = [[sc EXCEPT !.sawSettings = TRUE] EXCEPT !.initWin = Now.f.win, !.pushEnabled = Now.f.push, !.needAck = x]
      BY <2>2, Zenon DEF processSettings
    <3>2. sc' = [sc EXCEPT !.sawSettings = TRUE, !.initWin = Now.f.win, !.pushEnabled = Now.f.push, !.needAck = x]
      BY <3>1, Zenon
    <3>3. \E grow, done : Grown(grow, done)
      <4>1. \E done : st' = [i \in Ids |-> IF i \in done THEN [st[i] EXCEPT !.flow = @ + (Now.f.win - sc.initWin)] ELSE st[i]]
        BY <2>2, Zenon DEF processSettings
      <4>. QED  BY <4>1, Zenon
    <3>. QED  BY <3>2, <3>3, Zenon
  <2>. QED  BY <2>1, <2>2
<1>4. ScStill(sc, sc')
  <2>1. ASSUME NEW u, NEW v, sc' = [sc EXCEPT !.sawSettings = u, !.unacked = v] PROVE ScStill(sc, sc')
    BY <1>2, <2>1, ScHas DEF ScStill, Counts, IsSc, Rec
  <2>2. ASSUME NEW u, NEW v, NEW w, NEW x, sc' = [sc EXCEPT !.sawSettings = u, !.initWin = v, !.pushEnabled = w, !.needAck = x]
        PROVE  ScStill(sc, sc')
    BY <1>2, <2>2, ScHas DEF ScStill, Counts, IsSc, Rec
  <2>. QED  BY <1>3, <2>1, <2>2
<1>5. StStill(st, st')
  <2>1. CASE st' = st
    BY <1>2, <2>1
  <2>2. ASSUME NEW grow, NEW done, Grown(grow, done)
        PROVE  StStill(st, st')
    <3>1. ASSUME NEW i \in Ids PROVE RowStill(st[i], st'[i])
      <4>1. st'[i] = st[i] \/ st'[i] = [st[i] EXCEPT !.flow = st[i].flow + grow]
        BY <2>2
      <4>2. Rec(st[i], StFields)
        BY <1>2 DEF IsSt, Table
      <4>. QED  BY <4>1, <4>2, StHas DEF RowStill, StateSame, Rec
    <3>2. st' = [i \in Ids |-> st'[i]]
      BY <2>2
    <3>. QED  BY <3>1, <3>2 DEF StStill, IsSt, Table, RowStill
  <2>. HIDE DEF Grown
  <2>. QED  BY <1>3, <2>1, <2>2
<1>6. PICK calls : Put(calls) /\ todo' = calls \o Tail(todo)
  <2>1. Put(<<>>) /\ Put(<<call("scheduleFrameWrite")>>) /\ Put(<<callGoAway("err")>>)
    BY PutMade, ResetPut
  <2>2. CASE Now.f.ack
    BY <2>1, <2>2 DEF processSettings, Then
  <2>3. CASE ~Now.f.ack
    BY <2>1, <2>3 DEF processSettings, Then
  <2>. QED  BY <2>2, <2>3
<1>. QED  BY <1>1, <1>4, <1>5, <1>6, FrameSimple

\* Frames that are answered, or that end the connection.
LEMMA AnswerSteps ==
  ASSUME Inv, processPing \/ processPriority \/ processGoAway \/ processPushPromise \/ processResetStream
  PROVE  Inv'
<1>1. At("process") /\ Around /\ st' = st
  BY DEF processPing, processPriority, processGoAway, processPushPromise, processResetStream, Handle, Processing, Around
<1>2. IsIn(Now.f) /\ IsSc(sc) /\ ScStill(sc, sc) /\ StStill(st, st)
  BY <1>1, Processed
<1>3. CASE processPing
  <2>1. Put(<<callWith("writeFrame", frame("pingAck", 0))>>)
    BY ResetPut DEF OnStream
  <2>2. sc' = sc /\ todo' = <<callWith("writeFrame", frame("pingAck", 0))>> \o Tail(todo)
    BY <1>3 DEF processPing, Then
  <2>. QED  BY <1>1, <1>2, <2>1, <2>2, FrameSimple
<1>4. CASE processPriority
  <2>1. Now.f.id \in Ids
    BY <1>2, <1>4 DEF processPriority, Handle, IsIn
  <2>2. sc' = sc /\ todo' = resetStream(Now.f.id) \o Tail(todo)
    BY <1>4 DEF processPriority, Then, streamError
  <2>. QED  BY <1>1, <1>2, <2>1, <2>2, ResetPut, FrameSimple
<1>5. CASE processGoAway
  <2>1. sc' = [sc EXCEPT !.pushEnabled = FALSE] /\ todo' = <<callGoAway("No")>> \o Tail(todo)
    BY <1>5 DEF processGoAway, Then
  <2>2. ScStill(sc, sc')
    BY <1>2, <2>1, ScOther
  <2>. QED  BY <1>1, <1>2, <2>1, <2>2, ResetPut, FrameSimple
<1>6. CASE ConnError(Now.f)
  BY <1>1, <1>2, <1>6, ConnErrorSays, FrameSimple DEF IsIn
<1>7. CASE processPushPromise
  BY <1>6, <1>7 DEF processPushPromise
<1>8. CASE processResetStream
  <2>1. Now.f.id \in Ids
    BY <1>2, <1>8 DEF processResetStream, Handle, IsIn
  <2>2. CASE stateOf(Now.f.id) # "idle"
    <3>1. sc' = sc /\ todo' = (IF open(Now.f.id) THEN <<callOn("closeStream", Now.f.id)>> ELSE <<>>) \o Tail(todo)
      BY <1>8, <2>2 DEF processResetStream, Then
    <3>2. Put(<<callOn("closeStream", Now.f.id)>>) /\ Put(<<>>)
      BY <2>1, ResetPut, PutMade
    <3>3. PICK calls : Put(calls) /\ todo' = calls \o Tail(todo)
      BY <3>1, <3>2
    <3>. QED  BY <1>1, <1>2, <3>1, <3>3, FrameSimple
  <2>. QED  BY <1>6, <1>8, <2>2 DEF processResetStream
<1>. QED  BY <1>3, <1>4, <1>5, <1>7, <1>8

\* WINDOW_UPDATE.
LEMMA WindowUpdateStep == ASSUME Inv, processWindowUpdate PROVE Inv'
<1>1. At("process") /\ Around
  BY DEF processWindowUpdate, Handle, Processing, Around
<1>2. IsIn(Now.f) /\ IsSc(sc) /\ IsSt(st) /\ ScStill(sc, sc) /\ StStill(st, st)
  BY <1>1, Processed
<1>3. PICK f : f = Now.f /\ f.id \in Ids \cup {0}
  BY <1>2 DEF IsIn
<1>4. /\ Put(<<>>) /\ Put(<<call("scheduleFrameWrite")>>) /\ Put(<<callGoAway("err")>>)
      /\ (f.id # 0 => Put(resetStream(f.id)))
  BY <1>3, PutMade, ResetPut
<1>5. CASE ConnError(f) /\ st' = st
  BY <1>1, <1>2, <1>3, <1>5, ConnErrorSays, FrameSimple
<1>6. CASE Then(<<>>) /\ sc' = sc /\ st' = st
  BY <1>1, <1>2, <1>4, <1>6, FrameSimple DEF Then
<1>7. CASE f.id # 0 /\ Then(streamError(f.id)) /\ st' = st /\ sc' = sc
  <2>1. todo' = resetStream(f.id) \o Tail(todo)
    BY <1>7 DEF Then, streamError
  <2>. QED  BY <1>1, <1>2, <1>4, <1>7, <2>1, FrameSimple
<1>8. CASE f.id # 0 /\ (\E u : st' = [st EXCEPT ![f.id].flow = u]) /\ Then(<<call("scheduleFrameWrite")>>) /\ sc' = sc
  <2>1. PICK u : st' = [st EXCEPT ![f.id].flow = u]
    BY <1>8
  <2>2. PICK i \in Ids : i = f.id
    BY <1>3, <1>8
  <2>3. st' = [st EXCEPT ![i].flow = u]
    BY <2>1, <2>2
  <2>4. StStill(st, st')
    BY <1>2, <2>3, StHas DEF StStill, RowStill, StateSame, IsSt, Table, Rec
  <2>. QED  BY <1>1, <1>2, <1>4, <1>8, <2>4, FrameSimple DEF Then
<1>9. CASE Then(<<callGoAway("err")>>) /\ sc' = sc /\ st' = st
  BY <1>1, <1>2, <1>4, <1>9, FrameSimple DEF Then
<1>10. CASE (\E u : sc' = [sc EXCEPT !.flow = u]) /\ Then(<<call("scheduleFrameWrite")>>) /\ st' = st
  <2>1. ScStill(sc, sc')
    BY <1>2, <1>10, ScOther
  <2>. QED  BY <1>1, <1>2, <1>4, <1>10, <2>1, FrameSimple DEF Then
<1>. QED  BY <1>3, <1>5, <1>6, <1>7, <1>8, <1>9, <1>10, Zenon DEF processWindowUpdate
----------------------------------------------------------------------------
(* DATA, trailers, and assertions that fail *)

\* An assertion that fails ends the loop.
LEMMA FailSteps ==
  ASSUME Inv, Fail, ~At("wroteFrame"), sc' = sc, st' = st, h' = h, q' = q, writing' = writing, want' = want,
         msgs' = msgs, left' = left
  PROVE  Inv'
<1>1. Shapes'
  <2>1. IsTodo(<<>>)
    BY ListShort DEF IsTodo
  <2>. QED  BY <2>1 DEF Inv, Shapes, Fail
<1>2. Tally'
  BY DEF Inv, Tally, Counted, Queued, Handled, Lined, Fresh, Begun
<1>3. Turn'
  <2>1. ~At("startFrameWrite")' /\ ~At("wroteFrame")'
    BY DEF Fail, At
  <2>2. writing # NoFrame <=> (sc.async \/ At("wroteFrame"))
    BY DEF Inv, Turn
  <2>. QED  BY <2>1, <2>2 DEF Turn
<1>4. Kept'
  <2>1. \A i \in Ids : Gone(i)'
    BY DEF Gone, Fail
  <2>2. \A i \in Ids : h[i].pc = "wait" => h[i].ch # 0
    BY DEF Inv, Kept, Waits
  <2>. QED  BY <2>1, <2>2 DEF Kept, Waits
<1>. QED  BY <1>1, <1>2, <1>3, <1>4 DEF Inv

\* The end of the client's side of a stream.
LEMMA EndedRow ==
  ASSUME NEW s, Rec(s, StFields), s.state = "open", NEW r, r = [s EXCEPT !.closed = TRUE, !.state = "halfClosedRemote"]
  PROVE  RowStill(s, r)
BY StHas DEF RowStill, StateSame, Rec, Live

\* DATA.
LEMMA DataStep == ASSUME Inv, processData PROVE Inv'
<1>1. At("process") /\ h' = h /\ q' = q /\ writing' = writing /\ want' = want /\ msgs' = msgs /\ left' = left
  BY DEF processData, Handle, Processing
<1>2. IsIn(Now.f) /\ IsSc(sc) /\ IsSt(st) /\ ScStill(sc, sc) /\ StStill(st, st)
  BY <1>1, Processed
<1>3. PICK f, i : f = Now.f /\ i = f.id /\ i \in Ids
  BY <1>2 DEF IsIn, processData, Handle
<1>4. PICK s : s = st[i] /\ Rec(s, StFields)
  BY <1>2, <1>3 DEF IsSt, Table
<1>5. /\ Put(<<>>) /\ Put(resetStream(i)) /\ Put(<<callWindow(0, f.n)>>)
      /\ Put(<<callWindow(0, f.n)>> \o resetStream(i)) /\ Put(<<callWindow(0, f.n)>> \o <<>>)
      /\ Put(<<callWindow(0, 0), callWindow(i, 0)>>)
  <2>1. Put(<<>>) /\ Put(resetStream(i)) /\ Put(<<callWindow(0, f.n)>>)
    BY <1>3, PutMade, ResetPut
  <2>2. Put(<<callWindow(0, 0), callWindow(i, 0)>>)
    BY <1>3, PutMade, CallIs DEF First
  <2>. QED  BY <2>1, <2>2, PutMade
<1>. DEFINE takes(n) == sc' = [sc EXCEPT !.avail = @ - n]
            unwanted == ~open(i) \/ s.state # "open" \/ s.gotTrailer \/ s.resetQueued
            ended == IF f.end THEN [s EXCEPT !.closed = TRUE, !.state = "halfClosedRemote"] ELSE s
            took == [ended EXCEPT !.avail = @ - f.n, !.bytes = @ + f.n]
<1>6. takes(f.n) => ScStill(sc, sc')
  BY <1>2, ScOther
<1>7. ~unwanted => RowStill(s, ended)
  BY <1>4, EndedRow DEF RowStill, StateSame
<1>8. CASE stateOf(i) = "idle" /\ ConnError(f) /\ st' = st /\ fault' = fault
  BY <1>1, <1>2, <1>3, <1>8, ConnErrorSays, FrameSimple DEF Around
<1>9. CASE Fail /\ sc' = sc /\ st' = st
  BY <1>1, <1>9, FailSteps DEF At
<1>10. CASE Then(streamError(i)) /\ sc' = sc /\ st' = st /\ fault' = fault
  BY <1>1, <1>2, <1>5, <1>10, FrameSimple DEF Around, Then, streamError
<1>11. CASE /\ takes(f.n) /\ st' = st /\ fault' = fault
            /\ Then(<<callWindow(0, f.n)>> \o (IF open(i) /\ s.resetQueued THEN <<>> ELSE streamError(i)))
  <2>1. PICK calls : Put(calls) /\ todo' = calls \o Tail(todo)
    BY <1>5, <1>11 DEF Then, streamError
  <2>. QED  BY <1>1, <1>2, <1>6, <1>11, <2>1, FrameSimple DEF Around
<1>12. CASE /\ takes(f.n) /\ st' = [st EXCEPT ![i].closed = TRUE] /\ fault' = fault
            /\ Then(<<callWindow(0, f.n)>> \o streamError(i))
  <2>1. PICK calls : Put(calls) /\ todo' = calls \o Tail(todo)
    BY <1>5, <1>12 DEF Then, streamError
  <2>2. st' = [st EXCEPT ![i].closed = TRUE]
    BY <1>12
  <2>3. StStill(st, st')
    BY <1>2, <1>3, <2>2, StHas DEF StStill, RowStill, StateSame, IsSt, Table, Rec
  <2>. QED  BY <1>1, <1>6, <1>12, <2>1, <2>3, FrameSimple DEF Around
<1>13. CASE ~unwanted /\ st' = [st EXCEPT ![i] = ended] /\ Then(<<>>) /\ sc' = sc /\ fault' = fault
  <2>1. PICK r : r = ended
    BY Zenon
  <2>2. RowStill(st[i], r) /\ st' = [st EXCEPT ![i] = r]
    BY <1>4, <1>7, <1>13, <2>1
  <2>3. StStill(st, st')
    BY <1>2, <1>3, <2>2, StRow
  <2>. QED  BY <1>1, <1>2, <1>5, <1>13, <2>3, FrameSimple DEF Around, Then
<1>14. CASE /\ ~unwanted /\ takes(f.n) /\ fault' = fault
            /\ IF s.closed \/ s.broken
               THEN /\ st' = [st EXCEPT ![i] = [took EXCEPT !.state = s.state, !.closed = s.closed]]
                    /\ Then(<<callWindow(0, f.n)>>)
               ELSE /\ st' = [st EXCEPT ![i] = [took EXCEPT !.buf = @ + f.n]]
                    /\ Then(<<callWindow(0, 0), callWindow(i, 0)>>)
  <2>1. PICK e : e = ended /\ RowStill(s, e)
    BY <1>7, <1>14
  <2>2. PICK u, v, t : t = took /\ t = [e EXCEPT !.avail = u, !.bytes = v]
    BY <2>1, Zenon
  <2>3. t = [e EXCEPT !.avail = u, !.bytes = v]
    BY <2>2
  <2>4. RowStill(s, t)
    BY <2>1, <2>3, StHas DEF RowStill, StateSame, Rec
  <2>5. PICK calls : Put(calls) /\ todo' = calls \o Tail(todo)
    BY <1>5, <1>14 DEF Then
  <2>6. PICK r : st' = [st EXCEPT ![i] = r] /\ RowStill(s, r)
    <3>1. CASE s.closed \/ s.broken
      <4>1. PICK r : r = [t EXCEPT !.state = s.state, !.closed = s.closed]
        BY Zenon
      <4>2. st' = [st EXCEPT ![i] = r]
        BY <1>14, <2>2, <3>1, <4>1
      <4>3. RowStill(s, r)
        BY <2>4, <4>1, StHas DEF RowStill, StateSame, Rec
      <4>. QED  BY <4>2, <4>3
    <3>2. CASE ~(s.closed \/ s.broken)
      <4>1. PICK w, r : r = [t EXCEPT !.buf = w] /\ st' = [st EXCEPT ![i] = r]
        BY <1>14, <2>2, <3>2, Zenon
      <4>2. r = [t EXCEPT !.buf = w]
        BY <4>1
      <4>3. RowStill(s, r)
        BY <2>4, <4>2, StHas DEF RowStill, StateSame, Rec
      <4>. QED  BY <4>1, <4>3
    <3>. QED  BY <3>1, <3>2
  <2>7. StStill(st, st')
    BY <1>2, <1>3, <1>4, <2>6, StRow
  <2>. QED  BY <1>1, <1>6, <1>14, <2>5, <2>7, FrameSimple DEF Around
<1>. QED  BY <1>3, <1>4, <1>8, <1>9, <1>10, <1>11, <1>12, <1>13, <1>14, Zenon DEF processData

\* Trailers.
LEMMA TrailersStep == ASSUME Inv, processTrailers PROVE Inv'
<1>1. At("process") /\ Around
  BY DEF processTrailers, Handle, Processing, Around
<1>2. IsIn(Now.f) /\ IsSc(sc) /\ IsSt(st) /\ ScStill(sc, sc) /\ StStill(st, st)
  BY <1>1, Processed
<1>3. PICK f, i : f = Now.f /\ i = f.id /\ i \in Ids /\ st[i].state \in Live
  BY <1>2 DEF IsIn, processTrailers, Handle, open
<1>4. Put(<<>>) /\ Put(resetStream(i))
  BY <1>3, PutMade, ResetPut
<1>5. CASE Then(<<>>) /\ sc' = sc /\ st' = st
  BY <1>1, <1>2, <1>4, <1>5, FrameSimple DEF Then
<1>6. CASE Then(streamError(i)) /\ sc' = sc /\ st' = st
  BY <1>1, <1>2, <1>4, <1>6, FrameSimple DEF Then, streamError
<1>7. CASE ConnError(f) /\ st' = st
  BY <1>1, <1>2, <1>3, <1>7, ConnErrorSays, FrameSimple
<1>8. CASE /\ \E u, v : /\ st' = [st EXCEPT ![i].gotTrailer = TRUE, ![i].closed = u, ![i].state = v]
                        /\ v = "halfClosedRemote" \/ v = st[i].state
           /\ (Then(<<>>) \/ Then(streamError(i))) /\ sc' = sc
  <2>1. PICK u, v : /\ st' = [st EXCEPT ![i].gotTrailer = TRUE, ![i].closed = u, ![i].state = v]
                    /\ v = "halfClosedRemote" \/ v = st[i].state
    BY <1>8
  <2>2. st' = [st EXCEPT ![i].gotTrailer = TRUE, ![i].closed = u, ![i].state = v]
    BY <2>1
  <2>3. v \in Live
    BY <1>3, <2>1 DEF Live
  <2>4. StStill(st, st')
    BY <1>2, <1>3, <2>2, <2>3, StHas DEF StStill, RowStill, StateSame, IsSt, Table, Rec
  <2>5. PICK calls : Put(calls) /\ todo' = calls \o Tail(todo)
    BY <1>4, <1>8 DEF Then, streamError
  <2>. QED  BY <1>1, <1>2, <1>8, <2>4, <2>5, FrameSimple
<1>. QED
  <2>1. CASE st[i].resetQueued
    BY <1>3, <1>5, <2>1, Zenon DEF processTrailers
  <2>2. CASE ~st[i].resetQueued /\ st[i].state = "halfClosedRemote"
    BY <1>3, <1>6, <2>2, Zenon DEF processTrailers
  <2>3. CASE ~st[i].resetQueued /\ st[i].state # "halfClosedRemote"
    <3>1. CASE st[i].gotTrailer
      BY <1>3, <1>7, <2>3, <3>1, Zenon DEF processTrailers
    <3>2. CASE ~st[i].gotTrailer
      <4>1. /\ st' = [st EXCEPT ![i].gotTrailer = TRUE, ![i].closed = @ \/ (f.end /\ f.good),
                               ![i].state = IF f.end /\ f.good THEN "halfClosedRemote" ELSE @]
            /\ Then(IF f.end /\ f.good THEN <<>> ELSE streamError(i)) /\ sc' = sc
        BY <1>3, <2>3, <3>2, Zenon DEF processTrailers
      <4>2. CASE f.end /\ f.good
        <5>1. /\ st' = [st EXCEPT ![i].gotTrailer = TRUE, ![i].closed = @ \/ (f.end /\ f.good), ![i].state = "halfClosedRemote"]
              /\ Then(<<>>)
          BY <4>1, <4>2
        <5>. QED  BY <1>8, <4>1, <5>1, Zenon
      <4>3. CASE ~(f.end /\ f.good)
        <5>1. /\ st' = [st EXCEPT ![i].gotTrailer = TRUE, ![i].closed = @ \/ (f.end /\ f.good), ![i].state = st[i].state]
              /\ Then(streamError(i))
          BY <4>1, <4>3
        <5>. QED  BY <1>8, <4>1, <5>1, Zenon
      <4>. QED  BY <4>2, <4>3
    <3>. QED  BY <3>1, <3>2
  <2>. QED  BY <2>1, <2>2, <2>3
----------------------------------------------------------------------------
(* The calls that write frames *)

\* A list with another first element.
LEMMA ListReplace ==
  ASSUME NEW s, List(s), s # <<>>, NEW e, NEW r, r = [s EXCEPT ![1] = e]
  PROVE  List(r) /\ ToSet(r) = {e} \cup ToSet(Tail(s)) /\ r # <<>>
<1>. DEFINE X == ToSet(s) \cup {e}
<1>1. s \in Seq(X) /\ e \in X /\ Len(s) \in Nat \ {0}
  BY ListTail DEF List
<1>. HIDE DEF X
<1>2. r \in Seq(X) /\ Len(r) = Len(s) /\ r[1] = e /\ \A i \in 1 .. Len(s) : i # 1 => r[i] = s[i]
  <2>1. DOMAIN s = 1 .. Len(s) /\ s = [i \in 1 .. Len(s) |-> s[i]] /\ \A i \in 1 .. Len(s) : s[i] \in X
    BY <1>1
  <2>2. /\ DOMAIN r = 1 .. Len(s) /\ r = [i \in 1 .. Len(s) |-> r[i]]
        /\ \A i \in 1 .. Len(s) : r[i] = IF i = 1 THEN e ELSE s[i]
    BY <2>1, Zenon
  <2>3. r \in [1 .. Len(s) -> X]
    BY <1>1, <2>1, <2>2
  <2>4. r \in Seq(X) /\ Len(r) = Len(s)
    BY <1>1, <2>3
  <2>5. 1 \in 1 .. Len(s)
    BY <1>1
  <2>6. r[1] = e /\ \A i \in 1 .. Len(s) : i # 1 => r[i] = s[i]
    BY <2>2, <2>5, Zenon
  <2>. QED  BY <2>4, <2>6, Zenon
<1>3. \A x : x \in ToSet(r) <=> \E i \in 1 .. Len(r) : r[i] = x
  <2>1. PICK t : t = r
    BY Zenon
  <2>2. t \in Seq(X)
    BY <1>2, <2>1
  <2>3. \A x : x \in ToSet(t) <=> \E i \in 1 .. Len(t) : t[i] = x
    BY <2>2, ElementsOf, Zenon
  <2>. QED  BY <2>1, <2>3
<1>10. PICK t : t = Tail(s)
  OBVIOUS
<1>11. Len(t) = Len(s) - 1 /\ List(t) /\ \A i \in 1 .. Len(s) - 1 : t[i] = s[i + 1]
  BY <1>10, ListTail
<1>4. \A x : x \in ToSet(t) <=> \E i \in 1 .. Len(s) - 1 : t[i] = x
  BY <1>11, ListElements
<1>5. ASSUME NEW x \in ToSet(r) PROVE x \in {e} \cup ToSet(t)
  <2>1. PICK i \in 1 .. Len(r) : r[i] = x
    BY <1>3, <1>5
  <2>2. CASE i # 1
    <3>1. i - 1 \in 1 .. Len(s) - 1 /\ (i - 1) + 1 = i
      BY <1>1, <1>2, <2>2
    <3>2. t[i - 1] = x
      BY <1>2, <1>11, <2>1, <2>2, <3>1
    <3>. QED  BY <1>4, <3>1, <3>2
  <2>. QED  BY <1>2, <2>1, <2>2
<1>6. ASSUME NEW x \in {e} \cup ToSet(t) PROVE x \in ToSet(r)
  <2>1. CASE x = e
    <3>1. 1 \in 1 .. Len(r)
      BY <1>1, <1>2
    <3>. QED  BY <1>2, <1>3, <2>1, <3>1
  <2>2. CASE x \in ToSet(t)
    <3>1. PICK i \in 1 .. Len(s) - 1 : t[i] = x
      BY <1>4, <2>2
    <3>2. i + 1 \in 1 .. Len(r) /\ i + 1 # 1 /\ r[i + 1] = x
      BY <1>1, <1>2, <1>11, <3>1
    <3>. QED  BY <1>3, <3>2
  <2>. QED  BY <1>6, <2>1, <2>2
<1>7. ToSet(r) = {e} \cup ToSet(t)
  BY <1>5, <1>6
<1>8. List(r)
  BY <1>2, ListOf, Zenon
<1>9. r # <<>>
  BY <1>1, <1>2
<1>. QED  BY <1>7, <1>8, <1>9, <1>10

\* No frame is none.
LEMMA FrameSome == \A f : IsFr(f) => f # NoFrame
BY DEF IsFr, NoFrame

\* The frame a call has with it.
LEMMA CallFrame ==
  ASSUME Inv, todo # <<>>, Head(todo).op \in Carriers
  PROVE  IsFr(Now.wr)
<1>1. IsTodo(todo)
  BY DEF Inv, Shapes
<1>. QED  BY <1>1, TodoHas DEF IsCall, Now

\* writeFrame: a waiting handler's frame goes to its stream's queue, unless the
\* stream is closed.
LEMMA WriteFrameStep == ASSUME Inv, writeFrame PROVE Inv'
<1>1. IsSc(sc) /\ IsSt(st) /\ StStill(st, st) /\ IsQ(q) /\ IsTodo(todo) /\ Shapes
  BY SameStill DEF Inv, Shapes
<1>2. todo # <<>> /\ Head(todo).op = "writeFrame" /\ ~At("startFrameWrite") /\ ~At("wroteFrame")
  BY DEF writeFrame, At
<1>3. PICK wr : wr = Now.wr /\ IsFr(wr)
  BY <1>2, CallFrame DEF Carriers
<1>4. PICK ignored, to, v :
        /\ ignored = ((wr.id # 0 /\ stateOf(wr.id) = "closed" /\ wr.kind # "rst")
                      \/ (wr.kind = "continue" /\ st[wr.id].wroteHeaders))
        /\ to = (IF isControl(wr) THEN 0 ELSE wr.id)
        /\ v = (IF ignored \/ to # 0 THEN sc.qctl ELSE sc.qctl + 1)
  BY Zenon
<1>17. /\ st' = (IF wr.kind = "headers" THEN [st EXCEPT ![wr.id].wroteHeaders = TRUE] ELSE st)
       /\ q' = (IF ignored THEN q ELSE [q EXCEPT ![to] = Append(@, wr)])
  BY <1>3, <1>4, Zenon DEF writeFrame
<1>18. PICK u : sc' = [sc EXCEPT !.qctl = v, !.inLoop = u]
  <2>1. sc' = [sc EXCEPT !.qctl = IF ignored \/ to # 0 THEN @ ELSE @ + 1, !.inLoop = @ \/ mayLoop]
    BY <1>3, <1>4, Zenon DEF writeFrame
  <2>2. CASE ignored \/ to # 0
    <3>1. sc' = [sc EXCEPT !.qctl = sc.qctl, !.inLoop = @ \/ mayLoop]
      BY <2>1, <2>2
    <3>2. v = sc.qctl
      BY <1>4, <2>2
    <3>. QED  BY <3>1, <3>2, Zenon
  <2>3. CASE ~(ignored \/ to # 0)
    <3>1. sc' = [sc EXCEPT !.qctl = sc.qctl + 1, !.inLoop = @ \/ mayLoop]
      BY <2>1, <2>3
    <3>2. v = sc.qctl + 1
      BY <1>4, <2>3
    <3>. QED  BY <3>1, <3>2, Zenon
  <2>. QED  BY <2>2, <2>3
<1>5. Makes(tickle) /\ h' = h /\ writing' = writing /\ want' = want /\ msgs' = msgs /\ left' = left /\ fault' = fault
  BY <1>2, ResetPut, PutMade DEF writeFrame, Makes, Then, tickle
<1>6. StStill(st, st')
  <2>1. CASE wr.kind = "headers"
    <3>1. PICK i \in Ids : i = wr.id
      BY <1>3, <2>1 DEF IsFr, OnStream
    <3>2. st' = [st EXCEPT ![i].wroteHeaders = TRUE]
      BY <1>17, <2>1, <3>1
    <3>. QED  BY <1>1, <3>2, StHas DEF StStill, RowStill, StateSame, IsSt, Table, Rec
  <2>. QED  BY <1>1, <1>17, <2>1
<1>7. to \in Ids \cup {0} /\ (to = 0 <=> isControl(wr))
  BY <1>3, <1>4, IdsFacts DEF IsFr, isControl
<1>8. IsSc(sc') /\ Counts(sc, sc') /\ sc'.qctl = v /\ sc'.async = sc.async
  <2>2. v \in Int
    BY <1>1, <1>4 DEF IsSc
  <2>3. IsSc(sc')
    BY <1>1, <1>18, <2>2, ScHas DEF IsSc, Rec
  <2>4. /\ sc'.curClient = sc.curClient /\ sc'.curPushed = sc.curPushed /\ sc'.curHandlers = sc.curHandlers
        /\ sc'.unstarted = sc.unstarted /\ sc'.maxPush = sc.maxPush /\ sc'.maxClient = sc.maxClient
    BY <1>1, <1>18, ScHas DEF IsSc, Rec
  <2>5. sc'.done = sc.done /\ sc'.qctl = v /\ sc'.async = sc.async
    BY <1>1, <1>18, ScHas DEF IsSc, Rec
  <2>6. sc'.maxClient >= sc.maxClient
    BY <1>1, <2>4 DEF IsSc
  <2>. QED  BY <2>3, <2>4, <2>5, <2>6 DEF Counts
<1>9. /\ \A j \in Ids \cup {0} : q'[j] = IF ~ignored /\ j = to THEN Append(q[j], wr) ELSE q[j]
      /\ q' = [j \in Ids \cup {0} |-> q'[j]]
  <2>1. CASE ignored
    BY <1>1, <1>17, <2>1 DEF IsQ
  <2>2. CASE ~ignored
    <3>1. q' = [q EXCEPT ![to] = Append(q[to], wr)]
      BY <1>17, <2>2
    <3>. QED  BY <1>1, <1>7, <2>2, <3>1 DEF IsQ
  <2>. QED  BY <2>1, <2>2
<1>10. \A j \in Ids \cup {0} : ToSet(q[j]) \subseteq ToSet(q'[j]) /\ (~ignored /\ j = to => wr \in ToSet(q'[j]))
  <2>1. \A j \in Ids \cup {0} : List(q[j])
    BY <1>1 DEF IsQ, Frames
  <2>. QED  BY <1>9, <2>1, ListAppend
<1>11. IsQ(q')
  <2>1. ASSUME NEW j \in Ids \cup {0} PROVE Frames(q'[j])
    BY <1>1, <1>3, <1>9, FramesMade DEF IsQ
  <2>2. \A x \in ToSet(q'[0]) : isControl(x)
    <3>1. List(q[0])
      BY <1>1 DEF IsQ, Frames
    <3>2. q'[0] = q[0] \/ (isControl(wr) /\ q'[0] = Append(q[0], wr))
      BY <1>7, <1>9
    <3>3. \A x \in ToSet(q[0]) : isControl(x)
      BY <1>1 DEF IsQ
    <3>4. ToSet(q'[0]) = ToSet(q[0]) \/ (isControl(wr) /\ ToSet(q'[0]) = ToSet(q[0]) \cup {wr})
      <4>1. PICK s : s = q[0]
        OBVIOUS
      <4>2. ToSet(Append(s, wr)) = ToSet(s) \cup {wr}
        BY <3>1, <4>1, ListAppend
      <4>. QED  BY <3>2, <4>1, <4>2
    <3>. QED  BY <3>3, <3>4
  <2>. QED  BY <1>9, <2>1, <2>2 DEF IsQ
<1>12. /\ IsTodo(todo)' /\ ~At("startFrameWrite")' /\ ~At("wroteFrame")' /\ Stays("stop") /\ Stays("closeStream2")
       /\ \A x \in ToSet(todo) : x \in ToSet(todo') \/ x = Head(todo)
  BY <1>1, <1>2, <1>5, RanTodo
<1>13. Shapes'
  BY <1>1, <1>5, <1>6, <1>8, <1>11, <1>12 DEF Shapes, StStill
<1>14. Tally'
  <2>1. Still
    BY <1>5, <1>6, <1>8 DEF Still, StStill, RowStill, PcSame
  <2>2. Queued'
    <3>1. sc.qctl = Len(q[0]) /\ List(q[0])
      BY <1>1 DEF Inv, Tally, Queued, IsQ, Frames
    <3>2. CASE ignored \/ to # 0
      <4>1. v = sc.qctl /\ q'[0] = q[0]
        BY <1>4, <1>9, <3>2
      <4>. QED  BY <1>8, <3>1, <4>1 DEF Queued
    <3>3. CASE ~(ignored \/ to # 0)
      <4>1. v = sc.qctl + 1 /\ q'[0] = Append(q[0], wr)
        BY <1>4, <1>9, <3>3
      <4>. QED  BY <1>8, <3>1, <4>1, ListAppend DEF Queued
    <3>. QED  BY <3>2, <3>3
  <2>. QED  BY <1>8, <2>1, <2>2, TallyStill DEF Tally
<1>15. Turn'
  BY <1>2, <1>5, <1>8, <1>12, TurnStill
<1>16. Kept'
  <2>1. ASSUME NEW i \in Ids PROVE (Gone(i) => Gone(i)') /\ (st'[i].state = "closed" => st[i].state = "closed")
    <3>1. (st[i].cw => st'[i].cw) /\ (sc.done => sc'.done) /\ (fault => fault')
      BY <1>5, <1>6, <1>8 DEF StStill, RowStill, Counts
    <3>2. st'[i].state = "closed" => st[i].state = "closed"
      BY <1>6 DEF StStill, RowStill, StateSame, Live
    <3>. QED  BY <1>12, <3>1, <3>2, GoneStill
  <2>2. ASSUME NEW i \in Ids, h[i].pc = "wait", NEW f, f.id = i, f.done # 0, Somewhere(f)
        PROVE  Follows(i, f)
    <3>1. CASE f = wr
      <4>1. f.kind \in Awaited
        BY <2>2, AwaitedIs
      <4>2. to = i
        BY <1>4, <2>2, <3>1, <4>1, IdsFacts DEF isControl, Awaited
      <4>3. CASE ignored
        <5>1. stateOf(i) = "closed"
          BY <1>4, <2>2, <3>1, <4>1, <4>3 DEF Awaited
        <5>2. st[i].state = "closed"
          BY <2>2, <5>1, Numbered
        <5>3. Gone(i)'
          BY <2>1, <5>2 DEF Inv, Kept
        <5>. QED  BY <5>3 DEF Follows
      <4>4. CASE ~ignored
        <5>1. f \in ToSet(q'[f.id])
          BY <1>10, <2>2, <3>1, <4>2, <4>4
        <5>. QED  BY <2>2, <5>1 DEF Follows, Somewhere
      <4>. QED  BY <4>3, <4>4
    <3>2. CASE f # wr
      <4>1. \A x \in ToSet(todo) : x.op \in Carriers /\ x.wr = f => x \in ToSet(todo')
        BY <1>3, <1>12, <3>2 DEF Now
      <4>2. Somewhere(f)'
        BY <1>5, <1>10, <2>2, <4>1 DEF Somewhere
      <4>. QED  BY <2>2, <4>2 DEF Follows
    <3>. QED  BY <3>1, <3>2
  <2>. QED  BY <1>5, <2>1, <2>2, KeptStill
<1>. QED  BY <1>13, <1>14, <1>15, <1>16 DEF Inv
----------------------------------------------------------------------------
(* The loop that schedules frames *)

\* A turn of the loop that starts a frame.
LEMMA StartTodo ==
  ASSUME Inv, At("scheduleLoop"), NEW f, IsFr(f),
         todo' = <<callWith("startFrameWrite", f), call("scheduleLoop")>> \o Tail(todo)
  PROVE  /\ IsTodo(todo)' /\ At("startFrameWrite")' /\ ~At("wroteFrame")'
         /\ Stays("stop") /\ Stays("closeStream2")
         /\ \A x \in ToSet(todo) : x.op \in Carriers => x \in ToSet(todo')
         /\ \E x \in ToSet(todo') : x.op \in Carriers /\ x.wr = f
<1>1. todo # <<>> /\ Head(todo).op = "scheduleLoop" /\ IsTodo(todo)
  BY DEF Inv, Shapes, At
<1>2. Put(Tail(todo)) /\ ToSet(todo) = {Head(todo)} \cup ToSet(Tail(todo))
  BY <1>1, TodoHas
<1>3. PICK x, y, t : x = callWith("startFrameWrite", f) /\ y = call("scheduleLoop") /\ t = Tail(todo)
  OBVIOUS
<1>4. todo' = <<x>> \o (<<y>> \o t)
  <2>1. t \in Seq(ToSet(t) \cup {x, y})
    BY <1>2, <1>3 DEF Put, List
  <2>. QED  BY <1>3, <2>1
<1>5. IsCall(x) /\ x.op = "startFrameWrite" /\ x.wr = f
  BY <1>3, CallIs DEF Carriers
<1>6. PICK s : s = <<y>> \o t /\ Put(s)
  BY <1>2, <1>3, ResetPut, PutMade
<1>7. ToSet(s) = {y} \cup ToSet(t)
  <2>1. List(t)
    BY <1>2, <1>3 DEF Put
  <2>2. List(<<y>>) /\ ToSet(<<y>>) = {y}
    BY ListShort
  <2>. QED  BY <1>6, <2>1, <2>2, ListConcat
<1>8. IsTodo(<<x>> \o s) /\ ToSet(<<x>> \o s) = {x} \cup ToSet(s) /\ <<x>> \o s # <<>> /\ Head(<<x>> \o s) = x
  BY <1>5, <1>6, PutAfter
<1>9. todo' = <<x>> \o s
  BY <1>4, <1>6
<1>10. IsTodo(todo)' /\ At("startFrameWrite")' /\ ~At("wroteFrame")'
  BY <1>5, <1>8, <1>9 DEF At
<1>11. ToSet(todo') = {x, y} \cup ToSet(Tail(todo))
  BY <1>3, <1>7, <1>8, <1>9
<1>12. \A z \in ToSet(todo) : z \in ToSet(todo') \/ z.op = "scheduleLoop"
  BY <1>1, <1>2, <1>11
<1>. QED  BY <1>5, <1>10, <1>11, <1>12 DEF Stays, Carriers

\* The frames of the scheduler that a step leaves there, or starts.
Scheduled(i, f) == \E g : g.id = f.id /\ g.done = f.done /\ (g \in ToSet(q'[f.id]) \/ \E x \in ToSet(todo') : x.op \in Carriers /\ x.wr = g)

\* A frame starts.
LEMMA StartSteps ==
  ASSUME Inv, At("scheduleLoop"), ~sc.async, NEW f, IsFr(f),
         todo' = <<callWith("startFrameWrite", f), call("scheduleLoop")>> \o Tail(todo),
         IsSc(sc'), Counts(sc, sc'), sc'.async = sc.async, StStill(st, st'), IsQ(q'), Queued',
         h' = h, writing' = writing, want' = want, msgs' = msgs, left' = left, fault' = fault,
         \A g : g.id \in Ids /\ g.done # 0 /\ g \in ToSet(q[g.id]) => Scheduled(g.id, g)
  PROVE  Inv'
<1>1. /\ IsTodo(todo)' /\ At("startFrameWrite")' /\ ~At("wroteFrame")' /\ Stays("stop") /\ Stays("closeStream2")
      /\ \A x \in ToSet(todo) : x.op \in Carriers => x \in ToSet(todo')
  BY StartTodo
<1>2. Shapes'
  <2>1. Shapes
    BY DEF Inv
  <2>. QED  BY <1>1, <2>1 DEF Shapes, StStill
<1>3. Tally'
  <2>1. Still
    BY DEF Still, StStill, RowStill, PcSame
  <2>. QED  BY <2>1, TallyStill DEF Tally
<1>4. Turn'
  <2>1. writing # NoFrame <=> (sc.async \/ At("wroteFrame"))
    BY DEF Inv, Turn
  <2>2. ~At("wroteFrame")
    BY DEF At
  <2>. QED  BY <1>1, <2>1, <2>2 DEF Turn
<1>5. Kept'
  <2>1. ASSUME NEW i \in Ids PROVE (Gone(i) => Gone(i)') /\ (st'[i].state = "closed" => st[i].state = "closed")
    <3>1. (st[i].cw => st'[i].cw) /\ (sc.done => sc'.done)
      BY DEF StStill, RowStill, Counts
    <3>2. st'[i].state = "closed" => st[i].state = "closed"
      BY DEF StStill, RowStill, StateSame, Live
    <3>. QED  BY <1>1, <3>1, <3>2, GoneStill
  <2>2. ASSUME NEW i \in Ids, NEW g, g.id = i, g.done # 0, Somewhere(g) PROVE Follows(i, g)
    <3>1. CASE g \in ToSet(q[g.id])
      BY <2>2, <3>1 DEF Scheduled, Follows, Somewhere
    <3>2. CASE g \notin ToSet(q[g.id])
      <4>1. Somewhere(g)'
        BY <1>1, <2>2, <3>2 DEF Somewhere
      <4>. QED  BY <2>2, <4>1 DEF Follows
    <3>. QED  BY <3>1, <3>2
  <2>. QED  BY <2>1, <2>2, KeptStill
<1>. QED  BY <1>2, <1>3, <1>4, <1>5 DEF Inv

\* A frame leaves its queue, whole or in part.
LEMMA PopSays ==
  ASSUME Inv, At("scheduleLoop"), NEW i \in DOMAIN q, Pop(i)
  PROVE  \E f : /\ IsFr(f) /\ todo' = <<callWith("startFrameWrite", f), call("scheduleLoop")>> \o Tail(todo)
                /\ IsSc(sc') /\ Counts(sc, sc') /\ sc'.async = sc.async /\ StStill(st, st') /\ IsQ(q') /\ Queued'
                /\ \A g : g.id \in Ids /\ g.done # 0 /\ g \in ToSet(q[g.id]) => Scheduled(g.id, g)
<1>1. IsSc(sc) /\ IsSt(st) /\ StStill(st, st) /\ IsQ(q) /\ i \in Ids \cup {0} /\ sc.qctl = Len(q[0])
  BY SameStill DEF Inv, Shapes, IsQ, Tally, Queued
<1>2. PICK s : s = q[i] /\ Frames(s) /\ s # <<>>
  BY <1>1 DEF Pop, sendable, IsQ
<1>3. List(s) /\ Frames(Tail(s)) /\ IsFr(Head(s)) /\ ToSet(s) = {Head(s)} \cup ToSet(Tail(s)) /\ Head(s) = s[1]
  BY <1>2, FramesMade, ListTail DEF Frames
<1>4. PICK f : f = Head(s)
  OBVIOUS
<1>5. PICK k : k = (IF f.n = 0 THEN 0 ELSE least(f.n, allowed(i)))
  OBVIOUS
<1>6. PICK u, v, part : /\ part = [f EXCEPT !.n = k, !.end = u, !.done = v] /\ v = (IF k = f.n THEN f.done ELSE 0)
                        /\ todo' = <<callWith("startFrameWrite", part), call("scheduleLoop")>> \o Tail(todo)
  <2>1. todo' = <<callWith("startFrameWrite", [f EXCEPT !.n = k, !.end = @ /\ k = f.n, !.done = IF k = f.n THEN @ ELSE 0]),
                  call("scheduleLoop")>> \o Tail(todo)
    BY <1>2, <1>4, <1>5, Zenon DEF Pop, Then
  <2>2. CASE k = f.n
    <3>1. [f EXCEPT !.n = k, !.end = @ /\ k = f.n, !.done = IF k = f.n THEN @ ELSE 0] = [f EXCEPT !.n = k, !.end = @ /\ k = f.n, !.done = f.done]
      BY <2>2
    <3>. QED  BY <2>1, <2>2, <3>1, Zenon
  <2>3. CASE k # f.n
    <3>1. [f EXCEPT !.n = k, !.end = @ /\ k = f.n, !.done = IF k = f.n THEN @ ELSE 0] = [f EXCEPT !.n = k, !.end = @ /\ k = f.n, !.done = 0]
      BY <2>3
    <3>. QED  BY <2>1, <2>3, <3>1, Zenon
  <2>. QED  BY <2>2, <2>3
<1>7. /\ q' = [q EXCEPT ![i] = IF k = f.n THEN Tail(s) ELSE [s EXCEPT ![1].n = f.n - k]]
      /\ st' = IF k = 0 THEN st ELSE [st EXCEPT ![i].flow = @ - k]
  <2>1. /\ q' = [q EXCEPT ![i] = IF k = f.n THEN Tail(@) ELSE [@ EXCEPT ![1].n = f.n - k]]
        /\ st' = IF k = 0 THEN st ELSE [st EXCEPT ![i].flow = @ - k]
    BY <1>2, <1>4, <1>5, Zenon DEF Pop
  <2>. QED  BY <1>2, <2>1
<1>8. PICK w, z : sc' = [sc EXCEPT !.flow = w, !.qctl = z] /\ z = (IF i = 0 THEN sc.qctl - 1 ELSE sc.qctl)
  <2>1. sc' = [sc EXCEPT !.flow = @ - k, !.qctl = IF i = 0 THEN @ - 1 ELSE @]
    BY <1>2, <1>4, <1>5, Zenon DEF Pop
  <2>2. CASE i = 0
    <3>1. sc' = [sc EXCEPT !.flow = @ - k, !.qctl = sc.qctl - 1]
      BY <2>1, <2>2
    <3>. QED  BY <2>2, <3>1, Zenon
  <2>3. CASE i # 0
    <3>1. sc' = [sc EXCEPT !.flow = @ - k, !.qctl = sc.qctl]
      BY <2>1, <2>3
    <3>. QED  BY <2>3, <3>1, Zenon
  <2>. QED  BY <2>2, <2>3
<1>9. IsFr(f) /\ (f.n # 0 => f.kind = "data") /\ (f.n = 0 => k = 0 /\ k = f.n)
  BY <1>3, <1>4, <1>5 DEF IsFr
<1>10. i = 0 => k = 0 /\ k = f.n
  <2>1. i = 0 => isControl(f)
    BY <1>1, <1>2, <1>3, <1>4 DEF IsQ
  <2>2. isControl(f) => f.kind # "data"
    BY <1>9, IdsFacts DEF isControl, IsFr, OnStream
  <2>. QED  BY <1>9, <2>1, <2>2
<1>11. IsFr(part) /\ part.id = f.id /\ (k = f.n => part.done = f.done)
  <2>1. part = [f EXCEPT !.n = k, !.end = u, !.done = v] /\ Rec(f, FrFields)
    BY <1>6, <1>9 DEF IsFr
  <2>2. Rec(part, FrFields) /\ part.id = f.id /\ part.kind = f.kind /\ part.n = k /\ part.done = v
    BY <2>1, FrHas DEF Rec
  <2>3. v = f.done \/ v = 0
    BY <1>6
  <2>. QED  BY <1>6, <1>9, <2>2, <2>3 DEF IsFr
<1>12. IsSc(sc') /\ Counts(sc, sc') /\ sc'.async = sc.async /\ sc'.qctl = z
  <2>1. z \in Int
    BY <1>1, <1>8 DEF IsSc
  <2>2. sc' = [sc EXCEPT !.flow = w, !.qctl = z] /\ IsSc(sc)
    BY <1>1, <1>8
  <2>3. IsSc(sc')
    BY <2>1, <2>2, ScHas DEF IsSc, Rec
  <2>4. /\ sc'.curClient = sc.curClient /\ sc'.curPushed = sc.curPushed /\ sc'.curHandlers = sc.curHandlers
        /\ sc'.unstarted = sc.unstarted /\ sc'.maxPush = sc.maxPush /\ sc'.maxClient = sc.maxClient
    BY <2>2, ScHas DEF IsSc, Rec
  <2>5. sc'.done = sc.done /\ sc'.qctl = z /\ sc'.async = sc.async
    BY <2>2, ScHas DEF IsSc, Rec
  <2>6. sc'.maxClient >= sc.maxClient
    BY <2>2, <2>4 DEF IsSc
  <2>. QED  BY <2>3, <2>4, <2>5, <2>6 DEF Counts
<1>13. StStill(st, st')
  <2>1. CASE k = 0
    BY <1>1, <1>7, <2>1
  <2>2. CASE k # 0
    <3>1. PICK j \in Ids : j = i
      BY <1>1, <1>10, <2>2
    <3>2. PICK x : st' = [st EXCEPT ![j].flow = x]
      BY <1>7, <2>2, <3>1
    <3>. QED  BY <1>1, <3>2, StHas DEF StStill, RowStill, StateSame, IsSt, Table, Rec
  <2>. QED  BY <2>1, <2>2
<1>14. PICK r : r = (IF k = f.n THEN Tail(s) ELSE [s EXCEPT ![1].n = f.n - k]) /\ q' = [q EXCEPT ![i] = r]
  BY <1>7, Zenon
<1>15. /\ \A j \in Ids \cup {0} : q'[j] = IF j = i THEN r ELSE q[j]
       /\ q' = [j \in Ids \cup {0} |-> q'[j]]
  BY <1>1, <1>14 DEF IsQ
<1>16. CASE k = f.n
  <2>1. r = Tail(s)
    BY <1>14, <1>16
  <2>2. IsQ(q')
    <3>1. \A j \in Ids \cup {0} : Frames(q'[j])
      BY <1>1, <1>3, <1>15, <2>1 DEF IsQ
    <3>2. \A x \in ToSet(q'[0]) : isControl(x)
      BY <1>1, <1>2, <1>3, <1>15, <2>1 DEF IsQ
    <3>. QED  BY <1>15, <3>1, <3>2 DEF IsQ
  <2>3. Queued'
    <3>1. i = 0 => Len(q'[0]) = Len(q[0]) - 1
      BY <1>2, <1>3, <1>15, <2>1, ListTail
    <3>2. i # 0 => q'[0] = q[0]
      BY <1>15
    <3>3. Len(q[0]) \in Nat
      BY <1>1, ListElements DEF IsQ, Frames
    <3>. QED  BY <1>1, <1>8, <1>12, <3>1, <3>2, <3>3 DEF Queued
  <2>4. ASSUME NEW g, g.id \in Ids, g.done # 0, g \in ToSet(q[g.id]) PROVE Scheduled(g.id, g)
    <3>1. CASE g.id = i /\ g = f
      <4>1. \E x \in ToSet(todo') : x.op \in Carriers /\ x.wr = part
        BY <1>6, <1>11, StartTodo
      <4>. QED  BY <1>11, <1>16, <3>1, <4>1 DEF Scheduled
    <3>2. CASE ~(g.id = i /\ g = f)
      <4>1. g \in ToSet(q'[g.id])
        BY <1>2, <1>3, <1>4, <1>15, <2>1, <2>4, <3>2
      <4>. QED  BY <4>1 DEF Scheduled
    <3>. QED  BY <3>1, <3>2
  <2>. QED  BY <1>6, <1>11, <1>12, <1>13, <2>2, <2>3, <2>4
<1>17. CASE k # f.n
  <2>1. i \in Ids /\ f.kind = "data"
    BY <1>1, <1>9, <1>10, <1>17
  <2>2. PICK e : e = [f EXCEPT !.n = f.n - k] /\ r = [s EXCEPT ![1] = e]
    <3>1. r = [s EXCEPT ![1].n = f.n - k]
      BY <1>14, <1>17
    <3>2. r = [s EXCEPT ![1] = [s[1] EXCEPT !.n = f.n - k]]
      BY <3>1, Zenon
    <3>. QED  BY <1>3, <1>4, <3>2, Zenon
  <2>3. Rec(f, FrFields) /\ e = [f EXCEPT !.n = f.n - k]
    BY <1>9, <2>2 DEF IsFr
  <2>4. Rec(e, FrFields) /\ e.kind = f.kind /\ e.id = f.id /\ e.done = f.done
    BY <2>3, FrHas DEF Rec
  <2>5. IsFr(e)
    BY <1>9, <2>1, <2>4 DEF IsFr
  <2>6. r = [s EXCEPT ![1] = e]
    BY <2>2
  <2>7. List(r) /\ ToSet(r) = {e} \cup ToSet(Tail(s))
    BY <1>2, <1>3, <2>6, ListReplace
  <2>8. Frames(r)
    BY <1>3, <2>5, <2>7 DEF Frames
  <2>9. q'[0] = q[0]
    BY <1>15, <2>1, IdsFacts
  <2>10. IsQ(q')
    <3>1. \A j \in Ids \cup {0} : Frames(q'[j])
      BY <1>1, <1>15, <2>8 DEF IsQ
    <3>. QED  BY <1>1, <1>15, <2>9, <3>1 DEF IsQ
  <2>11. Queued'
    BY <1>1, <1>8, <1>12, <2>1, <2>9, IdsFacts DEF Queued
  <2>12. ASSUME NEW g, g.id \in Ids, g.done # 0, g \in ToSet(q[g.id]) PROVE Scheduled(g.id, g)
    <3>1. CASE g.id = i /\ g = f
      <4>1. e \in ToSet(q'[g.id])
        BY <1>15, <2>1, <2>7, <3>1
      <4>. QED  BY <2>4, <3>1, <4>1 DEF Scheduled
    <3>2. CASE ~(g.id = i /\ g = f)
      <4>1. g \in ToSet(q'[g.id])
        BY <1>2, <1>3, <1>4, <1>15, <2>7, <2>12, <3>2
      <4>. QED  BY <4>1 DEF Scheduled
    <3>. QED  BY <3>1, <3>2
  <2>. QED  BY <1>6, <1>11, <1>12, <1>13, <2>10, <2>11, <2>12
<1>. QED  BY <1>16, <1>17

\* scheduleLoop.
LEMMA LoopStep == ASSUME Inv, scheduleLoop PROVE Inv'
<1>1. At("scheduleLoop") /\ todo # <<>> /\ Head(todo).op = "scheduleLoop" /\ h' = h /\ writing' = writing /\ want' = want /\ msgs' = msgs /\ left' = left /\ fault' = fault
  BY DEF scheduleLoop, At
<1>2. IsSc(sc) /\ IsSt(st) /\ StStill(st, st) /\ ScStill(sc, sc) /\ IsQ(q) /\ Queued
  BY SameStill DEF Inv, Shapes, Tally
<1>3. CASE sc' = [sc EXCEPT !.inLoop = FALSE] /\ Then(<<>>) /\ st' = st /\ q' = q
  <2>1. sc' = [sc EXCEPT !.inLoop = FALSE]
    BY <1>3
  <2>2. ScStill(sc, sc')
    BY <1>2, <2>1, ScHas DEF ScStill, Counts, IsSc, Rec
  <2>. QED  BY <1>1, <1>2, <1>3, <2>2, PutMade, SimpleIs, SimpleSteps DEF Around, Then
<1>4. ASSUME ScStill(sc, sc'), ~sc.async, NEW k \in {"goaway", "settingsAck", "flush"},
             Then(<<callWith("startFrameWrite", frame(k, 0)), call("scheduleLoop")>>), st' = st, q' = q
      PROVE  Inv'
  <2>1. PICK f : f = frame(k, 0) /\ IsFr(f)
    BY <1>4, FrameIs DEF OnStream
  <2>2. todo' = <<callWith("startFrameWrite", f), call("scheduleLoop")>> \o Tail(todo)
    BY <1>4, <2>1 DEF Then
  <2>3. IsSc(sc') /\ Counts(sc, sc') /\ sc'.async = sc.async /\ StStill(st, st') /\ IsQ(q') /\ Queued'
    BY <1>2, <1>4, QueuedStill DEF ScStill
  <2>4. \A g : g.id \in Ids /\ g.done # 0 /\ g \in ToSet(q[g.id]) => Scheduled(g.id, g)
    BY <1>4 DEF Scheduled
  <2>. QED  BY <1>1, <1>4, <2>1, <2>2, <2>3, <2>4, StartSteps
<1>5. CASE ~sc.async /\ sc' = [sc EXCEPT !.needGoAway = FALSE] /\ st' = st /\ q' = q
           /\ Then(<<callWith("startFrameWrite", frame("goaway", 0)), call("scheduleLoop")>>)
  <2>1. sc' = [sc EXCEPT !.needGoAway = FALSE]
    BY <1>5
  <2>2. ScStill(sc, sc')
    BY <1>2, <2>1, ScHas DEF ScStill, Counts, IsSc, Rec
  <2>. QED  BY <1>4, <1>5, <2>2
<1>6. CASE ~sc.async /\ sc' = [sc EXCEPT !.needAck = FALSE] /\ st' = st /\ q' = q
           /\ Then(<<callWith("startFrameWrite", frame("settingsAck", 0)), call("scheduleLoop")>>)
  <2>1. sc' = [sc EXCEPT !.needAck = FALSE]
    BY <1>6
  <2>2. ScStill(sc, sc')
    BY <1>2, <2>1, ScHas DEF ScStill, Counts, IsSc, Rec
  <2>. QED  BY <1>4, <1>6, <2>2
<1>7. CASE ~sc.async /\ sc' = sc /\ st' = st /\ q' = q
           /\ Then(<<callWith("startFrameWrite", frame("flush", 0)), call("scheduleLoop")>>)
  BY <1>2, <1>4, <1>7
<1>8. ASSUME ~sc.async, NEW i \in DOMAIN q, Pop(i) PROVE Inv'
  <2>1. PICK f : /\ IsFr(f) /\ todo' = <<callWith("startFrameWrite", f), call("scheduleLoop")>> \o Tail(todo)
                 /\ IsSc(sc') /\ Counts(sc, sc') /\ sc'.async = sc.async /\ StStill(st, st') /\ IsQ(q') /\ Queued'
                 /\ \A g : g.id \in Ids /\ g.done # 0 /\ g \in ToSet(q[g.id]) => Scheduled(g.id, g)
    BY <1>1, <1>8, PopSays
  <2>. QED  BY <1>1, <1>8, <2>1, StartSteps
<1>. QED  BY <1>3, <1>5, <1>6, <1>7, <1>8, Zenon DEF scheduleLoop
----------------------------------------------------------------------------
(* Frames that start, end and are answered *)

\* A frame that starts, or has been written, finds the place of the writer as
\* Turn says.
LEMMA TurnSays ==
  ASSUME Inv
  PROVE  /\ At("startFrameWrite") => ~sc.async /\ writing = NoFrame
         /\ At("wroteFrame") => writing # NoFrame /\ IsFr(writing)
BY DEF Inv, Turn, At, Shapes

\* A frame that starts is written by a goroutine, or the loop goes on with it.
LEMMA StartedTodo ==
  ASSUME NEW t, Put(t), NEW async, todo' = (IF async THEN <<>> ELSE <<call("wroteFrame")>>) \o t
  PROVE  IsTodo(todo)' /\ ToSet(t) \subseteq ToSet(todo') /\ ~At("startFrameWrite")' /\ (At("wroteFrame")' <=> ~async)
<1>1. CASE async
  <2>1. todo' = <<>> \o t
    BY <1>1
  <2>2. Put(<<>>)
    BY PutMade
  <2>3. IsTodo(<<>> \o t) /\ ToSet(<<>> \o t) = ToSet(<<>>) \cup ToSet(t) /\ (<<>> \o t # <<>> => Head(<<>> \o t).op \notin First)
    BY <2>2, PutBefore
  <2>. QED  BY <1>1, <2>1, <2>3 DEF At, First
<1>2. CASE ~async
  <2>1. PICK x : x = call("wroteFrame") /\ IsCall(x) /\ x.op = "wroteFrame"
    BY CallIs DEF OnIds, Carriers
  <2>2. todo' = <<x>> \o t
    BY <1>2, <2>1
  <2>3. IsTodo(<<x>> \o t) /\ ToSet(<<x>> \o t) = {x} \cup ToSet(t) /\ <<x>> \o t # <<>> /\ Head(<<x>> \o t) = x
    BY <2>1, PutAfter
  <2>. QED  BY <1>2, <2>1, <2>2, <2>3 DEF At
<1>. QED  BY <1>1, <1>2

\* startFrameWrite.
LEMMA StartWriteStep == ASSUME Inv, startFrameWrite PROVE Inv'
<1>1. /\ IsSc(sc) /\ IsSt(st) /\ StStill(st, st) /\ IsTodo(todo) /\ Shapes
      /\ todo # <<>> /\ Head(todo).op = "startFrameWrite" /\ ~At("wroteFrame")
  BY SameStill DEF Inv, Shapes, startFrameWrite, At
<1>2. PICK wr : wr = Now.wr /\ IsFr(wr)
  BY <1>1, CallFrame DEF Carriers
<1>3. st' = st /\ q' = q /\ want' = want /\ msgs' = msgs /\ h' = h /\ left' = left
  BY DEF startFrameWrite
<1>4. CASE Fail /\ sc' = sc /\ writing' = writing
  BY <1>1, <1>3, <1>4, FailSteps
<1>5. ASSUME NEW async, NEW u, writing' = wr, sc' = [sc EXCEPT !.async = async, !.needFlush = u],
             Then(IF async THEN <<>> ELSE <<call("wroteFrame")>>), fault' = fault
      PROVE  Inv'
  <2>1. IsSc(sc') /\ Counts(sc, sc') /\ sc'.qctl = sc.qctl /\ sc'.async = async
    <3>1. sc' = [sc EXCEPT !.async = async, !.needFlush = u] /\ IsSc(sc)
      BY <1>1, <1>5
    <3>2. IsSc(sc')
      BY <3>1, ScHas DEF IsSc, Rec
    <3>3. /\ sc'.curClient = sc.curClient /\ sc'.curPushed = sc.curPushed /\ sc'.curHandlers = sc.curHandlers
          /\ sc'.unstarted = sc.unstarted /\ sc'.maxPush = sc.maxPush /\ sc'.maxClient = sc.maxClient
      BY <3>1, ScHas DEF IsSc, Rec
    <3>4. sc'.done = sc.done /\ sc'.qctl = sc.qctl /\ sc'.async = async
      BY <3>1, ScHas DEF IsSc, Rec
    <3>5. sc'.maxClient >= sc.maxClient
      BY <3>1, <3>3 DEF IsSc
    <3>. QED  BY <3>2, <3>3, <3>4, <3>5 DEF Counts
  <2>2. PICK t : t = Tail(todo) /\ Put(t) /\ ToSet(todo) = {Head(todo)} \cup ToSet(t)
    BY <1>1, TodoHas
  <2>3. IsTodo(todo)' /\ ToSet(t) \subseteq ToSet(todo') /\ ~At("startFrameWrite")' /\ (At("wroteFrame")' <=> ~async)
    BY <1>5, <2>2, StartedTodo DEF Then
  <2>4. writing' # NoFrame
    BY <1>2, <1>5, FrameSome
  <2>5. Shapes'
    BY <1>1, <1>2, <1>3, <1>5, <2>1, <2>3 DEF Shapes
  <2>6. Tally'
    <3>1. Still
      BY <1>3, <2>1 DEF Still, StateSame, PcSame
    <3>2. Queued'
      BY <1>3, <2>1, QueuedStill
    <3>. QED  BY <2>1, <3>1, <3>2, TallyStill DEF Tally
  <2>7. Turn'
    BY <2>1, <2>3, <2>4 DEF Turn
  <2>8. Kept'
    <3>1. Stays("stop") /\ Stays("closeStream2")
      BY <1>1, <2>2, <2>3 DEF Stays
    <3>2. ASSUME NEW i \in Ids PROVE Gone(i) => Gone(i)'
      <4>1. sc.done => sc'.done
        BY <2>1 DEF Counts
      <4>. QED  BY <1>3, <1>5, <3>1, <4>1, GoneStill
    <3>3. ASSUME NEW i \in Ids, NEW f, f.id = i, Somewhere(f) PROVE Follows(i, f)
      <4>1. writing = NoFrame
        BY <1>1, TurnSays DEF At
      <4>2. \A x \in ToSet(todo) : x.op \in Carriers /\ x.wr = f => f = wr \/ x \in ToSet(todo')
        BY <1>2, <2>2, <2>3 DEF Now
      <4>3. Somewhere(f)'
        BY <1>3, <1>5, <2>4, <3>3, <4>1, <4>2 DEF Somewhere
      <4>. QED  BY <3>3, <4>3 DEF Follows
    <3>. QED  BY <1>3, <3>2, <3>3, KeptStill
  <2>. QED  BY <2>5, <2>6, <2>7, <2>8 DEF Inv
<1>6. CASE illegalNow(wr)
  BY <1>2, <1>4, <1>6, Zenon DEF startFrameWrite
<1>7. CASE ~illegalNow(wr)
  <2>1. /\ writing' = wr /\ fault' = fault
        /\ \E async \in BOOLEAN :
             /\ IF wr.kind \in {"flush", "goaway"} THEN async /\ slow' = slow ELSE writesSlowly(async)
             /\ sc' = [sc EXCEPT !.async = async, !.needFlush = wr.kind # "flush"]
             /\ Then(IF async THEN <<>> ELSE <<call("wroteFrame")>>)
    BY <1>2, <1>7, Zenon DEF startFrameWrite
  <2>2. PICK async \in BOOLEAN :
             /\ sc' = [sc EXCEPT !.async = async, !.needFlush = wr.kind # "flush"]
             /\ Then(IF async THEN <<>> ELSE <<call("wroteFrame")>>)
    BY <2>1, Zenon
  <2>. QED  BY <1>5, <2>1, <2>2, Zenon
<1>. QED  BY <1>6, <1>7

\* Handlers stay where they are, and what they have been told stays.
HKeep(f, g) == IsH(g) /\ \A i \in Ids : g[i].pc = f[i].pc /\ g[i].ch = f[i].ch /\ (f[i].reply => g[i].reply)

\* Who waits on the channel of a frame is told (replyToWriter).
LEMMA Replied ==
  ASSUME IsH(h), NEW wr, IsFr(wr), NEW g, g = replied(wr)
  PROVE  /\ HKeep(h, g)
         /\ \A i \in Ids : wr.id = i /\ wr.done # 0 /\ h[i].ch = wr.done => g[i].reply
<1>1. CASE wr.done # 0 /\ h[wr.id].ch = wr.done
  <2>1. PICK i \in Ids : i = wr.id
    BY <1>1 DEF IsFr, Awaited, OnStream
  <2>2. g = [h EXCEPT ![i].reply = TRUE]
    BY <1>1, <2>1 DEF replied
  <2>7. Table(h, Ids, HFields)
    BY DEF IsH
  <2>8. Table(g, Ids, HFields)
    BY <2>2, <2>7, HHas DEF Table, Rec
  <2>9. g[i].reply = TRUE
    BY <2>2, <2>7, HHas DEF Table, Rec
  <2>3. Table(g, Ids, HFields) /\ g[i].reply = TRUE
    BY <2>8, <2>9
  <2>4. \A j \in Ids : g[j].pc = h[j].pc /\ g[j].ch = h[j].ch /\ g[j].out = h[j].out
    BY <2>2, HHas DEF IsH, Table, Rec
  <2>5. \A j \in Ids : j # i => g[j].reply = h[j].reply
    BY <2>2, HHas DEF IsH, Table, Rec
  <2>6. IsH(g)
    BY <2>3, <2>4 DEF IsH
  <2>. QED  BY <2>1, <2>3, <2>4, <2>5, <2>6 DEF HKeep
<1>2. CASE ~(wr.done # 0 /\ h[wr.id].ch = wr.done)
  <2>1. g = h
    BY <1>2 DEF replied
  <2>. QED  BY <1>2, <2>1 DEF HKeep
<1>. QED  BY <1>1, <1>2

\* A call that tells a waiting handler, and leaves frames where they are.
LEMMA ReplySteps ==
  ASSUME Inv, todo # <<>>, Head(todo).op \in Carriers, NEW wr, wr = Now.wr, h' = replied(wr),
         NEW calls, Makes(calls), ScStill(sc, sc'), st' = st, q' = q, writing' = writing, want' = want, msgs' = msgs,
         left' = left, fault' = fault, writing = NoFrame <=> ~sc.async
  PROVE  Inv'
<1>1. IsSc(sc) /\ IsTodo(todo) /\ Shapes /\ IsH(h)
  BY DEF Inv, Shapes
<1>2. IsFr(wr)
  BY CallFrame
<1>3. HKeep(h, h') /\ \A i \in Ids : wr.id = i /\ wr.done # 0 /\ h[i].ch = wr.done => h'[i].reply
  BY <1>1, <1>2, Replied
<1>4. /\ IsTodo(todo)' /\ ~At("startFrameWrite")' /\ ~At("wroteFrame")' /\ Stays("stop") /\ Stays("closeStream2")
      /\ \A x \in ToSet(todo) : x \in ToSet(todo') \/ x = Head(todo)
  <2>1. Head(todo).op # "stop" /\ Head(todo).op # "closeStream2"
    BY DEF Carriers
  <2>. QED  BY <1>1, <2>1, RanTodo
<1>5. Shapes'
  BY <1>1, <1>3, <1>4 DEF Shapes, ScStill, HKeep
<1>6. Tally'
  <2>1. Still
    BY <1>3 DEF Still, ScStill, StateSame, PcSame, HKeep
  <2>2. Queued' /\ IsSc(sc')
    BY QueuedStill DEF ScStill
  <2>. QED  BY <2>1, <2>2, TallyStill DEF Tally
<1>7. Turn'
  BY <1>4 DEF Turn, ScStill
<1>8. Kept'
  <2>1. ASSUME NEW i \in Ids PROVE Gone(i) => Gone(i)'
    <3>1. sc.done => sc'.done
      BY DEF ScStill, Counts
    <3>. QED  BY <1>4, <3>1, GoneStill
  <2>2. ASSUME NEW i \in Ids, NEW f, f.id = i, f.done = h[i].ch, f.done # 0, Somewhere(f) PROVE Follows(i, f)
    <3>1. CASE f = wr
      BY <1>3, <2>2, <3>1 DEF Follows
    <3>2. CASE f # wr
      <4>1. \A x \in ToSet(todo) : x.op \in Carriers /\ x.wr = f => x \in ToSet(todo')
        BY <1>4, <3>2 DEF Now
      <4>2. Somewhere(f)'
        BY <2>2, <4>1 DEF Somewhere
      <4>. QED  BY <2>2, <4>2 DEF Follows
    <3>. QED  BY <3>1, <3>2
  <2>3. \A i \in Ids : h'[i].pc = "wait" => h[i].pc = "wait" /\ h'[i].ch = h[i].ch /\ (h[i].reply => h'[i].reply)
    BY <1>3 DEF HKeep
  <2>. QED  BY <2>1, <2>2, <2>3, KeptStill
<1>. QED  BY <1>5, <1>6, <1>7, <1>8 DEF Inv

\* replyToWriter.
LEMMA ReplyStep == ASSUME Inv, replyToWriter PROVE Inv'
<1>1. IsSc(sc) /\ todo # <<>> /\ Head(todo).op = "reply"
  BY DEF Inv, Shapes, replyToWriter, At
<1>2. PICK u : sc' = [sc EXCEPT !.inLoop = u]
  BY Zenon DEF replyToWriter
<1>3. ScStill(sc, sc')
  BY <1>1, <1>2, ScHas DEF ScStill, Counts, IsSc, Rec
<1>4. Makes(tickle)
  BY <1>1, ResetPut, PutMade DEF replyToWriter, Makes, Then, tickle
<1>5. writing = NoFrame <=> ~sc.async
  BY <1>1 DEF Inv, Turn, At
<1>6. PICK wr : wr = Now.wr
  OBVIOUS
<1>7. /\ h' = replied(wr) /\ st' = st /\ q' = q /\ writing' = writing /\ want' = want /\ msgs' = msgs /\ left' = left
      /\ fault' = fault
  BY <1>6 DEF replyToWriter
<1>8. Head(todo).op \in Carriers
  BY <1>1 DEF Carriers
<1>. QED  BY <1>1, <1>3, <1>4, <1>5, <1>6, <1>7, <1>8, ReplySteps

\* wroteFrame.
LEMMA WroteStep == ASSUME Inv, wroteFrame PROVE Inv'
<1>1. /\ IsSc(sc) /\ IsSt(st) /\ StStill(st, st) /\ IsTodo(todo) /\ Shapes
      /\ todo # <<>> /\ Head(todo).op = "wroteFrame"
  BY SameStill DEF Inv, Shapes, wroteFrame, At
<1>2. PICK wr : wr = writing /\ IsFr(wr) /\ wr # NoFrame
  BY <1>1, TurnSays DEF At
<1>3. q' = q /\ want' = want /\ msgs' = msgs /\ h' = h /\ left' = left /\ fault' = fault /\ writing' = NoFrame
  BY DEF wroteFrame
<1>4. PICK hangsUp, closes :
        /\ hangsUp = (wr.id # 0 /\ wr.end /\ st[wr.id].state = "open")
        /\ closes = ((wr.id # 0 /\ wr.end /\ st[wr.id].state = "halfClosedRemote")
                     \/ (wr.kind = "rst" /\ open(wr.id)) \/ wr.kind = "panicRST")
  BY Zenon
<1>5. /\ st' = IF hangsUp THEN [st EXCEPT ![wr.id].state = "halfClosedLocal"] ELSE st
      /\ todo' = ((IF hangsUp THEN resetStream(wr.id)
                   ELSE IF closes THEN <<callOn("closeStream", wr.id)>> ELSE <<>>)
                  \o <<callWith("reply", wr)>>) \o Tail(todo)
      /\ sc' = [sc EXCEPT !.async = FALSE]
  BY <1>2, <1>4, Zenon DEF wroteFrame, Then
<1>6. hangsUp \/ closes => wr.id \in Ids
  BY <1>2, <1>4 DEF IsFr, OnStream
<1>7. StStill(st, st')
  <2>1. CASE hangsUp
    <3>1. PICK i \in Ids : i = wr.id /\ st[i].state = "open"
      BY <1>4, <1>6, <2>1
    <3>2. st' = [st EXCEPT ![i].state = "halfClosedLocal"]
      BY <1>5, <2>1, <3>1
    <3>. QED  BY <1>1, <3>1, <3>2, StHas DEF StStill, RowStill, StateSame, IsSt, Table, Rec, Live
  <2>. QED  BY <1>1, <1>5, <2>1
<1>8. IsSc(sc') /\ Counts(sc, sc') /\ sc'.qctl = sc.qctl /\ sc'.async = FALSE
  <2>1. sc' = [sc EXCEPT !.async = FALSE] /\ IsSc(sc)
    BY <1>1, <1>5
  <2>. QED  BY <2>1, ScHas DEF Counts, IsSc, Rec
<1>9. PICK x : x = callWith("reply", wr) /\ IsCall(x) /\ x.op = "reply" /\ x.wr = wr
  BY <1>2, CallIs DEF Carriers
<1>10. PICK c : Makes(c) /\ x \in ToSet(c)
  <2>1. PICK b : Put(b) /\ b = IF hangsUp THEN resetStream(wr.id)
                              ELSE IF closes THEN <<callOn("closeStream", wr.id)>> ELSE <<>>
    BY <1>6, ResetPut, PutMade
  <2>2. Put(<<x>>) /\ ToSet(<<x>>) = {x} /\ List(<<x>>)
    BY <1>9, PutMade, ListShort DEF First
  <2>3. Put(b \o <<x>>) /\ ToSet(b \o <<x>>) = ToSet(b) \cup {x}
    BY <2>1, <2>2, PutMade, ListConcat DEF Put
  <2>4. todo' = (b \o <<x>>) \o Tail(todo)
    BY <1>5, <1>9, <2>1
  <2>. QED  BY <1>1, <2>3, <2>4 DEF Makes
<1>11. /\ IsTodo(todo)' /\ ~At("startFrameWrite")' /\ ~At("wroteFrame")' /\ Stays("stop") /\ Stays("closeStream2")
       /\ ToSet(todo') = ToSet(c) \cup ToSet(Tail(todo))
       /\ \A y \in ToSet(todo) : y \in ToSet(todo') \/ y = Head(todo)
  BY <1>1, <1>10, RanTodo
<1>12. Shapes'
  BY <1>1, <1>3, <1>7, <1>8, <1>11 DEF Shapes, StStill
<1>13. Tally'
  <2>1. Still
    BY <1>3, <1>7, <1>8 DEF Still, StStill, RowStill, PcSame
  <2>2. Queued'
    BY <1>3, <1>8, QueuedStill
  <2>. QED  BY <1>8, <2>1, <2>2, TallyStill DEF Tally
<1>14. Turn'
  BY <1>3, <1>8, <1>11 DEF Turn
<1>15. Kept'
  <2>1. ASSUME NEW i \in Ids PROVE (Gone(i) => Gone(i)') /\ (st'[i].state = "closed" => st[i].state = "closed")
    <3>1. (st[i].cw => st'[i].cw) /\ (sc.done => sc'.done) /\ (fault => fault')
      BY <1>3, <1>7, <1>8 DEF StStill, RowStill, Counts
    <3>2. st'[i].state = "closed" => st[i].state = "closed"
      BY <1>7 DEF StStill, RowStill, StateSame, Live
    <3>. QED  BY <1>11, <3>1, <3>2, GoneStill
  <2>2. ASSUME NEW i \in Ids, NEW f, f.id = i, Somewhere(f) PROVE Follows(i, f)
    <3>1. \A y \in ToSet(todo) : y.op \in Carriers => y \in ToSet(todo')
      BY <1>1, <1>11 DEF Carriers
    <3>2. x \in ToSet(todo') /\ x.op \in Carriers
      BY <1>9, <1>10, <1>11 DEF Carriers
    <3>3. Somewhere(f)'
      BY <1>2, <1>3, <1>9, <2>2, <3>1, <3>2 DEF Somewhere
    <3>. QED  BY <2>2, <3>3 DEF Follows
  <2>. QED  BY <1>3, <2>1, <2>2, KeptStill
<1>. QED  BY <1>12, <1>13, <1>14, <1>15 DEF Inv
----------------------------------------------------------------------------
(* Streams that close, and the end of the loop *)

\* A list of calls that comes first in the loop.
LEMMA PutFirst ==
  ASSUME NEW s, Put(s)
  PROVE  IsTodo(s) /\ (s # <<>> => Head(s).op \notin First)
<1>1. s # <<>> => IsCall(Head(s)) /\ Head(s).op \notin First /\ Put(Tail(s))
  BY ListTail DEF Put
<1>2. List(s)
  BY DEF Put
<1>. QED  BY <1>1, <1>2 DEF IsTodo

\* The second half of closeStream: no handler waits on the stream any more.
LEMMA CloseStream2Step == ASSUME Inv, closeStream2 PROVE Inv'
<1>1. /\ IsSc(sc) /\ IsSt(st) /\ IsQ(q) /\ IsTodo(todo) /\ Shapes
      /\ todo # <<>> /\ Head(todo).op = "closeStream2" /\ ~At("startFrameWrite") /\ ~At("wroteFrame")
  BY DEF Inv, Shapes, closeStream2, At
<1>2. PICK i \in Ids : i = Now.id
  BY <1>1, TodoHas DEF IsCall, OnIds, Now
<1>3. /\ sc' = sc /\ h' = h /\ writing' = writing /\ want' = want /\ msgs' = msgs /\ left' = left /\ fault' = fault
      /\ st' = [st EXCEPT ![i].closed = TRUE, ![i].cw = TRUE] /\ q' = [q EXCEPT ![i] = <<>>]
  BY <1>2 DEF closeStream2
<1>4. Makes(<<>>)
  BY <1>1, PutMade DEF closeStream2, Makes, Then
<1>5. /\ IsTodo(todo)' /\ ~At("startFrameWrite")' /\ ~At("wroteFrame")' /\ Stays("stop")
      /\ \A x \in ToSet(todo) : x \in ToSet(todo') \/ x = Head(todo)
  BY <1>1, <1>4, RanTodo
<1>6. st' = [st EXCEPT ![i].closed = TRUE, ![i].cw = TRUE]
  BY <1>3
<1>7. StStill(st, st')
  BY <1>1, <1>6, StHas DEF StStill, RowStill, StateSame, IsSt, Table, Rec
<1>8. st'[i].cw
  BY <1>1, <1>6, StHas DEF IsSt, Table, Rec
<1>9. /\ \A j \in Ids \cup {0} : q'[j] = IF j = i THEN <<>> ELSE q[j]
      /\ q' = [j \in Ids \cup {0} |-> q'[j]]
  BY <1>1, <1>3 DEF IsQ
<1>10. IsQ(q') /\ q'[0] = q[0]
  BY <1>1, <1>9, FramesMade, IdsFacts DEF IsQ
<1>11. Shapes'
  BY <1>1, <1>3, <1>5, <1>7, <1>10 DEF Shapes, StStill
<1>12. Tally'
  <2>1. Still
    BY <1>1, <1>3, <1>7, SameStill DEF Still, StStill, RowStill, PcSame, ScStill
  <2>2. Queued'
    BY <1>3, <1>10, QueuedStill
  <2>. QED  BY <1>1, <1>3, <2>1, <2>2, TallyStill DEF Tally
<1>13. Turn'
  BY <1>1, <1>3, <1>5, TurnStill
<1>14. Kept'
  <2>1. ASSUME NEW j \in Ids, Gone(j) PROVE Gone(j)'
    <3>1. CASE j = i
      BY <1>8, <3>1 DEF Gone
    <3>2. CASE j # i
      <4>1. st[j].cw => st'[j].cw
        BY <1>7 DEF StStill, RowStill
      <4>2. \A x \in ToSet(todo) : x.op = "closeStream2" /\ x.id = j => x \in ToSet(todo')
        BY <1>2, <1>5, <3>2 DEF Now
      <4>. QED  BY <1>3, <1>5, <2>1, <4>1, <4>2 DEF Gone, Has, HasOn, Stays
    <3>. QED  BY <3>1, <3>2
  <2>2. \A j \in Ids : st'[j].state = "closed" => st[j].state = "closed"
    BY <1>7 DEF StStill, RowStill, StateSame, Live
  <2>3. ASSUME NEW j \in Ids, NEW f, f.id = j, Somewhere(f) PROVE Follows(j, f)
    <3>1. CASE j = i
      BY <1>8, <3>1 DEF Follows, Gone
    <3>2. CASE j # i
      <4>1. \A x \in ToSet(todo) : x.op \in Carriers => x \in ToSet(todo')
        BY <1>1, <1>5 DEF Carriers
      <4>2. q'[f.id] = q[f.id]
        BY <1>9, <2>3, <3>2
      <4>3. Somewhere(f)'
        BY <1>3, <2>3, <4>1, <4>2 DEF Somewhere
      <4>. QED  BY <2>3, <4>3 DEF Follows
    <3>. QED  BY <3>1, <3>2
  <2>. QED  BY <1>3, <2>1, <2>2, <2>3, KeptStill
<1>. QED  BY <1>11, <1>12, <1>13, <1>14 DEF Inv

\* The loop is about to stop, or has: every wait is excused.
LEMMA KeptEnds ==
  ASSUME Inv, h' = h, \A i \in Ids : Gone(i)'
  PROVE  Kept'
<1>1. \A i \in Ids : h[i].pc = "wait" => h[i].ch # 0
  BY DEF Inv, Kept, Waits
<1>. QED  BY <1>1 DEF Kept, Waits

\* What stop leaves to call.
LEMMA StopTodo ==
  ASSUME NEW s, s \in SetToSeqs({callOn("closeStream", i) : i \in openStreams})
  PROVE  Put(s)
<1>. DEFINE S == {callOn("closeStream", i) : i \in openStreams}
<1>1. \A x \in S : IsCall(x) /\ x.op \notin First
  <2>1. \A i \in Ids : IsCall(callOn("closeStream", i)) /\ callOn("closeStream", i).op = "closeStream"
    BY CallIs DEF Carriers
  <2>. QED  BY <2>1 DEF openStreams, First
<1>2. IsFiniteSet(S)
  <2>1. openStreams \subseteq Ids
    BY DEF openStreams
  <2>2. IsFiniteSet(openStreams)
    BY <2>1, IdsFacts, FS_Subset
  <2>3. PICK f : f = [i \in openStreams |-> callOn("closeStream", i)]
    OBVIOUS
  <2>4. f \in Surjection(openStreams, S)
    BY <2>3 DEF Surjection
  <2>. QED  BY <2>2, <2>4, FS_Surjection
<1>. HIDE DEF S
<1>3. Cardinality(S) \in Nat
  BY <1>2, FS_CardinalityType
<1>4. s \in [1 .. Cardinality(S) -> S]
  BY DEF SetToSeqs, S
<1>5. s \in Seq(S)
  BY <1>3, <1>4
<1>6. List(s) /\ ToSet(s) \subseteq S
  BY <1>5, ListOf
<1>. QED  BY <1>1, <1>6 DEF Put

\* stop.
LEMMA StopStep == ASSUME Inv, stop PROVE Inv'
<1>1. IsSc(sc) /\ Shapes /\ ~At("startFrameWrite") /\ ~At("wroteFrame")
  BY DEF Inv, Shapes, stop, At
<1>2. sc' = [sc EXCEPT !.done = TRUE]
  BY DEF stop
<1>3. /\ st' = st /\ q' = q /\ h' = h /\ writing' = writing /\ want' = want /\ msgs' = msgs /\ left' = left
      /\ fault' = fault
  BY DEF stop
<1>4. Put(todo')
  BY StopTodo DEF stop
<1>5. IsTodo(todo)' /\ ~At("startFrameWrite")' /\ ~At("wroteFrame")'
  BY <1>4, PutFirst DEF At, First
<1>6. ScStill(sc, sc') /\ sc'.done
  BY <1>1, <1>2, ScHas DEF ScStill, Counts, IsSc, Rec
<1>7. Shapes'
  BY <1>1, <1>3, <1>5, <1>6 DEF Shapes, ScStill
<1>8. Tally'
  <2>1. Still
    BY <1>3, <1>6 DEF Still, StateSame, PcSame, ScStill
  <2>2. Queued' /\ IsSc(sc')
    BY <1>3, <1>6, QueuedStill DEF ScStill
  <2>. QED  BY <2>1, <2>2, TallyStill DEF Tally
<1>9. Turn'
  BY <1>1, <1>3, <1>5, <1>6, TurnStill DEF ScStill
<1>10. Kept'
  <2>1. \A i \in Ids : Gone(i)'
    BY <1>6 DEF Gone
  <2>. QED  BY <1>3, <2>1, KeptEnds
<1>. QED  BY <1>7, <1>8, <1>9, <1>10 DEF Inv

\* A step that leaves only the end of the loop to call.
LEMMA LeavesStop ==
  ASSUME Inv, todo' = <<call("stop")>>, ~At("startFrameWrite"), ~At("wroteFrame"),
         sc' = sc, st' = st, q' = q, h' = h, writing' = writing, want' = want, left' = left, fault' = fault,
         Frames(msgs'), Cardinality(Ending(msgs')) = Cardinality(Ending(msgs))
  PROVE  Inv'
<1>1. IsSc(sc) /\ Shapes
  BY DEF Inv, Shapes
<1>2. Put(<<call("stop")>>) /\ ToSet(<<call("stop")>>) = {call("stop")}
  BY ResetPut, ListShort
<1>3. IsTodo(todo)' /\ ~At("startFrameWrite")' /\ ~At("wroteFrame")'
  BY <1>2, PutFirst DEF At, First
<1>4. Shapes'
  BY <1>1, <1>3 DEF Shapes
<1>5. Tally'
  <2>1. Still
    BY <1>1, SameStill DEF Still, StateSame, PcSame, ScStill
  <2>. QED  BY <1>1, <2>1, QueuedStill, TallyStill DEF Tally
<1>6. Turn'
  BY <1>3, TurnStill
<1>7. Kept'
  <2>1. Has("stop")'
    BY <1>2 DEF Has, call
  <2>. QED  BY <2>1, KeptEnds DEF Gone
<1>. QED  BY <1>4, <1>5, <1>6, <1>7 DEF Inv

\* The connection ends.
LEMMA ReadErrorStep == ASSUME Inv, processReadError PROVE Inv'
<1>1. CASE Now.f.kind = "eof"
  <2>1. /\ todo' = <<call("stop")>> /\ ~At("startFrameWrite") /\ ~At("wroteFrame")
        /\ sc' = sc /\ st' = st /\ q' = q /\ h' = h /\ writing' = writing /\ want' = want /\ msgs' = msgs
        /\ left' = left /\ fault' = fault
    BY <1>1 DEF processReadError, At
  <2>2. Frames(msgs') /\ Cardinality(Ending(msgs')) = Cardinality(Ending(msgs))
    BY <2>1 DEF Inv, Shapes
  <2>. QED  BY <2>1, <2>2, LeavesStop
<1>2. CASE Now.f.kind # "eof"
  BY <1>2, TooLargeStep
<1>. QED  BY <1>1, <1>2

\* A stream less is counted.
LEMMA TallyClosed ==
  ASSUME Inv, NEW i \in Ids, st[i].state \in Live, sc' = uncounted(i), st' = [st EXCEPT ![i].state = "closed"],
         h' = h, msgs' = msgs
  PROVE  /\ IsSc(sc') /\ IsSt(st') /\ \A j \in Ids : st'[j].cw = st[j].cw
         /\ \A j \in Ids : st'[j].state = IF j = i THEN "closed" ELSE st[j].state
         /\ sc'.qctl = sc.qctl /\ sc'.async = sc.async /\ sc'.done = sc.done
         /\ (Counted /\ Handled /\ Lined /\ Fresh /\ Begun)'
<1>1. IsSc(sc) /\ IsSt(st) /\ Counted /\ Handled /\ Lined /\ Fresh /\ Begun
  BY DEF Inv, Shapes, Tally
<1>2. /\ IsSt(st') /\ \A j \in Ids : st'[j].cw = st[j].cw
      /\ \A j \in Ids : st'[j].state = IF j = i THEN "closed" ELSE st[j].state
  <2>1. Table(st, Ids, StFields)
    BY <1>1 DEF IsSt
  <2>2. Table(st', Ids, StFields)
    BY <2>1, StHas DEF Table, Rec
  <2>3. \A j \in Ids : st'[j].state = IF j = i THEN "closed" ELSE st[j].state
    BY <2>1, StHas DEF Table, Rec
  <2>4. \A j \in Ids : st'[j].cw = st[j].cw
    BY <2>1, StHas DEF Table, Rec
  <2>. QED  BY <2>2, <2>3, <2>4 DEF IsSt
<1>3. /\ IsSc(sc') /\ sc'.curHandlers = sc.curHandlers /\ sc'.unstarted = sc.unstarted
      /\ sc'.maxPush = sc.maxPush /\ sc'.maxClient = sc.maxClient
      /\ sc'.qctl = sc.qctl /\ sc'.async = sc.async /\ sc'.done = sc.done
      /\ (i \in PushIds => sc'.curPushed = sc.curPushed - 1 /\ sc'.curClient = sc.curClient)
      /\ (i \notin PushIds => sc'.curPushed = sc.curPushed /\ sc'.curClient = sc.curClient - 1)
  <2>1. CASE i \in PushIds
    <3>1. sc' = [sc EXCEPT !.curPushed = @ - 1]
      BY <2>1 DEF uncounted
    <3>. QED  BY <1>1, <2>1, <3>1, ScHas DEF IsSc, Rec
  <2>2. CASE i \notin PushIds
    <3>1. sc' = [sc EXCEPT !.curClient = @ - 1]
      BY <2>2 DEF uncounted
    <3>. QED  BY <1>1, <2>2, <3>1, ScHas DEF IsSc, Rec
  <2>. QED  BY <2>1, <2>2
<1>4. Opened(st') = Opened(st) \ {i} /\ i \in Opened(st) /\ IsFiniteSet(Opened(st))
  <2>1. Opened(st) \subseteq Ids
    BY DEF Opened
  <2>. QED  BY <1>2, <2>1, IdsFacts, FS_Subset DEF Opened, Live
<1>5. Counted'
  <2>1. CASE i \in PushIds
    <3>1. Opened(st') \cap ClientIds = Opened(st) \cap ClientIds /\ Opened(st') \cap PushIds = (Opened(st) \cap PushIds) \ {i}
          /\ i \in Opened(st) \cap PushIds
      BY <1>4, <2>1, IdsFacts
    <3>2. IsFiniteSet(Opened(st) \cap PushIds)
      BY <1>4, FS_Subset
    <3>3. Cardinality((Opened(st) \cap PushIds) \ {i}) = Cardinality(Opened(st) \cap PushIds) - 1
      BY <3>1, <3>2, FS_RemoveElement
    <3>. QED  BY <1>1, <1>3, <2>1, <3>1, <3>3 DEF Counted
  <2>2. CASE i \notin PushIds
    <3>1. Opened(st') \cap PushIds = Opened(st) \cap PushIds /\ Opened(st') \cap ClientIds = (Opened(st) \cap ClientIds) \ {i}
          /\ i \in Opened(st) \cap ClientIds
      BY <1>4, <2>2, IdsFacts
    <3>2. IsFiniteSet(Opened(st) \cap ClientIds)
      BY <1>4, FS_Subset
    <3>3. Cardinality((Opened(st) \cap ClientIds) \ {i}) = Cardinality(Opened(st) \cap ClientIds) - 1
      BY <3>1, <3>2, FS_RemoveElement
    <3>. QED  BY <1>1, <1>3, <2>2, <3>1, <3>3 DEF Counted
  <2>. QED  BY <2>1, <2>2
<1>6. Handled'
  BY <1>1, <1>3 DEF Handled
<1>7. Lined'
  <2>1. \A k \in DOMAIN sc.unstarted : sc.unstarted[k] \in Ids
    BY <1>1, IdsFacts DEF Lined
  <2>2. \A k \in DOMAIN sc.unstarted : st'[sc.unstarted[k]].state \in Live => st[sc.unstarted[k]].state \in Live
    BY <1>2, <2>1 DEF Live
  <2>. QED  BY <1>1, <1>3, <2>2 DEF Lined
<1>8. Fresh'
  <2>1. \A j \in Ids : st[j].state = "idle" => st'[j].state = "idle"
    BY <1>2 DEF Live
  <2>. QED  BY <1>1, <1>3, <2>1, IdsFacts DEF Fresh
<1>9. Begun'
  <2>1. \A j \in Ids : st'[j].state = "idle" => st[j].state = "idle"
    BY <1>2
  <2>. QED  BY <1>1, <2>1 DEF Begun
<1>. QED  BY <1>2, <1>3, <1>5, <1>6, <1>7, <1>8, <1>9

\* closeStream.
LEMMA CloseStreamStep == ASSUME Inv, closeStream PROVE Inv'
<1>1. /\ IsSc(sc) /\ IsSt(st) /\ IsTodo(todo) /\ Shapes
      /\ todo # <<>> /\ Head(todo).op = "closeStream" /\ ~At("startFrameWrite") /\ ~At("wroteFrame")
  BY DEF Inv, Shapes, closeStream, At
<1>2. PICK i \in Ids : i = Now.id
  BY <1>1, TodoHas DEF IsCall, OnIds, Now
<1>3. q' = q /\ h' = h /\ writing' = writing /\ want' = want /\ msgs' = msgs /\ left' = left
  BY DEF closeStream
<1>4. CASE ~open(i)
  <2>1. Fail /\ sc' = sc /\ st' = st
    BY <1>2, <1>4, Zenon DEF closeStream
  <2>. QED  BY <1>1, <1>3, <2>1, FailSteps
<1>5. CASE open(i)
  <2>1. /\ st' = [st EXCEPT ![i].state = "closed"] /\ sc' = uncounted(i) /\ fault' = fault
        /\ \E a, b : /\ a = <<>> \/ a = <<callGoAway("No")>>
                     /\ b = <<>> \/ b = <<callWindow(0, st[i].buf)>>
                     /\ todo' = (a \o b \o <<callOn("closeStream2", i)>>) \o Tail(todo)
    <3>1. /\ st' = [st EXCEPT ![i].state = "closed"] /\ sc' = uncounted(i) /\ fault' = fault
          /\ Then((IF openStreams = {i} /\ "noKeepAlives" \in may THEN <<callGoAway("No")>> ELSE <<>>)
                  \o (IF st[i].body THEN <<callWindow(0, st[i].buf)>> ELSE <<>>)
                  \o <<callOn("closeStream2", i)>>)
      BY <1>2, <1>5, Zenon DEF closeStream
    <3>2. PICK a : /\ a = (IF openStreams = {i} /\ "noKeepAlives" \in may THEN <<callGoAway("No")>> ELSE <<>>)
                   /\ a = <<>> \/ a = <<callGoAway("No")>>
      OBVIOUS
    <3>3. PICK b : /\ b = (IF st[i].body THEN <<callWindow(0, st[i].buf)>> ELSE <<>>)
                   /\ b = <<>> \/ b = <<callWindow(0, st[i].buf)>>
      OBVIOUS
    <3>4. todo' = (a \o b \o <<callOn("closeStream2", i)>>) \o Tail(todo)
      BY <3>1, <3>2, <3>3, Zenon DEF Then
    <3>. QED  BY <3>1, <3>2, <3>3, <3>4, Zenon
  <2>2. PICK c : Makes(c) /\ callOn("closeStream2", i) \in ToSet(c)
    <3>1. PICK a, b : /\ a = <<>> \/ a = <<callGoAway("No")>>
                      /\ b = <<>> \/ b = <<callWindow(0, st[i].buf)>>
                      /\ todo' = (a \o b \o <<callOn("closeStream2", i)>>) \o Tail(todo)
      BY <2>1
    <3>2. Put(a) /\ Put(b)
      BY <3>1, PutMade, ResetPut
    <3>3. PICK z : z = <<callOn("closeStream2", i)>> /\ Put(z) /\ ToSet(z) = {callOn("closeStream2", i)}
      BY ResetPut, ListShort
    <3>4. PICK ab : ab = a \o b /\ Put(ab)
      BY <3>2, PutMade
    <3>5. Put(ab \o z) /\ ToSet(ab \o z) = ToSet(ab) \cup ToSet(z)
      BY <3>3, <3>4, PutMade, ListConcat DEF Put
    <3>. QED  BY <1>1, <3>1, <3>3, <3>4, <3>5 DEF Makes
  <2>3. /\ IsTodo(todo)' /\ ~At("startFrameWrite")' /\ ~At("wroteFrame")' /\ Stays("stop") /\ Stays("closeStream2")
        /\ ToSet(todo') = ToSet(c) \cup ToSet(Tail(todo))
        /\ \A x \in ToSet(todo) : x \in ToSet(todo') \/ x = Head(todo)
    BY <1>1, <2>2, RanTodo
  <2>4. /\ IsSc(sc') /\ IsSt(st') /\ \A j \in Ids : st'[j].cw = st[j].cw
        /\ \A j \in Ids : st'[j].state = IF j = i THEN "closed" ELSE st[j].state
        /\ sc'.qctl = sc.qctl /\ sc'.async = sc.async /\ sc'.done = sc.done
        /\ (Counted /\ Handled /\ Lined /\ Fresh /\ Begun)'
    BY <1>3, <1>5, <2>1, TallyClosed DEF open
  <2>5. Shapes'
    BY <1>1, <1>3, <2>1, <2>3, <2>4 DEF Shapes
  <2>6. Tally'
    BY <1>3, <2>4, QueuedStill DEF Tally
  <2>7. Turn'
    BY <1>1, <1>3, <2>3, <2>4, TurnStill
  <2>8. Kept'
    <3>1. ASSUME NEW j \in Ids PROVE Gone(j) => Gone(j)'
      BY <2>1, <2>3, <2>4, GoneStill
    <3>2. ASSUME NEW j \in Ids, st'[j].state = "closed", st[j].state # "closed" PROVE Gone(j)'
      <4>1. j = i
        BY <2>4, <3>2
      <4>2. callOn("closeStream2", i).op = "closeStream2" /\ callOn("closeStream2", i).id = i
        BY DEF callOn
      <4>. QED  BY <2>2, <2>3, <4>1, <4>2 DEF Gone, HasOn
    <3>3. ASSUME NEW j \in Ids, NEW f, f.id = j, Somewhere(f) PROVE Follows(j, f)
      <4>1. \A x \in ToSet(todo) : x.op \in Carriers => x \in ToSet(todo')
        BY <1>1, <2>3 DEF Carriers
      <4>2. Somewhere(f)'
        BY <1>3, <3>3, <4>1 DEF Somewhere
      <4>. QED  BY <3>3, <4>2 DEF Follows
    <3>. QED  BY <1>3, <3>1, <3>2, <3>3, KeptStill
  <2>. QED  BY <2>5, <2>6, <2>7, <2>8 DEF Inv
<1>. QED  BY <1>4, <1>5
----------------------------------------------------------------------------
(* Streams that open *)

\* A stream more is counted, and its handler if it runs.
Opens(i) ==
  /\ i \in Ids /\ st[i].state = "idle" /\ h[i].pc = "none"
  /\ st'[i].state \in Live /\ h'[i].pc \in {"run", "none"}
  /\ \A j \in Ids : j # i => st'[j] = st[j] /\ h'[j] = h[j]
Recounts(i) ==
  /\ sc'.curClient = sc.curClient + (IF i \in ClientIds THEN 1 ELSE 0)
  /\ sc'.curPushed = sc.curPushed + (IF i \in PushIds THEN 1 ELSE 0)
  /\ sc'.curHandlers = sc.curHandlers + (IF h'[i].pc = "run" THEN 1 ELSE 0)
  /\ sc'.maxClient >= sc.maxClient /\ (i \in ClientIds => i > sc.maxClient /\ sc'.maxClient >= i)
  /\ sc'.maxPush >= sc.maxPush /\ (i \in PushIds => sc'.maxPush >= i)
  /\ sc'.done = sc.done
  /\ \/ sc'.unstarted = sc.unstarted
     \/ /\ sc'.unstarted = Append(sc.unstarted, i) /\ i \in ClientIds /\ h'[i].pc = "none"
        /\ sc.curHandlers >= AdvMaxStreams

\* The counters are right again when a stream has been opened and counted.
LEMMA TallyOpened ==
  ASSUME Inv, NEW i, Opens(i), Recounts(i), IsSc(sc'), msgs' = msgs
  PROVE  (Counted /\ Handled /\ Lined /\ Fresh /\ Begun)'
<1>1. IsSc(sc) /\ Counted /\ Handled /\ Lined /\ Fresh /\ Begun
  BY DEF Inv, Shapes, Tally
<1>2. Opened(st') = Opened(st) \cup {i} /\ i \notin Opened(st) /\ IsFiniteSet(Opened(st))
  <2>1. Opened(st) \subseteq Ids
    BY DEF Opened
  <2>. QED  BY <2>1, IdsFacts, FS_Subset DEF Opened, Live, Opens
<1>3. /\ (h'[i].pc = "run" => Runs(h') = Runs(h) \cup {i}) /\ (h'[i].pc = "none" => Runs(h') = Runs(h))
      /\ i \notin Runs(h) /\ IsFiniteSet(Runs(h))
  <2>1. IsFiniteSet(Runs(h))
    <3>1. Runs(h) \subseteq Ids
      BY DEF Runs
    <3>. QED  BY <3>1, IdsFacts, FS_Subset, Zenon
  <2>2. i \in Ids /\ h[i].pc = "none" /\ \A j \in Ids : j # i => h'[j] = h[j]
    BY DEF Opens
  <2>3. i \notin Runs(h)
    BY <2>2 DEF Runs, Active
  <2>4. h'[i].pc = "run" => Runs(h') = Runs(h) \cup {i}
    BY <2>2 DEF Runs, Active
  <2>5. h'[i].pc = "none" => Runs(h') = Runs(h)
    BY <2>2 DEF Runs, Active
  <2>. QED  BY <2>1, <2>3, <2>4, <2>5, Zenon
<1>4. \A S : IsFiniteSet(S) /\ i \notin S => Cardinality(S \cup {i}) = Cardinality(S) + 1
  BY FS_AddElement
<1>5. Counted'
  <2>1. IsFiniteSet(Opened(st) \cap PushIds) /\ IsFiniteSet(Opened(st) \cap ClientIds)
    BY <1>2, FS_Subset
  <2>2. CASE i \in PushIds
    <3>1. Opened(st') \cap ClientIds = Opened(st) \cap ClientIds /\ Opened(st') \cap PushIds = (Opened(st) \cap PushIds) \cup {i}
          /\ i \notin ClientIds
      BY <1>2, <2>2, IdsFacts
    <3>2. Cardinality((Opened(st) \cap PushIds) \cup {i}) = Cardinality(Opened(st) \cap PushIds) + 1
      BY <1>2, <1>4, <2>1
    <3>3. sc'.curPushed = sc.curPushed + 1 /\ sc'.curClient = sc.curClient + 0 /\ sc.curClient \in Int
      BY <1>1, <2>2, <3>1 DEF Recounts, IsSc
    <3>4. sc'.curClient = Cardinality(Opened(st') \cap ClientIds)
      BY <1>1, <3>1, <3>3 DEF Counted
    <3>5. sc'.curPushed = Cardinality(Opened(st') \cap PushIds)
      BY <1>1, <3>1, <3>2, <3>3 DEF Counted
    <3>. QED  BY <3>4, <3>5 DEF Counted
  <2>3. CASE i \notin PushIds
    <3>1. Opened(st') \cap PushIds = Opened(st) \cap PushIds /\ Opened(st') \cap ClientIds = (Opened(st) \cap ClientIds) \cup {i}
          /\ i \in ClientIds
      BY <1>2, <2>3, IdsFacts DEF Opens
    <3>2. Cardinality((Opened(st) \cap ClientIds) \cup {i}) = Cardinality(Opened(st) \cap ClientIds) + 1
      BY <1>2, <1>4, <2>1
    <3>3. sc'.curClient = sc.curClient + 1 /\ sc'.curPushed = sc.curPushed + 0 /\ sc.curPushed \in Int
      BY <1>1, <2>3, <3>1 DEF Recounts, IsSc
    <3>4. sc'.curPushed = Cardinality(Opened(st') \cap PushIds)
      BY <1>1, <3>1, <3>3 DEF Counted
    <3>5. sc'.curClient = Cardinality(Opened(st') \cap ClientIds)
      BY <1>1, <3>1, <3>2, <3>3 DEF Counted
    <3>. QED  BY <3>4, <3>5 DEF Counted
  <2>. QED  BY <2>2, <2>3
<1>6. Handled'
  <2>1. CASE h'[i].pc = "run"
    <3>1. Cardinality(Runs(h')) = Cardinality(Runs(h)) + 1
      BY <1>3, <1>4, <2>1
    <3>2. Cardinality(Runs(h)) \in Nat
      BY <1>3, FS_CardinalityType
    <3>3. sc'.curHandlers = sc.curHandlers + 1 /\ sc'.done = sc.done
      BY <2>1 DEF Recounts
    <3>4. PICK e : e = Cardinality(Ending(msgs)) /\ e = Cardinality(Ending(msgs'))
      OBVIOUS
    <3>5. sc.curHandlers \in Int
      BY <1>1 DEF IsSc
    <3>6. ~sc.done => sc.curHandlers = Cardinality(Runs(h)) + e
      BY <1>1, <3>4 DEF Handled
    <3>7. ~sc.done => e \in Int
      <4>1. IsFiniteSet(Ending(msgs))
        <5>1. List(msgs)
          BY DEF Inv, Shapes, Frames
        <5>2. DOMAIN msgs = 1 .. Len(msgs) /\ Len(msgs) \in Nat
          BY <5>1, ListElements
        <5>3. IsFiniteSet(DOMAIN msgs)
          BY <5>2, FS_Interval
        <5>. QED  BY <5>3, FS_Subset DEF Ending
      <4>. QED  BY <3>4, <4>1, FS_CardinalityType
    <3>. QED  BY <3>1, <3>2, <3>3, <3>4, <3>5, <3>6, <3>7 DEF Handled
  <2>2. CASE h'[i].pc = "none"
    <3>1. sc'.curHandlers = sc.curHandlers /\ sc'.done = sc.done
      BY <1>1, <2>2 DEF Recounts, IsSc
    <3>. QED  BY <1>1, <1>3, <2>2, <3>1 DEF Handled
  <2>. QED  BY <2>1, <2>2 DEF Opens
<1>7. Lined'
  <2>. DEFINE u == sc.unstarted
  <2>1. \A k \in DOMAIN u : u[k] \in ClientIds /\ u[k] <= sc.maxClient /\ h[u[k]].pc = "none"
    BY <1>1 DEF Lined
  <2>2. sc.maxClient \in Nat /\ sc'.maxClient \in Nat /\ sc.curHandlers \in Int /\ List(u)
    BY <1>1 DEF IsSc
  <2>3. ASSUME NEW k \in DOMAIN u PROVE u[k] \in ClientIds /\ u[k] # i /\ u[k] <= sc'.maxClient
    <3>1. u[k] \in ClientIds /\ u[k] \in Nat /\ u[k] <= sc.maxClient
      BY <2>1, <2>3, IdsFacts
    <3>2. sc'.maxClient >= sc.maxClient /\ (i \in ClientIds => i > sc.maxClient)
      BY DEF Recounts
    <3>. QED  BY <2>2, <3>1, <3>2, IdsFacts
  <2>4. \A k \in DOMAIN u : u[k] \in Ids /\ h'[u[k]].pc = "none" /\ st'[u[k]] = st[u[k]]
    BY <2>1, <2>3, IdsFacts DEF Opens
  <2>5. sc'.curHandlers \in Int /\ sc'.curHandlers >= sc.curHandlers
    BY <2>2 DEF Recounts
  <2>6. \A j, k \in DOMAIN u : u[j] = u[k] => j = k
    BY <1>1 DEF Lined
  <2>7. CASE sc'.unstarted = u
    <3>1. (\E k \in DOMAIN u : st[u[k]].state \in Live) => sc.curHandlers >= AdvMaxStreams
      BY <1>1 DEF Lined
    <3>2. (\E k \in DOMAIN u : st'[u[k]].state \in Live) => sc'.curHandlers >= AdvMaxStreams
      BY <2>2, <2>4, <2>5, <3>1, LimitsAssumption
    <3>. QED  BY <2>3, <2>4, <2>6, <2>7, <3>2 DEF Lined
  <2>8. CASE /\ sc'.unstarted = Append(u, i) /\ i \in ClientIds /\ h'[i].pc = "none"
             /\ sc.curHandlers >= AdvMaxStreams
    <3>1. PICK w : w = Append(u, i)
      OBVIOUS
    <3>2. /\ DOMAIN u = 1 .. Len(u) /\ DOMAIN w = 1 .. Len(u) + 1 /\ Len(u) \in Nat
          /\ \A k \in 1 .. Len(u) : w[k] = u[k] /\ w[Len(u) + 1] = i
      BY <2>2, <3>1, ListAppend, ListElements
    <3>3. w[Len(u) + 1] = i
      BY <2>2, <3>1, ListAppend
    <3>4. \A k \in DOMAIN w : (k \in DOMAIN u /\ w[k] = u[k]) \/ (k = Len(u) + 1 /\ w[k] = i)
      BY <3>2, <3>3
    <3>5. sc'.maxClient >= i
      BY <2>8 DEF Recounts
    <3>6. \A k \in DOMAIN w : w[k] \in ClientIds /\ w[k] <= sc'.maxClient /\ h'[w[k]].pc = "none"
      BY <2>2, <2>3, <2>4, <2>8, <3>4, <3>5, IdsFacts
    <3>7. \A j, k \in DOMAIN w : w[j] = w[k] => j = k
      BY <2>3, <2>6, <3>4
    <3>8. sc'.curHandlers >= AdvMaxStreams
      BY <2>2, <2>5, <2>8, LimitsAssumption
    <3>. QED  BY <2>8, <3>1, <3>6, <3>7, <3>8 DEF Lined
  <2>. QED  BY <2>7, <2>8 DEF Recounts
<1>8. Fresh'
  <2>1. /\ sc.maxClient \in Nat /\ sc'.maxClient \in Nat /\ sc.maxPush \in Nat /\ sc'.maxPush \in Nat
        /\ sc'.maxClient >= sc.maxClient /\ sc'.maxPush >= sc.maxPush
        /\ (i \in ClientIds => sc'.maxClient >= i) /\ (i \in PushIds => sc'.maxPush >= i)
    BY <1>1 DEF Recounts, IsSc
  <2>2. ASSUME NEW j \in ClientIds, j > sc'.maxClient PROVE j # i /\ j \in Ids /\ j > sc.maxClient
    BY <2>1, <2>2, IdsFacts
  <2>3. ASSUME NEW j \in PushIds, j > sc'.maxPush PROVE j # i /\ j \in Ids /\ j > sc.maxPush
    BY <2>1, <2>3, IdsFacts
  <2>. QED  BY <1>1, <2>2, <2>3 DEF Fresh, Opens
<1>9. Begun'
  BY <1>1 DEF Begun, Opens, Live
<1>. QED  BY <1>5, <1>6, <1>7, <1>8, <1>9

\* No handler waits on a stream that opens; the others wait as before.
LEMMA KeptOpened ==
  ASSUME Inv, NEW i, Opens(i), sc.done => sc'.done, fault => fault', Stays("stop"), Stays("closeStream2"),
         \A f : f.id \in Ids /\ Somewhere(f) => Somewhere(f)'
  PROVE  Kept'
<1>. SUFFICES ASSUME NEW j \in Ids PROVE (st'[j].state = "closed" => Gone(j)') /\ Waits(j)'
  BY DEF Kept
<1>1. CASE j = i
  BY <1>1 DEF Opens, Waits, Live
<1>2. CASE j # i
  <2>1. st'[j] = st[j] /\ h'[j] = h[j]
    BY <1>2 DEF Opens
  <2>2. Gone(j) => Gone(j)'
    BY <2>1, GoneStill
  <2>3. (st[j].state = "closed" => Gone(j)) /\ Waits(j)
    BY DEF Inv, Kept
  <2>4. \A f : f.id = j /\ Somewhere(f) => Follows(j, f)
    BY DEF Follows
  <2>5. Waits(j)'
    BY <2>1, <2>2, <2>3, <2>4, WaitStill
  <2>. QED  BY <2>1, <2>2, <2>3, <2>5
<1>. QED  BY <1>1, <1>2

\* The record of a handler that is new.
LEMMA HandlerNew ==
  /\ \A e, p : p = [newHandler EXCEPT !.expect = e] => Rec(p, HFields) /\ p.pc = "none" /\ p.ch = 0 /\ p.out = <<>>
  /\ \A e, r : r = [[newHandler EXCEPT !.expect = e] EXCEPT !.pc = "run"] =>
       Rec(r, HFields) /\ r.pc = "run" /\ r.ch = 0 /\ r.out = <<>>
<1>1. ASSUME NEW e, NEW p, p = [newHandler EXCEPT !.expect = e]
      PROVE  Rec(p, HFields) /\ p.pc = "none" /\ p.ch = 0 /\ p.out = <<>>
  BY <1>1 DEF newHandler, Rec, HFields
<1>2. ASSUME NEW e, NEW r, r = [[newHandler EXCEPT !.expect = e] EXCEPT !.pc = "run"]
      PROVE  Rec(r, HFields) /\ r.pc = "run" /\ r.ch = 0 /\ r.out = <<>>
  BY <1>2 DEF newHandler, Rec, HFields
<1>. QED  BY <1>1, <1>2

\* The table of the handlers with a new one.
LEMMA HRow ==
  ASSUME IsH(h), NEW i \in Ids, NEW r, Rec(r, HFields), r.ch = 0, r.out = <<>>, h' = [h EXCEPT ![i] = r]
  PROVE  IsH(h') /\ h'[i] = r /\ \A j \in Ids : j # i => h'[j] = h[j]
<1>1. Table(h', Ids, HFields) /\ h'[i] = r /\ \A j \in Ids : j # i => h'[j] = h[j]
  <2>1. PICK f, g : f = h /\ g = h' /\ Table(f, Ids, HFields) /\ g = [f EXCEPT ![i] = r]
    BY DEF IsH
  <2>2. Table(g, Ids, HFields) /\ g[i] = r /\ \A j \in Ids : j # i => g[j] = f[j]
    BY <2>1 DEF Table
  <2>. QED  BY <2>1, <2>2
<1>2. Frames(<<>>) /\ ToSet(<<>>) = {}
  BY FramesMade, ListShort
<1>. QED  BY <1>1, <1>2 DEF IsH
\* HEADERS that start a stream: its handler runs, waits for a place or is
\* refused one.
LEMMA HeadersOpen ==
  ASSUME Inv, At("process"), NEW f, f = Now.f, NEW i, i = f.id, i \in ClientIds, i > sc.maxClient,
         st' = [st EXCEPT ![i] = opened(f)],
         NEW n, NEW w, sc' = [sc EXCEPT !.maxClient = i, !.curClient = sc.curClient + 1, !.curHandlers = n, !.unstarted = w],
         \/ h' = h /\ n = sc.curHandlers /\ w = sc.unstarted
         \/ \E r : /\ Rec(r, HFields) /\ r.pc = "run" /\ r.ch = 0 /\ r.out = <<>> /\ h' = [h EXCEPT ![i] = r]
                   /\ n = sc.curHandlers + 1 /\ w = sc.unstarted
         \/ \E r : /\ Rec(r, HFields) /\ r.pc = "none" /\ r.ch = 0 /\ r.out = <<>> /\ h' = [h EXCEPT ![i] = r]
                   /\ n = sc.curHandlers /\ w = Append(sc.unstarted, i) /\ sc.curHandlers >= AdvMaxStreams,
         NEW c, Put(c), todo' = c \o Tail(todo),
         q' = q, writing' = writing, want' = want, msgs' = msgs, left' = left, fault' = fault
  PROVE  Inv'
<1>1. /\ IsSc(sc) /\ IsSt(st) /\ IsH(h) /\ IsTodo(todo) /\ Shapes /\ Fresh
      /\ todo # <<>> /\ Head(todo).op = "process" /\ ~At("startFrameWrite") /\ ~At("wroteFrame") /\ i \in Ids
  BY IdsFacts DEF Inv, Shapes, At, Tally
<1>2. st[i].state = "idle" /\ h[i].pc = "none"
  BY <1>1 DEF Fresh
<1>3. Makes(c)
  BY <1>1 DEF Makes
<1>4. /\ IsTodo(todo)' /\ ~At("startFrameWrite")' /\ ~At("wroteFrame")' /\ Stays("stop") /\ Stays("closeStream2")
      /\ \A x \in ToSet(todo) : x \in ToSet(todo') \/ x = Head(todo)
  BY <1>1, <1>3, RanTodo
<1>5. PICK s : s = opened(f) /\ Rec(s, StFields) /\ s.state \in Live
  <2>5. opened(f) = [newStream(sc.initWin) EXCEPT !.state = IF f.end THEN "halfClosedRemote" ELSE "open",
                                                  !.body = f.good /\ ~f.end, !.decl = f.decl]
    BY DEF opened
  <2>6. PICK a : a = (IF f.end THEN "halfClosedRemote" ELSE "open") /\ a \in Live
    BY DEF Live
  <2>7. opened(f) = [newStream(sc.initWin) EXCEPT !.state = a, !.body = f.good /\ ~f.end, !.decl = f.decl]
    BY <2>5, <2>6, Zenon
  <2>8. PICK e, b, d : e = newStream(sc.initWin) /\ b = (f.good /\ ~f.end) /\ d = f.decl
    OBVIOUS
  <2>1. opened(f) = [e EXCEPT !.state = a, !.body = b, !.decl = d] /\ a \in Live /\ e = newStream(sc.initWin)
    BY <2>6, <2>7, <2>8, Zenon
  <2>2. Rec(e, StFields)
    BY <2>1 DEF newStream, Rec, StFields
  <2>3. PICK s : s = [e EXCEPT !.state = a, !.body = b, !.decl = d]
    BY Zenon
  <2>4. Rec(s, StFields) /\ s.state = a
    BY <2>2, <2>3, StHas DEF Rec
  <2>9. s = opened(f) /\ s.state \in Live
    BY <2>1, <2>3, <2>4
  <2>. QED  BY <2>4, <2>9
<1>6. IsSt(st') /\ st'[i] = s /\ \A j \in Ids : j # i => st'[j] = st[j]
  <2>1. PICK x, y : x = st /\ y = st' /\ Table(x, Ids, StFields) /\ y = [x EXCEPT ![i] = s]
    BY <1>1, <1>5 DEF IsSt
  <2>2. Table(y, Ids, StFields) /\ y[i] = s /\ \A j \in Ids : j # i => y[j] = x[j]
    BY <1>1, <1>5, <2>1 DEF Table
  <2>. QED  BY <2>1, <2>2 DEF IsSt
<1>7. /\ IsH(h') /\ \A j \in Ids : j # i => h'[j] = h[j]
      /\ \/ h'[i].pc = "none" /\ n = sc.curHandlers /\ w = sc.unstarted
         \/ h'[i].pc = "run" /\ n = sc.curHandlers + 1 /\ w = sc.unstarted
         \/ h'[i].pc = "none" /\ n = sc.curHandlers /\ w = Append(sc.unstarted, i) /\ sc.curHandlers >= AdvMaxStreams
  <2>1. CASE h' = h /\ n = sc.curHandlers /\ w = sc.unstarted
    BY <1>1, <1>2, <2>1
  <2>2. ASSUME NEW r, Rec(r, HFields), r.ch = 0, r.out = <<>>, h' = [h EXCEPT ![i] = r]
        PROVE  IsH(h') /\ h'[i].pc = r.pc /\ \A j \in Ids : j # i => h'[j] = h[j]
    BY <1>1, <2>2, HRow
  <2>3. CASE \E r : /\ Rec(r, HFields) /\ r.pc = "run" /\ r.ch = 0 /\ r.out = <<>> /\ h' = [h EXCEPT ![i] = r]
                    /\ n = sc.curHandlers + 1 /\ w = sc.unstarted
    BY <2>2, <2>3
  <2>4. CASE \E r : /\ Rec(r, HFields) /\ r.pc = "none" /\ r.ch = 0 /\ r.out = <<>> /\ h' = [h EXCEPT ![i] = r]
                    /\ n = sc.curHandlers /\ w = Append(sc.unstarted, i) /\ sc.curHandlers >= AdvMaxStreams
    BY <2>2, <2>4
  <2>. QED  BY <2>1, <2>3, <2>4
<1>8. /\ IsSc(sc') /\ sc'.maxClient = i /\ sc'.curClient = sc.curClient + 1 /\ sc'.curHandlers = n /\ sc'.unstarted = w
      /\ sc'.curPushed = sc.curPushed /\ sc'.maxPush = sc.maxPush /\ sc'.done = sc.done /\ sc'.qctl = sc.qctl
      /\ sc'.async = sc.async
  <2>8. n \in Int /\ i \in Nat /\ sc.curClient + 1 \in Int
    BY <1>1, <1>7, IdsFacts DEF IsSc
  <2>9. List(w)
    <3>1. List(sc.unstarted)
      BY <1>1 DEF IsSc
    <3>2. List(Append(sc.unstarted, i))
      BY <3>1, ListAppend
    <3>. QED  BY <1>7, <3>1, <3>2
  <2>1. n \in Int /\ List(w) /\ i \in Nat /\ sc.curClient + 1 \in Int
    BY <2>8, <2>9
  <2>2. PICK m : m = sc.curClient + 1
    OBVIOUS
  <2>3. sc' = [sc EXCEPT !.maxClient = i, !.curClient = m, !.curHandlers = n, !.unstarted = w] /\ Rec(sc, ScFields)
    BY <1>1, <2>2 DEF IsSc
  <2>4. Rec(sc', ScFields)
    BY <2>3, ScHas DEF Rec
  <2>5. sc'.maxClient = i /\ sc'.curClient = m /\ sc'.curHandlers = n /\ sc'.unstarted = w
    BY <2>3, ScHas DEF Rec
  <2>6. /\ sc'.curPushed = sc.curPushed /\ sc'.maxPush = sc.maxPush /\ sc'.done = sc.done /\ sc'.qctl = sc.qctl
        /\ sc'.async = sc.async
    BY <2>3, ScHas DEF Rec
  <2>7. IsSc(sc')
    BY <1>1, <2>1, <2>2, <2>4, <2>5, <2>6 DEF IsSc
  <2>. QED  BY <2>2, <2>5, <2>6, <2>7
<1>9. Opens(i)
  BY <1>1, <1>2, <1>5, <1>6, <1>7 DEF Opens
<1>10. Recounts(i)
  <2>1. i \notin PushIds /\ i \in Nat /\ sc.maxClient \in Nat /\ sc.maxPush \in Nat /\ sc.curPushed \in Int /\ sc.curHandlers \in Int
    BY <1>1, IdsFacts DEF IsSc
  <2>2. sc'.curHandlers = sc.curHandlers + (IF h'[i].pc = "run" THEN 1 ELSE 0)
    BY <1>7, <1>8, <2>1
  <2>3. \/ sc'.unstarted = sc.unstarted
        \/ /\ sc'.unstarted = Append(sc.unstarted, i) /\ i \in ClientIds /\ h'[i].pc = "none"
           /\ sc.curHandlers >= AdvMaxStreams
    BY <1>7, <1>8
  <2>4. /\ sc'.curClient = sc.curClient + (IF i \in ClientIds THEN 1 ELSE 0)
        /\ sc'.curPushed = sc.curPushed + (IF i \in PushIds THEN 1 ELSE 0)
    BY <1>8, <2>1
  <2>5. /\ sc'.maxClient >= sc.maxClient /\ (i \in ClientIds => i > sc.maxClient /\ sc'.maxClient >= i)
        /\ sc'.maxPush >= sc.maxPush /\ (i \in PushIds => sc'.maxPush >= i) /\ sc'.done = sc.done
    BY <1>8, <2>1
  <2>. QED  BY <2>2, <2>3, <2>4, <2>5 DEF Recounts
<1>11. Shapes'
  BY <1>1, <1>4, <1>6, <1>7, <1>8 DEF Shapes
<1>12. Tally'
  BY <1>8, <1>9, <1>10, TallyOpened, QueuedStill DEF Tally
<1>13. Turn'
  BY <1>1, <1>4, <1>8, TurnStill
<1>14. Kept'
  <2>1. ASSUME NEW g, Somewhere(g) PROVE Somewhere(g)'
    <3>1. \A x \in ToSet(todo) : x.op \in Carriers => x \in ToSet(todo')
      BY <1>1, <1>4 DEF Carriers
    <3>. QED  BY <2>1, <3>1 DEF Somewhere
  <2>. QED  BY <1>4, <1>8, <1>9, <2>1, KeptOpened
<1>. QED  BY <1>11, <1>12, <1>13, <1>14 DEF Inv

\* HEADERS.
LEMMA HeadersStep == ASSUME Inv, processHeaders PROVE Inv'
<1>1. At("process") /\ q' = q /\ writing' = writing /\ want' = want /\ msgs' = msgs /\ left' = left /\ fault' = fault
  BY DEF processHeaders, Handle, Processing
<1>2. todo # <<>> /\ IsIn(Now.f) /\ IsSc(sc) /\ IsSt(st) /\ StStill(st, st)
  BY <1>1, Processed
<1>3. PICK f, i : f = Now.f /\ i = f.id /\ i \in Ids
  BY <1>2 DEF IsIn, processHeaders, Handle
<1>4. Put(<<>>) /\ Put(resetStream(i)) /\ Put(<<callGoAway("err")>>)
  BY <1>3, PutMade, ResetPut
<1>. DEFINE sc1 == [sc EXCEPT !.maxClient = i]
            sc2 == [sc1 EXCEPT !.curClient = @ + 1]
            handler == [newHandler EXCEPT !.expect = f.expect]
<1>5. CASE ConnError(f) /\ st' = st /\ h' = h
  BY <1>1, <1>2, <1>3, <1>5, ConnErrorSays, FrameSimple DEF Around, IsIn
<1>6. CASE i \in ClientIds /\ i > sc.maxClient /\ sc' = sc1 /\ Then(streamError(i)) /\ st' = st /\ h' = h
  <2>1. sc' = [sc EXCEPT !.maxClient = i] /\ i \in Nat /\ i > sc.maxClient /\ sc.maxClient \in Nat
    BY <1>2, <1>6, IdsFacts DEF IsSc
  <2>2. i >= sc.maxClient
    BY <2>1
  <2>3. ScStill(sc, sc')
    BY <1>2, <2>1, <2>2, ScHas DEF ScStill, Counts, IsSc, Rec
  <2>. QED  BY <1>1, <1>2, <1>4, <1>6, <2>3, FrameSimple DEF Around, Then, streamError
<1>7. ASSUME i \in ClientIds, i > sc.maxClient, st' = [st EXCEPT ![i] = opened(f)], f.good, scheduleHandler(i, sc2, handler)
      PROVE  Inv'
  <2>0. PICK e : e = f.expect
    OBVIOUS
  <2>1. PICK r : r = [handler EXCEPT !.pc = "run"] /\ Rec(r, HFields) /\ r.pc = "run" /\ r.ch = 0 /\ r.out = <<>>
    <3>1. PICK r : r = [[newHandler EXCEPT !.expect = e] EXCEPT !.pc = "run"]
      OBVIOUS
    <3>2. Rec(r, HFields) /\ r.pc = "run" /\ r.ch = 0 /\ r.out = <<>>
      BY <3>1, HandlerNew, Zenon
    <3>3. r = [handler EXCEPT !.pc = "run"]
      BY <2>0, <3>1, Zenon
    <3>. QED  BY <3>2, <3>3, Zenon
  <2>2. PICK p : p = handler /\ Rec(p, HFields) /\ p.pc = "none" /\ p.ch = 0 /\ p.out = <<>>
    <3>1. PICK p : p = [newHandler EXCEPT !.expect = e]
      OBVIOUS
    <3>2. Rec(p, HFields) /\ p.pc = "none" /\ p.ch = 0 /\ p.out = <<>>
      BY <3>1, HandlerNew, Zenon
    <3>3. p = handler
      BY <2>0, <3>1, Zenon
    <3>. QED  BY <3>2, <3>3, Zenon
  <2>4. /\ sc2 = [sc EXCEPT !.maxClient = i, !.curClient = sc.curClient + 1, !.curHandlers = sc.curHandlers, !.unstarted = sc.unstarted]
        /\ [sc2 EXCEPT !.curHandlers = @ + 1]
           = [sc EXCEPT !.maxClient = i, !.curClient = sc.curClient + 1, !.curHandlers = sc.curHandlers + 1, !.unstarted = sc.unstarted]
        /\ [sc2 EXCEPT !.unstarted = Append(@, i)]
           = [sc EXCEPT !.maxClient = i, !.curClient = sc.curClient + 1, !.curHandlers = sc.curHandlers, !.unstarted = Append(sc.unstarted, i)]
    <3>1. Rec(sc, ScFields)
      BY <1>2 DEF IsSc
    <3>2. sc2 = [sc EXCEPT !.maxClient = i, !.curClient = sc.curClient + 1, !.curHandlers = sc.curHandlers, !.unstarted = sc.unstarted]
      BY <3>1, ScHas DEF Rec
    <3>3. [sc2 EXCEPT !.curHandlers = @ + 1]
           = [sc EXCEPT !.maxClient = i, !.curClient = sc.curClient + 1, !.curHandlers = sc.curHandlers + 1, !.unstarted = sc.unstarted]
      BY <3>1, ScHas DEF Rec
    <3>4. [sc2 EXCEPT !.unstarted = Append(@, i)]
           = [sc EXCEPT !.maxClient = i, !.curClient = sc.curClient + 1, !.curHandlers = sc.curHandlers, !.unstarted = Append(sc.unstarted, i)]
      BY <3>1, ScHas DEF Rec
    <3>. QED  BY <3>2, <3>3, <3>4
  <2>. HIDE DEF sc2, handler
  <2>5. CASE sc' = [sc2 EXCEPT !.curHandlers = @ + 1] /\ h' = [h EXCEPT ![i] = [handler EXCEPT !.pc = "run"]] /\ Then(<<>>)
    <3>1. todo' = <<>> \o Tail(todo) /\ h' = [h EXCEPT ![i] = r]
      BY <2>1, <2>5 DEF Then
    <3>2. sc' = [sc EXCEPT !.maxClient = i, !.curClient = sc.curClient + 1, !.curHandlers = sc.curHandlers + 1, !.unstarted = sc.unstarted]
      BY <2>4, <2>5
    <3>. QED  BY <1>1, <1>3, <1>4, <1>7, <2>1, <3>1, <3>2, HeadersOpen
  <2>6. CASE sc' = sc2 /\ Then(<<callGoAway("err")>>) /\ h' = h
    <3>1. todo' = <<callGoAway("err")>> \o Tail(todo)
      BY <2>6 DEF Then
    <3>2. PICK n, w : /\ n = sc.curHandlers /\ w = sc.unstarted
                      /\ sc' = [sc EXCEPT !.maxClient = i, !.curClient = sc.curClient + 1, !.curHandlers = n, !.unstarted = w]
      BY <2>4, <2>6
    <3>3. h' = h /\ n = sc.curHandlers /\ w = sc.unstarted
      BY <2>6, <3>2
    <3>. QED  BY <1>1, <1>3, <1>4, <1>7, <3>1, <3>2, <3>3, HeadersOpen
  <2>7. CASE /\ sc.curHandlers >= AdvMaxStreams
             /\ sc' = [sc2 EXCEPT !.unstarted = Append(@, i)] /\ h' = [h EXCEPT ![i] = handler] /\ Then(<<>>)
    <3>1. todo' = <<>> \o Tail(todo) /\ h' = [h EXCEPT ![i] = p] /\ sc.curHandlers >= AdvMaxStreams
      BY <2>2, <2>7 DEF Then
    <3>2. sc' = [sc EXCEPT !.maxClient = i, !.curClient = sc.curClient + 1, !.curHandlers = sc.curHandlers, !.unstarted = Append(sc.unstarted, i)]
      BY <2>4, <2>7
    <3>. QED  BY <1>1, <1>3, <1>4, <1>7, <2>2, <3>1, <3>2, HeadersOpen
  <2>. QED  BY <1>7, <2>5, <2>6, <2>7, Zenon DEF scheduleHandler
<1>8. ASSUME i \in ClientIds, i > sc.maxClient, st' = [st EXCEPT ![i] = opened(f)], sc' = sc2, Then(streamError(i)), h' = h
      PROVE  Inv'
  <2>1. Rec(sc, ScFields)
    BY <1>2 DEF IsSc
  <2>2. sc' = [sc EXCEPT !.maxClient = i, !.curClient = sc.curClient + 1, !.curHandlers = sc.curHandlers, !.unstarted = sc.unstarted]
    BY <1>8, <2>1, ScHas DEF Rec
  <2>3. PICK c : Put(c) /\ todo' = c \o Tail(todo)
    BY <1>4, <1>8 DEF Then, streamError
  <2>4. PICK n, w : /\ n = sc.curHandlers /\ w = sc.unstarted
                    /\ sc' = [sc EXCEPT !.maxClient = i, !.curClient = sc.curClient + 1, !.curHandlers = n, !.unstarted = w]
    BY <2>2
  <2>5. h' = h /\ n = sc.curHandlers /\ w = sc.unstarted
    BY <1>8, <2>4
  <2>6. i \in ClientIds /\ i > sc.maxClient /\ st' = [st EXCEPT ![i] = opened(f)]
    BY <1>8
  <2>. QED  BY <1>1, <1>3, <2>3, <2>4, <2>5, <2>6, HeadersOpen
<1>. QED  BY <1>3, <1>5, <1>6, <1>7, <1>8, Zenon DEF processHeaders
\* A PUSH_PROMISE that starts: the promised stream and its handler start too.
LEMMA PushStep == ASSUME Inv, startPushPromise PROVE Inv'
<1>1. /\ IsSc(sc) /\ IsSt(st) /\ StStill(st, st) /\ ScStill(sc, sc) /\ IsH(h) /\ IsTodo(todo) /\ Shapes /\ Fresh
      /\ todo # <<>> /\ Head(todo).op = "startFrameWrite" /\ ~At("wroteFrame") /\ ~sc.async /\ writing = NoFrame
  BY SameStill, TurnSays DEF Inv, Shapes, startPushPromise, At, Tally
<1>2. PICK wr : wr = Now.wr /\ IsFr(wr)
  BY <1>1, CallFrame DEF Carriers
<1>3. q' = q /\ want' = want /\ msgs' = msgs /\ left' = left
  BY DEF startPushPromise
<1>4. CASE Fail /\ sc' = sc /\ st' = st /\ h' = h /\ writing' = writing
  BY <1>1, <1>3, <1>4, FailSteps
<1>5. ASSUME h' = replied(wr), NEW c, Put(c), Then(c), sc' = sc, st' = st, fault' = fault, writing' = writing
      PROVE  Inv'
  <2>1. Makes(c)
    BY <1>1, <1>5 DEF Makes, Then
  <2>2. Head(todo).op \in Carriers /\ (writing = NoFrame <=> ~sc.async)
    BY <1>1 DEF Carriers
  <2>3. ScStill(sc, sc')
    BY <1>1, <1>5
  <2>. QED  BY <1>1, <1>2, <1>3, <1>5, <2>1, <2>2, <2>3, ReplySteps
<1>. DEFINE i == sc.maxPush + 2
<1>6. ASSUME i \in PushIds, NEW async, fault' = fault, writing' = wr,
             st' = [st EXCEPT ![i] = [newStream(sc.initWin) EXCEPT !.state = "halfClosedRemote"]],
             h' = [h EXCEPT ![i] = [newHandler EXCEPT !.pc = "run"]],
             sc' = [sc EXCEPT !.maxPush = i, !.curPushed = @ + 1, !.curHandlers = @ + 1,
                              !.async = async, !.needFlush = TRUE],
             Then(IF async THEN <<>> ELSE <<call("wroteFrame")>>)
      PROVE  Inv'
  <2>1. PICK k : k = i /\ k \in Ids /\ k \in PushIds /\ k \notin ClientIds /\ st[k].state = "idle" /\ h[k].pc = "none" /\ k > sc.maxPush
    <3>1. i > sc.maxPush
      BY <1>1 DEF IsSc
    <3>. QED  BY <1>1, <1>6, <3>1, IdsFacts DEF Fresh
  <2>. HIDE DEF i
  <2>2. /\ IsSt(st') /\ st'[k].state = "halfClosedRemote" /\ \A j \in Ids : j # k => st'[j] = st[j]
    <3>1. PICK e : e = newStream(sc.initWin) /\ Rec(e, StFields)
      BY DEF newStream, Rec, StFields
    <3>2. PICK s : s = [e EXCEPT !.state = "halfClosedRemote"]
      OBVIOUS
    <3>3. Rec(s, StFields) /\ s.state = "halfClosedRemote"
      BY <3>1, <3>2, StHas DEF Rec
    <3>4. PICK x, y : x = st /\ y = st' /\ Table(x, Ids, StFields) /\ y = [x EXCEPT ![k] = s]
      BY <1>1, <1>6, <2>1, <3>1, <3>2 DEF IsSt
    <3>5. Table(y, Ids, StFields) /\ y[k] = s /\ \A j \in Ids : j # k => y[j] = x[j]
      BY <2>1, <3>3, <3>4 DEF Table
    <3>. QED  BY <3>3, <3>4, <3>5 DEF IsSt
  <2>3. IsH(h') /\ h'[k].pc = "run" /\ \A j \in Ids : j # k => h'[j] = h[j]
    <3>1. PICK r : r = [newHandler EXCEPT !.pc = "run"]
      OBVIOUS
    <3>2. Rec(r, HFields) /\ r.pc = "run" /\ r.ch = 0 /\ r.out = <<>>
      BY <3>1 DEF newHandler, Rec, HFields
    <3>3. h' = [h EXCEPT ![k] = r]
      BY <1>6, <2>1, <3>1
    <3>. QED  BY <1>1, <2>1, <3>2, <3>3, HRow
  <2>4. /\ IsSc(sc') /\ sc'.maxPush = k /\ sc'.curPushed = sc.curPushed + 1 /\ sc'.curHandlers = sc.curHandlers + 1
        /\ sc'.curClient = sc.curClient /\ sc'.maxClient = sc.maxClient /\ sc'.done = sc.done /\ sc'.qctl = sc.qctl
        /\ sc'.unstarted = sc.unstarted /\ sc'.async = async
    <3>1. sc.curPushed \in Int /\ sc.curHandlers \in Int /\ Rec(sc, ScFields) /\ k \in Nat
      BY <1>1, <2>1, IdsFacts DEF IsSc
    <3>2. PICK a, b : a = sc.curPushed + 1 /\ b = sc.curHandlers + 1 /\ a \in Int /\ b \in Int
      BY <3>1
    <3>3. sc' = [sc EXCEPT !.maxPush = k, !.curPushed = a, !.curHandlers = b, !.async = async, !.needFlush = TRUE]
      <4>1. sc' = [sc EXCEPT !.maxPush = k, !.curPushed = sc.curPushed + 1, !.curHandlers = sc.curHandlers + 1,
                             !.async = async, !.needFlush = TRUE]
        BY <1>6, <2>1, <3>1, ScHas DEF Rec
      <4>. QED  BY <3>2, <4>1, Zenon
    <3>4. Rec(sc', ScFields)
      BY <3>1, <3>3, ScHas DEF Rec
    <3>5. sc'.maxPush = k /\ sc'.curPushed = a /\ sc'.curHandlers = b /\ sc'.async = async
      BY <3>1, <3>3, ScHas DEF Rec
    <3>6. /\ sc'.curClient = sc.curClient /\ sc'.maxClient = sc.maxClient /\ sc'.done = sc.done /\ sc'.qctl = sc.qctl
          /\ sc'.unstarted = sc.unstarted
      BY <3>1, <3>3, ScHas DEF Rec
    <3>7. IsSc(sc')
      BY <1>1, <3>1, <3>2, <3>4, <3>5, <3>6 DEF IsSc
    <3>. QED  BY <3>2, <3>5, <3>6, <3>7
  <2>5. Opens(k)
    BY <2>1, <2>2, <2>3 DEF Opens, Live
  <2>6. Recounts(k)
    <3>1. sc.maxClient \in Nat /\ sc.maxPush \in Nat /\ sc.curClient \in Int /\ k \in Nat
      BY <1>1, <2>1, IdsFacts DEF IsSc
    <3>. QED  BY <2>1, <2>3, <2>4, <3>1 DEF Recounts
  <2>7. PICK t : t = Tail(todo) /\ Put(t) /\ ToSet(todo) = {Head(todo)} \cup ToSet(t)
    BY <1>1, TodoHas
  <2>8. IsTodo(todo)' /\ ToSet(t) \subseteq ToSet(todo') /\ ~At("startFrameWrite")' /\ (At("wroteFrame")' <=> ~async)
    BY <1>6, <2>7, StartedTodo DEF Then
  <2>9. writing' # NoFrame
    BY <1>2, <1>6, FrameSome
  <2>10. Shapes'
    BY <1>1, <1>2, <1>3, <1>6, <2>2, <2>3, <2>4, <2>8 DEF Shapes
  <2>11. Tally'
    BY <1>3, <2>4, <2>5, <2>6, TallyOpened, QueuedStill DEF Tally
  <2>12. Turn'
    BY <2>4, <2>8, <2>9 DEF Turn
  <2>13. Kept'
    <3>1. Stays("stop") /\ Stays("closeStream2")
      BY <1>1, <2>7, <2>8 DEF Stays
    <3>2. ASSUME NEW f, Somewhere(f) PROVE Somewhere(f)'
      <4>1. \A x \in ToSet(todo) : x.op \in Carriers /\ x.wr = f => f = wr \/ x \in ToSet(todo')
        BY <1>2, <2>7, <2>8 DEF Now
      <4>. QED  BY <1>1, <1>3, <1>6, <2>9, <3>2, <4>1 DEF Somewhere
    <3>. QED  BY <1>6, <2>4, <2>5, <3>1, <3>2, KeptOpened
  <2>. QED  BY <2>10, <2>11, <2>12, <2>13 DEF Inv
<1>7. CASE illegalNow(wr)
  BY <1>2, <1>4, <1>7, Zenon DEF startPushPromise
<1>8. CASE ~illegalNow(wr)
  <2>. DEFINE refused == ~sc.pushEnabled \/ sc.curPushed + 1 > ClientMaxStreams
  <2>1. CASE refused
    <3>1. h' = replied(wr) /\ Then(<<>>) /\ sc' = sc /\ st' = st /\ fault' = fault /\ writing' = writing
      BY <1>2, <1>8, <2>1, Zenon DEF startPushPromise
    <3>. QED  BY <1>5, <3>1, PutMade
  <2>2. CASE ~refused /\ i \notin PushIds
    <3>1. h' = replied(wr) /\ Then(<<callGoAway("No")>>) /\ sc' = sc /\ st' = st /\ fault' = fault /\ writing' = writing
      BY <1>2, <1>8, <2>2, Zenon DEF startPushPromise
    <3>. QED  BY <1>5, <3>1, ResetPut
  <2>3. CASE ~refused /\ i \in PushIds
    <3>1. /\ st' = [st EXCEPT ![i] = [newStream(sc.initWin) EXCEPT !.state = "halfClosedRemote"]]
          /\ h' = [h EXCEPT ![i] = [newHandler EXCEPT !.pc = "run"]]
          /\ writing' = wr /\ fault' = fault
          /\ \E async \in BOOLEAN :
               /\ sc' = [sc EXCEPT !.maxPush = i, !.curPushed = @ + 1, !.curHandlers = @ + 1,
                                   !.async = async, !.needFlush = TRUE]
               /\ Then(IF async THEN <<>> ELSE <<call("wroteFrame")>>)
      BY <1>2, <1>8, <2>3, Zenon DEF startPushPromise
    <3>. QED  BY <1>6, <2>3, <3>1, Zenon
  <2>. QED  BY <2>1, <2>2, <2>3
<1>. QED  BY <1>7, <1>8
----------------------------------------------------------------------------
(* Messages of handlers that have ended *)

\* Messages that are sent.
LEMMA EndingAppend ==
  ASSUME NEW s, List(s), NEW e, NEW r, r = Append(s, e)
  PROVE  /\ IsFiniteSet(Ending(s)) /\ Cardinality(Ending(s)) \in Nat
         /\ Cardinality(Ending(r)) = Cardinality(Ending(s)) + (IF e.kind = "handlerDone" THEN 1 ELSE 0)
<1>1. /\ DOMAIN s = 1 .. Len(s) /\ Len(s) \in Nat /\ DOMAIN r = 1 .. Len(s) + 1
      /\ \A k \in 1 .. Len(s) : r[k] = s[k]
  BY ListAppend, ListElements
<1>2. r[Len(s) + 1] = e
  BY ListAppend
<1>3. IsFiniteSet(Ending(s))
  <2>1. IsFiniteSet(DOMAIN s)
    BY <1>1, FS_Interval
  <2>. QED  BY <2>1, FS_Subset DEF Ending
<1>4. Cardinality(Ending(s)) \in Nat
  BY <1>3, FS_CardinalityType
<1>5. CASE e.kind = "handlerDone"
  <2>1. Ending(r) = Ending(s) \cup {Len(s) + 1} /\ Len(s) + 1 \notin Ending(s)
    BY <1>1, <1>2, <1>5 DEF Ending
  <2>2. Cardinality(Ending(s) \cup {Len(s) + 1}) = Cardinality(Ending(s)) + 1
    BY <1>3, <2>1, FS_AddElement
  <2>. QED  BY <1>3, <1>4, <1>5, <2>1, <2>2
<1>6. CASE e.kind # "handlerDone"
  <2>1. Ending(r) = Ending(s)
    BY <1>1, <1>2, <1>6 DEF Ending
  <2>. QED  BY <1>3, <1>4, <1>6, <2>1
<1>. QED  BY <1>5, <1>6

\* Messages that are taken.
LEMMA EndingTail ==
  ASSUME NEW s, List(s), s # <<>>, NEW r, r = Tail(s)
  PROVE  /\ Cardinality(Ending(r)) \in Nat
         /\ Head(s).kind = "handlerDone" => Cardinality(Ending(r)) = Cardinality(Ending(s)) - 1
         /\ Head(s).kind # "handlerDone" => Cardinality(Ending(r)) = Cardinality(Ending(s))
<1>1. /\ List(r) /\ Len(r) = Len(s) - 1 /\ Len(s) \in Nat \ {0} /\ Head(s) = s[1]
      /\ \A k \in 1 .. Len(s) - 1 : r[k] = s[k + 1]
  BY ListTail
<1>2. DOMAIN r = 1 .. Len(s) - 1 /\ DOMAIN s = 1 .. Len(s)
  BY <1>1, ListElements
<1>3. IsFiniteSet(Ending(r)) /\ IsFiniteSet(Ending(s))
  <2>1. IsFiniteSet(DOMAIN r) /\ IsFiniteSet(DOMAIN s)
    BY <1>1, <1>2, FS_Interval
  <2>. QED  BY <2>1, FS_Subset DEF Ending
<1>. DEFINE T == Ending(s) \ {1}
<1>4. PICK g : g = [k \in Ending(r) |-> k + 1]
  OBVIOUS
<1>5. \A k \in Ending(r) : k \in Int /\ k + 1 \in T /\ g[k] = k + 1
  BY <1>1, <1>2, <1>4 DEF Ending
<1>6. g \in Injection(Ending(r), T)
  <2>1. g \in [Ending(r) -> T]
    BY <1>4, <1>5
  <2>2. IsInjective(g)
    BY <1>4, <1>5 DEF IsInjective
  <2>. QED  BY <2>1, <2>2 DEF Injection
<1>7. g \in Surjection(Ending(r), T)
  <2>1. ASSUME NEW k \in T PROVE \E j \in Ending(r) : g[j] = k
    <3>1. k \in 2 .. Len(s) /\ s[k].kind = "handlerDone"
      BY <1>1, <1>2 DEF Ending
    <3>2. k - 1 \in 1 .. Len(s) - 1 /\ (k - 1) + 1 = k
      BY <1>1, <3>1
    <3>3. k - 1 \in Ending(r)
      BY <1>1, <1>2, <3>1, <3>2 DEF Ending
    <3>. QED  BY <1>5, <3>2, <3>3
  <2>2. g \in [Ending(r) -> T]
    BY <1>4, <1>5
  <2>. QED  BY <2>1, <2>2 DEF Surjection
<1>8. Cardinality(T) = Cardinality(Ending(r))
  BY <1>3, <1>6, <1>7, FS_Bijection DEF ExistsBijection, Bijection
<1>9. 1 \in Ending(s) <=> Head(s).kind = "handlerDone"
  BY <1>1, <1>2 DEF Ending
<1>10. Cardinality(T) = IF 1 \in Ending(s) THEN Cardinality(Ending(s)) - 1 ELSE Cardinality(Ending(s))
  BY <1>3, FS_RemoveElement
<1>11. Cardinality(Ending(r)) \in Nat
  BY <1>3, FS_CardinalityType
<1>. QED  BY <1>8, <1>9, <1>10, <1>11

----------------------------------------------------------------------------
(* Events, timers and handlers *)

\* A step between two events that leaves the counters alone, and that no wait
\* is lost by.
LEMMA EventSteps ==
  ASSUME Inv, todo = <<>>, IsTodo(todo)', ~At("startFrameWrite")', At("wroteFrame")' => sc.async,
         writing' = writing, fault' = fault, ScStill(sc, sc'), StStill(st, st'), q' = q, Inputs(left'),
         IsH(h'), \A i \in Ids : PcSame(h[i], h'[i]),
         Frames(want'), Frames(msgs'), Cardinality(Ending(msgs')) = Cardinality(Ending(msgs)),
         \A i \in Ids : \/ h'[i].pc = "wait" => h[i].pc = "wait" /\ h'[i].ch = h[i].ch /\ (h[i].reply => h'[i].reply)
                        \/ h'[i].ch # 0 /\ \E f : f.id = i /\ f.done = h'[i].ch /\ Somewhere(f)',
         \A f : f.id \in Ids /\ f.done # 0 /\ Somewhere(f) => Follows(f.id, f)
  PROVE  Inv'
<1>1. Shapes /\ ToSet(<<>>) = {} /\ ~At("startFrameWrite") /\ ~At("wroteFrame")
  BY ListShort DEF Inv, At
<1>2. Shapes'
  BY <1>1 DEF Shapes, ScStill, StStill
<1>3. Tally'
  <2>1. Still
    BY DEF Still, ScStill, StStill, RowStill
  <2>2. Queued' /\ IsSc(sc')
    BY QueuedStill DEF ScStill
  <2>. QED  BY <2>1, <2>2, TallyStill DEF Tally
<1>4. Turn'
  <2>1. writing # NoFrame <=> sc.async
    BY <1>1 DEF Inv, Turn
  <2>2. sc'.async = sc.async
    BY DEF ScStill
  <2>. QED  BY <2>1, <2>2 DEF Turn
<1>5. Kept'
  <2>. SUFFICES ASSUME NEW i \in Ids PROVE (st'[i].state = "closed" => Gone(i)') /\ Waits(i)'
    BY DEF Kept
  <2>1. (st[i].state = "closed" => Gone(i)) /\ Waits(i)
    BY DEF Inv, Kept
  <2>2. Gone(i) => Gone(i)'
    <3>1. (st[i].cw => st'[i].cw) /\ (sc.done => sc'.done)
      BY DEF StStill, RowStill, ScStill, Counts
    <3>. QED  BY <1>1, <3>1 DEF Gone, Has, HasOn
  <2>3. st'[i].state = "closed" => st[i].state = "closed"
    BY DEF StStill, RowStill, StateSame, Live
  <2>4. CASE h'[i].pc = "wait" => h[i].pc = "wait" /\ h'[i].ch = h[i].ch /\ (h[i].reply => h'[i].reply)
    <3>1. Waits(i)'
      BY <2>1, <2>2, <2>4, WaitStill
    <3>. QED  BY <2>1, <2>2, <2>3, <3>1
  <2>5. CASE h'[i].ch # 0 /\ \E f : f.id = i /\ f.done = h'[i].ch /\ Somewhere(f)'
    BY <2>1, <2>2, <2>3, <2>5 DEF Waits
  <2>. QED  BY <2>4, <2>5
<1>. QED  BY <1>2, <1>3, <1>4, <1>5 DEF Inv

\* What holds between two events.
LEMMA Between ==
  ASSUME Inv
  PROVE  /\ IsSc(sc) /\ IsSt(st) /\ ScStill(sc, sc) /\ StStill(st, st) /\ IsH(h) /\ Frames(want) /\ Frames(msgs)
         /\ Inputs(left) /\ (\A i \in Ids : PcSame(h[i], h[i])) /\ List(msgs) /\ List(want)
         /\ IsTodo(<<>>) /\ (todo' = <<>> => ~At("startFrameWrite")' /\ ~At("wroteFrame")')
BY SameStill, ListShort DEF Inv, Shapes, PcSame, Frames, IsTodo, At

\* A frame that stays where it is.
LEMMA Remains ==
  ASSUME todo = <<>>, ToSet(want) \subseteq ToSet(want'), ToSet(msgs) \subseteq ToSet(msgs'), q' = q, writing' = writing
  PROVE  \A f : f.id \in Ids /\ f.done # 0 /\ Somewhere(f) => Follows(f.id, f) /\ Somewhere(f)'
BY ListShort DEF Somewhere, Follows

\* Where a channel keeps its frames.
LEMMA Channels ==
  ASSUME Inv
  PROVE  /\ \A f : IsFr(f) => Frames(Append(want, f)) /\ ToSet(want) \subseteq ToSet(Append(want, f)) /\ f \in ToSet(Append(want, f))
         /\ \A f : IsFr(f) => /\ Frames(Append(msgs, f)) /\ ToSet(msgs) \subseteq ToSet(Append(msgs, f)) /\ f \in ToSet(Append(msgs, f))
                              /\ f.kind # "handlerDone" => Cardinality(Ending(Append(msgs, f))) = Cardinality(Ending(msgs))
<1>1. Frames(want) /\ Frames(msgs) /\ List(want) /\ List(msgs)
  BY Between
<1>2. ASSUME NEW f, IsFr(f)
      PROVE  Frames(Append(want, f)) /\ ToSet(want) \subseteq ToSet(Append(want, f)) /\ f \in ToSet(Append(want, f))
  BY <1>1, <1>2, FramesMade, ListAppend
<1>3. ASSUME NEW f, IsFr(f)
      PROVE  Frames(Append(msgs, f)) /\ ToSet(msgs) \subseteq ToSet(Append(msgs, f)) /\ f \in ToSet(Append(msgs, f))
  BY <1>1, <1>3, FramesMade, ListAppend
<1>4. ASSUME NEW f, f.kind # "handlerDone" PROVE Cardinality(Ending(Append(msgs, f))) = Cardinality(Ending(msgs))
  <2>1. PICK r : r = Append(msgs, f)
    OBVIOUS
  <2>2. Cardinality(Ending(r)) = Cardinality(Ending(msgs)) + 0 /\ Cardinality(Ending(msgs)) \in Nat
    BY <1>1, <1>4, <2>1, EndingAppend
  <2>. QED  BY <2>1, <2>2
<1>. QED  BY <1>2, <1>3, <1>4

\* Timers, and what a handler does to its stream alone: streams keep their
\* states, handlers their waits, and messages are only added.
Apart ==
  /\ todo = <<>> /\ todo' = <<>> /\ q' = q /\ writing' = writing /\ left' = left /\ fault' = fault
  /\ ScStill(sc, sc') /\ StStill(st, st')
  /\ want' = want \/ \E f : IsFr(f) /\ want' = Append(want, f)
  /\ msgs' = msgs \/ \E f : IsFr(f) /\ f.kind # "handlerDone" /\ msgs' = Append(msgs, f)
  /\ IsH(h') /\ \A i \in Ids : PcSame(h[i], h'[i])

\* Such steps keep the invariant, if a new wait is for a frame on its way.
LEMMA ApartSteps ==
  ASSUME Inv, Apart,
         \A i \in Ids : \/ h'[i].pc = "wait" => h[i].pc = "wait" /\ h'[i].ch = h[i].ch /\ (h[i].reply => h'[i].reply)
                        \/ h'[i].ch # 0 /\ \E f : f.id = i /\ f.done = h'[i].ch /\ Somewhere(f)'
  PROVE  Inv'
<1>1. Frames(want') /\ ToSet(want) \subseteq ToSet(want')
  BY Between, Channels DEF Apart
<1>2. Frames(msgs') /\ ToSet(msgs) \subseteq ToSet(msgs') /\ Cardinality(Ending(msgs')) = Cardinality(Ending(msgs))
  <2>1. CASE msgs' = msgs
    BY <2>1, Between
  <2>2. ASSUME NEW f, IsFr(f), f.kind # "handlerDone", msgs' = Append(msgs, f)
        PROVE  Frames(msgs') /\ ToSet(msgs) \subseteq ToSet(msgs') /\ Cardinality(Ending(msgs')) = Cardinality(Ending(msgs))
    BY <2>2, Channels
  <2>. QED  BY <2>1, <2>2 DEF Apart
<1>3. \A f : f.id \in Ids /\ f.done # 0 /\ Somewhere(f) => Follows(f.id, f)
  BY <1>1, <1>2, Remains DEF Apart
<1>4. IsTodo(todo)' /\ ~At("startFrameWrite")' /\ ~At("wroteFrame")' /\ Inputs(left')
  BY Between DEF Apart
<1>5. /\ todo = <<>> /\ writing' = writing /\ fault' = fault /\ ScStill(sc, sc') /\ StStill(st, st') /\ q' = q
      /\ IsH(h') /\ \A i \in Ids : PcSame(h[i], h'[i])
  BY DEF Apart
<1>. QED  BY <1>1, <1>2, <1>3, <1>4, <1>5, EventSteps
\* A handler's table after a change of one of its rows that is no new wait.
LEMMA HSame ==
  ASSUME IsH(h), NEW i \in Ids, NEW r, Rec(r, HFields), r.ch = h[i].ch, PcSame(h[i], r),
         r.pc = "wait" => h[i].pc = "wait" /\ (h[i].reply => r.reply),
         r.out = h[i].out \/ r.out = <<>>, h' = [h EXCEPT ![i] = r]
  PROVE  /\ IsH(h') /\ \A j \in Ids : PcSame(h[j], h'[j])
         /\ \A j \in Ids : h'[j].pc = "wait" => h[j].pc = "wait" /\ h'[j].ch = h[j].ch /\ (h[j].reply => h'[j].reply)
<1>1. Table(h', Ids, HFields) /\ h'[i] = r /\ \A j \in Ids : j # i => h'[j] = h[j]
  <2>1. PICK f, g : f = h /\ g = h' /\ Table(f, Ids, HFields) /\ g = [f EXCEPT ![i] = r]
    BY DEF IsH
  <2>2. Table(g, Ids, HFields) /\ g[i] = r /\ \A j \in Ids : j # i => g[j] = f[j]
    BY <2>1 DEF Table
  <2>. QED  BY <2>1, <2>2
<1>2. Frames(<<>>) /\ ToSet(<<>>) = {}
  BY FramesMade, ListShort
<1>3. IsH(h')
  BY <1>1, <1>2 DEF IsH
<1>. QED  BY <1>1, <1>3 DEF PcSame

\* The timers.
LEMMA TimerSteps ==
  ASSUME Inv, startGracefulShutdown \/ onSettingsTimer \/ onIdleTimer \/ onShutdownTimer
  PROVE  Inv'
<1>1. \A k \in {"graceful", "settingsTimer", "idleTimer", "shutdownTimer"} : IsFr(frame(k, 0)) /\ frame(k, 0).kind # "handlerDone"
  BY FrameIs DEF OnStream
<1>2. PICK k \in {"graceful", "settingsTimer", "idleTimer", "shutdownTimer"} : msgs' = Append(msgs, frame(k, 0))
  BY DEF startGracefulShutdown, onSettingsTimer, onIdleTimer, onShutdownTimer, send
<1>3. /\ todo = <<>> /\ todo' = <<>> /\ q' = q /\ writing' = writing /\ left' = left /\ fault' = fault
      /\ st' = st /\ want' = want /\ h' = h
  BY DEF startGracefulShutdown, onSettingsTimer, onIdleTimer, onShutdownTimer, Idle
<1>4. sc' = sc \/ sc' = [sc EXCEPT !.shutdownOnce = TRUE] \/ sc' = [sc EXCEPT !.idleFired = TRUE]
  BY DEF startGracefulShutdown, onSettingsTimer, onIdleTimer, onShutdownTimer
<1>5. ScStill(sc, sc')
  <2>1. IsSc(sc) /\ ScStill(sc, sc)
    BY Between
  <2>2. CASE sc' = [sc EXCEPT !.shutdownOnce = TRUE]
    BY <2>1, <2>2, ScHas DEF ScStill, Counts, IsSc, Rec
  <2>3. CASE sc' = [sc EXCEPT !.idleFired = TRUE]
    BY <2>1, <2>3, ScHas DEF ScStill, Counts, IsSc, Rec
  <2>. QED  BY <1>4, <2>1, <2>2, <2>3
<1>6. Apart
  BY <1>1, <1>2, <1>3, <1>5, Between DEF Apart
<1>. QED  BY <1>3, <1>6, ApartSteps

\* The timers of a stream.
LEMMA StreamTimers ==
  ASSUME Inv, NEW i \in Ids, onReadTimeout(i) \/ onWriteTimeout(i)
  PROVE  Inv'
<1>1. IsSt(st) /\ ScStill(sc, sc) /\ StStill(st, st) /\ IsH(h) /\ \A j \in Ids : PcSame(h[j], h[j])
  BY Between
<1>2. CASE onReadTimeout(i)
  <2>1. /\ todo = <<>> /\ todo' = <<>> /\ q' = q /\ writing' = writing /\ left' = left /\ fault' = fault
        /\ sc' = sc /\ want' = want /\ msgs' = msgs /\ h' = h
    BY <1>2 DEF onReadTimeout, Idle
  <2>2. st' = [st EXCEPT ![i].closed = TRUE]
    BY <1>2 DEF onReadTimeout
  <2>3. StStill(st, st')
    BY <1>1, <2>2, StHas DEF StStill, RowStill, StateSame, IsSt, Table, Rec
  <2>4. Apart
    BY <1>1, <2>1, <2>3 DEF Apart
  <2>. QED  BY <2>1, <2>4, ApartSteps
<1>3. CASE onWriteTimeout(i)
  <2>1. /\ todo = <<>> /\ todo' = <<>> /\ q' = q /\ writing' = writing /\ left' = left /\ fault' = fault
        /\ sc' = sc /\ want' = Append(want, frame("rst", i)) /\ msgs' = msgs /\ h' = h
    BY <1>3 DEF onWriteTimeout, Idle
  <2>2. st' = [st EXCEPT ![i].timer = FALSE]
    BY <1>3 DEF onWriteTimeout
  <2>3. StStill(st, st')
    BY <1>1, <2>2, StHas DEF StStill, RowStill, StateSame, IsSt, Table, Rec
  <2>4. IsFr(frame("rst", i))
    BY FrameIs
  <2>5. Apart
    BY <1>1, <2>1, <2>3, <2>4 DEF Apart
  <2>. QED  BY <2>1, <2>5, ApartSteps
<1>. QED  BY <1>2, <1>3

\* Steps of a handler that wait for nothing.
LEMMA HandlerApart ==
  ASSUME Inv, NEW i \in Ids, todo = <<>>, todo' = <<>>, q' = q, writing' = writing, left' = left, fault' = fault,
         sc' = sc, msgs' = msgs, StStill(st, st'), want' = want \/ \E f : IsFr(f) /\ want' = Append(want, f),
         NEW r, Rec(r, HFields), r.ch = h[i].ch, PcSame(h[i], r), r.pc # "wait",
         r.out = h[i].out \/ r.out = <<>>, h' = [h EXCEPT ![i] = r]
  PROVE  Inv'
<1>1. IsH(h) /\ ScStill(sc, sc)
  BY Between
<1>2. /\ IsH(h') /\ \A j \in Ids : PcSame(h[j], h'[j])
      /\ \A j \in Ids : h'[j].pc = "wait" => h[j].pc = "wait" /\ h'[j].ch = h[j].ch /\ (h[j].reply => h'[j].reply)
  BY <1>1, HSame
<1>3. Apart
  BY <1>1, <1>2 DEF Apart
<1>. QED  BY <1>2, <1>3, ApartSteps

\* Body.Read, and the end of a read that the connection has no time for.
LEMMA ReadSteps ==
  ASSUME Inv, NEW i \in Ids, Read(i) \/ CloseBody(i) \/ Panic(i) \/ ReadAbandoned(i)
  PROVE  Inv'
<1>1. IsSt(st) /\ StStill(st, st) /\ IsH(h) /\ Rec(h[i], HFields)
  BY Between DEF IsH, Table
<1>2. /\ todo = <<>> /\ todo' = <<>> /\ q' = q /\ writing' = writing /\ left' = left /\ fault' = fault
      /\ sc' = sc /\ msgs' = msgs
  BY DEF Read, CloseBody, Panic, ReadAbandoned, Running, Quiet
<1>3. CASE /\ h' = [h EXCEPT ![i].expect = FALSE] /\ h[i].pc = "run" /\ st' = st /\ want' = Append(want, frame("continue", i))
  <2>1. PICK r : r = [h[i] EXCEPT !.expect = FALSE]
    OBVIOUS
  <2>2. Rec(r, HFields) /\ r.ch = h[i].ch /\ r.pc = h[i].pc /\ r.out = h[i].out
    BY <1>1, <2>1, HHas DEF Rec
  <2>3. h' = [h EXCEPT ![i] = r]
    BY <1>3, <2>1, Zenon
  <2>4. IsFr(frame("continue", i))
    BY FrameIs
  <2>. QED  BY <1>1, <1>2, <1>3, <2>2, <2>3, <2>4, HandlerApart DEF PcSame
<1>4. CASE /\ h' = [h EXCEPT ![i].read = st[i].buf, ![i].pc = "reading"] /\ h[i].pc = "run" /\ st' = [st EXCEPT ![i].buf = 0]
           /\ want' = want
  <2>1. PICK r : r = [h[i] EXCEPT !.read = st[i].buf, !.pc = "reading"]
    OBVIOUS
  <2>2. Rec(r, HFields) /\ r.ch = h[i].ch /\ r.pc = "reading" /\ r.out = h[i].out
    BY <1>1, <2>1, HHas DEF Rec
  <2>3. h' = [h EXCEPT ![i] = r]
    BY <1>1, <1>4, <2>1 DEF IsH, Table
  <2>4. st' = [st EXCEPT ![i].buf = 0]
    BY <1>4
  <2>5. StStill(st, st')
    BY <1>1, <2>4, StHas DEF StStill, RowStill, StateSame, IsSt, Table, Rec
  <2>. QED  BY <1>2, <1>4, <2>2, <2>3, <2>5, HandlerApart DEF PcSame, Active
<1>5. CASE Read(i)
  BY <1>3, <1>4, <1>5, Zenon DEF Read, Running
<1>6. CASE CloseBody(i)
  <2>1. st' = [st EXCEPT ![i].broken = TRUE] /\ h' = h /\ want' = want
    BY <1>6 DEF CloseBody
  <2>2. StStill(st, st')
    BY <1>1, <2>1, StHas DEF StStill, RowStill, StateSame, IsSt, Table, Rec
  <2>3. Apart
    BY <1>2, <2>1, <2>2, Between DEF Apart
  <2>. QED  BY <2>1, <2>3, ApartSteps
<1>7. CASE Panic(i)
  <2>1. PICK r : r = [h[i] EXCEPT !.fin = TRUE]
    OBVIOUS
  <2>2. Rec(r, HFields) /\ r.ch = h[i].ch /\ r.pc = h[i].pc /\ r.out = h[i].out
    BY <1>1, <2>1, HHas DEF Rec
  <2>3. h' = [h EXCEPT ![i] = r]
    <3>1. h' = [h EXCEPT ![i].fin = TRUE]
      BY <1>7 DEF Panic
    <3>. QED  BY <2>1, <3>1, Zenon
  <2>4. h[i].pc = "run" /\ st' = st /\ (want' = want \/ want' = Append(want, frame("panicRST", i)))
    BY <1>7 DEF Panic, Running
  <2>5. IsFr(frame("panicRST", i))
    BY FrameIs
  <2>. QED  BY <1>1, <1>2, <2>2, <2>3, <2>4, <2>5, HandlerApart DEF PcSame
<1>8. CASE ReadAbandoned(i)
  <2>1. PICK r : r = [h[i] EXCEPT !.pc = "run"]
    OBVIOUS
  <2>2. Rec(r, HFields) /\ r.ch = h[i].ch /\ r.pc = "run" /\ r.out = h[i].out
    BY <1>1, <2>1, HHas DEF Rec
  <2>3. h' = [h EXCEPT ![i] = r]
    <3>1. h' = [h EXCEPT ![i].pc = "run"]
      BY <1>8 DEF ReadAbandoned
    <3>. QED  BY <2>1, <3>1, Zenon
  <2>4. h[i].pc = "reading" /\ st' = st /\ want' = want
    BY <1>8 DEF ReadAbandoned
  <2>. QED  BY <1>1, <1>2, <2>2, <2>3, <2>4, HandlerApart DEF PcSame, Active
<1>. QED  BY <1>5, <1>6, <1>7, <1>8
\* A handler sends a frame and waits for the reply.
LEMMA HandlerWaits ==
  ASSUME Inv, NEW i \in Ids, todo = <<>>, todo' = <<>>, q' = q, writing' = writing, left' = left, fault' = fault,
         sc' = sc, st' = st, h[i].pc \in Active,
         NEW r, Rec(r, HFields), r.pc = "wait", r.ch = h[i].ch + 1, Frames(r.out),
         \A x \in ToSet(r.out) : x.id = i /\ x.kind \in Awaited, h' = [h EXCEPT ![i] = r],
         NEW f, IsFr(f), f.kind # "handlerDone", f.id = i, f.done = h[i].ch + 1,
         (want' = Append(want, f) /\ msgs' = msgs) \/ (want' = want /\ msgs' = Append(msgs, f))
  PROVE  Inv'
<1>1. IsH(h) /\ ScStill(sc, sc) /\ StStill(st, st) /\ h[i].ch \in Nat
  BY Between DEF IsH
<1>2. Table(h', Ids, HFields) /\ h'[i] = r /\ \A j \in Ids : j # i => h'[j] = h[j]
  <2>1. PICK x, y : x = h /\ y = h' /\ Table(x, Ids, HFields) /\ y = [x EXCEPT ![i] = r]
    BY <1>1 DEF IsH
  <2>2. Table(y, Ids, HFields) /\ y[i] = r /\ \A j \in Ids : j # i => y[j] = x[j]
    BY <2>1 DEF Table
  <2>. QED  BY <2>1, <2>2
<1>3. r.ch \in Nat /\ r.ch # 0
  BY <1>1
<1>4. IsH(h')
  BY <1>1, <1>2, <1>3 DEF IsH
<1>5. \A j \in Ids : PcSame(h[j], h'[j])
  BY <1>2 DEF PcSame, Active
<1>6. Apart
  BY <1>1, <1>4, <1>5 DEF Apart
<1>7. Somewhere(f)'
  BY Channels DEF Somewhere
<1>8. h'[i].ch # 0 /\ f.done = h'[i].ch
  BY <1>2, <1>3
<1>. QED  BY <1>2, <1>6, <1>7, <1>8, ApartSteps

\* sendNext: the next frame of a Write, or its end.
LEMMA SendNext ==
  ASSUME Inv, NEW i \in Ids, todo = <<>>, todo' = <<>>, q' = q, writing' = writing, left' = left, fault' = fault,
         sc' = sc, st' = st, msgs' = msgs, h[i].pc \in Active,
         NEW hi, Rec(hi, HFields), hi.pc = "run", hi.ch = h[i].ch, Frames(hi.out),
         \A x \in ToSet(hi.out) : x.id = i /\ x.kind \in Awaited, sendNext(i, hi)
  PROVE  Inv'
<1>1. IsH(h) /\ StStill(st, st) /\ h[i].ch \in Nat
  BY Between DEF IsH
<1>2. CASE h' = [h EXCEPT ![i] = [hi EXCEPT !.out = <<>>]] /\ want' = want
  <2>1. PICK r : r = [hi EXCEPT !.out = <<>>]
    OBVIOUS
  <2>2. Rec(r, HFields) /\ r.ch = h[i].ch /\ r.pc = "run" /\ r.out = <<>>
    BY <2>1, HHas DEF Rec
  <2>3. h' = [h EXCEPT ![i] = r]
    BY <1>2, <2>1
  <2>4. PcSame(h[i], r)
    BY <2>2 DEF PcSame, Active
  <2>. QED  BY <1>1, <1>2, <2>2, <2>3, <2>4, HandlerApart
<1>3. CASE /\ hi.out # <<>>
           /\ h' = [h EXCEPT ![i] = [hi EXCEPT !.pc = "wait", !.out = Tail(@), !.ch = @ + 1, !.reply = FALSE]]
           /\ want' = Append(want, [Head(hi.out) EXCEPT !.done = hi.ch + 1])
  <2>14. hi.ch + 1 \in Nat \ {0}
    BY <1>1
  <2>1. PICK o, c : o = Tail(hi.out) /\ c = hi.ch + 1 /\ c \in Nat \ {0}
    BY <2>14, Zenon
  <2>2. PICK r : r = [hi EXCEPT !.pc = "wait", !.out = o, !.ch = c, !.reply = FALSE]
    OBVIOUS
  <2>3. Rec(r, HFields) /\ r.ch = c /\ r.pc = "wait" /\ r.out = o
    BY <2>2, HHas DEF Rec
  <2>4. h' = [h EXCEPT ![i] = r]
    BY <1>3, <2>1, <2>2
  <2>5. Frames(o) /\ IsFr(Head(hi.out)) /\ ToSet(hi.out) = {Head(hi.out)} \cup ToSet(o)
    BY <1>3, <2>1, FramesMade
  <2>6. PICK e, f : e = Head(hi.out) /\ f = [e EXCEPT !.done = c]
    OBVIOUS
  <2>7. IsFr(e) /\ e.id = i /\ e.kind \in Awaited /\ Rec(e, FrFields)
    BY <2>5, <2>6 DEF IsFr
  <2>8. f = [e EXCEPT !.done = c]
    BY <2>6
  <2>9. Rec(f, FrFields) /\ f.id = i /\ f.kind = e.kind /\ f.done = c /\ f.n = e.n
    BY <2>7, <2>8, FrHas DEF Rec
  <2>10. IsFr(f) /\ f.kind # "handlerDone"
    BY <2>1, <2>7, <2>9 DEF IsFr, Awaited
  <2>11. want' = Append(want, f)
    BY <1>3, <2>1, <2>6
  <2>12. \A x \in ToSet(o) : x.id = i /\ x.kind \in Awaited
    BY <2>5
  <2>13. r.ch = h[i].ch + 1 /\ f.done = h[i].ch + 1
    BY <2>1, <2>3, <2>9
  <2>. QED  BY <2>3, <2>4, <2>5, <2>9, <2>10, <2>11, <2>12, <2>13, HandlerWaits
<1>. QED  BY <1>2, <1>3, Zenon DEF sendNext

\* The frames of a handler.
LEMMA OutFrames ==
  ASSUME NEW i \in Ids
  PROVE  /\ Frames(chunk(i)) /\ \A x \in ToSet(chunk(i)) : x.id = i /\ x.kind \in Awaited
         /\ \A fs \in finalFrames(i) : Frames(fs) /\ \A x \in ToSet(fs) : x.id = i /\ x.kind \in Awaited
<1>. DEFINE Out(s) == Frames(s) /\ \A x \in ToSet(s) : x.id = i /\ x.kind \in Awaited
<1>1. \A s, t : Out(s) /\ Out(t) => Out(s \o t)
  <2>1. ASSUME NEW s, NEW t, Out(s), Out(t) PROVE Out(s \o t)
    <3>1. Frames(s \o t) /\ ToSet(s \o t) = ToSet(s) \cup ToSet(t)
      BY <2>1, FramesMade, ListConcat DEF Frames
    <3>. QED  BY <2>1, <3>1
  <2>. QED  BY <2>1
<1>2. \A f : IsFr(f) /\ f.id = i /\ f.kind \in Awaited => Out(<<f>>)
  BY FramesMade, ListShort
<1>3. Out(<<>>)
  BY FramesMade, ListShort
<1>4. ASSUME NEW k \in {"headers", "data"}
      PROVE  /\ IsFr(frame(k, i)) /\ frame(k, i).id = i /\ frame(k, i).kind = k /\ k \in Awaited
             /\ Rec(frame(k, i), FrFields) /\ frame(k, i).done = 0 /\ frame(k, i).n = 0
  <2>1. IsFr(frame(k, i)) /\ frame(k, i).id = i /\ frame(k, i).kind = k /\ frame(k, i).done = 0
    BY <1>4, FrameIs
  <2>2. frame(k, i).n = 0
    BY DEF frame
  <2>. QED  BY <2>1, <2>2 DEF IsFr, Awaited
<1>5. Out(headers(i))
  BY <1>2, <1>3, <1>4 DEF headers
<1>6. Out(<<[frame("data", i) EXCEPT !.n = ChunkSize]>>)
  <2>1. PICK e, f : e = frame("data", i) /\ f = [e EXCEPT !.n = ChunkSize]
    OBVIOUS
  <2>2. IsFr(e) /\ Rec(e, FrFields) /\ e.id = i /\ e.kind = "data" /\ e.done = 0 /\ "data" \in Awaited
    BY <1>4, <2>1
  <2>3. f = [e EXCEPT !.n = ChunkSize]
    BY <2>1
  <2>4. Rec(f, FrFields) /\ f.id = i /\ f.kind = "data" /\ f.done = 0
    BY <2>2, <2>3, FrHas DEF Rec
  <2>5. IsFr(f)
    BY <2>4, <2>2 DEF IsFr
  <2>. QED  BY <1>2, <2>1, <2>2, <2>4, <2>5
<1>7. ASSUME NEW k \in {"headers", "data"} PROVE Out(<<[frame(k, i) EXCEPT !.end = TRUE]>>)
  <2>1. PICK e, f : e = frame(k, i) /\ f = [e EXCEPT !.end = TRUE]
    OBVIOUS
  <2>2. IsFr(e) /\ Rec(e, FrFields) /\ e.id = i /\ e.kind = k /\ e.done = 0 /\ e.n = 0 /\ k \in Awaited
    BY <1>4, <1>7, <2>1
  <2>3. f = [e EXCEPT !.end = TRUE]
    BY <2>1
  <2>4. Rec(f, FrFields) /\ f.id = i /\ f.kind = k /\ f.done = 0 /\ f.n = 0
    BY <2>2, <2>3, FrHas DEF Rec
  <2>5. IsFr(f)
    BY <2>2, <2>4 DEF IsFr
  <2>. QED  BY <1>2, <2>1, <2>2, <2>4, <2>5
<1>8. Out(chunk(i))
  BY <1>1, <1>5, <1>6 DEF chunk
<1>9. ASSUME NEW fs \in finalFrames(i) PROVE Out(fs)
  <2>1. PICK a, b, c : /\ a = <<[frame("data", i) EXCEPT !.end = TRUE]>> /\ b = <<[frame("headers", i) EXCEPT !.end = TRUE]>>
                       /\ c = headers(i) \o b
    OBVIOUS
  <2>2. fs = a \/ fs = b \/ fs = c
    BY <1>9, <2>1 DEF finalFrames
  <2>3. Out(a) /\ Out(b)
    BY <1>7, <2>1
  <2>4. Out(c)
    BY <1>1, <1>5, <2>1, <2>3
  <2>. QED  BY <2>2, <2>3, <2>4
<1>. QED  BY <1>8, <1>9

\* Write and Return begin a sequence of frames; Resume goes on with it.
LEMMA WriteSteps ==
  ASSUME Inv, NEW i \in Ids, Write(i) \/ Return(i) \/ Resume(i)
  PROVE  Inv'
<1>1. IsH(h) /\ StStill(st, st) /\ Rec(h[i], HFields) /\ h[i].ch \in Nat /\ Frames(h[i].out)
      /\ \A x \in ToSet(h[i].out) : x.id = i /\ x.kind \in Awaited
  BY Between DEF IsH, Table
<1>2. /\ todo = <<>> /\ todo' = <<>> /\ q' = q /\ writing' = writing /\ left' = left /\ fault' = fault
      /\ sc' = sc /\ st' = st /\ msgs' = msgs
  BY DEF Write, Return, Resume, Running, Quiet
<1>3. CASE Write(i)
  <2>1. PICK o, r : o = chunk(i) /\ r = [h[i] EXCEPT !.wrote = TRUE, !.out = o, !.sentHeader = TRUE]
    OBVIOUS
  <2>2. r = [h[i] EXCEPT !.wrote = TRUE, !.out = o, !.sentHeader = TRUE] /\ h[i].pc = "run"
    BY <1>3, <2>1 DEF Write, Running
  <2>3. Rec(r, HFields) /\ r.pc = "run" /\ r.ch = h[i].ch /\ r.out = o
    BY <1>1, <2>2, HHas DEF Rec
  <2>4. sendNext(i, r)
    BY <1>3, <2>1 DEF Write
  <2>5. h[i].pc \in Active
    BY <2>2 DEF Active
  <2>. QED  BY <1>2, <2>1, <2>3, <2>4, <2>5, OutFrames, SendNext
<1>4. CASE Return(i)
  <2>1. PICK o \in finalFrames(i) : sendNext(i, [h[i] EXCEPT !.fin = TRUE, !.out = o, !.sentHeader = TRUE])
    BY <1>4 DEF Return
  <2>2. PICK r : r = [h[i] EXCEPT !.fin = TRUE, !.out = o, !.sentHeader = TRUE]
    OBVIOUS
  <2>3. Rec(r, HFields) /\ r.pc = h[i].pc /\ r.ch = h[i].ch /\ r.out = o
    BY <1>1, <2>2, HHas DEF Rec
  <2>4. sendNext(i, r) /\ h[i].pc = "run"
    BY <1>4, <2>1, <2>2 DEF Return, Running
  <2>5. h[i].pc \in Active
    BY <2>4 DEF Active
  <2>. QED  BY <1>2, <2>3, <2>4, <2>5, OutFrames, SendNext
<1>5. CASE Resume(i)
  <2>1. h[i].pc = "wait" /\ h[i].pc \in Active
    BY <1>5 DEF Resume, Active
  <2>2. CASE sendNext(i, [h[i] EXCEPT !.pc = "run"])
    <3>1. PICK r : r = [h[i] EXCEPT !.pc = "run"]
      OBVIOUS
    <3>2. Rec(r, HFields) /\ r.pc = "run" /\ r.ch = h[i].ch /\ r.out = h[i].out
      BY <1>1, <3>1, HHas DEF Rec
    <3>3. sendNext(i, r)
      BY <2>2, <3>1
    <3>. QED  BY <1>1, <1>2, <2>1, <3>2, <3>3, SendNext
  <2>3. CASE h' = [h EXCEPT ![i].pc = "run", ![i].out = <<>>] /\ want' = want
    <3>1. PICK r : r = [h[i] EXCEPT !.pc = "run", !.out = <<>>]
      OBVIOUS
    <3>2. Rec(r, HFields) /\ r.pc = "run" /\ r.ch = h[i].ch /\ r.out = <<>>
      BY <1>1, <3>1, HHas DEF Rec
    <3>3. h' = [h EXCEPT ![i] = r]
      BY <1>1, <2>3, <3>1 DEF IsH, Table
    <3>4. PcSame(h[i], r)
      BY <2>1, <3>2 DEF PcSame, Active
    <3>. QED  BY <1>1, <1>2, <2>3, <3>2, <3>3, <3>4, HandlerApart
  <2>. QED  BY <1>5, <2>2, <2>3, Zenon DEF Resume
<1>. QED  BY <1>3, <1>4, <1>5

\* Push sends its message to the loop itself.
LEMMA PushMessage == ASSUME Inv, NEW i \in Ids, Push(i) PROVE Inv'
<1>1. IsH(h) /\ Rec(h[i], HFields) /\ h[i].ch \in Nat /\ Frames(h[i].out)
      /\ \A x \in ToSet(h[i].out) : x.id = i /\ x.kind \in Awaited
  BY Between DEF IsH, Table
<1>2. /\ todo = <<>> /\ todo' = <<>> /\ q' = q /\ writing' = writing /\ left' = left /\ fault' = fault
      /\ sc' = sc /\ st' = st /\ want' = want /\ h[i].pc = "run"
  BY DEF Push, Running, Quiet
<1>3. PICK c : c = h[i].ch + 1 /\ c \in Nat /\ c # 0
  BY <1>1
<1>4. PICK r : r = [h[i] EXCEPT !.pushed = TRUE, !.pc = "wait", !.ch = c, !.reply = FALSE]
  OBVIOUS
<1>5. Rec(r, HFields) /\ r.pc = "wait" /\ r.ch = c /\ r.out = h[i].out
  BY <1>1, <1>4, HHas DEF Rec
<1>6. h' = [h EXCEPT ![i] = r]
  <2>1. h' = [h EXCEPT ![i].pushed = TRUE, ![i].pc = "wait", ![i].ch = @ + 1, ![i].reply = FALSE]
    BY DEF Push
  <2>2. \A j \in Ids : h'[j] = IF j = i THEN r ELSE h[j]
    BY <1>1, <1>3, <1>4, <2>1, HHas DEF IsH, Table, Rec
  <2>3. h' = [j \in Ids |-> h'[j]]
    BY <1>1, <2>1 DEF IsH, Table
  <2>. QED  BY <1>1, <2>2, <2>3 DEF IsH, Table
<1>7. PICK e, f : e = frame("push", i) /\ f = [e EXCEPT !.done = c]
  OBVIOUS
<1>8. IsFr(e) /\ Rec(e, FrFields) /\ e.id = i /\ e.kind = "push" /\ e.n = 0
  BY <1>7, FrameIs DEF IsFr, frame
<1>9. Rec(f, FrFields) /\ f.id = i /\ f.kind = "push" /\ f.done = c /\ f.n = 0
  <2>1. f = [e EXCEPT !.done = c]
    BY <1>7
  <2>. QED  BY <1>8, <2>1, FrHas DEF Rec
<1>10. IsFr(f) /\ f.kind # "handlerDone"
  BY <1>3, <1>9 DEF IsFr, Awaited
<1>11. msgs' = Append(msgs, f)
  BY <1>3, <1>7 DEF Push
<1>12. h[i].pc \in Active /\ r.ch = h[i].ch + 1 /\ f.done = h[i].ch + 1
  BY <1>2, <1>3, <1>5, <1>9 DEF Active
<1>. QED  BY <1>1, <1>2, <1>5, <1>6, <1>9, <1>10, <1>11, <1>12, HandlerWaits
----------------------------------------------------------------------------
(* The events of the serve loop *)

\* A frame that is taken from a channel goes to the serve loop.
LEMMA TakenWant ==
  ASSUME Inv, want # <<>>, want' = Tail(want), todo = <<>>, msgs' = msgs, q' = q, writing' = writing,
         Head(want).kind # "rst" => \E x \in ToSet(todo') : x.op \in Carriers /\ x.wr = Head(want)
  PROVE  Frames(want') /\ IsFr(Head(want)) /\ \A f : f.id \in Ids /\ f.done # 0 /\ Somewhere(f) => Follows(f.id, f)
<1>1. Frames(want)
  BY Between
<1>2. Frames(want') /\ IsFr(Head(want)) /\ ToSet(want) = {Head(want)} \cup ToSet(want')
  BY <1>1, FramesMade
<1>3. ASSUME NEW f, f.id \in Ids, f.done # 0, Somewhere(f) PROVE Somewhere(f)'
  <2>1. CASE f = Head(want)
    <3>1. f.kind # "rst"
      BY <1>2, <1>3, <2>1 DEF IsFr, Awaited
    <3>. QED  BY <2>1, <3>1 DEF Somewhere
  <2>2. CASE f # Head(want)
    BY <1>2, <1>3, <2>2, ListShort DEF Somewhere
  <2>. QED  BY <2>1, <2>2
<1>. QED  BY <1>2, <1>3 DEF Follows

\* So does a message, or it is no frame that a handler waits for.
LEMMA TakenMsg ==
  ASSUME Inv, msgs # <<>>, msgs' = Tail(msgs), todo = <<>>, want' = want, q' = q, writing' = writing
  PROVE  /\ Frames(msgs') /\ IsFr(Head(msgs))
         /\ \A f : f.id \in Ids /\ f.done # 0 /\ Somewhere(f) => Somewhere(f)' \/ f = Head(msgs)
         /\ Head(msgs).kind # "handlerDone" => Cardinality(Ending(msgs')) = Cardinality(Ending(msgs))
         /\ Head(msgs).kind = "handlerDone" => Cardinality(Ending(msgs')) = Cardinality(Ending(msgs)) - 1
         /\ Cardinality(Ending(msgs')) \in Nat
<1>1. Frames(msgs) /\ List(msgs)
  BY Between
<1>2. Frames(msgs') /\ IsFr(Head(msgs)) /\ ToSet(msgs) = {Head(msgs)} \cup ToSet(msgs')
  BY <1>1, FramesMade
<1>3. \A f : f.id \in Ids /\ f.done # 0 /\ Somewhere(f) => Somewhere(f)' \/ f = Head(msgs)
  BY <1>2, ListShort DEF Somewhere
<1>4. PICK r : r = Tail(msgs)
  OBVIOUS
<1>5. /\ Cardinality(Ending(r)) \in Nat
      /\ Head(msgs).kind = "handlerDone" => Cardinality(Ending(r)) = Cardinality(Ending(msgs)) - 1
      /\ Head(msgs).kind # "handlerDone" => Cardinality(Ending(r)) = Cardinality(Ending(msgs))
  BY <1>1, <1>4, EndingTail
<1>. QED  BY <1>2, <1>3, <1>4, <1>5

\* The end of every event but one.
LEMMA EndPut ==
  /\ \A s : Put(s) => Put(s \o <<call("endOfEvent")>>)
  /\ \A s : Put(s) => ToSet(s) \subseteq ToSet(s \o <<call("endOfEvent")>>)
  /\ Put(<<call("endOfEvent")>>)
<1>1. Put(<<call("endOfEvent")>>) /\ List(<<call("endOfEvent")>>)
  BY ResetPut, ListShort
<1>2. ASSUME NEW s, Put(s) PROVE Put(s \o <<call("endOfEvent")>>)
  BY <1>1, <1>2, PutMade
<1>3. ASSUME NEW s, Put(s) PROVE ToSet(s) \subseteq ToSet(s \o <<call("endOfEvent")>>)
  <2>1. List(s)
    BY <1>3 DEF Put
  <2>. QED  BY <1>1, <2>1, ListConcat
<1>. QED  BY <1>1, <1>2, <1>3

\* What the loop has to do then.
LEMMA PutTodo ==
  ASSUME Put(todo')
  PROVE  IsTodo(todo)' /\ ~At("startFrameWrite")' /\ ~At("wroteFrame")'
BY PutFirst DEF At, First

\* A write that has ended in writeFrameAsync.
LEMMA AsyncStep == ASSUME Inv, wroteFrameAsync PROVE Inv'
<1>1. /\ todo = <<>> /\ sc.async /\ q' = q /\ writing' = writing /\ left' = left /\ fault' = fault
      /\ sc' = sc /\ st' = st /\ want' = want /\ msgs' = msgs /\ h' = h
  BY DEF wroteFrameAsync, Idle
<1>2. PICK x, s : x = call("wroteFrame") /\ s = <<call("endOfEvent")>> /\ Put(s) /\ IsCall(x) /\ x.op = "wroteFrame"
  BY EndPut, CallIs DEF OnIds, Carriers
<1>3. todo' = <<x>> \o s
  BY <1>2 DEF wroteFrameAsync
<1>4. IsTodo(<<x>> \o s) /\ <<x>> \o s # <<>> /\ Head(<<x>> \o s) = x
  BY <1>2, PutAfter
<1>5. IsTodo(todo)' /\ ~At("startFrameWrite")' /\ (At("wroteFrame")' => sc.async)
  BY <1>1, <1>2, <1>3, <1>4 DEF At
<1>6. \A f : f.id \in Ids /\ f.done # 0 /\ Somewhere(f) => Follows(f.id, f)
  BY <1>1, Remains
<1>7. /\ ScStill(sc, sc') /\ StStill(st, st') /\ Inputs(left') /\ IsH(h') /\ (\A i \in Ids : PcSame(h[i], h'[i]))
      /\ Frames(want') /\ Frames(msgs') /\ Cardinality(Ending(msgs')) = Cardinality(Ending(msgs))
  BY <1>1, Between
<1>8. \A i \in Ids : h'[i].pc = "wait" => h[i].pc = "wait" /\ h'[i].ch = h[i].ch /\ (h[i].reply => h'[i].reply)
  BY <1>1
<1>. QED  BY <1>1, <1>5, <1>6, <1>7, <1>8, EventSteps

\* A frame of a handler, or the reset of a timer.
LEMMA WantStep == ASSUME Inv, wantWriteFrame PROVE Inv'
<1>1. /\ todo = <<>> /\ want # <<>> /\ want' = Tail(want) /\ q' = q /\ writing' = writing /\ left' = left /\ fault' = fault
      /\ sc' = sc /\ st' = st /\ msgs' = msgs /\ h' = h
  BY DEF wantWriteFrame, Idle
<1>2. IsFr(Head(want))
  BY <1>1, Between, FramesMade
<1>3. PICK s : /\ Put(s) /\ todo' = s \o <<call("endOfEvent")>>
               /\ (Head(want).kind # "rst" => callWith("writeFrame", Head(want)) \in ToSet(s))
  <2>1. CASE Head(want).kind = "rst"
    <3>1. PICK i \in Ids : i = Head(want).id
      BY <1>2, <2>1 DEF IsFr, OnStream
    <3>2. todo' = resetStream(i) \o <<call("endOfEvent")>>
      BY <2>1, <3>1 DEF wantWriteFrame
    <3>. QED  BY <2>1, <3>2, ResetPut
  <2>2. CASE Head(want).kind # "rst"
    <3>1. todo' = <<callWith("writeFrame", Head(want))>> \o <<call("endOfEvent")>>
      BY <2>2 DEF wantWriteFrame
    <3>2. Put(<<callWith("writeFrame", Head(want))>>)
      BY <1>2, ResetPut
    <3>. QED  BY <3>1, <3>2, ListShort
  <2>. QED  BY <2>1, <2>2
<1>4. Put(todo') /\ ToSet(s) \subseteq ToSet(todo')
  BY <1>3, EndPut
<1>5. Head(want).kind # "rst" => \E x \in ToSet(todo') : x.op \in Carriers /\ x.wr = Head(want)
  BY <1>3, <1>4 DEF callWith, Carriers
<1>6. Frames(want') /\ \A f : f.id \in Ids /\ f.done # 0 /\ Somewhere(f) => Follows(f.id, f)
  BY <1>1, <1>5, TakenWant
<1>7. IsTodo(todo)' /\ ~At("startFrameWrite")' /\ ~At("wroteFrame")'
  BY <1>4, PutTodo
<1>8. /\ ScStill(sc, sc') /\ StStill(st, st') /\ Inputs(left') /\ IsH(h') /\ (\A i \in Ids : PcSame(h[i], h'[i]))
      /\ Frames(msgs') /\ Cardinality(Ending(msgs')) = Cardinality(Ending(msgs))
  BY <1>1, Between
<1>9. \A i \in Ids : h'[i].pc = "wait" => h[i].pc = "wait" /\ h'[i].ch = h[i].ch /\ (h[i].reply => h'[i].reply)
  BY <1>1
<1>. QED  BY <1>1, <1>6, <1>7, <1>8, <1>9, EventSteps

\* The report of a read body.
LEMMA BodyReadStep == ASSUME Inv, NEW i \in Ids, noteBodyRead(i) PROVE Inv'
<1>1. /\ todo = <<>> /\ h[i].pc = "reading" /\ q' = q /\ writing' = writing /\ left' = left /\ fault' = fault
      /\ sc' = sc /\ st' = st /\ msgs' = msgs /\ want' = want
  BY DEF noteBodyRead, Idle
<1>2. IsH(h) /\ Rec(h[i], HFields)
  BY Between DEF IsH, Table
<1>3. PICK r : r = [h[i] EXCEPT !.pc = "run", !.read = 0]
  OBVIOUS
<1>4. Rec(r, HFields) /\ r.ch = h[i].ch /\ r.pc = "run" /\ r.out = h[i].out
  BY <1>2, <1>3, HHas DEF Rec
<1>5. h' = [h EXCEPT ![i] = r]
  BY <1>2, <1>3 DEF noteBodyRead, IsH, Table
<1>6. PcSame(h[i], r)
  BY <1>1, <1>4 DEF PcSame, Active
<1>7. /\ IsH(h') /\ \A j \in Ids : PcSame(h[j], h'[j])
      /\ \A j \in Ids : h'[j].pc = "wait" => h[j].pc = "wait" /\ h'[j].ch = h[j].ch /\ (h[j].reply => h'[j].reply)
  BY <1>2, <1>4, <1>5, <1>6, HSame
<1>8. Put(todo')
  <2>1. PICK a, b : /\ a = <<callWindow(0, h[i].read)>>
                    /\ b = (IF st[i].state \in {"halfClosedRemote", "closed"} THEN <<>> ELSE <<callWindow(i, h[i].read)>>)
    OBVIOUS
  <2>2. Put(a) /\ Put(b)
    BY <2>1, ResetPut, PutMade
  <2>3. todo' = a \o b \o <<call("endOfEvent")>>
    BY <2>1, Zenon DEF noteBodyRead
  <2>4. Put(a \o b)
    BY <2>2, PutMade
  <2>. QED  BY <2>3, <2>4, EndPut
<1>9. IsTodo(todo)' /\ ~At("startFrameWrite")' /\ ~At("wroteFrame")'
  BY <1>8, PutTodo
<1>10. \A f : f.id \in Ids /\ f.done # 0 /\ Somewhere(f) => Follows(f.id, f)
  BY <1>1, Remains
<1>11. /\ ScStill(sc, sc') /\ StStill(st, st') /\ Inputs(left')
       /\ Frames(want') /\ Frames(msgs') /\ Cardinality(Ending(msgs')) = Cardinality(Ending(msgs))
  BY <1>1, Between
<1>. QED  BY <1>1, <1>7, <1>9, <1>10, <1>11, EventSteps

\* A push, which is refused or becomes a frame.
LEMMA StartPushStep == ASSUME Inv, startPush PROVE Inv'
<1>1. /\ todo = <<>> /\ msgs # <<>> /\ msgs' = Tail(msgs) /\ Head(msgs).kind = "push"
      /\ q' = q /\ writing' = writing /\ left' = left /\ fault' = fault /\ sc' = sc /\ st' = st /\ want' = want
  BY DEF startPush, Idle
<1>2. PICK wr : wr = Head(msgs)
  OBVIOUS
<1>3. /\ Frames(msgs') /\ IsFr(wr) /\ Cardinality(Ending(msgs')) = Cardinality(Ending(msgs))
      /\ \A f : f.id \in Ids /\ f.done # 0 /\ Somewhere(f) => Somewhere(f)' \/ f = wr
  BY <1>1, <1>2, TakenMsg
<1>4. PICK refused : refused = (st[wr.id].state \notin {"open", "halfClosedRemote"} \/ ~sc.pushEnabled)
  OBVIOUS
<1>5. /\ h' = IF refused THEN replied(wr) ELSE h
      /\ todo' = (IF refused THEN <<>> ELSE <<callWith("writeFrame", wr)>>) \o <<call("endOfEvent")>>
  BY <1>2, <1>4, Zenon DEF startPush
<1>6. /\ IsH(h') /\ (\A i \in Ids : h'[i].pc = h[i].pc /\ h'[i].ch = h[i].ch /\ (h[i].reply => h'[i].reply))
      /\ (refused => \A i \in Ids : wr.id = i /\ wr.done # 0 /\ h[i].ch = wr.done => h'[i].reply)
  <2>1. IsH(h)
    BY Between
  <2>2. CASE refused
    <3>1. h' = replied(wr)
      BY <1>5, <2>2
    <3>. QED  BY <1>3, <2>1, <3>1, Replied DEF HKeep
  <2>3. CASE ~refused
    BY <1>5, <2>1, <2>3
  <2>. QED  BY <2>2, <2>3
<1>7. PICK s : /\ Put(s) /\ todo' = s \o <<call("endOfEvent")>> /\ (~refused => callWith("writeFrame", wr) \in ToSet(s))
  <2>1. Put(<<callWith("writeFrame", wr)>>) /\ Put(<<>>) /\ callWith("writeFrame", wr) \in ToSet(<<callWith("writeFrame", wr)>>)
    BY <1>3, ResetPut, PutMade, ListShort
  <2>. QED  BY <1>5, <2>1
<1>8. Put(todo') /\ ToSet(s) \subseteq ToSet(todo')
  BY <1>7, EndPut
<1>9. IsTodo(todo)' /\ ~At("startFrameWrite")' /\ ~At("wroteFrame")'
  BY <1>8, PutTodo
<1>10. ASSUME NEW i \in Ids, h[i].pc = "wait", NEW f, f.id = i, f.done = h[i].ch, f.done # 0, Somewhere(f)
       PROVE  Follows(i, f)
  <2>1. CASE f = wr /\ refused
    BY <1>6, <1>10, <2>1 DEF Follows
  <2>2. CASE f = wr /\ ~refused
    <3>1. callWith("writeFrame", wr) \in ToSet(todo') /\ callWith("writeFrame", wr).op \in Carriers /\ callWith("writeFrame", wr).wr = f
      BY <1>7, <1>8, <2>2 DEF callWith, Carriers
    <3>. QED  BY <1>10, <3>1 DEF Follows, Somewhere
  <2>3. CASE f # wr
    BY <1>3, <1>10, <2>3 DEF Follows
  <2>. QED  BY <2>1, <2>2, <2>3
<1>11. Shapes'
  <2>1. Shapes
    BY DEF Inv
  <2>. QED  BY <1>1, <1>3, <1>6, <1>9, <2>1 DEF Shapes
<1>12. Tally'
  <2>1. IsSc(sc) /\ Counts(sc, sc')
    BY <1>1, Between DEF ScStill
  <2>2. Still
    BY <1>1, <1>3, <1>6, <2>1 DEF Still, StateSame, PcSame
  <2>. QED  BY <1>1, <2>1, <2>2, TallyStill, QueuedStill DEF Tally
<1>13. Turn'
  <2>1. ~At("startFrameWrite") /\ ~At("wroteFrame")
    BY <1>1 DEF At
  <2>. QED  BY <1>1, <1>9, <2>1, TurnStill
<1>14. Kept'
  <2>1. \A i \in Ids : Gone(i) => Gone(i)'
    BY <1>1, ListShort DEF Gone, Has, HasOn
  <2>. QED  BY <1>1, <1>6, <1>10, <2>1, KeptStill
<1>. QED  BY <1>11, <1>12, <1>13, <1>14 DEF Inv

\* The other messages.
LEMMA MessageStep == ASSUME Inv, serveMsg PROVE Inv'
<1>1. /\ todo = <<>> /\ msgs # <<>> /\ msgs' = Tail(msgs)
      /\ q' = q /\ writing' = writing /\ left' = left /\ fault' = fault /\ sc' = sc /\ st' = st /\ want' = want /\ h' = h
  BY DEF serveMsg, Idle
<1>2. Head(msgs).kind \in {"idleTimer", "graceful", "settingsTimer", "shutdownTimer"}
  BY DEF serveMsg
<1>3. /\ Frames(msgs') /\ IsFr(Head(msgs)) /\ Cardinality(Ending(msgs')) = Cardinality(Ending(msgs))
      /\ \A f : f.id \in Ids /\ f.done # 0 /\ Somewhere(f) => Somewhere(f)' \/ f = Head(msgs)
  BY <1>1, <1>2, TakenMsg
<1>4. CASE todo' = <<callGoAway("No"), call("endOfEvent")>>
  <2>1. Put(todo')
    <3>1. IsCall(callGoAway("No")) /\ callGoAway("No").op = "goAway"
      BY CallIs
    <3>2. IsCall(call("endOfEvent")) /\ call("endOfEvent").op = "endOfEvent"
      BY CallIs DEF OnIds, Carriers
    <3>. QED  BY <1>4, <3>1, <3>2, PutMade DEF First
  <2>2. IsTodo(todo)' /\ ~At("startFrameWrite")' /\ ~At("wroteFrame")'
    BY <2>1, PutTodo
  <2>3. \A f : f.id \in Ids /\ f.done # 0 /\ Somewhere(f) => Follows(f.id, f)
    BY <1>2, <1>3 DEF Follows, IsFr, Awaited
  <2>4. /\ ScStill(sc, sc') /\ StStill(st, st') /\ Inputs(left') /\ IsH(h') /\ (\A i \in Ids : PcSame(h[i], h'[i]))
        /\ Frames(want')
    BY <1>1, Between
  <2>5. \A i \in Ids : h'[i].pc = "wait" => h[i].pc = "wait" /\ h'[i].ch = h[i].ch /\ (h[i].reply => h'[i].reply)
    BY <1>1
  <2>. QED  BY <1>1, <1>3, <2>2, <2>3, <2>4, <2>5, EventSteps
<1>5. CASE todo' = <<call("stop")>>
  <2>1. ~At("startFrameWrite") /\ ~At("wroteFrame")
    BY <1>1 DEF At
  <2>. QED  BY <1>1, <1>3, <1>5, <2>1, LeavesStop
<1>. QED  BY <1>4, <1>5 DEF serveMsg

\* A frame from the client.
LEMMA FrameStep == ASSUME Inv, readFrame PROVE Inv'
<1>1. /\ todo = <<>> /\ left # <<>> /\ left' = Tail(left) /\ q' = q /\ writing' = writing /\ fault' = fault
      /\ st' = st /\ want' = want /\ msgs' = msgs /\ h' = h
  BY DEF readFrame, Idle
<1>2. Inputs(left') /\ IsIn(Head(left))
  <2>1. Inputs(left)
    BY Between
  <2>2. List(left') /\ ToSet(left) = {Head(left)} \cup ToSet(left')
    BY <1>1, <2>1, ListTail DEF Inputs
  <2>. QED  BY <2>1, <2>2 DEF Inputs
<1>3. PICK s : s = <<callFrame(Head(left)), call("endOfEvent")>> /\ Put(s)
  <2>1. IsCall(callFrame(Head(left))) /\ callFrame(Head(left)).op = "process"
    BY <1>2, CallIs
  <2>2. IsCall(call("endOfEvent")) /\ call("endOfEvent").op = "endOfEvent"
    BY CallIs DEF OnIds, Carriers
  <2>. QED  BY <2>1, <2>2, PutMade DEF First
<1>4. PICK first \in BOOLEAN : (first => sc.async) /\ todo' = (IF first THEN <<call("wroteFrame")>> ELSE <<>>) \o s
  BY <1>3 DEF readFrame
<1>5. IsTodo(todo)' /\ ~At("startFrameWrite")' /\ (At("wroteFrame")' => sc.async)
  <2>1. IsTodo(todo)' /\ ToSet(s) \subseteq ToSet(todo') /\ ~At("startFrameWrite")' /\ (At("wroteFrame")' <=> first)
    <3>1. PICK async : async = ~first /\ async \in BOOLEAN
      OBVIOUS
    <3>2. todo' = (IF async THEN <<>> ELSE <<call("wroteFrame")>>) \o s
      BY <1>4, <3>1
    <3>. QED  BY <1>3, <3>1, <3>2, StartedTodo
  <2>. QED  BY <1>4, <2>1
<1>6. ScStill(sc, sc')
  <2>1. sc' = [sc EXCEPT !.sawFrame = TRUE] /\ IsSc(sc)
    BY Between DEF readFrame
  <2>. QED  BY <2>1, ScHas DEF ScStill, Counts, IsSc, Rec
<1>7. \A f : f.id \in Ids /\ f.done # 0 /\ Somewhere(f) => Follows(f.id, f)
  BY <1>1, Remains
<1>8. /\ StStill(st, st') /\ IsH(h') /\ (\A i \in Ids : PcSame(h[i], h'[i]))
      /\ Frames(want') /\ Frames(msgs') /\ Cardinality(Ending(msgs')) = Cardinality(Ending(msgs))
  BY <1>1, Between
<1>9. \A i \in Ids : h'[i].pc = "wait" => h[i].pc = "wait" /\ h'[i].ch = h[i].ch /\ (h[i].reply => h'[i].reply)
  BY <1>1
<1>. QED  BY <1>1, <1>2, <1>5, <1>6, <1>7, <1>8, <1>9, EventSteps
\* A handler that runs no more.
LEMMA RunsLess ==
  ASSUME NEW i \in Runs(h), h'[i].pc \notin Active, \A j \in Ids : j # i => h'[j].pc = h[j].pc
  PROVE  Cardinality(Runs(h')) = Cardinality(Runs(h)) - 1 /\ Cardinality(Runs(h)) \in Nat
<1>1. Runs(h') = Runs(h) \ {i}
  BY DEF Runs
<1>2. IsFiniteSet(Runs(h))
  <2>1. Runs(h) \subseteq Ids
    BY DEF Runs
  <2>. QED  BY <2>1, IdsFacts, FS_Subset
<1>. QED  BY <1>1, <1>2, FS_RemoveElement, FS_CardinalityType

\* The end of a handler.
LEMMA ExitStep ==
  ASSUME Inv, NEW i \in Ids, handlerExit(i)
  PROVE  Inv'
<1>1. /\ todo = <<>> /\ todo' = <<>> /\ q' = q /\ writing' = writing /\ left' = left /\ fault' = fault
      /\ sc' = sc /\ st' = st /\ want' = want /\ h[i].pc = "run"
  BY DEF handlerExit, Running, Quiet
<1>2. /\ IsH(h) /\ Rec(h[i], HFields) /\ IsSc(sc) /\ Frames(want) /\ Frames(msgs) /\ List(msgs)
      /\ Shapes /\ Tally /\ Turn /\ Kept
  BY Between DEF IsH, Table, Inv
<1>3. PICK f : f = frame("handlerDone", 0) /\ IsFr(f) /\ f.kind = "handlerDone"
  BY FrameIs DEF OnStream
<1>4. msgs' = IF sc.done THEN msgs ELSE Append(msgs, f)
  BY <1>3 DEF handlerExit
<1>5. /\ h'[i].pc = "done" /\ IsH(h')
      /\ \A j \in Ids : j # i => h'[j] = h[j]
  <2>1. PICK r : r = [h[i] EXCEPT !.pc = "done"]
    OBVIOUS
  <2>2. Rec(r, HFields) /\ r.ch = h[i].ch /\ r.pc = "done" /\ r.out = h[i].out
    BY <1>2, <2>1, HHas DEF Rec
  <2>3. h' = [h EXCEPT ![i] = r]
    <3>1. h' = [h EXCEPT ![i].pc = "done"]
      BY DEF handlerExit
    <3>. QED  BY <2>1, <3>1, Zenon
  <2>4. Table(h', Ids, HFields) /\ h'[i] = r /\ \A j \in Ids : j # i => h'[j] = h[j]
    <3>1. PICK x, y : x = h /\ y = h' /\ Table(x, Ids, HFields) /\ y = [x EXCEPT ![i] = r]
      BY <1>2, <2>3 DEF IsH
    <3>2. Table(y, Ids, HFields) /\ y[i] = r /\ \A j \in Ids : j # i => y[j] = x[j]
      BY <2>2, <3>1 DEF Table
    <3>. QED  BY <3>1, <3>2
  <2>. QED  BY <1>2, <2>2, <2>4 DEF IsH
<1>6. /\ Frames(msgs') /\ ToSet(msgs) \subseteq ToSet(msgs')
      /\ ~sc.done => Cardinality(Ending(msgs')) = Cardinality(Ending(msgs)) + 1
      /\ Cardinality(Ending(msgs)) \in Nat
  <2>1. PICK s, r : s = msgs /\ List(s) /\ r = Append(s, f)
    BY <1>2
  <2>2. Cardinality(Ending(s)) \in Nat /\ Cardinality(Ending(r)) = Cardinality(Ending(s)) + 1
    BY <1>3, <2>1, EndingAppend
  <2>3. Frames(Append(msgs, f)) /\ ToSet(msgs) \subseteq ToSet(Append(msgs, f))
    BY <1>3, Channels
  <2>. QED  BY <1>2, <1>4, <2>1, <2>2, <2>3
<1>7. Shapes'
  <2>1. IsTodo(<<>>)
    BY Between
  <2>. QED  BY <1>1, <1>2, <1>5, <1>6, <2>1 DEF Shapes
<1>8. Handled'
  <2>1. i \in Runs(h) /\ h'[i].pc \notin Active
    BY <1>1, <1>5 DEF Runs, Active
  <2>2. Cardinality(Runs(h')) = Cardinality(Runs(h)) - 1 /\ Cardinality(Runs(h)) \in Nat
    BY <1>5, <2>1, RunsLess
  <2>. QED  BY <1>1, <1>2, <1>6, <2>2 DEF Tally, Handled
<1>9. Lined'
  <2>1. \A k \in DOMAIN sc.unstarted : sc.unstarted[k] \in ClientIds /\ h[sc.unstarted[k]].pc = "none"
    BY <1>2 DEF Tally, Lined
  <2>2. \A k \in DOMAIN sc.unstarted : h'[sc.unstarted[k]].pc = "none"
    BY <1>1, <1>5, <2>1, IdsFacts
  <2>. QED  BY <1>1, <1>2, <2>2 DEF Tally, Lined
<1>10. Counted' /\ Queued'
  BY <1>1, <1>2 DEF Tally, Counted, Queued
<1>11. Fresh' /\ Begun'
  BY <1>1, <1>2, <1>5, IdsFacts DEF Tally, Fresh, Begun
<1>12. Tally'
  BY <1>8, <1>9, <1>10, <1>11 DEF Tally
<1>13. Turn'
  <2>1. ~At("startFrameWrite") /\ ~At("wroteFrame") /\ ~At("startFrameWrite")' /\ ~At("wroteFrame")'
    BY <1>1 DEF At
  <2>. QED  BY <1>1, <2>1, TurnStill
<1>14. Kept'
  <2>1. \A j \in Ids : Gone(j) => Gone(j)'
    BY <1>1 DEF Gone, Has, HasOn
  <2>2. \A f1 : f1.id \in Ids /\ f1.done # 0 /\ Somewhere(f1) => Follows(f1.id, f1)
    BY <1>1, <1>6, Remains
  <2>3. \A j \in Ids : h'[j].pc = "wait" => h[j].pc = "wait" /\ h'[j].ch = h[j].ch /\ (h[j].reply => h'[j].reply)
    BY <1>5
  <2>4. \A j \in Ids : h[j].pc = "wait" =>
          \A f1 : f1.id = j /\ f1.done = h[j].ch /\ f1.done # 0 /\ Somewhere(f1) => Follows(j, f1)
    BY <2>2
  <2>. QED  BY <1>1, <2>1, <2>3, <2>4, KeptStill
<1>. QED  BY <1>7, <1>12, <1>13, <1>14 DEF Inv

\* The handlers that start, by their places in the line, and the places that
\* are given up: those before the first that has to wait.
Before(live, k) == {j \in live : j < k}
Places(live, starts, room) ==
  starts \subseteq live /\ \A k \in live : k \in starts <=> Cardinality(Before(live, k)) < room
UpTo(waits, n, gone) == (waits = {} => gone = n) /\ (waits # {} => gone = Min(waits) - 1)

\* They are all there is room for, if one has to wait.
LEMMA Starting ==
  ASSUME NEW n \in Nat, NEW live \in SUBSET (1 .. n), NEW room \in Int, NEW starts, Places(live, starts, room),
         NEW gone, UpTo(live \ starts, n, gone)
  PROVE  /\ gone \in 0 .. n /\ starts \subseteq 1 .. gone /\ IsFiniteSet(starts) /\ Cardinality(starts) \in Nat
         /\ (\E k \in live : k > gone) => Cardinality(starts) >= room
<1>. DEFINE waits == live \ starts
<1>5. /\ starts \subseteq live /\ \A k \in live : k \in starts <=> Cardinality(Before(live, k)) < room
      /\ (waits = {} => gone = n) /\ (waits # {} => gone = Min(waits) - 1)
  BY Zenon DEF Places, UpTo
<1>6. waits \subseteq live /\ \A k \in live : k \in waits <=> k \notin starts
  OBVIOUS
<1>. HIDE DEF waits
<1>1. IsFiniteSet(live)
  <2>1. IsFiniteSet(1 .. n)
    BY FS_Interval
  <2>. QED  BY <2>1, FS_Subset
<1>2. IsFiniteSet(starts) /\ Cardinality(starts) \in Nat
  <2>1. IsFiniteSet(starts)
    BY <1>1, <1>5, FS_Subset, Zenon
  <2>. QED  BY <2>1, FS_CardinalityType, Zenon
<1>3. CASE waits = {}
  <2>1. gone = n /\ live = starts
    BY <1>3, <1>5, <1>6, Zenon
  <2>2. \A k \in live : ~(k > n)
    OBVIOUS
  <2>3. gone \in 0 .. n /\ starts \subseteq 1 .. gone
    BY <2>1
  <2>. QED  BY <1>2, <2>1, <2>2, <2>3, Zenon
<1>4. CASE waits # {}
  <2>1. PICK m : m = Min(waits)
    BY Zenon
  <2>2. waits \subseteq Nat
    <3>1. 1 .. n \subseteq Nat
      OBVIOUS
    <3>. QED  BY <1>6, <3>1
  <2>3. m \in waits /\ \A y \in waits : m <= y
    BY <1>4, <2>1, <2>2, MinOfNats, Zenon
  <2>4. m \in live /\ m \notin starts /\ m \in 1 .. n /\ gone = m - 1
    BY <1>4, <1>5, <1>6, <2>1, <2>3
  <2>5. \A j \in live : j < m => j \in starts
    <3>1. \A j \in live : j < m => ~(m <= j)
      BY <2>4
    <3>. QED  BY <1>6, <2>3, <3>1, Zenon
  <2>6. PICK B : B = Before(live, m)
    BY Zenon
  <2>7. B \subseteq starts
    BY <2>5, <2>6, Zenon DEF Before
  <2>8. IsFiniteSet(B) /\ Cardinality(B) \in Nat /\ Cardinality(B) <= Cardinality(starts)
    <3>1. IsFiniteSet(B) /\ Cardinality(B) <= Cardinality(starts)
      BY <1>2, <2>7, FS_Subset, Zenon
    <3>. QED  BY <3>1, FS_CardinalityType, Zenon
  <2>9. ~(Cardinality(B) < room)
    BY <1>5, <2>4, <2>6, Zenon
  <2>10. Cardinality(starts) >= room
    BY <1>2, <2>8, <2>9
  <2>11. ASSUME NEW k \in starts, ~(k < m) PROVE FALSE
    <3>1. PICK A : A = Before(live, k)
      BY Zenon
    <3>2. k \in live /\ k \in 1 .. n /\ Cardinality(A) < room
      BY <1>5, <3>1
    <3>3. \A j \in live : j < m => j < k
      BY <2>4, <2>11, <3>2
    <3>4. B \subseteq A /\ A \subseteq live
      BY <2>6, <3>1, <3>3, Zenon DEF Before
    <3>5. IsFiniteSet(A)
      BY <1>1, <3>4, FS_Subset, Zenon
    <3>6. Cardinality(A) \in Nat /\ Cardinality(B) <= Cardinality(A)
      BY <3>4, <3>5, FS_Subset, FS_CardinalityType, Zenon
    <3>. QED  BY <2>8, <2>9, <3>2, <3>6
  <2>12. gone \in 0 .. n
    BY <2>4
  <2>13. ASSUME NEW k \in starts PROVE k \in 1 .. gone
    <3>1. k < m /\ k \in live
      BY <1>5, <2>11
    <3>2. k \in 1 .. n
      BY <3>1
    <3>. QED  BY <2>4, <3>1, <3>2
  <2>. QED  BY <1>2, <2>10, <2>12, <2>13
<1>. QED  BY <1>3, <1>4, Zenon

Picks(u, S) == {u[k] : k \in S}
Distinct(u, S) == \A j, k \in S : u[j] = u[k] => j = k
\* As many handlers start as have a place.
LEMMA StartedMany ==
  ASSUME NEW u, NEW starts, IsFiniteSet(starts), Distinct(u, starts)
  PROVE  IsFiniteSet(Picks(u, starts)) /\ Cardinality(Picks(u, starts)) = Cardinality(starts)
<1>6. PICK started : started = Picks(u, starts)
  OBVIOUS
<1>1. PICK g : g = [k \in starts |-> u[k]]
  OBVIOUS
<1>2. g \in [starts -> started] /\ (\A k \in starts : g[k] = u[k]) /\ DOMAIN g = starts
  BY <1>1, <1>6 DEF Picks
<1>3. g \in Injection(starts, started)
  <2>1. IsInjective(g)
    BY <1>2 DEF IsInjective, Distinct
  <2>. QED  BY <1>2, <2>1 DEF Injection
<1>4. g \in Surjection(starts, started)
  <2>1. \A e \in started : \E k \in starts : g[k] = e
    BY <1>2, <1>6 DEF Picks
  <2>. QED  BY <1>2, <2>1 DEF Surjection
<1>5. IsFiniteSet(started)
  BY <1>4, FS_Surjection
<1>. QED  BY <1>3, <1>4, <1>5, <1>6, FS_Bijection DEF ExistsBijection, Bijection

\* Handlers that start.
Starts(S) ==
  /\ S \subseteq Ids /\ \A i \in S : h[i].pc = "none" /\ h'[i].pc = "run"
  /\ \A i \in Ids \ S : h'[i] = h[i]

\* They are counted with those that run.
LEMMA RunsMore ==
  ASSUME NEW S, Starts(S)
  PROVE  Cardinality(Runs(h')) = Cardinality(Runs(h)) + Cardinality(S) /\ Cardinality(Runs(h)) \in Nat
<1>1. Runs(h') = Runs(h) \cup S /\ Runs(h) \cap S = {}
  BY DEF Runs, Starts, Active
<1>2. IsFiniteSet(Runs(h)) /\ IsFiniteSet(S)
  <2>1. Runs(h) \subseteq Ids
    BY DEF Runs
  <2>. QED  BY <2>1, IdsFacts, FS_Subset DEF Starts
<1>3. Cardinality(Runs(h) \cup S) = Cardinality(Runs(h)) + Cardinality(S) - Cardinality(Runs(h) \cap S)
  BY <1>2, FS_Union
<1>4. Cardinality(Runs(h) \cap S) = 0
  BY <1>1, FS_EmptySet
<1>5. Cardinality(Runs(h)) \in Nat /\ Cardinality(S) \in Nat
  BY <1>2, FS_CardinalityType
<1>. QED  BY <1>1, <1>3, <1>4, <1>5

\* A handler has ended, and others take its place.
LEMMA DoneStep == ASSUME Inv, handlerDone PROVE Inv'
<1>1. /\ todo = <<>> /\ ~sc.done /\ msgs # <<>> /\ msgs' = Tail(msgs) /\ Head(msgs).kind = "handlerDone"
      /\ todo' = <<call("endOfEvent")>> /\ q' = q /\ writing' = writing /\ left' = left /\ fault' = fault
      /\ st' = st /\ want' = want
  BY DEF handlerDone, Idle
<1>2. /\ IsH(h) /\ IsSc(sc) /\ Shapes /\ Counted /\ Queued /\ Handled /\ Lined /\ Fresh /\ Begun /\ Turn /\ Kept
      /\ sc.curHandlers \in Int
  BY Between DEF Inv, Tally, IsSc
<1>3. PICK u, n : u = sc.unstarted /\ List(u) /\ n = Len(u) /\ n \in Nat /\ DOMAIN u = 1 .. n
  <2>1. List(sc.unstarted)
    BY <1>2 DEF IsSc
  <2>. QED  BY <2>1, ListElements
<1>4. PICK live : live = {k \in DOMAIN u : open(u[k])}
  OBVIOUS
<1>5. PICK room : room = AdvMaxStreams - (sc.curHandlers - 1)
  OBVIOUS
<1>6. PICK starts : starts = {k \in live : Cardinality({j \in live : j < k}) < room}
  OBVIOUS
<1>7. PICK waits, gone : waits = live \ starts /\ gone = IF waits = {} THEN n ELSE Min(waits) - 1
  OBVIOUS
<1>8. PICK started : started = {u[k] : k \in starts}
  OBVIOUS
<1>9. /\ sc' = [sc EXCEPT !.curHandlers = sc.curHandlers - 1 + Cardinality(starts), !.unstarted = SubSeq(u, gone + 1, n)]
      /\ h' = [i \in Ids |-> IF i \in started THEN [h[i] EXCEPT !.pc = "run"] ELSE h[i]]
  BY <1>3, <1>4, <1>5, <1>6, <1>7, <1>8 DEF handlerDone
<1>10. /\ gone \in 0 .. n /\ starts \subseteq 1 .. gone /\ IsFiniteSet(starts) /\ Cardinality(starts) \in Nat
       /\ (\E k \in live : k > gone) => Cardinality(starts) >= room
  <2>1. AdvMaxStreams \in Int /\ sc.curHandlers \in Int
    BY <1>2, LimitsAssumption
  <2>2. room \in Int
    BY <1>5, <2>1
  <2>3. live \subseteq 1 .. n
    BY <1>3, <1>4, Zenon
  <2>4. \A k \in live : Before(live, k) = {j \in live : j < k}
    BY Zenon DEF Before
  <2>5. starts \subseteq live /\ \A k \in live : k \in starts <=> Cardinality(Before(live, k)) < room
    BY <1>6, <2>4, Zenon
  <2>6. Places(live, starts, room)
    BY <2>5, Zenon DEF Places
  <2>7. UpTo(live \ starts, n, gone)
    BY <1>7, Zenon DEF UpTo
  <2>8. live \in SUBSET (1 .. n) /\ n \in Nat
    BY <1>3, <2>3, Zenon
  <2>. QED  BY <2>2, <2>6, <2>7, <2>8, Starting, Zenon
<1>11. /\ \A k \in 1 .. n : u[k] \in ClientIds /\ u[k] \in Ids /\ u[k] <= sc.maxClient /\ h[u[k]].pc = "none"
       /\ \A j, k \in 1 .. n : u[j] = u[k] => j = k
  BY <1>2, <1>3, IdsFacts DEF Lined
<1>12. \A k \in starts : k \in live /\ k \in 1 .. n
  BY <1>3, <1>4, <1>6
<1>13. Starts(started) /\ IsH(h')
  <2>1. Table(h', Ids, HFields) /\ \A i \in Ids : /\ i \in started => h'[i] = [h[i] EXCEPT !.pc = "run"]
                                                  /\ i \notin started => h'[i] = h[i]
    <3>1. h' = [i \in Ids |-> h'[i]]
      BY <1>9, Zenon
    <3>2. \A i \in Ids : h'[i] = IF i \in started THEN [h[i] EXCEPT !.pc = "run"] ELSE h[i]
      BY <1>9, Zenon
    <3>3. \A i \in Ids : /\ i \in started => h'[i] = [h[i] EXCEPT !.pc = "run"]
                         /\ i \notin started => h'[i] = h[i]
      BY <3>2
    <3>4. ASSUME NEW i \in Ids, i \in started PROVE Rec(h'[i], HFields)
      <4>1. PICK r : r = h[i] /\ Rec(r, HFields)
        BY <1>2 DEF IsH, Table
      <4>2. h'[i] = [r EXCEPT !.pc = "run"]
        BY <3>3, <3>4, <4>1
      <4>. QED  BY <4>1, <4>2, HHas DEF Rec
    <3>5. \A i \in Ids : Rec(h'[i], HFields)
      BY <1>2, <3>3, <3>4 DEF IsH, Table
    <3>. QED  BY <3>1, <3>3, <3>5 DEF Table
  <2>2. \A i \in Ids : /\ h'[i].ch = h[i].ch /\ h'[i].out = h[i].out
                       /\ i \in started => h'[i].pc = "run"
    <3>. SUFFICES ASSUME NEW i \in Ids
                  PROVE  h'[i].ch = h[i].ch /\ h'[i].out = h[i].out /\ (i \in started => h'[i].pc = "run")
      OBVIOUS
    <3>1. PICK r, x : r = h[i] /\ Rec(r, HFields) /\ x = h'[i]
      BY <1>2 DEF IsH, Table
    <3>2. CASE i \in started
      <4>1. x = [r EXCEPT !.pc = "run"]
        BY <2>1, <3>1, <3>2
      <4>2. x.ch = r.ch /\ x.out = r.out /\ x.pc = "run"
        BY <3>1, <4>1, HHas DEF Rec
      <4>. QED  BY <3>1, <4>2
    <3>3. CASE i \notin started
      BY <2>1, <3>3
    <3>. QED  BY <3>2, <3>3
  <2>3. started \subseteq Ids /\ \A i \in started : h[i].pc = "none"
    BY <1>8, <1>11, <1>12
  <2>4. Starts(started)
    BY <2>1, <2>2, <2>3 DEF Starts
  <2>5. IsH(h')
    BY <1>2, <2>1, <2>2 DEF IsH
  <2>. QED  BY <2>4, <2>5
<1>14. Cardinality(started) = Cardinality(starts)
  <2>1. Distinct(u, starts)
    BY <1>11, <1>12, Zenon DEF Distinct
  <2>2. started = Picks(u, starts)
    BY <1>8, Zenon DEF Picks
  <2>. QED  BY <1>10, <2>1, <2>2, StartedMany, Zenon
<1>15. PICK w : /\ w = SubSeq(u, gone + 1, n) /\ List(w) /\ DOMAIN w = 1 .. Len(w)
                /\ \A k \in 1 .. Len(w) : w[k] = u[gone + k] /\ gone + k \in 1 .. n /\ k \in Nat \ {0}
  <2>1. PICK w : w = SubSeq(u, gone + 1, n)
    OBVIOUS
  <2>2. List(w) /\ Len(w) = n - gone /\ \A k \in 1 .. Len(w) : w[k] = u[gone + k] /\ gone + k \in 1 .. n
    BY <1>3, <1>10, <2>1, ListFrom
  <2>3. DOMAIN w = 1 .. Len(w)
    BY <2>2, ListElements, Zenon
  <2>4. \A k \in 1 .. Len(w) : k \in Nat \ {0}
    OBVIOUS
  <2>. QED  BY <2>1, <2>2, <2>3, <2>4, Zenon
<1>16. /\ IsSc(sc') /\ sc'.unstarted = w /\ sc'.curHandlers = sc.curHandlers - 1 + Cardinality(starts)
       /\ sc'.done = sc.done /\ sc'.async = sc.async /\ sc'.qctl = sc.qctl
       /\ sc'.curClient = sc.curClient /\ sc'.curPushed = sc.curPushed
       /\ sc'.maxClient = sc.maxClient /\ sc'.maxPush = sc.maxPush
  <2>1. PICK c : c = sc.curHandlers - 1 + Cardinality(starts) /\ c \in Int
    BY <1>2, <1>10
  <2>2. sc' = [sc EXCEPT !.curHandlers = c, !.unstarted = w]
    BY <1>9, <1>15, <2>1
  <2>3. Rec(sc', ScFields) /\ sc'.unstarted = w /\ sc'.curHandlers = c
    BY <1>2, <2>2, ScHas DEF IsSc, Rec
  <2>4. /\ sc'.done = sc.done /\ sc'.async = sc.async /\ sc'.qctl = sc.qctl
        /\ sc'.curClient = sc.curClient /\ sc'.curPushed = sc.curPushed
        /\ sc'.maxClient = sc.maxClient /\ sc'.maxPush = sc.maxPush
    BY <2>2
  <2>. QED  BY <1>2, <1>15, <2>1, <2>3, <2>4 DEF IsSc
<1>17. /\ Frames(msgs') /\ Cardinality(Ending(msgs')) = Cardinality(Ending(msgs)) - 1 /\ Cardinality(Ending(msgs')) \in Nat
       /\ IsFr(Head(msgs)) /\ \A f : f.id \in Ids /\ f.done # 0 /\ Somewhere(f) => Somewhere(f)' \/ f = Head(msgs)
  BY <1>1, TakenMsg
<1>18. Put(todo') /\ IsTodo(todo)' /\ ~At("startFrameWrite")' /\ ~At("wroteFrame")'
  BY <1>1, EndPut, PutTodo
<1>19. Shapes'
  BY <1>1, <1>2, <1>13, <1>16, <1>17, <1>18 DEF Shapes
<1>20. Counted' /\ Queued'
  BY <1>1, <1>2, <1>16 DEF Counted, Queued
<1>21. Handled'
  <2>1. PICK a, b, c, d, e :
          /\ a = Cardinality(Runs(h)) /\ b = Cardinality(Runs(h')) /\ c = Cardinality(starts)
          /\ d = Cardinality(Ending(msgs)) /\ e = Cardinality(Ending(msgs'))
    OBVIOUS
  <2>2. b = a + c /\ a \in Nat /\ c \in Nat /\ e = d - 1 /\ e \in Nat
    BY <1>10, <1>13, <1>14, <1>17, <2>1, RunsMore
  <2>3. sc.curHandlers = a + d /\ sc'.curHandlers = sc.curHandlers - 1 + c
    BY <1>1, <1>2, <1>16, <2>1 DEF Handled
  <2>4. d \in Int
    <3>1. IsFiniteSet(Ending(msgs))
      <4>1. List(msgs)
        BY Between
      <4>2. DOMAIN msgs = 1 .. Len(msgs) /\ Len(msgs) \in Nat
        BY <4>1, ListElements
      <4>3. IsFiniteSet(DOMAIN msgs)
        BY <4>2, FS_Interval
      <4>. QED  BY <4>3, FS_Subset DEF Ending
    <3>. QED  BY <2>1, <3>1, FS_CardinalityType
  <2>5. sc'.curHandlers = b + e
    BY <2>2, <2>3, <2>4
  <2>. QED  BY <2>1, <2>5 DEF Handled
<1>22. Lined'
  <2>1. ASSUME NEW k \in DOMAIN w
        PROVE  /\ gone + k \in 1 .. n /\ w[k] = u[gone + k] /\ gone + k > gone /\ gone + k \notin starts
               /\ w[k] \in ClientIds /\ w[k] \in Ids /\ w[k] <= sc'.maxClient /\ h[w[k]].pc = "none"
    <3>1. gone + k \in 1 .. n /\ w[k] = u[gone + k] /\ k \in Nat \ {0}
      BY <1>15, Zenon
    <3>2. gone \in Nat
      BY <1>10
    <3>3. gone + k > gone /\ gone + k \notin 1 .. gone
      BY <3>1, <3>2
    <3>4. gone + k \notin starts
      BY <1>10, <3>3, Zenon
    <3>5. /\ w[k] \in ClientIds /\ w[k] \in Ids /\ w[k] <= sc'.maxClient /\ h[w[k]].pc = "none"
      BY <1>11, <1>16, <3>1, Zenon
    <3>. QED  BY <3>1, <3>3, <3>4, <3>5, Zenon
  <2>2. ASSUME NEW k \in DOMAIN w PROVE h'[w[k]].pc = "none"
    <3>1. w[k] \notin started
      BY <1>8, <1>11, <1>12, <2>1
    <3>. QED  BY <1>13, <2>1, <3>1 DEF Starts
  <2>3. \A j, k \in DOMAIN w : w[j] = w[k] => j = k
    <3>. SUFFICES ASSUME NEW j \in DOMAIN w, NEW k \in DOMAIN w, w[j] = w[k] PROVE j = k
      OBVIOUS
    <3>1. gone + j = gone + k
      BY <1>11, <2>1
    <3>2. gone \in Nat /\ j \in Nat /\ k \in Nat
      BY <1>10, <1>15
    <3>. QED  BY <3>1, <3>2
  <2>4. ASSUME NEW k \in DOMAIN w, st'[w[k]].state \in Live PROVE sc'.curHandlers >= AdvMaxStreams
    <3>1. gone + k \in live
      BY <1>1, <1>3, <1>4, <2>1, <2>4 DEF open
    <3>2. Cardinality(starts) >= room
      BY <1>10, <2>1, <3>1
    <3>. QED  BY <1>2, <1>5, <1>10, <1>16, <3>2, LimitsAssumption
  <2>. QED  BY <1>16, <2>1, <2>2, <2>3, <2>4 DEF Lined
<1>23. Fresh'
  <2>1. ASSUME NEW i \in Ids, i \in started PROVE i \in ClientIds /\ i <= sc.maxClient
    BY <1>8, <1>11, <1>12, <2>1
  <2>2. ASSUME NEW i \in ClientIds, i > sc.maxClient PROVE i \in Ids /\ i \notin started
    <3>1. i \in Nat /\ sc.maxClient \in Nat /\ i \in Ids
      BY <1>2, IdsFacts DEF IsSc
    <3>. QED  BY <2>1, <2>2, <3>1
  <2>3. \A i \in PushIds : i \in Ids /\ i \notin started
    BY <2>1, IdsFacts
  <2>. QED  BY <1>1, <1>2, <1>13, <1>16, <2>2, <2>3 DEF Fresh, Starts
<1>24. Begun'
  <2>1. \A i \in started : st[i].state # "idle"
    BY <1>4, <1>8, <1>12 DEF open, Live
  <2>2. \A i \in Ids : i \notin started => h'[i] = h[i]
    BY <1>13 DEF Starts
  <2>. QED  BY <1>1, <1>2, <2>1, <2>2 DEF Begun
<1>25. Tally'
  BY <1>20, <1>21, <1>22, <1>23, <1>24 DEF Tally
<1>26. Turn'
  <2>1. ~At("startFrameWrite") /\ ~At("wroteFrame")
    BY <1>1 DEF At
  <2>. QED  BY <1>1, <1>2, <1>16, <1>18, <2>1, TurnStill
<1>27. Kept'
  <2>1. \A i \in Ids : Gone(i) => Gone(i)'
    BY <1>1, <1>16, ListShort DEF Gone, Has, HasOn
  <2>2. \A f : f.id \in Ids /\ f.done # 0 /\ Somewhere(f) => Somewhere(f)'
    <3>1. Head(msgs).done = 0
      BY <1>1, <1>17 DEF IsFr, Awaited
    <3>. QED  BY <1>17, <3>1
  <2>3. \A i \in Ids : h'[i].pc = "wait" => h[i].pc = "wait" /\ h'[i].ch = h[i].ch /\ (h[i].reply => h'[i].reply)
    BY <1>13 DEF Starts
  <2>4. \A i \in Ids : h[i].pc = "wait" =>
          \A f : f.id = i /\ f.done = h[i].ch /\ f.done # 0 /\ Somewhere(f) => Follows(i, f)
    BY <2>2 DEF Follows
  <2>. QED  BY <1>1, <2>1, <2>3, <2>4, KeptStill
<1>. QED  BY <1>19, <1>25, <1>26, <1>27 DEF Inv

----------------------------------------------------------------------------
(* The invariant *)

\* It holds in the initial states.
LEMMA InitInv == ASSUME Init PROVE Inv
<1>1. List(<<>>) /\ ToSet(<<>>) = {} /\ Frames(<<>>) /\ Len(<<>>) = 0 /\ IsTodo(<<>>)
  BY FramesMade, ListShort DEF IsTodo
<1>2. /\ writing = NoFrame /\ todo = <<>> /\ want = <<>> /\ msgs = <<>> /\ fault = FALSE
      /\ st = [i \in Ids |-> newStream(StreamSendWindow)] /\ h = [i \in Ids |-> newHandler]
      /\ q = [i \in Ids \cup {0} |-> <<>>]
  BY DEF Init
<1>3. /\ IsSc(sc) /\ sc.qctl = 0 /\ sc.curClient = 0 /\ sc.curPushed = 0 /\ sc.curHandlers = 0
      /\ sc.unstarted = <<>> /\ sc.async = FALSE
  BY <1>1 DEF Init, IsSc, Rec, ScFields
<1>4. IsSt(st) /\ \A i \in Ids : st[i].state = "idle"
  BY <1>2 DEF newStream, IsSt, Table, Rec, StFields
<1>5. IsH(h) /\ \A i \in Ids : h[i].pc = "none" /\ h[i].ch = 0
  <2>1. Table(h, Ids, HFields) /\ \A i \in Ids : h[i].pc = "none" /\ h[i].ch = 0 /\ h[i].out = <<>>
    BY <1>2 DEF newHandler, Table, Rec, HFields
  <2>. QED  BY <1>1, <2>1 DEF IsH
<1>6. IsQ(q) /\ q[0] = <<>>
  BY <1>1, <1>2 DEF IsQ
<1>7. Inputs(left)
  <2>1. PICK s \in Scenarios : left = s.script
    BY DEF Init
  <2>2. left \in Seq(ToSet(left)) /\ \A f \in ToSet(left) : IsIn(f)
    BY <2>1, ScenarioAssumption DEF IsIn
  <2>. QED  BY <2>2, ListOf DEF Inputs
<1>8. Shapes
  BY <1>1, <1>2, <1>3, <1>4, <1>5, <1>6, <1>7 DEF Shapes
<1>9. Counted
  <2>1. Opened(st) = {}
    BY <1>4 DEF Opened, Live
  <2>2. Opened(st) \cap ClientIds = {} /\ Opened(st) \cap PushIds = {}
    BY <2>1
  <2>. QED  BY <1>3, <2>2, FS_EmptySet DEF Counted
<1>10. Queued
  BY <1>1, <1>3, <1>6 DEF Queued
<1>11. Handled
  <2>1. Runs(h) = {} /\ Ending(msgs) = {}
    BY <1>2, <1>5 DEF Runs, Active, Ending
  <2>2. Cardinality({}) = 0
    BY FS_EmptySet
  <2>. QED  BY <1>3, <2>1, <2>2 DEF Handled
<1>12. Lined
  BY <1>3 DEF Lined
<1>13. Fresh /\ Begun
  BY <1>4, <1>5, IdsFacts DEF Fresh, Begun
<1>14. Tally
  BY <1>9, <1>10, <1>11, <1>12, <1>13 DEF Tally
<1>15. Turn
  BY <1>2, <1>3 DEF Turn, At
<1>16. Kept
  BY <1>4, <1>5 DEF Kept, Waits
<1>. QED  BY <1>8, <1>14, <1>15, <1>16 DEF Inv

\* The calls of the serve loop keep it.
LEMMA CallSteps == ASSUME Inv, Calls PROVE Inv'
BY ScheduleStep, NoteResetStep, WindowStep, GoAwayStep, EndOfEventStep, DiscardStep, SettingsStep,
   AnswerSteps, WindowUpdateStep, DataStep, TrailersStep, WriteFrameStep, LoopStep, StartWriteStep,
   ReplyStep, WroteStep, CloseStream2Step, StopStep, ReadErrorStep, CloseStreamStep, HeadersStep, PushStep,
   Zenon DEF Calls

\* So do its events.
LEMMA EventsKeep == ASSUME Inv, Events PROVE Inv'
BY AsyncStep, WantStep, DoneStep, StartPushStep, MessageStep, BodyReadStep, Zenon DEF Events

\* And the timers and the handlers of a stream.
LEMMA StreamSteps ==
  ASSUME Inv, NEW i \in Ids,
         onReadTimeout(i) \/ onWriteTimeout(i) \/ Read(i) \/ CloseBody(i) \/ Panic(i) \/ HandlerSteps(i)
  PROVE  Inv'
<1>1. CASE HandlerSteps(i)
  BY <1>1, WriteSteps, PushMessage, ReadSteps, ExitStep, Zenon DEF HandlerSteps
<1>. QED  BY <1>1, StreamTimers, ReadSteps

\* Every step keeps it.
LEMMA NextInv == ASSUME Inv, [Next]_vars PROVE Inv'
<1>1. CASE Next
  BY <1>1, CallSteps, EventsKeep, FrameStep, TimerSteps, StreamSteps, Zenon DEF Next
<1>2. CASE UNCHANGED vars
  <2>1. /\ sc' = sc /\ st' = st /\ q' = q /\ writing' = writing /\ todo' = todo /\ want' = want /\ msgs' = msgs
        /\ h' = h /\ left' = left /\ fault' = fault
    BY <1>2 DEF vars
  <2>2. Shapes' /\ Tally' /\ Turn'
    BY <2>1 DEF Inv, Shapes, Tally, Turn, Counted, Queued, Handled, Lined, Fresh, Begun, At
  <2>3. Kept'
    BY <2>1 DEF Inv, Kept, Waits, Gone, Has, HasOn, Somewhere
  <2>. QED  BY <2>2, <2>3 DEF Inv
<1>. QED  BY <1>1, <1>2

\* The invariant of the connection, in every state and in the middle of every
\* event of serve.
THEOREM Invariance == Spec => []Inv
<1>1. Init => Inv
  BY InitInv
<1>2. Inv /\ [Next]_vars => Inv'
  BY NextInv
<1>. QED  BY <1>1, <1>2, PTL DEF Spec

\* The counters of the serve loop (curClientStreams, curPushedStreams,
\* queuedControlFrames, curHandlers) are exact between two events, and a
\* handler waits for a place on a live stream only while all places are taken:
\* processHeaders, startPush, closeStream, handlerDone, writeFrame and Pop
\* agree on what they count, whatever the order of their events.
THEOREM ExactCounters == Spec => []CountersExact
<1>1. Inv => CountersExact
  <2>. SUFFICES ASSUME Inv, Serving PROVE /\ sc.curClient = Cardinality(openStreams \cap ClientIds)
                                          /\ sc.curPushed = Cardinality(openStreams \cap PushIds)
                                          /\ sc.qctl = Len(q[0])
                                          /\ sc.curHandlers = Cardinality({i \in Ids : h[i].pc \in {"run", "reading", "wait"}})
                                                + Cardinality({k \in DOMAIN msgs : msgs[k].kind = "handlerDone"})
                                          /\ (\E k \in DOMAIN sc.unstarted : open(sc.unstarted[k])) => sc.curHandlers >= AdvMaxStreams
    BY DEF CountersExact
  <2>1. Counted /\ Queued /\ Handled /\ Lined /\ ~sc.done
    BY DEF Inv, Tally, Serving
  <2>2. openStreams = Opened(st)
    BY DEF openStreams, open, Opened
  <2>3. Runs(h) = {i \in Ids : h[i].pc \in {"run", "reading", "wait"}}
    BY DEF Runs, Active
  <2>4. Ending(msgs) = {k \in DOMAIN msgs : msgs[k].kind = "handlerDone"}
    BY DEF Ending
  <2>5. (\E k \in DOMAIN sc.unstarted : open(sc.unstarted[k])) => sc.curHandlers >= AdvMaxStreams
    BY <2>1 DEF Lined, open
  <2>6. sc.curHandlers = Cardinality(Runs(h)) + Cardinality(Ending(msgs))
    BY <2>1 DEF Handled
  <2>. QED  BY <2>1, <2>2, <2>3, <2>4, <2>5, <2>6 DEF Counted, Queued
<1>. QED  BY <1>1, Invariance, PTL

\* No handler waits for a frame that is nowhere: writeFrame drops a frame only
\* of a stream whose handler closeStream releases or has released, and every
\* frame that wroteFrame or startPush ends is replied to.
THEOREM Unstranded == Spec => []NoWaiterStranded
<1>1. Inv => NoWaiterStranded
  <2>. SUFFICES ASSUME Inv, Quiet, NEW i \in Ids, h[i].pc = "wait"
                PROVE  \/ h[i].reply \/ st[i].cw \/ sc.done
                       \/ \E f \in ToSet(want) \cup ToSet(msgs) \cup ToSet(q[i]) \cup ({writing} \ {NoFrame}) :
                            f.id = i /\ f.done = h[i].ch
    BY DEF NoWaiterStranded
  <2>1. Waits(i) /\ todo = <<>> /\ ~fault
    BY DEF Inv, Kept, Quiet
  <2>2. Gone(i) => st[i].cw \/ sc.done
    BY <2>1, ListShort DEF Gone, Has, HasOn
  <2>3. ASSUME NEW f, f.id = i, f.done = h[i].ch, Somewhere(f)
        PROVE  f \in ToSet(want) \cup ToSet(msgs) \cup ToSet(q[i]) \cup ({writing} \ {NoFrame})
    BY <2>1, <2>3, ListShort DEF Somewhere
  <2>. QED  BY <2>1, <2>2, <2>3 DEF Waits
<1>. QED  BY <1>1, Invariance, PTL
=============================================================================
