-------------------------- MODULE ServerConnProofs --------------------------
(***************************************************************************)
(* Proofs about module ServerConn, for every stream of requests.  The      *)
(* inductive invariant says who may read from the connection at each       *)
(* position of conn.serve, where the units are that have been read and not *)
(* consumed, and what an aborted read leaves behind.                       *)
(***************************************************************************)
EXTENDS ServerConn, SequenceTheorems, TLAPS

\* The background read is not running where conn.serve or a handler reads.
OneReader ==
  /\ ~panicked
  /\ reading => /\ bg.at = "none" /\ byteBuf = 0
                /\ Hungry /\ pos # "hijackPeek"
  /\ bg.at # "none" => byteBuf = 0
  /\ bg.at # "lock" => bg.unit = 0
  /\ bodyLeft \/ pos \in {"peek", "head", "closeBody", "hijackPeek", "hijacked"} => bg.at = "none"
  /\ waiting => pos \in DOMAIN AbortThen

\* A request whose body is not read to its end is the conn's last.
BodyBeforeReuse ==
  /\ pos \in {"peek", "head"} => ~bodyLeft
  /\ pos = "body" => bodyLeft
  /\ pos \in {"abort", "closeBody", "decide"} /\ bodyLeft => noReuse
  /\ pos = "decide" /\ bg.at # "none" => noReuse

\* NothingLost, unit by unit.
InOrder ==
  /\ byteBuf = 0 /\ bg.unit = 0 => Len(buf) = taken - parsed
  /\ byteBuf # 0 \/ bg.unit # 0 => Len(buf) + 1 = taken - parsed
  /\ \A i \in 1 .. Len(buf) : buf[i] = parsed + i
  /\ byteBuf # 0 => byteBuf = taken
  /\ bg.unit # 0 => bg.unit = taken

\* What has been consumed ends where a request ends, before a body that is
\* still to be read, or where the client has closed the conn.
AtBoundary ==
  /\ InSync
  /\ bodyLeft => parsed < Len(Stream) /\ Stream[parsed + 1] = "body"
  /\ ~bodyLeft => \/ parsed < Len(Stream) => Stream[parsed + 1] = "first"
                  \/ clientClosed /\ parsed = sent

\* A read that is aborted is the background read, and whoever waits for it has
\* aborted it.
AbortPending ==
  /\ NoStaleAbort
  /\ aborted => bg.at # "none"
  /\ waiting /\ inRead => aborted

\* An error of a read has a reason that lasts.
ErrorsJustified ==
  /\ ContextJustified
  /\ deadline = "expired" => late
  /\ bg.err = "eof" => clientClosed \/ rwcClosed
  /\ bg.err = "timeout" => late \/ aborted
  /\ bg.at # "lock" => bg.err = "nil"

Inv ==
  /\ TypeOK /\ OneReader /\ BodyBeforeReuse /\ InOrder /\ AtBoundary /\ AbortPending
  /\ ErrorsJustified /\ HijackedIntact
----------------------------------------------------------------------------
\* Where the three tables of positions lead.
LEMMA Tables ==
  /\ DOMAIN AbortThen = {"abort", "hijackAbort", "deferAbort"}
  /\ AbortThen["abort"] = "closeBody" /\ AbortThen["hijackAbort"] = "hijackPeek"
  /\ AbortThen["deferAbort"] = "deferBody"
  /\ DOMAIN BodyThen = {"body", "discard", "closeBody", "deferBody"}
  /\ BodyThen["body"] = "handler" /\ BodyThen["discard"] = "abort"
  /\ BodyThen["closeBody"] = "decide" /\ BodyThen["deferBody"] = "close"
  /\ FailedThen["peek"] = "close" /\ FailedThen["head"] = "close"
  /\ FailedThen["body"] = "handler" /\ FailedThen["discard"] = "abort"
  /\ FailedThen["closeBody"] = "decide" /\ FailedThen["deferBody"] = "close"
BY DEF AbortThen, BodyThen, FailedThen

\* A read appends the units after those taken before.
LEMMA NewUnits ==
  ASSUME NEW k \in Nat, NEW s \in Seq(1 .. k), NEW n \in Nat,
         NEW r, r = s \o [i \in 1 .. n |-> k + i]
  PROVE  /\ r \in Seq(1 .. k + n) /\ Len(r) = Len(s) + n
         /\ \A i \in 1 .. Len(s) : r[i] = s[i]
         /\ \A i \in Len(s) + 1 .. Len(s) + n : r[i] = k + i - Len(s)
<1>. DEFINE t == [i \in 1 .. n |-> k + i]
<1>1. t \in Seq(1 .. k + n) /\ Len(t) = n /\ \A i \in 1 .. n : t[i] = k + i
  OBVIOUS
<1>2. s \in Seq(1 .. k + n)
  OBVIOUS
<1>. HIDE DEF t
<1>3. /\ s \o t \in Seq(1 .. k + n) /\ Len(s \o t) = Len(s) + Len(t)
      /\ \A i \in 1 .. Len(s) + Len(t) :
           (s \o t)[i] = IF i <= Len(s) THEN s[i] ELSE t[i - Len(s)]
  BY <1>1, <1>2, ConcatProperties, Zenon
<1>4. \A i \in 1 .. Len(s) : (s \o t)[i] = s[i]
  BY <1>1, <1>2, <1>3
<1>5. \A i \in Len(s) + 1 .. Len(s) + n : (s \o t)[i] = k + i - Len(s)
  <2>. SUFFICES ASSUME NEW i \in Len(s) + 1 .. Len(s) + n
                PROVE  (s \o t)[i] = k + i - Len(s)
    OBVIOUS
  <2>1. i \in 1 .. Len(s) + Len(t) /\ ~(i <= Len(s)) /\ i - Len(s) \in 1 .. n
    BY <1>1
  <2>2. t[i - Len(s)] = k + (i - Len(s))
    BY <1>1, <2>1
  <2>. QED  BY <1>3, <2>1, <2>2
<1>. QED  BY <1>1, <1>3, <1>4, <1>5 DEF t

\* So does moving byteBuf's unit to bufr.
LEMMA OneUnit ==
  ASSUME NEW S, NEW s \in Seq(S), NEW e \in S
  PROVE  /\ Append(s, e) \in Seq(S) /\ Len(Append(s, e)) = Len(s) + 1
         /\ \A i \in 1 .. Len(s) : Append(s, e)[i] = s[i]
         /\ Append(s, e)[Len(s) + 1] = e
BY AppendProperties

\* What is left of bufr when a head has been taken from it.
LEMMA HeadTaken ==
  ASSUME NEW S, NEW s \in Seq(S), Len(s) >= 2
  PROVE  LET r == SubSeq(s, 3, Len(s))
         IN  /\ r \in Seq(S) /\ Len(r) = Len(s) - 2
             /\ \A i \in 1 .. Len(s) - 2 : r[i] = s[i + 2]
<1>. DEFINE r == SubSeq(s, 3, Len(s))
<1>1. \A i \in 3 .. Len(s) : s[i] \in S
  OBVIOUS
<1>2. Len(s) \in Int
  OBVIOUS
<1>3. /\ r \in Seq(S) /\ Len(r) = IF 3 <= Len(s) THEN Len(s) - 3 + 1 ELSE 0
      /\ \A i \in 1 .. Len(s) - 3 + 1 : r[i] = s[3 + i - 1]
  BY <1>1, <1>2, SubSeqProperties
<1>. HIDE DEF r
<1>4. Len(r) = Len(s) - 2
  <2>1. CASE Len(s) = 2
    BY <1>3, <2>1
  <2>2. CASE 3 <= Len(s)
    <3>1. Len(r) = Len(s) - 3 + 1
      BY <1>3, <2>2
    <3>. QED  BY <1>2, <3>1
  <2>3. Len(s) = 2 \/ 3 <= Len(s)
    <3>1. \A n \in Nat : n >= 2 => n = 2 \/ 3 <= n
      OBVIOUS
    <3>2. Len(s) \in Nat
      OBVIOUS
    <3>. QED  BY <3>1, <3>2, Zenon
  <2>. QED  BY <2>1, <2>2, <2>3, Zenon
<1>5. \A i \in 1 .. Len(s) - 2 : r[i] = s[i + 2]
  <2>1. \A i \in 1 .. Len(s) - 2 : i \in 1 .. Len(s) - 3 + 1 /\ 3 + i - 1 = i + 2
    BY <1>2
  <2>. QED  BY <1>3, <2>1
<1>. QED  BY <1>3, <1>4, <1>5 DEF r

\* A head that is complete is in the buffer, right after what has been consumed.
LEMMA HeadInBuffer ==
  ASSUME Inv, pos = "head", ~Hungry
  PROVE  /\ Len(buf) >= 2 /\ buf[1] = parsed + 1 /\ buf[2] = parsed + 2
         /\ parsed + 2 <= taken /\ taken <= sent /\ sent <= Len(Stream)
<1>1. Len(buf) \in Nat /\ parsed \in Nat /\ taken \in Nat /\ sent \in Nat /\ Len(Stream) \in Nat
  BY StreamAssumption DEF Inv, TypeOK
<1>2. taken <= sent /\ sent <= Len(Stream)
  BY DEF Inv, TypeOK
<1>3. Len(buf) >= 2
  BY <1>1 DEF Hungry
<1>4. \A i \in 1 .. Len(buf) : buf[i] = parsed + i
  BY DEF Inv, InOrder
<1>5. Len(buf) <= taken - parsed
  BY <1>1 DEF Inv, InOrder
<1>. QED  BY <1>1, <1>2, <1>3, <1>4, <1>5

\* A step keeps every variable in its set, and inRead exact.
LEMMA TypeOKStep == Inv /\ [Next]_vars => TypeOK'
<1>. SUFFICES ASSUME Inv, [Next]_vars  PROVE TypeOK'
  OBVIOUS
<1>. USE StreamAssumption, Tables DEF Inv, TypeOK, OneReader, Positions, Hungry, NoRead, netVars,
         readerVars, reqVars
<1>1. ASSUME bgReturns PROVE TypeOK'
  BY <1>1 DEF bgReturns, CanRead, Available, ReadErrors, Available
<1>2. ASSUME bgFinish PROVE TypeOK'
  <2>1. ctxDone' \in BOOLEAN /\ aborted' \in BOOLEAN /\ inRead' \in BOOLEAN
    BY <1>2, Zenon DEF bgFinish
  <2>2. byteBuf' \in 0 .. taken' /\ bg' \in [at : {"none", "read", "lock"}, unit : 0 .. taken', err : {"nil", "eof", "timeout"}]
    BY <1>2 DEF bgFinish
  <2>3. (inRead <=> (reading \/ bg.at # "none"))'
    BY <1>2 DEF bgFinish
  <2>. QED  BY <1>2, <2>1, <2>2, <2>3 DEF bgFinish
<1>3. ASSUME abortPendingRead PROVE TypeOK'
  <2>1. deadline' \in {"none", "set", "expired", "past"} /\ pos' \in Positions
    BY <1>3 DEF abortPendingRead
  <2>2. aborted' \in BOOLEAN /\ waiting' \in BOOLEAN
    BY <1>3, Zenon DEF abortPendingRead
  <2>. QED  BY <1>3, <2>1, <2>2 DEF abortPendingRead
<1>4. ASSUME abortReturns PROVE TypeOK'
  <2>1. TypeOK /\ pos' \in {"closeBody", "hijackPeek", "deferBody"}
    BY <1>4 DEF abortReturns
  <2>2. /\ waiting' = FALSE /\ deadline' = "none"
        /\ UNCHANGED <<sent, clientClosed, taken, rwcClosed, late, byteBuf, inRead, aborted, bg, buf,
                       ctxDone, panicked, reading, parsed, head, bodyLeft, noReuse>>
    BY <1>4 DEF abortReturns
  <2>. HIDE StreamAssumption, Tables DEF Inv, OneReader, Hungry, NoRead, netVars, readerVars, reqVars
  <2>3. pos' \in Positions
    BY <2>1
  <2>4. waiting' \in BOOLEAN /\ deadline' \in {"none", "set", "expired", "past"}
    BY <2>2
  <2>5. (inRead <=> (reading \/ bg.at # "none"))'
    BY <2>1, <2>2
  <2>6. (bg \in [at : {"none", "read", "lock"}, unit : 0 .. taken, err : {"nil", "eof", "timeout"}])'
    BY <2>1, <2>2, Zenon
  <2>7. (/\ taken \in 0 .. sent /\ sent \in 0 .. Len(Stream) /\ parsed \in 0 .. taken
         /\ head \in 0 .. taken /\ byteBuf \in 0 .. taken /\ buf \in Seq(1 .. taken))'
    BY <2>1, <2>2, Zenon
  <2>8. (/\ clientClosed \in BOOLEAN /\ rwcClosed \in BOOLEAN /\ late \in BOOLEAN
         /\ inRead \in BOOLEAN /\ aborted \in BOOLEAN)'
    BY <2>1, <2>2, Zenon
  <2>9. (/\ ctxDone \in BOOLEAN /\ panicked \in BOOLEAN /\ reading \in BOOLEAN
         /\ bodyLeft \in BOOLEAN /\ noReuse \in BOOLEAN)'
    BY <2>1, <2>2, Zenon
  <2>. QED  BY <2>3, <2>4, <2>5, <2>6, <2>7, <2>8, <2>9, Zenon
<1>5. ASSUME readBegins PROVE TypeOK'
  <2>1. panicked' \in BOOLEAN /\ inRead' \in BOOLEAN /\ reading' \in BOOLEAN
    BY <1>5, Zenon DEF readBegins
  <2>2. buf' \in Seq(1 .. taken) /\ byteBuf' \in 0 .. taken
    <3>1. byteBuf # 0 => byteBuf \in 1 .. taken /\ Append(buf, byteBuf) \in Seq(1 .. taken)
      BY OneUnit
    <3>. QED  BY <1>5, <3>1 DEF readBegins
  <2>3. (inRead <=> (reading \/ bg.at # "none"))'
    BY <1>5 DEF readBegins
  <2>. QED  BY <1>5, <2>1, <2>2, <2>3 DEF readBegins
<1>6. ASSUME readReturns PROVE TypeOK'
  <2>1. PICK n \in 1 .. Available :
          /\ buf' = buf \o [i \in 1 .. n |-> taken + i]
          /\ taken' = taken + n
    BY <1>6, Zenon DEF readReturns
  <2>2. n \in Nat /\ n <= sent - taken /\ taken' \in taken .. sent
    BY <2>1 DEF Available
  <2>3. buf' \in Seq(1 .. taken')
    <3>1. taken \in Nat /\ buf \in Seq(1 .. taken)
      OBVIOUS
    <3>. QED  BY <2>1, <2>2, <3>1, NewUnits, Zenon
  <2>4. bg' \in [at : {"none", "read", "lock"}, unit : 0 .. taken', err : {"nil", "eof", "timeout"}]
    BY <1>6, <2>2 DEF readReturns
  <2>5. inRead' = FALSE /\ reading' = FALSE /\ bg'.at = "none"
    BY <1>6 DEF readReturns
  <2>6. taken' \in 0 .. sent /\ parsed \in 0 .. taken' /\ byteBuf \in 0 .. taken' /\ head \in 0 .. taken'
    BY <2>2
  <2>7. UNCHANGED <<sent, clientClosed, rwcClosed, late, deadline, byteBuf, aborted, ctxDone, panicked,
                    pos, waiting, reqVars>>
    BY <1>6 DEF readReturns
  <2>8. (inRead <=> (reading \/ bg.at # "none"))' /\ inRead' \in BOOLEAN /\ reading' \in BOOLEAN
    BY <2>5
  <2>9. deadline' \in {"none", "set", "expired", "past"} /\ pos' \in Positions /\ sent' \in 0 .. Len(Stream)
    BY <2>7
  <2>10. taken' \in 0 .. sent' /\ parsed' \in 0 .. taken' /\ byteBuf' \in 0 .. taken' /\ head' \in 0 .. taken'
    BY <2>6, <2>7
  <2>11. /\ clientClosed' \in BOOLEAN /\ rwcClosed' \in BOOLEAN /\ late' \in BOOLEAN
         /\ aborted' \in BOOLEAN /\ ctxDone' \in BOOLEAN /\ panicked' \in BOOLEAN
         /\ waiting' \in BOOLEAN /\ bodyLeft' \in BOOLEAN /\ noReuse' \in BOOLEAN
    BY <2>7
  <2>. QED  BY <2>3, <2>4, <2>8, <2>9, <2>10, <2>11, Zenon
<1>7. ASSUME readFails PROVE TypeOK'
  <2>1. ctxDone' \in BOOLEAN /\ inRead' \in BOOLEAN /\ reading' \in BOOLEAN /\ noReuse' \in BOOLEAN
    BY <1>7, Zenon DEF readFails
  <2>2. pos' \in Positions
    BY <1>7 DEF readFails
  <2>3. (inRead <=> (reading \/ bg.at # "none"))'
    BY <1>7 DEF readFails
  <2>. QED  BY <1>7, <2>1, <2>2, <2>3 DEF readFails
<1>8. ASSUME bodyCutShort PROVE TypeOK'
  <2>1. TypeOK /\ pos' \in {"handler", "abort", "decide", "close"} /\ inRead = TRUE
    BY <1>8 DEF bodyCutShort
  <2>2. noReuse' \in BOOLEAN
    BY <1>8, Zenon DEF bodyCutShort
  <2>3. bg' = [at |-> "read", unit |-> 0, err |-> "nil"]
    BY <1>8 DEF bodyCutShort
  <2>4. /\ ctxDone' = TRUE /\ reading' = FALSE /\ bodyLeft' = FALSE /\ deadline' = "none"
        /\ UNCHANGED <<sent, clientClosed, taken, rwcClosed, late, byteBuf, inRead, aborted, buf,
                       panicked, waiting, parsed, head>>
    BY <1>8 DEF bodyCutShort
  <2>. HIDE StreamAssumption, Tables DEF Inv, OneReader, Hungry, NoRead, netVars, readerVars, reqVars
  <2>5. pos' \in Positions
    BY <2>1
  <2>6. bg' \in [at : {"none", "read", "lock"}, unit : 0 .. taken, err : {"nil", "eof", "timeout"}]
    BY <2>1, <2>3
  <2>7. bg'.at # "none"
    BY <2>3
  <2>. QED  BY <2>1, <2>2, <2>4, <2>5, <2>6, <2>7, Zenon
<1>9. ASSUME peeked PROVE TypeOK'
  BY <1>9 DEF peeked
<1>10. ASSUME readRequest PROVE TypeOK'
  <2>1. ~reading /\ bg.at = "none" /\ inRead = FALSE /\ Len(buf) >= 2
    BY <1>10 DEF readRequest
  <2>2. buf' \in Seq(1 .. taken) /\ head' \in 0 .. taken /\ parsed' \in 0 .. taken
    <3>1. SubSeq(buf, 3, Len(buf)) \in Seq(1 .. taken)
      BY <2>1, HeadTaken
    <3>. HIDE DEF Inv, Hungry
    <3>2. /\ buf' = SubSeq(buf, 3, Len(buf)) /\ head' = buf[1] /\ parsed' = parsed + 2
          /\ buf[1] = parsed + 1 /\ parsed + 2 <= taken
      BY <1>10, HeadInBuffer DEF readRequest
    <3>3. parsed \in Nat /\ taken \in Nat
      BY DEF Inv
    <3>. HIDE DEF TypeOK, OneReader
    <3>. QED  BY <3>1, <3>2, <3>3
  <2>3. bodyLeft' \in BOOLEAN /\ noReuse' \in BOOLEAN /\ panicked' \in BOOLEAN /\ inRead' \in BOOLEAN
    BY <1>10, Zenon DEF readRequest, startBackgroundRead, HasBody
  <2>4. pos' \in Positions /\ deadline' \in {"none", "set", "expired", "past"}
    BY <1>10 DEF readRequest, startBackgroundRead
  <2>5. bg' \in [at : {"none", "read", "lock"}, unit : 0 .. taken, err : {"nil", "eof", "timeout"}]
    BY <1>10 DEF readRequest, startBackgroundRead
  <2>6. (inRead <=> (reading \/ bg.at # "none"))'
    BY <1>10, <2>1 DEF readRequest, startBackgroundRead
  <2>. QED  BY <1>10, <2>2, <2>3, <2>4, <2>5, <2>6 DEF readRequest, startBackgroundRead
<1>11. ASSUME badRequest PROVE TypeOK'
  BY <1>11 DEF badRequest
<1>12. ASSUME handlerReads PROVE TypeOK'
  BY <1>12 DEF handlerReads
<1>13. ASSUME bodyEnds PROVE TypeOK'
  <2>1. ~reading /\ bg.at = "none" /\ inRead = FALSE /\ Len(buf) >= 1
    <3>1. bodyLeft /\ buf # <<>> /\ pos \in {"body", "discard", "closeBody", "deferBody"}
      BY <1>13 DEF bodyEnds
    <3>2. ~reading
      BY <3>1 DEF OneReader
    <3>3. bg.at = "none"
      BY <3>1 DEF OneReader
    <3>4. inRead = FALSE
      BY <3>2, <3>3
    <3>5. Len(buf) >= 1
      BY <3>1
    <3>. QED  BY <3>2, <3>3, <3>4, <3>5
  <2>2. buf' \in Seq(1 .. taken) /\ parsed' \in 0 .. taken
    <3>1. /\ buf' = Tail(buf) /\ parsed' = parsed + 1 /\ buf \in Seq(1 .. taken)
          /\ parsed \in Nat /\ taken \in Nat
      BY <1>13 DEF bodyEnds
    <3>2. parsed + 1 <= taken
      BY <2>1, <3>1 DEF InOrder
    <3>. HIDE StreamAssumption, Tables DEF Inv, TypeOK, OneReader, Hungry
    <3>. QED  BY <2>1, <3>1, <3>2
  <2>3. bodyLeft' \in BOOLEAN /\ panicked' \in BOOLEAN /\ inRead' \in BOOLEAN
    BY <1>13, Zenon DEF bodyEnds, startBackgroundRead
  <2>4. pos' \in Positions /\ deadline' \in {"none", "set", "expired", "past"}
    BY <1>13 DEF bodyEnds, startBackgroundRead
  <2>5. bg' \in [at : {"none", "read", "lock"}, unit : 0 .. taken, err : {"nil", "eof", "timeout"}]
    BY <1>13 DEF bodyEnds, startBackgroundRead
  <2>6. (inRead <=> (reading \/ bg.at # "none"))'
    BY <1>13, <2>1 DEF bodyEnds, startBackgroundRead
  <2>. QED  BY <1>13, <2>2, <2>3, <2>4, <2>5, <2>6 DEF bodyEnds, startBackgroundRead
<1>14. ASSUME bodySkipped PROVE TypeOK'
  BY <1>14 DEF bodySkipped
<1>15. ASSUME handlerEnds PROVE TypeOK'
  <2>1. noReuse' \in BOOLEAN
    BY <1>15, Zenon DEF handlerEnds
  <2>2. pos' \in Positions
    BY <1>15 DEF handlerEnds
  <2>. QED  BY <1>15, <2>1, <2>2 DEF handlerEnds
<1>16. ASSUME reuse PROVE TypeOK'
  BY <1>16 DEF reuse
<1>17. ASSUME notReused PROVE TypeOK'
  BY <1>17 DEF notReused
<1>18. ASSUME connClose PROVE TypeOK'
  BY <1>18 DEF connClose
<1>19. ASSUME hijacked PROVE TypeOK'
  BY <1>19 DEF hijacked
<1>20. ASSUME clientSends PROVE TypeOK'
  BY <1>20 DEF clientSends
<1>21. ASSUME clientCloses PROVE TypeOK'
  BY <1>21 DEF clientCloses
<1>22. ASSUME expires PROVE TypeOK'
  BY <1>22 DEF expires
<1>23. ASSUME serverCloses PROVE TypeOK'
  BY <1>23 DEF serverCloses
<1>24. CASE UNCHANGED vars
  BY <1>24 DEF vars
<1>. QED
  BY Zenon, [Next]_vars, <1>1, <1>2, <1>3, <1>4, <1>5, <1>6, <1>7, <1>8, <1>9, <1>10, <1>11,
     <1>12, <1>13, <1>14, <1>15, <1>16, <1>17, <1>18, <1>19, <1>20, <1>21, <1>22, <1>23, <1>24
     DEF Next, backgroundRead, serveRuns

\* A step never starts a second reader ("invalid concurrent Body.Read call").
LEMMA OneReaderStep == Inv /\ [Next]_vars => OneReader'
<1>. SUFFICES ASSUME Inv, [Next]_vars  PROVE OneReader'
  OBVIOUS
<1>. USE Tables DEF Inv, TypeOK, OneReader, BodyBeforeReuse, Positions, Hungry, NoRead, InOrder,
         netVars, readerVars, reqVars
<1>1. ASSUME bgReturns PROVE OneReader'
  BY <1>1 DEF bgReturns, CanRead, Available, ReadErrors, Available
<1>2. ASSUME bgFinish PROVE OneReader'
  BY <1>2 DEF bgFinish
<1>3. ASSUME abortPendingRead PROVE OneReader'
  BY <1>3 DEF abortPendingRead
<1>4. ASSUME abortReturns PROVE OneReader'
  BY <1>4 DEF abortReturns
<1>5. ASSUME readBegins PROVE OneReader'
  BY <1>5 DEF readBegins
<1>6. ASSUME readReturns PROVE OneReader'
  BY <1>6 DEF readReturns, CanRead, Available
<1>7. ASSUME readFails PROVE OneReader'
  BY <1>7 DEF readFails, ReadErrors, Available
<1>8. ASSUME bodyCutShort PROVE OneReader'
  BY <1>8 DEF bodyCutShort, ReadErrors, Available
<1>9. ASSUME peeked PROVE OneReader'
  BY <1>9 DEF peeked
<1>10. ASSUME readRequest PROVE OneReader'
  BY <1>10 DEF readRequest, startBackgroundRead, HasBody
<1>11. ASSUME badRequest PROVE OneReader'
  BY <1>11 DEF badRequest
<1>12. ASSUME handlerReads PROVE OneReader'
  BY <1>12 DEF handlerReads
<1>13. ASSUME bodyEnds PROVE OneReader'
  BY <1>13 DEF bodyEnds, startBackgroundRead, HasBody
<1>14. ASSUME bodySkipped PROVE OneReader'
  BY <1>14 DEF bodySkipped
<1>15. ASSUME handlerEnds PROVE OneReader'
  BY <1>15 DEF handlerEnds
<1>16. ASSUME reuse PROVE OneReader'
  BY <1>16 DEF reuse
<1>17. ASSUME notReused PROVE OneReader'
  BY <1>17 DEF notReused
<1>18. ASSUME connClose PROVE OneReader'
  BY <1>18 DEF connClose
<1>19. ASSUME hijacked PROVE OneReader'
  BY <1>19 DEF hijacked
<1>20. ASSUME clientSends PROVE OneReader'
  BY <1>20 DEF clientSends
<1>21. ASSUME clientCloses PROVE OneReader'
  BY <1>21 DEF clientCloses
<1>22. ASSUME expires PROVE OneReader'
  BY <1>22 DEF expires
<1>23. ASSUME serverCloses PROVE OneReader'
  BY <1>23 DEF serverCloses
<1>24. CASE UNCHANGED vars
  BY <1>24 DEF vars
<1>. QED
  BY Zenon, [Next]_vars, <1>1, <1>2, <1>3, <1>4, <1>5, <1>6, <1>7, <1>8, <1>9, <1>10, <1>11,
     <1>12, <1>13, <1>14, <1>15, <1>16, <1>17, <1>18, <1>19, <1>20, <1>21, <1>22, <1>23, <1>24
     DEF Next, backgroundRead, serveRuns

\* A step to the next request leaves no body unread.
LEMMA BodyBeforeReuseStep == Inv /\ [Next]_vars => BodyBeforeReuse'
<1>. SUFFICES ASSUME Inv, [Next]_vars  PROVE BodyBeforeReuse'
  OBVIOUS
<1>. USE Tables DEF Inv, TypeOK, OneReader, BodyBeforeReuse, Positions, Hungry, NoRead, netVars,
         readerVars, reqVars
<1>1. ASSUME bgReturns PROVE BodyBeforeReuse'
  BY <1>1 DEF bgReturns, CanRead, Available, ReadErrors, Available
<1>2. ASSUME bgFinish PROVE BodyBeforeReuse'
  BY <1>2 DEF bgFinish
<1>3. ASSUME abortPendingRead PROVE BodyBeforeReuse'
  BY <1>3 DEF abortPendingRead
<1>4. ASSUME abortReturns PROVE BodyBeforeReuse'
  BY <1>4 DEF abortReturns
<1>5. ASSUME readBegins PROVE BodyBeforeReuse'
  BY <1>5 DEF readBegins
<1>6. ASSUME readReturns PROVE BodyBeforeReuse'
  BY <1>6 DEF readReturns, CanRead, Available
<1>7. ASSUME readFails PROVE BodyBeforeReuse'
  BY <1>7 DEF readFails, ReadErrors, Available
<1>8. ASSUME bodyCutShort PROVE BodyBeforeReuse'
  BY <1>8 DEF bodyCutShort, ReadErrors, Available
<1>9. ASSUME peeked PROVE BodyBeforeReuse'
  BY <1>9 DEF peeked
<1>10. ASSUME readRequest PROVE BodyBeforeReuse'
  BY <1>10 DEF readRequest, startBackgroundRead, HasBody
<1>11. ASSUME badRequest PROVE BodyBeforeReuse'
  BY <1>11 DEF badRequest
<1>12. ASSUME handlerReads PROVE BodyBeforeReuse'
  BY <1>12 DEF handlerReads
<1>13. ASSUME bodyEnds PROVE BodyBeforeReuse'
  BY <1>13 DEF bodyEnds, startBackgroundRead, HasBody
<1>14. ASSUME bodySkipped PROVE BodyBeforeReuse'
  BY <1>14 DEF bodySkipped
<1>15. ASSUME handlerEnds PROVE BodyBeforeReuse'
  BY <1>15 DEF handlerEnds
<1>16. ASSUME reuse PROVE BodyBeforeReuse'
  BY <1>16 DEF reuse
<1>17. ASSUME notReused PROVE BodyBeforeReuse'
  BY <1>17 DEF notReused
<1>18. ASSUME connClose PROVE BodyBeforeReuse'
  BY <1>18 DEF connClose
<1>19. ASSUME hijacked PROVE BodyBeforeReuse'
  BY <1>19 DEF hijacked
<1>20. ASSUME clientSends PROVE BodyBeforeReuse'
  BY <1>20 DEF clientSends
<1>21. ASSUME clientCloses PROVE BodyBeforeReuse'
  BY <1>21 DEF clientCloses
<1>22. ASSUME expires PROVE BodyBeforeReuse'
  BY <1>22 DEF expires
<1>23. ASSUME serverCloses PROVE BodyBeforeReuse'
  BY <1>23 DEF serverCloses
<1>24. CASE UNCHANGED vars
  BY <1>24 DEF vars
<1>. QED
  BY Zenon, [Next]_vars, <1>1, <1>2, <1>3, <1>4, <1>5, <1>6, <1>7, <1>8, <1>9, <1>10, <1>11,
     <1>12, <1>13, <1>14, <1>15, <1>16, <1>17, <1>18, <1>19, <1>20, <1>21, <1>22, <1>23, <1>24
     DEF Next, backgroundRead, serveRuns

\* A step moves units from the conn to byteBuf and bufr in their order.
LEMMA InOrderStep == Inv /\ [Next]_vars => InOrder'
<1>. SUFFICES ASSUME Inv, [Next]_vars  PROVE InOrder'
  OBVIOUS
<1>. USE Tables DEF Inv, TypeOK, OneReader, InOrder, BodyBeforeReuse,Hungry, NoRead, netVars,
         readerVars, reqVars
<1>1. ASSUME bgReturns PROVE InOrder'
  BY <1>1 DEF bgReturns, CanRead, Available, ReadErrors, Available
<1>2. ASSUME bgFinish PROVE InOrder'
  BY <1>2 DEF bgFinish
<1>3. ASSUME abortPendingRead PROVE InOrder'
  BY <1>3 DEF abortPendingRead
<1>4. ASSUME abortReturns PROVE InOrder'
  BY <1>4 DEF abortReturns
<1>5. ASSUME readBegins PROVE InOrder'
  <2>1. CASE byteBuf # 0
    <3>1. buf' = Append(buf, byteBuf) /\ byteBuf' = 0
      BY <1>5, <2>1 DEF readBegins
    <3>2. bg.unit = 0 /\ Len(buf) + 1 = taken - parsed /\ byteBuf = taken
      BY <2>1
    <3>3. UNCHANGED <<bg, taken, parsed>>
      BY <1>5 DEF readBegins
    <3>4. buf \in Seq(1 .. taken) /\ parsed \in Nat /\ taken \in Nat /\ byteBuf \in 1 .. taken
      BY <2>1
    <3>5. \A i \in 1 .. Len(buf) : buf[i] = parsed + i
      OBVIOUS
    <3>. HIDE DEF Inv, TypeOK, OneReader, BodyBeforeReuse, Hungry, NoRead
    <3>6. /\ Len(buf') = Len(buf) + 1 /\ \A i \in 1 .. Len(buf) : buf'[i] = buf[i]
          /\ buf'[Len(buf) + 1] = byteBuf
      BY <3>1, <3>4, OneUnit
    <3>7. \A i \in 1 .. Len(buf') : buf'[i] = parsed + i
      <4>1. \A i \in 1 .. Len(buf) + 1 : i \in 1 .. Len(buf) \/ i = Len(buf) + 1
        BY <3>4
      <4>2. byteBuf = parsed + (Len(buf) + 1)
        BY <3>2, <3>4
      <4>. QED  BY <3>5, <3>6, <4>1, <4>2
    <3>. QED  BY <3>1, <3>2, <3>3, <3>6, <3>7
  <2>2. CASE byteBuf = 0
    BY <1>5, <2>2 DEF readBegins
  <2>. QED  BY <2>1, <2>2
<1>6. ASSUME readReturns PROVE InOrder'
  <2>1. PICK n \in 1 .. Available :
          /\ buf' = buf \o [i \in 1 .. n |-> taken + i]
          /\ taken' = taken + n
    BY <1>6, Zenon DEF readReturns
  <2>2. n \in Nat
    BY <2>1 DEF Available
  <2>3. byteBuf = 0 /\ bg.unit = 0 /\ Len(buf) = taken - parsed
    BY <1>6 DEF readReturns
  <2>4. UNCHANGED <<byteBuf, bg, parsed>>
    BY <1>6 DEF readReturns
  <2>5. buf \in Seq(1 .. taken) /\ Len(buf) \in Nat /\ taken \in Nat /\ parsed \in Nat
    OBVIOUS
  <2>6. \A i \in 1 .. Len(buf) : buf[i] = parsed + i
    OBVIOUS
  <2>. HIDE Tables DEF Inv, TypeOK, OneReader, InOrder, BodyBeforeReuse, Hungry, NoRead
  <2>7. /\ Len(buf') = Len(buf) + n
        /\ \A i \in 1 .. Len(buf) : buf'[i] = buf[i]
        /\ \A i \in Len(buf) + 1 .. Len(buf) + n : buf'[i] = taken + i - Len(buf)
    BY <2>1, <2>2, <2>5, NewUnits
  <2>8. \A i \in 1 .. Len(buf') : buf'[i] = parsed + i
    <3>1. \A i \in 1 .. Len(buf) + n : i \in 1 .. Len(buf) \/ i \in Len(buf) + 1 .. Len(buf) + n
      BY <2>2, <2>5
    <3>2. \A i \in Len(buf) + 1 .. Len(buf) + n : taken + i - Len(buf) = parsed + i
      BY <2>2, <2>3, <2>5
    <3>. QED  BY <2>6, <2>7, <3>1, <3>2
  <2>9. taken' = taken + n /\ Len(buf') = taken' - parsed'
    BY <2>1, <2>2, <2>3, <2>4, <2>5, <2>7
  <2>. QED  BY <2>3, <2>4, <2>8, <2>9 DEF InOrder
<1>7. ASSUME readFails PROVE InOrder'
  BY <1>7 DEF readFails, ReadErrors, Available
<1>8. ASSUME bodyCutShort PROVE InOrder'
  BY <1>8 DEF bodyCutShort, ReadErrors, Available
<1>9. ASSUME peeked PROVE InOrder'
  BY <1>9 DEF peeked
<1>10. ASSUME readRequest PROVE InOrder'
  <2>1. Len(buf) >= 2
    BY <1>10 DEF readRequest
  <2>2. buf' = SubSeq(buf, 3, Len(buf)) /\ parsed' = parsed + 2
    BY <1>10 DEF readRequest
  <2>3. bg'.unit = 0 /\ bg.unit = 0
    BY <1>10 DEF readRequest, startBackgroundRead
  <2>4. UNCHANGED <<byteBuf, taken>>
    BY <1>10 DEF readRequest, startBackgroundRead
  <2>5. buf \in Seq(1 .. taken) /\ Len(buf) \in Nat /\ taken \in Nat /\ parsed \in Nat
    OBVIOUS
  <2>8. InOrder /\ \A i \in 1 .. Len(buf) : buf[i] = parsed + i
    OBVIOUS
  <2>. HIDE Tables DEF InOrder, Inv, TypeOK, OneReader, BodyBeforeReuse, Hungry, NoRead
  <2>6. Len(buf') = Len(buf) - 2 /\ \A i \in 1 .. Len(buf) - 2 : buf'[i] = buf[i + 2]
    BY <2>1, <2>2, <2>5, HeadTaken
  <2>7. \A i \in 1 .. Len(buf') : buf'[i] = parsed' + i
    BY <2>1, <2>2, <2>5, <2>6, <2>8
  <2>. QED  BY <2>1, <2>2, <2>3, <2>4, <2>5, <2>6, <2>7, <2>8 DEF InOrder
<1>11. ASSUME badRequest PROVE InOrder'
  BY <1>11 DEF badRequest
<1>12. ASSUME handlerReads PROVE InOrder'
  BY <1>12 DEF handlerReads
<1>13. ASSUME bodyEnds PROVE InOrder'
  <2>1. buf # <<>> /\ buf' = Tail(buf) /\ parsed' = parsed + 1
    BY <1>13 DEF bodyEnds
  <2>2. Len(buf) >= 1 /\ Len(buf') = Len(buf) - 1 /\ \A i \in 1 .. Len(buf) - 1 : buf'[i] = buf[i + 1]
    BY <2>1
  <2>3. bg'.unit = 0 /\ bg.unit = 0
    BY <1>13 DEF bodyEnds, startBackgroundRead
  <2>4. UNCHANGED <<byteBuf, taken>>
    BY <1>13 DEF bodyEnds, startBackgroundRead
  <2>5. \A i \in 1 .. Len(buf') : buf'[i] = parsed' + i
    BY <2>1, <2>2
  <2>. QED  BY <2>1, <2>2, <2>3, <2>4, <2>5
<1>14. ASSUME bodySkipped PROVE InOrder'
  BY <1>14 DEF bodySkipped
<1>15. ASSUME handlerEnds PROVE InOrder'
  BY <1>15 DEF handlerEnds
<1>16. ASSUME reuse PROVE InOrder'
  BY <1>16 DEF reuse
<1>17. ASSUME notReused PROVE InOrder'
  BY <1>17 DEF notReused
<1>18. ASSUME connClose PROVE InOrder'
  BY <1>18 DEF connClose
<1>19. ASSUME hijacked PROVE InOrder'
  BY <1>19 DEF hijacked
<1>20. ASSUME clientSends PROVE InOrder'
  BY <1>20 DEF clientSends
<1>21. ASSUME clientCloses PROVE InOrder'
  BY <1>21 DEF clientCloses
<1>22. ASSUME expires PROVE InOrder'
  BY <1>22 DEF expires
<1>23. ASSUME serverCloses PROVE InOrder'
  BY <1>23 DEF serverCloses
<1>24. CASE UNCHANGED vars
  BY <1>24 DEF vars
<1>. QED
  BY Zenon, [Next]_vars, <1>1, <1>2, <1>3, <1>4, <1>5, <1>6, <1>7, <1>8, <1>9, <1>10, <1>11,
     <1>12, <1>13, <1>14, <1>15, <1>16, <1>17, <1>18, <1>19, <1>20, <1>21, <1>22, <1>23, <1>24
     DEF Next, backgroundRead, serveRuns

\* A step of the parser ends where a unit of its kind ends.
LEMMA AtBoundaryStep == Inv /\ [Next]_vars => AtBoundary'
<1>. SUFFICES ASSUME Inv, [Next]_vars  PROVE AtBoundary'
  OBVIOUS
<1>. USE StreamAssumption, Tables DEF Inv, TypeOK, OneReader, InOrder, BodyBeforeReuse,
         AtBoundary, InSync, Hungry, NoRead, HasBody, netVars, readerVars, reqVars
<1>1. ASSUME bgReturns PROVE AtBoundary'
  BY <1>1 DEF bgReturns, CanRead, Available, ReadErrors, Available
<1>2. ASSUME bgFinish PROVE AtBoundary'
  BY <1>2 DEF bgFinish
<1>3. ASSUME abortPendingRead PROVE AtBoundary'
  BY <1>3 DEF abortPendingRead
<1>4. ASSUME abortReturns PROVE AtBoundary'
  BY <1>4 DEF abortReturns
<1>5. ASSUME readBegins PROVE AtBoundary'
  BY <1>5 DEF readBegins
<1>6. ASSUME readReturns PROVE AtBoundary'
  BY <1>6 DEF readReturns, CanRead, Available
<1>7. ASSUME readFails PROVE AtBoundary'
  BY <1>7 DEF readFails, ReadErrors, Available
<1>8. ASSUME bodyCutShort PROVE AtBoundary'
  BY <1>8 DEF bodyCutShort, ReadErrors, Available
<1>9. ASSUME peeked PROVE AtBoundary'
  BY <1>9 DEF peeked
<1>10. ASSUME readRequest PROVE AtBoundary'
  <2>. HIDE DEF Inv, Hungry
  <2>1. Len(buf) >= 2 /\ buf[1] = parsed + 1 /\ buf[2] = parsed + 2
    BY <1>10, HeadInBuffer DEF readRequest
  <2>2. parsed + 2 <= taken /\ taken <= sent /\ sent <= Len(Stream)
    BY <1>10, HeadInBuffer DEF readRequest
  <2>. USE DEF Inv
  <2>3. Stream[parsed + 1] = "first"
    BY <1>10, <2>2 DEF readRequest
  <2>4. Stream[parsed + 2] = "rest"
    BY <2>2, <2>3 DEF Follows
  <2>5. parsed + 2 < Len(Stream) => Stream[parsed + 3] \in {"first", "body"}
    <3>1. parsed + 2 < Len(Stream) => Stream[parsed + 2 + 1] \in Follows[Stream[parsed + 2]]
      OBVIOUS
    <3>. QED  BY <3>1, <2>4 DEF Follows
  <2>6. head' = parsed + 1 /\ parsed' = parsed + 2 /\ (bodyLeft' <=> HasBody(parsed + 2))
    BY <1>10, <2>1 DEF readRequest
  <2>7. InSync'
    BY <2>3, <2>6
  <2>8. (bodyLeft => parsed < Len(Stream) /\ Stream[parsed + 1] = "body")'
    BY <2>6 DEF HasBody
  <2>9. (~bodyLeft => (parsed < Len(Stream) => Stream[parsed + 1] = "first"))'
    BY <2>5, <2>6 DEF HasBody
  <2>. QED  BY <2>7, <2>8, <2>9
<1>11. ASSUME badRequest PROVE AtBoundary'
  BY <1>11 DEF badRequest
<1>12. ASSUME handlerReads PROVE AtBoundary'
  BY <1>12 DEF handlerReads
<1>13. ASSUME bodyEnds PROVE AtBoundary'
  <2>1. parsed' = parsed + 1 /\ bodyLeft' = FALSE /\ head' = head
    BY <1>13 DEF bodyEnds
  <2>2. parsed < Len(Stream) /\ Stream[parsed + 1] = "body"
    BY <1>13 DEF bodyEnds
  <2>3. parsed + 1 < Len(Stream) => Stream[parsed + 1 + 1] \in Follows[Stream[parsed + 1]]
    <3>1. parsed + 1 \in Nat /\ Len(Stream) \in Nat
      OBVIOUS
    <3>2. parsed + 1 < Len(Stream) => parsed + 1 \in 1 .. Len(Stream) - 1
      BY <3>1
    <3>. QED  BY <3>2, Zenon
  <2>4. parsed + 1 < Len(Stream) => Stream[parsed + 1 + 1] = "first"
    BY <2>2, <2>3 DEF Follows
  <2>. QED  BY <2>1, <2>4
<1>14. ASSUME bodySkipped PROVE AtBoundary'
  BY <1>14 DEF bodySkipped
<1>15. ASSUME handlerEnds PROVE AtBoundary'
  BY <1>15 DEF handlerEnds
<1>16. ASSUME reuse PROVE AtBoundary'
  BY <1>16 DEF reuse
<1>17. ASSUME notReused PROVE AtBoundary'
  BY <1>17 DEF notReused
<1>18. ASSUME connClose PROVE AtBoundary'
  BY <1>18 DEF connClose
<1>19. ASSUME hijacked PROVE AtBoundary'
  BY <1>19 DEF hijacked
<1>20. ASSUME clientSends PROVE AtBoundary'
  BY <1>20 DEF clientSends
<1>21. ASSUME clientCloses PROVE AtBoundary'
  BY <1>21 DEF clientCloses
<1>22. ASSUME expires PROVE AtBoundary'
  BY <1>22 DEF expires
<1>23. ASSUME serverCloses PROVE AtBoundary'
  BY <1>23 DEF serverCloses
<1>24. CASE UNCHANGED vars
  BY <1>24 DEF vars
<1>. QED
  BY Zenon, [Next]_vars, <1>1, <1>2, <1>3, <1>4, <1>5, <1>6, <1>7, <1>8, <1>9, <1>10, <1>11,
     <1>12, <1>13, <1>14, <1>15, <1>16, <1>17, <1>18, <1>19, <1>20, <1>21, <1>22, <1>23, <1>24
     DEF Next, backgroundRead, serveRuns

\* A step leaves no trace of an aborted read once nobody waits for it.
LEMMA AbortPendingStep == Inv /\ [Next]_vars => AbortPending'
<1>. SUFFICES ASSUME Inv, [Next]_vars  PROVE AbortPending'
  OBVIOUS
<1>. USE Tables DEF Inv, TypeOK, OneReader, AbortPending, NoStaleAbort, Hungry, NoRead, netVars,
         readerVars, reqVars
<1>1. ASSUME bgReturns PROVE AbortPending'
  BY <1>1 DEF bgReturns, CanRead, Available, ReadErrors, Available
<1>2. ASSUME bgFinish PROVE AbortPending'
  BY <1>2 DEF bgFinish
<1>3. ASSUME abortPendingRead PROVE AbortPending'
  BY <1>3 DEF abortPendingRead
<1>4. ASSUME abortReturns PROVE AbortPending'
  BY <1>4 DEF abortReturns
<1>5. ASSUME readBegins PROVE AbortPending'
  BY <1>5 DEF readBegins
<1>6. ASSUME readReturns PROVE AbortPending'
  BY <1>6 DEF readReturns, CanRead, Available
<1>7. ASSUME readFails PROVE AbortPending'
  BY <1>7 DEF readFails, ReadErrors, Available
<1>8. ASSUME bodyCutShort PROVE AbortPending'
  BY <1>8 DEF bodyCutShort, ReadErrors, Available
<1>9. ASSUME peeked PROVE AbortPending'
  BY <1>9 DEF peeked
<1>10. ASSUME readRequest PROVE AbortPending'
  BY <1>10 DEF readRequest, startBackgroundRead, HasBody
<1>11. ASSUME badRequest PROVE AbortPending'
  BY <1>11 DEF badRequest
<1>12. ASSUME handlerReads PROVE AbortPending'
  BY <1>12 DEF handlerReads
<1>13. ASSUME bodyEnds PROVE AbortPending'
  BY <1>13 DEF bodyEnds, startBackgroundRead, HasBody
<1>14. ASSUME bodySkipped PROVE AbortPending'
  BY <1>14 DEF bodySkipped
<1>15. ASSUME handlerEnds PROVE AbortPending'
  BY <1>15 DEF handlerEnds
<1>16. ASSUME reuse PROVE AbortPending'
  BY <1>16 DEF reuse
<1>17. ASSUME notReused PROVE AbortPending'
  BY <1>17 DEF notReused
<1>18. ASSUME connClose PROVE AbortPending'
  BY <1>18 DEF connClose
<1>19. ASSUME hijacked PROVE AbortPending'
  BY <1>19 DEF hijacked
<1>20. ASSUME clientSends PROVE AbortPending'
  BY <1>20 DEF clientSends
<1>21. ASSUME clientCloses PROVE AbortPending'
  BY <1>21 DEF clientCloses
<1>22. ASSUME expires PROVE AbortPending'
  BY <1>22 DEF expires
<1>23. ASSUME serverCloses PROVE AbortPending'
  BY <1>23 DEF serverCloses
<1>24. CASE UNCHANGED vars
  BY <1>24 DEF vars
<1>. QED
  BY Zenon, [Next]_vars, <1>1, <1>2, <1>3, <1>4, <1>5, <1>6, <1>7, <1>8, <1>9, <1>10, <1>11,
     <1>12, <1>13, <1>14, <1>15, <1>16, <1>17, <1>18, <1>19, <1>20, <1>21, <1>22, <1>23, <1>24
     DEF Next, backgroundRead, serveRuns

\* A step ends the context only for a reason.
LEMMA ErrorsJustifiedStep == Inv /\ [Next]_vars => ErrorsJustified'
<1>. SUFFICES ASSUME Inv, [Next]_vars  PROVE ErrorsJustified'
  OBVIOUS
<1>. USE Tables DEF Inv, TypeOK, OneReader, AbortPending, NoStaleAbort, ErrorsJustified,
         ContextJustified, Hungry, NoRead, ReadErrors, Available, netVars, readerVars, reqVars
<1>1. ASSUME bgReturns PROVE ErrorsJustified'
  BY <1>1 DEF bgReturns, CanRead, Available, ReadErrors, Available
<1>2. ASSUME bgFinish PROVE ErrorsJustified'
  BY <1>2 DEF bgFinish
<1>3. ASSUME abortPendingRead PROVE ErrorsJustified'
  BY <1>3 DEF abortPendingRead
<1>4. ASSUME abortReturns PROVE ErrorsJustified'
  BY <1>4 DEF abortReturns
<1>5. ASSUME readBegins PROVE ErrorsJustified'
  BY <1>5 DEF readBegins
<1>6. ASSUME readReturns PROVE ErrorsJustified'
  BY <1>6 DEF readReturns, CanRead, Available
<1>7. ASSUME readFails PROVE ErrorsJustified'
  BY <1>7 DEF readFails, ReadErrors, Available
<1>8. ASSUME bodyCutShort PROVE ErrorsJustified'
  BY <1>8 DEF bodyCutShort, ReadErrors, Available
<1>9. ASSUME peeked PROVE ErrorsJustified'
  BY <1>9 DEF peeked
<1>10. ASSUME readRequest PROVE ErrorsJustified'
  BY <1>10 DEF readRequest, startBackgroundRead, HasBody
<1>11. ASSUME badRequest PROVE ErrorsJustified'
  BY <1>11 DEF badRequest
<1>12. ASSUME handlerReads PROVE ErrorsJustified'
  BY <1>12 DEF handlerReads
<1>13. ASSUME bodyEnds PROVE ErrorsJustified'
  BY <1>13 DEF bodyEnds, startBackgroundRead, HasBody
<1>14. ASSUME bodySkipped PROVE ErrorsJustified'
  BY <1>14 DEF bodySkipped
<1>15. ASSUME handlerEnds PROVE ErrorsJustified'
  BY <1>15 DEF handlerEnds
<1>16. ASSUME reuse PROVE ErrorsJustified'
  BY <1>16 DEF reuse
<1>17. ASSUME notReused PROVE ErrorsJustified'
  BY <1>17 DEF notReused
<1>18. ASSUME connClose PROVE ErrorsJustified'
  BY <1>18 DEF connClose
<1>19. ASSUME hijacked PROVE ErrorsJustified'
  BY <1>19 DEF hijacked
<1>20. ASSUME clientSends PROVE ErrorsJustified'
  BY <1>20 DEF clientSends
<1>21. ASSUME clientCloses PROVE ErrorsJustified'
  BY <1>21 DEF clientCloses
<1>22. ASSUME expires PROVE ErrorsJustified'
  BY <1>22 DEF expires
<1>23. ASSUME serverCloses PROVE ErrorsJustified'
  BY <1>23 DEF serverCloses
<1>24. CASE UNCHANGED vars
  BY <1>24 DEF vars
<1>. QED
  BY Zenon, [Next]_vars, <1>1, <1>2, <1>3, <1>4, <1>5, <1>6, <1>7, <1>8, <1>9, <1>10, <1>11,
     <1>12, <1>13, <1>14, <1>15, <1>16, <1>17, <1>18, <1>19, <1>20, <1>21, <1>22, <1>23, <1>24
     DEF Next, backgroundRead, serveRuns

\* Hijack hands over all that has been read, and nobody reads afterwards.
LEMMA HijackedIntactStep == Inv /\ [Next]_vars => HijackedIntact'
<1>. SUFFICES ASSUME Inv, [Next]_vars  PROVE HijackedIntact'
  OBVIOUS
<1>. USE Tables DEF Inv, TypeOK, OneReader, InOrder, HijackedIntact, Hungry, NoRead, netVars,
         readerVars, reqVars
<1>1. ASSUME bgReturns PROVE HijackedIntact'
  BY <1>1 DEF bgReturns, CanRead, Available, ReadErrors, Available
<1>2. ASSUME bgFinish PROVE HijackedIntact'
  BY <1>2 DEF bgFinish
<1>3. ASSUME abortPendingRead PROVE HijackedIntact'
  BY <1>3 DEF abortPendingRead
<1>4. ASSUME abortReturns PROVE HijackedIntact'
  BY <1>4 DEF abortReturns
<1>5. ASSUME readBegins PROVE HijackedIntact'
  BY <1>5 DEF readBegins
<1>6. ASSUME readReturns PROVE HijackedIntact'
  BY <1>6 DEF readReturns, CanRead, Available
<1>7. ASSUME readFails PROVE HijackedIntact'
  BY <1>7 DEF readFails, ReadErrors, Available
<1>8. ASSUME bodyCutShort PROVE HijackedIntact'
  BY <1>8 DEF bodyCutShort, ReadErrors, Available
<1>9. ASSUME peeked PROVE HijackedIntact'
  BY <1>9 DEF peeked
<1>10. ASSUME readRequest PROVE HijackedIntact'
  BY <1>10 DEF readRequest, startBackgroundRead, HasBody
<1>11. ASSUME badRequest PROVE HijackedIntact'
  BY <1>11 DEF badRequest
<1>12. ASSUME handlerReads PROVE HijackedIntact'
  BY <1>12 DEF handlerReads
<1>13. ASSUME bodyEnds PROVE HijackedIntact'
  BY <1>13 DEF bodyEnds, startBackgroundRead, HasBody
<1>14. ASSUME bodySkipped PROVE HijackedIntact'
  BY <1>14 DEF bodySkipped
<1>15. ASSUME handlerEnds PROVE HijackedIntact'
  BY <1>15 DEF handlerEnds
<1>16. ASSUME reuse PROVE HijackedIntact'
  BY <1>16 DEF reuse
<1>17. ASSUME notReused PROVE HijackedIntact'
  BY <1>17 DEF notReused
<1>18. ASSUME connClose PROVE HijackedIntact'
  BY <1>18 DEF connClose
<1>19. ASSUME hijacked PROVE HijackedIntact'
  <2>1. ~reading /\ bg.at = "none" /\ byteBuf = 0 /\ bg.unit = 0
    BY <1>19 DEF hijacked
  <2>2. Len(buf) = taken - parsed
    BY <2>1
  <2>3. buf = [i \in 1 .. taken - parsed |-> parsed + i]
    BY <2>2
  <2>. QED  BY <1>19, <2>1, <2>3 DEF hijacked
<1>20. ASSUME clientSends PROVE HijackedIntact'
  BY <1>20 DEF clientSends
<1>21. ASSUME clientCloses PROVE HijackedIntact'
  BY <1>21 DEF clientCloses
<1>22. ASSUME expires PROVE HijackedIntact'
  BY <1>22 DEF expires
<1>23. ASSUME serverCloses PROVE HijackedIntact'
  BY <1>23 DEF serverCloses
<1>24. CASE UNCHANGED vars
  BY <1>24 DEF vars
<1>. QED
  BY Zenon, [Next]_vars, <1>1, <1>2, <1>3, <1>4, <1>5, <1>6, <1>7, <1>8, <1>9, <1>10, <1>11,
     <1>12, <1>13, <1>14, <1>15, <1>16, <1>17, <1>18, <1>19, <1>20, <1>21, <1>22, <1>23, <1>24
     DEF Next, backgroundRead, serveRuns

\* The inductive invariant, InOrder read as a sequence.
LEMMA OrderedIsWhole == Inv => NothingLost
<1>. SUFFICES ASSUME Inv  PROVE NothingLost
  OBVIOUS
<1>. DEFINE one(u) == IF u = 0 THEN <<>> ELSE <<u>>
            all == [i \in 1 .. taken - parsed |-> parsed + i]
<1>1. /\ buf \in Seq(Nat) /\ Len(buf) \in Nat /\ taken \in Nat /\ parsed \in Nat /\ parsed <= taken
      /\ byteBuf \in Nat /\ bg.unit \in Nat
  BY StreamAssumption DEF Inv, TypeOK
<1>2. ~(byteBuf # 0 /\ bg.unit # 0)
  BY DEF Inv, OneReader
<1>3. /\ \A i \in 1 .. Len(buf) : buf[i] = parsed + i
      /\ byteBuf = 0 /\ bg.unit = 0 => Len(buf) = taken - parsed
      /\ byteBuf # 0 \/ bg.unit # 0 => Len(buf) + 1 = taken - parsed
      /\ byteBuf # 0 => byteBuf = taken
      /\ bg.unit # 0 => bg.unit = taken
  BY DEF Inv, InOrder
<1>4. all \in Seq(Nat) /\ Len(all) = taken - parsed /\ \A i \in 1 .. taken - parsed : all[i] = parsed + i
  BY <1>1
<1>5. CASE byteBuf = 0 /\ bg.unit = 0
  <2>1. buf \o one(byteBuf) \o one(bg.unit) = buf
    BY <1>1, <1>5
  <2>2. buf = all
    <3>. HIDE DEF all
    <3>. QED  BY <1>1, <1>3, <1>4, <1>5, SeqEqual
  <2>. QED  BY <2>1, <2>2 DEF NothingLost
<1>6. ASSUME NEW u \in Nat, u = taken, Len(buf) + 1 = taken - parsed
      PROVE  buf \o <<u>> = all
  <2>1. /\ buf \o <<u>> \in Seq(Nat) /\ Len(buf \o <<u>>) = Len(buf) + 1
        /\ \A i \in 1 .. Len(buf) : (buf \o <<u>>)[i] = buf[i]
        /\ (buf \o <<u>>)[Len(buf) + 1] = u
    BY <1>1
  <2>2. \A i \in 1 .. Len(buf) + 1 : i \in 1 .. Len(buf) \/ i = Len(buf) + 1
    BY <1>1
  <2>3. u = parsed + (Len(buf) + 1) /\ Len(all) = Len(buf) + 1
    BY <1>1, <1>4, <1>6
  <2>4. \A i \in 1 .. Len(buf) + 1 : all[i] = parsed + i
    BY <1>4, <1>6
  <2>. HIDE DEF all
  <2>5. \A i \in 1 .. Len(buf \o <<u>>) : (buf \o <<u>>)[i] = all[i]
    BY <1>3, <2>1, <2>2, <2>3, <2>4
  <2>. QED  BY <1>4, <2>1, <2>3, <2>5, SeqEqual
<1>7. CASE byteBuf # 0
  <2>1. buf \o one(byteBuf) \o one(bg.unit) = buf \o <<byteBuf>>
    BY <1>1, <1>2, <1>7
  <2>2. buf \o <<byteBuf>> = all
    BY <1>1, <1>3, <1>6, <1>7
  <2>. QED  BY <2>1, <2>2 DEF NothingLost
<1>8. CASE bg.unit # 0
  <2>1. buf \o one(byteBuf) \o one(bg.unit) = buf \o <<bg.unit>>
    <3>1. one(byteBuf) = <<>> /\ one(bg.unit) = <<bg.unit>>
      BY <1>1, <1>2, <1>8
    <3>2. buf \o <<>> = buf
      BY <1>1
    <3>. HIDE DEF one
    <3>. QED  BY <3>1, <3>2, Zenon
  <2>2. buf \o <<bg.unit>> = all
    BY <1>1, <1>3, <1>6, <1>8
  <2>. QED  BY <2>1, <2>2 DEF NothingLost
<1>. QED  BY <1>5, <1>7, <1>8

\* The inductive invariant holds in every state of every behaviour, whatever
\* the client sends, when it stops, and however the deadlines fall.
THEOREM Invariance == Spec => []Inv
<1>1. Init => Inv
  <2>. SUFFICES ASSUME Init  PROVE Inv
    OBVIOUS
  <2>1. Stream \in Seq({"first", "rest", "body"}) /\ Len(Stream) \in Nat
    BY StreamAssumption
  <2>2. TypeOK
    <3>1. <<>> \in Seq(1 .. 0) /\ 0 \in 0 .. 0 /\ 0 \in 0 .. Len(Stream)
      BY <2>1
    <3>2. NoRead \in [at : {"none", "read", "lock"}, unit : 0 .. 0, err : {"nil", "eof", "timeout"}]
      BY <3>1 DEF NoRead
    <3>3. NoRead.at = "none"
      BY DEF NoRead
    <3>4. "head" \in Positions
      BY DEF Positions
    <3>. QED  BY <3>1, <3>2, <3>3, <3>4 DEF Init, TypeOK
  <2>3. AtBoundary
    BY StreamAssumption DEF Init, AtBoundary, InSync
  <2>4. OneReader /\ BodyBeforeReuse /\ HijackedIntact
    BY DEF Init, OneReader, BodyBeforeReuse, HijackedIntact, NoRead
  <2>5. InOrder /\ AbortPending /\ ErrorsJustified
    BY DEF Init, InOrder, AbortPending, NoStaleAbort, ErrorsJustified, ContextJustified, NoRead
  <2>. QED  BY <2>2, <2>3, <2>4, <2>5, Zenon DEF Inv
<1>2. Inv /\ [Next]_vars => Inv'
  BY TypeOKStep, OneReaderStep, BodyBeforeReuseStep, InOrderStep, AtBoundaryStep, AbortPendingStep,
     ErrorsJustifiedStep, HijackedIntactStep, Zenon DEF Inv
<1>. QED  BY <1>1, <1>2, PTL DEF Spec

\* conn.serve, a handler and the background read never read at once.
THEOREM NoReadPanicHolds == Spec => []NoReadPanic
<1>1. Inv => NoReadPanic
  BY DEF Inv, OneReader, NoReadPanic
<1>. QED  BY <1>1, Invariance, PTL

\* No unit is lost, duplicated or reordered between the background read and
\* whoever reads next, requests start where requests start, and Hijack hands
\* over everything.
THEOREM StreamIntactHolds == Spec => []StreamIntact
<1>1. Inv => StreamIntact
  BY OrderedIsWhole, Zenon DEF Inv, AtBoundary, StreamIntact
<1>. QED  BY <1>1, Invariance, PTL

\* abortPendingRead leaves no deadline and no flag behind, and never ends a
\* context.
THEOREM AbortsForgottenHolds == Spec => []AbortsForgotten
<1>1. Inv => AbortsForgotten
  BY DEF Inv, AbortPending, ErrorsJustified, AbortsForgotten
<1>. QED  BY <1>1, Invariance, PTL
=============================================================================
