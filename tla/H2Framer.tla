------------------------------ MODULE H2Framer ------------------------------
(***************************************************************************)
(* The HTTP/2 Framer of h2_bundle.go: what its Write methods put on the    *)
(* wire and what ReadFrame makes of the bytes, with the gathering of a     *)
(* header block from HEADERS and CONTINUATION frames.                      *)
(*                                                                         *)
(* A byte has Base values instead of 256, everything else follows: 16, 24  *)
(* and 32 bit numbers are two, three and four bytes.  HPACK is external: a *)
(* field is one byte of a header block.                                    *)
(***************************************************************************)
EXTENDS Integers, Sequences, FiniteSets, SequencesExt
CONSTANTS Base, MaxFrameSize

High == Base ^ 4 \div 2
uint32(v) == <<v \div Base ^ 3, (v \div Base ^ 2) % Base, (v \div Base) % Base, v % Base>>
Uint32(p) == ((p[1] * Base + p[2]) * Base + p[3]) * Base + p[4]
drop(p, n) == SubSeq(p, n + 1, Len(p))

EndStream == "0x1"
Ack == "0x1"
EndHeaders == "0x4"
Padded == "0x8"
Priority == "0x20"
flag(b, f) == IF b THEN {f} ELSE {}

NoFrame == [type |-> "none", flags |-> {}, stream |-> 0, x |-> <<>>]
ok(f) == [err |-> "nil", id |-> 0, frame |-> f]
connError(code) == [err |-> code, id |-> 0, frame |-> NoFrame]
streamError(id) == [err |-> "stream", id |-> id, frame |-> NoFrame]
ErrUnexpectedEOF == connError("eof")
parsed(raw, x) == ok([type |-> raw.type, flags |-> raw.flags, stream |-> raw.stream % High, x |-> x])

------------------------------------------------------------------------------
(* The parsers of the frame types, on a frame [type, flags, stream, p] *)

parseDataFrame(raw) ==
  LET pad == Padded \in raw.flags
      n == Len(raw.p) - 1 - raw.p[1]
  IN IF raw.stream % High = 0 THEN connError("protocol")
     ELSE IF pad /\ raw.p = <<>> THEN ErrUnexpectedEOF
     ELSE IF pad /\ n < 0 THEN connError("protocol")
     ELSE parsed(raw, [data |-> IF pad THEN SubSeq(raw.p, 2, n + 1) ELSE raw.p])

Setting(p, i) == [ID |-> p[6 * i + 1] * Base + p[6 * i + 2], Val |-> Uint32(drop(p, 6 * i + 2))]
NumSettings(p) == Len(p) \div 6
\* The first setting with the identifier; InitialWindowSize is 4.
Value(p, id) ==
  LET at == {i \in 0 .. NumSettings(p) - 1 : Setting(p, i).ID = id}
  IN IF at = {} THEN 0 ELSE Setting(p, CHOOSE i \in at : \A j \in at : i <= j).Val

parseSettingsFrame(raw) ==
  IF Ack \in raw.flags /\ raw.p # <<>> THEN connError("frameSize")
  ELSE IF raw.stream % High # 0 THEN connError("protocol")
  ELSE IF Len(raw.p) % 6 # 0 THEN connError("frameSize")
  ELSE IF Value(raw.p, 4) > High - 1 THEN connError("flowControl")
  ELSE parsed(raw, [settings |-> [i \in 1 .. NumSettings(raw.p) |-> Setting(raw.p, i - 1)]])

parsePingFrame(raw) ==
  IF Len(raw.p) # 8 THEN connError("frameSize")
  ELSE IF raw.stream % High # 0 THEN connError("protocol")
  ELSE parsed(raw, [data |-> raw.p])

parseGoAwayFrame(raw) ==
  IF raw.stream % High # 0 THEN connError("protocol")
  ELSE IF Len(raw.p) < 8 THEN connError("frameSize")
  ELSE parsed(raw, [last |-> Uint32(raw.p) % High, code |-> Uint32(drop(raw.p, 4)), debug |-> drop(raw.p, 8)])

parseWindowUpdateFrame(raw) ==
  LET inc == Uint32(raw.p) % High
  IN IF Len(raw.p) # 4 THEN connError("frameSize")
     ELSE IF inc = 0 THEN IF raw.stream % High = 0 THEN connError("protocol") ELSE streamError(raw.stream % High)
     ELSE parsed(raw, [inc |-> inc])

\* The dependency of a PRIORITY frame, or of a HEADERS frame with that flag.
NoPriority == [dep |-> 0, exclusive |-> FALSE, weight |-> 0]
priority(p) == [dep |-> Uint32(p) % High, exclusive |-> Uint32(p) >= High, weight |-> p[5]]

parseHeadersFrame(raw) ==
  LET pad == Padded \in raw.flags
      prio == Priority \in raw.flags
      q == IF pad THEN Tail(raw.p) ELSE raw.p
      r == IF prio THEN drop(q, 5) ELSE q
      padLength == IF pad THEN raw.p[1] ELSE 0
  IN IF raw.stream % High = 0 THEN connError("protocol")
     ELSE IF pad /\ raw.p = <<>> THEN ErrUnexpectedEOF
     ELSE IF prio /\ Len(q) < 5 THEN ErrUnexpectedEOF
     ELSE IF Len(r) < padLength THEN streamError(raw.stream % High)
     ELSE parsed(raw, [priority |-> IF prio THEN priority(q) ELSE NoPriority, frag |-> SubSeq(r, 1, Len(r) - padLength)])

parsePriorityFrame(raw) ==
  IF raw.stream % High = 0 THEN connError("protocol")
  ELSE IF Len(raw.p) # 5 THEN connError("frameSize")
  ELSE parsed(raw, priority(raw.p))

parseRSTStreamFrame(raw) ==
  IF Len(raw.p) # 4 THEN connError("frameSize")
  ELSE IF raw.stream % High = 0 THEN connError("protocol")
  ELSE parsed(raw, [code |-> Uint32(raw.p)])

parseContinuationFrame(raw) ==
  IF raw.stream % High = 0 THEN connError("protocol") ELSE parsed(raw, [frag |-> raw.p])

parsePushPromise(raw) ==
  LET pad == Padded \in raw.flags
      q == IF pad THEN Tail(raw.p) ELSE raw.p
      r == drop(q, 4)
      padLength == IF pad THEN raw.p[1] ELSE 0
  IN IF raw.stream % High = 0 THEN connError("protocol")
     ELSE IF pad /\ raw.p = <<>> THEN ErrUnexpectedEOF
     ELSE IF Len(q) < 4 THEN ErrUnexpectedEOF
     ELSE IF padLength > Len(r) THEN connError("protocol")
     ELSE parsed(raw, [promise |-> Uint32(q) % High, frag |-> SubSeq(r, 1, Len(r) - padLength)])

typeFrameParser(raw) ==
  CASE raw.type = "DATA" -> parseDataFrame(raw)
    [] raw.type = "HEADERS" -> parseHeadersFrame(raw)
    [] raw.type = "PRIORITY" -> parsePriorityFrame(raw)
    [] raw.type = "RST_STREAM" -> parseRSTStreamFrame(raw)
    [] raw.type = "SETTINGS" -> parseSettingsFrame(raw)
    [] raw.type = "PUSH_PROMISE" -> parsePushPromise(raw)
    [] raw.type = "PING" -> parsePingFrame(raw)
    [] raw.type = "GOAWAY" -> parseGoAwayFrame(raw)
    [] raw.type = "WINDOW_UPDATE" -> parseWindowUpdateFrame(raw)
    [] raw.type = "CONTINUATION" -> parseContinuationFrame(raw)
    [] OTHER -> parsed(raw, [payload |-> raw.p])

------------------------------------------------------------------------------
(* The Write methods: a frame on the wire, or an error *)

validStreamIDOrZero(id) == id < High
validStreamID(id) == id # 0 /\ id < High
NoWire == [type |-> "none", flags |-> {}, stream |-> 0, p |-> <<>>]
refuse == [sent |-> FALSE, raw |-> NoWire]
endWrite(type, flags, id, p) ==
  IF Len(p) >= Base ^ 3 THEN refuse
  ELSE [sent |-> TRUE, raw |-> [type |-> type, flags |-> flags, stream |-> id, p |-> p]]
zeros(n) == [i \in 1 .. n |-> 0]

\* pad is a sequence of padding bytes, hasPad whether it is a non-nil slice.
WriteDataPadded(c) ==
  IF \/ ~validStreamID(c.id) \/ Len(c.pad) > Base - 1
     \/ \E i \in DOMAIN c.pad : c.pad[i] # 0
  THEN refuse
  ELSE endWrite("DATA", flag(c.end, EndStream) \cup flag(c.hasPad, Padded), c.id,
                (IF c.hasPad THEN <<Len(c.pad)>> ELSE <<>>) \o c.data \o c.pad)

WriteSettings(c) ==
  endWrite("SETTINGS", flag(c.ack, Ack), 0,
           FlattenSeq([i \in DOMAIN c.settings |-> <<c.settings[i].ID \div Base, c.settings[i].ID % Base>> \o uint32(c.settings[i].Val)]))
WritePing(c) == endWrite("PING", flag(c.ack, Ack), 0, c.data)
WriteGoAway(c) == endWrite("GOAWAY", {}, 0, uint32(c.last % High) \o uint32(c.code) \o c.debug)
WriteWindowUpdate(c) ==
  IF c.inc < 1 \/ c.inc > High - 1 THEN refuse ELSE endWrite("WINDOW_UPDATE", {}, c.id, uint32(c.inc))

wirePriority(q) == uint32(q.dep + (IF q.exclusive THEN High ELSE 0)) \o <<q.weight>>
WriteHeaders(c) ==
  LET prio == c.priority # NoPriority
  IN IF ~validStreamID(c.id) \/ (prio /\ ~validStreamIDOrZero(c.priority.dep)) THEN refuse
     ELSE endWrite("HEADERS",
                   flag(c.pad # 0, Padded) \cup flag(c.end, EndStream) \cup flag(c.endHeaders, EndHeaders) \cup flag(prio, Priority),
                   c.id,
                   (IF c.pad # 0 THEN <<c.pad>> ELSE <<>>) \o (IF prio THEN wirePriority(c.priority) ELSE <<>>)
                     \o c.frag \o zeros(c.pad))
WritePriority(c) ==
  IF ~validStreamID(c.id) \/ ~validStreamIDOrZero(c.priority.dep) THEN refuse
  ELSE endWrite("PRIORITY", {}, c.id, wirePriority(c.priority))
WriteRSTStream(c) == IF ~validStreamID(c.id) THEN refuse ELSE endWrite("RST_STREAM", {}, c.id, uint32(c.code))
WriteContinuation(c) ==
  IF ~validStreamID(c.id) THEN refuse ELSE endWrite("CONTINUATION", flag(c.endHeaders, EndHeaders), c.id, c.frag)
WritePushPromise(c) ==
  IF ~validStreamID(c.id) \/ ~validStreamID(c.promise) THEN refuse
  ELSE endWrite("PUSH_PROMISE", flag(c.pad # 0, Padded) \cup flag(c.endHeaders, EndHeaders), c.id,
                (IF c.pad # 0 THEN <<c.pad>> ELSE <<>>) \o uint32(c.promise) \o c.frag \o zeros(c.pad))

------------------------------------------------------------------------------
(* Header blocks.  HPACK is external: each byte of a block is a field.       *)

isPseudo(b) == b < 4
name(b) == CASE b = 0 -> ":method" [] b = 1 -> ":path" [] b = 2 -> ":status" [] b = 3 -> ":other" [] OTHER -> "regular"
validWireHeaderFieldName(b) == b # 5
ValidHeaderFieldValue(b) == b # 6
Broken(b) == b = 7
Size(b) == 1

\* encodeHeaders: what is not valid is left out.
encodeHeaders(fields) == SelectSeq(fields, LAMBDA b : validWireHeaderFieldName(b) /\ ValidHeaderFieldValue(b))

\* splitHeaderBlock: fragments of at most MaxFrameSize bytes, none of no bytes.
splitWhole(block) ==
  [i \in 1 .. Len(block) \div MaxFrameSize |-> SubSeq(block, (i - 1) * MaxFrameSize + 1, i * MaxFrameSize)]
splitHeaderBlock(block) ==
  [i \in 1 .. (Len(block) + MaxFrameSize - 1) \div MaxFrameSize |->
     SubSeq(block, (i - 1) * MaxFrameSize + 1, IF i * MaxFrameSize < Len(block) THEN i * MaxFrameSize ELSE Len(block))]

\* writeResHeaders.writeFrame with writeHeaderBlock for each fragment.
writeResHeaders(id, end, fields) ==
  LET frags == splitHeaderBlock(encodeHeaders(fields))
      write(i) == IF i = 1 THEN WriteHeaders([id |-> id, end |-> end, endHeaders |-> i = Len(frags), pad |-> 0,
                                              priority |-> NoPriority, frag |-> frags[i]])
                  ELSE WriteContinuation([id |-> id, endHeaders |-> i = Len(frags), frag |-> frags[i]])
  IN [i \in DOMAIN frags |-> write(i).raw]

\* The framer that reads: lastHeaderStream, the block that readMetaFrame has
\* begun, what the HPACK decoder was given, what the caller got, and whether
\* an error was terminal.
NoBlock == [on |-> FALSE, head |-> NoFrame, fields |-> <<>>, remain |-> 0, sawRegular |-> FALSE,
            invalid |-> FALSE, emit |-> FALSE, truncated |-> FALSE]
NewFramer == [lastHeaderStream |-> 0, block |-> NoBlock, fed |-> <<>>, out |-> <<>>, dead |-> FALSE]

\* The emit function: the decoder calls it while it is enabled.
emit(m, b) ==
  LET bad == \/ ~ValidHeaderFieldValue(b)
             \/ isPseudo(b) /\ m.sawRegular
             \/ ~isPseudo(b) /\ ~validWireHeaderFieldName(b)
      seen == m.sawRegular \/ ~isPseudo(b)
  IN IF ~m.emit THEN m
     ELSE IF bad THEN [m EXCEPT !.invalid = TRUE, !.emit = FALSE, !.sawRegular = seen]
     ELSE IF Size(b) > m.remain
          THEN [m EXCEPT !.truncated = TRUE, !.emit = FALSE, !.remain = 0, !.sawRegular = seen]
          ELSE [m EXCEPT !.fields = Append(@, b), !.remain = @ - Size(b), !.sawRegular = seen]

PseudoFields(fields) ==
  LET i == SelectInSeq(fields, LAMBDA b : ~isPseudo(b)) IN IF i = 0 THEN fields ELSE SubSeq(fields, 1, i - 1)
checkPseudos(fields) ==
  LET pf == PseudoFields(fields)
      names == {name(pf[i]) : i \in DOMAIN pf}
  IN /\ ":other" \notin names
     /\ Cardinality(names) = Len(pf)
     /\ ":status" \in names => names = {":status"}

terminal(fr) == [fr EXCEPT !.dead = TRUE]
\* A stream error: readMetaFrame, if it was the caller, gives its block up.
failed(fr) == [fr EXCEPT !.block = NoBlock]
deliver(fr, f) == [fr EXCEPT !.block = NoBlock, !.out = Append(@, f)]
MetaHeaders(m) == [m.head EXCEPT !.x = [fields |-> m.fields, truncated |-> m.truncated]]

\* One turn of readMetaFrame's loop, on the fragment of f.
readMetaFrame(fr, m, f) ==
  LET frag == f.x.frag
      next == [FoldLeft(emit, m, frag) EXCEPT !.on = TRUE]
      fed == [fr EXCEPT !.fed = @ \o frag]
  IN IF \/ Len(frag) > (2 * m.remain) % Base ^ 4
        \/ m.invalid
        \/ \E i \in DOMAIN frag : Broken(frag[i])
     THEN terminal(fr)
     ELSE IF EndHeaders \notin f.flags THEN [fed EXCEPT !.block = next]
     ELSE IF next.invalid \/ ~checkPseudos(next.fields) THEN failed(fed)
     ELSE deliver(fed, MetaHeaders(next))

\* Mutant: CONTINUATION of any stream will do.
outOfOrderAnyStream(fr, f) ==
  IF fr.lastHeaderStream # 0 THEN f.type # "CONTINUATION" ELSE f.type = "CONTINUATION"
\* checkFrameOrder: CONTINUATION follows HEADERS, and nothing else does.
outOfOrder(fr, f) ==
  IF fr.lastHeaderStream # 0 THEN f.type # "CONTINUATION" \/ f.stream # fr.lastHeaderStream ELSE f.type = "CONTINUATION"
ordered(fr, f) ==
  IF f.type \in {"HEADERS", "CONTINUATION"}
  THEN [fr EXCEPT !.lastHeaderStream = IF EndHeaders \in f.flags THEN 0 ELSE f.stream]
  ELSE fr

ReadFrame(fr, raw, maxReadSize, maxHeaderListSize) ==
  LET r == typeFrameParser(raw)
      f == r.frame
      next == ordered(fr, f)
  IN IF Len(raw.p) > maxReadSize THEN terminal(fr)
     ELSE IF r.err = "stream" THEN failed(fr)
     ELSE IF r.err # "nil" \/ outOfOrder(fr, f) THEN terminal(fr)
     ELSE IF f.type = "HEADERS"
          THEN readMetaFrame(next, [NoBlock EXCEPT !.head = f, !.emit = TRUE, !.remain = maxHeaderListSize], f)
     ELSE IF fr.block.on THEN readMetaFrame(next, fr.block, f)
     ELSE deliver(next, f)

------------------------------------------------------------------------------
(* What writer and reader promise each other *)

write(c) ==
  CASE c.op = "DATA" -> WriteDataPadded(c) [] c.op = "HEADERS" -> WriteHeaders(c)
    [] c.op = "PRIORITY" -> WritePriority(c) [] c.op = "RST_STREAM" -> WriteRSTStream(c)
    [] c.op = "SETTINGS" -> WriteSettings(c) [] c.op = "PUSH_PROMISE" -> WritePushPromise(c)
    [] c.op = "PING" -> WritePing(c) [] c.op = "GOAWAY" -> WriteGoAway(c)
    [] c.op = "WINDOW_UPDATE" -> WriteWindowUpdate(c) [] c.op = "CONTINUATION" -> WriteContinuation(c)
meant(c) ==
  CASE c.op \in {"DATA", "PING"} -> [data |-> c.data]
    [] c.op = "HEADERS" -> [priority |-> c.priority, frag |-> c.frag]
    [] c.op = "PRIORITY" -> c.priority
    [] c.op = "RST_STREAM" -> [code |-> c.code]
    [] c.op = "SETTINGS" -> [settings |-> c.settings]
    [] c.op = "PUSH_PROMISE" -> [promise |-> c.promise, frag |-> c.frag]
    [] c.op = "GOAWAY" -> [last |-> c.last, code |-> c.code, debug |-> c.debug]
    [] c.op = "WINDOW_UPDATE" -> [inc |-> c.inc]
    [] c.op = "CONTINUATION" -> [frag |-> c.frag]

\* Every frame that a Write method sends is read back as what was meant; what
\* it refuses could not have been.
WriteClaim(c) ==
  LET w == write(c)
      r == typeFrameParser(w.raw)
  IN /\ w.sent => /\ r.err = "nil" /\ r.frame.type = c.op /\ r.frame.x = meant(c)
                  /\ "id" \in DOMAIN c => r.frame.stream = c.id
                  /\ "end" \in DOMAIN c => (c.end <=> EndStream \in r.frame.flags)
                  /\ "ack" \in DOMAIN c => (c.ack <=> Ack \in r.frame.flags)
                  /\ "endHeaders" \in DOMAIN c => (c.endHeaders <=> EndHeaders \in r.frame.flags)
     /\ ~w.sent => \/ "id" \in DOMAIN c /\ ~validStreamID(c.id)
                   \/ c.op = "DATA" /\ (Len(c.pad) >= Base \/ \E i \in DOMAIN c.pad : c.pad[i] # 0)
                   \/ c.op = "WINDOW_UPDATE" /\ c.inc \notin 1 .. High - 1
                   \/ c.op \in {"PRIORITY", "HEADERS"} /\ c.priority.dep >= High
                   \/ c.op = "PUSH_PROMISE" /\ ~validStreamID(c.promise)

\* A header block, however long, is read back as one HEADERS frame with the
\* valid ones of its fields and the end of the stream, if there is any field.
BlockClaim(id, end, fields, limit) ==
  LET raws == writeResHeaders(id, end, fields)
      fr == FoldLeft(LAMBDA f, raw : ReadFrame(f, raw, MaxFrameSize, limit), NewFramer, raws)
  IN /\ \A i \in DOMAIN raws : Len(raws[i].p) <= MaxFrameSize
     /\ raws # <<>> /\ Len(encodeHeaders(fields)) <= limit =>
          /\ ~fr.dead /\ Len(fr.out) = 1
          /\ fr.out[1].x = [fields |-> encodeHeaders(fields), truncated |-> FALSE]
          /\ fr.out[1].stream = id /\ (end <=> EndStream \in fr.out[1].flags)

\* A peer's frames: the fields of HEADERS are those of one block, all of them
\* unless it was truncated, with no invalid one; and while the framer goes on
\* the decoder was given every fragment, in order, unless a frame on the way
\* was answered with a stream error before its place was looked at.
fragments(raws) == FlattenSeq([i \in DOMAIN raws |-> IF raws[i].type \in {"HEADERS", "CONTINUATION"} THEN raws[i].p ELSE <<>>])
ReadClaim(fr, raws, limit) ==
  LET isBlock(i, j) == /\ raws[i].type = "HEADERS" /\ EndHeaders \in raws[j].flags
                       /\ \A k \in i + 1 .. j : raws[k].type = "CONTINUATION" /\ raws[k].stream = raws[i].stream
                       /\ \A k \in i .. j - 1 : EndHeaders \notin raws[k].flags
      blocks == {fragments(SubSeq(raws, b[1], b[2])) : b \in {c \in (DOMAIN raws) \X (DOMAIN raws) : c[1] <= c[2] /\ isBlock(c[1], c[2])}}
      whole(f) == \E b \in blocks : IF f.x.truncated THEN Len(f.x.fields) = limit /\ IsStrictPrefix(f.x.fields, b) ELSE f.x.fields = b
      interrupted == \E i \in DOMAIN raws : typeFrameParser(raws[i]).err = "stream"
  IN /\ \A i \in DOMAIN fr.out : LET f == fr.out[i] IN
          /\ f.type = "HEADERS" => whole(f) /\ encodeHeaders(f.x.fields) = f.x.fields /\ checkPseudos(f.x.fields)
          /\ f.type = "CONTINUATION" => interrupted
     /\ ~fr.dead => fr.fed = fragments(raws) \/ interrupted
==============================================================================
