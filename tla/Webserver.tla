----------------------------- MODULE Webserver -----------------------------
(***************************************************************************)
(* dtn_webserver.c with dtn_websocket_pointer.c: a connection that starts   *)
(* with HTTP and goes over to frames of WebSocket.  The bytes of a client   *)
(* come in reads of any size; what is left of a read is kept.               *)
(* A byte of a frame is scaled: a length has one bit beside the one of the  *)
(* mask and a digit of a longer length has three, so that 125, 126 and 127  *)
(* of the code are 1, 2 and 3, and 0xffff is 63.                            *)
(***************************************************************************)
EXTENDS Http, Bitwise

CONSTANTS
    Chunk1000,  \* how much of a text dtn_webserver_send puts into a frame
    MaxRead,    \* bytes of a read, if it is not all there is
    ServedUris  \* the files that can be read, and are not empty

VARIABLES
    flight,     \* what the client sends, and what it should show: [type, wire, gate, items, sound]
    sofar,      \* how much of it has come in
    conn        \* [type, open, dangling, buffer, queue, last, shown]

vars == <<flight, sofar, conn>>

-----------------------------------------------------------------------------
\* Frames.
Continuation == 0
Text == 1
Close == 8
Ping == 9
Pong == 10
Opcodes == {Continuation, Text, 2, Close, Ping, Pong}
Fin == 16
MaskBit == 4
Base == 8
Marker16 == 2
Marker64 == 3
HalfLimit == Base * Base    \* 0x10000

ByteAt(s, i) == IF i \in DOMAIN s THEN s[i] ELSE 0
NumberOf(digits) == FoldLeft(LAMBDA n, d : Base * n + d, 0, digits)
DigitsOf(n, width) == [i \in 1 .. width |-> (n \div Base ^ (width - i)) % Base]

\* Where the content begins and how long it is.
ContentOf(s) ==
    LET field == s[2] % MaskBit
        half == NumberOf(SubSeq(s, 3, 4))
        long == NumberOf(SubSeq(s, 3, 10))
    IN CASE field < Marker16 -> [state |-> "success", start |-> 3, length |-> field]
         [] field = Marker16 -> IF Len(s) < 4 THEN Progress
                                ELSE IF half < Marker16 - 1 THEN Error
                                ELSE [state |-> "success", start |-> 5, length |-> half]
         [] field = Marker64 -> IF ByteAt(s, 3) >= Base \div 2 THEN Error
                                ELSE IF Len(s) < 10 THEN Progress
                                ELSE IF long < HalfLimit THEN Error
                                ELSE [state |-> "success", start |-> 11, length |-> long]

Received(s, c, masked) ==
    LET start == IF masked THEN c.start + 4 ELSE c.start
    IN IF masked /\ c.length = 0 THEN Error
       ELSE IF Len(s) < start - 1 + c.length THEN Progress
       ELSE [state |-> "success", next |-> start + c.length,
             mask |-> IF masked THEN SubSeq(s, c.start, c.start + 3) ELSE <<>>,
             content |-> SubSeq(s, start, start + c.length - 1)]

LengthAndMask(s, c) == IF c.state = "success" THEN Received(s, c, s[2] >= MaskBit) ELSE c
ParsePayloadLength(s) == IF Len(s) < 2 THEN Progress ELSE LengthAndMask(s, ContentOf(s))

FragmentationState(first) ==
    CASE first >= Fin /\ first % Fin # 0 -> "none"
      [] first >= Fin /\ first % Fin = 0 -> "last"
      [] first < Fin /\ first # 0        -> "start"
      [] first = 0                       -> "continue"

FrameAt(s, p) ==
    IF p.state # "success" THEN p
    ELSE IF s[1] % Fin \notin Opcodes THEN Error
    ELSE [state |-> "success", next |-> p.next,
          frame |-> [opcode |-> s[1] % Fin, part |-> FragmentationState(s[1]), mask |-> p.mask, content |-> p.content]]
ParseFrame(s) == IF s = <<>> THEN Error ELSE FrameAt(s, ParsePayloadLength(s))

TakenOff(s, f) ==
    IF f.state = "success"
    THEN [state |-> "success", frame |-> f.frame, buffer |-> SubSeq(s, f.next, Len(s))]
    ELSE [state |-> f.state, buffer |-> s]
FramePop(s) == TakenOff(s, ParseFrame(s))

MaskData(data, mask) == [i \in DOMAIN data |-> data[i] ^^ mask[((i - 1) % 4) + 1]]
Unmasked(frame) == IF frame.mask = <<>> THEN frame.content ELSE MaskData(frame.content, frame.mask)

\* The bytes of a frame with its first byte as it is; they are parsed again at
\* the end, and have to be a frame.
LengthBytes(n, masked) ==
    LET bit == IF masked THEN MaskBit ELSE 0
    IN CASE n < Marker16                         -> <<bit + n>>
         [] n >= Marker16 /\ n < HalfLimit - 1 -> <<bit + Marker16>> \o DigitsOf(n, 2)
         [] OTHER                                -> <<bit + Marker64>> \o DigitsOf(n, 8)

NoFrame == <<>>
IfFrame(bytes) == IF ParseFrame(bytes).state = "success" THEN bytes ELSE NoFrame
SetData(first, data, mask) ==
    IfFrame(<<first>> \o LengthBytes(Len(data), mask # <<>>) \o mask
              \o (IF mask = <<>> THEN data ELSE MaskData(data, mask)))

\* dtn_webserver_send: the frames of a text; after one that cannot be made the
\* rest is not sent.
\* Changed: the rest is one frame without the end.
RestWithoutEnd(open) == <<SetData(Continuation, open, <<>>)>>
RECURSIVE SendRest(_)
SendRest(open) ==
    IF Len(open) > Chunk1000
    THEN <<SetData(Continuation, SubSeq(open, 1, Chunk1000), <<>>)>> \o SendRest(SubSeq(open, Chunk1000 + 1, Len(open)))
    ELSE <<SetData(Fin + Continuation, open, <<>>)>>
FramesOf(text) ==
    IF Len(text) < Chunk1000 THEN <<SetData(Fin + Text, text, <<>>)>>
    ELSE <<SetData(Text, SubSeq(text, 1, Chunk1000), <<>>)>> \o SendRest(SubSeq(text, Chunk1000 + 1, Len(text)))
WebserverSend(text) ==
    LET frames == FramesOf(text)
    IN SubSeq(frames, 1, Least({i \in 1 .. Len(frames) + 1 : i > Len(frames) \/ frames[i] = NoFrame}) - 1)

-----------------------------------------------------------------------------
\* A connection.  In shown is what it gives away, in that order: the messages
\* it takes from the stream, the texts it puts to the JSON buffer, its answers.
NewConnection(type) ==
    [type |-> type, open |-> TRUE, dangling |-> FALSE, buffer |-> <<>>, queue |-> <<>>, last |-> "none", shown |-> <<>>]

Show(c, what, data) == [c EXCEPT !.shown = Append(@, [what |-> what, data |-> data])]
CloseOf(c) == [c EXCEPT !.open = FALSE]

\* The upgrade to WebSocket.  The value of the version is compared as far as it is
\* long; what is no handshake is a request like any other.
Upgrade == <<"u">>
Connection == <<"n">>
Host == <<"o">>
SecureKey == <<"y">>
SecureVersion == [i \in 1 .. 7 |-> "v"]
WebsocketWord == <<"w">>
Thirteen == <<"1", "3">>
KeyLength == 2

IsUpgradeRequest(m) ==
    /\ IsUnique(m.headers, Upgrade) /\ IsUnique(m.headers, Connection)
    /\ ValueNamed(m.headers, Upgrade) = WebsocketWord
    /\ FindItemInCommaList(ValueNamed(m.headers, Connection), Upgrade)

IsHandshake(m) ==
    /\ IsRequest(m, Method)
    /\ IsUpgradeRequest(m)
    /\ IsUnique(m.headers, Host) /\ IsUnique(m.headers, SecureKey) /\ IsUnique(m.headers, SecureVersion)
    /\ IsPrefix(ValueNamed(m.headers, SecureVersion), Thirteen)
    /\ Len(ValueNamed(m.headers, SecureKey)) = KeyLength

\* A GET is answered with the file, without looking at ranges here; a status
\* line has no method and is taken for a GET without an address; another method
\* gets no answer.
ProcessHttpMessage(c, m) ==
    IF ~IsUnique(m.headers, Host) THEN CloseOf(c)
    ELSE IF m.line.kind = "status" THEN CloseOf(c)
    ELSE IF ~IsPrefix(m.line.method, Method) THEN c
    ELSE IF m.line.uri \in ServedUris THEN Show(c, "file", m.line.uri)
    ELSE CloseOf(c)

ProcessHttp(c, m) ==
    IF IsHandshake(m) THEN Show([c EXCEPT !.type = "frames"], "handshake", ValueNamed(m.headers, SecureKey))
    ELSE ProcessHttpMessage(c, m)

\* io_connection_http goes on with HTTP behind a handshake, and does not see an
\* error behind a message that was taken: `popped'.
RECURSIVE ReadHttp(_, _)
ReadOn(c) == IF c.open THEN ReadHttp(c, TRUE) ELSE c
AfterPop(c, popped, p) ==
    CASE p.state = "progress" -> c
      [] p.state = "success"  -> ReadOn(ProcessHttp(Show([c EXCEPT !.buffer = p.buffer], "message", p.message), p.message))
      [] p.state = "lost"     -> [c EXCEPT !.open = popped, !.dangling = TRUE]
      [] p.state = "error"    -> [c EXCEPT !.open = popped]
ReadHttp(c, popped) == IF c.buffer = <<>> THEN c ELSE AfterPop(c, popped, MessagePop(c.buffer))

\* A text for the JSON buffer, which takes none without characters.
Deliver(c, text) == IF text = <<>> THEN CloseOf(c) ELSE Show(c, "text", text)

\* The pieces of a text; an empty one cannot be put to the others.
DefragmentedCallback(c) ==
    IF <<>> \in Range(c.queue) THEN CloseOf([c EXCEPT !.queue = <<>>])
    ELSE Deliver([c EXCEPT !.queue = <<>>], FlattenSeq(c.queue))

Push(c, frame) == [c EXCEPT !.queue = Append(@, Unmasked(frame)), !.last = frame.part]

DefragmentedDelivery(c, frame) ==
    LET inText == c.last \in {"start", "continue"}
    IN CASE frame.part = "none" /\ ~inText                      -> Deliver(c, Unmasked(frame))
         [] frame.part = "start" /\ ~inText /\ c.queue = <<>>    -> Push(c, frame)
         [] frame.part = "continue" /\ inText                   -> Push(c, frame)
         [] frame.part = "last" /\ inText                       -> DefragmentedCallback(Push(c, frame))
         [] OTHER                                               -> CloseOf(c)

\* The frame of a control is freed twice; the second time nothing is found.
ProcessControl(c, frame) ==
    LET pong == IF frame.content = <<>> THEN <<Fin + Pong, 0>> ELSE SetData(Fin + Pong, Unmasked(frame), <<>>)
    IN CASE frame.opcode = Pong                    -> c
         [] frame.opcode = Ping /\ pong # NoFrame -> Show(c, "pong", pong)
         [] OTHER                                 -> CloseOf(c)

\* Changed: a control is delivered like any frame.
ProcessAlike(c, frame) == DefragmentedDelivery(c, frame)
ProcessWebsocket(c, frame) ==
    IF frame.opcode >= Close THEN ProcessControl(c, frame) ELSE DefragmentedDelivery(c, frame)

RECURSIVE ReadFrames(_)
ReadFramesOn(c) == IF c.open THEN ReadFrames(c) ELSE c
AfterFrame(c, p) ==
    CASE p.state = "progress" -> c
      [] p.state = "success"  -> ReadFramesOn(ProcessWebsocket([c EXCEPT !.buffer = p.buffer], p.frame))
      [] OTHER                -> CloseOf(c)
ReadFrames(c) == IF c.buffer = <<>> THEN c ELSE AfterFrame(c, FramePop(c.buffer))

ReadOf(c) == IF c.type = "http" THEN ReadHttp(c, FALSE) ELSE ReadFrames(c)
IoConnection(c, data) == ReadOf([c EXCEPT !.buffer = @ \o data])

-----------------------------------------------------------------------------
\* The flight is any the module that checks this one gives.
Init ==
    /\ sofar = 0
    /\ conn = NewConnection(flight.type)

\* A client that asked for the upgrade waits for the answer.
Waiting == IF sofar < flight.gate THEN flight.gate ELSE Len(flight.wire)

Arrive(n) ==
    /\ conn.open /\ ~conn.dangling
    /\ sofar + n <= Waiting
    /\ sofar' = sofar + n
    /\ conn' = IoConnection(conn, SubSeq(flight.wire, sofar + 1, sofar + n))
    /\ UNCHANGED flight

Next == \E n \in 1 .. MaxRead \cup {Waiting - sofar} : n > 0 /\ Arrive(n)

-----------------------------------------------------------------------------
\* What was sent as the protocol asks for is read in any pieces, each message and
\* text with its last byte, in order and once, and what is left over belongs to
\* what is to come.  The connection stays open but for an item that is refused
\* as a whole: an unknown file, no host, a status line, a text with an empty
\* piece, also the one dtn_webserver_send makes of exactly Chunk1000 bytes.
ReadAsSent ==
    LET items == SelectSeq(flight.items, LAMBDA i : i.end <= sofar)
        due == IF items = <<>> THEN 0 ELSE Last(items).end
    IN flight.sound =>
         /\ ~conn.dangling /\ conn.open = ~\E i \in DOMAIN items : items[i].refused
         /\ conn.shown = FlattenSeq([i \in DOMAIN items |-> items[i].shows])
         /\ IsSuffix(conn.buffer, SubSeq(flight.wire, due + 1, sofar))

\* What is read in pieces is what is read at once, damaged or not; only that an
\* error behind a message may be found later.
SameAs(whole) ==
    /\ conn.shown = whole.shown
    /\ conn.open => whole.open
    /\ whole.open => conn.open \/ whole.shown # <<>>
PiecesReadAsWhole ==
    flight.gate = 0 /\ sofar > 0 => SameAs(IoConnection(NewConnection(flight.type), SubSeq(flight.wire, 1, sofar)))
=============================================================================
