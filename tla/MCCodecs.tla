------------------------------ MODULE MCCodecs ------------------------------
(***************************************************************************)
(* CBOR items, bundles, protected bundles, JSON texts, addresses, and what a *)
(* client sends to the web server, one of them at a time: `part' says which.  *)
(***************************************************************************)
EXTENDS Integers, SequencesExt

CONSTANTS
    StringLimit, Utf8Limit, ArrayLimit, UndefArrayLimit, MapLimit, UndefMapLimit,
    BufferSize, MaxCalls, MaxChanges, MaxBlocks, MaxHops,
    Parts, Payloads, Texts, ObjectsOnly, MaxChunk, Halfword,
    MaxMethod, MaxLine, MaxHeaders, MaxTransfer, MaxUri, BufferLimit, ServedUris, Chunk1000, MaxRead, UriIsValid(_)

VARIABLES
    part,
    value, calls, itemWire, itemArrived, itemAnswer,
    bundle, sent, wire, damaged, arrived, answer, changes, hops,
    config, source, protected, made, phase, changed,
    items, layout, text, kept, got, failed,
    address,
    flight, sofar, conn

-----------------------------------------------------------------------------
\* Items.
CB == INSTANCE Cbor
LongString == [i \in 1 .. 24 |-> 7]
Values ==
    {CB!Uint(0), CB!NegativeInt(-24), CB!ByteString(<<1, 0>>), CB!ByteString(LongString), CB!Utf8String(<<195, 164>>),
     CB!TimeEpoch(24), CB!UBignum(<<1>>), CB!Simple(248), CB!Tag(214), CB!Tag(217), CB!DecFraction(CB!Array(<<>>)),
     CB!Map({}), CB!Array(<<>>), CB!Array([i \in 1 .. 17 |-> CB!True])}
Contents == {<<>>, <<97>>, <<195>>}
Heads == {0, 24, 56, 65, 97, 129, 159, 161, 191, 217, 251, 255}
Received == {<<a, b, c>> : a \in Heads, b \in Heads, c \in Heads}

\* Bundles.  The sums tell which byte changed, as the real ones do, for
\* sequences as short as these.
SumOf(b) ==
    FoldLeft(LAMBDA s, i : <<(s[1] + b[i]) % 251, (s[2] + i * (b[i] + 1)) % 255>>, <<0, 0>>, [i \in DOMAIN b |-> i])
Crc16(b) == SumOf(b)
Crc32(b) == SumOf(b) \o SumOf(b)
Address(n) == <<105, 112, 110, 58, 48 + n>>
PrimaryOf(flags, crc) ==
    [flags |-> flags, crc |-> crc, destination |-> Address(2), source |-> Address(1), report |-> Address(1),
     time |-> 1, seq |-> 2, lifetime |-> 3, offset |-> 0, length |-> 2]
Primaries == {PrimaryOf(0, 1), PrimaryOf(1, 2)}
ShortPayloads == {<<>>, <<97>>}
LongPayloads == {[i \in 1 .. 24 |-> 97]}
Addresses == {Address(3)}
\* In the checksum type, the destination, the source, the checksum, and the
\* head, number and data of the block behind a primary block of 30 bytes.
Damages == {<<i, 255>> : i \in {5, 9, 15, 29, 32, 33, 37}}

\* Protected bundles.
Inputs ==
    [header : BOOLEAN, bibNewKey : BOOLEAN, bibAad : BOOLEAN, sha : {"sha256", "none"}, bib : BOOLEAN,
     payload : BOOLEAN, bcbNewKey : BOOLEAN, bcbAad : BOOLEAN, aes : {"128"}]
Sources == {[scheme |-> "dtn", name |-> <<"plain", "dtn">>], [scheme |-> "ipn", name |-> <<"plain", "ipn">>]}
Key == <<"key">>
NewKey == <<"new">>
Iv == <<"iv">>
NoSum(b) == <<0, 0>>

\* Items of JSON.  Some have texts that do not come back.
Null == <<"literal", <<>>>>
Num == <<"number", <<"1", "1">>>>
Arr(s) == <<"array", s>>
Obj(f) == <<"object", f>>
NoPairs == Obj([x \in {} |-> Null])
Pair(k, v) == Obj([x \in {k} |-> v])
Pairs(k, v, l, w) == Obj([x \in {k, l} |-> IF x = k THEN v ELSE w])
PlainTexts ==
    {<<"a">>, <<"e", "n">>, <<"e", "e", "a">>, <<",">>, <<":", "1">>, <<>>, <<"{">>, <<"}">>, <<"]", "a">>, <<"[", "]">>}
QuotedTexts == {<<"e", "q", "a">>}
ItemKeys == {<<"a">>, <<"a", "a">>, <<"n">>, <<"}">>}
Leaves == {Null, Num, Arr(<<>>), NoPairs} \cup {<<"string", s>> : s \in Texts}
Nested == {Arr(<<v>>) : v \in Leaves} \cup {Arr(<<Null, v>>) : v \in Leaves} \cup {Pair(<<"a">>, v) : v \in Leaves}
Objects ==
    {Pair(<<"a">>, v) : v \in Nested \cup Leaves}
      \cup {Pairs(k, v, <<"a", "n">>, w) :
                k \in ItemKeys, v \in {Num, <<"string", <<"}">>>>, Pair(<<"a">>, Null)},
                w \in {Null, Arr(<<Null, Arr(<<Num>>)>>), Pair(<<"n">>, NoPairs)}}
Small == {Pair(<<"a">>, Null), NoPairs, Pair(<<"a">>, <<"string", <<"}">>>>), Pair(<<"a">>, <<"string", <<>>>>)}
Streams == {<<v>> : v \in Objects} \cup {<<u, v, w>> : u \in Small, v \in Small, w \in Small}

\* Addresses: every text of four characters, and longer ones put together; paths of
\* up to four directories; numbers of up to 64 bits.
Chars == {"a", "9", ":", "/", "?", "#", "@", ".", "[::1]"}
Authorities ==
    {<<"/", "/">> \o user \o host \o port :
        user \in {<<>>, <<"a", "@">>, <<"a", ":", "9", "@">>},
        host \in {<<>>, <<"a">>, <<"9", ".", "%41">>, <<"[::1]">>, <<"v">>},
        port \in {<<>>, <<":", "9">>, <<":", "0">>, <<":", "0", "9", "0">>, <<":", "9", "9", "9", "9", "9">>}}
LongTexts ==
    {scheme \o authority \o path \o end :
        scheme \in {<<>>, <<"a", ":">>},
        authority \in Authorities \cup {<<>>},
        path \in {<<>>, <<"/">>, <<"/", "a", "/", "=">>, <<"/", "/", "a">>, <<"9", ":">>, <<"9", ":", "/", "a">>},
        end \in {<<>>, <<"?">>, <<"?", "a", "?", "a">>, <<"#", "a">>, <<"?", "a", "#", "v">>, <<"a">>}}
SchemeTexts ==
    {<<"a", ":">> \o slashes \o name \o end :
        slashes \in {<<>>, <<"/">>, <<"/", "/">>},
        name \in {<<>>, <<"none">>, <<"a">>, <<" ">>, <<"9">>, <<"9", ".">>},
        end \in {<<>>, <<"/">>, <<"/", "a">>, <<"/", "/">>, <<"9", "a">>, <<"9">>}}
Directories == BoundedSeq({<<>>, <<".">>, <<".", ".">>, <<"a">>, <<"a", "b">>}, 4)
DotPaths ==
    {root \o FlattenSeq([i \in DOMAIN d |-> d[i] \o <<"/">>]) \o end :
        root \in {<<>>, <<"/">>}, d \in Directories, end \in {<<>>, <<"a">>, <<".", ".">>}} \ {<<>>}
SdnvNumbers ==
    {<<>>} \cup {[i \in 1 .. n |-> IF i = 1 THEN top ELSE g] : n \in 1 .. 9, top \in {1, 15, 16, 127}, g \in {0, 127}}
      \cup {[i \in 1 .. 10 |-> IF i = 1 THEN 1 ELSE 127]}
NumberEdges == UNION {{2 ^ n - 1, 2 ^ n, 2 ^ n + 1} : n \in 0 .. 4 * Halfword} \ {2 ^ (4 * Halfword), 2 ^ (4 * Halfword) + 1}
UriInputs ==
    [kind : {"uri"}, text : BoundedSeq(Chars, 4) \cup LongTexts \cup SchemeTexts]
      \cup [kind : {"path"}, text : DotPaths]
      \cup [kind : {"number"}, number : SdnvNumbers, room : {1, 5, 10}]
      \cup [kind : {"bytes"}, bytes : BoundedSeq({0, 62, 127, 251, 255}, 3) \cup {<<b>> : b \in 0 .. 255}
                                       \cup {[i \in 1 .. n |-> 37 * i] : n \in 4 .. 6}]
      \cup [kind : {"text"}, number : {0 - n : n \in NumberEdges} \cup NumberEdges]
      \cup [kind : {"word"}, word : SUBSET {0, 7, 8, 15, 16, 31, 32, 63}]
      \cup [kind : {"point"}, point : UNION {{n - 1, n} : n \in {1, 128, 2048, 55296, 57344, 65536, 1114112}}]

CS == INSTANCE CborStream WITH wire <- itemWire, arrived <- itemArrived, answer <- itemAnswer
BS == INSTANCE BundleStream
SB == INSTANCE BundleSecurity WITH bundle <- protected, Crc16 <- NoSum, Crc32 <- NoSum
JS == INSTANCE Json WITH config <- layout
UR == INSTANCE Texts WITH Input <- address
CV == INSTANCE Texts WITH Input <- [kind |-> "none"]
WebUri(s) == UR!FromString(s).ok
WB == INSTANCE Webserver

\* What a client of the web server sends: descriptions of requests, of frames, ...
Requests(method, uris, fields, bodies) ==
    [kind : {"request"}, method : {method}, uri : uris, fields : fields, body : bodies, behind : {<<>>}]
HostField == <<WB!Host, <<"h", ".", "h">>>>
OddField == <<<<"x", "x">>, <<"quote", ",", " ", ":", "quote">>>>
Post == <<"b", "b", "b">>
Served == {<<"/">>, <<"/", "a">>}
TakenRequests ==
    Requests(WB!Method, Served, {<<HostField>>, <<OddField, HostField>>}, {<<>>})
      \cup Requests(Post, {<<"/", "a">>}, {<<HostField>>},
                   {<<"a">>, <<"CR", "LF">>, <<"G", "E", " ", "/", " ">>, [i \in 1 .. 10 |-> "CR"]})
RefusedRequests ==
    Requests(WB!Method, {<<"/", "v">>}, {<<HostField>>}, {<<>>}) \cup Requests(Post, {<<"/">>}, {<<OddField>>}, {<<>>})
      \cup [kind : {"status"}, code : {<<"2", "0", "0">>}, phrase : {<<"O", " ", "K">>}, fields : {<<HostField>>}, body : {<<"a">>}, behind : {<<>>}]
LongestMethod == [i \in 1 .. MaxMethod |-> "b"]
LongestLine == <<<<WB!Host, [i \in 1 .. MaxLine - 4 |-> "h"]>>>>
AtLimits ==
    Requests(LongestMethod, {<<"/">>}, {<<HostField>>}, {<<>>}) \cup Requests(Post, {<<"/">>}, {LongestLine}, {<<>>})
Chunks ==
    {<<>>, <<"2">> \o WB!CRLF \o <<"b", "b">> \o WB!CRLF, <<"1", ";", "b", "=", "1">> \o WB!CRLF \o <<"b">> \o WB!CRLF}
Encodings == {<<"k", "u">>, <<"x">>, <<"k", ",", "k", "u">>, <<"k", ";", "b", "b", "=", "1", ",", "k", "u">>}
ChunkedRequests ==
    {[r EXCEPT !.behind = c \o end] :
        r \in Requests(Post, {<<"/">>}, {<<HostField, <<WB!TransferEncoding, e>>>> : e \in Encodings}, {<<>>}),
        c \in Chunks, end \in {<<>>, <<"0">> \o WB!CRLF \o WB!CRLF}}
\* The upgrade as a client writes it: the place of the version, blanks or none.
Upgrades(places) == [kind : {"upgrade"}, version : places, blank : {<<>>, <<" ">>}]

Masks == {<<>>, <<1, 2, 4, 7>>}
Plain(bytes, shown, refused) == [kind |-> "plain", bytes |-> bytes, shown |-> shown, refused |-> refused]
Shown(what, data) == [what |-> what, data |-> data]
Pong(data) == Shown("pong", <<WB!Fin + WB!Pong, Len(data)>> \o data)
Bytes(n) == [i \in 1 .. n |-> (3 * i) % 8]
Frame(first, data, mask) == [kind |-> "frame", first |-> first, data |-> data, mask |-> mask]
Text(n, mask) == Frame(WB!Fin + WB!Text, Bytes(n), mask)
Ping(n, mask) == IF n = 0 THEN Plain(<<WB!Fin + WB!Ping, 0>>, <<Pong(<<>>)>>, FALSE) ELSE Frame(WB!Fin + WB!Ping, Bytes(n), mask)
PongFrame == Plain(<<WB!Fin + WB!Pong, 0>>, <<>>, FALSE)
EmptyPiece == Plain(<<WB!Text, 1, 5, WB!Fin, 0>>, <<>>, TRUE)
InPieces(between, mask) ==
    <<Frame(WB!Text, <<3>>, mask), between, Frame(WB!Continuation, <<6, 1>>, mask), Frame(WB!Fin, <<4>>, mask)>>
Sent(n) == [kind |-> "sent", size |-> n]

\* ... what they are on the wire, and what they show.
Unit(w, shows, refused) == [wire |-> w, shows |-> shows, refused |-> refused]
AllFields(d) == IF d.body = <<>> THEN d.fields ELSE Append(d.fields, <<WB!ContentLength, WB!NumberText(Len(d.body))>>)
NamedFields(fields) == [i \in DOMAIN fields |-> [name |-> fields[i][1], value |-> fields[i][2]]]
Built(d, start) == WB!CloseHeader(FoldLeft(LAMBDA s, f : WB!AddHeader(s, f[1], f[2]), start, AllFields(d)))
WithBody(s, body) == IF body = <<>> THEN s ELSE WB!AddBody(s, body)
StartLine(d) == IF d.kind = "status" THEN WB!CreateStatus(d.code, d.phrase) ELSE WB!CreateRequest(d.method, d.uri)
LineOf(d) ==
    IF d.kind = "status" THEN [kind |-> "status", code |-> d.code]
    ELSE [kind |-> "request", method |-> d.method, uri |-> d.uri]
MessageUnit(d) ==
    Unit(WithBody(Built(d, StartLine(d)), d.body) \o d.behind,
         <<Shown("message", [line |-> LineOf(d), headers |-> NamedFields(AllFields(d)), body |-> d.body])>>
           \o (IF d.kind = "request" /\ d.method = WB!Method /\ d.uri \in Served THEN <<Shown("file", d.uri)>> ELSE <<>>),
         d.kind = "status" \/ (d.method = WB!Method /\ d.uri \notin Served) \/ HostField \notin Range(d.fields))
UpgradeFields(d) ==
    InsertAt(<<HostField, <<WB!Upgrade, WB!WebsocketWord>>, <<WB!Connection, <<"a", ",", " ">> \o WB!Upgrade>>,
               <<WB!SecureKey, <<"k", "k">>>>>>, d.version, <<WB!SecureVersion, WB!Thirteen>>)
Lines(fields, blank) ==
    FlattenSeq([i \in DOMAIN fields |-> fields[i][1] \o <<":">> \o blank \o fields[i][2] \o WB!CRLF]) \o WB!CRLF
UpgradeUnit(d) ==
    Unit(WB!CreateRequest(WB!Method, <<"/">>) \o Lines(UpgradeFields(d), d.blank),
         <<Shown("message", [line |-> [kind |-> "request", method |-> WB!Method, uri |-> <<"/">>],
                             headers |-> NamedFields(UpgradeFields(d)), body |-> <<>>]),
           Shown("handshake", <<"k", "k">>)>>, FALSE)
FrameUnit(d) ==
    Unit(WB!SetData(d.first, d.data, d.mask),
         CASE d.first = WB!Fin + WB!Text -> <<Shown("text", d.data)>>
           [] d.first = WB!Fin + WB!Ping -> <<Pong(d.data)>>
           [] d.first = WB!Fin           -> <<Shown("text", Bytes(4))>>
           [] OTHER                      -> <<>>, FALSE)
SentUnit(d) ==
    Unit(FlattenSeq(WB!WebserverSend(Bytes(d.size))),
         IF d.size = Chunk1000 THEN <<>> ELSE <<Shown("text", Bytes(d.size))>>, d.size = Chunk1000)
UnitOf(d) ==
    CASE d.kind \in {"request", "status"} -> MessageUnit(d)
      [] d.kind = "upgrade" -> UpgradeUnit(d)
      [] d.kind = "frame"   -> FrameUnit(d)
      [] d.kind = "sent"    -> SentUnit(d)
      [] d.kind = "plain"   -> Unit(d.bytes, d.shown, d.refused)

\* A flight of units behind one another, in a plan: what each shows is due with
\* its last byte.  One place of a damaged flight has something else.
Plan(type, sound, units) == [type |-> type, gated |-> FALSE, sound |-> sound, units |-> units, damage |-> <<>>]
Damaged(wire0, damage) == IF damage = <<>> \/ damage[1] > Len(wire0) THEN wire0 ELSE [wire0 EXCEPT ![damage[1]] = damage[2]]
EndOf(units, i) == FoldLeft(LAMBDA n, u : n + Len(u.wire), 0, SubSeq(units, 1, i))
Flight(plan, units) ==
    [type |-> plan.type, sound |-> plan.sound, gate |-> IF plan.gated THEN Len(units[1].wire) ELSE 0,
     wire |-> Damaged(FlattenSeq([i \in DOMAIN units |-> units[i].wire]), plan.damage),
     items |-> [i \in DOMAIN units |-> [end |-> EndOf(units, i), shows |-> units[i].shows, refused |-> units[i].refused]]]

MessagePlans ==
    {Plan("http", TRUE, <<a, b>>) : a \in TakenRequests, b \in TakenRequests \cup RefusedRequests}
      \cup {[Plan("http", TRUE, <<u, Text(1, mask), Text(2, mask)>>) EXCEPT !.gated = TRUE] : u \in Upgrades(1 .. 4), mask \in Masks}
      \cup {Plan("http", FALSE, <<r>>) : r \in AtLimits \cup ChunkedRequests \cup Upgrades({5})}
      \cup {[Plan("http", FALSE, <<r>>) EXCEPT !.damage = <<i, x>>] :
                r \in Requests(Post, {<<"/", "a">>}, {<<OddField, HostField>>}, {<<"a">>}),
                i \in 1 .. 50, x \in {" ", "CR", "LF", ":", "zero", "c", "1"}}
FramePlans ==
    {Plan("frames", TRUE, <<Text(n, mask), Ping(k, mask)>>) : n \in {1, 2, 3, 62, 64}, k \in {0, 1}, mask \in Masks}
      \cup {Plan("frames", TRUE, InPieces(between, mask) \o <<Text(1, mask)>>) :
                between \in {Ping(1, <<1, 2, 4, 7>>), Ping(0, <<>>), PongFrame}, mask \in Masks}
      \cup {Plan("frames", TRUE, <<Sent(1), Sent(n)>>) : n \in 1 .. 3 * Chunk1000}
      \cup {Plan("frames", TRUE, <<PongFrame, EmptyPiece>>)}
      \cup {[Plan("frames", FALSE, InPieces(Ping(1, <<>>), <<1, 2, 4, 7>>) \o <<Text(2, <<>>)>>) EXCEPT !.damage = <<i, x>>] :
                i \in 1 .. 35, x \in {0, 1, 2, 3, 8, 17, 24, 26}}
UnitsOf(plan) == [i \in DOMAIN plan.units |-> UnitOf(plan.units[i])]

-----------------------------------------------------------------------------
itemVars == <<value, calls, itemWire, itemArrived, itemAnswer>>
bundleVars == <<bundle, sent, wire, damaged, arrived, answer, changes, hops>>
secureVars == <<config, source, protected, made, phase, changed>>
textVars == <<items, layout, text, kept, got, failed>>
webVars == <<flight, sofar, conn>>
vars == <<part, itemVars, bundleVars, secureVars, textVars, address, webVars>>

\* The parts that are not at work stay where they begin.
Idle ==
    /\ part # "item" => value = CB!Uint(0)
    /\ part # "secure" => config = SB!SecurityConfig([header |-> FALSE, bibNewKey |-> FALSE, bibAad |-> FALSE,
                             sha |-> "none", bib |-> FALSE, payload |-> FALSE, bcbNewKey |-> FALSE,
                             bcbAad |-> FALSE, aes |-> "128"])
                      /\ source = [scheme |-> "dtn", name |-> <<"plain", "dtn">>]
    /\ part # "text" => items = <<Pair(<<"a">>, Null)>> /\ layout = JS!Minimal
    /\ IF part = "address" THEN address \in UriInputs ELSE address = [kind |-> "none"]
    /\ IF part = "web"
       THEN \E plan \in MessagePlans \cup FramePlans : \E units \in {UnitsOf(plan)} : flight = Flight(plan, units)
       ELSE flight = [type |-> "none"]

Init ==
    /\ part \in Parts
    /\ Idle
    /\ CS!Init /\ BS!Init /\ SB!Init /\ JS!Init /\ WB!Init

ItemStep == CS!Next /\ UNCHANGED <<bundleVars, secureVars, textVars, address, webVars>>
BundleStep == BS!Next /\ UNCHANGED <<itemVars, secureVars, textVars, address, webVars>>
SecureStep == SB!Next /\ UNCHANGED <<itemVars, bundleVars, textVars, address, webVars>>
TextStep == JS!Next /\ UNCHANGED <<itemVars, bundleVars, secureVars, address, webVars>>
WebStep == WB!Next /\ UNCHANGED <<itemVars, bundleVars, secureVars, textVars, address>>

Next ==
    /\ UNCHANGED part
    /\ \/ part = "item" /\ ItemStep
       \/ part = "bundle" /\ BundleStep
       \/ part = "secure" /\ SecureStep
       \/ part = "text" /\ TextStep
       \/ part = "web" /\ WebStep

Spec == Init /\ [][Next]_vars

-----------------------------------------------------------------------------
\* What was encoded comes back as it was, complete and not before its last
\* byte: CBOR items and bundles, whatever calls built them, JSON items that
\* have no brackets in their texts; a bundle encoded again is the same.  Addresses,
\* numbers, bytes and code points come back too; a path that is resolved does not
\* leave its beginning by dot segments that end with a slash (a last `..' without
\* one stays in the path as it is); and of the numbers of 32 bits those from 2^31
\* on, which are printed as int, are refused when read.
Faithful ==
    CASE part = "item" -> CS!RoundTrip
      [] part = "bundle" -> BS!WholeOrPartial /\ BS!EncodedAgain
      [] part = "text" -> JS!WrittenIsRead
      [] part = "address" -> UR!UriWrittenIsRead /\ UR!SchemesWrittenAreRead /\ UR!DotsAreCounted /\ UR!NumberIsRead
                             /\ (address.kind = "bytes" => CV!Base64IsRead(address.bytes) /\ CV!HexIsRead(address.bytes)
                                                            /\ CV!SumsAreRemainders(address.bytes))
                             /\ (address.kind = "text" => CV!TextIsNumber(address.number))
                             /\ (address.kind = "word" => CV!WordIsCarried(address.word))
                             /\ (address.kind = "point" => CB!CodePointIsRead(address.point))
      [] OTHER -> TRUE


\* What nobody changed passes, with the configurations that can work.
OwnBundleAccepted == part = "secure" => SB!OwnBundleAccepted

\* A stream of JSON texts, of HTTP messages or of WebSocket frames is read as it
\* was sent, however it is cut, and what is damaged gives the same in pieces.
StreamIsRead ==
    /\ part = "text" => JS!StreamIsRead
    /\ part = "web" => WB!ReadAsSent /\ WB!PiecesReadAsWhole

\* dtn_bundle_decode takes no proper beginning of a bundle that arrives
\* unchanged for the whole bundle (its test expects partial for 1 to 36 bytes).
NoBeginningIsWhole == ~damaged /\ arrived \in 1 .. Len(wire) - 1 => answer.match # "full"

\* No beginning of what was written is taken for something that is not JSON.
BeginningMatches == JS!BeginningMatches
=============================================================================
