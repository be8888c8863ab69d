------------------------------- MODULE Texts --------------------------------
(***************************************************************************)
(* Addresses, numbers and bytes as text, and back.                         *)
(*                                                                         *)
(* dtn_uri.c, dtn_dtn_uri.c, dtn_ipn.c and dtn_sdnv.c: here a text is a    *)
(* sequence of characters; "%41" stands for an escaped one, "[::1]" for an *)
(* address in brackets, both taken whole.  What a C function calls `next'  *)
(* is the rest of the text here, and the answer of the functions that take *)
(* a part off the beginning is [ok, part, rest].                           *)
(*                                                                         *)
(* dtn_base64.c, dtn_convert.c, dtn_endian.c, dtn_crc16.c and              *)
(* dtn_crc32.c, the second half: bytes are numbers below 256, and a text   *)
(* is bytes.  A word of a checksum or of a number in memory is the set of  *)
(* its bits that are 1.                                                    *)
(***************************************************************************)
EXTENDS Integers, SequencesExt

CONSTANTS
    Input,      \* the address: [kind, text], [kind, path] or [kind, number, room]
    Halfword    \* the bits of a uint16_t; the other types have two and four times as many

Nothing == <<>>
Digit == {"0", "9"}
Alpha == {"a", "v"}
Escaped == "%41"
Literal == "[::1]"
Unreserved == Digit \cup Alpha \cup {"."}
SubDelimiter == {"="}
Major == {"/", "?", "#"}
GeneralDelimiter == Major \cup {":", "@", Literal}

UserChar == Unreserved \cup SubDelimiter \cup {Escaped, ":"}
NameChar == Unreserved \cup SubDelimiter \cup {Escaped}
PathChar(colon) == Unreserved \cup SubDelimiter \cup {Escaped, "@"} \cup (IF colon THEN {":"} ELSE {})
Allowed == Unreserved \cup SubDelimiter \cup GeneralDelimiter \cup {Escaped}

AllIn(s, set) == \A i \in DOMAIN s : s[i] \in set
From(s, i) == SubSeq(s, i, Len(s))
Places(s, set) == {i \in DOMAIN s : s[i] \in set}
\* The place of the first of a set's characters, one behind the end if none.
First(s, set) == IF Places(s, set) = {} THEN Len(s) + 1 ELSE Min(Places(s, set))
LastOf(s, set) == Max(Places(s, set) \cup {0})

Failed == [ok |-> FALSE, part |-> Nothing, rest |-> Nothing]
Taken(part, rest) == [ok |-> TRUE, part |-> part, rest |-> rest]

-----------------------------------------------------------------------------
\* dtn_uri.c, the parts of an address.
CharsAreScheme(s) == s # <<>> /\ s[1] \in Alpha /\ AllIn(s, Alpha \cup Digit \cup {"."})

\* No scheme is no mistake here.
MaskScheme(s) ==
    LET p == First(s, {":"})
        part == SubSeq(s, 1, p - 1)
    IN IF p > Len(s) \/ ~CharsAreScheme(part) THEN Taken(Nothing, s) ELSE Taken(part, From(s, p + 1))

MaskUser(s) ==
    LET p == First(s, {"@"})
        part == SubSeq(s, 1, p - 1)
    IN CASE p > Len(s)                           -> Taken(Nothing, s)
         [] p = 1 \/ ~AllIn(part, UserChar)      -> Failed
         [] OTHER                                -> Taken(part, From(s, p + 1))

\* A host that begins with v is taken for an address of the future, and those
\* are refused whatever their length: 3 < length is the test, and at most three
\* characters are too few for chars_are_ip_future.
MaskHost(s) ==
    LET p == First(s, GeneralDelimiter)
        part == SubSeq(s, 1, p - 1)
    IN CASE s = <<>>              -> Taken(Nothing, s)
         [] s # <<>> /\ s[1] = Literal -> Taken(<<Literal>>, Tail(s))
         [] s # <<>> /\ s[1] = "v"     -> Failed
         [] OTHER                 -> IF AllIn(part, NameChar) THEN Taken(part, From(s, p)) ELSE Failed

\* strtoll's number of the digits in front.
NumberOf(digits) == FoldLeft(LAMBDA n, d : n * 10 + (IF d = "9" THEN 9 ELSE 0), 0, digits)

\* The port is a number; none is 0, as is a colon without digits.
MaskPort(s) ==
    LET end == First(Tail(s), Allowed \ Digit)
        digits == SubSeq(s, 2, end)
    IN CASE s = <<>> \/ s[1] # ":" -> [ok |-> TRUE, part |-> 0, rest |-> s]
         [] s # <<>> /\ s[1] = ":" /\ (Len(s) < 2 \/ NumberOf(digits) > 65535) -> [Failed EXCEPT !.part = 0]
         [] OTHER                  -> [ok |-> TRUE, part |-> NumberOf(digits), rest |-> From(s, end + 1)]

\* The pieces before the last delimiter are looked at wherever it is and may
\* not be empty; colons are kept out of the first of them only, if at all.
CheckWithDelimiter(s, delimiter, colon) ==
    LET first == First(s, {delimiter})
        last == LastOf(s, {delimiter})
        tail == From(s, last + 1)
        end == First(tail, Major)
    IN IF /\ \A i \in 1 .. last : IF s[i] = delimiter THEN i > 1 /\ s[i - 1] # delimiter
                                                      ELSE s[i] \in PathChar(colon \/ i > first)
          /\ AllIn(SubSeq(tail, 1, end - 1), PathChar(TRUE))
       THEN Taken(SubSeq(s, 1, last + end - 1), From(tail, end))
       ELSE Failed

-----------------------------------------------------------------------------
\* The address as it is put together; a part that was not given is Nothing.
NoUri == [ok |-> TRUE, scheme |-> Nothing, user |-> Nothing, host |-> Nothing, port |-> 0,
          path |-> Nothing, query |-> Nothing, fragment |-> Nothing]

\* Each step gives the address so far, with the rest, or `ok' FALSE; what was
\* put into the address before a failure stays in it.
State(uri, rest) == [uri |-> uri, rest |-> rest]
Refuse(uri, rest) == State([uri EXCEPT !.ok = FALSE], rest)

CheckPathAbsolute(uri, s) ==
    LET p == CheckWithDelimiter(Tail(s), "/", TRUE)
    IN IF s = <<>> \/ s[1] # "/" THEN Refuse(uri, s)
       ELSE IF (Len(s) > 1 /\ s[2] = "/") \/ ~p.ok THEN Refuse(uri, s)
       ELSE State([uri EXCEPT !.path = <<"/">> \o p.part], p.rest)

Filled(old, part) == IF part = Nothing THEN old ELSE part

\* User, host and port, and a path behind them.
CheckPort(uri, s, p) ==
    CASE ~p.ok                                               -> Refuse(uri, s)
      [] p.ok /\ (p.rest = <<>> \/ p.rest[1] \in {"?", "#"}) -> State(uri, p.rest)
      [] OTHER                                               -> CheckPathAbsolute(uri, p.rest)

\* The port is stored when its colon is there.
CheckHostPort(uri, s, h, p) ==
    CheckPort(IF p.ok /\ p.rest # h.rest THEN [uri EXCEPT !.port = p.part] ELSE uri, s, p)
CheckHost(uri, s, h) ==
    IF h.ok THEN CheckHostPort([uri EXCEPT !.host = Filled(@, h.part)], s, h, MaskPort(h.rest)) ELSE Refuse(uri, s)
CheckUser(uri, s, u) ==
    IF u.ok THEN CheckHost([uri EXCEPT !.user = Filled(@, u.part)], s, MaskHost(u.rest)) ELSE Refuse(uri, s)
CheckAuthority(uri, s) == CheckUser(uri, s, MaskUser(s))

CheckWithAuthority(uri, s) == IF Len(s) < 2 THEN Refuse(uri, s) ELSE CheckAuthority(uri, s)

CheckPathWithAuthority(uri, s) ==
    IF Len(s) < 2 \/ s[1] # "/" \/ s[2] # "/" THEN Refuse(uri, s) ELSE CheckAuthority(uri, From(s, 3))

RootlessAfter(a, p, s) ==
    CASE a.uri.ok          -> a
      [] ~a.uri.ok /\ p.ok -> State([a.uri EXCEPT !.ok = TRUE, !.path = p.part], p.rest)
      [] OTHER             -> Refuse(a.uri, s)

\* A path without a slash in front is tried as user, host and port first, and
\* keeps what these left when it is a path after all.
CheckPathRootless(uri, s) ==
    RootlessAfter(CheckWithAuthority(uri, s), CheckWithDelimiter(s, "/", TRUE), s)

CheckPathNoScheme(uri, s) ==
    LET p == CheckWithDelimiter(s, "/", FALSE)
    IN IF p.ok THEN State([uri EXCEPT !.path = p.part], p.rest) ELSE Refuse(uri, s)

SlashAfter(a, uri, s) == IF a.uri.ok THEN a ELSE CheckPathWithAuthority(uri, s)
CheckSlash(uri, s) == SlashAfter(CheckPathAbsolute(uri, s), uri, s)

CheckHierarchicalPath(uri, s) ==
    CASE s = <<>>                         -> State(uri, s)
      [] s # <<>> /\ s[1] = "/"           -> CheckSlash(uri, s)
      [] s # <<>> /\ s[1] = "?"           -> State(uri, s)
      [] OTHER                            -> CheckPathRootless(uri, s)

CheckRelativePath(uri, s) ==
    CASE s = <<>>                         -> State(uri, s)
      [] s # <<>> /\ s[1] = "/"           -> CheckSlash(uri, s)
      [] s # <<>> /\ s[1] \in {"?", "#"}  -> State(uri, s)
      [] OTHER                            -> CheckPathNoScheme(uri, s)

\* A query or a fragment goes on to the end, with the character that begins it.
RestOf(uri, s, mark, p) ==
    CASE ~p.ok             -> Refuse(uri, s)
      [] p.ok /\ mark = "?" -> State([uri EXCEPT !.query = <<"?">> \o p.part], p.rest)
      [] p.ok /\ mark = "#" -> State([uri EXCEPT !.fragment = <<"#">> \o p.part], p.rest)
Rest(st, mark) == RestOf(st.uri, st.rest, mark, CheckWithDelimiter(Tail(st.rest), mark, TRUE))
Ended(st) == [st.uri EXCEPT !.ok = @ /\ st.rest = <<>>]

AbsoluteQuery(path) ==
    CASE ~path.uri.ok \/ path.rest = <<>> -> path.uri
      [] path.uri.ok /\ path.rest # <<>>  ->
            IF path.rest[1] = "?" THEN Ended(Rest(path, "?")) ELSE [path.uri EXCEPT !.ok = FALSE]
AbsolutePath(uri, m) ==
    IF m.part = Nothing THEN [uri EXCEPT !.ok = FALSE]
    ELSE AbsoluteQuery(CheckHierarchicalPath([uri EXCEPT !.scheme = m.part], m.rest))
ParseAbsolute(uri, s) ==
    IF s = <<>> \/ ~AllIn(s, Allowed) THEN [uri EXCEPT !.ok = FALSE] ELSE AbsolutePath(uri, MaskScheme(s))

ReferenceFragment(query) ==
    CASE ~query.uri.ok \/ query.rest = <<>> -> query.uri
      [] query.uri.ok /\ query.rest # <<>>  ->
            IF query.rest[1] = "#" THEN Ended(Rest(query, "#")) ELSE [query.uri EXCEPT !.ok = FALSE]
ReferenceQuery(path) ==
    ReferenceFragment(IF path.uri.ok /\ path.rest # <<>> /\ path.rest[1] = "?" THEN Rest(path, "?") ELSE path)
ReferencePath(uri, m) == ReferenceQuery(CheckRelativePath([uri EXCEPT !.scheme = Filled(@, m.part)], m.rest))
ParseReference(uri, s) ==
    IF s = <<>> \/ ~AllIn(s, Allowed) THEN [uri EXCEPT !.ok = FALSE] ELSE ReferencePath(uri, MaskScheme(s))

\* dtn_uri_clear.
Cleared(uri) == NoUri

ReferenceIfNot(a, s) == IF a.ok THEN a ELSE ParseReference(Cleared(a), s)
FromString(s) == ReferenceIfNot(ParseAbsolute(NoUri, s), s)

\* snprintf's digits of a port.
RECURSIVE Digits(_)
Digits(n) == IF n < 10 THEN <<ToString(n)>> ELSE Digits(n \div 10) \o <<ToString(n % 10)>>

\* Changed: a port alone has no slashes in front.
SeparatorForNames(uri) == IF uri.user # Nothing \/ uri.host # Nothing THEN <<"/", "/">> ELSE <<>>

Separator(uri) == IF uri.user # Nothing \/ uri.host # Nothing \/ uri.port > 0 THEN <<"/", "/">> ELSE <<>>

\* dtn_uri_string_length: what of an address is looked at again before it is
\* written.
Writable(uri) ==
    /\ uri.scheme # Nothing => CharsAreScheme(uri.scheme)
    /\ AllIn(uri.user, UserChar)
    /\ uri.host = <<Literal>> \/ AllIn(uri.host, NameChar)
    /\ uri.query # Nothing => uri.query[1] = "?" /\ CheckWithDelimiter(Tail(uri.query), "?", TRUE).ok
    /\ uri.fragment # Nothing => uri.fragment[1] = "#" /\ CheckWithDelimiter(Tail(uri.fragment), "#", TRUE).ok

ToText(uri) ==
    (IF uri.scheme = Nothing THEN <<>> ELSE uri.scheme \o <<":">>)
      \o Separator(uri)
      \o (IF uri.user = Nothing THEN <<>> ELSE uri.user \o <<"@">>)
      \o uri.host
      \o (IF uri.port = 0 THEN <<>> ELSE <<":">> \o Digits(uri.port))
      \o uri.path \o uri.query \o uri.fragment

-----------------------------------------------------------------------------
\* dtn_dtn_uri.c: scheme, name and demux; a demux that is not there differs from
\* an empty one.  "none" is one character here, and " " one of those refused.
NoDemux == <<"not there">>

DtnDecode(s) ==
    LET colon == First(s, {":"})
        rest == From(s, colon + 1)
        name == From(rest, 3)
        slash == First(name, {"/"})
        made(n, d) == [ok |-> TRUE, scheme |-> SubSeq(s, 1, colon - 1), name |-> n, demux |-> d]
    IN CASE colon > Len(s) \/ " " \in ToSet(s)                     -> [ok |-> FALSE]
         [] colon <= Len(s) /\ " " \notin ToSet(s) /\ rest = <<"none">> -> made(rest, NoDemux)
         [] OTHER ->
              IF Len(rest) < 2 \/ rest[1] # "/" \/ rest[2] # "/" THEN [ok |-> FALSE]
              ELSE IF slash > Len(name) THEN made(name, NoDemux)
              ELSE made(SubSeq(name, 1, slash - 1), From(name, slash + 1))

\* Changed: the slash only comes with a demux.
DtnEncodeBare(u) ==
    u.scheme \o <<":", "/", "/">> \o u.name \o (IF u.demux = NoDemux THEN <<>> ELSE u.demux)

DtnEncode(u) ==
    u.scheme \o <<":", "/", "/">> \o u.name \o <<"/">> \o (IF u.demux = NoDemux THEN <<>> ELSE u.demux)

\* dtn_ipn.c: scheme, node and service, digits both.  The point is looked for
\* behind the colon.
IpnDecode(s) ==
    LET colon == First(s, {":"})
        point == colon + First(From(s, colon + 1), {"."})
        node == SubSeq(s, colon + 1, point - 1)
        service == From(s, point + 1)
    IN IF point > Len(s) \/ node = <<>> \/ service = <<>> \/ ~AllIn(node \o service, Digit) THEN [ok |-> FALSE]
       ELSE [ok |-> TRUE, scheme |-> SubSeq(s, 1, colon - 1), node |-> node, service |-> service]

IpnEncode(u) == u.scheme \o <<":">> \o u.node \o <<".">> \o u.service

-----------------------------------------------------------------------------
\* dtn_uri_path_remove_dot_segments, and its copy in dtn_dtn_uri.c.  Written is
\* what the buffer holds, with what is left from before behind `at', NUL where
\* a slash was; the levels are the directories entered.
NUL == "NUL"
Buffer(chars, at, level) == [ok |-> TRUE, chars |-> chars, at |-> at, level |-> level]
TooMany == [ok |-> FALSE, chars |-> <<>>, at |-> 0, level |-> 0]

Write(b, s) ==
    [b EXCEPT !.chars = SubSeq(@, 1, b.at) \o s \o From(@, b.at + Len(s) + 1), !.at = @ + Len(s)]

\* Changed: two dots at the beginning are passed over.
GoUpOrStay(b) ==
    LET slash == Max({i \in Places(b.chars, {"/"}) : i > 1 /\ i <= b.at + 1} \cup {0})
    IN IF b.level = 0 THEN b
       ELSE IF slash = 0 THEN Buffer(b.chars, 0, b.level - 1)
       ELSE Buffer([b.chars EXCEPT ![slash] = NUL], slash - 2, b.level - 1)

\* Two dots go back to one character before the last slash that was written.
GoUp(b) ==
    LET slash == Max({i \in Places(b.chars, {"/"}) : i > 1 /\ i <= b.at + 1} \cup {0})
    IN IF b.level = 0 THEN TooMany
       ELSE IF slash = 0 THEN Buffer(b.chars, 0, b.level - 1)
       ELSE Buffer([b.chars EXCEPT ![slash] = NUL], slash - 2, b.level - 1)

Segment(b, s) ==
    CASE ~b.ok \/ s = <<>> \/ s = <<".">> -> b
      [] b.ok /\ s = <<".", ".">>         -> GoUp(b)
      [] OTHER                            -> [Write(b, s \o <<"/">>) EXCEPT !.level = @ + 1]

\* The pieces a slash ends, and what is behind the last slash.
Segments(path) ==
    LET ends == SetToSortSeq(Places(path, {"/"}), <)
    IN [i \in DOMAIN ends |-> SubSeq(path, (IF i = 1 THEN 0 ELSE ends[i - 1]) + 1, ends[i] - 1)]

RemoveDotSegments(path) ==
    LET root == Head(path) = "/"
        start == IF root THEN Buffer(<<"/">>, 1, 0) ELSE Buffer(<<>>, 0, 0)
        done == FoldLeft(Segment, start, Segments(IF root THEN Tail(path) ELSE path))
        written == Write(done, From(path, LastOf(path, {"/"}) + 1)).chars
    IN IF done.ok THEN [ok |-> TRUE, path |-> SubSeq(written, 1, First(written, {NUL}) - 1)]
       ELSE [ok |-> FALSE, path |-> <<>>]

-----------------------------------------------------------------------------
\* dtn_sdnv.c.  A number is the sequence of its groups of seven bits, the first
\* not 0; ten groups, the first of them 1, are the 64 bits.
\* Changed: the limit for three bytes is one bit too high.
SdnvLengthShort(number) ==
    CASE Len(number) = 0                         -> 1
      [] Len(number) = 3 /\ number[1] = 1        -> 2
      [] OTHER                                   -> Len(number)

SdnvLength(number) ==
    CASE Len(number) = 0                         -> 1
      \* The limit for six bytes has a digit too many: 39 bits are five bytes.
      [] Len(number) = 6 /\ number[1] <= 15      -> 5
      [] OTHER                                   -> Len(number)

\* The bytes, none if there is no room for them.
SdnvEncode(number, room) ==
    LET n == SdnvLength(number)
        group(i) == IF number = <<>> THEN 0 ELSE number[Len(number) - n + i]
    IN IF room < n THEN <<>> ELSE [i \in 1 .. n |-> group(i) + (IF i < n THEN 128 ELSE 0)]

SdnvDecode(bytes) ==
    LET ends == {i \in DOMAIN bytes : bytes[i] < 128}
        n == Min(ends)
        groups == [i \in 1 .. n |-> bytes[i] % 128]
        first == Min({i \in DOMAIN groups : groups[i] > 0} \cup {n + 1})
    IN IF ends = {} \/ n > 10 \/ (n = 10 /\ bytes[1] > 129) THEN [ok |-> FALSE]
       ELSE [ok |-> TRUE, number |-> From(groups, first), next |-> n]

-----------------------------------------------------------------------------
\* A path that was tried as an authority before: its host is not its own.
LeftFromAuthority(u) ==
    u.path # Nothing /\ u.path[1] # "/" /\ (u.user # Nothing \/ u.host # Nothing \/ u.port > 0)

\* An address that was read can be written and, read again, is the same, but for one
\* that has nothing in it and for a path that was taken for an authority.
UriWrittenIsRead ==
    Input.kind = "uri" =>
      \A u \in {FromString(Input.text)} :
          /\ u.ok => Writable(u)
          /\ u.ok /\ u # NoUri /\ ~LeftFromAuthority(u) => FromString(ToText(u)) = u

\* The addresses of the protocol come back as the text they were, a name with
\* the slash that ends it; `none' comes back as a name.
SchemesWrittenAreRead ==
    Input.kind = "uri" =>
      \A d \in {DtnDecode(Input.text)}, i \in {IpnDecode(Input.text)} :
         /\ d.ok /\ d.name # <<"none">> =>
                DtnEncode(d) \in {Input.text, Input.text \o <<"/">>} /\ DtnDecode(DtnEncode(d)).name = d.name
         /\ i.ok => IpnEncode(i) = Input.text /\ IpnDecode(IpnEncode(i)) = i
         \* A text is an address of one of the schemes at most.
         /\ ~(d.ok /\ i.ok)

\* A path is refused when its dots go over its beginning, and only then; without
\* them the segments are kept in their order.  The dots that count are those of a
\* segment a slash ends: a last `..' is written as if it were a name (1578).
DotsAreCounted ==
    Input.kind = "path" =>
      LET root == Head(Input.text) = "/"
          parts == Segments(IF root THEN Tail(Input.text) ELSE Input.text)
          kept == SelectSeq(parts, LAMBDA s : s \notin {<<>>, <<".">>})
          ups(n) == Cardinality({i \in 1 .. n : kept[i] = <<".", ".">>})
          last == From(Input.text, LastOf(Input.text, {"/"}) + 1)
          plain == (IF root THEN <<"/">> ELSE <<>>) \o FlattenSeq([i \in DOMAIN kept |-> kept[i] \o <<"/">>]) \o last
          r == RemoveDotSegments(Input.text)
      IN /\ r.ok <=> \A n \in DOMAIN kept : 2 * ups(n) <= n
         /\ r.ok /\ ups(Len(kept)) = 0 => r.path = plain
         /\ r.ok /\ root => r.path # <<>> /\ Head(r.path) = "/"

\* A number that has room comes back, with its end found where it was put, but
\* for the numbers of 36 to 39 bits.
NumberIsRead ==
    Input.kind = "number" =>
      LET bytes == SdnvEncode(Input.number, Input.room)
          r == SdnvDecode(bytes \o <<255, 1>>)
      IN bytes # <<>> /\ ~(Len(Input.number) = 6 /\ Input.number[1] <= 15) =>
            r.ok /\ r.number = Input.number /\ r.next = Len(bytes)

-----------------------------------------------------------------------------
\* base64Alphabet and base64urlAlphabet.
Alphabet(url) ==
    [p \in 0 .. 63 |-> CASE p < 26 -> 65 + p [] p \in 26 .. 51 -> 71 + p [] p \in 52 .. 61 -> p - 4
                         [] p = 62 -> IF url THEN 45 ELSE 43 [] OTHER -> IF url THEN 95 ELSE 47]
Padding == 61

Refused == [ok |-> FALSE, bytes |-> <<>>]
Done(bytes) == [ok |-> TRUE, bytes |-> bytes]

\* What room there is: none is given, or so many bytes.
LOCAL Fits(length, room) == room = 0 \/ length <= room

\* Three bytes, of which the last may be missing, as four positions.
LOCAL ByteAt(s, i) == IF i <= Len(s) THEN s[i] ELSE 0
LOCAL Positions(s, i) ==
    <<ByteAt(s, i) \div 4, (ByteAt(s, i) % 4) * 16 + ByteAt(s, i + 1) \div 16,
      (ByteAt(s, i + 1) % 16) * 4 + ByteAt(s, i + 2) \div 64, ByteAt(s, i + 2) % 64>>

\* Changed: a group that is full is padded as well.
FillBitsAlways(length) == 3 - (length % 3)

FillBits(length) == (3 - (length % 3)) % 3

Base64Encode(s, room, url) ==
    LET length == ((Len(s) + 2) \div 3) * 4
    IN IF s = <<>> \/ ~Fits(length, room) THEN Refused
       ELSE Done([k \in 1 .. length |->
                      IF k > length - FillBits(Len(s)) THEN Padding
                      ELSE Alphabet(url)[Positions(s, ((k - 1) \div 4) * 3 + 1)[((k - 1) % 4) + 1]]])

\* The place of a byte in the alphabet; a padding has none.
AlphabetPosition(byte, url) == {p \in 0 .. 63 : Alphabet(url)[p] = byte}
LOCAL Place(byte, url) == CHOOSE p \in AlphabetPosition(byte, url) : TRUE

\* The end of the last group may be padding; what its bits say is not looked at.
Base64Decode(t, room, url) ==
    LET length == Len(t)
        fill == Len(SelectSeq(SubSeq(t, length - 1, length), LAMBDA b : b = Padding))
        place(k) == IF k <= length - fill THEN Place(t[k], url) ELSE 0
        byte(g, n) == CASE n = 0 -> place(g + 1) * 4 + place(g + 2) \div 16
                        [] n = 1 -> place(g + 2) * 16 + place(g + 3) \div 4
                        [] OTHER -> place(g + 3) * 64 + place(g + 4)
        size == (length \div 4) * 3 - fill
    IN IF length = 0 \/ length % 4 # 0 \/ ~Fits(size, room) \/ \E k \in 1 .. length - fill : AlphabetPosition(t[k], url) = {}
       THEN Refused
       ELSE Done([i \in 1 .. size |-> byte(((i - 1) \div 3) * 4, (i - 1) % 3) % 256])

-----------------------------------------------------------------------------
\* dtn_convert.c, bytes.
HexDigit(p) == IF p < 10 THEN 48 + p ELSE 55 + p

\* hextobin: both cases are read.
HexValue(b) ==
    CASE b \in 48 .. 57 -> {b - 48} [] b \in 65 .. 70 -> {b - 55} [] b \in 97 .. 102 -> {b - 87} [] OTHER -> {}

BinaryToHex(s, room) ==
    IF s = <<>> \/ ~Fits(2 * Len(s) + 1, room) THEN Refused
    ELSE Done([k \in 1 .. 2 * Len(s) |->
                 LET byte == s[(k + 1) \div 2] IN HexDigit(IF k % 2 = 1 THEN byte \div 16 ELSE byte % 16)])

IsSpace(b) == b \in (9 .. 13) \cup {32}

\* A prefix may stand before any two digits.  To see one the byte behind is
\* read, for the last byte of the text as well.
PrefixAt(t, i, behind) == t[i] = 48 /\ (IF i < Len(t) THEN t[i + 1] ELSE behind) = 120
Skipped(t, i, behind) ==
    IsSpace(t[i]) \/ PrefixAt(t, i, behind) \/ (i > 1 /\ PrefixAt(t, i - 1, behind))

HexToBinary(t, room, behind) ==
    LET digit(i) == HexValue(t[i]) # {}
        good(i) ==
          IF PrefixAt(t, i, behind) THEN i + 3 <= Len(t) /\ digit(i + 2) /\ digit(i + 3)
          ELSE Skipped(t, i, behind) \/ digit(i)
        clean == SelectSeq([i \in DOMAIN t |-> i], LAMBDA i : ~Skipped(t, i, behind))
        value(k) == CHOOSE p \in HexValue(t[clean[k]]) : TRUE
    IN IF t = <<>> \/ (\E i \in DOMAIN t : ~good(i)) \/ Len(clean) % 2 # 0 \/ ~Fits(Len(clean) \div 2, room)
       THEN Refused
       ELSE Done([k \in 1 .. Len(clean) \div 2 |-> value(2 * k - 1) * 16 + value(2 * k)])

-----------------------------------------------------------------------------
\* dtn_convert.c, numbers.
Most(bits) == 2 ^ bits - 1
LongMax == Most(4 * Halfword - 1)

NoNumber == [ok |-> FALSE, number |-> 0]
Number(n) == [ok |-> TRUE, number |-> n]

\* strtoll: blanks, a sign and digits, up to the largest and the smallest long
\* long; `rest' is the byte behind them, 0 at the end.
Strtoll(t) ==
    LET at(i) == IF i <= Len(t) THEN t[i] ELSE 0
        first == CHOOSE i \in 1 .. Len(t) + 1 : ~IsSpace(at(i)) /\ \A j \in 1 .. i - 1 : IsSpace(t[j])
        from == IF at(first) \in {43, 45} THEN first + 1 ELSE first
        stop == CHOOSE i \in from .. Len(t) + 2 : at(i) \notin 48 .. 57 /\ \A j \in from .. i - 1 : t[j] \in 48 .. 57
        positive == at(first) # 45
        limit == IF positive THEN LongMax ELSE LongMax + 1
        value == FoldLeft(LAMBDA n, b : IF n * 10 + b - 48 > limit THEN limit ELSE n * 10 + b - 48,
                          0, SubSeq(t, from, stop - 1))
    IN IF stop = from THEN [number |-> 0, rest |-> at(1)]
       ELSE [number |-> IF positive THEN value ELSE -value, rest |-> at(stop)]

\* Changed: what stands behind the number is not looked at.
StringToUintBeginning(t, max) ==
    IF t = <<>> \/ Strtoll(t).number \notin 0 .. max THEN NoNumber ELSE Number(Strtoll(t).number)

StringToUint(t, max) ==
    IF t = <<>> \/ Strtoll(t).number \notin 0 .. max \/ Strtoll(t).rest # 0 THEN NoNumber
    ELSE Number(Strtoll(t).number)
StringToUint64(t) == StringToUint(t, Most(4 * Halfword))
StringToUint32(t) == StringToUint(t, Most(2 * Halfword))
StringToUint16(t) == StringToUint(t, Most(Halfword))
StringToInt64(t) == IF t = <<>> \/ Strtoll(t).rest # 0 THEN NoNumber ELSE Number(Strtoll(t).number)

LOCAL DecimalDigits(n) ==
    LET length == CHOOSE k \in 1 .. n + 1 : 10 ^ k > n /\ (k > 1 => 10 ^ (k - 1) <= n)
    IN [i \in 1 .. length |-> 48 + ((n \div 10 ^ (length - i)) % 10)]
LOCAL Printed(n) == IF n < 0 THEN <<45>> \o DecimalDigits(-n) ELSE DecimalDigits(n)
LOCAL Given(text, room) == IF Fits(Len(text), room) THEN Done(text) ELSE Refused

Int64ToString(n, room) == Given(Printed(n), room)
Uint64ToString(n, room) == Given(Printed(n), room)
\* It is printed as an int.
Uint32ToString(n, room) ==
    Given(Printed(IF n > Most(2 * Halfword - 1) THEN n - 2 ^ (2 * Halfword) ELSE n), room)

-----------------------------------------------------------------------------
\* dtn_endian.c.
Bits(n) == {b \in 0 .. 30 : (n \div 2 ^ b) % 2 = 1}
LowByte(w) == {b \in w : b < 8}
Value(w) == MapThenSumSet(LAMBDA b : 2 ^ b, w)
Right(w, n) == {b - n : b \in {c \in w : c >= n}}

WriteUint(w, width, room) ==
    IF room < width THEN Refused ELSE Done([k \in 1 .. width |-> Value(LowByte(Right(w, 8 * (width - k))))])

ReadUint(s, width) ==
    IF Len(s) < width THEN [ok |-> FALSE, word |-> {}]
    ELSE [ok |-> TRUE, word |-> UNION {{b + 8 * (width - k) : b \in Bits(s[k])} : k \in 1 .. width}]

-----------------------------------------------------------------------------
\* dtn_crc16.c.
fcstab ==
  <<\H0000, \H1189, \H2312, \H329b, \H4624, \H57ad, \H6536, \H74bf, \H8c48, \H9dc1, \Haf5a, \Hbed3,
    \Hca6c, \Hdbe5, \He97e, \Hf8f7, \H1081, \H0108, \H3393, \H221a, \H56a5, \H472c, \H75b7, \H643e,
    \H9cc9, \H8d40, \Hbfdb, \Hae52, \Hdaed, \Hcb64, \Hf9ff, \He876, \H2102, \H308b, \H0210, \H1399,
    \H6726, \H76af, \H4434, \H55bd, \Had4a, \Hbcc3, \H8e58, \H9fd1, \Heb6e, \Hfae7, \Hc87c, \Hd9f5,
    \H3183, \H200a, \H1291, \H0318, \H77a7, \H662e, \H54b5, \H453c, \Hbdcb, \Hac42, \H9ed9, \H8f50,
    \Hfbef, \Hea66, \Hd8fd, \Hc974, \H4204, \H538d, \H6116, \H709f, \H0420, \H15a9, \H2732, \H36bb,
    \Hce4c, \Hdfc5, \Hed5e, \Hfcd7, \H8868, \H99e1, \Hab7a, \Hbaf3, \H5285, \H430c, \H7197, \H601e,
    \H14a1, \H0528, \H37b3, \H263a, \Hdecd, \Hcf44, \Hfddf, \Hec56, \H98e9, \H8960, \Hbbfb, \Haa72,
    \H6306, \H728f, \H4014, \H519d, \H2522, \H34ab, \H0630, \H17b9, \Hef4e, \Hfec7, \Hcc5c, \Hddd5,
    \Ha96a, \Hb8e3, \H8a78, \H9bf1, \H7387, \H620e, \H5095, \H411c, \H35a3, \H242a, \H16b1, \H0738,
    \Hffcf, \Hee46, \Hdcdd, \Hcd54, \Hb9eb, \Ha862, \H9af9, \H8b70, \H8408, \H9581, \Ha71a, \Hb693,
    \Hc22c, \Hd3a5, \He13e, \Hf0b7, \H0840, \H19c9, \H2b52, \H3adb, \H4e64, \H5fed, \H6d76, \H7cff,
    \H9489, \H8500, \Hb79b, \Ha612, \Hd2ad, \Hc324, \Hf1bf, \He036, \H18c1, \H0948, \H3bd3, \H2a5a,
    \H5ee5, \H4f6c, \H7df7, \H6c7e, \Ha50a, \Hb483, \H8618, \H9791, \He32e, \Hf2a7, \Hc03c, \Hd1b5,
    \H2942, \H38cb, \H0a50, \H1bd9, \H6f66, \H7eef, \H4c74, \H5dfd, \Hb58b, \Ha402, \H9699, \H8710,
    \Hf3af, \He226, \Hd0bd, \Hc134, \H39c3, \H284a, \H1ad1, \H0b58, \H7fe7, \H6e6e, \H5cf5, \H4d7c,
    \Hc60c, \Hd785, \He51e, \Hf497, \H8028, \H91a1, \Ha33a, \Hb2b3, \H4a44, \H5bcd, \H6956, \H78df,
    \H0c60, \H1de9, \H2f72, \H3efb, \Hd68d, \Hc704, \Hf59f, \He416, \H90a9, \H8120, \Hb3bb, \Ha232,
    \H5ac5, \H4b4c, \H79d7, \H685e, \H1ce1, \H0d68, \H3ff3, \H2e7a, \He70e, \Hf687, \Hc41c, \Hd595,
    \Ha12a, \Hb0a3, \H8238, \H93b1, \H6b46, \H7acf, \H4854, \H59dd, \H2d62, \H3ceb, \H0e70, \H1ff9,
    \Hf78f, \He606, \Hd49d, \Hc514, \Hb1ab, \Ha022, \H92b9, \H8330, \H7bc7, \H6a4e, \H58d5, \H495c,
    \H3de3, \H2c6a, \H1ef1, \H0f78>>

LOCAL All(width) == 0 .. width - 1

pppfcs16(fcs, s) ==
    FoldLeft(LAMBDA f, d : SymDiff(Right(f, 8), Bits(fcstab[Value(LowByte(SymDiff(f, Bits(d)))) + 1])), fcs, s)

crc16x25(s) == IF s = <<>> THEN {} ELSE SymDiff(pppfcs16(All(16), s), All(16))

\* dtn_crc32.c: a table is indexed by the bits of a byte.
Left(w, n) == {b + n : b \in {c \in w : c + n < 32}}
ReflectBits(w) == {31 - b : b \in w}

LookupEntry(i, poly) ==
    LET r[k \in 0 .. 8] ==
          IF k = 0 THEN Left(i, 24)
          ELSE IF 31 \in r[k - 1] THEN SymDiff(Left(r[k - 1], 1), poly) ELSE Left(r[k - 1], 1)
    IN r[8]

LookupEntryReflected(i, poly) ==
    LET r[k \in 0 .. 8] ==
          IF k = 0 THEN i
          ELSE IF 0 \in r[k - 1] THEN SymDiff(Right(r[k - 1], 1), poly) ELSE Right(r[k - 1], 1)
    IN r[8]

GenerateTable(poly, reverted) ==
    [i \in SUBSET All(8) |->
        IF reverted THEN LookupEntryReflected(i, ReflectBits(poly)) ELSE LookupEntry(i, poly)]

StraightIn(crc, s, lookup) ==
    FoldLeft(LAMBDA c, d : SymDiff(Left(c, 8), lookup[SymDiff(Bits(d), LowByte(Right(c, 24)))]), crc, s)

\* Changed: the register is not shifted.
ReflectedInPlace(crc, s, lookup) ==
    FoldLeft(LAMBDA c, d : SymDiff(c \ All(8), lookup[SymDiff(Bits(d), LowByte(c))]), crc, s)

ReflectedIn(crc, s, lookup) ==
    FoldLeft(LAMBDA c, d : SymDiff(Right(c, 8), lookup[SymDiff(Bits(d), LowByte(c))]), crc, s)

Crc32Sum(crc, s, rfin, rfout, lookup) ==
    LET sum == IF rfin THEN ReflectedIn(crc, s, lookup) ELSE StraightIn(crc, s, lookup)
    IN IF rfin = rfout THEN sum ELSE ReflectBits(sum)

Polynomial == Bits(\H04c11db7)
Castagnoli == Bits(\H1EDC6F41)
StraightTable == GenerateTable(Polynomial, FALSE)
ReflectedTable == GenerateTable(Polynomial, TRUE)
CastagnoliTable == GenerateTable(Castagnoli, TRUE)

Crc32Ogg(init, s) == Crc32Sum(init, s, FALSE, FALSE, StraightTable)
Crc32Posix(s) == SymDiff(Crc32Ogg({}, s), All(32))
Crc32Zlib(init, s) == SymDiff(Crc32Sum(SymDiff(init, All(32)), s, TRUE, TRUE, ReflectedTable), All(32))
Crc32c(s) == SymDiff(Crc32Sum(All(32), s, TRUE, TRUE, CastagnoliTable), All(32))

-----------------------------------------------------------------------------
\* Bytes written as text come back, whatever their number, into new memory or
\* into as much as there must be, in the alphabet they were written in; texts of
\* the two alphabets are taken for one another only where they are the same.
Base64IsRead(s) ==
    \A url \in BOOLEAN : \A out \in {Base64Encode(s, 0, url)} :
        s # <<>> =>
            /\ out.ok /\ out = Base64Encode(s, Len(out.bytes), url) /\ ~Base64Encode(s, Len(out.bytes) - 1, url).ok
            /\ Base64Decode(out.bytes, 0, url) = Done(s) /\ Base64Decode(out.bytes, Len(s), url) = Done(s)
            /\ Base64Decode(out.bytes, 0, ~url).ok => Base64Encode(s, 0, ~url) = out

\* Bytes written as hex digits come back, with or without blanks or a prefix
\* before each pair, and into as much room as there must be.
HexIsRead(s) ==
    \A text \in {BinaryToHex(s, 0)} :
        s # <<>> =>
            /\ text.ok /\ text = BinaryToHex(s, 2 * Len(s) + 1) /\ ~BinaryToHex(s, 2 * Len(s)).ok
            /\ \A before \in {<<>>, <<32>>, <<48, 120>>} :
                  LET spaced == FlattenSeq([i \in DOMAIN s |-> before \o SubSeq(text.bytes, 2 * i - 1, 2 * i)])
                  IN HexToBinary(spaced, 0, 0) = Done(s) /\ HexToBinary(spaced, Len(s), 0) = Done(s)

\* A number comes back from its text, or is refused; none is read as another,
\* but for one that no long long is: it becomes the largest.  Refused is what has
\* no room in the type that is asked for, and also, of the numbers of 32 bits,
\* those from 2^31 on: they are printed as int, with a sign.  Text behind a number
\* is not taken for it.
TextIsNumber(n) ==
    LET cut(text) == {text.bytes, text.bytes \o <<0, 97>>, <<32, 43>> \o text.bytes}
    IN /\ n >= 0 =>
            /\ \A t \in cut(Uint64ToString(n, 0)) :
                  /\ StringToUint64(t) = Number(IF n > LongMax THEN LongMax ELSE n)
                  /\ StringToUint16(t) = (IF n > Most(Halfword) THEN NoNumber ELSE Number(n))
                  /\ StringToUint64(t \o <<97>>) = NoNumber \/ \E i \in DOMAIN t : t[i] = 0
            /\ n <= Most(2 * Halfword) =>
                  \A t \in cut(Uint32ToString(n, 0)) :
                      StringToUint32(t) = (IF n > Most(2 * Halfword - 1) THEN NoNumber ELSE Number(n))
       /\ n \in -LongMax - 1 .. LongMax => StringToInt64(Int64ToString(n, 0).bytes) = Number(n)

\* A number comes back from the bytes it was written to, its highest first, and
\* neither it nor its buffer is touched where the room is too small.
WordIsCarried(w) ==
    \A width \in {2, 4, 8} : w \subseteq All(8 * width) =>
        \A out \in {WriteUint(w, width, width)} :
            /\ ReadUint(out.bytes, width) = [ok |-> TRUE, word |-> w]
            /\ width < 8 => WriteUint(w, 2 * width, 2 * width).bytes = [k \in 1 .. width |-> 0] \o out.bytes
            /\ ~WriteUint(w, width, width - 1).ok /\ ~ReadUint(Front(out.bytes), width).ok

\* The remainder of the division, bit by bit.
LOCAL Divided(register, bits, poly, width) ==
    LET up(r) == {b + 1 : b \in r \ {width - 1}}
    IN FoldLeft(LAMBDA r, bit : IF bit # (width - 1 \in r) THEN SymDiff(up(r), poly) ELSE up(r), register, bits)
LOCAL BitsOf(s, lowFirst) ==
    [k \in 1 .. 8 * Len(s) |-> (IF lowFirst THEN (k - 1) % 8 ELSE 7 - ((k - 1) % 8)) \in Bits(s[(k + 7) \div 8])]
LOCAL Reflected(w, width) == {width - 1 - b : b \in w}

\* The tables give the remainder of the division by their polynomials; a sum
\* may be taken in two parts; no two sequences that differ in one byte have
\* the same.
SumsAreRemainders(s) ==
    LET remainder(poly, width) ==
          SymDiff(Reflected(Divided(All(width), BitsOf(s, TRUE), poly, width), width), All(width))
    IN s # <<>> =>
         /\ crc16x25(s) = remainder(Bits(\H1021), 16)
         /\ Crc32c(s) = remainder(Castagnoli, 32)
         /\ Crc32Zlib({}, s) = remainder(Polynomial, 32)
         /\ Crc32Posix(s) = SymDiff(Divided({}, BitsOf(s, FALSE), Polynomial, 32), All(32))
         /\ \A k \in 1 .. Len(s) :
               LET begin == SubSeq(s, 1, k) end == SubSeq(s, k + 1, Len(s))
               IN /\ Crc32Zlib(Crc32Zlib({}, begin), end) = Crc32Zlib({}, s)
                  /\ Crc32Ogg(Crc32Ogg({0}, begin), end) = Crc32Ogg({0}, s)
                  /\ \A b \in {0, 1, 255} \ {s[k]} : crc16x25([s EXCEPT ![k] = b]) # crc16x25(s)
                                                     /\ Crc32c([s EXCEPT ![k] = b]) # Crc32c(s)
=============================================================================
