-------------------------------- MODULE Http --------------------------------
(***************************************************************************)
(* dtn_http_pointer.c: HTTP messages put together and taken apart.  A text  *)
(* is a sequence of characters, and a buffer is the text in it.  The parsers *)
(* of the code get a place and the size up to the end of the buffer; here   *)
(* they get the buffer s and the place p.  What they read behind the end is *)
(* the zero of the excess byte every buffer has.                            *)
(* Upper and lower case, tabs, and signs in numbers are left out; the names *)
(* of the headers, of the method GET and of the encoding "chunked" are      *)
(* shorter than the real ones, and the bounds of the configuration with them. *)
(***************************************************************************)
EXTENDS Integers, SequencesExt

CONSTANTS
    MaxMethod,      \* config.header.max_bytes_method_name
    MaxLine,        \* config.header.max_bytes_line
    MaxHeaders,     \* config.header.capacity
    MaxTransfer,    \* config.transfer.max
    MaxUri,         \* PATH_MAX
    BufferLimit,    \* config.buffer.default_size
    UriIsValid(_)   \* dtn_uri_string_is_valid

Digits == <<"0", "1", "2", "3", "4", "5", "6", "7", "8", "9">>
IsDigit(c) == \E i \in DOMAIN Digits : Digits[i] = c
IsHex(c) == IsDigit(c) \/ c = "a"
ValueOf(c) == IF c = "a" THEN 10 ELSE (CHOOSE i \in DOMAIN Digits : Digits[i] = c) - 1

CRLF == <<"CR", "LF">>
At(s, i) == IF i \in DOMAIN s THEN s[i] ELSE "zero"

IsWhitespace(c) == c = " "
IsControl(c) == c \in {"CR", "LF", "zero"}
IsSeparator(c) == c \in {" ", ":", ",", ";", "=", "/", "quote", "esc"}
IsToken(c) == ~IsControl(c) /\ ~IsSeparator(c)
IsTokenString(t) == t # <<>> /\ \A i \in DOMAIN t : IsToken(t[i])
IsReasonPhrase(t) == \A i \in DOMAIN t : ~IsControl(t[i])

\* No control characters but a line end with white space behind it.
IsText(t) ==
    \A i \in DOMAIN t : IsControl(t[i]) =>
        \/ t[i] = "CR" /\ At(t, i + 1) = "LF" /\ IsWhitespace(At(t, i + 2))
        \/ t[i] = "LF" /\ At(t, i - 1) = "CR" /\ IsWhitespace(At(t, i + 1))

IsQuotedChar(c) == c \notin {"quote", "esc"} /\ ~IsControl(c)
RECURSIVE IsQuoted(_)
IsQuoted(t) ==
    \/ t = <<>>
    \/ IsQuotedChar(t[1]) /\ IsQuoted(Tail(t))
    \/ t[1] = "esc" /\ Len(t) > 1 /\ ~IsControl(t[2]) /\ IsQuoted(SubSeq(t, 3, Len(t)))
IsQuotedString(t) ==
    Len(t) > 1 /\ t[1] = "quote" /\ t[Len(t)] = "quote" /\ IsQuoted(SubSeq(t, 2, Len(t) - 1))

-----------------------------------------------------------------------------
\* Places: the first c among n characters from p on, the first line end there,
\* and 0 if there is none.
Size(s, p) == Len(s) - p + 1
SmallerOf(a, b) == IF a < b THEN a ELSE b
Least(set) == IF set = {} THEN 0 ELSE CHOOSE i \in set : \A j \in set : i <= j
Find(s, p, n, c) == Least({i \in p .. p + n - 1 : At(s, i) = c})
FindLineEnd(s, p, n) == Least({i \in p .. p + n - 2 : At(s, i) = "CR" /\ At(s, i + 1) = "LF"})

\* How many white spaces are passed from p on: the way from `start' is compared
\* with what is left of n, so that no more than about half of n is passed.
Skipped(s, p, start, n) ==
    Least({k \in 1 .. n + 1 : ~IsWhitespace(At(s, p + k - 1)) \/ p + k - 1 - start >= n - k + 1}) - 1

Progress == [state |-> "progress"]
Error == [state |-> "error"]

HttpSlash == <<"H", "T", "T", "P", "/">>
VersionAt(s, p, q, length, size) ==
    IF \E i \in 1 .. 5 : i <= size /\ At(s, q + i - 1) # HttpSlash[i] THEN Error
    ELSE IF length < 6 THEN Progress
    ELSE IF ~IsDigit(At(s, q + 5)) THEN Error
    ELSE IF length < 7 THEN Progress
    ELSE IF At(s, q + 6) # "." THEN Error
    ELSE IF size < 8 THEN Progress
    ELSE IF IsDigit(At(s, q + 7)) THEN [state |-> "success"] ELSE Error

ParseVersion(s, p) ==
    LET length == Size(s, p)
        skipped == Skipped(s, p, p, length)
    IN IF length = 0 THEN Progress ELSE VersionAt(s, p, p + skipped, length, length - skipped)

PhraseOf(s, q, end) ==
    LET phrase == SubSeq(s, q + 13, end - 1)
    IN IF end = 0 THEN Progress
       ELSE IF phrase = <<>> \/ ~IsReasonPhrase(phrase) THEN Error
       ELSE [state |-> "success", line |-> [kind |-> "status", code |-> SubSeq(s, q + 9, q + 11)], next |-> end + 2]

StatusAt(s, q, size) ==
    IF size = 8 THEN Progress
    ELSE IF At(s, q + 8) # " " THEN Error
    ELSE IF size = 9 THEN Progress
    ELSE IF \E i \in 9 .. 11 : i < size /\ ~IsDigit(At(s, q + i)) THEN Error
    ELSE IF size < 13 THEN Progress
    ELSE IF At(s, q + 12) # " " THEN Error
    ELSE IF size = 13 THEN Progress
    ELSE PhraseOf(s, q, FindLineEnd(s, q + 13, size - 12))

ParseStatusLine(s, p) ==
    LET skipped == Skipped(s, p, p, Size(s, p))
        version == ParseVersion(s, p + skipped)
    IN IF version.state = "success" THEN StatusAt(s, p + skipped, Size(s, p) - skipped) ELSE version

\* A part of the request line up to a space, which has to come before the end
\* of the line: the method, which is refused when it might get too long (`full'),
\* and the address.
PartAt(s, q, n, lineend, full, limit) ==
    LET space == Find(s, q, n, " ")
    IN IF space = 0 THEN (IF full \/ lineend # 0 THEN Error ELSE Progress)
       ELSE IF space - q > limit \/ (lineend # 0 /\ lineend < space) THEN Error
       ELSE [state |-> "success", part |-> SubSeq(s, q, space - 1), next |-> space + 1]

MethodAt(s, q, n, lineend) ==
    PartAt(s, q, n, lineend, n >= MaxMethod, MaxMethod)
UriAt(s, q, n, lineend) ==
    PartAt(s, q, n, lineend, n > MaxUri, MaxUri)

LineAfter(s, method, uri, version) ==
    LET size == Size(s, uri.next)
    IN IF version.state # "success" THEN version
       ELSE IF size < 10 THEN Progress
       ELSE IF At(s, uri.next + 8) # "CR" \/ At(s, uri.next + 9) # "LF" THEN Error
       ELSE [state |-> "success", next |-> uri.next + 10,
             line |-> [kind |-> "request", method |-> method.part, uri |-> uri.part]]

AddressAfter(s, method, lineend) ==
    LET size == Size(s, method.next)
        uri == UriAt(s, method.next, size, lineend)
    IN IF ~IsTokenString(method.part) THEN Error
       ELSE IF size < 1 THEN Progress
       ELSE IF uri.state # "success" THEN uri
       ELSE IF ~UriIsValid(uri.part) THEN Error
       ELSE IF Size(s, uri.next) < 1 THEN Progress
       ELSE LineAfter(s, method, uri, ParseVersion(s, uri.next))

ParseRequestLine(s, p) ==
    LET lineend == Find(s, p, Size(s, p), "CR")
        skipped == Skipped(s, p, p, Size(s, p))
        method == MethodAt(s, p + skipped, Size(s, p) - skipped, lineend)
    IN IF method.state = "success" THEN AddressAfter(s, method, lineend) ELSE method

-----------------------------------------------------------------------------
\* Header lines.  The size is what the code goes on with: white space in front
\* of the value is compared with the way from the beginning of the line, and
\* the size behind a line end is too large by the length of the value, so that
\* a folded line may be looked for behind the end.
Folded(s, p) == IsWhitespace(At(s, p))
RECURSIVE EndOfFolded(_, _, _)
EndOfFolded(s, lineend, size) ==
    IF lineend = 0 \/ size = 2 THEN 0
    ELSE IF Folded(s, lineend + 2) THEN EndOfFolded(s, FindLineEnd(s, lineend + 2, size - 2), size - 2)
    ELSE lineend

\* White space in front of the line end is not part of the value, which may not
\* have one character only before it, nor be empty behind white space.
RECURSIVE LastOfValue(_, _, _)
LastOfValue(s, q, value) ==
    IF ~IsWhitespace(At(s, q)) THEN q ELSE IF q - 1 = value THEN 0 ELSE LastOfValue(s, q - 1, value)

ValueAt(s, name, value, lineend) ==
    LET last == LastOfValue(s, lineend - 1, value)
        content == SubSeq(s, value, last)
    IN IF last = 0 \/ last < value - 1 \/ ~IsText(content) THEN Error
       ELSE [state |-> "success", next |-> lineend + 2,
             header |-> [name |-> name, value |-> content, at |-> value, blank |-> IsWhitespace(At(s, last + 1))]]

ContentAt(s, p, name, value, size) ==
    LET lineend == FindLineEnd(s, value, size)
        end == EndOfFolded(s, lineend, size)
    IN IF lineend = 0 THEN (IF MaxLine < Size(s, p) THEN Error ELSE Progress)
       ELSE IF end = 0 THEN Progress
       ELSE ValueAt(s, name, value, end)

ValueBehind(s, p, name, colon, size) ==
    LET skipped == Skipped(s, colon + 1, p, size)
    IN ContentAt(s, p, name, colon + 1 + skipped, size - skipped)

NameAt(s, p, q, size, lineend) ==
    LET colon == Find(s, q, size, ":")
        name == SubSeq(s, q, colon - 1)
    IN IF colon = 0 THEN (IF lineend # 0 \/ size > MaxLine THEN Error ELSE Progress)
       ELSE IF (lineend # 0 /\ lineend < colon) \/ ~IsTokenString(name) THEN Error
       ELSE ValueBehind(s, p, name, colon, size - Len(name) - 1)

ParseHeaderLine(s, p) ==
    LET lineend == Find(s, p, Size(s, p), "CR")
        skipped == Skipped(s, p, p, Size(s, p))
    IN IF lineend # 0 /\ lineend - p > MaxLine THEN Error
       ELSE NameAt(s, p, p + skipped, Size(s, p) - skipped, lineend)

HeaderEnd(s, p, headers) ==
    IF Size(s, p) = 0 THEN Progress
    ELSE IF At(s, p) # "CR" THEN Error
    ELSE IF Size(s, p) = 1 THEN Progress
    ELSE IF At(s, p + 1) # "LF" THEN Error
    ELSE [state |-> "success", headers |-> headers, next |-> p + 2]

\* The end of the header has to come while there is a place for a line.
RECURSIVE HeadersFrom(_, _, _)
HeadersFrom(s, p, headers) ==
    LET line == ParseHeaderLine(s, p)
    IN IF Len(headers) = MaxHeaders THEN [state |-> "oob"]
       ELSE CASE line.state = "success"  -> HeadersFrom(s, line.next, Append(headers, line.header))
              [] line.state = "progress" -> Progress
              [] OTHER                   -> HeaderEnd(s, p, headers)

ParseHeader(s, p) == HeadersFrom(s, p, <<>>)

\* The headers of a name, in their order; unique is the only one.
Named(headers, name) == SelectSeq(headers, LAMBDA h : h.name = name)
IsUnique(headers, name) == Len(Named(headers, name)) = 1
ValueNamed(headers, name) == Named(headers, name)[1].value

-----------------------------------------------------------------------------
\* Encodings.  The code measures a token from its first character to its last,
\* without the last, wherever something comes behind it but the end of the text;
\* the length is what is compared with "chunked".
Method == <<"G", "E">>
ContentLength == <<"c">>
TransferEncoding == <<"t">>
Chunked == <<"k", "u">>

\* Backwards from q over white space, not past p; 0 if there is nothing else.
RECURSIVE BackFrom(_, _, _)
BackFrom(s, q, p) == IF ~IsWhitespace(At(s, q)) THEN q ELSE IF q = p THEN 0 ELSE BackFrom(s, q - 1, p)
Pointed(s, p, last) == SubSeq(s, p, last - 1)

RECURSIVE PastBlanks(_, _)
PastBlanks(s, p) == IF IsWhitespace(At(s, p)) THEN PastBlanks(s, p + 1) ELSE p

\* Key and value of a parameter of an encoding; the next one begins behind the
\* semicolon.
RECURSIVE ParametersFrom(_, _)
ParametersFrom(t, first) ==
    LET key == PastBlanks(t, first)
        equal == Find(t, key, Size(t, key), "=")
        last == BackFrom(t, equal - 1, first)
        value == PastBlanks(t, equal + 1)
        semicolon == Find(t, value, Size(t, value), ";")
        end == BackFrom(t, semicolon - 1, value)
        text == IF semicolon = 0 THEN SubSeq(t, value, Len(t)) ELSE Pointed(t, value, end)
    IN /\ key <= Len(t) /\ equal > first
       /\ last > first
       /\ IsTokenString(Pointed(t, key, last))
       /\ semicolon # 0 => end # 0
       /\ IsTokenString(text) \/ IsQuotedString(text)
       /\ semicolon # 0 => ParametersFrom(t, semicolon + 1)

EncodingIsValid(t) ==
    LET semicolon == Find(t, 1, Len(t), ";")
        last == BackFrom(t, semicolon - 1, 1)
    IN IF semicolon = 0 THEN IsTokenString(t)
       ELSE semicolon > 1 /\ last # 0 /\ IsTokenString(Pointed(t, 1, last)) /\ ParametersFrom(t, semicolon + 1)

\* The encodings of one header, from p on: <<>> for none that is valid.
RECURSIVE EncodingsFrom(_, _, _)
EncodingsFrom(t, p, blank) ==
    LET start == IF IsWhitespace(At(t, p)) THEN p + 1 ELSE p
        comma == Find(t, start, Size(t, start), ",")
        one == IF comma = 0 THEN SubSeq(t, start, IF blank THEN Len(t) - 1 ELSE Len(t))
                            ELSE Pointed(t, start, BackFrom(t, comma - 1, start))
        others == EncodingsFrom(t, comma + 1, blank)
    IN CASE start > Len(t) \/ comma = start \/ comma = Len(t) \/ one = <<>> \/ ~EncodingIsValid(one) -> <<>>
         [] start <= Len(t) /\ comma = 0 -> <<one>>
         [] OTHER -> IF others = <<>> THEN <<>> ELSE <<one>> \o others

EncodingsOf(headers) ==
    [i \in DOMAIN Named(headers, TransferEncoding) |->
        EncodingsFrom(Named(headers, TransferEncoding)[i].value, 1, Named(headers, TransferEncoding)[i].blank)]

\* A place behind the last has to be free when a comma comes.
EncodingsAccepted(lists) ==
    /\ \A i \in DOMAIN lists : lists[i] # <<>>
    /\ Len(FlattenSeq(lists)) <= MaxTransfer

\* The last of several encodings has to be chunked, as far as it is long; one
\* alone is taken for chunked whatever it is.
LastIsChunked(encodings) == Len(encodings) > 1 => IsPrefix(Last(encodings), Chunked)

-----------------------------------------------------------------------------
\* Bodies.
RECURSIVE NumberIn(_, _, _)
NumberIn(s, base, n) == IF s = <<>> THEN n ELSE NumberIn(Tail(s), base, base * n + ValueOf(s[1]))

RECURSIVE ExtensionsFrom(_, _)
ExtensionsFrom(t, p) ==
    LET equal == Find(t, p + 1, Size(t, p + 1), "=")
        next == Find(t, equal + 1, Size(t, equal + 1), ";")
        value == SubSeq(t, equal + 1, IF next = 0 THEN Len(t) ELSE next - 1)
    IN /\ equal # 0
       /\ IsTokenString(SubSeq(t, p + 1, equal - 1))
       /\ IsTokenString(value) \/ IsQuotedString(value)
       /\ next # 0 => ExtensionsFrom(t, next)

Chunk(p, data, size) ==
    [state |-> "success", body |-> SubSeq(data, p, p + size - 1), next |-> p + size + 2]

\* The data of a chunk and the line end behind it; of the last chunk, which has
\* none, the line end behind its head is looked at, and not the one after.
ChunkData(s, p, size) ==
    IF size = 0 THEN Chunk(p, s, 0)
    ELSE IF Size(s, p) < size + 2 THEN Progress
    ELSE IF At(s, p + size) # "CR" \/ At(s, p + size + 1) # "LF" THEN Error
    ELSE Chunk(p, s, size)

ParseChunked(s, p) ==
    LET lineend == Find(s, p, Size(s, p), "CR")
        ext == Find(s, p, lineend - p, ";")
        number == SubSeq(s, p, (IF ext = 0 THEN lineend ELSE ext) - 1)
    IN IF lineend = 0 THEN Progress
       ELSE IF ~\A i \in DOMAIN number : IsHex(number[i]) THEN Error
       ELSE IF ext # 0 /\ ~ExtensionsFrom(SubSeq(s, ext, lineend - 1), 1) THEN Error
       ELSE IF Size(s, p) >= 2 /\ Size(s, p) - 2 < lineend - p THEN Progress
       ELSE IF At(s, lineend + 1) # "LF" THEN Error
       ELSE ChunkData(s, lineend + 2, NumberIn(number, 16, 0))

ParseWithTransfer(s, p, headers) ==
    LET lists == EncodingsOf(headers)
    IN IF EncodingsAccepted(lists) /\ LastIsChunked(FlattenSeq(lists)) THEN ParseChunked(s, p) ELSE Error

\* The number is read from the place of the value on, past line ends too, and
\* has to end before a line end; where there is none, it is 0.
RECURSIVE PastSpace(_, _)
PastSpace(s, p) == IF At(s, p) \in {" ", "CR", "LF"} THEN PastSpace(s, p + 1) ELSE p
RECURSIVE PastDigits(_, _)
PastDigits(s, p) == IF IsDigit(At(s, p)) THEN PastDigits(s, p + 1) ELSE p

\* Changed: a body is taken when its header is complete.
BodyWithHeader(s, p, value) ==
    LET first == PastSpace(s, value)
        length == NumberIn(SubSeq(s, first, PastDigits(s, first) - 1), 10, 0)
        next == SmallerOf(p + length, Len(s) + 1)
    IN [state |-> "success", body |-> SubSeq(s, p, next - 1), next |-> next]

BodyOfLength(s, p, value) ==
    LET first == PastSpace(s, value)
        end == IF IsDigit(At(s, first)) THEN PastDigits(s, first) ELSE value
        length == NumberIn(SubSeq(s, first, end - 1), 10, 0)
    IN IF At(s, end) # "CR" THEN Error
       ELSE IF Len(s) < p - 1 + length THEN Progress
       ELSE [state |-> "success", body |-> SubSeq(s, p, p + length - 1), next |-> p + length]

ParseBody(s, p, headers) ==
    LET length == Named(headers, ContentLength)
        transfer == Named(headers, TransferEncoding)
    IN CASE transfer # <<>> /\ length # <<>>      -> Error
         [] transfer # <<>> /\ length = <<>>      -> ParseWithTransfer(s, p, headers)
         [] transfer = <<>> /\ Len(length) = 1    -> BodyOfLength(s, p, length[1].at)
         [] transfer = <<>> /\ Len(length) > 1    -> Error
         [] transfer = <<>> /\ length = <<>>      -> [state |-> "success", body |-> <<>>, next |-> p]

Message(line, headers, body) == [line |-> line, headers |-> headers, body |-> body]

BehindBody(line, headers, body) ==
    IF body.state # "success" THEN body
    ELSE [state |-> "success", next |-> body.next,
          message |-> Message(line, [i \in DOMAIN headers |-> [name |-> headers[i].name, value |-> headers[i].value]],
                              body.body)]

BehindHeader(s, line, header) ==
    CASE header.state = "progress" -> Progress
      [] header.state = "success"  -> BehindBody(line, header.headers, ParseBody(s, header.next, header.headers))
      [] OTHER                     -> Error

\* What is no status line is a request line; a status line to come is waited for.
StartIfNot(status, s) == IF status.state = "error" THEN ParseRequestLine(s, 1) ELSE status
BehindStart(s, start) ==
    IF start.state = "success" THEN BehindHeader(s, start.line, ParseHeader(s, start.next)) ELSE start
ParseMessage(s) == IF s = <<>> THEN Error ELSE BehindStart(s, StartIfNot(ParseStatusLine(s, 1), s))

\* dtn_http_message_pop: the first message of a buffer, with the buffer that
\* is left.  A last chunk whose final line end is to come ends behind the
\* buffer: the rest cannot be measured, and the buffer is freed with the message.
\* Changed: the buffer goes with the message.
CutWithRest(s, m) == [state |-> "success", message |-> m.message, buffer |-> <<>>]
Cut(s, m) == [state |-> "success", message |-> m.message, buffer |-> SubSeq(s, m.next, Len(s))]
Popped(s, m) ==
    CASE m.state = "progress" -> [state |-> "progress", buffer |-> s]
      [] m.state = "success" /\ m.next > Len(s) + 1 -> [state |-> "lost"]
      [] m.state = "success" /\ m.next <= Len(s) + 1 -> Cut(s, m)
      [] OTHER -> [state |-> "error", buffer |-> s]
MessagePop(s) == IF s[1] = "zero" THEN [state |-> "progress", buffer |-> s] ELSE Popped(s, ParseMessage(s))

-----------------------------------------------------------------------------
\* Building.  A text that does not fit the buffer is cut and a zero put at the
\* end, but its length is taken for the length of the message, unless it is
\* exactly that of the buffer.
Failed == <<"failed">>
Printed(text) ==
    IF Len(text) = BufferLimit THEN Failed
    ELSE [i \in DOMAIN text |-> IF i < BufferLimit \/ Len(text) < BufferLimit THEN text[i] ELSE "zero"]

Version == HttpSlash \o <<"1", ".", "1">>

CreateStatus(code, phrase) ==
    IF phrase = <<>> \/ Len(code) # 3 \/ code[1] = "0" THEN Failed
    ELSE Printed(Version \o <<" ">> \o code \o <<" ">> \o phrase \o CRLF)

CreateRequest(method, uri) ==
    IF method = <<>> \/ uri = <<>> \/ Len(method) > MaxMethod \/ Len(uri) > MaxUri THEN Failed
    ELSE Printed(method \o <<" ">> \o uri \o <<" ">> \o Version \o CRLF)

\* The line has to be there; headers that were added before are not looked at.
AddHeader(s, name, value) ==
    LET line == name \o <<":">> \o value \o CRLF
    IN IF name = <<>> \/ value = <<>> \/ Len(line) > MaxLine THEN Failed
       ELSE IF "success" \notin {ParseStatusLine(s, 1).state, ParseRequestLine(s, 1).state} THEN Failed
       ELSE s \o line

RECURSIVE NumberText(_)
NumberText(n) == IF n < 10 THEN <<Digits[n + 1]>> ELSE NumberText(n \div 10) \o <<Digits[(n % 10) + 1]>>
SetContentLength(s, length) == AddHeader(s, ContentLength, NumberText(length))

CloseHeader(s) == s \o CRLF
AddBody(s, body) == IF body = <<>> \/ Len(s) < 5 \/ ~IsSuffix(CRLF \o CRLF, s) THEN Failed ELSE s \o body

-----------------------------------------------------------------------------
\* Lists with commas.
RECURSIVE Trimmed(_)
Trimmed(t) == IF Len(t) > 1 /\ IsWhitespace(Last(t)) THEN Trimmed(Front(t)) ELSE t

RECURSIVE FindItemInCommaList(_, _)
FindItemInCommaList(t, item) ==
    LET start == PastBlanks(t, 1)
        comma == Find(t, start, Size(t, start), ",")
        one == Trimmed(SubSeq(t, start, IF comma = 0 THEN Len(t) ELSE comma - 1))
    IN CASE start > Len(t) \/ comma = start     -> FALSE
         [] start <= Len(t) /\ one = item       -> TRUE
         [] OTHER -> comma # 0 /\ FindItemInCommaList(SubSeq(t, comma + 1, Len(t)), item)

\* The method is compared as far as it is long.
IsRequest(m, method) == m.line.kind = "request" /\ IsPrefix(m.line.method, method)
=============================================================================
